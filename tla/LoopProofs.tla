----------------------------- MODULE LoopProofs -----------------------------
(***************************************************************************)
(* Loops, for every number of turns.  A loop is a function defined by      *)
(* recursion over its turns: it exists, and what holds before the first    *)
(* turn and is kept by each holds after all.  And two loops over a memory, *)
(* a function on 1 .. last: one that copies cells and one that fills them. *)
(***************************************************************************)
EXTENDS Integers, WellFoundedInduction, TLAPS

(* A nonempty set of naturals has a least element, *)
LEMMA LeastElement ==
  ASSUME NEW T, T \subseteq Nat, T # {}
  PROVE  \E x \in T : \A y \in T : ~(y < x)
<1>1. IsWellFoundedOn(OpToRel(<, Nat), Nat)
  BY NatLessThanWellFounded
<1>2. PICK x \in T : \A y \in T : ~(<<y, x>> \in OpToRel(<, Nat))
  BY <1>1, WFMin
<1>. QED
  BY <1>2 DEF OpToRel

(* so a set of turns that has the first and with each the next has all. *)
LEMMA TurnInduction ==
  ASSUME NEW n \in Nat, NEW P,
         0 \in P, \A k \in 1 .. n : k - 1 \in P => k \in P
  PROVE  0 .. n \subseteq P
<1>. DEFINE T == (0 .. n) \ P
<1>. SUFFICES ASSUME T # {} PROVE FALSE
  OBVIOUS
<1>1. PICK x \in T : \A y \in T : ~(y < x)
  BY LeastElement, T \subseteq Nat
<1>2. x \in 1 .. n /\ x - 1 \in 0 .. n /\ x - 1 < x
  BY <1>1
<1>3. x - 1 \in P
  BY <1>1, <1>2
<1>. QED
  BY <1>1, <1>2, <1>3

(* The run of a loop that turns a state of X into another one, n times: f  *)
(* is the state after each number of turns.                                *)
IsRun(f, n, X, x, turn) ==
  f \in [0 .. n -> X] /\ f[0] = x /\ \A k \in 1 .. n : f[k] = turn[k][f[k - 1]]

LEMMA LoopRuns ==
  ASSUME NEW n \in Nat, NEW X, NEW x \in X, NEW turn \in [1 .. n -> [X -> X]]
  PROVE  \E f : IsRun(f, n, X, x, turn)
<1>. DEFINE Runs(j) == {f \in [0 .. j -> X] :
                          f[0] = x /\ \A k \in 1 .. j : f[k] = turn[k][f[k - 1]]}
            P == {j \in 0 .. n : Runs(j) # {}}
<1>1. 0 \in P
  <2>1. [k \in 0 .. 0 |-> x] \in Runs(0)
    OBVIOUS
  <2>. QED
    BY <2>1
<1>2. ASSUME NEW j \in 1 .. n, j - 1 \in P
      PROVE  j \in P
  <2>1. PICK f \in Runs(j - 1) : TRUE
    BY <1>2
  <2>. DEFINE g == [k \in 0 .. j |-> IF k = j THEN turn[j][f[j - 1]] ELSE f[k]]
  <2>2. f[j - 1] \in X
    BY <2>1
  <2>3. turn[j][f[j - 1]] \in X
    BY <2>2
  <2>4. \A k \in 0 .. j : k # j => k \in 0 .. j - 1
    OBVIOUS
  <2>5. g \in [0 .. j -> X]
    BY <2>1, <2>3, <2>4
  <2>6. g[0] = x
    BY <2>1
  <2>7. ASSUME NEW k \in 1 .. j PROVE g[k] = turn[k][g[k - 1]]
    BY <2>1
  <2>8. g \in Runs(j)
    BY <2>5, <2>6, <2>7
  <2>. HIDE DEF Runs, g
  <2>. QED
    BY <2>8
<1>. HIDE DEF P
<1>3. 0 .. n \subseteq P
  BY <1>1, <1>2, TurnInduction
<1>. QED
  BY <1>3 DEF P, IsRun

-----------------------------------------------------------------------------
(* A loop that adds up: what a turn adds may depend on the turn. *)
SumRun(f, n, e) == f \in [0 .. n -> Nat] /\ f[0] = 0 /\ \A k \in 1 .. n : f[k] = f[k - 1] + e[k]

LEMMA SumRuns ==
  ASSUME NEW n \in Nat, NEW e \in [1 .. n -> Nat]
  PROVE  \E f : SumRun(f, n, e)
<1>. DEFINE turn == [k \in 1 .. n |-> [x \in Nat |-> x + e[k]]]
<1>1. turn \in [1 .. n -> [Nat -> Nat]]
  OBVIOUS
<1>2. PICK f : IsRun(f, n, Nat, 0, turn)
  <2>. HIDE DEF turn
  <2>. QED
    BY <1>1, LoopRuns
<1>3. ASSUME NEW k \in 1 .. n PROVE f[k] = f[k - 1] + e[k]
  <2>1. f[k - 1] \in Nat
    BY <1>2 DEF IsRun
  <2>. QED
    BY <1>2, <2>1 DEF IsRun
<1>. HIDE DEF turn
<1>. QED
  BY <1>2, <1>3 DEF IsRun, SumRun

-----------------------------------------------------------------------------
(* A loop that copies n cells of a memory, turn after turn: f[k] is the    *)
(* memory after k turns.                                                   *)
CopyRun(f, m, d, s, n) ==
  f = [k \in 0 .. n |-> IF k = 0 THEN m
                        ELSE [f[k - 1] EXCEPT ![d + k - 1] = f[k - 1][s + k - 1]]]

CopyLoop(m, d, s, n) == (CHOOSE f : CopyRun(f, m, d, s, n))[n]

CopySteps(f, m, d, s, n) ==
  f[0] = m /\ \A k \in 1 .. n : f[k] = [f[k - 1] EXCEPT ![d + k - 1] = f[k - 1][s + k - 1]]

LEMMA CopyTurns ==
  ASSUME NEW m, NEW d, NEW s, NEW n \in Nat, NEW f, CopyRun(f, m, d, s, n)
  PROVE  CopySteps(f, m, d, s, n)
<1>1. \A k \in 0 .. n : f[k] = IF k = 0 THEN m
                     ELSE [f[k - 1] EXCEPT ![d + k - 1] = f[k - 1][s + k - 1]]
  BY DEF CopyRun
<1>2. 0 \in 0 .. n /\ \A k \in 1 .. n : k \in 0 .. n /\ k # 0
  OBVIOUS
<1>. QED
  BY <1>1, <1>2 DEF CopySteps

LEMMA CopyRuns ==
  ASSUME NEW last \in Nat, NEW chars, NEW m \in [1 .. last -> chars],
         NEW d \in Nat \ {0}, NEW s \in Nat \ {0}, NEW n \in Nat,
         s + n - 1 <= last
  PROVE  \E f : CopyRun(f, m, d, s, n)
<1>. DEFINE X == [1 .. last -> chars]
            turn == [k \in 1 .. n |-> [w \in X |-> [w EXCEPT ![d + k - 1] = w[s + k - 1]]]]
<1>1. turn \in [1 .. n -> [X -> X]]
  <2>1. ASSUME NEW k \in 1 .. n, NEW w \in X
        PROVE  [w EXCEPT ![d + k - 1] = w[s + k - 1]] \in X
    <3>1. s + k - 1 \in 1 .. last
      OBVIOUS
    <3>2. w[s + k - 1] \in chars
      BY <3>1
    <3>. QED
      BY <3>2
  <2>. QED
    BY <2>1
<1>2. PICK f : IsRun(f, n, X, m, turn)
  <2>1. m \in X
    OBVIOUS
  <2>. HIDE DEF turn, X
  <2>. QED
    BY <1>1, <2>1, LoopRuns
<1>3. \A k \in 1 .. n : f[k] = [f[k - 1] EXCEPT ![d + k - 1] = f[k - 1][s + k - 1]]
  <2>. SUFFICES ASSUME NEW k \in 1 .. n
                PROVE  f[k] = [f[k - 1] EXCEPT ![d + k - 1] = f[k - 1][s + k - 1]]
    OBVIOUS
  <2>1. f[k - 1] \in X
    BY <1>2 DEF IsRun
  <2>. QED
    BY <1>2, <2>1 DEF IsRun
<1>4. CopyRun(f, m, d, s, n)
  <2>1. f = [k \in 0 .. n |-> f[k]]
    BY <1>2 DEF IsRun
  <2>2. \A k \in 0 .. n : f[k] = IF k = 0 THEN m
                        ELSE [f[k - 1] EXCEPT ![d + k - 1] = f[k - 1][s + k - 1]]
    <3>. HIDE DEF turn
    <3>1. \A k \in 0 .. n : k # 0 => k \in 1 .. n
      OBVIOUS
    <3>. QED
      BY <1>2, <1>3, <3>1 DEF IsRun
  <2>. QED
    BY <2>1, <2>2 DEF CopyRun
<1>. QED
  BY <1>4

(* What a copy of n cells from s to d makes of memory m: outside of the     *)
(* destination nothing, and in it what is there to be copied.              *)
Spared(w, m, d, n) == \A x \in DOMAIN m : x \notin d .. d + n - 1 => w[x] = m[x]
Arrived(w, m, d, s, n) == \A j \in 0 .. n - 1 : w[d + j] = m[s + j]
NotInside(d, s, n) == d <= s \/ (d .. d + n - 1) \cap (s .. s + n - 1) = {}

(* The loop writes n cells from d on, with what they are to hold if the      *)
(* destination does not begin inside the source.                           *)
LEMMA CopyLoopCopies ==
  ASSUME NEW last \in Nat, NEW chars, NEW m \in [1 .. last -> chars],
         NEW d \in Nat \ {0}, NEW s \in Nat \ {0}, NEW n \in Nat,
         s + n - 1 <= last, d + n - 1 <= last
  PROVE  /\ CopyLoop(m, d, s, n) \in [1 .. last -> chars]
         /\ Spared(CopyLoop(m, d, s, n), m, d, n)
         /\ NotInside(d, s, n) => Arrived(CopyLoop(m, d, s, n), m, d, s, n)
<1>. DEFINE f == CHOOSE f : CopyRun(f, m, d, s, n)
<1>1. CopyLoop(m, d, s, n) = f[n]
  BY DEF CopyLoop
<1>2. CopySteps(f, m, d, s, n)
  <2>1. CopyRun(f, m, d, s, n)
    BY CopyRuns
  <2>. HIDE DEF f
  <2>. QED
    BY <2>1, CopyTurns
<1>. HIDE DEF f
<1>. DEFINE P == {k \in 0 .. n :
                   /\ f[k] \in [1 .. last -> chars]
                   /\ \A x \in 1 .. last : x \notin d .. d + k - 1 => f[k][x] = m[x]
                   /\ d <= s \/ (d .. d + n - 1) \cap (s .. s + n - 1) = {} =>
                        \A j \in 0 .. k - 1 : f[k][d + j] = m[s + j]}
<1>3. 0 \in P
  BY <1>2 DEF CopySteps
<1>4. ASSUME NEW k \in 1 .. n, k - 1 \in P PROVE k \in P
  <2>1. d + k - 1 \in 1 .. last /\ s + k - 1 \in 1 .. last
    OBVIOUS
  <2>2. f[k - 1] \in [1 .. last -> chars] /\ f[k - 1][s + k - 1] \in chars
    <3>1. f[k - 1] \in [1 .. last -> chars]
      BY <1>4
    <3>. QED
      BY <2>1, <3>1
  <2>3. f[k] \in [1 .. last -> chars]
    <3>1. f[k] = [f[k - 1] EXCEPT ![d + k - 1] = f[k - 1][s + k - 1]]
      BY <1>2 DEF CopySteps
    <3>. QED
      BY ONLY <2>2, <3>1
  <2>4. /\ f[k][d + k - 1] = f[k - 1][s + k - 1]
        /\ \A x \in 1 .. last : x # d + k - 1 => f[k][x] = f[k - 1][x]
    BY <1>2, <2>1, <2>2 DEF CopySteps
  <2>5. ASSUME NEW x \in 1 .. last, x \notin d .. d + k - 1 PROVE f[k][x] = m[x]
    <3>1. x # d + k - 1 /\ x \notin d .. d + (k - 1) - 1
      BY <2>1, <2>5
    <3>. QED
      BY <1>4, <2>4, <3>1
  <2>6. ASSUME d <= s \/ (d .. d + n - 1) \cap (s .. s + n - 1) = {},
               NEW j \in 0 .. k - 1
        PROVE  f[k][d + j] = m[s + j]
    <3>1. CASE j = k - 1
      <4>1. s + k - 1 \notin d .. d + (k - 1) - 1
        BY <2>6
      <4>2. f[k - 1][s + k - 1] = m[s + k - 1]
        BY <1>4, <2>1, <4>1
      <4>. QED
        BY <2>4, <3>1, <4>2
    <3>2. CASE j # k - 1
      <4>1. j \in 0 .. (k - 1) - 1 /\ d + j # d + k - 1 /\ d + j \in 1 .. last
        BY <2>1, <3>2
      <4>. QED
        BY <1>4, <2>4, <2>6, <4>1
    <3>. QED
      BY <3>1, <3>2
  <2>7. \A x \in 1 .. last : x \notin d .. d + k - 1 => f[k][x] = m[x]
    BY <2>5
  <2>8. d <= s \/ (d .. d + n - 1) \cap (s .. s + n - 1) = {} =>
          \A j \in 0 .. k - 1 : f[k][d + j] = m[s + j]
    BY <2>6
  <2>9. k \in 0 .. n
    OBVIOUS
  <2>. QED
    BY ONLY <2>3, <2>7, <2>8, <2>9, Zenon
<1>. HIDE DEF P
<1>5. n \in P
  <2>1. 0 .. n \subseteq P
    BY ONLY n \in Nat, <1>3, <1>4, TurnInduction
  <2>. QED
    BY ONLY n \in Nat, <2>1
<1>6. f[n] \in [1 .. last -> chars]
  BY <1>5 DEF P
<1>7. Spared(f[n], m, d, n)
  BY <1>5 DEF P, Spared
<1>8. NotInside(d, s, n) => Arrived(f[n], m, d, s, n)
  BY <1>5 DEF P, Arrived, NotInside
<1>. QED
  BY <1>1, <1>6, <1>7, <1>8

-----------------------------------------------------------------------------
(* A loop that fills n cells. *)
SetRun(f, m, d, c, n) ==
  f = [k \in 0 .. n |-> IF k = 0 THEN m ELSE [f[k - 1] EXCEPT ![d + k - 1] = c]]

SetLoop(m, d, c, n) == (CHOOSE f : SetRun(f, m, d, c, n))[n]

SetSteps(f, m, d, c, n) ==
  f[0] = m /\ \A k \in 1 .. n : f[k] = [f[k - 1] EXCEPT ![d + k - 1] = c]

LEMMA SetTurns ==
  ASSUME NEW m, NEW d, NEW c, NEW n \in Nat, NEW f, SetRun(f, m, d, c, n)
  PROVE  SetSteps(f, m, d, c, n)
<1>1. \A k \in 0 .. n : f[k] = IF k = 0 THEN m
                     ELSE [f[k - 1] EXCEPT ![d + k - 1] = c]
  BY DEF SetRun
<1>2. 0 \in 0 .. n /\ \A k \in 1 .. n : k \in 0 .. n /\ k # 0
  OBVIOUS
<1>. QED
  BY <1>1, <1>2 DEF SetSteps

LEMMA SetRuns ==
  ASSUME NEW last \in Nat, NEW chars, NEW m \in [1 .. last -> chars],
         NEW d \in Int, NEW c \in chars, NEW n \in Nat
  PROVE  \E f : SetRun(f, m, d, c, n)
<1>. DEFINE X == [1 .. last -> chars]
            turn == [k \in 1 .. n |-> [w \in X |-> [w EXCEPT ![d + k - 1] = c]]]
<1>1. turn \in [1 .. n -> [X -> X]]
  OBVIOUS
<1>2. PICK f : IsRun(f, n, X, m, turn)
  <2>1. m \in X
    OBVIOUS
  <2>. HIDE DEF turn, X
  <2>. QED
    BY <1>1, <2>1, LoopRuns
<1>3. \A k \in 1 .. n : f[k] = [f[k - 1] EXCEPT ![d + k - 1] = c]
  <2>. SUFFICES ASSUME NEW k \in 1 .. n
                PROVE  f[k] = [f[k - 1] EXCEPT ![d + k - 1] = c]
    OBVIOUS
  <2>1. f[k - 1] \in X
    BY <1>2 DEF IsRun
  <2>. QED
    BY <1>2, <2>1 DEF IsRun
<1>4. SetRun(f, m, d, c, n)
  <2>1. f = [k \in 0 .. n |-> f[k]]
    BY <1>2 DEF IsRun
  <2>2. \A k \in 0 .. n : f[k] = IF k = 0 THEN m ELSE [f[k - 1] EXCEPT ![d + k - 1] = c]
    <3>. HIDE DEF turn
    <3>1. \A k \in 0 .. n : k # 0 => k \in 1 .. n
      OBVIOUS
    <3>. QED
      BY <1>2, <1>3, <3>1 DEF IsRun
  <2>. QED
    BY <2>1, <2>2 DEF SetRun
<1>. QED
  BY <1>4

FilledWith(w, m, d, c, n) ==
  \A x \in DOMAIN m : w[x] = IF x \in d .. d + n - 1 THEN c ELSE m[x]

(* The loop writes c to the n cells from d on that are there, and no other.  *)
LEMMA SetLoopSets ==
  ASSUME NEW last \in Nat, NEW chars, NEW m \in [1 .. last -> chars],
         NEW d \in Int, NEW c \in chars, NEW n \in Nat
  PROVE  /\ SetLoop(m, d, c, n) \in [1 .. last -> chars]
         /\ FilledWith(SetLoop(m, d, c, n), m, d, c, n)
<1>. DEFINE f == CHOOSE f : SetRun(f, m, d, c, n)
<1>1. SetLoop(m, d, c, n) = f[n]
  BY DEF SetLoop
<1>2. SetSteps(f, m, d, c, n)
  <2>1. SetRun(f, m, d, c, n)
    BY SetRuns
  <2>. HIDE DEF f
  <2>. QED
    BY <2>1, SetTurns
<1>. HIDE DEF f
<1>. DEFINE P == {k \in 0 .. n :
                   /\ f[k] \in [1 .. last -> chars]
                   /\ \A x \in 1 .. last : f[k][x] = IF x \in d .. d + k - 1 THEN c ELSE m[x]}
<1>3. 0 \in P
  BY <1>2 DEF SetSteps
<1>4. ASSUME NEW k \in 1 .. n, k - 1 \in P PROVE k \in P
  <2>1. f[k - 1] \in [1 .. last -> chars] /\ f[k] = [f[k - 1] EXCEPT ![d + k - 1] = c]
    BY <1>2, <1>4 DEF SetSteps
  <2>2. f[k] \in [1 .. last -> chars]
    BY <2>1
  <2>3. ASSUME NEW x \in 1 .. last
        PROVE  f[k][x] = IF x \in d .. d + k - 1 THEN c ELSE m[x]
    <3>1. f[k - 1][x] = IF x \in d .. d + (k - 1) - 1 THEN c ELSE m[x]
      BY <1>4
    <3>2. CASE x = d + k - 1
      BY <2>1, <3>2
    <3>3. CASE x # d + k - 1
      <4>1. f[k][x] = f[k - 1][x]
        BY <2>1, <3>3
      <4>2. x \in d .. d + k - 1 <=> x \in d .. d + (k - 1) - 1
        BY <3>3
      <4>. QED
        BY <3>1, <4>1, <4>2
    <3>. QED
      BY <3>2, <3>3
  <2>. QED
    BY <2>2, <2>3
<1>. HIDE DEF P
<1>5. n \in P
  <2>1. 0 .. n \subseteq P
    BY ONLY n \in Nat, <1>3, <1>4, TurnInduction
  <2>. QED
    BY ONLY n \in Nat, <2>1
<1>. QED
  BY <1>1, <1>5 DEF P, FilledWith
=============================================================================
