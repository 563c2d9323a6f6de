---------------------------- MODULE StdLibProofs ----------------------------
(***************************************************************************)
(* What the helpers do, for every size of the memory, every set of         *)
(* characters and every number of bits of a word.                          *)
(***************************************************************************)
EXTENDS StdLibCalls, LoopProofs, FiniteSetTheorems

-----------------------------------------------------------------------------
(* The arguments of each call and what it does with the memory. *)
LEMMA MemsetCalled ==
  ASSUME Next, Was("memset")
  PROVE  \E d \in Addr, c \in Char, n \in 0 .. Size :
           /\ Fits(d, n) /\ call'.args = <<d, c, n>>
           /\ mem' = memset(mem, d, c, n)
BY DEF Next, Write, CopyString, Read, Compute, Was, Made, Returns, Result

LEMMA MemcpyCalled ==
  ASSUME Next, Was("memcpy")
  PROVE  \E d, s \in Addr, n \in 0 .. Size :
           /\ Fits(d, n) /\ Fits(s, n) /\ call'.args = <<d, s, n>>
           /\ mem' = memcpy(mem, d, s, n)
BY DEF Next, Write, CopyString, Read, Compute, Was, Made, Returns, Result

LEMMA StrncpyCalled ==
  ASSUME Next, Was("strncpy")
  PROVE  \E d, s \in Addr, n \in 0 .. Size :
           /\ Fits(d, n) /\ Fits(s, n) /\ call'.args = <<d, s, n>>
           /\ mem' = strncpy(mem, d, s, n).mem
BY DEF Next, Write, CopyString, Read, Compute, Was, Made, Returns, Result

LEMMA StrcpyCalled ==
  ASSUME Next, Was("strcpy")
  PROVE  \E d, s \in Addr :
           /\ call'.args = <<d, s>>
           /\ mem' = strcpy(mem, d, s).mem /\ ret' = strcpy(mem, d, s).ret
BY DEF Next, Write, CopyString, Read, Compute, Was, Made, Returns, Result

LEMMA StrncmpCalled ==
  ASSUME Next, Was("strncmp")
  PROVE  \E p, q \in Addr, n \in 0 .. Size :
           /\ Fits(p, n) /\ Fits(q, n) /\ call'.args = <<p, q, n>>
           /\ mem' = mem /\ ret' = strncmp(mem, p, q, n)
BY DEF Next, Write, CopyString, Read, Compute, Was, Made, Returns, Result

LEMMA StrlenCalled ==
  ASSUME Next, Was("strlen")
  PROVE  \E p \in Addr : call'.args = <<p>> /\ mem' = mem /\ ret' = strlen(mem, p)
BY DEF Next, Write, CopyString, Read, Compute, Was, Made, Returns, Result

LEMMA StrchrCalled ==
  ASSUME Next, Was("strchr")
  PROVE  \E p \in Addr, c \in Char :
           call'.args = <<p, c>> /\ mem' = mem /\ ret' = strchr(mem, p, c)
BY DEF Next, Write, CopyString, Read, Compute, Was, Made, Returns, Result

-----------------------------------------------------------------------------
(* The strings' copy, turn after turn. *)
CopiedTurn(w, d, s, k) ==
  IF w.stop THEN w
  ELSE [mem |-> [w.mem EXCEPT ![d + k - 1] = w.mem[s + k - 1]],
        count |-> k, stop |-> w.mem[s + k - 1] = NUL]

CopiedStart(m) == [mem |-> m, count |-> 0, stop |-> FALSE]

CopiedRun(f, m, d, s, n) ==
  f = [k \in 0 .. n |-> IF k = 0 THEN CopiedStart(m) ELSE CopiedTurn(f[k - 1], d, s, k)]

Copy == [mem : [Addr -> Char], count : Nat, stop : BOOLEAN]

LEMMA CopiedTurnTyped ==
  ASSUME NEW d \in Addr, NEW s \in Addr, NEW n \in Nat, d + n - 1 <= Size, s + n - 1 <= Size,
         NEW k \in 1 .. n, NEW w \in Copy
  PROVE  CopiedTurn(w, d, s, k) \in Copy
<1>1. d + k - 1 \in Addr /\ s + k - 1 \in Addr
  BY StdLibAssumption DEF Addr
<1>2. w.mem[s + k - 1] \in Char
  BY <1>1 DEF Copy
<1>. DEFINE m == [w.mem EXCEPT ![d + k - 1] = w.mem[s + k - 1]]
<1>3. m \in [Addr -> Char]
  BY <1>1, <1>2 DEF Copy
<1>. HIDE DEF m
<1>4. [mem |-> m, count |-> k, stop |-> w.mem[s + k - 1] = NUL] \in Copy
  BY <1>3 DEF Copy
<1>. QED
  BY <1>4 DEF CopiedTurn, m

LEMMA CopiedRuns ==
  ASSUME NEW m \in [Addr -> Char], NEW d \in Addr, NEW s \in Addr, NEW n \in Nat,
         d + n - 1 <= Size, s + n - 1 <= Size
  PROVE  \E f : /\ CopiedRun(f, m, d, s, n)
                /\ f \in [0 .. n -> Copy] /\ f[0] = CopiedStart(m)
                /\ \A k \in 1 .. n : f[k] = CopiedTurn(f[k - 1], d, s, k)
<1>. DEFINE turn == [k \in 1 .. n |-> [w \in Copy |-> CopiedTurn(w, d, s, k)]]
<1>1. turn \in [1 .. n -> [Copy -> Copy]]
  BY CopiedTurnTyped
<1>2. PICK f : IsRun(f, n, Copy, CopiedStart(m), turn)
  <2>1. CopiedStart(m) \in Copy
    BY DEF CopiedStart, Copy
  <2>. HIDE DEF turn
  <2>. QED
    BY <1>1, <2>1, LoopRuns
<1>3. f \in [0 .. n -> Copy] /\ f[0] = CopiedStart(m)
  BY <1>2 DEF IsRun
<1>4. \A k \in 1 .. n : f[k] = CopiedTurn(f[k - 1], d, s, k)
  <2>. SUFFICES ASSUME NEW k \in 1 .. n PROVE f[k] = CopiedTurn(f[k - 1], d, s, k)
    OBVIOUS
  <2>1. f[k - 1] \in Copy
    BY <1>3
  <2>2. f[k] = turn[k][f[k - 1]]
    BY <1>2 DEF IsRun
  <2>. QED
    BY <2>1, <2>2
<1>5. CopiedRun(f, m, d, s, n)
  <2>1. f = [k \in 0 .. n |-> f[k]]
    BY <1>3
  <2>2. \A k \in 0 .. n : f[k] = IF k = 0 THEN CopiedStart(m) ELSE CopiedTurn(f[k - 1], d, s, k)
    <3>1. \A k \in 0 .. n : k # 0 => k \in 1 .. n
      OBVIOUS
    <3>. QED
      BY <1>3, <1>4, <3>1
  <2>. QED
    BY <2>1, <2>2 DEF CopiedRun
<1>. QED
  BY <1>3, <1>4, <1>5

(* A function that is defined by this recursion is such a run. *)
LEMMA CopiedIsRun ==
  ASSUME NEW m \in [Addr -> Char], NEW d \in Addr, NEW s \in Addr, NEW n \in Nat,
         d + n - 1 <= Size, s + n - 1 <= Size
  PROVE  \E f : /\ Copied(m, d, s, n) = f[n]
                /\ f \in [0 .. n -> Copy] /\ f[0] = CopiedStart(m)
                /\ \A k \in 1 .. n : f[k] = CopiedTurn(f[k - 1], d, s, k)
<1>. DEFINE f == CHOOSE f : CopiedRun(f, m, d, s, n)
<1>1. Copied(m, d, s, n) = f[n]
  BY DEF Copied, CopiedRun, CopiedStart, CopiedTurn
<1>2. CopiedRun(f, m, d, s, n)
  <2>1. \E g : CopiedRun(g, m, d, s, n)
    BY CopiedRuns
  <2>. QED
    BY <2>1
<1>. HIDE DEF f
<1>3. \A k \in 0 .. n : f[k] = IF k = 0 THEN CopiedStart(m) ELSE CopiedTurn(f[k - 1], d, s, k)
  BY <1>2 DEF CopiedRun
<1>4. f[0] = CopiedStart(m) /\ \A k \in 1 .. n : f[k] = CopiedTurn(f[k - 1], d, s, k)
  <2>1. 0 \in 0 .. n /\ \A k \in 1 .. n : k \in 0 .. n /\ k # 0
    OBVIOUS
  <2>. QED
    BY <1>3, <2>1
<1>5. f \in [0 .. n -> Copy]
  <2>. DEFINE P == {k \in 0 .. n : f[k] \in Copy}
  <2>0. CopiedStart(m) \in Copy
    BY DEF CopiedStart, Copy
  <2>1. 0 \in P
    BY <1>4, <2>0
  <2>2. \A k \in 1 .. n : k - 1 \in P => k \in P
    BY <1>4, CopiedTurnTyped
  <2>. HIDE DEF P
  <2>3. 0 .. n \subseteq P
    BY <2>1, <2>2, TurnInduction
  <2>4. \A k \in 0 .. n : f[k] \in Copy
    BY <2>3 DEF P
  <2>5. f = [k \in 0 .. n |-> f[k]]
    BY <1>2, <1>3 DEF CopiedRun
  <2>. QED
    BY <2>4, <2>5
<1>. QED
  BY <1>1, <1>4, <1>5

(* What the copy has done: each cell it wrote holds what was to be copied, *)
(* or, if that cell of the source had been written before, what was        *)
(* written there; no cell but the last holds NUL, and the last one does    *)
(* unless all n are written.                                               *)
CopiedFrom(w, m, d, s, j) == w.mem[d + j] = IF s < d /\ d <= s + j THEN w.mem[s + j] ELSE m[s + j]

CopyDone(w, m, d, s, n) ==
  /\ w \in Copy /\ w.count \in 0 .. n
  /\ \A x \in Addr : x \notin d .. d + w.count - 1 => w.mem[x] = m[x]
  /\ \A j \in 0 .. w.count - 1 : CopiedFrom(w, m, d, s, j)
  /\ \A j \in 0 .. w.count - 1 :
       w.mem[d + j] = NUL <=> w.stop /\ j = w.count - 1
  /\ w.stop => 0 < w.count
  /\ ~w.stop => w.count = n

LEMMA CopyTurnDone ==
  ASSUME NEW m \in [Addr -> Char], NEW d \in Addr, NEW s \in Addr, NEW n \in Nat,
         d + n - 1 <= Size, s + n - 1 <= Size,
         NEW k \in 1 .. n, NEW w, CopyDone(w, m, d, s, k - 1)
  PROVE  CopyDone(CopiedTurn(w, d, s, k), m, d, s, k)
<1>. DEFINE v == CopiedTurn(w, d, s, k)
<1>. SUFFICES CopyDone(v, m, d, s, k)
  OBVIOUS
<1>1. CASE w.stop
  <2>1. v = w
    BY <1>1 DEF CopiedTurn
  <2>2. \A c \in 0 .. k - 1 : c \in 0 .. k
    OBVIOUS
  <2>. HIDE DEF v
  <2>. QED
    BY <1>1, <2>1, <2>2 DEF CopyDone
<1>2. CASE ~w.stop
  <2>. DEFINE c == w.mem[s + k - 1]
  <2>1. d + k - 1 \in Addr /\ s + k - 1 \in Addr
    BY StdLibAssumption DEF Addr
  <2>2. w \in Copy /\ w.count = k - 1
    BY <1>2 DEF CopyDone
  <2>3. v = [mem |-> [w.mem EXCEPT ![d + k - 1] = c], count |-> k, stop |-> c = NUL]
    BY <1>2 DEF CopiedTurn
  <2>4. v \in Copy
    BY <2>2, CopiedTurnTyped
  <2>5. /\ v.count = k /\ v.stop = (c = NUL) /\ v.mem = [w.mem EXCEPT ![d + k - 1] = c]
    BY <2>3
  <2>6. /\ v.mem[d + k - 1] = c
        /\ \A x \in Addr : x # d + k - 1 => v.mem[x] = w.mem[x]
    BY <2>1, <2>2, <2>5 DEF Copy
  <2>. HIDE DEF v, c
  <2>7. ASSUME NEW x \in Addr, x \notin d .. d + k - 1 PROVE v.mem[x] = m[x]
    <3>1. x # d + k - 1 /\ x \notin d .. d + (k - 1) - 1
      BY <2>7 DEF Addr
    <3>. QED
      BY <2>2, <2>6, <3>1 DEF CopyDone
  <2>8. ASSUME NEW j \in 0 .. k - 1
        PROVE  /\ CopiedFrom(v, m, d, s, j)
               /\ v.mem[d + j] = NUL <=> v.stop /\ j = k - 1
    <3>2. CASE j = k - 1
      <4>1. v.mem[d + j] = c
        BY <2>6, <3>2 DEF Addr
      <4>2. c = IF s < d /\ d <= s + j THEN v.mem[s + j] ELSE m[s + j]
        <5>1. CASE s < d /\ d <= s + j
          <6>1. s + k - 1 # d + k - 1
            BY <5>1 DEF Addr
          <6>. QED
            BY <2>1, <2>6, <3>2, <5>1, <6>1 DEF c, Addr
        <5>2. CASE ~(s < d /\ d <= s + j)
          <6>1. s + k - 1 \notin d .. d + (k - 1) - 1
            BY <3>2, <5>2 DEF Addr
          <6>2. w.mem[s + k - 1] = m[s + k - 1]
            BY <2>1, <2>2, <6>1 DEF CopyDone
          <6>. QED
            BY <3>2, <5>2, <6>2 DEF c, Addr
        <5>. QED
          BY <5>1, <5>2
      <4>. QED
        BY <2>5, <3>2, <4>1, <4>2 DEF CopiedFrom
    <3>3. CASE j # k - 1
      <4>1. j \in 0 .. (k - 1) - 1 /\ d + j # d + k - 1 /\ d + j \in Addr
        BY <2>1, <3>3, StdLibAssumption DEF Addr
      <4>2. v.mem[d + j] = w.mem[d + j]
        BY <2>6, <4>1
      <4>3. /\ CopiedFrom(w, m, d, s, j)
            /\ w.mem[d + j] # NUL
        BY <1>2, <2>2, <4>1 DEF CopyDone
      <4>4. s < d /\ d <= s + j => v.mem[s + j] = w.mem[s + j]
        <5>. SUFFICES ASSUME s < d, d <= s + j PROVE v.mem[s + j] = w.mem[s + j]
          OBVIOUS
        <5>1. s + j \in Addr /\ s + j # d + k - 1
          BY <2>1, <4>1, StdLibAssumption DEF Addr
        <5>. QED
          BY <2>6, <5>1
      <4>5. CopiedFrom(v, m, d, s, j)
        BY <4>2, <4>3, <4>4 DEF CopiedFrom
      <4>. QED
        BY <3>3, <4>2, <4>3, <4>5
    <3>. QED
      BY <3>2, <3>3
  <2>. QED
    BY <2>4, <2>5, <2>7, <2>8 DEF CopyDone
<1>. QED
  BY <1>1, <1>2 DEF CopyDone, Copy

LEMMA CopiedCopies ==
  ASSUME NEW m \in [Addr -> Char], NEW d \in Addr, NEW s \in Addr, NEW n \in Nat,
         d + n - 1 <= Size, s + n - 1 <= Size
  PROVE  CopyDone(Copied(m, d, s, n), m, d, s, n)
<1>1. PICK f : /\ Copied(m, d, s, n) = f[n]
               /\ f \in [0 .. n -> Copy] /\ f[0] = CopiedStart(m)
               /\ \A k \in 1 .. n : f[k] = CopiedTurn(f[k - 1], d, s, k)
  BY CopiedIsRun
<1>. DEFINE P == {k \in 0 .. n : CopyDone(f[k], m, d, s, k)}
<1>2. 0 \in P
  <2>1. CopiedStart(m) \in Copy
    BY DEF CopiedStart, Copy
  <2>2. CopyDone(CopiedStart(m), m, d, s, 0)
    BY <2>1 DEF CopyDone, CopiedStart
  <2>. QED
    BY <1>1, <2>2
<1>3. \A k \in 1 .. n : k - 1 \in P => k \in P
  BY <1>1, CopyTurnDone
<1>. HIDE DEF P
<1>4. n \in P
  BY <1>2, <1>3, TurnInduction
<1>. QED
  BY <1>1, <1>4 DEF P

-----------------------------------------------------------------------------
(* The memory keeps its type, whatever is called. *)
MemoryTyped == mem \in [Addr -> Char]

LEMMA MemcpyIsLoop ==
  ASSUME MemoryTyped, NEW d \in Addr, NEW s \in Addr, NEW n \in 0 .. Size,
         Fits(d, n), Fits(s, n)
  PROVE  /\ memcpy(mem, d, s, n) \in [Addr -> Char]
         /\ Spared(memcpy(mem, d, s, n), mem, d, n)
         /\ NotInside(d, s, n) => Arrived(memcpy(mem, d, s, n), mem, d, s, n)
<1>1. memcpy(mem, d, s, n) = CopyLoop(mem, d, s, n)
  BY DEF memcpy, CopyLoop, CopyRun
<1>2. /\ mem \in [1 .. Size -> Char] /\ d \in Nat \ {0} /\ s \in Nat \ {0} /\ n \in Nat
      /\ s + n - 1 <= Size /\ d + n - 1 <= Size
  BY StdLibAssumption DEF Addr, Fits, MemoryTyped
<1>. QED
  BY <1>1, <1>2, CopyLoopCopies, StdLibAssumption DEF Addr

LEMMA MemsetIsLoop ==
  ASSUME MemoryTyped, NEW d \in Addr, NEW c \in Char, NEW n \in 0 .. Size
  PROVE  /\ memset(mem, d, c, n) \in [Addr -> Char]
         /\ FilledWith(memset(mem, d, c, n), mem, d, c, n)
<1>1. memset(mem, d, c, n) = SetLoop(mem, d, c, n)
  BY DEF memset, SetLoop, SetRun
<1>2. mem \in [1 .. Size -> Char] /\ d \in Int /\ n \in Nat
  BY StdLibAssumption DEF Addr, MemoryTyped
<1>. QED
  BY <1>1, <1>2, SetLoopSets, StdLibAssumption DEF Addr

(* strcpy has the room that is left behind the later one of its arguments. *)
LEMMA Room ==
  ASSUME NEW d \in Addr, NEW s \in Addr
  PROVE  /\ Size + 1 - Max({d, s}) \in Nat
         /\ Size + 1 - Max({d, s}) = IF s < d THEN Size + 1 - d ELSE Size + 1 - s
<1>1. d \in Int /\ s \in Int /\ Max({d, s}) \in {d, s} /\ \A x \in {d, s} : x <= Max({d, s})
  <2>1. d \in Int /\ s \in Int
    BY DEF Addr
  <2>2. \E x \in {d, s} : \A y \in {d, s} : x >= y
    BY <2>1
  <2>. QED
    BY <2>1, <2>2 DEF Max
<1>2. Max({d, s}) = IF s < d THEN d ELSE s
  BY <1>1
<1>. QED
  BY <1>2, StdLibAssumption DEF Addr

LEMMA StrncpyDone ==
  ASSUME MemoryTyped, NEW d \in Addr, NEW s \in Addr, NEW n \in 0 .. Size,
         Fits(d, n), Fits(s, n)
  PROVE  \E w : strncpy(mem, d, s, n).mem = w.mem /\ CopyDone(w, mem, d, s, n)
<1>1. /\ n \in Nat /\ s + n - 1 <= Size /\ d + n - 1 <= Size
  BY StdLibAssumption DEF Fits
<1>2. CopyDone(Copied(mem, d, s, n), mem, d, s, n)
  BY <1>1, CopiedCopies DEF MemoryTyped
<1>3. strncpy(mem, d, s, n).mem = Copied(mem, d, s, n).mem
  BY DEF strncpy
<1>. QED
  BY <1>2, <1>3

LEMMA StrcpyDone ==
  ASSUME MemoryTyped, NEW d \in Addr, NEW s \in Addr
  PROVE  \E w, n : /\ n \in Nat /\ n = IF s < d THEN Size + 1 - d ELSE Size + 1 - s
                   /\ strcpy(mem, d, s) = [mem |-> w.mem, ret |-> IF w.stop THEN d ELSE Fault]
                   /\ CopyDone(w, mem, d, s, n)
<1>. DEFINE n == Size + 1 - Max({d, s})
<1>1. n \in Nat /\ n = IF s < d THEN Size + 1 - d ELSE Size + 1 - s
  BY Room
<1>2. strcpy(mem, d, s) = [mem |-> Copied(mem, d, s, n).mem,
                           ret |-> IF Copied(mem, d, s, n).stop THEN d ELSE Fault]
  BY DEF strcpy
<1>. HIDE DEF n
<1>3. d + n - 1 <= Size /\ s + n - 1 <= Size
  BY <1>1, StdLibAssumption DEF Addr
<1>4. CopyDone(Copied(mem, d, s, n), mem, d, s, n)
  BY <1>1, <1>3, CopiedCopies DEF MemoryTyped
<1>. QED
  BY <1>1, <1>2, <1>4

LEMMA MemoryStaysTyped ==
  ASSUME MemoryTyped, [Next]_vars
  PROVE  MemoryTyped'
<1>1. CASE UNCHANGED vars
  BY <1>1 DEF vars, MemoryTyped
<1>2. CASE Next /\ Was("memset")
  BY <1>2, MemsetCalled, MemsetIsLoop DEF MemoryTyped
<1>3. CASE Next /\ Was("memcpy")
  BY <1>3, MemcpyCalled, MemcpyIsLoop DEF MemoryTyped
<1>4. CASE Next /\ Was("strncpy")
  <2>1. PICK d, s \in Addr, n \in 0 .. Size :
           /\ Fits(d, n) /\ Fits(s, n) /\ mem' = strncpy(mem, d, s, n).mem
    BY <1>4, StrncpyCalled
  <2>2. PICK w : mem' = w.mem /\ CopyDone(w, mem, d, s, n)
    BY <2>1, StrncpyDone
  <2>. QED
    BY <2>2 DEF CopyDone, Copy, MemoryTyped
<1>5. CASE Next /\ Was("strcpy")
  <2>1. PICK d, s \in Addr : mem' = strcpy(mem, d, s).mem
    BY <1>5, StrcpyCalled
  <2>2. PICK w, n : /\ strcpy(mem, d, s) = [mem |-> w.mem, ret |-> IF w.stop THEN d ELSE Fault]
                    /\ CopyDone(w, mem, d, s, n)
    BY StrcpyDone
  <2>3. mem' = w.mem
    BY <2>1, <2>2
  <2>. QED
    BY <2>2, <2>3 DEF CopyDone, Copy, MemoryTyped
<1>6. CASE Next /\ ~Was("memset") /\ ~Was("memcpy") /\ ~Was("strncpy") /\ ~Was("strcpy")
  <2>1. mem' = mem
    BY <1>6 DEF Next, Write, CopyString, Read, Compute, Was, Made, Returns, Result
  <2>. QED
    BY <2>1 DEF MemoryTyped
<1>. QED
  BY <1>1, <1>2, <1>3, <1>4, <1>5, <1>6

LEMMA MemoryIsTyped == Spec => []MemoryTyped
<1>1. Init => MemoryTyped
  BY DEF Init, MemoryTyped
<1>. QED
  BY <1>1, MemoryStaysTyped, PTL DEF Spec

-----------------------------------------------------------------------------
(* memset and memcpy (include/stdlib.h) write the cells they are told to   *)
(* and no other, and memcpy what the source held before, unless the        *)
(* destination begins inside it.                                           *)
LEMMA MemsetExact ==
  ASSUME MemoryTyped, Next, Was("memset")
  PROVE  /\ \A x \in Cells(arg(1), arg(3)) : mem'[x] = arg(2)
         /\ SameOutside(Cells(arg(1), arg(3)))
<1>1. PICK d \in Addr, c \in Char, n \in 0 .. Size :
           Fits(d, n) /\ call'.args = <<d, c, n>> /\ mem' = memset(mem, d, c, n)
  BY MemsetCalled
<1>2. FilledWith(mem', mem, d, c, n)
  BY <1>1, MemsetIsLoop
<1>3. arg(1) = d /\ arg(2) = c /\ arg(3) = n
  BY <1>1 DEF arg
<1>4. DOMAIN mem = Addr /\ \A x \in d .. d + n - 1 : x \in Addr
  BY <1>1, StdLibAssumption DEF MemoryTyped, Addr, Fits
<1>. QED
  BY <1>2, <1>3, <1>4 DEF FilledWith, Cells, SameOutside

LEMMA MemcpyExact ==
  ASSUME MemoryTyped, Next, Was("memcpy")
  PROVE  /\ SameOutside(Cells(arg(1), arg(3)))
         /\ arg(1) <= arg(2) \/ Cells(arg(1), arg(3)) \cap Cells(arg(2), arg(3)) = {}
             => \A k \in 0 .. arg(3) - 1 : mem'[arg(1) + k] = mem[arg(2) + k]
<1>1. PICK d, s \in Addr, n \in 0 .. Size :
           Fits(d, n) /\ Fits(s, n) /\ call'.args = <<d, s, n>> /\ mem' = memcpy(mem, d, s, n)
  BY MemcpyCalled
<1>2. /\ Spared(mem', mem, d, n)
      /\ NotInside(d, s, n) => Arrived(mem', mem, d, s, n)
  BY <1>1, MemcpyIsLoop
<1>3. arg(1) = d /\ arg(2) = s /\ arg(3) = n
  BY <1>1 DEF arg
<1>4. DOMAIN mem = Addr
  BY DEF MemoryTyped
<1>. QED
  BY <1>2, <1>3, <1>4 DEF Spared, NotInside, Arrived, Cells, SameOutside

(* memset and memcpy copy exactly, in every call.                          *)
THEOREM CopyingIsExact == Spec => CopiesExactly
<1>1. ASSUME MemoryTyped, [Next]_vars
      PROVE  [/\ Was("memset") => /\ \A x \in Cells(arg(1), arg(3)) : mem'[x] = arg(2)
                                  /\ SameOutside(Cells(arg(1), arg(3)))
              /\ Was("memcpy") =>
                   /\ SameOutside(Cells(arg(1), arg(3)))
                   /\ arg(1) <= arg(2) \/ Cells(arg(1), arg(3)) \cap Cells(arg(2), arg(3)) = {}
                      => \A k \in 0 .. arg(3) - 1 : mem'[arg(1) + k] = mem[arg(2) + k]]_vars
  BY <1>1, MemsetExact, MemcpyExact
<1>. QED
  BY <1>1, MemoryIsTyped, PTL DEF Spec, CopiesExactly

-----------------------------------------------------------------------------
(* Strings.  The string at p has n characters if the first NUL from p on   *)
(* is n cells behind p.                                                    *)
StringAt(m, p, n) ==
  /\ n \in Nat /\ p + n <= Size /\ m[p + n] = NUL
  /\ \A j \in 0 .. n - 1 : m[p + j] # NUL

LEMMA StringEnds ==
  ASSUME NEW m, NEW p \in Addr, Terminated(m, p)
  PROVE  \E n : StringAt(m, p, n)
<1>. DEFINE T == {n \in Nat : p + n <= Size /\ m[p + n] = NUL}
<1>1. T # {}
  <2>1. PICK x \in p .. Size : m[x] = NUL
    BY DEF Terminated
  <2>2. x - p \in Nat /\ p + (x - p) = x
    BY <2>1, StdLibAssumption DEF Addr
  <2>. QED
    BY <2>1, <2>2, StdLibAssumption
<1>2. PICK n \in T : \A y \in T : ~(y < n)
  BY <1>1, LeastElement
<1>3. ASSUME NEW j \in 0 .. n - 1 PROVE m[p + j] # NUL
  <2>1. j \in Nat /\ j < n /\ p + j <= Size
    BY <1>2, StdLibAssumption DEF Addr
  <2>. QED
    BY <1>2, <2>1
<1>. QED
  BY <1>2, <1>3 DEF StringAt

LEMMA TextIs ==
  ASSUME NEW m, NEW p \in Addr, NEW n, StringAt(m, p, n)
  PROVE  /\ Text(m, p) = [i \in 1 .. n |-> m[p + i - 1]]
         /\ Len(Text(m, p)) = n
<1>. DEFINE Ends(k) == m[p + k] = NUL /\ \A j \in 0 .. k - 1 : m[p + j] # NUL
            l == CHOOSE k \in 0 .. Size : Ends(k)
<1>1. n \in 0 .. Size /\ Ends(n)
  BY StdLibAssumption DEF StringAt, Addr
<1>2. l \in 0 .. Size /\ Ends(l)
  <2>. HIDE DEF Ends
  <2>. QED
    BY <1>1
<1>3. l = n
  <2>. HIDE DEF l
  <2>1. CASE l < n
    <3>1. l \in 0 .. n - 1
      BY <1>1, <1>2, <2>1
    <3>. QED
      BY <1>1, <1>2, <3>1
  <2>2. CASE n < l
    <3>1. n \in 0 .. l - 1
      BY <1>1, <1>2, <2>2
    <3>. QED
      BY <1>1, <1>2, <3>1
  <2>. QED
    BY <1>1, <1>2, <2>1, <2>2
<1>4. Text(m, p) = [i \in 1 .. l |-> m[p + i - 1]]
  BY DEF Text
<1>. HIDE DEF l
<1>5. Text(m, p) = [i \in 1 .. n |-> m[p + i - 1]]
  BY <1>3, <1>4
<1>. QED
  BY <1>1, <1>5

(* A copy of n cells at most reads the string at s up to its NUL, if the   *)
(* destination does not begin inside it.                                   *)
LEMMA StringCopied ==
  ASSUME NEW m \in [Addr -> Char], NEW d \in Addr, NEW s \in Addr, NEW n \in Nat,
         d + n - 1 <= Size, s + n - 1 <= Size,
         NEW w, CopyDone(w, m, d, s, n), NEW l, StringAt(m, s, l), d <= s \/ s + l < d
  PROVE  /\ l < n => w.stop /\ w.count = l + 1
         /\ n <= l => ~w.stop /\ w.count = n
         /\ \A j \in 0 .. w.count - 1 : j <= l /\ w.mem[d + j] = m[s + j]
<1>0. l \in Nat /\ s \in Int /\ d \in Int /\ s + l <= Size
  BY DEF StringAt, Addr
<1>1. ASSUME NEW j \in 0 .. w.count - 1, j <= l
      PROVE  w.mem[d + j] = m[s + j]
  <2>1. ~(s < d /\ d <= s + j)
    BY <1>0, <1>1 DEF CopyDone
  <2>. QED
    BY <2>1 DEF CopyDone, CopiedFrom
<1>2. w.count \in 0 .. n
  BY DEF CopyDone
<1>3. w.count <= l + 1
  <2>. SUFFICES ASSUME l + 1 < w.count PROVE FALSE
    BY <1>0, <1>2
  <2>1. l \in 0 .. w.count - 1 /\ l # w.count - 1
    BY <1>0, <1>2
  <2>2. w.mem[d + l] = NUL
    BY <1>1, <2>1, <1>0 DEF StringAt
  <2>. QED
    BY <2>1, <2>2 DEF CopyDone
<1>4. CASE w.stop
  <2>1. w.count - 1 \in 0 .. w.count - 1 /\ w.count - 1 <= l
    BY <1>0, <1>2, <1>3, <1>4 DEF CopyDone
  <2>2. w.mem[d + (w.count - 1)] = NUL
    BY <1>4, <2>1 DEF CopyDone
  <2>3. m[s + (w.count - 1)] = NUL
    BY <1>1, <2>1, <2>2
  <2>4. w.count - 1 = l
    BY <1>0, <1>2, <2>1, <2>3 DEF StringAt
  <2>. QED
    BY <1>0, <1>1, <1>2, <1>4, <2>4
<1>5. CASE ~w.stop
  <2>1. w.count = n
    BY <1>5 DEF CopyDone
  <2>2. n # l + 1
    <3>. SUFFICES ASSUME n = l + 1 PROVE FALSE
      OBVIOUS
    <3>1. l \in 0 .. w.count - 1
      BY <1>0, <2>1
    <3>2. w.mem[d + l] = NUL
      BY <1>0, <1>1, <3>1 DEF StringAt
    <3>. QED
      BY <1>5, <3>1, <3>2 DEF CopyDone
  <2>. QED
    BY <1>0, <1>1, <1>2, <1>3, <1>5, <2>1, <2>2
<1>. QED
  BY <1>4, <1>5 DEF CopyDone, Copy

LEMMA FirstOfText ==
  ASSUME NEW l \in Nat, NEW x, x = [i \in 1 .. l |-> x[i]], NEW k \in 0 .. l
  PROVE  SubSeq(x, 1, k) = [i \in 1 .. k |-> x[i]]
<1>. DEFINE V == {x[i] : i \in 1 .. l}
<1>1. x \in Seq(V) /\ Len(x) = l
  OBVIOUS
<1>. HIDE DEF V
<1>2. SubSeq(x, 1, k) \in Seq(V) /\ Len(SubSeq(x, 1, k)) = k
  BY <1>1
<1>3. \A i \in 1 .. k : SubSeq(x, 1, k)[i] = x[i]
  BY <1>1
<1>. QED
  BY <1>2, <1>3

-----------------------------------------------------------------------------
(* strncpy: what is written, and where. *)
PrefixHeld(m, v, d, s, n) ==
  /\ d + n \in Addr /\ m[d + n] = NUL
  /\ Terminated(m, s) /\ Cells(d, n + 1) \cap Cells(s, Len(Text(m, s)) + 1) = {}
  => Text(v, d) = SubSeq(Text(m, s), 1, min(n, Len(Text(m, s))))

PrefixOrNoEnd(m, v, d, s, n) ==
  Terminated(m, s) /\ Cells(d, n) \cap Cells(s, Len(Text(m, s)) + 1) = {}
  => IF Len(Text(m, s)) < n THEN Text(v, d) = Text(m, s)
     ELSE \A x \in Cells(d, n) : v[x] # NUL

LEMMA StrncpyPrefix ==
  ASSUME NEW m \in [Addr -> Char], NEW d \in Addr, NEW s \in Addr, NEW n \in Nat,
         d + n - 1 <= Size, s + n - 1 <= Size, NEW w, CopyDone(w, m, d, s, n)
  PROVE  PrefixHeld(m, w.mem, d, s, n)
<1>. SUFFICES ASSUME d + n \in Addr, m[d + n] = NUL, Terminated(m, s),
                     Cells(d, n + 1) \cap Cells(s, Len(Text(m, s)) + 1) = {}
              PROVE  Text(w.mem, d) = SubSeq(Text(m, s), 1, min(n, Len(Text(m, s))))
  BY DEF PrefixHeld
<1>1. PICK l : StringAt(m, s, l)
  BY StringEnds
<1>2. Text(m, s) = [i \in 1 .. l |-> m[s + i - 1]] /\ Len(Text(m, s)) = l
  BY <1>1, TextIs
<1>3. l \in Nat /\ d \in Int /\ s \in Int
  BY <1>1 DEF StringAt, Addr
<1>4. d <= s \/ s + l < d
  <2>. SUFFICES ASSUME s < d, d <= s + l PROVE FALSE
    BY <1>3
  <2>1. d \in Cells(d, n + 1) /\ d \in Cells(s, l + 1)
    BY <1>3 DEF Cells
  <2>. QED
    BY <1>2, <2>1
<1>5. /\ l < n => w.stop /\ w.count = l + 1
      /\ n <= l => ~w.stop /\ w.count = n
      /\ \A j \in 0 .. w.count - 1 : j <= l /\ w.mem[d + j] = m[s + j]
  BY <1>1, <1>4, StringCopied
<1>. DEFINE k == min(n, l)
<1>6. k = IF n < l THEN n ELSE l
  BY DEF min
<1>. HIDE DEF k
<1>7. StringAt(w.mem, d, k)
  <2>1. k \in Nat /\ d + k <= Size
    BY <1>3, <1>6, StdLibAssumption DEF Addr
  <2>2. w.mem[d + k] = NUL
    <3>1. CASE l < n
      <4>1. k = l /\ l \in 0 .. w.count - 1
        BY <1>3, <1>5, <1>6, <3>1
      <4>2. w.mem[d + l] = m[s + l]
        BY <1>5, <4>1
      <4>. QED
        BY <1>1, <4>1, <4>2 DEF StringAt
    <3>2. CASE n <= l
      <4>1. k = n /\ d + n \notin d .. d + w.count - 1
        BY <1>3, <1>5, <1>6, <3>2
      <4>. QED
        BY <4>1 DEF CopyDone
    <3>. QED
      BY <1>3, <3>1, <3>2
  <2>3. ASSUME NEW j \in 0 .. k - 1 PROVE w.mem[d + j] # NUL
    <3>1. j \in 0 .. w.count - 1 /\ j \in 0 .. l - 1
      BY <1>3, <1>5, <1>6
    <3>. QED
      BY <1>1, <1>5, <3>1 DEF StringAt
  <2>. QED
    BY <2>1, <2>2, <2>3 DEF StringAt
<1>8. Text(w.mem, d) = [i \in 1 .. k |-> w.mem[d + i - 1]]
  BY <1>7, TextIs
<1>9. \A i \in 1 .. k : w.mem[d + i - 1] = Text(m, s)[i]
  <2>. SUFFICES ASSUME NEW i \in 1 .. k PROVE w.mem[d + i - 1] = Text(m, s)[i]
    OBVIOUS
  <2>1. i - 1 \in 0 .. w.count - 1 /\ i \in 1 .. l
    BY <1>3, <1>5, <1>6
  <2>2. w.mem[d + (i - 1)] = m[s + (i - 1)]
    BY <1>5, <2>1
  <2>. QED
    BY <1>2, <1>3, <2>1, <2>2
<1>10. SubSeq(Text(m, s), 1, k) = [i \in 1 .. k |-> Text(m, s)[i]]
  <2>1. k \in 0 .. l
    BY <1>3, <1>6
  <2>2. Text(m, s) = [i \in 1 .. l |-> Text(m, s)[i]]
    BY <1>2
  <2>. QED
    BY <1>3, <2>1, <2>2, FirstOfText
<1>. QED
  BY <1>2, <1>8, <1>9, <1>10 DEF k

LEMMA StrncpyEnds ==
  ASSUME NEW m \in [Addr -> Char], NEW d \in Addr, NEW s \in Addr, NEW n \in Nat,
         d + n - 1 <= Size, s + n - 1 <= Size, NEW w, CopyDone(w, m, d, s, n)
  PROVE  PrefixOrNoEnd(m, w.mem, d, s, n)
<1>. SUFFICES ASSUME Terminated(m, s), Cells(d, n) \cap Cells(s, Len(Text(m, s)) + 1) = {}
              PROVE  IF Len(Text(m, s)) < n THEN Text(w.mem, d) = Text(m, s)
                     ELSE \A x \in Cells(d, n) : w.mem[x] # NUL
  BY DEF PrefixOrNoEnd
<1>1. PICK l : StringAt(m, s, l)
  BY StringEnds
<1>2. Text(m, s) = [i \in 1 .. l |-> m[s + i - 1]] /\ Len(Text(m, s)) = l
  BY <1>1, TextIs
<1>3. l \in Nat /\ d \in Int /\ s \in Int
  BY <1>1 DEF StringAt, Addr
<1>4. n = 0 \/ d <= s \/ s + l < d
  <2>. SUFFICES ASSUME 0 < n, s < d, d <= s + l PROVE FALSE
    BY <1>3
  <2>1. d \in Cells(d, n) /\ d \in Cells(s, l + 1)
    BY <1>3 DEF Cells
  <2>. QED
    BY <1>2, <2>1
<1>5. CASE n = 0
  BY <1>2, <1>3, <1>5 DEF Cells
<1>6. CASE n # 0
  <2>1. /\ l < n => w.stop /\ w.count = l + 1
        /\ n <= l => ~w.stop /\ w.count = n
        /\ \A j \in 0 .. w.count - 1 : j <= l /\ w.mem[d + j] = m[s + j]
    BY <1>1, <1>4, <1>6, StringCopied
  <2>2. CASE l < n
    <3>1. StringAt(w.mem, d, l)
      <4>0. l \in 0 .. w.count - 1 /\ d + l <= Size
        BY <1>3, <2>1, <2>2, StdLibAssumption
      <4>1. w.mem[d + l] = NUL
        <5>1. w.mem[d + l] = m[s + l]
          BY <2>1, <4>0
        <5>. QED
          BY <1>1, <5>1 DEF StringAt
      <4>2. \A j \in 0 .. l - 1 : w.mem[d + j] # NUL
        <5>1. \A j \in 0 .. l - 1 : j \in 0 .. w.count - 1
          BY <1>3, <2>1, <2>2
        <5>2. \A j \in 0 .. l - 1 : w.mem[d + j] = m[s + j]
          BY <2>1, <5>1
        <5>. QED
          BY <1>1, <5>2 DEF StringAt
      <4>. QED
        BY <1>3, <4>0, <4>1, <4>2 DEF StringAt
    <3>2. Text(w.mem, d) = [i \in 1 .. l |-> w.mem[d + i - 1]]
      BY <3>1, TextIs
    <3>3. \A i \in 1 .. l : w.mem[d + i - 1] = m[s + i - 1]
      <4>. SUFFICES ASSUME NEW i \in 1 .. l PROVE w.mem[d + i - 1] = m[s + i - 1]
        OBVIOUS
      <4>1. i - 1 \in 0 .. w.count - 1
        BY <1>3, <2>1, <2>2
      <4>2. w.mem[d + (i - 1)] = m[s + (i - 1)]
        BY <2>1, <4>1
      <4>. QED
        BY <1>3, <4>2
    <3>. QED
      BY <1>2, <2>2, <3>2, <3>3
  <2>3. CASE n <= l
    <3>1. ASSUME NEW x \in Cells(d, n) PROVE w.mem[x] # NUL
      <4>1. x - d \in 0 .. w.count - 1 /\ d + (x - d) = x
        BY <1>3, <2>1, <2>3 DEF Cells
      <4>2. w.mem[d + (x - d)] # NUL
        BY <2>1, <2>3, <4>1 DEF CopyDone
      <4>. QED
        BY <4>1, <4>2
    <3>. QED
      BY <1>2, <1>3, <2>3, <3>1
  <2>. QED
    BY <1>3, <2>2, <2>3
<1>. QED
  BY <1>5, <1>6

LEMMA StrncpyHolds ==
  ASSUME MemoryTyped, Next, Was("strncpy")
  PROVE  LET d == arg(1)
             s == arg(2)
             n == arg(3) IN
         SameOutside(Cells(d, n)) /\ PrefixHeld(mem, mem', d, s, n)
                                  /\ PrefixOrNoEnd(mem, mem', d, s, n)
<1>1. PICK d, s \in Addr, n \in 0 .. Size :
           /\ Fits(d, n) /\ Fits(s, n) /\ call'.args = <<d, s, n>>
           /\ mem' = strncpy(mem, d, s, n).mem
  BY StrncpyCalled
<1>2. PICK w : mem' = w.mem /\ CopyDone(w, mem, d, s, n)
  BY <1>1, StrncpyDone
<1>3. arg(1) = d /\ arg(2) = s /\ arg(3) = n
  BY <1>1 DEF arg
<1>4. mem \in [Addr -> Char] /\ n \in Nat /\ d + n - 1 <= Size /\ s + n - 1 <= Size
  BY <1>1, StdLibAssumption DEF MemoryTyped, Fits
<1>5. PrefixHeld(mem, mem', d, s, n) /\ PrefixOrNoEnd(mem, mem', d, s, n)
  BY <1>2, <1>4, StrncpyPrefix, StrncpyEnds
<1>6. SameOutside(Cells(d, n))
  <2>. SUFFICES ASSUME NEW x \in Addr, x \notin Cells(d, n) PROVE mem'[x] = mem[x]
    BY DEF SameOutside
  <2>1. x \notin d .. d + w.count - 1
    BY <1>2, <1>4 DEF Cells, CopyDone, Addr
  <2>. QED
    BY <1>2, <2>1 DEF CopyDone
<1>. QED
  BY <1>3, <1>5, <1>6

(* strncpy (include/stdlib.h) fills a slot of the name server with the     *)
(* first characters of the path, and the string there ends if the cell     *)
(* behind the slot holds NUL; without it, it ends only if the path is      *)
(* shorter than the buffer.                                                *)
THEOREM SlotsHoldPrefixes == Spec => SlotHoldsPrefix
<1>1. ASSUME MemoryTyped, [Next]_vars
      PROVE  [Was("strncpy") =>
                LET d == arg(1)
                    s == arg(2)
                    n == arg(3) IN
                /\ SameOutside(Cells(d, n))
                /\ /\ d + n \in Addr /\ mem[d + n] = NUL
                   /\ Terminated(mem, s) /\ Cells(d, n + 1) \cap Cells(s, Len(Text(mem, s)) + 1) = {}
                   => Text(mem', d) = SubSeq(Text(mem, s), 1, min(n, Len(Text(mem, s))))
                /\ Terminated(mem, s) /\ Cells(d, n) \cap Cells(s, Len(Text(mem, s)) + 1) = {}
                   => IF Len(Text(mem, s)) < n THEN Text(mem', d) = Text(mem, s)
                      ELSE \A x \in Cells(d, n) : mem'[x] # NUL]_vars
  BY <1>1, StrncpyHolds DEF PrefixHeld, PrefixOrNoEnd
<1>. QED
  BY <1>1, MemoryIsTyped, PTL DEF Spec, SlotHoldsPrefix

-----------------------------------------------------------------------------
(* strcpy that starts inside the string it copies never meets a NUL. *)
LEMMA RunsOn ==
  ASSUME NEW m \in [Addr -> Char], NEW d \in Addr, NEW s \in Addr, NEW n \in Nat,
         NEW w, CopyDone(w, m, d, s, n), NEW l, StringAt(m, s, l), s < d, d <= s + l
  PROVE  ~w.stop
<1>. SUFFICES ASSUME w.stop PROVE FALSE
  OBVIOUS
<1>. DEFINE j == w.count - 1
<1>1. j \in 0 .. w.count - 1 /\ j \in Nat /\ w.count \in Nat
  BY DEF CopyDone
<1>2. w.mem[d + j] = NUL
  BY <1>1 DEF CopyDone
<1>3. w.mem[d + j] = IF s < d /\ d <= s + j THEN w.mem[s + j] ELSE m[s + j]
  BY <1>1 DEF CopyDone, CopiedFrom
<1>4. l \in Nat /\ d \in Int /\ s \in Int
  BY DEF StringAt, Addr
<1>. HIDE DEF j
<1>5. CASE d <= s + j
  <2>. DEFINE i == j - (d - s)
  <2>1. i \in 0 .. w.count - 1 /\ i # j /\ d + i = s + j
    BY <1>1, <1>4, <1>5
  <2>2. i # w.count - 1
    BY <2>1 DEF j
  <2>. HIDE DEF i
  <2>3. w.mem[d + i] # NUL
    BY <2>1, <2>2 DEF CopyDone
  <2>. QED
    BY <1>2, <1>3, <1>5, <2>1, <2>3
<1>6. CASE ~(d <= s + j)
  <2>1. j \in 0 .. l - 1
    BY <1>1, <1>4, <1>6
  <2>2. m[s + j] = NUL
    BY <1>2, <1>3, <1>6
  <2>. QED
    BY <2>1, <2>2 DEF StringAt
<1>. QED
  BY <1>5, <1>6

CopiesOrFaults(m, v, r, d, s) ==
  LET n == Len(Text(m, s)) IN
  IF s < d /\ d <= s + n THEN r = Fault
  ELSE IF Fits(d, n + 1)
  THEN r = d /\ Text(v, d) = Text(m, s)
             /\ \A x \in Addr \ Cells(d, n + 1) : v[x] = m[x]
  ELSE r = Fault

LEMMA StringIsThere ==
  ASSUME NEW m \in [Addr -> Char], NEW d \in Addr, NEW s \in Addr, NEW n \in Nat,
         n = IF s < d THEN Size + 1 - d ELSE Size + 1 - s,
         NEW w, CopyDone(w, m, d, s, n), Terminated(m, s)
  PROVE  CopiesOrFaults(m, w.mem, IF w.stop THEN d ELSE Fault, d, s)
<1>1. PICK l : StringAt(m, s, l)
  BY StringEnds
<1>2. Text(m, s) = [i \in 1 .. l |-> m[s + i - 1]] /\ Len(Text(m, s)) = l
  BY <1>1, TextIs
<1>3. l \in Nat /\ d \in Int /\ s \in Int /\ s + l <= Size
  BY <1>1 DEF StringAt, Addr
<1>4. CASE s < d /\ d <= s + l
  <2>1. ~w.stop
    BY <1>1, <1>4, RunsOn
  <2>. QED
    BY <1>2, <1>4, <2>1 DEF CopiesOrFaults
<1>5. CASE ~(s < d /\ d <= s + l)
  <2>1. d + n - 1 <= Size /\ s + n - 1 <= Size /\ (d <= s \/ s + l < d)
    BY <1>3, <1>5, StdLibAssumption
  <2>2. /\ l < n => w.stop /\ w.count = l + 1
        /\ n <= l => ~w.stop /\ w.count = n
        /\ \A j \in 0 .. w.count - 1 : j <= l /\ w.mem[d + j] = m[s + j]
    BY <1>1, <2>1, StringCopied
  <2>3. l < n <=> Fits(d, l + 1)
    BY <1>3, <1>5, <2>1, StdLibAssumption DEF Fits
  <2>4. CASE l < n
    <3>1. w.stop /\ w.count = l + 1
      BY <2>2, <2>4
    <3>2. \A j \in 0 .. l : w.mem[d + j] = m[s + j]
      BY <1>3, <2>2, <3>1
    <3>3. StringAt(w.mem, d, l)
      <4>1. d + l <= Size
        BY <1>3, <2>1, <2>4, StdLibAssumption
      <4>2. w.mem[d + l] = NUL /\ \A j \in 0 .. l - 1 : w.mem[d + j] # NUL
        BY <1>1, <1>3, <3>2 DEF StringAt
      <4>. QED
        BY <1>3, <4>1, <4>2 DEF StringAt
    <3>4. Text(w.mem, d) = [i \in 1 .. l |-> w.mem[d + i - 1]]
      BY <3>3, TextIs
    <3>5. \A i \in 1 .. l : w.mem[d + i - 1] = m[s + i - 1]
      <4>. SUFFICES ASSUME NEW i \in 1 .. l PROVE w.mem[d + i - 1] = m[s + i - 1]
        OBVIOUS
      <4>1. w.mem[d + (i - 1)] = m[s + (i - 1)]
        BY <1>3, <3>2
      <4>. QED
        BY <1>3, <4>1
    <3>6. Text(w.mem, d) = Text(m, s)
      BY <1>2, <3>4, <3>5
    <3>7. \A x \in Addr \ Cells(d, l + 1) : w.mem[x] = m[x]
      BY <3>1 DEF CopyDone, Cells
    <3>8. Fits(d, l + 1)
      BY <2>3, <2>4
    <3>. QED
      BY <1>2, <1>5, <3>1, <3>6, <3>7, <3>8 DEF CopiesOrFaults
  <2>5. CASE ~(l < n)
    <3>1. ~w.stop /\ ~Fits(d, l + 1)
      BY <1>3, <2>2, <2>3, <2>5
    <3>. QED
      BY <1>2, <1>5, <3>1 DEF CopiesOrFaults
  <2>. QED
    BY <2>4, <2>5
<1>. QED
  BY <1>4, <1>5

LEMMA StrcpyCopies ==
  ASSUME MemoryTyped, Next, Was("strcpy"), Terminated(mem, arg(2))
  PROVE  CopiesOrFaults(mem, mem', ret', arg(1), arg(2))
<1>1. PICK d, s \in Addr :
           /\ call'.args = <<d, s>>
           /\ mem' = strcpy(mem, d, s).mem /\ ret' = strcpy(mem, d, s).ret
  BY StrcpyCalled
<1>2. PICK w, n : /\ n \in Nat /\ n = IF s < d THEN Size + 1 - d ELSE Size + 1 - s
                  /\ strcpy(mem, d, s) = [mem |-> w.mem, ret |-> IF w.stop THEN d ELSE Fault]
                  /\ CopyDone(w, mem, d, s, n)
  BY StrcpyDone
<1>3. arg(1) = d /\ arg(2) = s
  BY <1>1 DEF arg
<1>4. mem' = w.mem /\ ret' = IF w.stop THEN d ELSE Fault
  BY <1>1, <1>2
<1>5. mem \in [Addr -> Char] /\ Terminated(mem, s)
  BY <1>3 DEF MemoryTyped
<1>6. CopiesOrFaults(mem, w.mem, IF w.stop THEN d ELSE Fault, d, s)
  BY <1>2, <1>5, StringIsThere
<1>. QED
  BY <1>3, <1>4, <1>6

(* strcpy (include/stdlib.h) copies the string and its NUL and nothing     *)
(* else, unless there is no room or the copy starts inside the string.     *)
THEOREM StringsAreCopied == Spec => CopiesString
<1>1. ASSUME MemoryTyped, [Next]_vars
      PROVE  [Was("strcpy") /\ Terminated(mem, arg(2)) =>
                LET n == Len(Text(mem, arg(2))) IN
                IF arg(2) < arg(1) /\ arg(1) <= arg(2) + n THEN ret' = Fault
                ELSE IF Fits(arg(1), n + 1)
                THEN ret' = arg(1) /\ Text(mem', arg(1)) = Text(mem, arg(2))
                                   /\ SameOutside(Cells(arg(1), n + 1))
                ELSE ret' = Fault]_vars
  BY <1>1, StrcpyCopies DEF CopiesOrFaults, SameOutside
<1>. QED
  BY <1>1, MemoryIsTyped, PTL DEF Spec, CopiesString

-----------------------------------------------------------------------------
(* What the scan for the end of a string, or a character before it, finds. *)
LEMMA ScanFinds ==
  ASSUME NEW m, NEW p \in Addr, NEW cs, NEW k \in Nat, p + k <= Size, m[p + k] \in cs,
         \A j \in 0 .. k - 1 : m[p + j] \notin cs
  PROVE  Scan(m, p, cs) = p + k
<1>. DEFINE found == {x \in p .. Size : m[x] \in cs}
<1>1. p + k \in found
  BY StdLibAssumption DEF Addr
<1>2. ASSUME NEW x \in found PROVE p + k <= x
  <2>. SUFFICES ASSUME x < p + k PROVE FALSE
    BY StdLibAssumption DEF Addr
  <2>1. x - p \in 0 .. k - 1 /\ p + (x - p) = x
    BY StdLibAssumption DEF Addr
  <2>2. m[p + (x - p)] \notin cs
    BY <2>1
  <2>. QED
    BY <2>1, <2>2
<1>3. found \subseteq Int
  BY DEF Addr
<1>. HIDE DEF found
<1>4. Min(found) = p + k
  <2>0. \E x \in found : \A y \in found : x <= y
    BY <1>1, <1>2
  <2>1. Min(found) \in found /\ \A y \in found : Min(found) <= y
    BY <2>0 DEF Min
  <2>2. Min(found) \in Int /\ p + k \in Int
    BY <1>1, <1>3, <2>1
  <2>3. p + k <= Min(found)
    BY <1>2, <2>1
  <2>4. Min(found) <= p + k
    BY <1>1, <2>1
  <2>. QED
    BY <2>2, <2>3, <2>4
<1>5. found # {}
  BY <1>1
<1>. QED
  BY <1>4, <1>5 DEF Scan, found

LEMMA StrlenCounts ==
  ASSUME NEW m, NEW p \in Addr, Terminated(m, p)
  PROVE  strlen(m, p) = Len(Text(m, p))
<1>1. PICK l : StringAt(m, p, l)
  BY StringEnds
<1>2. l \in Nat /\ p \in Nat \ {0} /\ Len(Text(m, p)) = l
  <2>1. Len(Text(m, p)) = l
    BY <1>1, TextIs
  <2>2. l \in Nat
    BY <1>1 DEF StringAt
  <2>3. p \in Nat \ {0}
    BY StdLibAssumption DEF Addr
  <2>. QED
    BY <2>1, <2>2, <2>3
<1>3. Scan(m, p, {NUL}) = p + l
  BY <1>1, ScanFinds DEF StringAt
<1>. QED
  BY <1>2, <1>3 DEF strlen, Fault

FoundInText(r, x, p, c) ==
  r = IF c = NUL THEN p + Len(x)
      ELSE IF \E i \in 1 .. Len(x) : x[i] = c
      THEN p - 1 + Min({i \in 1 .. Len(x) : x[i] = c})
      ELSE NULL

LEMMA StrchrFinds ==
  ASSUME NEW m, NEW p \in Addr, NEW c, Terminated(m, p)
  PROVE  FoundInText(strchr(m, p, c), Text(m, p), p, c)
<1>. DEFINE x == Text(m, p)
<1>1. PICK l : StringAt(m, p, l)
  BY StringEnds
<1>2. x = [i \in 1 .. l |-> m[p + i - 1]] /\ Len(x) = l
  BY <1>1, TextIs
<1>3. l \in Nat /\ p \in Nat \ {0} /\ p + l <= Size
  BY <1>1 DEF StringAt, Addr
<1>. HIDE DEF x
<1>4. CASE \E i \in 1 .. l : x[i] = c
  <2>. DEFINE T == {i \in 1 .. l : x[i] = c}
  <2>1. T \subseteq Nat /\ T # {}
    BY <1>4
  <2>2. PICK i \in T : \A y \in T : ~(y < i)
    BY <2>1, LeastElement
  <2>3. i \in 1 .. l /\ x[i] = c /\ m[p + (i - 1)] = c
    <3>1. i \in 1 .. l /\ x[i] = c
      BY <2>2
    <3>2. p + i - 1 = p + (i - 1)
      BY <1>3, <3>1
    <3>. QED
      BY <1>2, <3>1, <3>2
  <2>4. Min(T) = i
    <3>1. \A y \in T : i <= y
      BY <2>2
    <3>2. Min(T) \in T /\ \A y \in T : Min(T) <= y
      <4>1. \E z \in T : \A y \in T : z <= y
        BY <2>2, <3>1
      <4>. QED
        BY <4>1 DEF Min
    <3>3. Min(T) <= i /\ i <= Min(T)
      BY <2>2, <3>1, <3>2
    <3>4. Min(T) \in Int /\ i \in Int
      BY <2>3, <3>2
    <3>. QED
      BY <3>3, <3>4
  <2>5. ASSUME NEW j \in 0 .. (i - 1) - 1 PROVE m[p + j] \notin {NUL, c}
    <3>1. j \in 0 .. l - 1 /\ j + 1 \in 1 .. l /\ j + 1 < i /\ p + (j + 1) - 1 = p + j
      BY <1>3, <2>3
    <3>2. x[j + 1] # c
      BY <2>2, <3>1
    <3>3. x[j + 1] = m[p + j]
      BY <1>2, <3>1
    <3>. QED
      BY <1>1, <3>1, <3>2, <3>3 DEF StringAt
  <2>. HIDE DEF T
  <2>6. c # NUL
    <3>1. i - 1 \in 0 .. l - 1
      BY <1>3, <2>3
    <3>2. m[p + (i - 1)] # NUL
      BY <1>1, <3>1 DEF StringAt
    <3>. QED
      BY <2>3, <3>2
  <2>7. Scan(m, p, {NUL, c}) = p + (i - 1)
    <3>1. i - 1 \in Nat /\ p + (i - 1) <= Size
      <4>1. i \in Nat /\ 1 <= i /\ i <= l /\ Size \in Int
        BY <1>3, <2>3, StdLibAssumption
      <4>. QED
        BY <1>3, <4>1
    <3>2. m[p + (i - 1)] \in {NUL, c}
      BY <2>3
    <3>. QED
      BY <2>5, <3>1, <3>2, ScanFinds
  <2>8. strchr(m, p, c) = p + (i - 1)
    <3>1. p + (i - 1) # Fault
      BY <1>3, <2>3 DEF Fault
    <3>. QED
      BY <2>3, <2>7, <3>1 DEF strchr
  <2>9. p + (i - 1) = p - 1 + Min({k \in 1 .. Len(x) : x[k] = c})
    BY <1>2, <1>3, <2>3, <2>4 DEF T
  <2>. QED
    BY <1>2, <1>4, <2>6, <2>8, <2>9 DEF FoundInText, x
<1>5. CASE ~\E i \in 1 .. l : x[i] = c
  <2>1. ASSUME NEW j \in 0 .. l - 1 PROVE m[p + j] \notin {NUL, c}
    <3>1. j + 1 \in 1 .. l /\ p + (j + 1) - 1 = p + j
      BY <1>3
    <3>2. x[j + 1] = m[p + j]
      BY <1>2, <3>1
    <3>. QED
      BY <1>1, <1>5, <3>1, <3>2 DEF StringAt
  <2>2. m[p + l] = NUL
    BY <1>1 DEF StringAt
  <2>3. Scan(m, p, {NUL, c}) = p + l
    <3>. DEFINE cs == {NUL, c}
    <3>1. m[p + l] \in cs
      BY <2>2
    <3>2. \A j \in 0 .. l - 1 : m[p + j] \notin cs
      BY <2>1
    <3>. HIDE DEF cs
    <3>3. Scan(m, p, cs) = p + l
      BY <1>3, <3>1, <3>2, ScanFinds
    <3>. QED
      BY <3>3 DEF cs
  <2>4. strchr(m, p, c) = IF c = NUL THEN p + l ELSE NULL
    <3>1. p + l # Fault
      BY <1>3 DEF Fault
    <3>. QED
      BY <2>2, <2>3, <3>1 DEF strchr
  <2>. QED
    BY <1>2, <1>5, <2>4 DEF FoundInText, x
<1>. QED
  BY <1>4, <1>5

(* strlen and strchr (include/stdlib.h) look no further than the string.   *)
THEOREM SearchStaysInString == Spec => StaysInString
<1>1. ASSUME Next, Was("strlen"), Terminated(mem, arg(1))
      PROVE  ret' = Len(Text(mem, arg(1)))
  <2>1. PICK p \in Addr : call'.args = <<p>> /\ ret' = strlen(mem, p)
    BY <1>1, StrlenCalled
  <2>2. arg(1) = p
    BY <2>1 DEF arg
  <2>3. strlen(mem, p) = Len(Text(mem, p))
    BY <1>1, <2>2, StrlenCounts
  <2>. QED
    BY <2>1, <2>2, <2>3
<1>2. ASSUME Next, Was("strchr"), Terminated(mem, arg(1))
      PROVE  FoundInText(ret', Text(mem, arg(1)), arg(1), arg(2))
  <2>1. PICK p \in Addr, c \in Char : call'.args = <<p, c>> /\ ret' = strchr(mem, p, c)
    BY <1>2, StrchrCalled
  <2>2. arg(1) = p /\ arg(2) = c
    BY <2>1 DEF arg
  <2>3. FoundInText(strchr(mem, p, c), Text(mem, p), p, c)
    BY <1>2, <2>2, StrchrFinds
  <2>. QED
    BY <2>1, <2>2, <2>3
<1>3. ASSUME [Next]_vars
      PROVE  [/\ Was("strlen") /\ Terminated(mem, arg(1)) => ret' = Len(Text(mem, arg(1)))
              /\ Was("strchr") /\ Terminated(mem, arg(1)) =>
                   LET x == Text(mem, arg(1)) IN
                   ret' = IF arg(2) = NUL THEN arg(1) + Len(x)
                          ELSE IF \E i \in 1 .. Len(x) : x[i] = arg(2)
                          THEN arg(1) - 1 + Min({i \in 1 .. Len(x) : x[i] = arg(2)})
                          ELSE NULL]_vars
  BY <1>1, <1>2, <1>3 DEF FoundInText
<1>. QED
  BY <1>3, PTL DEF Spec, StaysInString

-----------------------------------------------------------------------------
(* strncmp compares up to the first pair of characters that ends it. *)
Stop(m, p, q, j) == m[p + j] = NUL \/ m[p + j] # m[q + j]

CompareRun(f, m, p, q, n) ==
  f = [k \in 0 .. n |-> IF k = n THEN 0
                        ELSE IF Stop(m, p, q, k) THEN m[p + k] - m[q + k]
                        ELSE f[k + 1]]

LEMMA CompareRuns ==
  ASSUME NEW m \in [Addr -> Char], NEW p \in Addr, NEW q \in Addr, NEW n \in Nat,
         p + n - 1 <= Size, q + n - 1 <= Size
  PROVE  \E f : CompareRun(f, m, p, q, n)
<1>. DEFINE turn == [t \in 1 .. n |-> [w \in Int |->
                       IF Stop(m, p, q, n - t) THEN m[p + (n - t)] - m[q + (n - t)] ELSE w]]
<1>1. turn \in [1 .. n -> [Int -> Int]]
  <2>1. ASSUME NEW t \in 1 .. n, NEW w \in Int
        PROVE  (IF Stop(m, p, q, n - t) THEN m[p + (n - t)] - m[q + (n - t)] ELSE w) \in Int
    <3>1. p + (n - t) \in Addr /\ q + (n - t) \in Addr
      BY StdLibAssumption DEF Addr
    <3>2. m[p + (n - t)] \in Int /\ m[q + (n - t)] \in Int
      BY <3>1, StdLibAssumption
    <3>. QED
      BY <3>2
  <2>. QED
    BY <2>1
<1>2. PICK g : IsRun(g, n, Int, 0, turn)
  <2>. DEFINE X == Int
  <2>1. turn \in [1 .. n -> [X -> X]] /\ 0 \in X
    BY <1>1
  <2>. HIDE DEF turn, X
  <2>2. \E g : IsRun(g, n, X, 0, turn)
    BY <2>1, LoopRuns
  <2>. QED
    BY <2>2 DEF X
<1>3. g[0] = 0 /\ \A t \in 1 .. n : g[t] = IF Stop(m, p, q, n - t)
                                       THEN m[p + (n - t)] - m[q + (n - t)] ELSE g[t - 1]
  <2>1. g[0] = 0
    BY <1>2 DEF IsRun
  <2>2. ASSUME NEW t \in 1 .. n
        PROVE  g[t] = IF Stop(m, p, q, n - t) THEN m[p + (n - t)] - m[q + (n - t)] ELSE g[t - 1]
    <3>1. g[t] = turn[t][g[t - 1]] /\ g[t - 1] \in Int
      BY <1>2 DEF IsRun
    <3>. QED
      BY <3>1
  <2>. QED
    BY <2>1, <2>2
<1>. DEFINE f == [k \in 0 .. n |-> g[n - k]]
<1>4. ASSUME NEW k \in 0 .. n
      PROVE  f[k] = IF k = n THEN 0 ELSE IF Stop(m, p, q, k) THEN m[p + k] - m[q + k] ELSE f[k + 1]
  <2>1. CASE k = n
    BY <1>3, <2>1
  <2>2. CASE k # n
    <3>1. n - k \in 1 .. n /\ n - (n - k) = k /\ k + 1 \in 0 .. n /\ n - (k + 1) = (n - k) - 1
      BY <2>2
    <3>2. g[n - k] = IF Stop(m, p, q, k) THEN m[p + k] - m[q + k] ELSE g[(n - k) - 1]
      BY <1>3, <3>1
    <3>. QED
      BY <2>2, <3>1, <3>2
  <2>. QED
    BY <2>1, <2>2
<1>5. f = [k \in 0 .. n |-> f[k]]
  OBVIOUS
<1>. HIDE DEF f
<1>6. f = [k \in 0 .. n |-> IF k = n THEN 0
                            ELSE IF Stop(m, p, q, k) THEN m[p + k] - m[q + k] ELSE f[k + 1]]
  BY <1>4, <1>5
<1>. QED
  BY <1>6 DEF CompareRun

(* Either all of the n pairs are equal and no NUL, or one pair is the      *)
(* first that is not, and its difference is what is returned.              *)
NoStop(m, p, q, k, n) == \A j \in k .. n - 1 : ~Stop(m, p, q, j)
StopsFirst(m, p, q, k, n, j) == /\ j \in k .. n - 1 /\ Stop(m, p, q, j)
                                /\ \A i \in k .. j - 1 : ~Stop(m, p, q, i)

Compared(r, m, p, q, k, n) ==
  \/ NoStop(m, p, q, k, n) /\ r = 0
  \/ \E j \in Nat : StopsFirst(m, p, q, k, n, j) /\ r = m[p + j] - m[q + j]

LEMMA StrncmpCompares ==
  ASSUME NEW m \in [Addr -> Char], NEW p \in Addr, NEW q \in Addr, NEW n \in Nat,
         p + n - 1 <= Size, q + n - 1 <= Size
  PROVE  Compared(strncmp(m, p, q, n), m, p, q, 0, n)
<1>. DEFINE f == CHOOSE f : CompareRun(f, m, p, q, n)
<1>1. strncmp(m, p, q, n) = f[0]
  BY DEF strncmp, CompareRun, Stop
<1>2. CompareRun(f, m, p, q, n)
  <2>1. \E g : CompareRun(g, m, p, q, n)
    BY CompareRuns
  <2>. QED
    BY <2>1
<1>. HIDE DEF f
<1>3. \A k \in 0 .. n : f[k] = IF k = n THEN 0
                               ELSE IF Stop(m, p, q, k) THEN m[p + k] - m[q + k] ELSE f[k + 1]
  BY <1>2 DEF CompareRun
<1>. DEFINE P == {t \in 0 .. n : Compared(f[n - t], m, p, q, n - t, n)}
<1>4. 0 \in P
  <2>1. f[n] = 0
    BY <1>3
  <2>2. NoStop(m, p, q, n, n)
    BY DEF NoStop
  <2>3. Compared(f[n], m, p, q, n, n)
    BY <2>1, <2>2 DEF Compared
  <2>. QED
    BY <2>3
<1>5. ASSUME NEW t \in 1 .. n, t - 1 \in P PROVE t \in P
  <2>. DEFINE k == n - t
  <2>1. k \in 0 .. n - 1 /\ n - (t - 1) = k + 1 /\ k # n
    OBVIOUS
  <2>2. Compared(f[k + 1], m, p, q, k + 1, n)
    BY <1>5, <2>1
  <2>. HIDE DEF k
  <2>3. f[k] = IF Stop(m, p, q, k) THEN m[p + k] - m[q + k] ELSE f[k + 1]
    BY <1>3, <2>1
  <2>4. Compared(f[k], m, p, q, k, n)
    <3>1. CASE Stop(m, p, q, k)
      <4>1. StopsFirst(m, p, q, k, n, k)
        BY <2>1, <3>1 DEF StopsFirst
      <4>2. f[k] = m[p + k] - m[q + k] /\ k \in Nat
        BY <2>1, <2>3, <3>1
      <4>. QED
        BY <4>1, <4>2 DEF Compared
    <3>2. CASE ~Stop(m, p, q, k)
      <4>0. f[k] = f[k + 1]
        BY <2>3, <3>2
      <4>1. CASE NoStop(m, p, q, k + 1, n) /\ f[k + 1] = 0
        <5>1. NoStop(m, p, q, k, n)
          <6>. SUFFICES ASSUME NEW j \in k .. n - 1 PROVE ~Stop(m, p, q, j)
            BY DEF NoStop
          <6>1. j = k \/ j \in k + 1 .. n - 1
            BY <2>1
          <6>. QED
            BY <3>2, <4>1, <6>1 DEF NoStop
        <5>. QED
          BY <4>0, <4>1, <5>1 DEF Compared
      <4>2. CASE \E j \in Nat : StopsFirst(m, p, q, k + 1, n, j) /\ f[k + 1] = m[p + j] - m[q + j]
        <5>1. PICK j \in Nat : StopsFirst(m, p, q, k + 1, n, j) /\ f[k + 1] = m[p + j] - m[q + j]
          BY <4>2
        <5>2. ASSUME NEW i \in k .. j - 1 PROVE ~Stop(m, p, q, i)
          <6>1. i = k \/ i \in k + 1 .. j - 1
            BY <2>1
          <6>. QED
            BY <3>2, <5>1, <6>1 DEF StopsFirst
        <5>3. j \in k .. n - 1
          BY <2>1, <5>1 DEF StopsFirst
        <5>4. StopsFirst(m, p, q, k, n, j)
          BY <5>1, <5>2, <5>3 DEF StopsFirst
        <5>. QED
          BY <4>0, <5>1, <5>4 DEF Compared
      <4>. QED
        BY <2>2, <4>1, <4>2 DEF Compared
    <3>. QED
      BY <3>1, <3>2
  <2>. QED
    BY <2>4 DEF k
<1>. HIDE DEF P
<1>6. n \in P
  BY <1>4, <1>5, TurnInduction
<1>7. Compared(f[n - n], m, p, q, n - n, n) /\ n - n = 0
  BY <1>6 DEF P
<1>. QED
  BY <1>1, <1>7

(* Two strings, with a and b characters, and what is compared of them. *)
LEMMA StringsCompared ==
  ASSUME NEW m, NEW p \in Addr, NEW q \in Addr, NEW n \in Nat,
         NEW a, NEW b, StringAt(m, p, a), StringAt(m, q, b)
  PROVE  /\ NoStop(m, p, q, 0, n) =>
              n <= a /\ n <= b /\ \A j \in 0 .. n - 1 : m[p + j] = m[q + j]
         /\ \A j : StopsFirst(m, p, q, 0, n, j) =>
              /\ j \in Nat /\ j < n /\ j <= a /\ j <= b
              /\ \A i \in 0 .. j - 1 : m[p + i] = m[q + i]
              /\ m[p + j] = m[q + j] => j = a /\ j = b
<1>1. a \in Nat /\ b \in Nat /\ m[p + a] = NUL /\ m[q + b] = NUL
  BY DEF StringAt
<1>2. ASSUME NoStop(m, p, q, 0, n)
      PROVE  n <= a /\ n <= b /\ \A j \in 0 .. n - 1 : m[p + j] = m[q + j]
  <2>1. \A j \in 0 .. n - 1 : m[p + j] # NUL /\ m[p + j] = m[q + j]
    BY <1>2 DEF NoStop, Stop
  <2>2. ~(a \in 0 .. n - 1) /\ ~(b \in 0 .. n - 1)
    BY <1>1, <2>1
  <2>. QED
    BY <1>1, <2>1, <2>2
<1>3. ASSUME NEW j, StopsFirst(m, p, q, 0, n, j)
      PROVE  /\ j \in Nat /\ j < n /\ j <= a /\ j <= b
             /\ \A i \in 0 .. j - 1 : m[p + i] = m[q + i]
             /\ m[p + j] = m[q + j] => j = a /\ j = b
  <2>1. j \in Nat /\ j < n /\ Stop(m, p, q, j)
    BY <1>3 DEF StopsFirst
  <2>2. \A i \in 0 .. j - 1 : m[p + i] # NUL /\ m[p + i] = m[q + i]
    BY <1>3 DEF StopsFirst, Stop
  <2>3. ~(a \in 0 .. j - 1) /\ ~(b \in 0 .. j - 1)
    BY <1>1, <2>2
  <2>4. j <= a /\ j <= b
    BY <1>1, <2>1, <2>3
  <2>5. ASSUME m[p + j] = m[q + j] PROVE j = a /\ j = b
    <3>1. m[p + j] = NUL /\ m[q + j] = NUL
      BY <2>1, <2>5 DEF Stop
    <3>2. ~(j \in 0 .. a - 1) /\ ~(j \in 0 .. b - 1)
      BY <3>1 DEF StringAt
    <3>. QED
      BY <1>1, <2>1, <2>4, <3>2
  <2>. QED
    BY <2>1, <2>2, <2>4, <2>5
<1>. QED
  BY <1>2, <1>3

LEMMA SamePrefix ==
  ASSUME NEW m, NEW p \in Addr, NEW q \in Addr,
         NEW a, NEW b, StringAt(m, p, a), StringAt(m, q, b),
         NEW k \in Nat, k <= a, k <= b
  PROVE  SubSeq(Text(m, p), 1, k) = SubSeq(Text(m, q), 1, k)
           <=> \A j \in 0 .. k - 1 : m[p + j] = m[q + j]
<1>. DEFINE x == Text(m, p)
            y == Text(m, q)
<1>0. a \in Nat /\ b \in Nat /\ p \in Int /\ q \in Int
  BY DEF StringAt, Addr
<1>1. x = [i \in 1 .. a |-> m[p + i - 1]] /\ y = [i \in 1 .. b |-> m[q + i - 1]]
  BY TextIs
<1>. HIDE DEF x, y
<1>2. x = [i \in 1 .. a |-> x[i]] /\ y = [i \in 1 .. b |-> y[i]]
  BY <1>1
<1>3. k \in 0 .. a /\ k \in 0 .. b
  BY <1>0
<1>4. SubSeq(x, 1, k) = [i \in 1 .. k |-> x[i]] /\ SubSeq(y, 1, k) = [i \in 1 .. k |-> y[i]]
  BY <1>0, <1>2, <1>3, FirstOfText
<1>5. \A j \in 0 .. k - 1 : x[j + 1] = m[p + j] /\ y[j + 1] = m[q + j]
  <2>. SUFFICES ASSUME NEW j \in 0 .. k - 1 PROVE x[j + 1] = m[p + j] /\ y[j + 1] = m[q + j]
    OBVIOUS
  <2>1. j + 1 \in 1 .. a /\ j + 1 \in 1 .. b /\ p + (j + 1) - 1 = p + j /\ q + (j + 1) - 1 = q + j
    BY <1>0
  <2>. QED
    BY <1>1, <2>1
<1>6. ASSUME SubSeq(x, 1, k) = SubSeq(y, 1, k), NEW j \in 0 .. k - 1
      PROVE  m[p + j] = m[q + j]
  <2>1. j + 1 \in 1 .. k
    OBVIOUS
  <2>2. x[j + 1] = y[j + 1]
    BY <1>4, <1>6, <2>1
  <2>. QED
    BY <1>5, <2>2
<1>7. ASSUME \A j \in 0 .. k - 1 : m[p + j] = m[q + j]
      PROVE  SubSeq(x, 1, k) = SubSeq(y, 1, k)
  <2>1. ASSUME NEW i \in 1 .. k PROVE x[i] = y[i]
    <3>1. i - 1 \in 0 .. k - 1 /\ (i - 1) + 1 = i
      OBVIOUS
    <3>2. x[(i - 1) + 1] = y[(i - 1) + 1]
      BY <1>5, <1>7, <3>1
    <3>. QED
      BY <3>1, <3>2
  <2>. QED
    BY <1>4, <2>1
<1>. QED
  BY <1>6, <1>7 DEF x, y

(* What strncmp says of two strings x at p and y at q. *)
PrefixTold(r, m, p, q, n) ==
  LET x == Text(m, p)
      y == Text(m, q) IN
  /\ n = Len(x) => (r = 0 <=> IsPrefix(x, y))
  /\ n = Len(y) => (r = 0 <=> IsPrefix(y, x))
  /\ n > Max({Len(x), Len(y)}) => (r = 0 <=> x = y)
  /\ r < 0 <=> \E k \in 0 .. n - 1 :
                 /\ k <= Len(x) /\ k <= Len(y)
                 /\ SubSeq(x, 1, k) = SubSeq(y, 1, k)
                 /\ m[p + k] < m[q + k]

LEMMA LongerOne ==
  ASSUME NEW a \in Nat, NEW b \in Nat, NEW n \in Nat, n > Max({a, b})
  PROVE  n > a /\ n > b
<1>1. \E x \in {a, b} : \A y \in {a, b} : x >= y
  OBVIOUS
<1>2. Max({a, b}) \in {a, b} /\ \A y \in {a, b} : Max({a, b}) >= y
  BY <1>1 DEF Max
<1>. QED
  BY <1>2

LEMMA ComparisonTells ==
  ASSUME NEW m \in [Addr -> Char], NEW p \in Addr, NEW q \in Addr, NEW n \in Nat,
         p + n - 1 <= Size, q + n - 1 <= Size, Terminated(m, p), Terminated(m, q),
         NEW r, Compared(r, m, p, q, 0, n)
  PROVE  PrefixTold(r, m, p, q, n)
<1>1. PICK a : StringAt(m, p, a)
  BY StringEnds
<1>2. PICK b : StringAt(m, q, b)
  BY StringEnds
<1>. DEFINE x == Text(m, p)
            y == Text(m, q)
            Equal(k) == \A j \in 0 .. k - 1 : m[p + j] = m[q + j]
<1>3. /\ a \in Nat /\ b \in Nat /\ Len(x) = a /\ Len(y) = b
      /\ x = [i \in 1 .. a |-> m[p + i - 1]] /\ y = [i \in 1 .. b |-> m[q + i - 1]]
  <2>1. a \in Nat /\ b \in Nat
    BY <1>1, <1>2 DEF StringAt
  <2>2. x = [i \in 1 .. a |-> m[p + i - 1]] /\ Len(x) = a
    BY <1>1, TextIs
  <2>3. y = [i \in 1 .. b |-> m[q + i - 1]] /\ Len(y) = b
    BY <1>2, TextIs
  <2>. QED
    BY <2>1, <2>2, <2>3
<1>4. /\ NoStop(m, p, q, 0, n) => n <= a /\ n <= b /\ Equal(n)
      /\ \A j : StopsFirst(m, p, q, 0, n, j) =>
           /\ j \in Nat /\ j < n /\ j <= a /\ j <= b /\ Equal(j)
           /\ m[p + j] = m[q + j] => j = a /\ j = b
  BY <1>1, <1>2, StringsCompared
<1>5. \A k \in Nat : k <= a /\ k <= b => (SubSeq(x, 1, k) = SubSeq(y, 1, k) <=> Equal(k))
  BY <1>1, <1>2, SamePrefix
<1>6. \A k \in 0 .. n - 1 : m[p + k] \in Int /\ m[q + k] \in Int
  <2>. SUFFICES ASSUME NEW k \in 0 .. n - 1 PROVE m[p + k] \in Int /\ m[q + k] \in Int
    OBVIOUS
  <2>1. p + k \in Addr /\ q + k \in Addr
    BY StdLibAssumption DEF Addr
  <2>. QED
    BY <2>1, StdLibAssumption
<1>7. IsPrefix(x, y) <=> a <= b /\ Equal(a)
  <2>1. IsPrefix(x, y) <=> a <= b /\ SubSeq(x, 1, a) = SubSeq(y, 1, a)
    BY <1>3 DEF IsPrefix
  <2>2. a \in Nat /\ b \in Nat /\ a <= a
    BY <1>3
  <2>. HIDE DEF x, y, Equal
  <2>3. a <= b => (SubSeq(x, 1, a) = SubSeq(y, 1, a) <=> Equal(a))
    BY <1>5, <2>2
  <2>. QED
    BY <2>1, <2>3, Zenon
<1>8. IsPrefix(y, x) <=> b <= a /\ Equal(b)
  <2>1. IsPrefix(y, x) <=> b <= a /\ SubSeq(y, 1, b) = SubSeq(x, 1, b)
    BY <1>3 DEF IsPrefix
  <2>2. a \in Nat /\ b \in Nat /\ b <= b
    BY <1>3
  <2>. HIDE DEF x, y, Equal
  <2>3. b <= a => (SubSeq(x, 1, b) = SubSeq(y, 1, b) <=> Equal(b))
    BY <1>5, <2>2
  <2>. QED
    BY <2>1, <2>3, Zenon
<1>9. x = y <=> a = b /\ Equal(a)
  <2>1. ASSUME x = y PROVE a = b /\ Equal(a)
    <3>1. a = b
      BY <1>3, <2>1
    <3>2. SubSeq(x, 1, a) = SubSeq(y, 1, a)
      BY <2>1
    <3>. HIDE DEF x, y, Equal
    <3>. QED
      BY <1>3, <1>5, <3>1, <3>2
  <2>2. ASSUME a = b, Equal(a) PROVE x = y
    <3>1. \A i \in 1 .. a : m[p + i - 1] = m[q + i - 1]
      <4>. SUFFICES ASSUME NEW i \in 1 .. a PROVE m[p + i - 1] = m[q + i - 1]
        OBVIOUS
      <4>1. i - 1 \in 0 .. a - 1 /\ p + (i - 1) = p + i - 1 /\ q + (i - 1) = q + i - 1
        BY <1>3 DEF Addr
      <4>2. m[p + (i - 1)] = m[q + (i - 1)]
        BY <2>2, <4>1
      <4>. QED
        BY <4>1, <4>2
    <3>. QED
      BY <1>3, <2>2, <3>1
  <2>. QED
    BY <2>1, <2>2
<1>10. CASE NoStop(m, p, q, 0, n) /\ r = 0
  <2>1. n <= a /\ n <= b /\ Equal(n)
    BY <1>4, <1>10
  <2>2. n = a => IsPrefix(x, y)
    BY <1>7, <2>1
  <2>3. n = b => IsPrefix(y, x)
    BY <1>8, <2>1
  <2>4. ~(n > Max({a, b}))
    <3>. SUFFICES ASSUME n > Max({a, b}) PROVE FALSE
      OBVIOUS
    <3>1. n > a /\ n > b
      <4>1. a \in Nat /\ b \in Nat
        BY <1>3
      <4>. QED
        BY <4>1, LongerOne
    <3>. QED
      BY <1>3, <2>1, <3>1
  <2>5. ~\E k \in 0 .. n - 1 : m[p + k] < m[q + k]
    BY <1>6, <2>1
  <2>. HIDE DEF x, y
  <2>6. /\ n = Len(x) => (r = 0 <=> IsPrefix(x, y))
        /\ n = Len(y) => (r = 0 <=> IsPrefix(y, x))
        /\ n > Max({Len(x), Len(y)}) => (r = 0 <=> x = y)
    BY <1>3, <1>10, <2>2, <2>3, <2>4
  <2>7. ~(r < 0)
    BY <1>10
  <2>. QED
    BY <2>5, <2>6, <2>7 DEF PrefixTold, x, y
<1>11. CASE \E j \in Nat : StopsFirst(m, p, q, 0, n, j) /\ r = m[p + j] - m[q + j]
  <2>1. PICK j \in Nat : StopsFirst(m, p, q, 0, n, j) /\ r = m[p + j] - m[q + j]
    BY <1>11
  <2>2. /\ j < n /\ j <= a /\ j <= b /\ Equal(j) /\ Stop(m, p, q, j)
        /\ m[p + j] = m[q + j] => j = a /\ j = b
    <3>1. Stop(m, p, q, j)
      BY <2>1 DEF StopsFirst
    <3>. QED
      BY <1>4, <2>1, <3>1
  <2>3. j \in 0 .. n - 1
    BY <2>2
  <2>4. (r = 0 <=> m[p + j] = m[q + j]) /\ (r < 0 <=> m[p + j] < m[q + j])
    BY <1>6, <2>1, <2>3
  <2>5. ASSUME NEW k \in Nat, j < k, Equal(k) PROVE m[p + j] = m[q + j]
    BY <2>5
  <2>6. n = a => (r = 0 <=> IsPrefix(x, y))
    BY <1>3, <1>7, <2>2, <2>4, <2>5
  <2>7. n = b => (r = 0 <=> IsPrefix(y, x))
    BY <1>3, <1>8, <2>2, <2>4, <2>5
  <2>8. n > Max({a, b}) => (r = 0 <=> x = y)
    <3>1. ASSUME r = 0 PROVE x = y
      BY <1>9, <2>2, <2>4, <3>1
    <3>2. ASSUME x = y PROVE m[p + j] = m[q + j]
      <4>1. a = b /\ Equal(a)
        BY <1>9, <3>2
      <4>2. CASE j = a
        BY <1>1, <1>2, <4>1, <4>2 DEF StringAt
      <4>3. CASE j # a
        BY <1>3, <2>2, <2>5, <4>1, <4>3
      <4>. QED
        BY <4>2, <4>3
    <3>. QED
      BY <2>4, <3>1, <3>2
  <2>9. ASSUME NEW k \in 0 .. n - 1, k <= a, k <= b, Equal(k), m[p + k] < m[q + k]
        PROVE  k = j
    <3>1. ~(j < k)
      <4>. SUFFICES ASSUME j < k PROVE FALSE
        OBVIOUS
      <4>1. m[p + j] = m[q + j]
        BY <2>5, <2>9
      <4>. QED
        BY <1>3, <2>2, <2>9, <4>1
    <3>2. ~(k < j)
      <4>. SUFFICES ASSUME k < j PROVE FALSE
        OBVIOUS
      <4>1. m[p + k] = m[q + k]
        BY <2>2
      <4>. QED
        BY <1>6, <2>9, <4>1
    <3>. QED
      BY <3>1, <3>2
  <2>10. r < 0 <=> \E k \in 0 .. n - 1 :
                     /\ k <= a /\ k <= b
                     /\ SubSeq(x, 1, k) = SubSeq(y, 1, k)
                     /\ m[p + k] < m[q + k]
    <3>1. ASSUME r < 0
          PROVE  /\ j <= a /\ j <= b /\ SubSeq(x, 1, j) = SubSeq(y, 1, j)
                 /\ m[p + j] < m[q + j]
      <4>. HIDE DEF x, y, Equal
      <4>. QED
        BY <1>5, <2>2, <2>4, <3>1
    <3>2. ASSUME NEW k \in 0 .. n - 1, k <= a, k <= b,
                 SubSeq(x, 1, k) = SubSeq(y, 1, k), m[p + k] < m[q + k]
          PROVE  r < 0
      <4>1. Equal(k)
        <5>. HIDE DEF x, y, Equal
        <5>. QED
          BY <1>5, <3>2
      <4>2. k = j
        BY <2>9, <3>2, <4>1
      <4>. QED
        BY <2>4, <3>2, <4>2
    <3>. HIDE DEF x, y
    <3>. QED
      BY <2>3, <3>1, <3>2
  <2>. HIDE DEF x, y
  <2>. QED
    BY <1>3, <2>6, <2>7, <2>8, <2>10 DEF PrefixTold, x, y
<1>. QED
  BY <1>10, <1>11 DEF Compared

(* strncmp (include/stdlib.h) over the length of one string tells whether  *)
(* it is a prefix of the other, as the name server's scan and              *)
(* find_module_byname ask it, and over more than that orders the two.      *)
THEOREM PrefixesAreTold == Spec => TellsPrefix
<1>1. ASSUME MemoryTyped, Next, Was("strncmp"), Terminated(mem, arg(1)), Terminated(mem, arg(2))
      PROVE  PrefixTold(ret', mem, arg(1), arg(2), arg(3))
  <2>1. PICK p, q \in Addr, n \in 0 .. Size :
           /\ Fits(p, n) /\ Fits(q, n) /\ call'.args = <<p, q, n>>
           /\ ret' = strncmp(mem, p, q, n)
    BY <1>1, StrncmpCalled
  <2>2. arg(1) = p /\ arg(2) = q /\ arg(3) = n
    BY <2>1 DEF arg
  <2>3. mem \in [Addr -> Char] /\ n \in Nat /\ p + n - 1 <= Size /\ q + n - 1 <= Size
    BY <1>1, <2>1, StdLibAssumption DEF MemoryTyped, Fits
  <2>4. Compared(strncmp(mem, p, q, n), mem, p, q, 0, n)
    BY <2>3, StrncmpCompares
  <2>5. PrefixTold(ret', mem, p, q, n)
    BY <1>1, <2>1, <2>2, <2>3, <2>4, ComparisonTells
  <2>. QED
    BY <2>2, <2>5
<1>2. ASSUME MemoryTyped, [Next]_vars
      PROVE  [Was("strncmp") /\ Terminated(mem, arg(1)) /\ Terminated(mem, arg(2)) =>
                LET x == Text(mem, arg(1))
                    y == Text(mem, arg(2)) IN
                /\ arg(3) = Len(x) => (ret' = 0 <=> IsPrefix(x, y))
                /\ arg(3) = Len(y) => (ret' = 0 <=> IsPrefix(y, x))
                /\ arg(3) > Max({Len(x), Len(y)}) => (ret' = 0 <=> x = y)
                /\ ret' < 0 <=> \E k \in 0 .. arg(3) - 1 :
                                  /\ k <= Len(x) /\ k <= Len(y)
                                  /\ SubSeq(x, 1, k) = SubSeq(y, 1, k)
                                  /\ mem[arg(1) + k] < mem[arg(2) + k]]_vars
  BY <1>1, <1>2 DEF PrefixTold
<1>. QED
  BY <1>2, MemoryIsTyped, PTL DEF Spec, TellsPrefix

-----------------------------------------------------------------------------
(* The powers of two, up to the one past the word. *)
PowerRun(f) == f = [n \in 0 .. WordBits |-> IF n = 0 THEN 1 ELSE 2 * f[n - 1]]

LEMMA PowerFacts ==
  /\ WordBits \in Nat \ {0}
  /\ Power \in [0 .. WordBits -> Nat \ {0}] /\ Power[0] = 1
  /\ \A n \in 0 .. WordBits - 1 : Power[n + 1] = 2 * Power[n]
<1>. DEFINE X == Nat \ {0}
            turn == [k \in 1 .. WordBits |-> [x \in X |-> 2 * x]]
<1>1. WordBits \in Nat \ {0}
  BY StdLibAssumption
<1>2. turn \in [1 .. WordBits -> [X -> X]] /\ 1 \in X
  OBVIOUS
<1>3. PICK f : IsRun(f, WordBits, X, 1, turn)
  <2>. HIDE DEF turn, X
  <2>. QED
    BY <1>1, <1>2, LoopRuns
<1>4. ASSUME NEW k \in 1 .. WordBits PROVE f[k] = 2 * f[k - 1]
  <2>1. f[k - 1] \in X
    BY <1>1, <1>3 DEF IsRun
  <2>. QED
    BY <1>3, <2>1 DEF IsRun
<1>5. PowerRun(f)
  <2>1. f = [k \in 0 .. WordBits |-> f[k]] /\ f[0] = 1
    BY <1>3 DEF IsRun
  <2>2. \A k \in 0 .. WordBits : k # 0 => k \in 1 .. WordBits
    BY <1>1
  <2>. QED
    BY <1>4, <2>1, <2>2 DEF PowerRun
<1>6. PowerRun(Power)
  <2>1. Power = CHOOSE g : PowerRun(g)
    BY DEF Power, PowerRun
  <2>. QED
    BY <1>5, <2>1
<1>7. /\ Power[0] = 1 /\ Power = [k \in 0 .. WordBits |-> Power[k]]
      /\ \A k \in 0 .. WordBits - 1 : Power[k + 1] = 2 * Power[k]
  <2>1. \A k \in 0 .. WordBits : Power[k] = IF k = 0 THEN 1 ELSE 2 * Power[k - 1]
    BY <1>6 DEF PowerRun
  <2>2. ASSUME NEW k \in 0 .. WordBits - 1
        PROVE  k + 1 \in 0 .. WordBits /\ k + 1 # 0 /\ (k + 1) - 1 = k
    BY <1>1
  <2>3. 0 \in 0 .. WordBits
    BY <1>1
  <2>4. Power = [k \in 0 .. WordBits |-> IF k = 0 THEN 1 ELSE 2 * Power[k - 1]]
    BY <1>6 DEF PowerRun
  <2>5. Power = [k \in 0 .. WordBits |-> Power[k]]
    BY <2>4
  <2>. QED
    BY <2>1, <2>2, <2>3, <2>5
<1>8. Power \in [0 .. WordBits -> X]
  <2>. DEFINE P == {k \in 0 .. WordBits : Power[k] \in X}
  <2>1. 0 \in P
    BY <1>1, <1>7
  <2>2. ASSUME NEW k \in 1 .. WordBits, k - 1 \in P PROVE k \in P
    <3>1. k - 1 \in 0 .. WordBits - 1 /\ (k - 1) + 1 = k
      BY <1>1
    <3>2. Power[k] = 2 * Power[k - 1]
      BY <1>7, <3>1
    <3>. QED
      BY <2>2, <3>2
  <2>. HIDE DEF P
  <2>3. 0 .. WordBits \subseteq P
    BY <1>1, <2>1, <2>2, TurnInduction
  <2>4. \A k \in 0 .. WordBits : Power[k] \in X
    BY <2>3 DEF P
  <2>. QED
    BY ONLY <1>7, <2>4
<1>. QED
  BY <1>1, <1>7, <1>8

(* A power divides each greater one. *)
LEMMA PowerDivides ==
  ASSUME NEW i \in 0 .. WordBits, NEW j \in 0 .. WordBits, i <= j
  PROVE  \E q \in Nat \ {0} : /\ Power[j] = Power[i] * q
                              /\ i < j => q % 2 = 0
<1>. DEFINE Good(k, q) == Power[i + k] = Power[i] * q /\ (0 < k => q % 2 = 0)
            P == {k \in 0 .. WordBits - i : \E q \in Nat \ {0} : Good(k, q)}
<1>1. WordBits - i \in Nat /\ Power[i] \in Nat \ {0}
  BY PowerFacts
<1>2. 0 \in P
  <2>1. Good(0, 1)
    BY <1>1
  <2>. QED
    BY <1>1, <2>1
<1>3. ASSUME NEW k \in 1 .. WordBits - i, k - 1 \in P PROVE k \in P
  <2>1. PICK q \in Nat \ {0} : Good(k - 1, q)
    BY <1>3
  <2>2. Power[i + k] = 2 * Power[i + k - 1]
    <3>1. WordBits \in Nat /\ i \in Nat /\ k \in Nat
      BY PowerFacts
    <3>2. i + k - 1 \in 0 .. WordBits - 1 /\ (i + k - 1) + 1 = i + k
      BY <1>1, <3>1
    <3>. QED
      BY <3>2, PowerFacts
  <2>3. i + (k - 1) = i + k - 1
    OBVIOUS
  <2>4. Power[i + k] = Power[i] * (2 * q)
    BY <1>1, <2>1, <2>2, <2>3
  <2>5. 2 * q \in Nat \ {0} /\ (2 * q) % 2 = 0
    OBVIOUS
  <2>6. Good(k, 2 * q)
    BY <2>4, <2>5
  <2>. QED
    BY <2>5, <2>6
<1>. HIDE DEF P
<1>4. 0 .. WordBits - i \subseteq P
  BY ONLY <1>1, <1>2, <1>3, TurnInduction
<1>5. j - i \in 0 .. WordBits - i /\ i + (j - i) = j
  BY PowerFacts
<1>6. PICK q \in Nat \ {0} : Good(j - i, q)
  BY <1>4, <1>5 DEF P
<1>7. Power[j] = Power[i] * q /\ (i < j => q % 2 = 0)
  BY <1>5, <1>6
<1>. QED
  BY <1>7

-----------------------------------------------------------------------------
(* Division with a remainder, and that there is but one. *)
LEMMA DivisionFacts ==
  ASSUME NEW x \in Nat, NEW p \in Nat \ {0}
  PROVE  /\ x \div p \in Nat /\ x % p \in 0 .. p - 1
         /\ x = p * (x \div p) + (x % p)
OBVIOUS

LEMMA DivisionUnique ==
  ASSUME NEW p \in Nat \ {0}, NEW q \in Nat, NEW r \in 0 .. p - 1
  PROVE  (p * q + r) % p = r /\ (p * q + r) \div p = q
OBVIOUS

(* The low i + 1 bits of x are its low i bits and the bit i. *)
LEMMA OneBitMore ==
  ASSUME NEW x \in Nat, NEW i \in 0 .. WordBits - 1
  PROVE  x % Power[i + 1] = (x % Power[i]) + (IF i \in Bits(x) THEN Power[i] ELSE 0)
<1>. DEFINE p == Power[i]
            q == x \div p
            r == x % p
            h == q \div 2
            b == q % 2
<1>1. p \in Nat \ {0} /\ Power[i + 1] = 2 * p
  BY PowerFacts
<1>2. q \in Nat /\ r \in 0 .. p - 1 /\ x = p * q + r
  <2>. HIDE DEF p
  <2>. QED
    BY <1>1, DivisionFacts
<1>3. i \in Bits(x) <=> b = 1
  BY DEF Bits
<1>. HIDE DEF p, q, r
<1>4. h \in Nat /\ b \in {0, 1} /\ q = 2 * h + b
  BY <1>2
<1>. HIDE DEF h, b
<1>5. x = (2 * p) * h + (p * b + r)
  BY <1>1, <1>2, <1>4
<1>6. p * b + r \in 0 .. 2 * p - 1 /\ 2 * p \in Nat \ {0}
  BY <1>1, <1>2, <1>4
<1>7. x % (2 * p) = p * b + r
  <2>. DEFINE pp == 2 * p
              rr == p * b + r
  <2>. HIDE DEF pp, rr
  <2>. QED
    BY <1>4, <1>5, <1>6, DivisionUnique DEF pp, rr
<1>8. p * b = IF b = 1 THEN p ELSE 0
  BY <1>1, <1>4
<1>9. x % Power[i + 1] = r + (IF i \in Bits(x) THEN p ELSE 0)
  BY <1>1, <1>2, <1>3, <1>7, <1>8
<1>. QED
  BY <1>9 DEF p, r

-----------------------------------------------------------------------------
(* The word of a set of bits, bit after bit. *)
WordRun(f, B) ==
  f = [n \in 0 .. WordBits |->
         IF n = 0 THEN 0 ELSE f[n - 1] + (IF n - 1 \in B THEN Power[n - 1] ELSE 0)]

LEMMA WordOfRuns ==
  ASSUME NEW B
  PROVE  \E f : /\ WordOf(B) = f[WordBits]
                /\ f \in [0 .. WordBits -> Nat] /\ f[0] = 0
                /\ \A n \in 0 .. WordBits - 1 :
                     f[n + 1] = f[n] + (IF n \in B THEN Power[n] ELSE 0)
<1>. DEFINE e == [k \in 1 .. WordBits |-> IF k - 1 \in B THEN Power[k - 1] ELSE 0]
<1>1. WordBits \in Nat /\ WordBits # 0
  BY PowerFacts
<1>2. e \in [1 .. WordBits -> Nat]
  <2>1. \A k \in 1 .. WordBits : k - 1 \in 0 .. WordBits
    BY <1>1
  <2>. QED
    BY <2>1, PowerFacts
<1>3. PICK f : SumRun(f, WordBits, e)
  <2>. HIDE DEF e
  <2>. QED
    BY <1>1, <1>2, SumRuns
<1>4. \A k \in 1 .. WordBits : f[k] = f[k - 1] + (IF k - 1 \in B THEN Power[k - 1] ELSE 0)
  BY <1>3 DEF SumRun
<1>. HIDE DEF e
<1>5. WordRun(f, B)
  <2>1. f = [k \in 0 .. WordBits |-> f[k]] /\ f[0] = 0
    BY <1>3 DEF SumRun
  <2>2. \A k \in 0 .. WordBits : k # 0 => k \in 1 .. WordBits
    BY <1>1
  <2>. QED
    BY <1>4, <2>1, <2>2 DEF WordRun
<1>. DEFINE g == CHOOSE h : WordRun(h, B)
<1>6. WordOf(B) = g[WordBits]
  BY DEF WordOf, WordRun
<1>7. WordRun(g, B)
  BY <1>5
<1>. HIDE DEF g
<1>8. g[0] = 0 /\ \A n \in 0 .. WordBits - 1 :
                    g[n + 1] = g[n] + (IF n \in B THEN Power[n] ELSE 0)
  <2>1. \A k \in 0 .. WordBits :
          g[k] = IF k = 0 THEN 0 ELSE g[k - 1] + (IF k - 1 \in B THEN Power[k - 1] ELSE 0)
    BY <1>7 DEF WordRun
  <2>2. ASSUME NEW k \in 0 .. WordBits - 1
        PROVE  k + 1 \in 0 .. WordBits /\ k + 1 # 0 /\ (k + 1) - 1 = k
    BY <1>1
  <2>3. 0 \in 0 .. WordBits
    BY <1>1
  <2>. QED
    BY <2>1, <2>2, <2>3
<1>9. g \in [0 .. WordBits -> Nat]
  <2>. DEFINE P == {k \in 0 .. WordBits : g[k] \in Nat}
  <2>1. 0 \in P
    BY <1>1, <1>8
  <2>2. ASSUME NEW k \in 1 .. WordBits, k - 1 \in P PROVE k \in P
    <3>1. k - 1 \in 0 .. WordBits - 1 /\ (k - 1) + 1 = k /\ k - 1 \in 0 .. WordBits
      BY <1>1
    <3>2. g[k] = g[k - 1] + (IF k - 1 \in B THEN Power[k - 1] ELSE 0)
      BY <1>8, <3>1
    <3>3. Power[k - 1] \in Nat
      BY <3>1, PowerFacts
    <3>. QED
      BY <2>2, <3>2, <3>3
  <2>. HIDE DEF P
  <2>3. 0 .. WordBits \subseteq P
    BY <1>1, <2>1, <2>2, TurnInduction
  <2>4. \A k \in 0 .. WordBits : g[k] \in Nat
    BY <2>3 DEF P
  <2>5. g = [k \in 0 .. WordBits |-> g[k]]
    <3>. DEFINE F == [k \in 0 .. WordBits |->
                        IF k = 0 THEN 0
                        ELSE g[k - 1] + (IF k - 1 \in B THEN Power[k - 1] ELSE 0)]
    <3>1. g = F
      BY <1>7 DEF WordRun
    <3>2. F = [k \in 0 .. WordBits |-> F[k]]
      OBVIOUS
    <3>. HIDE DEF F
    <3>. QED
      BY <3>1, <3>2
  <2>. QED
    BY ONLY <2>4, <2>5
<1>. QED
  BY <1>6, <1>8, <1>9

(* The bits of x from lo up to hi, as a word: the low bits without the     *)
(* lowest.                                                                 *)
LEMMA WordOfSlice ==
  ASSUME NEW x \in Nat, NEW lo \in 0 .. WordBits, NEW hi \in lo .. WordBits
  PROVE  WordOf({i \in Bits(x) : lo <= i /\ i < hi}) = (x % Power[hi]) - (x % Power[lo])
<1>. DEFINE B == {i \in Bits(x) : lo <= i /\ i < hi}
            low(k) == x % Power[k]
            P(f) == {k \in 0 .. WordBits :
                       /\ k <= lo => f[k] = 0
                       /\ lo <= k /\ k <= hi => f[k] = low(k) - low(lo)
                       /\ hi <= k => f[k] = low(hi) - low(lo)}
<1>1. WordBits \in Nat /\ WordBits # 0 /\ lo \in Nat /\ hi \in Nat /\ lo <= hi /\ hi <= WordBits
  BY PowerFacts
<1>2. PICK f : /\ WordOf(B) = f[WordBits] /\ f[0] = 0
               /\ \A n \in 0 .. WordBits - 1 :
                    f[n + 1] = f[n] + (IF n \in B THEN Power[n] ELSE 0)
  <2>. HIDE DEF B
  <2>. QED
    BY WordOfRuns
<1>3. \A k \in 0 .. WordBits : low(k) \in Nat /\ Power[k] \in Nat
  <2>. SUFFICES ASSUME NEW k \in 0 .. WordBits PROVE low(k) \in Nat /\ Power[k] \in Nat
    OBVIOUS
  <2>1. Power[k] \in Nat \ {0}
    BY PowerFacts
  <2>. QED
    BY <2>1, DivisionFacts
<1>4. \A k \in 0 .. WordBits - 1 : low(k + 1) = low(k) + (IF k \in Bits(x) THEN Power[k] ELSE 0)
  BY OneBitMore
<1>5. \A k \in 0 .. WordBits - 1 : k \in B <=> k \in Bits(x) /\ lo <= k /\ k < hi
  OBVIOUS
<1>. HIDE DEF B, low
<1>6. 0 \in P(f)
  <2>1. low(lo) - low(lo) = 0
    BY <1>1, <1>3
  <2>2. lo <= 0 => lo = 0
    BY <1>1
  <2>3. hi <= 0 => hi = lo
    BY <1>1
  <2>4. hi <= 0 => lo <= 0
    BY <1>1
  <2>. QED
    BY <1>1, <1>2, <2>1, <2>2, <2>3, <2>4
<1>7. ASSUME NEW k \in 1 .. WordBits, k - 1 \in P(f) PROVE k \in P(f)
  <2>. DEFINE j == k - 1
  <2>1. j \in 0 .. WordBits - 1 /\ j + 1 = k /\ j \in 0 .. WordBits /\ k \in 0 .. WordBits
    BY <1>1
  <2>. HIDE DEF j
  <2>2. f[k] = f[j] + (IF j \in B THEN Power[j] ELSE 0)
    BY <1>2, <2>1
  <2>3. low(k) = low(j) + (IF j \in Bits(x) THEN Power[j] ELSE 0)
    BY <1>4, <2>1
  <2>4. j \in P(f)
    BY <1>7 DEF j
  <2>5. /\ low(j) \in Nat /\ low(k) \in Nat /\ low(lo) \in Nat /\ low(hi) \in Nat
        /\ Power[j] \in Nat
    BY <1>1, <1>3, <2>1
  <2>6. CASE k <= lo
    <3>1. j \notin B /\ f[j] = 0
      BY <1>1, <1>5, <2>1, <2>4, <2>6
    <3>2. f[k] = 0
      BY <2>2, <3>1
    <3>3. lo <= k => k = lo
      BY <1>1, <2>1, <2>6
    <3>4. hi <= k => hi = k /\ hi = lo
      BY <1>1, <2>1, <2>6
    <3>. QED
      BY <2>1, <2>5, <3>2, <3>3, <3>4
  <2>7. CASE lo < k /\ k <= hi
    <3>1. (j \in B <=> j \in Bits(x)) /\ f[j] = low(j) - low(lo)
      BY <1>1, <1>5, <2>1, <2>4, <2>7
    <3>2. f[k] = low(k) - low(lo)
      BY <2>2, <2>3, <2>5, <3>1
    <3>3. hi <= k => hi = k
      BY <1>1, <2>1, <2>7
    <3>4. ~(k <= lo)
      BY <1>1, <2>1, <2>7
    <3>. QED
      BY <2>1, <3>2, <3>3, <3>4
  <2>8. CASE hi < k
    <3>1. j \notin B /\ f[j] = low(hi) - low(lo)
      BY <1>1, <1>5, <2>1, <2>4, <2>8
    <3>2. f[k] = low(hi) - low(lo)
      BY <2>2, <2>5, <3>1
    <3>3. ~(k <= hi) /\ ~(k <= lo)
      BY <1>1, <2>1, <2>8
    <3>. QED
      BY <2>1, <3>2, <3>3
  <2>. QED
    BY <1>1, <2>1, <2>6, <2>7, <2>8
<1>8. WordBits \in P(f)
  <2>. HIDE DEF P
  <2>1. 0 .. WordBits \subseteq P(f)
    BY ONLY <1>1, <1>6, <1>7, TurnInduction
  <2>. QED
    BY <1>1, <2>1
<1>9. WordOf(B) = low(hi) - low(lo)
  BY <1>1, <1>2, <1>8
<1>. QED
  BY <1>9 DEF B, low

(* A word's lowest n bits are the word's remainder by Power[n], and all of *)
(* its bits the word.                                                      *)
LEMMA WordFacts ==
  ASSUME NEW x \in Word
  PROVE  /\ x \in Nat /\ x < Power[WordBits] /\ x % Power[WordBits] = x /\ x % Power[0] = 0
         /\ \A n \in 0 .. WordBits : /\ Power[n] \in Nat \ {0} /\ x % Power[n] \in 0 .. Power[n] - 1
                                     /\ x % Power[n] <= x
<1>1. WordBits \in Nat /\ \A n \in 0 .. WordBits : Power[n] \in Nat \ {0}
  BY PowerFacts
<1>2. x \in Nat /\ x < Power[WordBits]
  BY <1>1 DEF Word, AllOnes
<1>3. ASSUME NEW n \in 0 .. WordBits PROVE x % Power[n] \in 0 .. Power[n] - 1 /\ x % Power[n] <= x
  <2>. DEFINE p == Power[n]
  <2>1. p \in Nat \ {0}
    BY <1>1
  <2>. HIDE DEF p
  <2>2. x % p \in 0 .. p - 1 /\ x % p <= x
    BY <1>2, <2>1
  <2>. QED
    BY <2>2 DEF p
<1>4. x % Power[WordBits] = x
  <2>. DEFINE p == Power[WordBits]
  <2>1. p \in Nat \ {0} /\ x < p
    BY <1>1, <1>2
  <2>. HIDE DEF p
  <2>2. x % p = x
    BY <1>2, <2>1
  <2>. QED
    BY <2>2 DEF p
<1>5. x % Power[0] = 0
  <2>1. x % 1 = 0
    BY <1>2
  <2>. QED
    BY <2>1, PowerFacts
<1>. QED
  BY <1>1, <1>2, <1>3, <1>4, <1>5

(* The complement of r - 1 has the bits from that of r on. *)
LEMMA BitsOfMask ==
  ASSUME NEW n \in 0 .. WordBits - 1
  PROVE  Bits(Not(Power[n] - 1)) = n .. WordBits - 1
<1>. DEFINE m == Not(Power[n] - 1)
<1>1. WordBits \in Nat /\ WordBits # 0 /\ n \in Nat
  BY PowerFacts
<1>2. /\ \A k \in 0 .. WordBits : Power[k] \in Nat \ {0}
      /\ WordBits \in 0 .. WordBits /\ n \in 0 .. WordBits
  BY <1>1, PowerFacts
<1>3. m = Power[WordBits] - Power[n]
  BY <1>2 DEF Not, AllOnes
<1>. HIDE DEF m
<1>4. ASSUME NEW i \in 0 .. WordBits - 1 PROVE (m \div Power[i]) % 2 = 1 <=> n <= i
  <2>1. i \in 0 .. WordBits /\ i < WordBits /\ i \in Nat
    BY <1>1
  <2>2. PICK a \in Nat \ {0} : Power[WordBits] = Power[i] * a /\ a % 2 = 0
    BY <1>2, <2>1, PowerDivides
  <2>. DEFINE p == Power[i]
  <2>3. p \in Nat \ {0}
    BY <1>2, <2>1
  <2>4. CASE n <= i
    <3>1. PICK b \in Nat \ {0} : p = Power[n] * b
      BY <1>2, <2>1, <2>4, PowerDivides
    <3>2. Power[n] <= p /\ Power[n] \in Nat \ {0}
      BY <1>2, <3>1
    <3>3. m = p * (a - 1) + (p - Power[n])
      <4>1. p * (a - 1) = p * a - p
        BY <2>3
      <4>. QED
        BY <1>3, <2>2, <2>3, <3>2, <4>1
    <3>4. a - 1 \in Nat /\ (a - 1) % 2 = 1
      BY <2>2
    <3>5. m \div p = a - 1
      <4>. DEFINE q == a - 1
                  r == p - Power[n]
      <4>1. q \in Nat /\ r \in 0 .. p - 1 /\ m = p * q + r
        BY <2>3, <3>2, <3>3, <3>4
      <4>. HIDE DEF p, q, r
      <4>2. m \div p = q
        BY <2>3, <4>1, DivisionUnique
      <4>. QED
        BY <4>2 DEF q
    <3>. QED
      BY <2>4, <3>4, <3>5
  <2>5. CASE i < n
    <3>1. PICK b \in Nat \ {0} : Power[n] = p * b /\ b % 2 = 0
      BY <1>2, <2>1, <2>5, PowerDivides
    <3>2. PICK c \in Nat \ {0} : Power[WordBits] = Power[n] * c
      BY <1>2, PowerDivides
    <3>3. Power[n] <= Power[WordBits]
      BY <1>2, <3>2
    <3>4. p * b <= p * a
      BY <2>2, <3>1, <3>3
    <3>5. a - b \in Nat
      <4>. HIDE DEF p
      <4>1. ~(a < b)
        <5>. SUFFICES ASSUME a < b PROVE FALSE
          OBVIOUS
        <5>1. p * b = p * a + p * (b - a) /\ b - a \in Nat \ {0}
          BY <2>3
        <5>2. p * (b - a) \in Nat \ {0}
          BY <2>3, <5>1
        <5>3. p * a \in Nat
          BY <2>3
        <5>. QED
          BY <3>4, <5>1, <5>2, <5>3
      <4>. QED
        BY <4>1
    <3>6. m = p * (a - b) + 0
      <4>1. p * (a - b) = p * a - p * b
        BY <2>3
      <4>. QED
        BY <1>3, <2>2, <2>3, <3>1, <4>1
    <3>7. m \div p = a - b
      <4>. DEFINE q == a - b
      <4>1. q \in Nat /\ m = p * q + 0 /\ 0 \in 0 .. p - 1
        BY <2>3, <3>5, <3>6
      <4>. HIDE DEF p, q
      <4>2. m \div p = q
        BY <2>3, <4>1, DivisionUnique
      <4>. QED
        BY <4>2 DEF q
    <3>8. (a - b) % 2 = 0
      BY <2>2, <3>1, <3>5
    <3>. QED
      BY <1>1, <2>1, <2>5, <3>7, <3>8
  <2>. QED
    BY <1>1, <2>1, <2>4, <2>5
<1>5. Bits(m) = n .. WordBits - 1
  <2>1. \A i : i \in Bits(m) <=> i \in 0 .. WordBits - 1 /\ (m \div Power[i]) % 2 = 1
    BY DEF Bits
  <2>2. \A i : i \in n .. WordBits - 1 <=> i \in 0 .. WordBits - 1 /\ n <= i
    BY <1>1
  <2>. QED
    BY <1>4, <2>1, <2>2
<1>. QED
  BY <1>5 DEF m

(* So the mask takes away the remainder. *)
LEMMA AroundIs ==
  ASSUME NEW x \in Word, NEW n \in 0 .. WordBits - 1
  PROVE  around(x, Power[n]) = x - (x % Power[n])
<1>1. WordBits \in Nat /\ n \in 0 .. WordBits /\ WordBits \in n .. WordBits
  BY PowerFacts
<1>2. Bits(x) \cap Bits(Not(Power[n] - 1)) = {i \in Bits(x) : n <= i /\ i < WordBits}
  BY <1>1, BitsOfMask DEF Bits
<1>3. WordOf({i \in Bits(x) : n <= i /\ i < WordBits}) = (x % Power[WordBits]) - (x % Power[n])
  BY <1>1, WordFacts, WordOfSlice
<1>. QED
  BY <1>2, <1>3, WordFacts DEF around, And

(* What the greatest and the least element are. *)
LEMMA MaxIs ==
  ASSUME NEW S, S \subseteq Int, NEW m \in S, \A y \in S : y <= m
  PROVE  Max(S) = m
<1>1. /\ Max(S) \in S /\ \A y \in S : Max(S) >= y
  BY DEF Max
<1>2. Max(S) \in Int /\ m \in Int /\ Max(S) >= m /\ Max(S) <= m
  BY <1>1
<1>. QED
  BY ONLY <1>2

LEMMA MinIs ==
  ASSUME NEW S, S \subseteq Int, NEW m \in S, \A y \in S : m <= y
  PROVE  Min(S) = m
<1>1. /\ Min(S) \in S /\ \A y \in S : Min(S) <= y
  BY DEF Min
<1>2. Min(S) \in Int /\ m \in Int /\ Min(S) <= m /\ m <= Min(S)
  BY <1>1
<1>. QED
  BY ONLY <1>2

(* Multiples of p are p apart. *)
LEMMA MultiplesApart ==
  ASSUME NEW p \in Nat \ {0}, NEW x \in Nat, NEW z \in Nat, x % p = 0, z % p = 0, z < x
  PROVE  z + p <= x
<1>1. PICK a \in Nat : x = p * a
  <2>. DEFINE q == x \div p
  <2>1. q \in Nat /\ x = p * q + 0
    BY DivisionFacts
  <2>. HIDE DEF q
  <2>2. p * q \in Nat
    BY <2>1
  <2>3. x = p * q
    BY <2>1, <2>2
  <2>. QED
    BY <2>1, <2>3
<1>2. PICK b \in Nat : z = p * b
  <2>. DEFINE q == z \div p
  <2>1. q \in Nat /\ z = p * q + 0
    BY DivisionFacts
  <2>. HIDE DEF q
  <2>2. p * q \in Nat
    BY <2>1
  <2>3. z = p * q
    BY <2>1, <2>2
  <2>. QED
    BY <2>1, <2>3
<1>3. ~(a <= b)
  <2>. SUFFICES ASSUME a <= b PROVE FALSE
    OBVIOUS
  <2>1. p * b = p * a + p * (b - a) /\ p * (b - a) \in Nat
    OBVIOUS
  <2>. QED
    BY <1>1, <1>2, <2>1
<1>4. p * a = p * b + p * (a - b) /\ a - b \in Nat \ {0}
  BY <1>3
<1>5. p <= p * (a - b)
  BY <1>4
<1>6. p * (a - b) \in Nat /\ p * b \in Nat
  BY <1>4
<1>. QED
  BY <1>1, <1>2, <1>4, <1>5, <1>6

LEMMA WithoutRemainder ==
  ASSUME NEW p \in Nat \ {0}, NEW x \in Nat
  PROVE  x - (x % p) \in Nat /\ (x - (x % p)) % p = 0 /\ x % p < p /\ x - (x % p) <= x
<1>1. x \div p \in Nat /\ x % p \in 0 .. p - 1 /\ x - (x % p) = p * (x \div p) + 0
  BY DivisionFacts
<1>2. (p * (x \div p) + 0) % p = 0
  <2>. DEFINE q == x \div p
  <2>1. q \in Nat /\ 0 \in 0 .. p - 1
    BY <1>1
  <2>. HIDE DEF q
  <2>2. (p * q + 0) % p = 0
    BY <2>1, DivisionUnique
  <2>. QED
    BY <2>2 DEF q
<1>. QED
  BY <1>1, <1>2

Multiples(n) == {z \in Word : z % Power[n] = 0}

(* Rounding down gives the multiple at or below, *)
LEMMA RoundsDown ==
  ASSUME NEW x \in Word, NEW n \in 0 .. WordBits - 1
  PROVE  /\ aroundLb(x, n) \in Word
         /\ aroundLb(x, n) = Max({z \in Multiples(n) : z <= x})
<1>. DEFINE p == Power[n]
            m == x - (x % p)
            S == {z \in Multiples(n) : z <= x}
<1>1. p \in Nat \ {0} /\ n \in 0 .. WordBits
  BY PowerFacts
<1>2. x \in Nat /\ AllOnes \in Nat /\ x <= AllOnes
  <2>1. AllOnes \in Nat
    BY PowerFacts DEF AllOnes
  <2>. QED
    BY <2>1 DEF Word
<1>3. aroundLb(x, n) = m
  BY AroundIs DEF aroundLb
<1>. HIDE DEF p
<1>4. m \in Nat /\ m % p = 0 /\ m <= x /\ x < m + p
  BY <1>1, <1>2, WithoutRemainder
<1>. HIDE DEF m
<1>5. m \in Word
  BY <1>2, <1>4 DEF Word
<1>6. m \in S
  BY <1>4, <1>5 DEF Multiples, p
<1>7. ASSUME NEW z \in S PROVE z <= m
  <2>1. z \in Nat /\ z <= x /\ z % p = 0
    BY <1>2 DEF Multiples, Word, p
  <2>2. ~(m < z)
    <3>. SUFFICES ASSUME m < z PROVE FALSE
      OBVIOUS
    <3>1. m + p <= z
      BY <1>1, <1>4, <2>1, MultiplesApart
    <3>. QED
      BY <1>1, <1>2, <1>4, <2>1, <3>1
  <2>. QED
    BY <1>4, <2>1, <2>2
<1>8. S \subseteq Int
  BY <1>2 DEF Multiples, Word
<1>9. Max(S) = m
  <2>. HIDE DEF S
  <2>. QED
    BY <1>6, <1>7, <1>8, MaxIs
<1>. QED
  BY <1>3, <1>5, <1>9

(* and rounding up the one at or above, or 0 if the word ends before it.   *)
LEMMA RoundsUp ==
  ASSUME NEW x \in Word, NEW n \in 0 .. WordBits - 1
  PROVE  LET above == {z \in Multiples(n) : z >= x} IN
         /\ aroundUpLb(x, n) \in Word
         /\ aroundUpLb(x, n) = IF above = {} THEN 0 ELSE Min(above)
<1>. DEFINE p == Power[n]
            t == Power[WordBits]
            s == x + (p - 1)
            S == {z \in Multiples(n) : z >= x}
<1>1. p \in Nat \ {0} /\ n \in 0 .. WordBits /\ t \in Nat \ {0} /\ AllOnes = t - 1
  BY PowerFacts DEF AllOnes
<1>2. x \in Nat /\ x < t
  BY WordFacts
<1>3. aroundUpLb(x, n) = around(s % t, p)
  BY DEF aroundUpLb, aroundUp
<1>4. PICK c \in Nat \ {0} : t = p * c
  <2>1. WordBits \in 0 .. WordBits /\ n <= WordBits
    BY PowerFacts
  <2>. QED
    BY <1>1, <2>1, PowerDivides
<1>5. t % p = 0
  <2>1. (p * c + 0) % p = 0
    <3>. HIDE DEF p, t
    <3>. QED
      BY <1>1, DivisionUnique
  <2>. QED
    BY <1>1, <1>4, <2>1
<1>. HIDE DEF p, t
<1>6. S \subseteq Nat /\ \A z : z \in S <=> z \in Nat /\ z < t /\ z % p = 0 /\ x <= z
  BY <1>1, <1>2 DEF Multiples, Word, p
<1>7. CASE s < t
  <2>. DEFINE m == s - (s % p)
  <2>1. s \in Nat /\ s \in Word /\ s % t = s
    BY <1>1, <1>2, <1>7 DEF Word
  <2>. HIDE DEF s
  <2>2. around(s, p) = m
    BY <2>1, AroundIs DEF p
  <2>3. m \in Nat /\ m % p = 0 /\ m <= s /\ s < m + p
    BY <1>1, <2>1, WithoutRemainder
  <2>. HIDE DEF m
  <2>4. s - p < m /\ s = x + (p - 1)
    BY <1>1, <2>1, <2>3 DEF s
  <2>5. m \in S
    BY <1>1, <1>2, <1>6, <1>7, <2>1, <2>3, <2>4
  <2>6. ASSUME NEW z \in S PROVE m <= z
    <3>1. z \in Nat /\ z % p = 0 /\ x <= z
      BY <1>6
    <3>2. ~(z < m)
      <4>. SUFFICES ASSUME z < m PROVE FALSE
        OBVIOUS
      <4>1. z + p <= m
        BY <1>1, <2>3, <3>1, MultiplesApart
      <4>. QED
        BY <1>1, <1>2, <2>3, <2>4, <3>1, <4>1
    <3>. QED
      BY <2>3, <3>1, <3>2
  <2>7. m \in Word
    BY <1>1, <1>6, <2>3, <2>5 DEF Word
  <2>. HIDE DEF S
  <2>8. Min(S) = m /\ S # {}
    BY <1>6, <2>5, <2>6, MinIs
  <2>. QED
    BY <1>3, <2>1, <2>2, <2>7, <2>8 DEF S
<1>8. CASE t <= s
  <2>. DEFINE w == s - t
  <2>1. w \in Nat /\ w < p /\ w < t /\ s = t * 1 + w
    <3>1. p <= t
      <4>1. p <= p * c
        BY <1>1, <1>4
      <4>. QED
        BY <1>4, <4>1
    <3>. QED
      BY <1>1, <1>2, <1>8, <3>1
  <2>. HIDE DEF w
  <2>2. s % t = w
    <3>1. (t * 1 + w) % t = w
      BY <1>1, <2>1, DivisionUnique
    <3>. QED
      BY <2>1, <3>1
  <2>3. w \in Word
    BY <1>1, <2>1 DEF Word
  <2>4. w % p = w
    BY <1>1, <2>1
  <2>5. around(w, p) = 0
    BY <2>1, <2>3, <2>4, AroundIs DEF p
  <2>6. ASSUME NEW z \in S PROVE FALSE
    <3>1. z \in Nat /\ z < t /\ z % p = 0 /\ x <= z
      BY <1>6
    <3>2. z + p <= t
      BY <1>1, <1>5, <3>1, MultiplesApart
    <3>. QED
      BY <1>1, <1>2, <1>8, <3>1, <3>2
  <2>7. S = {}
    BY <2>6
  <2>8. 0 \in Word
    BY <1>1 DEF Word
  <2>. HIDE DEF s, S
  <2>. QED
    BY <1>3, <2>2, <2>5, <2>7, <2>8 DEF S
<1>9. s \in Int
  BY <1>1, <1>2
<1>. HIDE DEF s, S
<1>. QED
  BY <1>1, <1>7, <1>8, <1>9

LEMMA GreatestElement ==
  ASSUME NEW n \in Nat, NEW S, S \subseteq 0 .. n, S # {}
  PROVE  \E x \in S : \A y \in S : y <= x
<1>. DEFINE T == {k \in 0 .. n : n - k \in S}
<1>1. PICK y \in S : TRUE
  OBVIOUS
<1>2. y \in 0 .. n /\ n - (n - y) = y /\ n - y \in 0 .. n
  BY <1>1
<1>3. T \subseteq Nat /\ T # {}
  <2>1. n - y \in T
    BY <1>1, <1>2
  <2>2. T \subseteq Nat
    OBVIOUS
  <2>. HIDE DEF T
  <2>. QED
    BY <2>1, <2>2
<1>4. PICK k \in T : \A j \in T : ~(j < k)
  <2>. HIDE DEF T
  <2>. QED
    BY <1>3, LeastElement
<1>5. ASSUME NEW z \in S PROVE z <= n - k
  <2>1. z \in 0 .. n /\ n - (n - z) = z /\ n - z \in 0 .. n
    OBVIOUS
  <2>2. n - z \in T /\ k \in 0 .. n /\ n - z \in Int
    BY <1>4, <2>1
  <2>. HIDE DEF T
  <2>3. ~(n - z < k)
    BY <1>4, <2>2
  <2>. QED
    BY <2>1, <2>2, <2>3
<1>. QED
  BY <1>4, <1>5

(* Without a bit between them two remainders are the same. *)
LEMMA NoBitBetween ==
  ASSUME NEW x \in Nat, NEW lo \in 0 .. WordBits, NEW hi \in lo .. WordBits,
         \A i \in Bits(x) : ~(lo <= i /\ i < hi)
  PROVE  x % Power[hi] = x % Power[lo]
<1>1. lo \in lo .. WordBits /\ lo \in Nat /\ hi \in 0 .. WordBits /\ \A i \in Bits(x) : i \in Nat
  BY PowerFacts DEF Bits
<1>2. /\ {i \in Bits(x) : lo <= i /\ i < hi} = {}
      /\ {i \in Bits(x) : lo <= i /\ i < lo} = {}
  BY <1>1
<1>3. /\ WordOf({i \in Bits(x) : lo <= i /\ i < hi}) = (x % Power[hi]) - (x % Power[lo])
      /\ WordOf({i \in Bits(x) : lo <= i /\ i < lo}) = (x % Power[lo]) - (x % Power[lo])
  BY <1>1, WordOfSlice
<1>4. x % Power[hi] \in Int /\ x % Power[lo] \in Int
  <2>1. \A n \in 0 .. WordBits : x % Power[n] \in Int
    <3>. SUFFICES ASSUME NEW n \in 0 .. WordBits PROVE x % Power[n] \in Int
      OBVIOUS
    <3>1. Power[n] \in Nat \ {0}
      BY PowerFacts
    <3>. QED
      BY <3>1, DivisionFacts
  <2>. QED
    BY <1>1, <2>1
<1>. DEFINE a == x % Power[hi]
            b == x % Power[lo]
<1>5. WordOf({}) = a - b /\ WordOf({}) = b - b /\ a \in Int /\ b \in Int
  BY <1>2, <1>3, <1>4
<1>. HIDE DEF a, b
<1>6. a = b
  BY <1>5
<1>. QED
  BY <1>6 DEF a, b

LEMMA BitsThere ==
  ASSUME NEW x \in Word
  PROVE  /\ Bits(x) \subseteq 0 .. WordBits - 1 /\ Bits(x) \subseteq Int
         /\ x = 0 <=> Bits(x) = {}
<1>1. Bits(x) \subseteq 0 .. WordBits - 1 /\ Bits(x) \subseteq Int
  BY PowerFacts DEF Bits
<1>2. ASSUME x = 0, NEW i \in Bits(x) PROVE FALSE
  <2>. DEFINE p == Power[i]
  <2>1. i \in 0 .. WordBits - 1 /\ (x \div p) % 2 = 1
    BY DEF Bits
  <2>2. p \in Nat \ {0}
    BY <2>1, PowerFacts
  <2>. HIDE DEF p
  <2>3. x \div p = 0
    BY <1>2, <2>2
  <2>. QED
    BY <2>1, <2>3
<1>3. ASSUME Bits(x) = {} PROVE x = 0
  <2>1. 0 \in 0 .. WordBits /\ WordBits \in 0 .. WordBits
    BY PowerFacts
  <2>2. x % Power[WordBits] = x % Power[0]
    BY <1>3, <2>1, WordFacts, NoBitBetween
  <2>. QED
    BY <2>2, WordFacts
<1>. QED
  BY <1>1, <1>2, <1>3

(* The highest bit and the lowest enclose the word. *)
LEMMA MsBitEncloses ==
  ASSUME NEW x \in Word
  PROVE  /\ msBit(x) \in Int
         /\ x = 0 => msBit(x) = AllOnes
         /\ x # 0 => msBit(x) < WordBits /\ Power[msBit(x)] <= x /\ x < Power[msBit(x) + 1]
<1>1. CASE x = 0
  BY <1>1, BitsThere, PowerFacts DEF msBit, AllOnes
<1>2. CASE x # 0
  <2>. DEFINE k == Max(Bits(x))
  <2>1. WordBits - 1 \in Nat /\ WordBits \in Nat
    BY PowerFacts
  <2>2. k \in Bits(x) /\ \A i \in Bits(x) : i <= k
    <3>1. PICK m \in Bits(x) : \A i \in Bits(x) : i <= m
      BY <1>2, <2>1, BitsThere, GreatestElement
    <3>2. k = m
      BY <3>1, BitsThere, MaxIs
    <3>. QED
      BY <3>1, <3>2
  <2>3. msBit(x) = k
    BY <1>2, BitsThere DEF msBit
  <2>. HIDE DEF k
  <2>4. k \in 0 .. WordBits - 1 /\ k < WordBits /\ k \in 0 .. WordBits /\ k + 1 \in 0 .. WordBits
        /\ WordBits \in k + 1 .. WordBits
    BY <2>1, <2>2, BitsThere
  <2>5. x % Power[WordBits] = x % Power[k + 1]
    <3>1. \A i \in Bits(x) : ~(k + 1 <= i /\ i < WordBits)
      BY <2>1, <2>2, <2>4, BitsThere
    <3>. QED
      BY <2>4, <3>1, WordFacts, NoBitBetween
  <2>6. x % Power[k + 1] = (x % Power[k]) + Power[k]
    BY <2>2, <2>4, OneBitMore, WordFacts
  <2>7. Power[k] \in Nat /\ Power[k + 1] \in Nat /\ x % Power[k] \in Nat /\ x % Power[k + 1] < Power[k + 1]
    BY <2>4, WordFacts
  <2>8. Power[k] <= x /\ x < Power[k + 1]
    BY <2>5, <2>6, <2>7, WordFacts
  <2>. QED
    BY <1>2, <2>3, <2>4, <2>8
<1>. QED
  BY <1>1, <1>2

LEMMA LsBitEncloses ==
  ASSUME NEW x \in Word
  PROVE  /\ lsBit(x) \in Int
         /\ x = 0 => lsBit(x) = AllOnes
         /\ x # 0 => lsBit(x) < WordBits /\ x % Power[lsBit(x)] = 0 /\ x % Power[lsBit(x) + 1] # 0
<1>1. CASE x = 0
  BY <1>1, BitsThere, PowerFacts DEF lsBit, AllOnes
<1>2. CASE x # 0
  <2>. DEFINE k == Min(Bits(x))
  <2>1. WordBits - 1 \in Nat /\ WordBits \in Nat
    BY PowerFacts
  <2>2. k \in Bits(x) /\ \A i \in Bits(x) : k <= i
    <3>1. Bits(x) \subseteq Nat /\ Bits(x) # {}
      BY <1>2, <2>1, BitsThere
    <3>2. PICK m \in Bits(x) : \A i \in Bits(x) : ~(i < m)
      BY <3>1, LeastElement
    <3>3. \A i \in Bits(x) : m <= i
      BY <3>1, <3>2
    <3>4. k = m
      BY <3>2, <3>3, BitsThere, MinIs
    <3>. QED
      BY <3>3, <3>4
  <2>3. lsBit(x) = k
    BY <1>2, BitsThere DEF lsBit
  <2>. HIDE DEF k
  <2>4. k \in 0 .. WordBits - 1 /\ k < WordBits /\ k \in 0 .. WordBits /\ k + 1 \in 0 .. WordBits
        /\ 0 \in 0 .. WordBits
    BY <2>1, <2>2, BitsThere
  <2>5. x % Power[k] = x % Power[0]
    <3>1. \A i \in Bits(x) : ~(0 <= i /\ i < k)
      BY <2>1, <2>2, <2>4, BitsThere
    <3>. QED
      BY <2>4, <3>1, WordFacts, NoBitBetween
  <2>6. x % Power[k + 1] = (x % Power[k]) + Power[k]
    BY <2>2, <2>4, OneBitMore, WordFacts
  <2>7. Power[k] \in Nat \ {0} /\ x % Power[k] = 0
    BY <2>4, <2>5, WordFacts
  <2>8. x % Power[k + 1] # 0
    BY <2>6, <2>7
  <2>. QED
    BY <1>2, <2>3, <2>4, <2>7, <2>8
<1>. QED
  BY <1>1, <1>2

-----------------------------------------------------------------------------
(* The count of the bits, bit after bit. *)
CountRun(f, x) ==
  f = [n \in 0 .. WordBits - 1 |->
         IF n = 0 THEN 0 ELSE f[n - 1] + (IF n - 1 \in Bits(x) THEN 1 ELSE 0)]

LEMMA CountRuns ==
  ASSUME NEW x
  PROVE  \E f : /\ numBits(x) = f[WordBits - 1] /\ f[0] = 0
                /\ \A k \in 1 .. WordBits - 1 : f[k] = f[k - 1] + (IF k - 1 \in Bits(x) THEN 1 ELSE 0)
<1>. DEFINE n == WordBits - 1
            e == [k \in 1 .. n |-> IF k - 1 \in Bits(x) THEN 1 ELSE 0]
<1>1. n \in Nat
  BY PowerFacts
<1>2. e \in [1 .. n -> Nat]
  OBVIOUS
<1>3. PICK f : SumRun(f, n, e)
  <2>. HIDE DEF e, n
  <2>. QED
    BY <1>1, <1>2, SumRuns
<1>4. \A k \in 1 .. n : f[k] = f[k - 1] + (IF k - 1 \in Bits(x) THEN 1 ELSE 0)
  BY <1>3 DEF SumRun
<1>. HIDE DEF e
<1>5. CountRun(f, x)
  <2>1. f = [k \in 0 .. n |-> f[k]] /\ f[0] = 0
    BY <1>3 DEF SumRun
  <2>2. \A k \in 0 .. n : k # 0 => k \in 1 .. n
    BY <1>1
  <2>. QED
    BY <1>4, <2>1, <2>2 DEF CountRun
<1>. DEFINE g == CHOOSE h : CountRun(h, x)
<1>6. numBits(x) = g[n]
  BY DEF numBits, CountRun
<1>7. CountRun(g, x)
  BY <1>5
<1>. HIDE DEF g
<1>8. \A k \in 0 .. n : g[k] = IF k = 0 THEN 0 ELSE g[k - 1] + (IF k - 1 \in Bits(x) THEN 1 ELSE 0)
  BY <1>7 DEF CountRun
<1>9. 0 \in 0 .. n /\ \A k \in 1 .. n : k \in 0 .. n /\ k # 0
  BY <1>1
<1>10. g[0] = 0 /\ \A k \in 1 .. n : g[k] = g[k - 1] + (IF k - 1 \in Bits(x) THEN 1 ELSE 0)
  BY <1>8, <1>9
<1>. QED
  BY <1>6, <1>10

LEMMA NumBitsCounts ==
  ASSUME NEW x \in Word
  PROVE  /\ numBits(x) \in Int
         /\ \E bits \in SUBSET (0 .. WordBits - 2) :
              /\ numBits(x) = Cardinality(bits)
              /\ WordOf(bits) = x % Power[WordBits - 1]
<1>. DEFINE n == WordBits - 1
            S(k) == {i \in Bits(x) : 0 <= i /\ i < k}
<1>1. n \in Nat /\ WordBits \in Nat /\ Bits(x) \subseteq 0 .. n
  BY PowerFacts, BitsThere
<1>2. PICK f : /\ numBits(x) = f[n] /\ f[0] = 0
               /\ \A k \in 1 .. n : f[k] = f[k - 1] + (IF k - 1 \in Bits(x) THEN 1 ELSE 0)
  BY CountRuns
<1>. DEFINE P == {k \in 0 .. n : IsFiniteSet(S(k)) /\ f[k] = Cardinality(S(k))}
<1>3. 0 \in P
  <2>1. S(0) = {}
    BY <1>1
  <2>. QED
    BY <1>1, <1>2, <2>1, FS_EmptySet
<1>4. ASSUME NEW k \in 1 .. n, k - 1 \in P PROVE k \in P
  <2>1. IsFiniteSet(S(k - 1)) /\ f[k - 1] = Cardinality(S(k - 1))
    BY <1>4
  <2>2. f[k] = f[k - 1] + (IF k - 1 \in Bits(x) THEN 1 ELSE 0)
    BY <1>2
  <2>3. Cardinality(S(k - 1)) \in Nat
    BY <2>1, FS_CardinalityType
  <2>4. S(k) = S(k - 1) \cup (IF k - 1 \in Bits(x) THEN {k - 1} ELSE {})
    <3>1. \A i \in Bits(x) : i \in Nat /\ (0 <= i /\ i < k <=> (0 <= i /\ i < k - 1) \/ i = k - 1)
      BY <1>1
    <3>. QED
      BY <3>1
  <2>5. CASE k - 1 \in Bits(x)
    <3>1. k - 1 \notin S(k - 1)
      BY <1>1
    <3>2. S(k) = S(k - 1) \cup {k - 1}
      BY <2>4, <2>5
    <3>. HIDE DEF S
    <3>3. IsFiniteSet(S(k - 1) \cup {k - 1}) /\ Cardinality(S(k - 1) \cup {k - 1}) = Cardinality(S(k - 1)) + 1
      BY <2>1, <3>1, FS_AddElement
    <3>4. IsFiniteSet(S(k)) /\ f[k] = Cardinality(S(k))
      BY <2>1, <2>2, <2>5, <3>2, <3>3
    <3>. QED
      BY <1>1, <3>4
  <2>6. CASE k - 1 \notin Bits(x)
    <3>1. S(k) = S(k - 1)
      BY <2>4, <2>6
    <3>. HIDE DEF S
    <3>2. IsFiniteSet(S(k)) /\ f[k] = Cardinality(S(k))
      BY <2>1, <2>2, <2>3, <2>6, <3>1
    <3>. QED
      BY <1>1, <3>2
  <2>. QED
    BY <2>5, <2>6
<1>5. IsFiniteSet(S(n)) /\ f[n] = Cardinality(S(n))
  <2>. HIDE DEF P
  <2>1. 0 .. n \subseteq P
    BY ONLY <1>1, <1>3, <1>4, TurnInduction
  <2>. QED
    BY <1>1, <2>1 DEF P
<1>6. numBits(x) = Cardinality(S(n)) /\ Cardinality(S(n)) \in Nat
  BY <1>2, <1>5, FS_CardinalityType
<1>7. S(n) \in SUBSET (0 .. WordBits - 2)
  BY <1>1
<1>8. WordOf(S(n)) = x % Power[n]
  <2>1. WordOf(S(n)) = (x % Power[n]) - (x % Power[0])
    <3>1. 0 \in 0 .. WordBits /\ n \in 0 .. WordBits /\ x \in Nat
      BY <1>1, WordFacts
    <3>. QED
      BY <3>1, WordOfSlice
  <2>2. x % Power[0] = 0 /\ x % Power[n] \in Nat
    <3>1. n \in 0 .. WordBits
      BY <1>1
    <3>. QED
      BY <3>1, WordFacts
  <2>. DEFINE r == x % Power[n]
  <2>3. WordOf(S(n)) = r - 0 /\ r \in Nat
    BY <2>1, <2>2
  <2>. HIDE DEF r, S
  <2>4. WordOf(S(n)) = r
    BY <2>3
  <2>. QED
    BY <2>4 DEF r
<1>. HIDE DEF S
<1>. QED
  BY <1>6, <1>7, <1>8

LEMMA MinMaxAre ==
  ASSUME NEW x \in Word, NEW y \in Word
  PROVE  min(x, y) = Min({x, y}) /\ max(x, y) = Max({x, y}) /\ min(x, y) \in Int /\ max(x, y) \in Int
<1>1. x \in Int /\ y \in Int
  BY WordFacts
<1>2. min(x, y) \in {x, y} /\ \A z \in {x, y} : min(x, y) <= z
  BY <1>1 DEF min
<1>3. max(x, y) \in {x, y} /\ \A z \in {x, y} : z <= max(x, y)
  BY <1>1 DEF max
<1>. DEFINE S == {x, y}
<1>4. S \subseteq Int
  BY <1>1
<1>5. min(x, y) = Min(S) /\ max(x, y) = Max(S)
  <2>1. min(x, y) \in S /\ \A z \in S : min(x, y) <= z
    BY <1>2
  <2>2. max(x, y) \in S /\ \A z \in S : z <= max(x, y)
    BY <1>3
  <2>. HIDE DEF S
  <2>. QED
    BY <1>4, <2>1, <2>2, MinIs, MaxIs
<1>. QED
  BY <1>1, <1>2, <1>3, <1>5

-----------------------------------------------------------------------------
(* The calls on words, and what each returned. *)
LEMMA RoundingCalled ==
  ASSUME Next
  PROVE  /\ Was("aroundLb") => \E x \in Word, y \in 0 .. WordBits - 1 :
                                 call'.args = <<x, y>> /\ ret' = aroundLb(x, y)
         /\ Was("aroundUpLb") => \E x \in Word, y \in 0 .. WordBits - 1 :
                                   call'.args = <<x, y>> /\ ret' = aroundUpLb(x, y)
<1>1. \A y \in Word : y < WordBits => y \in 0 .. WordBits - 1
  BY PowerFacts DEF Word
<1>2. Was("aroundLb") => \E x, y \in Word : /\ y < WordBits /\ call'.args = <<x, y>>
                                            /\ ret' = aroundLb(x, y)
  BY DEF Next, Write, CopyString, Read, Compute, Was, Made, Returns, Result
<1>3. Was("aroundUpLb") => \E x, y \in Word : /\ y < WordBits /\ call'.args = <<x, y>>
                                              /\ ret' = aroundUpLb(x, y)
  BY DEF Next, Write, CopyString, Read, Compute, Was, Made, Returns, Result
<1>. QED
  BY <1>1, <1>2, <1>3

LEMMA BitsCalled ==
  ASSUME Next
  PROVE  /\ Was("msBit") => \E x \in Word : call'.args = <<x>> /\ ret' = msBit(x)
         /\ Was("lsBit") => \E x \in Word : call'.args = <<x>> /\ ret' = lsBit(x)
         /\ Was("numBits") => \E x \in Word : call'.args = <<x>> /\ ret' = numBits(x)
<1>1. Was("msBit") => \E x \in Word : call'.args = <<x>> /\ ret' = msBit(x)
  BY DEF Next, Write, CopyString, Read, Compute, Was, Made, Returns, Result
<1>2. Was("lsBit") => \E x \in Word : call'.args = <<x>> /\ ret' = lsBit(x)
  BY DEF Next, Write, CopyString, Read, Compute, Was, Made, Returns, Result
<1>3. Was("numBits") => \E x \in Word : call'.args = <<x>> /\ ret' = numBits(x)
  BY DEF Next, Write, CopyString, Read, Compute, Was, Made, Returns, Result
<1>. QED
  BY <1>1, <1>2, <1>3

LEMMA MinMaxCalled ==
  ASSUME Next
  PROVE  /\ Was("min") => \E x, y \in Word : call'.args = <<x, y>> /\ ret' = min(x, y)
         /\ Was("max") => \E x, y \in Word : call'.args = <<x, y>> /\ ret' = max(x, y)
<1>1. Was("min") => \E x, y \in Word : call'.args = <<x, y>> /\ ret' = min(x, y)
  BY DEF Next, Write, CopyString, Read, Compute, Was, Made, Returns, Result
<1>2. Was("max") => \E x, y \in Word : call'.args = <<x, y>> /\ ret' = max(x, y)
  BY DEF Next, Write, CopyString, Read, Compute, Was, Made, Returns, Result
<1>. QED
  BY <1>1, <1>2

LEMMA WordsRightStep ==
  ASSUME Next
  PROVE  WordsRight'
<1>. DEFINE x == arg(1)
            y == arg(2)
            above == {z \in Multiples(y) : z >= x}
<1>1. Was("aroundLb") => ret' = Max({z \in Multiples(y) : z <= x})
  <2>. SUFFICES ASSUME Was("aroundLb") PROVE ret' = Max({z \in Multiples(y) : z <= x})
    OBVIOUS
  <2>1. PICK a \in Word, b \in 0 .. WordBits - 1 : call'.args = <<a, b>> /\ ret' = aroundLb(a, b)
    BY RoundingCalled
  <2>2. x = a /\ y = b
    BY <2>1 DEF arg
  <2>. HIDE DEF x, y
  <2>. QED
    BY <2>1, <2>2, RoundsDown
<1>2. Was("aroundUpLb") => ret' = IF above = {} THEN 0 ELSE Min(above)
  <2>. SUFFICES ASSUME Was("aroundUpLb")
                PROVE  ret' = IF above = {} THEN 0 ELSE Min(above)
    OBVIOUS
  <2>1. PICK a \in Word, b \in 0 .. WordBits - 1 : call'.args = <<a, b>> /\ ret' = aroundUpLb(a, b)
    BY RoundingCalled
  <2>2. x = a /\ y = b
    BY <2>1 DEF arg
  <2>. HIDE DEF x, y
  <2>. QED
    BY <2>1, <2>2, RoundsUp
<1>3. /\ Was("msBit") /\ x # 0 => ret' < WordBits /\ Power[ret'] <= x /\ x < Power[ret' + 1]
      /\ Was("msBit") /\ x = 0 => ret' = AllOnes
  <2>. SUFFICES ASSUME Was("msBit")
                PROVE  /\ x # 0 => ret' < WordBits /\ Power[ret'] <= x /\ x < Power[ret' + 1]
                       /\ x = 0 => ret' = AllOnes
    OBVIOUS
  <2>1. PICK a \in Word : call'.args = <<a>> /\ ret' = msBit(a)
    BY BitsCalled
  <2>2. x = a
    BY <2>1 DEF arg
  <2>. HIDE DEF x
  <2>. QED
    BY <2>1, <2>2, MsBitEncloses
<1>4. /\ Was("lsBit") /\ x # 0 => ret' < WordBits /\ x % Power[ret'] = 0 /\ x % Power[ret' + 1] # 0
      /\ Was("lsBit") /\ x = 0 => ret' = AllOnes
  <2>. SUFFICES ASSUME Was("lsBit")
                PROVE  /\ x # 0 => ret' < WordBits /\ x % Power[ret'] = 0 /\ x % Power[ret' + 1] # 0
                       /\ x = 0 => ret' = AllOnes
    OBVIOUS
  <2>1. PICK a \in Word : call'.args = <<a>> /\ ret' = lsBit(a)
    BY BitsCalled
  <2>2. x = a
    BY <2>1 DEF arg
  <2>. HIDE DEF x
  <2>. QED
    BY <2>1, <2>2, LsBitEncloses
<1>5. Was("numBits") =>
        \E bits \in SUBSET (0 .. WordBits - 2) :
          ret' = Cardinality(bits) /\ WordOf(bits) = x % Power[WordBits - 1]
  <2>. SUFFICES ASSUME Was("numBits")
                PROVE  \E bits \in SUBSET (0 .. WordBits - 2) :
                         ret' = Cardinality(bits) /\ WordOf(bits) = x % Power[WordBits - 1]
    OBVIOUS
  <2>1. PICK a \in Word : call'.args = <<a>> /\ ret' = numBits(a)
    BY BitsCalled
  <2>2. x = a
    BY <2>1 DEF arg
  <2>. HIDE DEF x
  <2>. QED
    BY <2>1, <2>2, NumBitsCounts
<1>6. /\ Was("min") => ret' = Min({x, y})
      /\ Was("max") => ret' = Max({x, y})
  <2>1. ASSUME Was("min") PROVE ret' = Min({x, y})
    <3>1. PICK a, b \in Word : call'.args = <<a, b>> /\ ret' = min(a, b)
      BY <2>1, MinMaxCalled
    <3>2. x = a /\ y = b
      BY <3>1 DEF arg
    <3>. HIDE DEF x, y
    <3>. QED
      BY <3>1, <3>2, MinMaxAre
  <2>2. ASSUME Was("max") PROVE ret' = Max({x, y})
    <3>1. PICK a, b \in Word : call'.args = <<a, b>> /\ ret' = max(a, b)
      BY <2>2, MinMaxCalled
    <3>2. x = a /\ y = b
      BY <3>1 DEF arg
    <3>. HIDE DEF x, y
    <3>. QED
      BY <3>1, <3>2, MinMaxAre
  <2>. QED
    BY <2>1, <2>2
<1>. HIDE DEF above
<1>. QED
  BY <1>1, <1>2, <1>3, <1>4, <1>5, <1>6 DEF WordsRight, Was, arg, Multiples, above

(* The helpers on words (include/stdlib.h) are right for a word of any     *)
(* number of bits: rounding gives the nearest multiple, or 0 past the end  *)
(* of the word, msBit and lsBit the bits that enclose the value, numBits   *)
(* the number of bits but the highest.                                     *)
THEOREM WordsAreRight == Spec => []WordsRight
<1>1. Init => WordsRight
  BY DEF Init, WordsRight
<1>2. WordsRight /\ [Next]_vars => WordsRight'
  <2>1. ASSUME WordsRight, UNCHANGED vars PROVE WordsRight'
    BY <2>1 DEF vars, WordsRight
  <2>. QED
    BY <2>1, WordsRightStep
<1>. QED
  BY <1>1, <1>2, PTL DEF Spec

-----------------------------------------------------------------------------
LEMMA ScanTyped ==
  ASSUME NEW m, NEW p \in Addr, NEW cs
  PROVE  Scan(m, p, cs) \in Int
<1>. DEFINE found == {x \in p .. Size : m[x] \in cs}
<1>1. found \subseteq Nat
  BY DEF Addr
<1>. HIDE DEF found
<1>2. CASE found = {}
  BY <1>2 DEF Scan, found, Fault
<1>3. CASE found # {}
  <2>1. PICK x \in found : \A y \in found : ~(y < x)
    BY <1>1, <1>3, LeastElement
  <2>2. \A y \in found : x <= y
    BY <1>1, <2>1
  <2>3. Min(found) \in found
    BY <2>2 DEF Min
  <2>. QED
    BY <1>1, <1>3, <2>3 DEF Scan, found
<1>. QED
  BY <1>2, <1>3

(* What any call returns is an int. *)
LEMMA ReturnTyped ==
  ASSUME MemoryTyped, Next
  PROVE  ret' \in Int
<1>1. CASE Write
  <2>1. CASE Was("strncpy")
    <3>1. PICK d, s \in Addr, n \in 0 .. Size :
             Fits(d, n) /\ Fits(s, n) /\ ret' = d + Copied(mem, d, s, n).count
      BY <1>1, <2>1 DEF Write, Was, Made, Returns, Result, strncpy
    <3>2. n \in Nat /\ s + n - 1 <= Size /\ d + n - 1 <= Size
      BY <3>1, StdLibAssumption DEF Fits
    <3>3. CopyDone(Copied(mem, d, s, n), mem, d, s, n)
      BY <3>2, CopiedCopies DEF MemoryTyped
    <3>4. Copied(mem, d, s, n).count \in Nat
      BY <3>3 DEF CopyDone, Copy
    <3>. QED
      BY <3>1, <3>4 DEF Addr
  <2>2. CASE ~Was("strncpy")
    BY <1>1, <2>2 DEF Write, Was, Made
  <2>. QED
    BY <2>1, <2>2
<1>2. CASE CopyString
  <2>1. PICK d, s \in Addr : ret' = strcpy(mem, d, s).ret
    BY <1>2 DEF CopyString, Returns
  <2>2. strcpy(mem, d, s).ret \in {d, Fault}
    BY DEF strcpy
  <2>. QED
    BY <2>1, <2>2 DEF Addr, Fault
<1>3. CASE Read
  <2>1. ASSUME NEW p \in Addr, NEW q \in Addr, NEW n \in 0 .. Size,
               Fits(p, n), Fits(q, n), Result(strncmp(mem, p, q, n))
        PROVE  ret' \in Int
    <3>1. n \in Nat /\ p + n - 1 <= Size /\ q + n - 1 <= Size /\ mem \in [Addr -> Char]
      BY <2>1, StdLibAssumption DEF Fits, MemoryTyped
    <3>2. Compared(strncmp(mem, p, q, n), mem, p, q, 0, n)
      BY <3>1, StrncmpCompares
    <3>3. ASSUME NEW j \in Nat, StopsFirst(mem, p, q, 0, n, j)
          PROVE  mem[p + j] - mem[q + j] \in Int
      <4>1. p + j \in Addr /\ q + j \in Addr
        BY <3>1, <3>3, StdLibAssumption DEF StopsFirst, Addr
      <4>2. mem[p + j] \in Int /\ mem[q + j] \in Int
        BY <3>1, <4>1, StdLibAssumption
      <4>. QED
        BY <4>2
    <3>. QED
      BY <2>1, <3>2, <3>3 DEF Compared, Result
  <2>2. ASSUME NEW p \in Addr, Result(strlen(mem, p)) PROVE ret' \in Int
    BY <2>2, ScanTyped DEF Result, strlen, Fault, Addr
  <2>3. ASSUME NEW p \in Addr, NEW c \in Char, Result(strchr(mem, p, c)) PROVE ret' \in Int
    BY <2>3, ScanTyped DEF Result, strchr, Fault, NULL
  <2>. QED
    BY <1>3, <2>1, <2>2, <2>3 DEF Read
<1>4. CASE Compute
  <2>1. \A y \in Word : y < WordBits => y \in 0 .. WordBits - 1
    BY PowerFacts DEF Word
  <2>2. Word \subseteq Int
    BY WordFacts
  <2>3. PICK x, y \in Word :
          \/ Result(min(x, y)) \/ Result(max(x, y))
          \/ y < WordBits /\ (Result(aroundLb(x, y)) \/ Result(aroundUpLb(x, y)))
          \/ Result(msBit(x)) \/ Result(lsBit(x)) \/ Result(numBits(x))
    BY <1>4 DEF Compute
  <2>4. min(x, y) \in Int /\ max(x, y) \in Int
    BY MinMaxAre
  <2>5. msBit(x) \in Int /\ lsBit(x) \in Int /\ numBits(x) \in Int
    BY MsBitEncloses, LsBitEncloses, NumBitsCounts
  <2>6. y < WordBits => aroundLb(x, y) \in Int /\ aroundUpLb(x, y) \in Int
    BY <2>1, <2>2, RoundsDown, RoundsUp
  <2>. QED
    BY <2>3, <2>4, <2>5, <2>6 DEF Result
<1>. QED
  BY <1>1, <1>2, <1>3, <1>4 DEF Next

(* and every call is one of a helper with integers. *)
LEMMA CallTyped ==
  ASSUME Next
  PROVE  call'.op \in Op /\ call'.args \in Seq(Int)
<1>0. Addr \subseteq Int /\ Char \subseteq Int /\ 0 .. Size \subseteq Int /\ Word \subseteq Int
  BY StdLibAssumption, WordFacts DEF Addr
<1>1. /\ \A a \in Int : <<a>> \in Seq(Int)
      /\ \A a, b \in Int : <<a, b>> \in Seq(Int)
      /\ \A a, b, c \in Int : <<a, b, c>> \in Seq(Int)
  OBVIOUS
<1>2. CASE Write
  <2>1. PICK d \in Addr, n \in 0 .. Size :
          \/ \E c \in Char : Made("memset", <<d, c, n>>)
          \/ \E s \in Addr : Made("memcpy", <<d, s, n>>) \/ Made("strncpy", <<d, s, n>>)
    BY <1>2 DEF Write
  <2>2. d \in Int /\ n \in Int
    BY <1>0
  <2>3. ASSUME NEW c \in Char, Made("memset", <<d, c, n>>)
        PROVE  call'.op \in Op /\ call'.args \in Seq(Int)
    <3>1. <<d, c, n>> \in Seq(Int)
      BY <1>0, <1>1, <2>2
    <3>. QED
      BY <2>3, <3>1 DEF Made, Op
  <2>4. ASSUME NEW s \in Addr, Made("memcpy", <<d, s, n>>) \/ Made("strncpy", <<d, s, n>>)
        PROVE  call'.op \in Op /\ call'.args \in Seq(Int)
    <3>1. <<d, s, n>> \in Seq(Int)
      BY <1>0, <1>1, <2>2
    <3>2. CASE Made("memcpy", <<d, s, n>>)
      BY <3>1, <3>2 DEF Made, Op
    <3>3. CASE Made("strncpy", <<d, s, n>>)
      BY <3>1, <3>3 DEF Made, Op
    <3>. QED
      BY <2>4, <3>2, <3>3
  <2>. QED
    BY <2>1, <2>3, <2>4
<1>3. CASE CopyString
  <2>1. PICK d, s \in Addr : Made("strcpy", <<d, s>>)
    BY <1>3 DEF CopyString
  <2>2. <<d, s>> \in Seq(Int)
    BY <1>0, <1>1
  <2>. QED
    BY <2>1, <2>2 DEF Made, Op
<1>4. CASE Read
  <2>1. ASSUME NEW p \in Addr, NEW q \in Addr, NEW n \in 0 .. Size, Made("strncmp", <<p, q, n>>)
        PROVE  call'.op \in Op /\ call'.args \in Seq(Int)
    <3>1. <<p, q, n>> \in Seq(Int)
      BY <1>0, <1>1
    <3>. QED
      BY <2>1, <3>1 DEF Made, Op
  <2>2. ASSUME NEW p \in Addr, Made("strlen", <<p>>)
        PROVE  call'.op \in Op /\ call'.args \in Seq(Int)
    <3>1. <<p>> \in Seq(Int)
      BY <1>0, <1>1
    <3>. QED
      BY <2>2, <3>1 DEF Made, Op
  <2>3. ASSUME NEW p \in Addr, NEW c \in Char, Made("strchr", <<p, c>>)
        PROVE  call'.op \in Op /\ call'.args \in Seq(Int)
    <3>1. <<p, c>> \in Seq(Int)
      BY <1>0, <1>1
    <3>. QED
      BY <2>3, <3>1 DEF Made, Op
  <2>. QED
    BY <1>4, <2>1, <2>2, <2>3 DEF Read
<1>5. CASE Compute
  <2>1. PICK x, y \in Word : \E op \in Op : Made(op, <<x, y>>) \/ Made(op, <<x>>)
    <3>1. {"min", "max", "aroundLb", "aroundUpLb", "msBit", "lsBit", "numBits"} \subseteq Op
      BY DEF Op
    <3>. QED
      BY <1>5, <3>1 DEF Compute
  <2>2. <<x, y>> \in Seq(Int) /\ <<x>> \in Seq(Int)
    BY <1>0, <1>1
  <2>3. PICK op \in Op : Made(op, <<x, y>>) \/ Made(op, <<x>>)
    BY <2>1
  <2>4. CASE Made(op, <<x, y>>)
    BY <2>2, <2>4 DEF Made
  <2>5. CASE Made(op, <<x>>)
    BY <2>2, <2>5 DEF Made
  <2>. QED
    BY <2>3, <2>4, <2>5
<1>. QED
  BY <1>2, <1>3, <1>4, <1>5 DEF Next

(* Every variable keeps its type: no call of a helper (include/stdlib.h)   *)
(* puts anything into the memory that is not a character.                  *)
THEOREM TypeCorrect == Spec => []TypeOK
<1>1. Init => TypeOK
  <2>1. <<>> \in Seq(Int)
    OBVIOUS
  <2>. QED
    BY <2>1 DEF Init, TypeOK, Op
<1>2. TypeOK /\ [Next]_vars => TypeOK'
  <2>. SUFFICES ASSUME TypeOK, [Next]_vars PROVE TypeOK'
    OBVIOUS
  <2>1. MemoryTyped /\ MemoryTyped'
    BY MemoryStaysTyped DEF TypeOK, MemoryTyped
  <2>2. CASE UNCHANGED vars
    BY <2>2 DEF vars, TypeOK
  <2>3. CASE Next
    BY <2>1, <2>3, ReturnTyped, CallTyped DEF TypeOK, MemoryTyped
  <2>. QED
    BY <2>2, <2>3
<1>. QED
  BY <1>1, <1>2, PTL DEF Spec
=============================================================================
