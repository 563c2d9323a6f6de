------------------------------- MODULE StdLib -------------------------------
(***************************************************************************)
(* The C helpers every program uses (include/stdlib.h).  Memory is a       *)
(* function m from addresses to characters, pointers are addresses, and    *)
(* each loop is a function of the number of turns it has made.  A loop     *)
(* that runs off the memory ends in Fault.                                 *)
(***************************************************************************)
EXTENDS Integers, FiniteSets, FiniteSetsExt

CONSTANTS
  Size,       \* Cells of the memory, and so the addresses 1 .. Size.
  Char,       \* What a cell holds, as the int a signed char becomes.
  WordBits    \* Bits of word_t.

ASSUME StdLibAssumption ==
  /\ Size \in Nat /\ WordBits \in Nat \ {0}
  /\ Char \subseteq Int /\ 0 \in Char

Addr == 1 .. Size
NUL == 0
NULL == 0
Fault == -1

(* 1UL << n, which is n doublings of 1. *)
Power[n \in 0 .. WordBits] == IF n = 0 THEN 1 ELSE 2 * Power[n - 1]

AllOnes == Power[WordBits] - 1
Word == 0 .. AllOnes

-----------------------------------------------------------------------------
(* The loop writes cell after cell; it has no other effect.                *)
memset(m, d, c, n) ==
  LET after[k \in 0 .. n] == IF k = 0 THEN m ELSE [after[k - 1] EXCEPT ![d + k - 1] = c]
  IN after[n]

(* Faulty variant: the last cell first. *)
memcpyBackward(m, d, s, n) ==
  LET after[k \in 0 .. n] ==
        IF k = 0 THEN m ELSE [after[k - 1] EXCEPT ![d + n - k] = after[k - 1][s + n - k]]
  IN after[n]

(* Each turn reads what the turns before may have written.                 *)
memcpy(m, d, s, n) ==
  LET after[k \in 0 .. n] ==
        IF k = 0 THEN m ELSE [after[k - 1] EXCEPT ![d + k - 1] = after[k - 1][s + k - 1]]
  IN after[n]

(* A copy of characters that stops behind a NUL: the memory and the number *)
(* of cells written after k turns.                                         *)
Copied(m, d, s, n) ==
  LET after[k \in 0 .. n] ==
        IF k = 0 THEN [mem |-> m, count |-> 0, stop |-> FALSE]
        ELSE IF after[k - 1].stop THEN after[k - 1]
        ELSE LET c == after[k - 1].mem[s + k - 1] IN
             [mem |-> [after[k - 1].mem EXCEPT ![d + k - 1] = c],
              count |-> k, stop |-> c = NUL]
  IN after[n]

(* Faulty variant: the copy stops in front of the NUL. *)
strncpyWithoutNul(m, d, s, n) ==
  LET w == Copied(m, d, s, n) IN
  [mem |-> IF w.stop THEN [w.mem EXCEPT ![d + w.count - 1] = m[d + w.count - 1]] ELSE w.mem,
   ret |-> d + w.count]

(* Nothing is padded: the second loop asks an unsigned max to be negative. *)
(* What is returned is the cell behind the last one written.               *)
strncpy(m, d, s, n) ==
  LET w == Copied(m, d, s, n) IN [mem |-> w.mem, ret |-> d + w.count]

(* Faulty variant: what is returned has been advanced. *)
strcpyEnd(m, d, s) ==
  LET w == Copied(m, d, s, Size + 1 - Max({d, s})) IN
  [mem |-> w.mem, ret |-> IF w.stop THEN d + w.count ELSE Fault]

(* The copy has no bound of its own but the end of the memory.             *)
strcpy(m, d, s) ==
  LET w == Copied(m, d, s, Size + 1 - Max({d, s})) IN
  [mem |-> w.mem, ret |-> IF w.stop THEN d ELSE Fault]

(* Faulty variant: one character too many decides. *)
strncmpBeyond(m, p, q, n) ==
  LET last == Min({n + 1, Size + 1 - p, Size + 1 - q})
      from[k \in 0 .. last] ==
        IF k = last THEN 0
        ELSE IF m[p + k] = NUL \/ m[p + k] # m[q + k] THEN m[p + k] - m[q + k]
        ELSE from[k + 1]
  IN from[0]

(* The difference of the first characters that differ, up to the end of    *)
(* the first string; 0 when max characters have been seen.                 *)
strncmp(m, p, q, n) ==
  LET from[k \in 0 .. n] ==
        IF k = n THEN 0
        ELSE IF m[p + k] = NUL \/ m[p + k] # m[q + k] THEN m[p + k] - m[q + k]
        ELSE from[k + 1]
  IN from[0]

(* The first cell from p on that holds one of cs.                          *)
Scan(m, p, cs) ==
  LET found == {x \in p .. Size : m[x] \in cs} IN
  IF found = {} THEN Fault ELSE Min(found)

strlen(m, p) ==
  LET end == Scan(m, p, {NUL}) IN IF end = Fault THEN Fault ELSE end - p

(* Faulty variant: the character is looked for behind the NUL, too. *)
strchrBeyond(m, p, c) == Scan(m, p, {c})

strchr(m, p, c) ==
  LET end == Scan(m, p, {NUL, c}) IN
  IF end = Fault THEN Fault ELSE IF m[end] = c THEN end ELSE NULL

-----------------------------------------------------------------------------
Bits(x) == {i \in 0 .. WordBits - 1 : (x \div Power[i]) % 2 = 1}

(* The word with the bits B.                                               *)
WordOf(B) ==
  LET sum[n \in 0 .. WordBits] ==
        IF n = 0 THEN 0 ELSE sum[n - 1] + (IF n - 1 \in B THEN Power[n - 1] ELSE 0)
  IN sum[WordBits]

And(x, y) == WordOf(Bits(x) \cap Bits(y))
Not(x) == AllOnes - x

min(x, y) == IF x < y THEN x ELSE y
max(x, y) == IF x > y THEN x ELSE y

around(x, r) == And(x, Not(r - 1))
aroundLb(x, n) == around(x, Power[n])

(* Faulty variant: the rounder itself is added. *)
aroundUpWhole(x, r) == around((x + r) % Power[WordBits], r)

(* The sum wraps at the end of the word.                                   *)
aroundUp(x, r) == around((x + (r - 1)) % Power[WordBits], r)
aroundUpLb(x, n) == aroundUp(x, Power[n])

(* bsr and bsf, and all ones for no bit.                                   *)
msBit(x) == IF Bits(x) = {} THEN AllOnes ELSE Max(Bits(x))
lsBit(x) == IF Bits(x) = {} THEN AllOnes ELSE Min(Bits(x))

(* The loop ends in front of the highest bit.                              *)
numBits(x) ==
  LET count[n \in 0 .. WordBits - 1] ==
        IF n = 0 THEN 0 ELSE count[n - 1] + (IF n - 1 \in Bits(x) THEN 1 ELSE 0)
  IN count[WordBits - 1]
=============================================================================
