----------------------------- MODULE HeapProofs -----------------------------
(***************************************************************************)
(* Proofs about the heap, for every area, page size, number of lists and   *)
(* every sequence of calls: its types, that what is handed out lies in it, *)
(* and that it implements Allocator.  The proof says where every block is. *)
(***************************************************************************)
EXTENDS Heap, LoopProofs, FiniteSetTheorems

(* No sum do_mmap forms wraps: __heap_ptr stays below the end of the area, *)
(* and the largest request is not larger than the memory behind it.        *)
Asked == Request \cup {n \in Address : \E r \in CallocRequest : n = r[2] * r[1]}
SumsFit ==
  /\ HeapEnd + BlockSize < WordSize
  /\ \A n \in Asked : HeapEnd + PAGE_ALIGN((n + HeaderSize) % WordSize) < WordSize

-----------------------------------------------------------------------------
(* Where every block is.  F gives each free block its list and R its place *)
(* on it; top is where do_mmap has cut to.                                 *)

Starts(F, lv, fr) == DOMAIN F \cup {b \in Address : BLOCK_RET(b) \in DOMAIN lv \cup fr}
Length(F, m, b) == IF b \in DOMAIN F THEN ClassSize(F[b]) ELSE m[size(b)]

Typed(F, R, top, sm, m, lv, fr) ==
  /\ F \in [DOMAIN F -> Index] /\ R \in [DOMAIN F -> Nat] /\ DOMAIN F \subseteq Address
  /\ top \in HeapStart .. HeapEnd
  /\ sm \in [Index -> Address] /\ m \in [Address -> Address]
  /\ lv \in [DOMAIN lv -> Nat]
  /\ DOMAIN lv \cup fr \subseteq HeaderSize .. WordSize - 1 /\ fr \cap DOMAIN lv = {}

(* Blocks lie apart and side by side from the start of the area to top. *)
Placed(F, top, m, lv, fr) ==
  /\ \A b \in Starts(F, lv, fr) : HeapStart <= b /\ b + Length(F, m, b) <= top
  /\ \A b, c \in Starts(F, lv, fr) : b < c => b + Length(F, m, b) <= c
  /\ \A a \in HeapStart .. top - 1 :
       \E b \in Starts(F, lv, fr) : b <= a /\ a < b + Length(F, m, b)

(* A list's head is at place 0, a link leads to the next place, and every  *)
(* place but the first is linked to.                                       *)
Linked(F, R, sm, m) ==
  /\ \A i \in Index : \/ sm[i] = 0 /\ \A b \in DOMAIN F : F[b] # i
                      \/ sm[i] \in DOMAIN F /\ F[sm[i]] = i /\ R[sm[i]] = 0
  /\ \A b \in DOMAIN F : \/ m[b] = 0
                         \/ m[b] \in DOMAIN F /\ F[m[b]] = F[b] /\ R[m[b]] = R[b] + 1
  /\ \A b, c \in DOMAIN F : F[b] = F[c] /\ R[b] = R[c] => b = c
  /\ \A b \in DOMAIN F : \/ R[b] = 0
                         \/ \E c \in DOMAIN F : F[c] = F[b] /\ R[c] + 1 = R[b] /\ m[c] = b

(* A free block is zero but for its link, and so is what is not cut yet. *)
Zeroed(F, top, m) ==
  /\ \A b \in DOMAIN F : \A a \in b + 1 .. b + ClassSize(F[b]) - 1 : m[a] = 0
  /\ \A a \in top .. HeapEnd - 1 : m[a] = 0

(* A held block is on no list, has a size malloc gives and room for what   *)
(* was asked; one freed before is on a list or large.                      *)
Owned(F, m, lv, fr) ==
  /\ \A p \in DOMAIN lv :
       /\ BLOCK_START(p) \notin DOMAIN F
       /\ m[size(BLOCK_START(p))] > MaxSmall \/ \E i \in Index : m[size(BLOCK_START(p))] = ClassSize(i)
       /\ lv[p] + HeaderSize <= m[size(BLOCK_START(p))]
  /\ \A p \in fr : BLOCK_START(p) \in DOMAIN F \/ m[size(BLOCK_START(p))] > MaxSmall

Layout(F, R, top, sm, m, lv, fr) ==
  /\ Typed(F, R, top, sm, m, lv, fr)
  /\ Placed(F, top, m, lv, fr)
  /\ Linked(F, R, sm, m)
  /\ Zeroed(F, top, m)
  /\ Owned(F, m, lv, fr)

HeapInv ==
  /\ heap_ptr \in Address /\ halted \in BOOLEAN
  /\ \E F, R, top : /\ Layout(F, R, top, small_mem, mem, live, freed)
                    /\ ~halted => heap_ptr = top

-----------------------------------------------------------------------------
(* Division and remainder by a positive number. *)
LEMMA Division ==
  ASSUME NEW a \in Nat, NEW d \in Nat \ {0}
  PROVE  /\ a \div d \in Nat /\ d * (a \div d) \in Nat /\ a % d \in 0 .. d - 1
         /\ a = d * (a \div d) + (a % d)
<1>1. a \div d \in Int /\ a % d \in 0 .. d - 1 /\ a = d * (a \div d) + (a % d)
  OBVIOUS
<1>2. a \div d >= 0
  BY <1>1
<1>. QED
  BY <1>1, <1>2

(* The quotient is the only number whose multiple is the last below a. *)
LEMMA Quotient ==
  ASSUME NEW a \in Nat, NEW d \in Nat \ {0}, NEW q \in Nat, d * q <= a, a < d * q + d
  PROVE  a \div d = q
<1>. DEFINE r == a \div d
<1>1. r \in Nat /\ d * r \in Nat /\ d * r <= a /\ a < d * r + d /\ d * q \in Nat
  <2>1. a % d \in 0 .. d - 1 /\ a = d * r + (a % d) /\ r \in Nat /\ d * r \in Nat
    BY Division
  <2>. HIDE DEF r
  <2>2. a % d \in Int /\ 0 <= a % d /\ a % d < d
    BY <2>1
  <2>. QED
    BY <2>1, <2>2
<1>. HIDE DEF r
<1>2. ASSUME NEW x \in Nat, NEW y \in Nat, x < y PROVE d * x + d <= d * y
  <2>1. PICK k \in Nat : y = x + 1 + k
    <3>1. y - x - 1 \in Nat /\ y = x + 1 + (y - x - 1)
      BY <1>2
    <3>. QED
      BY <3>1
  <2>2. d * y = d * x + d + d * k /\ d * k \in Nat
    BY <2>1
  <2>3. d * x \in Nat
    OBVIOUS
  <2>. QED
    BY <2>2, <2>3
<1>3. ~(q < r)
  BY <1>1, <1>2
<1>4. ~(r < q)
  BY <1>1, <1>2
<1>5. r = q
  BY <1>1, <1>3, <1>4
<1>. QED
  BY <1>5 DEF r

-----------------------------------------------------------------------------
(* The recursion of power, *)
LEMMA PowerIs ==
  /\ power[0] = 1 /\ \A i \in 1 .. LastIndex + 1 : power[i] = 2 * power[i - 1]
  /\ power \in [0 .. LastIndex + 1 -> Nat]
<1>. DEFINE n == LastIndex + 1
            twice == [i \in 1 .. n |-> [x \in Nat |-> 2 * x]]
            IsPower(f) == f = [i \in 0 .. n |-> IF i = 0 THEN 1 ELSE 2 * f[i - 1]]
<1>1. n \in Nat
  BY AreaAssumption
<1>2. twice \in [1 .. n -> [Nat -> Nat]]
  OBVIOUS
<1>3. PICK f : IsRun(f, n, Nat, 1, twice)
  <2>. HIDE DEF n, twice
  <2>. QED
    BY <1>1, <1>2, LoopRuns
<1>4. \A i \in 1 .. n : f[i] = 2 * f[i - 1]
  <2>. SUFFICES ASSUME NEW i \in 1 .. n PROVE f[i] = 2 * f[i - 1]
    OBVIOUS
  <2>1. f[i - 1] \in Nat
    BY <1>1, <1>3 DEF IsRun
  <2>. QED
    BY <1>3, <2>1 DEF IsRun
<1>5. IsPower(f)
  <2>1. f = [i \in 0 .. n |-> f[i]]
    BY <1>3 DEF IsRun
  <2>2. \A i \in 0 .. n : f[i] = IF i = 0 THEN 1 ELSE 2 * f[i - 1]
    <3>1. \A i \in 0 .. n : i # 0 => i \in 1 .. n
      OBVIOUS
    <3>. QED
      BY <1>3, <1>4, <3>1 DEF IsRun
  <2>. QED
    BY <2>1, <2>2
<1>6. power = CHOOSE g : IsPower(g)
  BY DEF power
<1>. HIDE DEF IsPower
<1>7. IsPower(power)
  BY <1>5, <1>6
<1>8. \A i \in 0 .. n : power[i] = IF i = 0 THEN 1 ELSE 2 * power[i - 1]
  BY <1>7 DEF IsPower
<1>9. power = [i \in 0 .. n |-> power[i]]
  BY <1>7 DEF IsPower
<1>10. \A i \in 0 .. n : power[i] \in Nat
  <2>. DEFINE P == {i \in 0 .. n : power[i] \in Nat}
  <2>1. 0 \in P
    BY <1>1, <1>8
  <2>2. \A i \in 1 .. n : i - 1 \in P => i \in P
    BY <1>1, <1>8
  <2>. HIDE DEF P
  <2>3. 0 .. n \subseteq P
    BY <1>1, <2>1, <2>2, TurnInduction
  <2>. QED
    BY <2>3 DEF P
<1>11. power[0] = 1 /\ \A i \in 1 .. n : power[i] = 2 * power[i - 1]
  <2>1. 0 \in 0 .. n /\ \A i \in 1 .. n : i \in 0 .. n /\ i # 0
    BY <1>1
  <2>. HIDE DEF n
  <2>. QED
    BY <1>8, <2>1
<1>12. power \in [0 .. n -> Nat]
  BY <1>9, <1>10
<1>. QED
  BY <1>11, <1>12

(* doubles, *)
LEMMA PowerGrows ==
  ASSUME NEW j \in 0 .. LastIndex + 1, NEW i \in 0 .. LastIndex + 1, i < j
  PROVE  power[i] >= 1 /\ power[j] >= 2 * power[i]
<1>. DEFINE P == {k \in 0 .. LastIndex + 1 :
                    power[k] >= 1 /\ \A x \in 0 .. k : x # k => power[k] >= 2 * power[x]}
<1>1. LastIndex + 1 \in Nat
  BY AreaAssumption
<1>2. 0 \in P
  BY <1>1, PowerIs
<1>3. ASSUME NEW k \in 1 .. LastIndex + 1, k - 1 \in P PROVE k \in P
  <2>1. power[k] = 2 * power[k - 1] /\ power[k - 1] \in Nat /\ power[k - 1] >= 1
    BY <1>1, <1>3, PowerIs
  <2>2. ASSUME NEW x \in 0 .. k, x # k PROVE power[k] >= 2 * power[x]
    <3>1. CASE x = k - 1
      BY <2>1, <3>1
    <3>2. CASE x # k - 1
      <4>1. x \in 0 .. k - 1 /\ power[x] \in Nat
        <5>1. x \in 0 .. k - 1 /\ x \in 0 .. LastIndex + 1
          BY <1>1, <2>2
        <5>. QED
          BY <5>1, PowerIs
      <4>2. power[k - 1] >= 2 * power[x]
        BY <1>3, <3>2, <4>1
      <4>. QED
        BY <2>1, <4>1, <4>2
    <3>. QED
      BY <3>1, <3>2
  <2>. QED
    BY <2>1, <2>2
<1>. HIDE DEF P
<1>4. 0 .. LastIndex + 1 \subseteq P
  BY <1>1, <1>2, <1>3, TurnInduction
<1>5. i \in P /\ j \in P /\ i \in 0 .. j
  BY <1>1, <1>4
<1>. QED
  BY <1>5 DEF P

(* and with it the sizes of the lists, up to the largest small one. *)
LEMMA Classes ==
  ASSUME NEW i \in Index
  PROVE  /\ power[i] \in Nat /\ power[i] >= 1
         /\ ClassSize(i) \in Nat /\ ClassSize(i) >= MinSmall
         /\ ClassSize(i) <= MaxSmall /\ HeaderSize < ClassSize(i)
<1>1. /\ LastIndex \in Nat /\ MinSmall \in Nat /\ MaxSmall = MinSmall * power[LastIndex]
      /\ HeaderSize < MinSmall
  BY AreaAssumption
<1>2. i \in 0 .. LastIndex + 1 /\ LastIndex \in 0 .. LastIndex + 1 /\ i <= LastIndex
      /\ LastIndex + 1 \in 0 .. LastIndex + 1 /\ i < LastIndex + 1
  BY <1>1 DEF Index
<1>3. power[i] \in Nat /\ power[LastIndex] \in Nat
  BY <1>2, PowerIs
<1>4. power[i] >= 1
  BY <1>2, PowerGrows
<1>5. power[i] <= power[LastIndex]
  <2>1. CASE i = LastIndex
    BY <1>3, <2>1
  <2>2. CASE i # LastIndex
    <3>1. i < LastIndex
      BY <1>2, <2>2
    <3>. QED
      BY <1>2, <1>3, <3>1, PowerGrows
  <2>. QED
    BY <2>1, <2>2
<1>6. \A x, y \in Nat : x <= y => MinSmall * x \in Nat /\ MinSmall * x <= MinSmall * y
  <2>. SUFFICES ASSUME NEW x \in Nat, NEW y \in Nat, x <= y
                PROVE  MinSmall * x \in Nat /\ MinSmall * x <= MinSmall * y
    OBVIOUS
  <2>1. PICK k \in Nat : y = x + k
    <3>1. y - x \in Nat /\ y = x + (y - x)
      OBVIOUS
    <3>. QED
      BY <3>1
  <2>2. MinSmall * y = MinSmall * x + MinSmall * k /\ MinSmall * k \in Nat /\ MinSmall * x \in Nat
    BY <1>1, <2>1
  <2>. QED
    BY <2>2
<1>7. MinSmall * power[i] \in Nat /\ MinSmall * power[i] <= MinSmall * power[LastIndex]
  BY <1>3, <1>5, <1>6
<1>8. MinSmall * 1 <= MinSmall * power[i] /\ MinSmall * 1 = MinSmall
  BY <1>1, <1>3, <1>4, <1>6
<1>. QED
  BY <1>1, <1>3, <1>4, <1>7, <1>8 DEF ClassSize, HeaderSize

(* A page is a whole number of blocks of each size, at least two. *)
LEMMA PageDivides ==
  ASSUME NEW i \in Index
  PROVE  \E q \in Nat : q >= 2 /\ BlockSize = ClassSize(i) * q
<1>. DEFINE P == {k \in 0 .. LastIndex :
                    \E q \in Nat : q >= 2 /\ BlockSize = ClassSize(LastIndex - k) * q}
<1>1. LastIndex \in Nat /\ MinSmall \in Nat /\ BlockSize = 2 * (MinSmall * power[LastIndex])
  BY AreaAssumption
<1>2. 0 \in P
  <2>1. power[LastIndex] \in Nat /\ MinSmall * power[LastIndex] \in Nat
    BY <1>1, PowerIs
  <2>2. BlockSize = ClassSize(LastIndex) * 2
    BY <1>1, <2>1 DEF ClassSize
  <2>3. LastIndex - 0 = LastIndex /\ 0 \in 0 .. LastIndex
    BY <1>1
  <2>. QED
    BY <2>2, <2>3
<1>3. ASSUME NEW k \in 1 .. LastIndex, k - 1 \in P PROVE k \in P
  <2>1. PICK q \in Nat : q >= 2 /\ BlockSize = ClassSize(LastIndex - (k - 1)) * q
    BY <1>3
  <2>. DEFINE j == LastIndex - k
  <2>2. j \in Index /\ j + 1 \in 1 .. LastIndex + 1 /\ LastIndex - (k - 1) = j + 1
        /\ j \in Nat
    BY <1>1 DEF Index
  <2>. HIDE DEF j
  <2>3. power[j + 1] = 2 * power[j] /\ power[j] \in Nat
    <3>1. PICK l \in 1 .. LastIndex + 1 : l = j + 1 /\ l - 1 = j
      BY <2>2
    <3>2. power[l] = 2 * power[l - 1]
      BY PowerIs
    <3>3. power[j] \in Nat
      BY <2>2, Classes
    <3>. QED
      BY <3>1, <3>2, <3>3
  <2>4. ClassSize(j + 1) = ClassSize(j) * 2 /\ ClassSize(j) \in Nat
    BY <1>1, <2>3 DEF ClassSize
  <2>5. ClassSize(j + 1) * q = ClassSize(j) * (2 * q)
    BY <2>4
  <2>6. 2 * q \in Nat /\ 2 * q >= 2 /\ BlockSize = ClassSize(j) * (2 * q)
    BY <2>1, <2>2, <2>5
  <2>. QED
    BY <2>6 DEF j
<1>. HIDE DEF P
<1>4. 0 .. LastIndex \subseteq P
  BY <1>1, <1>2, <1>3, TurnInduction
<1>5. LastIndex - i \in P /\ LastIndex - (LastIndex - i) = i
  BY <1>1, <1>4 DEF Index
<1>. QED
  BY <1>5 DEF P

(* The index is the number of the smallest size that is large enough, *)
LEMMA IndexRight ==
  ASSUME NEW s \in Nat, 1 <= s, s <= MaxSmall
  PROVE  get_index(s) \in Index /\ s <= ClassSize(get_index(s))
<1>. DEFINE t == ((s - 1) % BlockSize) \div MinSmall
            Right(i) == t < power[i] /\ (i = 0 \/ power[i - 1] <= t)
            N == LastIndex + 1
<1>1. /\ LastIndex \in Nat /\ MinSmall \in Nat \ {0} /\ MaxSmall = MinSmall * power[LastIndex]
      /\ BlockSize = 2 * MaxSmall /\ BlockSize \in Nat
  BY AreaAssumption DEF HeaderSize
<1>2. power[LastIndex] \in Nat /\ power[LastIndex] >= 1
  BY <1>1, Classes DEF Index
<1>3. (s - 1) % BlockSize = s - 1
  <2>1. MaxSmall \in Nat
    BY <1>1, <1>2
  <2>2. s - 1 \in Nat /\ s - 1 < BlockSize /\ BlockSize \in Nat \ {0}
    BY <1>1, <2>1
  <2>. QED
    BY <2>2
<1>4. t \in Nat /\ MinSmall * t <= s - 1 /\ s - 1 < MinSmall * t + MinSmall /\ MinSmall * t \in Nat
  <2>1. s - 1 \in Nat
    OBVIOUS
  <2>2. /\ (s - 1) \div MinSmall \in Nat /\ MinSmall * ((s - 1) \div MinSmall) \in Nat
        /\ (s - 1) % MinSmall \in 0 .. MinSmall - 1
        /\ s - 1 = MinSmall * ((s - 1) \div MinSmall) + ((s - 1) % MinSmall)
    BY <1>1, <2>1, Division
  <2>3. t = (s - 1) \div MinSmall
    BY <1>3
  <2>. HIDE DEF t
  <2>. QED
    BY <1>1, <2>2, <2>3
<1>5. get_index(s) = CHOOSE i \in 0 .. N : Right(i)
  BY DEF get_index
<1>. HIDE DEF t
<1>6. \A x \in Nat : t < x => MinSmall * t + MinSmall <= MinSmall * x
  <2>. SUFFICES ASSUME NEW x \in Nat, t < x PROVE MinSmall * t + MinSmall <= MinSmall * x
    OBVIOUS
  <2>1. PICK k \in Nat : x = t + 1 + k
    <3>1. x - t - 1 \in Nat /\ x = t + 1 + (x - t - 1)
      BY <1>4
    <3>. QED
      BY <3>1
  <2>2. MinSmall * x = MinSmall * t + MinSmall + MinSmall * k /\ MinSmall * k \in Nat
    BY <1>1, <1>4, <2>1
  <2>. QED
    BY <1>1, <1>4, <2>2
<1>7. t < power[LastIndex]
  <2>1. ASSUME power[LastIndex] <= t PROVE FALSE
    <3>1. PICK k \in Nat : t = power[LastIndex] + k
      <4>1. t - power[LastIndex] \in Nat /\ t = power[LastIndex] + (t - power[LastIndex])
        BY <1>2, <1>4, <2>1
      <4>. QED
        BY <4>1
    <3>2. MinSmall * t = MinSmall * power[LastIndex] + MinSmall * k
          /\ MinSmall * k \in Nat /\ MinSmall * power[LastIndex] \in Nat
      BY <1>1, <1>2, <3>1
    <3>. QED
      BY <1>1, <1>4, <3>2
  <2>. QED
    BY <1>2, <1>4, <2>1
<1>8. \E i \in 0 .. N : Right(i)
  <2>. DEFINE T == {i \in 0 .. N : t < power[i]}
  <2>1. LastIndex \in T /\ T \subseteq Nat
    BY <1>1, <1>7
  <2>2. PICK i \in T : \A y \in T : ~(y < i)
    BY <2>1, LeastElement
  <2>3. i = 0 \/ power[i - 1] <= t
    <3>. SUFFICES ASSUME i # 0 PROVE power[i - 1] <= t
      OBVIOUS
    <3>1. i - 1 \in 0 .. N /\ i - 1 < i
      BY <1>1, <2>2
    <3>2. ~(t < power[i - 1])
      BY <2>2, <3>1
    <3>3. power[i - 1] \in Nat
      BY <3>1, PowerIs
    <3>. QED
      BY <1>4, <3>2, <3>3
  <2>. QED
    BY <2>2, <2>3
<1>. HIDE DEF Right
<1>9. get_index(s) \in 0 .. N /\ Right(get_index(s))
  BY <1>5, <1>8
<1>. DEFINE j == get_index(s)
<1>10. t < power[j] /\ (j = 0 \/ power[j - 1] <= t) /\ j \in 0 .. N
  BY <1>9 DEF Right
<1>. HIDE DEF j
<1>11. j # N
  <2>1. N - 1 = LastIndex /\ N # 0
    BY <1>1
  <2>. QED
    BY <1>2, <1>4, <1>7, <1>10, <2>1
<1>12. j \in Index
  BY <1>1, <1>10, <1>11 DEF Index
<1>13. MinSmall * t + MinSmall <= MinSmall * power[j]
  BY <1>6, <1>10, <1>12, Classes
<1>14. s <= ClassSize(j)
  <2>1. ClassSize(j) = MinSmall * power[j] /\ ClassSize(j) \in Nat
    BY <1>12, Classes DEF ClassSize
  <2>. QED
    BY <1>1, <1>4, <1>13, <2>1
<1>. QED
  BY <1>12, <1>14 DEF j

(* and a block's own size has the index of its list. *)
LEMMA IndexOfClass ==
  ASSUME NEW i \in Index
  PROVE  get_index(ClassSize(i)) = i
<1>. DEFINE s == ClassSize(i)
            t == ((s - 1) % BlockSize) \div MinSmall
            Right(k) == t < power[k] /\ (k = 0 \/ power[k - 1] <= t)
            N == LastIndex + 1
<1>1. /\ LastIndex \in Nat /\ MinSmall \in Nat \ {0} /\ BlockSize = 2 * MaxSmall
      /\ s \in Nat /\ s >= 1 /\ s <= MaxSmall /\ power[i] \in Nat /\ power[i] >= 1
      /\ s = MinSmall * power[i] /\ MaxSmall \in Nat
  <2>1. MaxSmall = MinSmall * power[LastIndex] /\ power[LastIndex] \in Nat
    BY AreaAssumption, Classes DEF Index
  <2>2. MinSmall \in Nat
    BY AreaAssumption
  <2>3. MaxSmall \in Nat
    BY <2>1, <2>2
  <2>. QED
    BY <2>2, <2>3, Classes, AreaAssumption DEF HeaderSize, ClassSize
<1>2. (s - 1) % BlockSize = s - 1
  <2>. HIDE DEF s
  <2>1. s - 1 \in Nat /\ s - 1 < BlockSize /\ BlockSize \in Nat \ {0}
    BY <1>1
  <2>. QED
    BY <2>1
<1>3. t = power[i] - 1
  <2>1. s - 1 = MinSmall * (power[i] - 1) + (MinSmall - 1)
        /\ MinSmall * (power[i] - 1) \in Nat /\ power[i] - 1 \in Nat /\ s - 1 \in Nat
    BY <1>1
  <2>2. (s - 1) \div MinSmall = power[i] - 1
    <3>1. MinSmall * (power[i] - 1) <= s - 1
      BY <1>1, <2>1
    <3>2. s - 1 < MinSmall * (power[i] - 1) + MinSmall
      BY <1>1, <2>1
    <3>. HIDE DEF s
    <3>. QED
      BY <1>1, <2>1, <3>1, <3>2, Quotient
  <2>. QED
    BY <1>2, <2>2
<1>4. get_index(s) = CHOOSE k \in 0 .. N : Right(k)
  BY DEF get_index
<1>. HIDE DEF t, s
<1>5. i \in 0 .. N /\ i <= LastIndex /\ i \in Nat
  BY <1>1 DEF Index
<1>6. Right(i)
  <2>1. t < power[i]
    BY <1>1, <1>3
  <2>2. i # 0 => power[i - 1] <= t
    <3>. SUFFICES ASSUME i # 0 PROVE power[i - 1] <= t
      OBVIOUS
    <3>1. i - 1 \in 0 .. N /\ i - 1 < i /\ i \in 0 .. N
      BY <1>1, <1>5
    <3>2. power[i] >= 2 * power[i - 1] /\ power[i - 1] >= 1
      BY <3>1, PowerGrows
    <3>3. power[i - 1] \in Nat
      BY <3>1, PowerIs
    <3>. QED
      BY <1>1, <1>3, <3>2, <3>3
  <2>. QED
    BY <2>1, <2>2
<1>7. ASSUME NEW k \in 0 .. N, Right(k) PROVE k = i
  <2>1. power[k] \in Nat /\ power[i] <= power[k]
    <3>1. power[k] \in Nat
      BY PowerIs
    <3>2. t < power[k]
      BY <1>7
    <3>. QED
      BY <1>1, <1>3, <3>1, <3>2
  <2>2. ASSUME k < i PROVE FALSE
    <3>1. power[i] >= 2 * power[k] /\ power[k] >= 1
      BY <1>5, <2>2, PowerGrows
    <3>. QED
      BY <1>1, <2>1, <3>1
  <2>3. ASSUME i < k PROVE FALSE
    <3>1. k - 1 \in 0 .. N /\ k # 0
      BY <1>1, <1>5, <2>3
    <3>2. power[k - 1] <= t /\ power[k - 1] \in Nat
      BY <1>7, <3>1, PowerIs
    <3>3. power[i] <= power[k - 1]
      <4>1. CASE i = k - 1
        BY <3>2, <4>1
      <4>2. CASE i # k - 1
        <5>1. i < k - 1
          BY <1>1, <1>5, <2>3, <4>2
        <5>2. power[k - 1] >= 2 * power[i]
          BY <1>5, <3>1, <5>1, PowerGrows
        <5>. QED
          BY <1>1, <3>2, <5>2
      <4>. QED
        BY <4>1, <4>2
    <3>. QED
      BY <1>1, <1>3, <3>2, <3>3
  <2>. QED
    BY <1>1, <1>5, <2>2, <2>3
<1>. HIDE DEF Right
<1>8. get_index(s) = i
  BY <1>4, <1>5, <1>6, <1>7
<1>. QED
  BY <1>8 DEF s

(* A size that is rounded to pages without wrapping becomes no smaller. *)
LEMMA PagesEnough ==
  ASSUME NEW s \in Nat, s < WordSize, s >= 1, BlockSize < WordSize, PAGE_ALIGN(s) # 0
  PROVE  PAGE_ALIGN(s) \in Nat /\ s <= PAGE_ALIGN(s)
<1>. DEFINE u == s + BlockSize - 1
            t == u % WordSize
<1>1. BlockSize \in Nat \ {0} /\ WordSize \in Nat \ {0}
  <2>1. MaxSmall \in Nat /\ MaxSmall >= 1
    BY AreaAssumption, Classes DEF Index, HeaderSize
  <2>. QED
    BY <2>1, AreaAssumption
<1>2. u \in Nat /\ u < 2 * WordSize
  BY <1>1
<1>3. PAGE_ALIGN(s) = t - (t % BlockSize)
  BY DEF PAGE_ALIGN
<1>4. CASE u < WordSize
  <2>1. t = u
    BY <1>1, <1>2, <1>4
  <2>2. t % BlockSize \in 0 .. BlockSize - 1
    BY <1>1, <1>2, <2>1, Division
  <2>. HIDE DEF t
  <2>3. t % BlockSize \in Int /\ t % BlockSize >= 0 /\ t % BlockSize < BlockSize
    BY <1>1, <2>2
  <2>. QED
    BY <1>1, <1>3, <2>1, <2>3
<1>5. CASE u >= WordSize
  <2>1. u - WordSize \in 0 .. BlockSize - 1
    BY <1>1, <1>2, <1>5
  <2>2. t = u - WordSize
    <3>1. u = WordSize * 1 + (u - WordSize)
      BY <1>1, <1>2
    <3>2. u \div WordSize = 1
      <4>1. WordSize * 1 <= u /\ u < WordSize * 1 + WordSize
        BY <1>1, <1>2, <1>5
      <4>. HIDE DEF u
      <4>. QED
        BY <1>1, <1>2, <4>1, Quotient
    <3>3. u = WordSize * (u \div WordSize) + t /\ t \in Int
      <4>. HIDE DEF u
      <4>. QED
        BY <1>1, <1>2, Division
    <3>. HIDE DEF u, t
    <3>. QED
      BY <1>1, <1>2, <3>1, <3>2, <3>3
  <2>3. t % BlockSize = t
    BY <1>1, <2>1, <2>2
  <2>. QED
    BY <1>3, <2>1, <2>2, <2>3
<1>. QED
  BY <1>1, <1>2, <1>4, <1>5

-----------------------------------------------------------------------------
(* The numbers of the area. *)
LEMMA Area ==
  /\ WordSize \in Nat /\ HeapStart \in Nat /\ HeapEnd \in Nat /\ BlockSize \in Nat
  /\ MinSmall \in Nat /\ LastIndex \in Nat /\ MaxSmall \in Nat
  /\ 0 < HeapStart /\ HeapStart <= HeapEnd /\ HeapEnd < WordSize
  /\ HeaderSize = 2 /\ HeaderSize < MaxSmall /\ BlockSize = 2 * MaxSmall
<1>1. LastIndex \in Index /\ MaxSmall = ClassSize(LastIndex)
  BY AreaAssumption DEF Index, ClassSize
<1>2. MaxSmall \in Nat /\ HeaderSize < MaxSmall
  BY <1>1, Classes
<1>. QED
  BY <1>2, AreaAssumption DEF HeaderSize

(* Every block has room for its header and lies in the area. *)
LEMMA BlockFacts ==
  ASSUME NEW F, NEW R, NEW top, NEW sm, NEW m, NEW lv, NEW fr,
         Layout(F, R, top, sm, m, lv, fr), NEW b \in Starts(F, lv, fr)
  PROVE  /\ b \in Nat /\ HeapStart <= b
         /\ Length(F, m, b) \in Nat /\ HeaderSize < Length(F, m, b)
         /\ b + Length(F, m, b) <= top /\ top \in Nat /\ top <= HeapEnd
         /\ b \in Address /\ b + 1 \in Address /\ BLOCK_RET(b) = b + 2
         /\ b \notin DOMAIN F => BLOCK_RET(b) \in DOMAIN lv \cup fr
<1>1. /\ Typed(F, R, top, sm, m, lv, fr) /\ Placed(F, top, m, lv, fr)
      /\ Owned(F, m, lv, fr)
  BY DEF Layout
<1>2. b \in Address /\ top \in HeapStart .. HeapEnd /\ m \in [Address -> Address]
  BY <1>1 DEF Typed, Starts
<1>3. HeapStart <= b /\ b + Length(F, m, b) <= top
  BY <1>1 DEF Placed
<1>4. b \notin DOMAIN F => BLOCK_RET(b) \in DOMAIN lv \cup fr
  BY DEF Starts
<1>5. Length(F, m, b) \in Nat /\ HeaderSize < Length(F, m, b)
  <2>1. CASE b \in DOMAIN F
    <3>1. F[b] \in Index
      BY <1>1, <2>1 DEF Typed
    <3>. QED
      BY <2>1, <3>1, Classes DEF Length
  <2>2. CASE b \notin DOMAIN F
    <3>1. BLOCK_START(BLOCK_RET(b)) = b
      BY <1>2 DEF BLOCK_START, BLOCK_RET, HeaderSize, Address
    <3>2. m[size(b)] > MaxSmall \/ \E i \in Index : m[size(b)] = ClassSize(i)
      BY <1>1, <1>4, <2>2, <3>1 DEF Owned
    <3>3. b + 1 \in Address
      <4>1. BLOCK_RET(b) \in HeaderSize .. WordSize - 1
        BY <1>1, <1>4, <2>2 DEF Typed
      <4>. QED
        BY <1>2, <4>1, Area DEF Address, BLOCK_RET
    <3>4. m[size(b)] \in Nat
      BY <1>2, <3>3 DEF size, Address
    <3>5. HeaderSize < m[size(b)]
      <4>1. CASE m[size(b)] > MaxSmall
        BY <3>4, <4>1, Area
      <4>2. CASE \E i \in Index : m[size(b)] = ClassSize(i)
        BY <4>2, Classes
      <4>. QED
        BY <3>2, <4>1, <4>2
    <3>. QED
      BY <2>2, <3>4, <3>5 DEF Length
  <2>. QED
    BY <2>1, <2>2
<1>6. b + 1 \in Address
  BY <1>2, <1>3, <1>5, Area DEF Address
<1>. QED
  BY <1>2, <1>3, <1>4, <1>5, <1>6, Area DEF Address, BLOCK_RET, HeaderSize

(* A word belongs to one block. *)
LEMMA WordsApart ==
  ASSUME NEW F, NEW R, NEW top, NEW sm, NEW m, NEW lv, NEW fr,
         Layout(F, R, top, sm, m, lv, fr),
         NEW b \in Starts(F, lv, fr), NEW c \in Starts(F, lv, fr), b # c,
         NEW a \in b .. b + Length(F, m, b) - 1
  PROVE  a \notin c .. c + Length(F, m, c) - 1
<1>1. /\ b \in Nat /\ c \in Nat /\ Length(F, m, b) \in Nat /\ Length(F, m, c) \in Nat
  BY BlockFacts
<1>2. b < c => b + Length(F, m, b) <= c
  BY DEF Layout, Placed
<1>3. c < b => c + Length(F, m, c) <= b
  BY DEF Layout, Placed
<1>. QED
  BY <1>1, <1>2, <1>3

(* What a pointer that was handed out leads to. *)
LEMMA HeldFacts ==
  ASSUME NEW F, NEW R, NEW top, NEW sm, NEW m, NEW lv, NEW fr,
         Layout(F, R, top, sm, m, lv, fr), NEW p \in DOMAIN lv \cup fr
  PROVE  /\ p \in Nat /\ p \in Address /\ BLOCK_START(p) \in Starts(F, lv, fr)
         /\ p = BLOCK_START(p) + 2 /\ BLOCK_RET(BLOCK_START(p)) = p
         /\ p \in DOMAIN lv =>
              /\ BLOCK_START(p) \notin DOMAIN F
              /\ Length(F, m, BLOCK_START(p)) = m[size(BLOCK_START(p))]
              /\ lv[p] \in Nat /\ p + lv[p] <= BLOCK_START(p) + Length(F, m, BLOCK_START(p))
              /\ p + lv[p] <= top /\ p + lv[p] <= HeapEnd /\ HeapStart <= p
              /\ m[size(BLOCK_START(p))] > MaxSmall \/ \E i \in Index : m[size(BLOCK_START(p))] = ClassSize(i)
<1>1. /\ Typed(F, R, top, sm, m, lv, fr) /\ Owned(F, m, lv, fr)
  BY DEF Layout
<1>2. p \in HeaderSize .. WordSize - 1
  BY <1>1 DEF Typed
<1>3. /\ p \in Nat /\ p \in Address /\ BLOCK_START(p) \in Address
      /\ p = BLOCK_START(p) + 2 /\ BLOCK_RET(BLOCK_START(p)) = p
  BY <1>2, Area DEF BLOCK_START, BLOCK_RET, Address, HeaderSize
<1>4. BLOCK_START(p) \in Starts(F, lv, fr)
  BY <1>3 DEF Starts
<1>5. ASSUME p \in DOMAIN lv
      PROVE  /\ BLOCK_START(p) \notin DOMAIN F
             /\ Length(F, m, BLOCK_START(p)) = m[size(BLOCK_START(p))]
             /\ lv[p] \in Nat /\ lv[p] + HeaderSize <= m[size(BLOCK_START(p))]
             /\ m[size(BLOCK_START(p))] > MaxSmall \/ \E i \in Index : m[size(BLOCK_START(p))] = ClassSize(i)
  BY <1>1, <1>5 DEF Owned, Typed, Length
<1>6. /\ BLOCK_START(p) \in Nat /\ HeapStart <= BLOCK_START(p)
      /\ Length(F, m, BLOCK_START(p)) \in Nat
      /\ BLOCK_START(p) + Length(F, m, BLOCK_START(p)) <= top /\ top \in Nat /\ top <= HeapEnd
  BY <1>4, BlockFacts
<1>7. ASSUME p \in DOMAIN lv
      PROVE  p + lv[p] <= BLOCK_START(p) + Length(F, m, BLOCK_START(p))
             /\ p + lv[p] <= top /\ p + lv[p] <= HeapEnd /\ HeapStart <= p
  BY <1>3, <1>5, <1>6, <1>7, Area
<1>. QED
  BY <1>3, <1>4, <1>5, <1>7

-----------------------------------------------------------------------------
(* Memory w is memory m in all blocks but b. *)
Elsewhere(F, m, lv, fr, b, w) ==
  \A c \in Starts(F, lv, fr) : c # b => \A a \in c .. c + Length(F, m, c) - 1 : w[a] = m[a]

(* The first block of list i is handed out for n words. *)
Taken(F, b) == [c \in DOMAIN F \ {b} |-> F[c]]
MovedUp(F, R, b) == [c \in DOMAIN F \ {b} |-> IF F[c] = F[b] THEN R[c] - 1 ELSE R[c]]
Marked(m, b, s) == [[m EXCEPT ![next(b)] = 0] EXCEPT ![size(b)] = s]
Given(lv, p, n) == [q \in DOMAIN lv \cup {p} |-> IF q = p THEN n ELSE lv[q]]

(* Nothing changes in the other blocks. *)
LEMMA TakeSpares ==
  ASSUME NEW F, NEW R, NEW top, NEW sm, NEW m, NEW lv, NEW fr,
         Layout(F, R, top, sm, m, lv, fr), NEW i \in Index, sm[i] # 0
  PROVE  /\ sm[i] \in DOMAIN F /\ F[sm[i]] = i /\ R[sm[i]] = 0 /\ sm[i] \in Starts(F, lv, fr)
         /\ Length(F, m, sm[i]) = ClassSize(i)
         /\ Marked(m, sm[i], ClassSize(i)) \in [Address -> Address]
         /\ Marked(m, sm[i], ClassSize(i))[sm[i] + 1] = ClassSize(i)
         /\ \A a \in Address : a # sm[i] /\ a # sm[i] + 1 => Marked(m, sm[i], ClassSize(i))[a] = m[a]
         /\ Elsewhere(F, m, lv, fr, sm[i], Marked(m, sm[i], ClassSize(i)))
<1>. DEFINE b == sm[i]
            s == ClassSize(i)
            w == Marked(m, b, s)
<1>1. b \in DOMAIN F /\ F[b] = i /\ R[b] = 0 /\ b \in Starts(F, lv, fr)
  BY DEF Layout, Linked, Starts
<1>2. Length(F, m, b) = s
  BY <1>1 DEF Length
<1>3. /\ b \in Nat /\ b + s <= HeapEnd /\ s \in Nat /\ HeaderSize < s /\ b \in Address /\ b + 1 \in Address
  <2>1. /\ b \in Nat /\ b + Length(F, m, b) <= top /\ top <= HeapEnd /\ top \in Nat
        /\ b \in Address /\ b + 1 \in Address
    BY <1>1, BlockFacts
  <2>2. s \in Nat /\ HeaderSize < s
    BY Classes
  <2>. HIDE DEF b, s
  <2>. QED
    BY <1>2, <2>1, <2>2, Area
<1>. HIDE DEF b, s
<1>4. m \in [Address -> Address] /\ s \in Address /\ 0 \in Address
  <2>1. m \in [Address -> Address]
    BY DEF Layout, Typed
  <2>2. s \in Nat /\ s <= HeapEnd
    BY <1>3, Area
  <2>. QED
    BY <2>1, <2>2, Area DEF Address
<1>5. /\ w \in [Address -> Address] /\ w[b + 1] = s
      /\ \A a \in Address : a # b /\ a # b + 1 => w[a] = m[a]
  BY <1>3, <1>4 DEF Marked, next, size
<1>6. ASSUME NEW c \in Starts(F, lv, fr), c # b, NEW a \in c .. c + Length(F, m, c) - 1
      PROVE  w[a] = m[a]
  <2>1. b \in b .. b + Length(F, m, b) - 1 /\ b + 1 \in b .. b + Length(F, m, b) - 1
    BY <1>2, <1>3, Area
  <2>2. a # b /\ a # b + 1
    BY <1>1, <1>6, <2>1, WordsApart
  <2>3. c \in Nat /\ c + Length(F, m, c) <= top /\ Length(F, m, c) \in Nat /\ top \in Nat /\ top <= HeapEnd
    BY BlockFacts
  <2>4. a \in Address
    BY <2>3, Area DEF Address
  <2>. QED
    BY <1>5, <2>2, <2>4
<1>. QED
  BY <1>1, <1>2, <1>5, <1>6 DEF b, s, Elsewhere

(* Blocks of the same place and length are as well placed. *)
LEMMA SameBlocks ==
  ASSUME NEW F, NEW top, NEW m, NEW lv, NEW fr, NEW F2, NEW m2, NEW lv2, NEW fr2,
         Placed(F, top, m, lv, fr), Starts(F2, lv2, fr2) = Starts(F, lv, fr),
         \A b \in Starts(F, lv, fr) : Length(F2, m2, b) = Length(F, m, b)
  PROVE  Placed(F2, top, m2, lv2, fr2)
<1>. DEFINE S == Starts(F, lv, fr)
            L(b) == Length(F, m, b)
            L2(b) == Length(F2, m2, b)
<1>1. /\ \A b \in S : HeapStart <= b /\ b + L(b) <= top
      /\ \A b, c \in S : b < c => b + L(b) <= c
      /\ \A a \in HeapStart .. top - 1 : \E b \in S : b <= a /\ a < b + L(b)
  BY DEF Placed
<1>2. \A b \in S : L2(b) = L(b)
  OBVIOUS
<1>. HIDE DEF L, L2, S
<1>3. /\ \A b \in S : HeapStart <= b /\ b + L2(b) <= top
      /\ \A b, c \in S : b < c => b + L2(b) <= c
      /\ \A a \in HeapStart .. top - 1 : \E b \in S : b <= a /\ a < b + L2(b)
  BY <1>1, <1>2
<1>4. Starts(F2, lv2, fr2) = S
  BY DEF S
<1>. QED
  BY <1>3, <1>4 DEF Placed, L2

(* What is left is well laid out. *)
LEMMA TakeLayout ==
  ASSUME NEW F, NEW R, NEW top, NEW sm, NEW m, NEW lv, NEW fr,
         Layout(F, R, top, sm, m, lv, fr), NEW i \in Index, sm[i] # 0,
         NEW n \in Nat, n + HeaderSize <= ClassSize(i)
  PROVE  Layout(Taken(F, sm[i]), MovedUp(F, R, sm[i]), top, [sm EXCEPT ![i] = m[sm[i]]],
                Marked(m, sm[i], ClassSize(i)), Given(lv, BLOCK_RET(sm[i]), n),
                fr \ {BLOCK_RET(sm[i])})
<1>. DEFINE b == sm[i]
            s == ClassSize(i)
            w == Marked(m, b, s)
            F2 == Taken(F, b)
            R2 == MovedUp(F, R, b)
            sm2 == [sm EXCEPT ![i] = m[b]]
            lv2 == Given(lv, BLOCK_RET(b), n)
            fr2 == fr \ {BLOCK_RET(b)}
<1>1. /\ b \in DOMAIN F /\ F[b] = i /\ R[b] = 0 /\ b \in Starts(F, lv, fr)
      /\ Length(F, m, b) = s /\ w \in [Address -> Address] /\ w[b + 1] = s
      /\ \A a \in Address : a # b /\ a # b + 1 => w[a] = m[a]
      /\ \A c \in Starts(F, lv, fr) : c # b => \A a \in c .. c + Length(F, m, c) - 1 : w[a] = m[a]
  BY TakeSpares DEF Elsewhere
<1>2. /\ b \in Nat /\ HeapStart <= b /\ s \in Nat /\ HeaderSize < s /\ b + s <= top
      /\ top \in Nat /\ top <= HeapEnd /\ b \in Address /\ b + 1 \in Address
      /\ BLOCK_RET(b) = b + 2
  BY <1>1, BlockFacts
<1>3. /\ Typed(F, R, top, sm, m, lv, fr) /\ Placed(F, top, m, lv, fr)
      /\ Linked(F, R, sm, m) /\ Zeroed(F, top, m) /\ Owned(F, m, lv, fr)
  BY DEF Layout
<1>. HIDE DEF b, s, w
<1>4. DOMAIN F2 = DOMAIN F \ {b} /\ \A c \in DOMAIN F2 : F2[c] = F[c]
  BY DEF Taken
<1>5. /\ DOMAIN R2 = DOMAIN F \ {b}
      /\ \A c \in DOMAIN F2 : R2[c] = IF F[c] = i THEN R[c] - 1 ELSE R[c]
  BY <1>1 DEF Taken, MovedUp
<1>6. /\ DOMAIN lv2 = DOMAIN lv \cup {b + 2} /\ lv2[b + 2] = n
      /\ \A p \in DOMAIN lv : p # b + 2 => lv2[p] = lv[p]
      /\ fr2 = fr \ {b + 2}
  BY <1>2 DEF Given
<1>7. ASSUME NEW c \in DOMAIN F2 PROVE c \in DOMAIN F /\ c # b /\ c \in Starts(F, lv, fr)
                                       /\ F[c] \in Index /\ R[c] \in Nat /\ c \in Nat
  BY <1>3, <1>4 DEF Starts, Typed, Address
<1>8. b + 2 \notin DOMAIN lv
  <2>1. BLOCK_START(b + 2) = b
    BY <1>2 DEF BLOCK_START, HeaderSize
  <2>. QED
    BY <1>1, <1>3, <2>1 DEF Owned
<1>9. ASSUME NEW c \in DOMAIN F2, F[c] = i PROVE R[c] # 0
  BY <1>1, <1>3, <1>7, <1>9 DEF Linked
<1>10. \A c \in DOMAIN F2 : R2[c] \in Nat
  BY <1>5, <1>7, <1>9
<1>11. Typed(F2, R2, top, sm2, w, lv2, fr2)
  <2>1. F2 \in [DOMAIN F2 -> Index]
    <3>1. \A c \in DOMAIN F \ {b} : F[c] \in Index
      BY <1>3 DEF Typed
    <3>. QED
      BY <1>4, <3>1 DEF Taken
  <2>2. R2 \in [DOMAIN F2 -> Nat]
    <3>1. R2 = [c \in DOMAIN F2 |-> R2[c]]
      BY <1>4, <1>5 DEF MovedUp
    <3>. QED
      BY <1>10, <3>1
  <2>3. sm2 \in [Index -> Address]
    BY <1>2, <1>3 DEF Typed
  <2>4. lv2 \in [DOMAIN lv2 -> Nat]
    <3>1. \A p \in DOMAIN lv : lv[p] \in Nat
      BY <1>3 DEF Typed
    <3>. QED
      BY <3>1 DEF Given
  <2>5. b + 2 \in HeaderSize .. WordSize - 1
    BY <1>2, Area
  <2>6. DOMAIN lv2 \cup fr2 \subseteq HeaderSize .. WordSize - 1 /\ fr2 \cap DOMAIN lv2 = {}
    BY <1>3, <1>6, <2>5 DEF Typed
  <2>7. DOMAIN F2 \subseteq Address /\ top \in HeapStart .. HeapEnd
    BY <1>3, <1>4 DEF Typed
  <2>. QED
    BY <1>1, <2>1, <2>2, <2>3, <2>4, <2>6, <2>7 DEF Typed
<1>12. Starts(F2, lv2, fr2) = Starts(F, lv, fr)
  <2>1. \A c \in Address : BLOCK_RET(c) = b + 2 <=> c = b
    BY <1>2 DEF BLOCK_RET, HeaderSize, Address
  <2>. QED
    BY <1>1, <1>2, <1>4, <1>6, <2>1 DEF Starts
<1>13. ASSUME NEW c \in Starts(F, lv, fr) PROVE Length(F2, w, c) = Length(F, m, c)
  <2>1. CASE c = b
    BY <1>1, <1>4, <2>1 DEF Length, size
  <2>2. CASE c # b /\ c \in DOMAIN F
    BY <1>4, <2>2 DEF Length
  <2>3. CASE c # b /\ c \notin DOMAIN F
    <3>1. c \in Nat /\ Length(F, m, c) \in Nat /\ HeaderSize < Length(F, m, c)
      BY BlockFacts
    <3>2. c + 1 \in c .. c + Length(F, m, c) - 1
      BY <3>1, Area
    <3>3. w[c + 1] = m[c + 1]
      BY <1>1, <2>3, <3>2
    <3>. QED
      BY <1>4, <2>3, <3>3 DEF Length, size
  <2>. QED
    BY <2>1, <2>2, <2>3
<1>14. Placed(F2, top, w, lv2, fr2)
  <2>. HIDE DEF F2, lv2, fr2
  <2>. QED
    BY <1>3, <1>12, <1>13, SameBlocks
<1>15. ASSUME NEW c \in DOMAIN F2, NEW a \in c .. c + ClassSize(F[c]) - 1 PROVE w[a] = m[a]
  <2>1. Length(F, m, c) = ClassSize(F[c])
    BY <1>7 DEF Length
  <2>. QED
    BY <1>1, <1>7, <2>1
<1>16. \A c \in DOMAIN F2 : w[c] = m[c]
  <2>. SUFFICES ASSUME NEW c \in DOMAIN F2 PROVE w[c] = m[c]
    OBVIOUS
  <2>1. F[c] \in Index /\ c \in Nat
    BY <1>7
  <2>2. ClassSize(F[c]) \in Nat /\ HeaderSize < ClassSize(F[c])
    BY <2>1, Classes
  <2>3. c \in c .. c + ClassSize(F[c]) - 1
    BY <2>1, <2>2, Area
  <2>. QED
    BY <1>15, <2>3
<1>17. Linked(F2, R2, sm2, w)
  <2>. HIDE DEF F2, R2
  <2>1. /\ \A j \in Index : \/ sm[j] = 0 /\ \A c \in DOMAIN F : F[c] # j
                            \/ sm[j] \in DOMAIN F /\ F[sm[j]] = j /\ R[sm[j]] = 0
        /\ \A c \in DOMAIN F : \/ m[c] = 0
                               \/ m[c] \in DOMAIN F /\ F[m[c]] = F[c] /\ R[m[c]] = R[c] + 1
        /\ \A c, d \in DOMAIN F : F[c] = F[d] /\ R[c] = R[d] => c = d
        /\ \A c \in DOMAIN F : \/ R[c] = 0
                               \/ \E d \in DOMAIN F : F[d] = F[c] /\ R[d] + 1 = R[c] /\ m[d] = c
    BY <1>3 DEF Linked
  <2>2. sm2[i] = m[b] /\ \A j \in Index : j # i => sm2[j] = sm[j]
    BY <1>3 DEF Typed
  <2>. HIDE DEF sm2
  <2>3. ASSUME NEW c \in DOMAIN F2, F[c] = i, m[b] = 0 PROVE FALSE
    <3>. DEFINE T == {R[d] : d \in {e \in DOMAIN F2 : F[e] = i}}
    <3>1. T \subseteq Nat /\ T # {}
      BY <1>7, <2>3
    <3>2. PICK x \in T : \A y \in T : ~(y < x)
      BY <3>1, LeastElement
    <3>3. PICK e \in DOMAIN F2 : F[e] = i /\ R[e] = x
      BY <3>2
    <3>4. PICK d \in DOMAIN F : F[d] = i /\ R[d] + 1 = R[e] /\ m[d] = e
      BY <1>7, <1>9, <2>1, <3>3
    <3>5. d # b
      <4>1. e \in Nat /\ HeapStart <= e
        BY <1>7, BlockFacts
      <4>. QED
        BY <2>3, <3>4, <4>1, Area
    <3>6. d \in DOMAIN F2 /\ R[d] \in T /\ R[d] \in Nat
      BY <1>4, <1>7, <3>4, <3>5
    <3>7. R[d] < R[e]
      BY <3>4, <3>6
    <3>. QED
      BY <3>2, <3>3, <3>6, <3>7
  <2>4. ASSUME NEW j \in Index
        PROVE  \/ sm2[j] = 0 /\ \A c \in DOMAIN F2 : F2[c] # j
               \/ sm2[j] \in DOMAIN F2 /\ F2[sm2[j]] = j /\ R2[sm2[j]] = 0
    <3>1. CASE j # i
      BY <1>1, <1>4, <1>5, <2>1, <2>2, <3>1
    <3>2. CASE j = i /\ m[b] = 0
      BY <1>4, <2>2, <2>3, <3>2
    <3>3. CASE j = i /\ m[b] # 0
      <4>1. m[b] \in DOMAIN F /\ F[m[b]] = i /\ R[m[b]] = 1
        BY <1>1, <2>1, <3>3
      <4>2. m[b] \in DOMAIN F2
        BY <1>1, <1>4, <4>1
      <4>. QED
        BY <1>4, <1>5, <2>2, <3>3, <4>1, <4>2
    <3>. QED
      BY <3>1, <3>2, <3>3
  <2>5. ASSUME NEW c \in DOMAIN F2
        PROVE  \/ w[c] = 0
               \/ w[c] \in DOMAIN F2 /\ F2[w[c]] = F2[c] /\ R2[w[c]] = R2[c] + 1
    <3>1. CASE m[c] = 0
      BY <1>16, <3>1
    <3>2. CASE m[c] # 0
      <4>1. m[c] \in DOMAIN F /\ F[m[c]] = F[c] /\ R[m[c]] = R[c] + 1 /\ R[c] \in Nat
        BY <1>7, <2>1, <3>2
      <4>2. m[c] \in DOMAIN F2
        BY <1>1, <1>4, <4>1
      <4>3. R2[m[c]] = R2[c] + 1
        BY <1>5, <4>1, <4>2
      <4>. QED
        BY <1>4, <1>16, <4>1, <4>2, <4>3
    <3>. QED
      BY <3>1, <3>2
  <2>6. ASSUME NEW c \in DOMAIN F2, NEW d \in DOMAIN F2, F2[c] = F2[d], R2[c] = R2[d] PROVE c = d
    <3>1. F[c] = F[d] /\ c \in DOMAIN F /\ d \in DOMAIN F /\ R[c] \in Nat /\ R[d] \in Nat
      BY <1>4, <1>7, <2>6
    <3>2. R[c] = R[d]
      BY <1>5, <2>6, <3>1
    <3>. QED
      BY <2>1, <3>1, <3>2
  <2>7. ASSUME NEW c \in DOMAIN F2
        PROVE  \/ R2[c] = 0
               \/ \E d \in DOMAIN F2 : F2[d] = F2[c] /\ R2[d] + 1 = R2[c] /\ w[d] = c
    <3>. SUFFICES ASSUME R2[c] # 0
                  PROVE  \E d \in DOMAIN F2 : F2[d] = F2[c] /\ R2[d] + 1 = R2[c] /\ w[d] = c
      OBVIOUS
    <3>1. R[c] # 0 /\ R[c] \in Nat /\ (F[c] = i => R[c] # 1)
      BY <1>5, <1>7, <1>9
    <3>2. PICK d \in DOMAIN F : F[d] = F[c] /\ R[d] + 1 = R[c] /\ m[d] = c
      BY <1>7, <2>1, <3>1
    <3>3. d \in DOMAIN F2 /\ R[d] \in Nat
      <4>1. d # b
        BY <1>1, <3>1, <3>2
      <4>. QED
        BY <1>4, <1>7, <3>2, <4>1
    <3>4. R2[d] + 1 = R2[c]
      BY <1>5, <3>1, <3>2, <3>3
    <3>. QED
      BY <1>4, <1>16, <3>2, <3>3, <3>4
  <2>. QED
    BY <2>4, <2>5, <2>6, <2>7 DEF Linked
<1>18. Zeroed(F2, top, w)
  <2>1. ASSUME NEW c \in DOMAIN F2, NEW a \in c + 1 .. c + ClassSize(F2[c]) - 1 PROVE w[a] = 0
    <3>1. ClassSize(F[c]) \in Nat /\ c \in Nat
      BY <1>7, Classes
    <3>2. a \in c .. c + ClassSize(F[c]) - 1 /\ a \in c + 1 .. c + ClassSize(F[c]) - 1
      BY <1>4, <3>1
    <3>3. m[a] = 0
      BY <1>3, <1>7, <3>2 DEF Zeroed
    <3>. QED
      BY <1>15, <3>2, <3>3
  <2>2. ASSUME NEW a \in top .. HeapEnd - 1 PROVE w[a] = 0
    <3>1. m[a] = 0
      BY <1>3 DEF Zeroed
    <3>2. a \in Address /\ a # b /\ a # b + 1
      BY <1>2, Area DEF Address
    <3>. QED
      BY <1>1, <3>1, <3>2
  <2>. QED
    BY <2>1, <2>2 DEF Zeroed
<1>19. Owned(F2, w, lv2, fr2)
  <2>. HIDE DEF F2
  <2>1. ASSUME NEW p \in DOMAIN lv \cup fr, p # b + 2, BLOCK_START(p) \notin DOMAIN F
        PROVE  w[size(BLOCK_START(p))] = m[size(BLOCK_START(p))]
    <3>. DEFINE c == BLOCK_START(p)
    <3>1. c \in Starts(F, lv, fr) /\ p = c + 2
      BY HeldFacts
    <3>. HIDE DEF c
    <3>2. c \in Nat /\ Length(F, m, c) \in Nat /\ HeaderSize < Length(F, m, c)
      BY <3>1, BlockFacts
    <3>3. c + 1 \in c .. c + Length(F, m, c) - 1 /\ c # b
      BY <2>1, <3>1, <3>2, Area
    <3>4. w[c + 1] = m[c + 1]
      BY <1>1, <3>1, <3>3
    <3>. QED
      BY <3>4 DEF c, size
  <2>2. ASSUME NEW p \in DOMAIN lv2
        PROVE  /\ BLOCK_START(p) \notin DOMAIN F2
               /\ w[size(BLOCK_START(p))] > MaxSmall
                    \/ \E j \in Index : w[size(BLOCK_START(p))] = ClassSize(j)
               /\ lv2[p] + HeaderSize <= w[size(BLOCK_START(p))]
    <3>1. CASE p = b + 2
      <4>1. BLOCK_START(p) = b
        BY <1>2, <3>1 DEF BLOCK_START, HeaderSize
      <4>. QED
        BY <1>1, <1>4, <1>6, <3>1, <4>1 DEF size, s
    <3>2. CASE p # b + 2
      <4>1. p \in DOMAIN lv /\ lv2[p] = lv[p]
        BY <1>6, <3>2
      <4>2. /\ BLOCK_START(p) \notin DOMAIN F
            /\ m[size(BLOCK_START(p))] > MaxSmall
                    \/ \E j \in Index : m[size(BLOCK_START(p))] = ClassSize(j)
            /\ lv[p] + HeaderSize <= m[size(BLOCK_START(p))]
        BY <1>3, <4>1 DEF Owned
      <4>3. w[size(BLOCK_START(p))] = m[size(BLOCK_START(p))]
        BY <2>1, <3>2, <4>1, <4>2
      <4>. QED
        BY <1>4, <4>1, <4>2, <4>3
    <3>. QED
      BY <3>1, <3>2
  <2>3. ASSUME NEW p \in fr2
        PROVE  BLOCK_START(p) \in DOMAIN F2 \/ w[size(BLOCK_START(p))] > MaxSmall
    <3>1. p \in fr /\ p # b + 2
      BY <1>6
    <3>2. CASE BLOCK_START(p) \in DOMAIN F
      <4>1. p = BLOCK_START(p) + 2
        BY <3>1, HeldFacts
      <4>. QED
        BY <1>4, <3>1, <3>2, <4>1
    <3>3. CASE BLOCK_START(p) \notin DOMAIN F
      <4>1. m[size(BLOCK_START(p))] > MaxSmall
        BY <1>3, <3>1, <3>3 DEF Owned
      <4>. QED
        BY <2>1, <3>1, <3>3, <4>1
    <3>. QED
      BY <3>2, <3>3
  <2>. QED
    BY <2>2, <2>3 DEF Owned
<1>. QED
  BY <1>11, <1>14, <1>17, <1>18, <1>19 DEF Layout, b, s, w

-----------------------------------------------------------------------------
(* A page is cut into pieces of s words, chained in their order. *)
Pieces(page, s) == {page + k * s : k \in 0 .. BlockSize \div s - 1}
Place(page, s, c) == (c - page) \div s
Chain(m, page, s) ==
  [a \in Address |->
     IF a \in Pieces(page, s) THEN IF a + s \in Pieces(page, s) THEN a + s ELSE 0 ELSE m[a]]

LEMMA Multiples ==
  ASSUME NEW s \in Nat, NEW x \in Nat, NEW y \in Nat, x < y
  PROVE  x * s \in Nat /\ y * s \in Nat /\ x * s + s <= y * s
<1>1. PICK k \in Nat : y = x + 1 + k
  <2>1. y - x - 1 \in Nat /\ y = x + 1 + (y - x - 1)
    OBVIOUS
  <2>. QED
    BY <2>1
<1>2. y * s = x * s + s + k * s /\ k * s \in Nat /\ x * s \in Nat
  BY <1>1
<1>. QED
  BY <1>2

CutUp(page, s) ==
  /\ page \in Pieces(page, s) /\ Place(page, s, page) = 0
  /\ \A c \in Pieces(page, s) :
       /\ c \in Nat /\ page <= c /\ c + s <= page + BlockSize
       /\ Place(page, s, c) \in Nat
       /\ \/ c + s \in Pieces(page, s) /\ Place(page, s, c + s) = Place(page, s, c) + 1
          \/ c + s = page + BlockSize
       /\ \/ c = page
          \/ c - s \in Pieces(page, s) /\ Place(page, s, c - s) + 1 = Place(page, s, c)
  /\ \A c, d \in Pieces(page, s) : c < d => c + s <= d
  /\ \A c, d \in Pieces(page, s) : Place(page, s, c) = Place(page, s, d) => c = d
  /\ \A a \in page .. page + BlockSize - 1 :
       \E c \in Pieces(page, s) : c <= a /\ a < c + s

LEMMA PieceFacts ==
  ASSUME NEW i \in Index, NEW page \in Nat, NEW s, s = ClassSize(i)
  PROVE  CutUp(page, s)
<1>1. s \in Nat \ {0} /\ HeaderSize < s /\ BlockSize \in Nat
  BY Area, Classes
<1>2. PICK q \in Nat : q >= 2 /\ BlockSize = s * q
  BY PageDivides
<1>3. BlockSize \div s = q
  BY <1>1, <1>2, Quotient
<1>. DEFINE S == Pieces(page, s)
            P(c) == Place(page, s, c)
<1>4. \A c : c \in S <=> \E k \in 0 .. q - 1 : c = page + k * s
  BY <1>3 DEF Pieces
<1>5. ASSUME NEW k \in Nat PROVE k * s \in Nat /\ P(page + k * s) = k
  <2>1. k * s \in Nat /\ s * k <= k * s /\ k * s < s * k + s
    BY <1>1
  <2>2. (k * s) \div s = k
    BY <1>1, <2>1, Quotient
  <2>3. page + k * s - page = k * s
    BY <2>1
  <2>. QED
    BY <2>1, <2>2, <2>3 DEF Place
<1>. HIDE DEF S, P
<1>6. ASSUME NEW k \in 0 .. q - 1
      PROVE  /\ page + k * s \in Nat /\ page <= page + k * s
             /\ page + k * s + s <= page + BlockSize
             /\ k + 1 \in Nat /\ page + (k + 1) * s = page + k * s + s
  <2>1. k \in Nat /\ q \in Nat /\ k < q
    OBVIOUS
  <2>2. k * s \in Nat /\ k * s + s <= q * s
    BY <1>1, <2>1, Multiples
  <2>3. (k + 1) * s = k * s + s /\ q * s = BlockSize
    BY <1>1, <1>2, <2>1
  <2>. QED
    BY <1>1, <2>1, <2>2, <2>3
<1>7. 0 \in 0 .. q - 1 /\ page + 0 * s = page
  BY <1>1, <1>2
<1>8. page \in S /\ P(page) = 0
  BY <1>4, <1>5, <1>7
<1>9. ASSUME NEW c \in S
      PROVE  /\ c \in Nat /\ page <= c /\ c + s <= page + BlockSize
             /\ P(c) \in Nat
             /\ (c + s \in S /\ P(c + s) = P(c) + 1) \/ c + s = page + BlockSize
             /\ c = page \/ (c - s \in S /\ P(c - s) + 1 = P(c))
  <2>1. PICK k \in 0 .. q - 1 : c = page + k * s
    BY <1>4
  <2>2. P(c) = k
    BY <1>5, <2>1
  <2>3. (c + s \in S /\ P(c + s) = k + 1) \/ c + s = page + BlockSize
    <3>1. PICK l \in Nat : l = k + 1
      OBVIOUS
    <3>2. c + s = page + l * s
      BY <1>6, <2>1, <3>1
    <3>3. CASE l \in 0 .. q - 1
      BY <1>4, <1>5, <3>1, <3>2, <3>3
    <3>4. CASE l \notin 0 .. q - 1
      <4>1. l = q
        BY <3>1, <3>4
      <4>2. l * s = BlockSize
        BY <1>1, <1>2, <4>1
      <4>. QED
        BY <3>2, <4>2
    <3>. QED
      BY <3>3, <3>4
  <2>4. c = page \/ (c - s \in S /\ P(c - s) + 1 = k)
    <3>1. CASE k = 0
      BY <1>7, <2>1, <3>1
    <3>2. CASE k # 0
      <4>1. PICK l \in 0 .. q - 1 : k = l + 1
        <5>1. k - 1 \in 0 .. q - 1 /\ k = (k - 1) + 1
          BY <3>2
        <5>. QED
          BY <5>1
      <4>2. c = page + l * s + s /\ page + l * s \in Nat
        BY <1>6, <2>1, <4>1
      <4>3. c - s = page + l * s
        BY <1>1, <4>2
      <4>4. P(c - s) = l
        BY <1>5, <4>3
      <4>. QED
        BY <1>4, <4>1, <4>3, <4>4
    <3>. QED
      BY <3>1, <3>2
  <2>. QED
    BY <1>6, <2>1, <2>2, <2>3, <2>4
<1>10. ASSUME NEW c \in S, NEW d \in S, c < d PROVE c + s <= d
  <2>1. PICK k \in 0 .. q - 1 : c = page + k * s
    BY <1>4
  <2>2. PICK l \in 0 .. q - 1 : d = page + l * s
    BY <1>4
  <2>3. k * s \in Nat /\ l * s \in Nat
    BY <1>5
  <2>4. ~(l < k)
    <3>1. ASSUME l < k PROVE l * s + s <= k * s
      BY <1>1, <3>1, Multiples
    <3>. QED
      BY <1>1, <1>10, <2>1, <2>2, <2>3, <3>1
  <2>5. k # l
    BY <1>10, <2>1, <2>2, <2>3
  <2>6. k * s + s <= l * s
    <3>1. k < l
      BY <2>4, <2>5
    <3>. QED
      BY <1>1, <3>1, Multiples
  <2>. QED
    BY <1>1, <2>1, <2>2, <2>3, <2>6
<1>11. ASSUME NEW a \in page .. page + BlockSize - 1 PROVE \E c \in S : c <= a /\ a < c + s
  <2>. DEFINE k == (a - page) \div s
  <2>1. a - page \in Nat /\ a - page < BlockSize
    BY <1>1
  <2>2. /\ k \in Nat /\ s * k \in Nat /\ (a - page) % s \in 0 .. s - 1
        /\ a - page = s * k + ((a - page) % s)
    BY <1>1, <2>1, Division
  <2>. HIDE DEF k
  <2>3. s * k <= a - page /\ a - page < s * k + s /\ k * s = s * k
    BY <1>1, <2>1, <2>2
  <2>4. ~(q <= k)
    <3>1. ASSUME q < k PROVE q * s + s <= k * s
      BY <1>1, <2>2, <3>1, Multiples
    <3>2. q * s = BlockSize
      BY <1>1, <1>2
    <3>3. CASE q = k
      BY <1>1, <2>1, <2>3, <3>2, <3>3
    <3>4. CASE q < k
      BY <1>1, <2>1, <2>2, <2>3, <3>1, <3>2, <3>4
    <3>. QED
      BY <2>2, <3>3, <3>4
  <2>5. k \in 0 .. q - 1
    BY <2>2, <2>4
  <2>6. page + k * s \in S
    BY <1>4, <2>5
  <2>7. page + k * s <= a /\ a < page + k * s + s
    BY <1>1, <2>1, <2>2, <2>3
  <2>. QED
    BY <2>6, <2>7
<1>12. ASSUME NEW c \in S, NEW d \in S, P(c) = P(d) PROVE c = d
  <2>1. PICK k \in 0 .. q - 1 : c = page + k * s
    BY <1>4
  <2>2. PICK l \in 0 .. q - 1 : d = page + l * s
    BY <1>4
  <2>. QED
    BY <1>5, <1>12, <2>1, <2>2
<1>. QED
  BY <1>8, <1>9, <1>10, <1>11, <1>12 DEF S, P, CutUp

(* With the pieces on list i, which was empty, the page is well laid out. *)
Joined(F, page, s, i) ==
  [c \in DOMAIN F \cup Pieces(page, s) |-> IF c \in Pieces(page, s) THEN i ELSE F[c]]
Placing(F, R, page, s) ==
  [c \in DOMAIN F \cup Pieces(page, s) |->
     IF c \in Pieces(page, s) THEN Place(page, s, c) ELSE R[c]]

LEMMA CutLayout ==
  ASSUME NEW F, NEW R, NEW top, NEW sm, NEW m, NEW lv, NEW fr,
         Layout(F, R, top, sm, m, lv, fr), NEW i \in Index, sm[i] = 0,
         top + BlockSize <= HeapEnd
  PROVE  Layout(Joined(F, top, ClassSize(i), i), Placing(F, R, top, ClassSize(i)),
                top + BlockSize, [sm EXCEPT ![i] = top], Chain(m, top, ClassSize(i)), lv, fr)
<1>0. PICK s : s = ClassSize(i)
  OBVIOUS
<1>. DEFINE S == Pieces(top, s)
            P(c) == Place(top, s, c)
            w == Chain(m, top, s)
            F2 == Joined(F, top, s, i)
            R2 == Placing(F, R, top, s)
            sm2 == [sm EXCEPT ![i] = top]
            top2 == top + BlockSize
            Old == Starts(F, lv, fr)
            L(c) == Length(F, m, c)
            L2(c) == Length(F2, w, c)
<1>1. /\ Typed(F, R, top, sm, m, lv, fr) /\ Placed(F, top, m, lv, fr)
      /\ Linked(F, R, sm, m) /\ Zeroed(F, top, m) /\ Owned(F, m, lv, fr)
  BY DEF Layout
<1>2. /\ s \in Nat /\ HeaderSize < s /\ HeaderSize = 2 /\ top \in Nat /\ HeapStart <= top
      /\ top2 \in Nat /\ top2 <= HeapEnd /\ HeapEnd < WordSize /\ top2 = top + BlockSize
      /\ 0 < HeapStart /\ WordSize \in Nat /\ HeapStart \in Nat /\ HeapEnd \in Nat
      /\ BlockSize \in Nat
  BY <1>0, <1>1, Area, Classes DEF Typed
<1>3. /\ top \in S /\ P(top) = 0
      /\ \A c \in S : /\ c \in Nat /\ top <= c /\ c + s <= top2
                      /\ P(c) \in Nat
                      /\ \/ c + s \in S /\ P(c + s) = P(c) + 1
                         \/ c + s = top2
                      /\ \/ c = top
                         \/ c - s \in S /\ P(c - s) + 1 = P(c)
      /\ \A c, d \in S : c < d => c + s <= d
      /\ \A c, d \in S : P(c) = P(d) => c = d
      /\ \A a \in top .. top2 - 1 : \E c \in S : c <= a /\ a < c + s
  <2>1. CutUp(top, s)
    BY <1>0, <1>2, PieceFacts
  <2>2. /\ top \in S /\ P(top) = 0 /\ \A c, d \in S : c < d => c + s <= d
        /\ \A c, d \in S : P(c) = P(d) => c = d
    BY <2>1 DEF CutUp
  <2>3. ASSUME NEW c \in S
        PROVE  /\ c \in Nat /\ top <= c /\ c + s <= top2 /\ P(c) \in Nat
               /\ (c + s \in S /\ P(c + s) = P(c) + 1) \/ c + s = top2
               /\ c = top \/ (c - s \in S /\ P(c - s) + 1 = P(c))
    BY <2>1 DEF CutUp
  <2>4. ASSUME NEW a \in top .. top2 - 1 PROVE \E c \in S : c <= a /\ a < c + s
    <3>1. \A x \in top .. top + BlockSize - 1 : \E c \in Pieces(top, s) : c <= x /\ x < c + s
      BY <2>1 DEF CutUp
    <3>0. a \in top .. top + BlockSize - 1
      BY <1>2
    <3>2. PICK c \in Pieces(top, s) : c <= a /\ a < c + s
      BY <3>0, <3>1
    <3>. QED
      BY <3>2
  <2>. HIDE DEF S, P, top2
  <2>. QED
    BY <2>2, <2>3, <2>4
<1>. HIDE DEF S, P, top2
<1>4. /\ w \in [Address -> Address]
      /\ \A a \in S : w[a] = IF a + s \in S THEN a + s ELSE 0
      /\ \A a \in Address : a \notin S => w[a] = m[a]
  <2>1. S \subseteq Address /\ 0 \in Address
    BY <1>2, <1>3 DEF Address
  <2>2. w = [a \in Address |-> IF a \in S THEN IF a + s \in S THEN a + s ELSE 0 ELSE m[a]]
    BY DEF Chain, S
  <2>3. m \in [Address -> Address]
    BY <1>1 DEF Typed
  <2>. HIDE DEF w
  <2>. QED
    BY <2>1, <2>2, <2>3
<1>5. /\ DOMAIN F2 = DOMAIN F \cup S /\ DOMAIN R2 = DOMAIN F \cup S
      /\ \A c \in S : F2[c] = i /\ R2[c] = P(c)
      /\ \A c \in DOMAIN F : c \notin S => F2[c] = F[c] /\ R2[c] = R[c]
  BY DEF Joined, Placing, S, P
<1>6. /\ F2 = [c \in DOMAIN F2 |-> F2[c]] /\ R2 = [c \in DOMAIN F2 |-> R2[c]]
  BY DEF Joined, Placing
<1>7. ASSUME NEW c \in Old
      PROVE  /\ c \in Nat /\ HeapStart <= c /\ L(c) \in Nat /\ HeaderSize < L(c)
             /\ c + L(c) <= top /\ c \notin S
             /\ \A a \in c .. c + L(c) - 1 : a \in Address /\ a < top /\ a \notin S /\ w[a] = m[a]
  <2>1. c \in Nat /\ HeapStart <= c /\ L(c) \in Nat /\ HeaderSize < L(c) /\ c + L(c) <= top
    BY BlockFacts
  <2>. HIDE DEF L, w
  <2>2. ASSUME NEW a \in c .. c + L(c) - 1
        PROVE  a \in Address /\ a < top /\ a \notin S /\ w[a] = m[a]
    <3>1. a \in Nat /\ a < top /\ a \in Address
      BY <1>2, <2>1 DEF Address
    <3>2. a \notin S
      BY <1>2, <1>3, <3>1
    <3>. QED
      BY <1>4, <3>1, <3>2
  <2>3. c \in c .. c + L(c) - 1
    BY <1>2, <2>1
  <2>. QED
    BY <2>1, <2>2, <2>3
<1>8. \A c \in DOMAIN F : c \in Old /\ F[c] # i /\ F[c] \in Index /\ R[c] \in Nat /\ L(c) = ClassSize(F[c])
  <2>1. \A c \in DOMAIN F : c \in Old /\ F[c] \in Index /\ R[c] \in Nat
    BY <1>1 DEF Typed, Starts
  <2>2. \A c \in DOMAIN F : F[c] # i
    <3>1. ASSUME NEW c \in DOMAIN F, F[c] = i PROVE FALSE
      <4>1. sm[i] \in DOMAIN F
        BY <1>1, <3>1 DEF Linked
      <4>2. sm[i] \in Old
        BY <2>1, <4>1
      <4>. QED
        BY <1>2, <1>7, <4>2
    <3>. QED
      BY <3>1
  <2>. QED
    BY <2>1, <2>2 DEF Length
<1>9. Starts(F2, lv, fr) = Old \cup S
  <2>1. S \subseteq Address
    BY <1>2, <1>3 DEF Address
  <2>. QED
    BY <1>5 DEF Starts
<1>. HIDE DEF F2, R2
<1>10. \A c \in Old : L2(c) = L(c)
  <2>. SUFFICES ASSUME NEW c \in Old PROVE L2(c) = L(c)
    OBVIOUS
  <2>1. CASE c \in DOMAIN F
    BY <1>5, <1>7, <2>1 DEF Length
  <2>2. CASE c \notin DOMAIN F
    <3>1. c + 1 \in c .. c + L(c) - 1
      BY <1>2, <1>7
    <3>2. w[c + 1] = m[c + 1]
      BY <1>7, <3>1
    <3>3. c \notin DOMAIN F2
      BY <1>5, <1>7, <2>2
    <3>. QED
      BY <2>2, <3>2, <3>3 DEF Length, size
  <2>. QED
    BY <2>1, <2>2
<1>11. \A c \in S : L2(c) = s
  BY <1>0, <1>5 DEF Length
<1>12. Typed(F2, R2, top2, sm2, w, lv, fr)
  <2>1. \A c \in DOMAIN F2 : F2[c] \in Index /\ R2[c] \in Nat /\ c \in Address
    <3>. SUFFICES ASSUME NEW c \in DOMAIN F2 PROVE F2[c] \in Index /\ R2[c] \in Nat /\ c \in Address
      OBVIOUS
    <3>1. CASE c \in S
      <4>1. c \in Nat /\ c + s <= top2 /\ P(c) \in Nat
        BY <1>3, <3>1
      <4>2. c \in Address
        BY <1>2, <4>1 DEF Address
      <4>. QED
        BY <1>5, <3>1, <4>1, <4>2
    <3>2. CASE c \notin S
      <4>1. c \in DOMAIN F /\ c \in Address
        BY <1>1, <1>5, <3>2 DEF Typed
      <4>. QED
        BY <1>5, <1>8, <3>2, <4>1
    <3>. QED
      BY <3>1, <3>2
  <2>2. F2 \in [DOMAIN F2 -> Index] /\ R2 \in [DOMAIN F2 -> Nat] /\ DOMAIN F2 \subseteq Address
    BY <1>6, <2>1
  <2>3. sm2 \in [Index -> Address]
    <3>1. top \in Address
      BY <1>2, Area DEF Address
    <3>. QED
      BY <1>1, <3>1 DEF Typed
  <2>4. top2 \in HeapStart .. HeapEnd
    BY <1>2, Area
  <2>. QED
    BY <1>1, <1>4, <2>2, <2>3, <2>4 DEF Typed
<1>13. Placed(F2, top2, w, lv, fr)
  <2>1. ASSUME NEW c \in Old \cup S PROVE HeapStart <= c /\ c + L2(c) <= top2
    <3>1. CASE c \in S
      BY <1>2, <1>3, <1>11, <3>1
    <3>2. CASE c \in Old
      <4>1. c \in Nat /\ HeapStart <= c /\ L(c) \in Nat /\ c + L(c) <= top /\ L2(c) = L(c)
        BY <1>7, <1>10, <3>2
      <4>. HIDE DEF L, L2
      <4>. QED
        BY <1>2, <4>1
    <3>. QED
      BY <3>1, <3>2
  <2>2. ASSUME NEW c \in Old \cup S, NEW d \in Old \cup S, c < d PROVE c + L2(c) <= d
    <3>1. CASE c \in S /\ d \in S
      BY <1>3, <1>11, <2>2, <3>1
    <3>2. CASE c \in S /\ d \in Old
      <4>1. d \in Nat /\ L(d) \in Nat /\ d + L(d) <= top /\ c \in Nat /\ top <= c
        BY <1>3, <1>7, <3>2
      <4>. HIDE DEF L
      <4>. QED
        BY <1>2, <2>2, <4>1
    <3>3. CASE c \in Old /\ d \in S
      <4>1. c \in Nat /\ L(c) \in Nat /\ c + L(c) <= top /\ d \in Nat /\ top <= d /\ L2(c) = L(c)
        BY <1>3, <1>7, <1>10, <3>3
      <4>. HIDE DEF L, L2
      <4>. QED
        BY <1>2, <4>1
    <3>4. CASE c \in Old /\ d \in Old
      <4>1. c + L(c) <= d
        BY <1>1, <2>2, <3>4 DEF Placed
      <4>2. L2(c) = L(c)
        BY <1>10, <3>4
      <4>. HIDE DEF L, L2
      <4>. QED
        BY <4>1, <4>2
    <3>. QED
      BY <3>1, <3>2, <3>3, <3>4
  <2>3. ASSUME NEW a \in HeapStart .. top2 - 1
        PROVE  \E c \in Old \cup S : c <= a /\ a < c + L2(c)
    <3>1. a \in HeapStart .. top - 1 \/ a \in top .. top2 - 1
      BY <1>2
    <3>2. CASE a \in HeapStart .. top - 1
      <4>1. PICK c \in Old : c <= a /\ a < c + L(c)
        BY <1>1, <3>2 DEF Placed
      <4>2. L2(c) = L(c)
        BY <1>10, <4>1
      <4>. HIDE DEF L, L2, Old
      <4>. QED
        BY <4>1, <4>2
    <3>3. CASE a \in top .. top2 - 1
      <4>1. PICK c \in S : c <= a /\ a < c + s
        BY <1>3, <3>3
      <4>2. L2(c) = s
        BY <1>11, <4>1
      <4>. HIDE DEF L, L2, Old
      <4>. QED
        BY <4>1, <4>2
    <3>. QED
      BY <3>1, <3>2, <3>3
  <2>. QED
    BY <1>9, <2>1, <2>2, <2>3 DEF Placed
<1>14. Linked(F2, R2, sm2, w)
  <2>. HIDE DEF w
  <2>1. /\ \A j \in Index : \/ sm[j] = 0 /\ \A c \in DOMAIN F : F[c] # j
                            \/ sm[j] \in DOMAIN F /\ F[sm[j]] = j /\ R[sm[j]] = 0
        /\ \A c \in DOMAIN F : \/ m[c] = 0
                               \/ m[c] \in DOMAIN F /\ F[m[c]] = F[c] /\ R[m[c]] = R[c] + 1
        /\ \A c, d \in DOMAIN F : F[c] = F[d] /\ R[c] = R[d] => c = d
        /\ \A c \in DOMAIN F : \/ R[c] = 0
                               \/ \E d \in DOMAIN F : F[d] = F[c] /\ R[d] + 1 = R[c] /\ m[d] = c
    BY <1>1 DEF Linked
  <2>2. sm2[i] = top /\ \A j \in Index : j # i => sm2[j] = sm[j]
    BY <1>1 DEF Typed
  <2>. HIDE DEF sm2
  <2>3. \A c \in DOMAIN F : c \notin S /\ c \in DOMAIN F2 /\ F2[c] = F[c] /\ R2[c] = R[c] /\ w[c] = m[c]
    <3>. SUFFICES ASSUME NEW c \in DOMAIN F
                  PROVE  c \notin S /\ c \in DOMAIN F2 /\ F2[c] = F[c] /\ R2[c] = R[c] /\ w[c] = m[c]
      OBVIOUS
    <3>1. c \in Old
      BY <1>8
    <3>2. c \in c .. c + L(c) - 1
      <4>1. c \in Nat /\ L(c) \in Nat /\ HeaderSize < L(c)
        BY <1>7, <3>1
      <4>. HIDE DEF L
      <4>. QED
        BY <1>2, <4>1
    <3>3. c \notin S /\ w[c] = m[c]
      BY <1>7, <3>1, <3>2
    <3>. QED
      BY <1>5, <3>3
  <2>4. ASSUME NEW c \in DOMAIN F2, c \notin S PROVE c \in DOMAIN F
    BY <1>5, <2>4
  <2>5. ASSUME NEW j \in Index
        PROVE  \/ sm2[j] = 0 /\ \A c \in DOMAIN F2 : F2[c] # j
               \/ sm2[j] \in DOMAIN F2 /\ F2[sm2[j]] = j /\ R2[sm2[j]] = 0
    <3>1. CASE j = i
      BY <1>3, <1>5, <2>2, <3>1
    <3>2. CASE j # i /\ sm[j] = 0
      <4>1. \A c \in DOMAIN F : F[c] # j
        <5>1. ASSUME NEW c \in DOMAIN F, F[c] = j PROVE FALSE
          <6>1. sm[j] \in DOMAIN F
            BY <2>1, <5>1
          <6>. QED
            BY <1>2, <1>7, <1>8, <3>2, <6>1
        <5>. QED
          BY <5>1
      <4>. QED
        BY <1>5, <2>2, <2>3, <2>4, <3>2, <4>1
    <3>3. CASE j # i /\ sm[j] # 0
      BY <2>1, <2>2, <2>3, <3>3
    <3>. QED
      BY <3>1, <3>2, <3>3
  <2>6. ASSUME NEW c \in DOMAIN F2
        PROVE  \/ w[c] = 0
               \/ w[c] \in DOMAIN F2 /\ F2[w[c]] = F2[c] /\ R2[w[c]] = R2[c] + 1
    <3>1. CASE c \in S
      <4>1. CASE c + s \in S
        <5>1. c + s # top2 /\ c \in Nat
          <6>1. c \in Nat /\ c + s + s <= top2
            BY <1>3, <3>1, <4>1
          <6>. QED
            BY <1>2, <6>1
        <5>2. P(c + s) = P(c) + 1
          BY <1>3, <3>1, <5>1
        <5>. QED
          BY <1>4, <1>5, <3>1, <4>1, <5>2
      <4>2. CASE c + s \notin S
        BY <1>4, <3>1, <4>2
      <4>. QED
        BY <4>1, <4>2
    <3>2. CASE c \notin S
      <4>1. c \in DOMAIN F
        BY <2>4, <3>2
      <4>2. \/ m[c] = 0
            \/ m[c] \in DOMAIN F /\ F[m[c]] = F[c] /\ R[m[c]] = R[c] + 1
        BY <2>1, <4>1
      <4>. QED
        BY <2>3, <4>1, <4>2
    <3>. QED
      BY <3>1, <3>2
  <2>7. ASSUME NEW c \in DOMAIN F2, NEW d \in DOMAIN F2, F2[c] = F2[d], R2[c] = R2[d] PROVE c = d
    <3>1. CASE c \in S /\ d \in S
      BY <1>3, <1>5, <2>7, <3>1
    <3>2. CASE c \in S /\ d \notin S
      BY <1>5, <1>8, <2>3, <2>4, <2>7, <3>2
    <3>3. CASE c \notin S /\ d \in S
      BY <1>5, <1>8, <2>3, <2>4, <2>7, <3>3
    <3>4. CASE c \notin S /\ d \notin S
      BY <2>1, <2>3, <2>4, <2>7, <3>4
    <3>. QED
      BY <3>1, <3>2, <3>3, <3>4
  <2>8. ASSUME NEW c \in DOMAIN F2
        PROVE  \/ R2[c] = 0
               \/ \E d \in DOMAIN F2 : F2[d] = F2[c] /\ R2[d] + 1 = R2[c] /\ w[d] = c
    <3>1. CASE c \in S
      <4>1. CASE c = top
        BY <1>3, <1>5, <4>1
      <4>2. CASE c # top
        <5>1. PICK d \in S : d = c - s /\ P(d) + 1 = P(c) /\ d + s = c
          <6>1. c - s \in S /\ P(c - s) + 1 = P(c) /\ c \in Nat
            BY <1>3, <3>1, <4>2
          <6>2. c - s + s = c
            BY <1>2, <6>1
          <6>. QED
            BY <6>1, <6>2
        <5>2. w[d] = c
          BY <1>4, <3>1, <5>1
        <5>. QED
          BY <1>5, <3>1, <5>1, <5>2
      <4>. QED
        BY <4>1, <4>2
    <3>2. CASE c \notin S
      <4>1. c \in DOMAIN F
        BY <2>4, <3>2
      <4>2. \/ R[c] = 0
            \/ \E d \in DOMAIN F : F[d] = F[c] /\ R[d] + 1 = R[c] /\ m[d] = c
        BY <2>1, <4>1
      <4>. QED
        BY <2>3, <4>1, <4>2
    <3>. QED
      BY <3>1, <3>2
  <2>. QED
    BY <2>5, <2>6, <2>7, <2>8 DEF Linked
<1>15. Zeroed(F2, top2, w)
  <2>. HIDE DEF w
  <2>1. ASSUME NEW c \in DOMAIN F2, NEW a \in c + 1 .. c + ClassSize(F2[c]) - 1 PROVE w[a] = 0
    <3>1. CASE c \in S
      <4>1. F2[c] = i /\ c \in Nat /\ top <= c /\ c + s <= top2
        BY <1>3, <1>5, <3>1
      <4>2. a \in Nat /\ c < a /\ a < c + s /\ a \in top .. HeapEnd - 1 /\ a \in Address
        BY <1>0, <1>2, <4>1 DEF Address
      <4>3. a \notin S
        BY <1>2, <1>3, <3>1, <4>1, <4>2
      <4>4. m[a] = 0
        BY <1>1, <4>2 DEF Zeroed
      <4>. QED
        BY <1>4, <4>2, <4>3, <4>4
    <3>2. CASE c \notin S
      <4>1. c \in DOMAIN F /\ F2[c] = F[c] /\ c \in Old /\ c \in Nat /\ L(c) = ClassSize(F[c]) /\ L(c) \in Nat
        BY <1>5, <1>7, <1>8, <3>2
      <4>2. a \in c .. c + L(c) - 1 /\ a \in c + 1 .. c + ClassSize(F[c]) - 1
        <5>. HIDE DEF L
        <5>. QED
          BY <4>1
      <4>3. m[a] = 0
        BY <1>1, <4>1, <4>2 DEF Zeroed
      <4>. QED
        BY <1>7, <4>1, <4>2, <4>3
    <3>. QED
      BY <3>1, <3>2
  <2>2. ASSUME NEW a \in top2 .. HeapEnd - 1 PROVE w[a] = 0
    <3>1. a \in top .. HeapEnd - 1 /\ a \in Address /\ a \notin S
      <4>1. a \in top .. HeapEnd - 1 /\ a \in Address
        BY <1>2 DEF Address
      <4>2. a \notin S
        BY <1>2, <1>3
      <4>. QED
        BY <4>1, <4>2
    <3>2. m[a] = 0
      BY <1>1, <3>1 DEF Zeroed
    <3>. QED
      BY <1>4, <3>1, <3>2
  <2>. QED
    BY <2>1, <2>2 DEF Zeroed
<1>16. Owned(F2, w, lv, fr)
  <2>. HIDE DEF w
  <2>1. ASSUME NEW p \in DOMAIN lv \cup fr
        PROVE  /\ BLOCK_START(p) \in DOMAIN F2 <=> BLOCK_START(p) \in DOMAIN F
               /\ w[size(BLOCK_START(p))] = m[size(BLOCK_START(p))]
    <3>1. BLOCK_START(p) \in Old
      BY HeldFacts
    <3>2. PICK c \in Old : c = BLOCK_START(p)
      BY <3>1
    <3>3. c + 1 \in c .. c + L(c) - 1
      <4>1. c \in Nat /\ L(c) \in Nat /\ HeaderSize < L(c)
        BY <1>7
      <4>. HIDE DEF L
      <4>. QED
        BY <1>2, <4>1
    <3>4. c \notin S /\ w[c + 1] = m[c + 1]
      BY <1>7, <3>3
    <3>. QED
      BY <1>5, <3>2, <3>4 DEF size
  <2>. QED
    BY <1>1, <2>1 DEF Owned
<1>. QED
  BY <1>0, <1>12, <1>13, <1>14, <1>15, <1>16 DEF Layout, top2, F2, R2

-----------------------------------------------------------------------------
(* Whole pages are handed out: the block is the first that is not cut yet. *)
LEMMA PagesLayout ==
  ASSUME NEW F, NEW R, NEW top, NEW sm, NEW m, NEW lv, NEW fr,
         Layout(F, R, top, sm, m, lv, fr), NEW s \in Nat, s > MaxSmall, top + s <= HeapEnd,
         NEW n \in Nat, n + HeaderSize <= s
  PROVE  /\ Layout(F, R, top + s, sm, [m EXCEPT ![size(top)] = s],
                   Given(lv, BLOCK_RET(top), n), fr \ {BLOCK_RET(top)})
         /\ BLOCK_RET(top) = top + 2 /\ top + 2 \notin DOMAIN lv \cup fr
         /\ Elsewhere(F, m, lv, fr, top, [m EXCEPT ![size(top)] = s])
<1>. DEFINE w == [m EXCEPT ![size(top)] = s]
            lv2 == Given(lv, BLOCK_RET(top), n)
            fr2 == fr \ {BLOCK_RET(top)}
            top2 == top + s
            Old == Starts(F, lv, fr)
            L(c) == Length(F, m, c)
            L2(c) == Length(F, w, c)
<1>1. /\ Typed(F, R, top, sm, m, lv, fr) /\ Placed(F, top, m, lv, fr)
      /\ Linked(F, R, sm, m) /\ Zeroed(F, top, m) /\ Owned(F, m, lv, fr)
  BY DEF Layout
<1>2. /\ HeaderSize < s /\ HeaderSize = 2 /\ top \in Nat /\ HeapStart <= top
      /\ top2 \in Nat /\ top2 <= HeapEnd /\ HeapEnd < WordSize /\ top2 = top + s
      /\ 0 < HeapStart /\ WordSize \in Nat /\ HeapStart \in Nat /\ HeapEnd \in Nat
      /\ top \in Address /\ top + 1 \in Address /\ s \in Address /\ MaxSmall \in Nat
      /\ BLOCK_RET(top) = top + 2 /\ BLOCK_START(top + 2) = top
  <2>1. top \in HeapStart .. HeapEnd
    BY <1>1 DEF Typed
  <2>2. BLOCK_RET(top) = top + 2 /\ BLOCK_START(top + 2) = top
    BY <2>1, Area DEF BLOCK_RET, BLOCK_START
  <2>. QED
    BY <2>1, <2>2, Area DEF Address
<1>. HIDE DEF top2
<1>3. /\ w \in [Address -> Address] /\ w[top + 1] = s
      /\ \A a \in Address : a # top + 1 => w[a] = m[a]
  BY <1>1, <1>2 DEF Typed, size
<1>4. ASSUME NEW c \in Old
      PROVE  /\ c \in Nat /\ HeapStart <= c /\ L(c) \in Nat /\ HeaderSize < L(c)
             /\ c + L(c) <= top /\ c # top /\ c + 1 \in c .. c + L(c) - 1
             /\ c \in c .. c + L(c) - 1
             /\ \A a \in c .. c + L(c) - 1 : a \in Address /\ w[a] = m[a]
  <2>1. c \in Nat /\ HeapStart <= c /\ L(c) \in Nat /\ HeaderSize < L(c) /\ c + L(c) <= top
    BY BlockFacts
  <2>. HIDE DEF L, w
  <2>2. ASSUME NEW a \in c .. c + L(c) - 1 PROVE a \in Address /\ w[a] = m[a]
    <3>1. a \in Address /\ a # top + 1
      BY <1>2, <2>1 DEF Address
    <3>. QED
      BY <1>3, <3>1
  <2>3. c # top /\ c + 1 \in c .. c + L(c) - 1 /\ c \in c .. c + L(c) - 1
    BY <1>2, <2>1
  <2>. QED
    BY <2>1, <2>2, <2>3
<1>5. top + 2 \notin DOMAIN lv \cup fr /\ top \notin DOMAIN F
  <2>1. ASSUME top + 2 \in DOMAIN lv \cup fr PROVE FALSE
    <3>1. BLOCK_START(top + 2) \in Old
      BY <2>1, HeldFacts
    <3>. QED
      BY <1>2, <1>4, <3>1
  <2>2. ASSUME top \in DOMAIN F PROVE FALSE
    <3>1. top \in Old
      BY <2>2 DEF Starts
    <3>. QED
      BY <1>4, <3>1
  <2>. QED
    BY <2>1, <2>2
<1>6. /\ DOMAIN lv2 = DOMAIN lv \cup {top + 2} /\ lv2[top + 2] = n
      /\ \A p \in DOMAIN lv : lv2[p] = lv[p]
      /\ fr2 = fr
  BY <1>2, <1>5 DEF Given
<1>7. Starts(F, lv2, fr2) = Old \cup {top}
  <2>1. \A c \in Address : BLOCK_RET(c) = top + 2 <=> c = top
    BY <1>2 DEF BLOCK_RET, Address
  <2>. QED
    BY <1>2, <1>6, <2>1 DEF Starts
<1>8. \A c \in Old : L2(c) = L(c)
  BY <1>4 DEF Length, size
<1>9. L2(top) = s
  BY <1>3, <1>5 DEF Length, size
<1>10. Typed(F, R, top2, sm, w, lv2, fr2)
  <2>1. lv2 \in [DOMAIN lv2 -> Nat]
    <3>1. \A p \in DOMAIN lv : lv[p] \in Nat
      BY <1>1 DEF Typed
    <3>. QED
      BY <3>1 DEF Given
  <2>2. top + 2 \in HeaderSize .. WordSize - 1 /\ top2 \in HeapStart .. HeapEnd
    BY <1>2
  <2>3. DOMAIN lv2 \cup fr2 \subseteq HeaderSize .. WordSize - 1 /\ fr2 \cap DOMAIN lv2 = {}
    BY <1>1, <1>5, <1>6, <2>2 DEF Typed
  <2>. QED
    BY <1>1, <1>3, <2>1, <2>2, <2>3 DEF Typed
<1>. HIDE DEF lv2, fr2
<1>11. Placed(F, top2, w, lv2, fr2)
  <2>0. \A c \in Old : /\ c \in Nat /\ HeapStart <= c /\ L(c) \in Nat /\ c + L(c) <= top
                       /\ c < top
    <3>1. ASSUME NEW c \in Old
          PROVE  c \in Nat /\ HeapStart <= c /\ L(c) \in Nat /\ c + L(c) <= top /\ c < top
      <4>1. c \in Nat /\ HeapStart <= c /\ L(c) \in Nat /\ c + L(c) <= top /\ HeaderSize < L(c)
        BY <1>4
      <4>. HIDE DEF L
      <4>. QED
        BY <1>2, <4>1
    <3>. QED
      BY <3>1
  <2>1. /\ \A c, d \in Old : c < d => c + L(c) <= d
        /\ \A a \in HeapStart .. top - 1 : \E c \in Old : c <= a /\ a < c + L(c)
    BY <1>1 DEF Placed
  <2>. HIDE DEF L, L2, Old
  <2>2. ASSUME NEW c \in Old \cup {top} PROVE HeapStart <= c /\ c + L2(c) <= top2
    <3>1. CASE c = top
      BY <1>2, <1>9, <3>1
    <3>2. CASE c # top
      BY <1>2, <1>8, <2>0, <3>2
    <3>. QED
      BY <3>1, <3>2
  <2>3. ASSUME NEW c \in Old \cup {top}, NEW d \in Old \cup {top}, c < d PROVE c + L2(c) <= d
    <3>1. CASE c = top
      BY <1>2, <2>0, <2>3, <3>1
    <3>2. CASE c # top /\ d = top
      BY <1>8, <2>0, <3>2
    <3>3. CASE c # top /\ d # top
      BY <1>8, <2>1, <2>3, <3>3
    <3>. QED
      BY <3>1, <3>2, <3>3
  <2>4. ASSUME NEW a \in HeapStart .. top2 - 1
        PROVE  \E c \in Old \cup {top} : c <= a /\ a < c + L2(c)
    <3>1. CASE a < top
      <4>1. a \in HeapStart .. top - 1
        BY <1>2, <3>1
      <4>. QED
        BY <1>8, <2>1, <4>1
    <3>2. CASE ~(a < top)
      BY <1>2, <1>9, <3>2
    <3>. QED
      BY <3>1, <3>2
  <2>. QED
    BY <1>7, <2>2, <2>3, <2>4 DEF Placed, L2
<1>12. \A c \in DOMAIN F : /\ c \in Old /\ L(c) = ClassSize(F[c])
                           /\ \A a \in c .. c + ClassSize(F[c]) - 1 : w[a] = m[a]
  <2>1. \A c \in DOMAIN F : c \in Old /\ L(c) = ClassSize(F[c])
    BY <1>1 DEF Typed, Starts, Length
  <2>. QED
    BY <1>4, <2>1
<1>13. Linked(F, R, sm, w)
  <2>1. \A c \in DOMAIN F : w[c] = m[c]
    BY <1>4, <1>12
  <2>. QED
    BY <1>1, <2>1 DEF Linked
<1>14. Zeroed(F, top2, w)
  <2>1. ASSUME NEW c \in DOMAIN F, NEW a \in c + 1 .. c + ClassSize(F[c]) - 1 PROVE w[a] = 0
    <3>1. m[a] = 0
      BY <1>1 DEF Zeroed
    <3>2. c \in Nat /\ ClassSize(F[c]) \in Nat
      <4>1. F[c] \in Index /\ c \in Old
        BY <1>1, <1>12 DEF Typed
      <4>. QED
        BY <1>4, <4>1, Classes
    <3>3. a \in c .. c + ClassSize(F[c]) - 1
      BY <3>2
    <3>. QED
      BY <1>12, <3>1, <3>3
  <2>2. ASSUME NEW a \in top2 .. HeapEnd - 1 PROVE w[a] = 0
    <3>1. a \in top .. HeapEnd - 1 /\ a \in Address /\ a # top + 1
      BY <1>2 DEF Address
    <3>. QED
      BY <1>1, <1>3, <3>1 DEF Zeroed
  <2>. QED
    BY <2>1, <2>2 DEF Zeroed
<1>15. Owned(F, w, lv2, fr2)
  <2>1. ASSUME NEW p \in DOMAIN lv \cup fr
        PROVE  w[size(BLOCK_START(p))] = m[size(BLOCK_START(p))]
    <3>1. PICK c \in Old : c = BLOCK_START(p)
      BY HeldFacts
    <3>. QED
      BY <1>4, <3>1 DEF size
  <2>2. BLOCK_START(top + 2) = top /\ w[size(top)] = s
    BY <1>2, <1>3 DEF size
  <2>. HIDE DEF w
  <2>3. ASSUME NEW p \in DOMAIN lv2
        PROVE  /\ BLOCK_START(p) \notin DOMAIN F
               /\ \/ w[size(BLOCK_START(p))] > MaxSmall
                  \/ \E j \in Index : w[size(BLOCK_START(p))] = ClassSize(j)
               /\ lv2[p] + HeaderSize <= w[size(BLOCK_START(p))]
    <3>1. CASE p = top + 2
      BY <1>5, <1>6, <2>2, <3>1
    <3>2. CASE p # top + 2
      BY <1>1, <1>6, <2>1, <3>2 DEF Owned
    <3>. QED
      BY <3>1, <3>2
  <2>. QED
    BY <1>1, <1>6, <2>1, <2>3 DEF Owned
<1>16. Layout(F, R, top2, sm, w, lv2, fr2)
  BY <1>10, <1>11, <1>13, <1>14, <1>15 DEF Layout
<1>. QED
  BY <1>2, <1>4, <1>5, <1>16 DEF top2, lv2, fr2, Elsewhere

-----------------------------------------------------------------------------
(* A small block of list i is put back, before the first of the list. *)
Returned(F, b, i) == [c \in DOMAIN F \cup {b} |-> IF c = b THEN i ELSE F[c]]
MovedDown(F, R, b, i) ==
  [c \in DOMAIN F \cup {b} |-> IF c = b THEN 0 ELSE IF F[c] = i THEN R[c] + 1 ELSE R[c]]
Cleared(m, b, s, head) ==
  [a \in Address |-> IF a = next(b) THEN head ELSE IF a \in b .. b + s - 1 THEN 0 ELSE m[a]]
Dropped(lv, p) == [q \in DOMAIN lv \ {p} |-> lv[q]]

LEMMA FreeLayout ==
  ASSUME NEW F, NEW R, NEW top, NEW sm, NEW m, NEW lv, NEW fr,
         Layout(F, R, top, sm, m, lv, fr), NEW p \in DOMAIN lv, NEW b, b = BLOCK_START(p),
         NEW i \in Index, m[size(b)] = ClassSize(i)
  PROVE  /\ Layout(Returned(F, b, i), MovedDown(F, R, b, i), top, [sm EXCEPT ![i] = b],
                   Cleared(m, b, ClassSize(i), sm[i]), Dropped(lv, p), fr \cup {p})
         /\ Elsewhere(F, m, lv, fr, b, Cleared(m, b, ClassSize(i), sm[i]))
<1>. DEFINE w == Cleared(m, b, ClassSize(i), sm[i])
            F2 == Returned(F, b, i)
            R2 == MovedDown(F, R, b, i)
            sm2 == [sm EXCEPT ![i] = b]
            lv2 == Dropped(lv, p)
            fr2 == fr \cup {p}
            Old == Starts(F, lv, fr)
            L(c) == Length(F, m, c)
            L2(c) == Length(F2, w, c)
<1>1. /\ Typed(F, R, top, sm, m, lv, fr) /\ Placed(F, top, m, lv, fr)
      /\ Linked(F, R, sm, m) /\ Zeroed(F, top, m) /\ Owned(F, m, lv, fr)
  BY DEF Layout
<1>0. PICK s : s = ClassSize(i)
  OBVIOUS
<1>2. /\ b \in Old /\ b \notin DOMAIN F /\ L(b) = s /\ p = b + 2 /\ p \in Nat
      /\ b \in Nat /\ HeapStart <= b /\ s \in Nat /\ HeaderSize < s /\ b + s <= top
      /\ top \in Nat /\ top <= HeapEnd /\ b \in Address /\ b + 1 \in Address
  <2>1. b \in Old /\ p = b + 2 /\ p \in Nat /\ b \notin DOMAIN F /\ L(b) = s
    BY <1>0, HeldFacts
  <2>. HIDE DEF Old, L
  <2>2. /\ b \in Nat /\ HeapStart <= b /\ b + L(b) <= top
        /\ top \in Nat /\ top <= HeapEnd /\ b \in Address /\ b + 1 \in Address
    BY <2>1, BlockFacts DEF L, Old
  <2>. QED
    BY <1>0, <2>1, <2>2, Classes
<1>3. /\ HeaderSize = 2 /\ HeapEnd < WordSize /\ HeapEnd \in Nat /\ WordSize \in Nat
      /\ HeapStart \in Nat /\ 0 < HeapStart
  BY Area
<1>4. /\ w \in [Address -> Address] /\ w[b] = sm[i]
      /\ \A a \in b + 1 .. b + s - 1 : w[a] = 0
      /\ \A a \in Address : a \notin b .. b + s - 1 => w[a] = m[a]
  <2>1. sm[i] \in Address /\ 0 \in Address /\ m \in [Address -> Address]
    BY <1>1, <1>3 DEF Typed, Address
  <2>2. w = [a \in Address |-> IF a = b THEN sm[i] ELSE IF a \in b .. b + s - 1 THEN 0 ELSE m[a]]
    BY <1>0 DEF Cleared, next
  <2>. HIDE DEF w
  <2>3. \A a \in b + 1 .. b + s - 1 : a \in Address /\ a # b /\ a \in b .. b + s - 1
    BY <1>2, <1>3 DEF Address
  <2>4. \A a \in Address : a \notin b .. b + s - 1 => a # b
    BY <1>2, <1>3
  <2>5. w \in [Address -> Address]
    BY <2>1, <2>2
  <2>6. w[b] = sm[i]
    BY <1>2, <2>2
  <2>7. \A a \in b + 1 .. b + s - 1 : w[a] = 0
    BY <2>2, <2>3
  <2>8. \A a \in Address : a \notin b .. b + s - 1 => w[a] = m[a]
    BY <2>2, <2>4
  <2>. QED
    BY <2>5, <2>6, <2>7, <2>8
<1>. HIDE DEF w
<1>5. ASSUME NEW c \in Old, c # b
      PROVE  /\ c \in Nat /\ L(c) \in Nat /\ HeaderSize < L(c) /\ HeapStart <= c
             /\ c \in c .. c + L(c) - 1 /\ c + 1 \in c .. c + L(c) - 1
             /\ \A a \in c .. c + L(c) - 1 : a \in Address /\ w[a] = m[a]
  <2>1. c \in Nat /\ L(c) \in Nat /\ HeaderSize < L(c) /\ HeapStart <= c /\ c + L(c) <= top
    BY BlockFacts
  <2>2. \A a \in c .. c + L(c) - 1 : a \notin b .. b + L(b) - 1
    BY <1>2, <1>5, WordsApart
  <2>. HIDE DEF L
  <2>3. \A a \in c .. c + L(c) - 1 : a \in Address
    BY <1>2, <1>3, <2>1 DEF Address
  <2>4. c \in c .. c + L(c) - 1 /\ c + 1 \in c .. c + L(c) - 1
    BY <1>3, <2>1
  <2>. QED
    BY <1>2, <1>4, <2>1, <2>2, <2>3, <2>4
<1>6. /\ DOMAIN F2 = DOMAIN F \cup {b} /\ DOMAIN R2 = DOMAIN F \cup {b}
      /\ F2[b] = i /\ R2[b] = 0
      /\ \A c \in DOMAIN F : F2[c] = F[c] /\ R2[c] = IF F[c] = i THEN R[c] + 1 ELSE R[c]
      /\ F2 = [c \in DOMAIN F2 |-> F2[c]] /\ R2 = [c \in DOMAIN F2 |-> R2[c]]
  BY <1>2 DEF Returned, MovedDown
<1>. HIDE DEF F2, R2
<1>7. ASSUME NEW c \in DOMAIN F PROVE c \in Old /\ c # b /\ F[c] \in Index /\ R[c] \in Nat /\ L(c) = ClassSize(F[c])
  BY <1>1, <1>2 DEF Typed, Starts, Length
<1>8. /\ DOMAIN lv2 = DOMAIN lv \ {p} /\ \A q \in DOMAIN lv2 : lv2[q] = lv[q]
      /\ lv2 = [q \in DOMAIN lv2 |-> lv2[q]]
  BY DEF Dropped
<1>. HIDE DEF lv2
<1>9. Typed(F2, R2, top, sm2, w, lv2, fr2)
  <2>1. \A c \in DOMAIN F2 : F2[c] \in Index /\ R2[c] \in Nat /\ c \in Address
    <3>1. ASSUME NEW c \in DOMAIN F2 PROVE F2[c] \in Index /\ R2[c] \in Nat /\ c \in Address
      <4>1. CASE c = b
        BY <1>2, <1>6, <4>1
      <4>2. CASE c # b
        <5>1. c \in DOMAIN F /\ c \in Address
          BY <1>1, <1>6, <4>2 DEF Typed
        <5>. QED
          BY <1>6, <1>7, <5>1
      <4>. QED
        BY <4>1, <4>2
    <3>. QED
      BY <3>1
  <2>2. F2 \in [DOMAIN F2 -> Index] /\ R2 \in [DOMAIN F2 -> Nat] /\ DOMAIN F2 \subseteq Address
    BY <1>6, <2>1
  <2>3. sm2 \in [Index -> Address]
    BY <1>1, <1>2 DEF Typed
  <2>4. lv2 \in [DOMAIN lv2 -> Nat]
    <3>1. \A q \in DOMAIN lv : lv[q] \in Nat
      BY <1>1 DEF Typed
    <3>. QED
      BY <1>8, <3>1
  <2>5. DOMAIN lv2 \cup fr2 \subseteq HeaderSize .. WordSize - 1 /\ fr2 \cap DOMAIN lv2 = {}
    BY <1>1, <1>8 DEF Typed
  <2>6. top \in HeapStart .. HeapEnd
    BY <1>1 DEF Typed
  <2>. QED
    BY <1>4, <2>2, <2>3, <2>4, <2>5, <2>6 DEF Typed
<1>10. Starts(F2, lv2, fr2) = Old
  <2>1. DOMAIN lv2 \cup fr2 = DOMAIN lv \cup fr
    BY <1>8
  <2>. QED
    BY <1>2, <1>6, <2>1 DEF Starts
<1>11. \A c \in Old : L2(c) = L(c)
  <2>. SUFFICES ASSUME NEW c \in Old PROVE L2(c) = L(c)
    OBVIOUS
  <2>1. CASE c = b
    BY <1>0, <1>2, <1>6, <2>1 DEF Length
  <2>2. CASE c # b /\ c \in DOMAIN F
    BY <1>6, <2>2 DEF Length
  <2>3. CASE c # b /\ c \notin DOMAIN F
    <3>1. w[c + 1] = m[c + 1]
      BY <1>5, <2>3
    <3>. QED
      BY <1>6, <2>3, <3>1 DEF Length, size
  <2>. QED
    BY <2>1, <2>2, <2>3
<1>12. Placed(F2, top, w, lv2, fr2)
  <2>. HIDE DEF fr2
  <2>. QED
    BY <1>1, <1>10, <1>11, SameBlocks
<1>13. \A c \in DOMAIN F : w[c] = m[c]
  BY <1>5, <1>7
<1>14. Linked(F2, R2, sm2, w)
  <2>1. /\ \A j \in Index : \/ sm[j] = 0 /\ \A c \in DOMAIN F : F[c] # j
                            \/ sm[j] \in DOMAIN F /\ F[sm[j]] = j /\ R[sm[j]] = 0
        /\ \A c \in DOMAIN F : \/ m[c] = 0
                               \/ m[c] \in DOMAIN F /\ F[m[c]] = F[c] /\ R[m[c]] = R[c] + 1
        /\ \A c, d \in DOMAIN F : F[c] = F[d] /\ R[c] = R[d] => c = d
        /\ \A c \in DOMAIN F : \/ R[c] = 0
                               \/ \E d \in DOMAIN F : F[d] = F[c] /\ R[d] + 1 = R[c] /\ m[d] = c
    BY <1>1 DEF Linked
  <2>2. sm2[i] = b /\ \A j \in Index : j # i => sm2[j] = sm[j]
    BY <1>1 DEF Typed
  <2>. HIDE DEF sm2
  <2>3. ASSUME NEW c \in DOMAIN F2, c # b PROVE c \in DOMAIN F
    BY <1>6, <2>3
  <2>4. ASSUME NEW j \in Index
        PROVE  \/ sm2[j] = 0 /\ \A c \in DOMAIN F2 : F2[c] # j
               \/ sm2[j] \in DOMAIN F2 /\ F2[sm2[j]] = j /\ R2[sm2[j]] = 0
    <3>1. CASE j = i
      BY <1>6, <2>2, <3>1
    <3>2. CASE j # i /\ sm[j] = 0
      <4>1. \A c \in DOMAIN F : F[c] # j
        <5>1. ASSUME NEW c \in DOMAIN F, F[c] = j PROVE FALSE
          <6>1. sm[j] \in DOMAIN F
            BY <2>1, <5>1
          <6>2. sm[j] \in Old /\ sm[j] # b
            BY <1>7, <6>1
          <6>3. sm[j] \in Nat /\ HeapStart <= sm[j]
            BY <1>5, <6>2
          <6>. QED
            BY <1>3, <3>2, <6>3
        <5>. QED
          BY <5>1
      <4>. QED
        BY <1>6, <2>2, <2>3, <3>2, <4>1
    <3>3. CASE j # i /\ sm[j] # 0
      BY <1>6, <2>1, <2>2, <3>3
    <3>. QED
      BY <3>1, <3>2, <3>3
  <2>5. ASSUME NEW c \in DOMAIN F2
        PROVE  \/ w[c] = 0
               \/ w[c] \in DOMAIN F2 /\ F2[w[c]] = F2[c] /\ R2[w[c]] = R2[c] + 1
    <3>1. CASE c = b
      <4>1. w[c] = sm[i]
        BY <1>4, <3>1
      <4>2. CASE sm[i] = 0
        BY <4>1, <4>2
      <4>3. CASE sm[i] # 0
        BY <1>6, <2>1, <3>1, <4>1, <4>3
      <4>. QED
        BY <4>2, <4>3
    <3>2. CASE c # b
      <4>1. c \in DOMAIN F /\ w[c] = m[c] /\ R[c] \in Nat
        BY <1>7, <1>13, <2>3, <3>2
      <4>2. \/ m[c] = 0
            \/ m[c] \in DOMAIN F /\ F[m[c]] = F[c] /\ R[m[c]] = R[c] + 1
        BY <2>1, <4>1
      <4>. QED
        BY <1>6, <4>1, <4>2
    <3>. QED
      BY <3>1, <3>2
  <2>6. ASSUME NEW c \in DOMAIN F2, NEW d \in DOMAIN F2, F2[c] = F2[d], R2[c] = R2[d] PROVE c = d
    <3>1. \A e \in DOMAIN F : F[e] = i => R2[e] # 0
      BY <1>6, <1>7
    <3>2. CASE c = b
      BY <1>6, <2>3, <2>6, <3>1, <3>2
    <3>3. CASE d = b
      BY <1>6, <2>3, <2>6, <3>1, <3>3
    <3>4. CASE c # b /\ d # b
      <4>1. c \in DOMAIN F /\ d \in DOMAIN F /\ F[c] = F[d] /\ R[c] \in Nat /\ R[d] \in Nat
        BY <1>6, <1>7, <2>3, <2>6, <3>4
      <4>2. R[c] = R[d]
        BY <1>6, <2>6, <4>1
      <4>. QED
        BY <2>1, <4>1, <4>2
    <3>. QED
      BY <3>2, <3>3, <3>4
  <2>7. ASSUME NEW c \in DOMAIN F2
        PROVE  \/ R2[c] = 0
               \/ \E d \in DOMAIN F2 : F2[d] = F2[c] /\ R2[d] + 1 = R2[c] /\ w[d] = c
    <3>1. CASE c = b
      BY <1>6, <3>1
    <3>2. CASE c # b /\ F[c] = i /\ R[c] = 0
      <4>1. c \in DOMAIN F
        BY <2>3, <3>2
      <4>2. sm[i] = c
        BY <2>1, <3>2, <4>1
      <4>3. F2[b] = F2[c] /\ R2[b] + 1 = R2[c] /\ w[b] = c
        BY <1>4, <1>6, <3>2, <4>1, <4>2
      <4>. QED
        BY <1>6, <4>3
    <3>3. CASE c # b /\ ~(F[c] = i /\ R[c] = 0)
      <4>1. c \in DOMAIN F /\ R[c] \in Nat
        BY <1>7, <2>3, <3>3
      <4>2. CASE R[c] = 0
        BY <1>6, <3>3, <4>1, <4>2
      <4>3. CASE R[c] # 0
        <5>1. PICK d \in DOMAIN F : F[d] = F[c] /\ R[d] + 1 = R[c] /\ m[d] = c
          BY <2>1, <4>1, <4>3
        <5>2. R[d] \in Nat /\ w[d] = c /\ d \in DOMAIN F2
          BY <1>6, <1>7, <1>13, <5>1
        <5>3. F2[d] = F2[c] /\ R2[d] + 1 = R2[c]
          BY <1>6, <4>1, <5>1, <5>2
        <5>. QED
          BY <5>2, <5>3
      <4>. QED
        BY <4>2, <4>3
    <3>. QED
      BY <3>1, <3>2, <3>3
  <2>. QED
    BY <2>4, <2>5, <2>6, <2>7 DEF Linked
<1>15. Zeroed(F2, top, w)
  <2>1. ASSUME NEW c \in DOMAIN F2, NEW a \in c + 1 .. c + ClassSize(F2[c]) - 1 PROVE w[a] = 0
    <3>1. CASE c = b
      BY <1>0, <1>4, <1>6, <3>1
    <3>2. CASE c # b
      <4>1. c \in DOMAIN F /\ F2[c] = F[c] /\ c \in Old /\ L(c) = ClassSize(F[c])
        BY <1>6, <1>7, <3>2
      <4>2. c \in Nat /\ L(c) \in Nat
        BY <1>5, <3>2, <4>1
      <4>3. a \in c .. c + L(c) - 1 /\ a \in c + 1 .. c + ClassSize(F[c]) - 1
        <5>. HIDE DEF L
        <5>. QED
          BY <4>1, <4>2
      <4>4. m[a] = 0
        BY <1>1, <4>1, <4>3 DEF Zeroed
      <4>. QED
        BY <1>5, <3>2, <4>1, <4>3, <4>4
    <3>. QED
      BY <3>1, <3>2
  <2>2. ASSUME NEW a \in top .. HeapEnd - 1 PROVE w[a] = 0
    <3>1. a \in Address /\ a \notin b .. b + s - 1
      BY <1>2, <1>3 DEF Address
    <3>. QED
      BY <1>1, <1>4, <3>1 DEF Zeroed
  <2>. QED
    BY <2>1, <2>2 DEF Zeroed
<1>16. Owned(F2, w, lv2, fr2)
  <2>1. ASSUME NEW q \in DOMAIN lv \cup fr, q # p
        PROVE  /\ BLOCK_START(q) # b
               /\ w[size(BLOCK_START(q))] = m[size(BLOCK_START(q))]
    <3>1. PICK c \in Old : c = BLOCK_START(q) /\ q = c + 2
      BY HeldFacts
    <3>2. c # b
      BY <1>2, <2>1, <3>1
    <3>. QED
      BY <1>5, <3>1, <3>2 DEF size
  <2>2. \A q \in DOMAIN lv2 : q \in DOMAIN lv /\ q # p /\ lv2[q] = lv[q]
    BY <1>8
  <2>3. \A q \in fr : q # p
    BY <1>1 DEF Typed
  <2>. HIDE DEF fr2
  <2>4. ASSUME NEW q \in DOMAIN lv2
        PROVE  /\ BLOCK_START(q) \notin DOMAIN F2
               /\ \/ w[size(BLOCK_START(q))] > MaxSmall
                  \/ \E j \in Index : w[size(BLOCK_START(q))] = ClassSize(j)
               /\ lv2[q] + HeaderSize <= w[size(BLOCK_START(q))]
    BY <1>1, <1>6, <2>1, <2>2 DEF Owned
  <2>5. ASSUME NEW q \in fr2
        PROVE  BLOCK_START(q) \in DOMAIN F2 \/ w[size(BLOCK_START(q))] > MaxSmall
    <3>1. CASE q = p
      BY <1>6, <3>1
    <3>2. CASE q # p
      BY <1>1, <1>6, <2>1, <3>2 DEF Owned, fr2
    <3>. QED
      BY <3>1, <3>2
  <2>. QED
    BY <2>4, <2>5 DEF Owned
<1>17. Layout(F2, R2, top, sm2, w, lv2, fr2)
  BY <1>9, <1>12, <1>14, <1>15, <1>16 DEF Layout
<1>. QED
  BY <1>5, <1>17 DEF F2, R2, w, lv2, Elsewhere

(* A large block is given up, and nothing else happens. *)
LEMMA DropLayout ==
  ASSUME NEW F, NEW R, NEW top, NEW sm, NEW m, NEW lv, NEW fr,
         Layout(F, R, top, sm, m, lv, fr), NEW p \in DOMAIN lv,
         m[size(BLOCK_START(p))] > MaxSmall
  PROVE  Layout(F, R, top, sm, m, Dropped(lv, p), fr \cup {p})
<1>. DEFINE lv2 == Dropped(lv, p)
            fr2 == fr \cup {p}
<1>1. /\ Typed(F, R, top, sm, m, lv, fr) /\ Placed(F, top, m, lv, fr)
      /\ Linked(F, R, sm, m) /\ Zeroed(F, top, m) /\ Owned(F, m, lv, fr)
  BY DEF Layout
<1>2. /\ DOMAIN lv2 = DOMAIN lv \ {p} /\ \A q \in DOMAIN lv2 : lv2[q] = lv[q]
      /\ lv2 = [q \in DOMAIN lv2 |-> lv2[q]] /\ \A q \in DOMAIN lv : lv[q] \in Nat
  BY <1>1 DEF Dropped, Typed
<1>. HIDE DEF lv2
<1>3. Typed(F, R, top, sm, m, lv2, fr2)
  <2>1. lv2 \in [DOMAIN lv2 -> Nat]
    BY <1>2
  <2>2. DOMAIN lv2 \cup fr2 \subseteq HeaderSize .. WordSize - 1 /\ fr2 \cap DOMAIN lv2 = {}
    BY <1>1, <1>2 DEF Typed
  <2>. QED
    BY <1>1, <2>1, <2>2 DEF Typed
<1>4. Starts(F, lv2, fr2) = Starts(F, lv, fr)
  BY <1>2 DEF Starts
<1>5. Placed(F, top, m, lv2, fr2)
  <2>. HIDE DEF fr2
  <2>. QED
    BY <1>1, <1>4, SameBlocks
<1>6. Owned(F, m, lv2, fr2)
  BY <1>1, <1>2 DEF Owned
<1>. QED
  BY <1>1, <1>3, <1>5, <1>6 DEF Layout, lv2

(* A caller writes into the block it holds. *)
Filled(m, p, n) == [a \in Address |-> IF a \in p .. p + n - 1 THEN Dirt ELSE m[a]]

LEMMA WriteLayout ==
  ASSUME NEW F, NEW R, NEW top, NEW sm, NEW m, NEW lv, NEW fr,
         Layout(F, R, top, sm, m, lv, fr), NEW p \in DOMAIN lv
  PROVE  /\ Layout(F, R, top, sm, Filled(m, p, lv[p]), lv, fr)
         /\ Elsewhere(F, m, lv, fr, BLOCK_START(p), Filled(m, p, lv[p]))
<1>. DEFINE w == Filled(m, p, lv[p])
            b == BLOCK_START(p)
            n == lv[p]
            Old == Starts(F, lv, fr)
            L(c) == Length(F, m, c)
<1>1. /\ Typed(F, R, top, sm, m, lv, fr) /\ Placed(F, top, m, lv, fr)
      /\ Linked(F, R, sm, m) /\ Zeroed(F, top, m) /\ Owned(F, m, lv, fr)
  BY DEF Layout
<1>2. /\ b \in Old /\ b \notin DOMAIN F /\ p = b + 2 /\ p \in Nat /\ n \in Nat
      /\ p + n <= b + L(b)
  BY HeldFacts
<1>3. /\ b \in Nat /\ L(b) \in Nat /\ HeaderSize < L(b) /\ b + L(b) <= top
      /\ top \in Nat /\ top <= HeapEnd /\ b + 1 \in Address /\ b \in Address
  BY <1>2, BlockFacts
<1>4. HeaderSize = 2 /\ HeapEnd < WordSize /\ HeapEnd \in Nat /\ WordSize \in Nat
  BY Area
<1>5. /\ w \in [Address -> Address]
      /\ \A a \in Address : a \notin p .. p + n - 1 => w[a] = m[a]
  <2>1. Dirt \in Address /\ m \in [Address -> Address]
    BY <1>1, <1>3, <1>4 DEF Typed, Dirt, Address
  <2>. QED
    BY <2>1 DEF Filled
<1>. HIDE DEF w, b, n
<1>6. \A c \in Old : c # b => \A a \in c .. c + L(c) - 1 : w[a] = m[a]
  <2>. SUFFICES ASSUME NEW c \in Old, c # b, NEW a \in c .. c + L(c) - 1 PROVE w[a] = m[a]
    OBVIOUS
  <2>1. c \in Nat /\ L(c) \in Nat /\ c + L(c) <= top
    BY BlockFacts
  <2>2. a \notin b .. b + L(b) - 1
    BY <1>2, WordsApart
  <2>. HIDE DEF L
  <2>3. a \in Address /\ a \notin p .. p + n - 1
    BY <1>2, <1>3, <1>4, <2>1, <2>2 DEF Address
  <2>. QED
    BY <1>5, <2>3
<1>7. \A c \in DOMAIN F : /\ c \in Old /\ c # b /\ L(c) = ClassSize(F[c]) /\ F[c] \in Index
  BY <1>1, <1>2 DEF Typed, Starts, Length
<1>8. w[b + 1] = m[b + 1]
  <2>1. b + 1 \notin p .. p + n - 1
    BY <1>2, <1>3
  <2>. QED
    BY <1>3, <1>5, <2>1
<1>9. \A c \in Old : Length(F, w, c) = Length(F, m, c) /\ (c \notin DOMAIN F => w[c + 1] = m[c + 1])
  <2>. SUFFICES ASSUME NEW c \in Old, c \notin DOMAIN F PROVE w[c + 1] = m[c + 1]
    BY DEF Length, size
  <2>1. CASE c = b
    BY <1>8, <2>1
  <2>2. CASE c # b
    <3>1. c \in Nat /\ L(c) \in Nat /\ HeaderSize < L(c)
      BY BlockFacts
    <3>2. c + 1 \in c .. c + L(c) - 1
      <4>. HIDE DEF L
      <4>. QED
        BY <1>4, <3>1
    <3>. QED
      BY <1>6, <2>2, <3>2
  <2>. QED
    BY <2>1, <2>2
<1>10. Typed(F, R, top, sm, w, lv, fr)
  BY <1>1, <1>5 DEF Typed
<1>11. Placed(F, top, w, lv, fr)
  BY <1>1, <1>9, SameBlocks
<1>12. ASSUME NEW c \in DOMAIN F
       PROVE  w[c] = m[c] /\ \A a \in c + 1 .. c + ClassSize(F[c]) - 1 : w[a] = m[a]
  <2>1. c \in Nat /\ ClassSize(F[c]) \in Nat /\ HeaderSize < ClassSize(F[c])
    BY <1>7, BlockFacts, Classes
  <2>2. /\ c \in c .. c + ClassSize(F[c]) - 1
        /\ \A a \in c + 1 .. c + ClassSize(F[c]) - 1 : a \in c .. c + ClassSize(F[c]) - 1
    BY <1>4, <2>1
  <2>. QED
    BY <1>6, <1>7, <2>2
<1>13. Linked(F, R, sm, w)
  BY <1>1, <1>12 DEF Linked
<1>14. Zeroed(F, top, w)
  <2>1. ASSUME NEW a \in top .. HeapEnd - 1 PROVE w[a] = 0
    <3>1. a \in Address /\ a \notin p .. p + n - 1
      BY <1>2, <1>3, <1>4 DEF Address
    <3>. QED
      BY <1>1, <1>5, <3>1 DEF Zeroed
  <2>. QED
    BY <1>1, <1>12, <2>1 DEF Zeroed
<1>15. Owned(F, w, lv, fr)
  <2>1. ASSUME NEW q \in DOMAIN lv \cup fr, BLOCK_START(q) \notin DOMAIN F
        PROVE  w[size(BLOCK_START(q))] = m[size(BLOCK_START(q))]
    BY <1>9, <2>1, HeldFacts DEF size
  <2>. QED
    BY <1>1, <2>1 DEF Owned
<1>. QED
  BY <1>6, <1>10, <1>11, <1>13, <1>14, <1>15 DEF Layout, w, b, n, Elsewhere

-----------------------------------------------------------------------------
(* What callers see of a step: what they hold keeps its words, and a block *)
(* handed out is another one and zero.                                     *)
Zeros(m, p, n) == \A a \in p .. p + n - 1 : m[a] = 0
Spares(m, w, lv) == \A q \in DOMAIN lv : \A a \in q .. q + lv[q] - 1 : w[a] = m[a]
SparesBut(m, w, lv, b) ==
  \A q \in DOMAIN lv : BLOCK_START(q) # b => \A a \in q .. q + lv[q] - 1 : w[a] = m[a]
Served(m, w, lv, p, n) == p \notin DOMAIN lv /\ Zeros(w, p, n) /\ Spares(m, w, lv)

LEMMA SparesHeld ==
  ASSUME NEW F, NEW R, NEW top, NEW sm, NEW m, NEW lv, NEW fr,
         Layout(F, R, top, sm, m, lv, fr), NEW b, NEW w, Elsewhere(F, m, lv, fr, b, w)
  PROVE  SparesBut(m, w, lv, b)
<1>. SUFFICES ASSUME NEW q \in DOMAIN lv, BLOCK_START(q) # b, NEW a \in q .. q + lv[q] - 1
              PROVE  w[a] = m[a]
  BY DEF SparesBut
<1>1. PICK c \in Starts(F, lv, fr) : c = BLOCK_START(q)
  BY HeldFacts
<1>2. /\ q = c + 2 /\ lv[q] \in Nat /\ q + lv[q] <= c + Length(F, m, c)
      /\ c \in Nat /\ Length(F, m, c) \in Nat
  BY <1>1, HeldFacts, BlockFacts
<1>3. a \in c .. c + Length(F, m, c) - 1
  BY <1>2
<1>. QED
  BY <1>1, <1>3 DEF Elsewhere

LEMMA TakeServes ==
  ASSUME NEW F, NEW R, NEW top, NEW sm, NEW m, NEW lv, NEW fr,
         Layout(F, R, top, sm, m, lv, fr), NEW i \in Index, sm[i] # 0,
         NEW n \in Nat, n + HeaderSize <= ClassSize(i)
  PROVE  Served(m, Marked(m, sm[i], ClassSize(i)), lv, BLOCK_RET(sm[i]), n)
<1>. DEFINE b == sm[i]
            w == Marked(m, b, ClassSize(i))
<1>1. /\ b \in DOMAIN F /\ F[b] = i /\ b \in Starts(F, lv, fr) /\ Length(F, m, b) = ClassSize(i)
      /\ \A a \in Address : a # b /\ a # b + 1 => w[a] = m[a]
      /\ Elsewhere(F, m, lv, fr, b, w)
  BY TakeSpares
<1>2. /\ b \in Nat /\ ClassSize(i) \in Nat /\ b + ClassSize(i) <= top
      /\ top \in Nat /\ top <= HeapEnd /\ BLOCK_RET(b) = b + 2 /\ HeaderSize = 2
      /\ HeapEnd \in Nat /\ WordSize \in Nat /\ HeapEnd < WordSize
  BY <1>1, BlockFacts, Area, Classes
<1>. HIDE DEF b, w
<1>3. \A q \in DOMAIN lv : BLOCK_START(q) # b
  BY <1>1 DEF Layout, Owned
<1>4. BLOCK_RET(b) \notin DOMAIN lv
  <2>1. BLOCK_START(BLOCK_RET(b)) = b
    BY <1>2 DEF BLOCK_START
  <2>. QED
    BY <1>3, <2>1
<1>5. Zeros(w, BLOCK_RET(b), n)
  <2>. SUFFICES ASSUME NEW a \in b + 2 .. b + 2 + n - 1 PROVE w[a] = 0
    BY <1>2 DEF Zeros
  <2>1. a \in Address /\ a # b /\ a # b + 1 /\ a \in b + 1 .. b + ClassSize(F[b]) - 1
    BY <1>1, <1>2 DEF Address
  <2>2. m[a] = 0
    BY <1>1, <2>1 DEF Layout, Zeroed
  <2>. QED
    BY <1>1, <2>1, <2>2
<1>6. Spares(m, w, lv)
  <2>1. SparesBut(m, w, lv, b)
    BY <1>1, SparesHeld
  <2>. QED
    BY <1>3, <2>1 DEF Spares, SparesBut
<1>. QED
  BY <1>4, <1>5, <1>6 DEF Served, b, w

LEMMA CutServes ==
  ASSUME NEW F, NEW R, NEW top, NEW sm, NEW m, NEW lv, NEW fr,
         Layout(F, R, top, sm, m, lv, fr), NEW i \in Index, top + BlockSize <= HeapEnd
  PROVE  Spares(m, Chain(m, top, ClassSize(i)), lv)
<1>1. top \in Nat /\ m \in [Address -> Address]
  BY Area DEF Layout, Typed
<1>2. \A a \in Pieces(top, ClassSize(i)) : a >= top /\ a \in Nat
  <2>1. CutUp(top, ClassSize(i))
    BY <1>1, PieceFacts
  <2>. QED
    BY <1>1, <2>1 DEF CutUp
<1>3. \A a \in Address : a < top => Chain(m, top, ClassSize(i))[a] = m[a]
  BY <1>1, <1>2 DEF Chain, Address
<1>4. ASSUME NEW q \in DOMAIN lv, NEW a \in q .. q + lv[q] - 1
      PROVE  Chain(m, top, ClassSize(i))[a] = m[a]
  <2>1. q \in Nat /\ lv[q] \in Nat /\ q + lv[q] <= top /\ q + lv[q] <= HeapEnd
    BY HeldFacts
  <2>2. a \in Address /\ a < top
    BY <1>1, <2>1, Area DEF Address
  <2>. QED
    BY <1>3, <2>2
<1>. QED
  BY <1>4 DEF Spares

LEMMA PagesServe ==
  ASSUME NEW F, NEW R, NEW top, NEW sm, NEW m, NEW lv, NEW fr,
         Layout(F, R, top, sm, m, lv, fr), NEW s \in Nat, s > MaxSmall, top + s <= HeapEnd,
         NEW n \in Nat, n + HeaderSize <= s
  PROVE  Served(m, [m EXCEPT ![size(top)] = s], lv, BLOCK_RET(top), n)
<1>. DEFINE w == [m EXCEPT ![size(top)] = s]
<1>1. /\ BLOCK_RET(top) = top + 2 /\ top + 2 \notin DOMAIN lv
      /\ Elsewhere(F, m, lv, fr, top, w)
  BY PagesLayout
<1>2. top \in Nat /\ m \in [Address -> Address]
  BY Area DEF Layout, Typed
<1>3. \A a \in Address : a # top + 1 => w[a] = m[a]
  BY <1>2 DEF size
<1>. HIDE DEF w
<1>4. Zeros(w, top + 2, n)
  <2>. SUFFICES ASSUME NEW a \in top + 2 .. top + 2 + n - 1 PROVE w[a] = 0
    BY DEF Zeros
  <2>1. a \in Address /\ a # top + 1 /\ a \in top .. HeapEnd - 1
    BY <1>2, Area DEF Address
  <2>2. m[a] = 0
    BY <2>1 DEF Layout, Zeroed
  <2>. QED
    BY <1>3, <2>1, <2>2
<1>5. Spares(m, w, lv)
  <2>1. \A q \in DOMAIN lv : BLOCK_START(q) # top
    <3>1. ASSUME NEW q \in DOMAIN lv, BLOCK_START(q) = top PROVE FALSE
      <4>1. q = top + 2
        BY <3>1, HeldFacts
      <4>. QED
        BY <1>1, <3>1, <4>1
    <3>. QED
      BY <3>1
  <2>2. SparesBut(m, w, lv, top)
    BY <1>1, SparesHeld
  <2>. QED
    BY <2>1, <2>2 DEF Spares, SparesBut
<1>. QED
  BY <1>1, <1>4, <1>5 DEF Served, w

-----------------------------------------------------------------------------
(* What a step is to callers. *)
Quiet == live' = live /\ mem' = mem
Serves(n) == \E p : live' = Given(live, p, n) /\ Served(mem, mem', live, p, n)

(* The heap after a step, if the pages are cut to top2 and F2, R2 say      *)
(* where the free blocks are.                                              *)
LEMMA NextLayout ==
  ASSUME NEW F2, NEW R2, NEW top2, Layout(F2, R2, top2, small_mem', mem', live', freed'),
         halted' \in BOOLEAN, heap_ptr' \in Address, ~halted' => heap_ptr' = top2
  PROVE  HeapInv'
BY DEF HeapInv

(* do_mmap that does not come back. *)
LEMMA HaltStep ==
  ASSUME HeapInv, NEW s, Halt(s), Advanced(s) \in Address
  PROVE  HeapInv' /\ Quiet
<1>1. PICK F, R, top : Layout(F, R, top, small_mem, mem, live, freed)
  BY DEF HeapInv
<1>2. /\ heap_ptr' \in Address /\ halted' = TRUE
      /\ small_mem' = small_mem /\ mem' = mem /\ live' = live /\ freed' = freed
  BY DEF Halt, HeapInv
<1>3. Layout(F, R, top, small_mem', mem', live', freed')
  BY <1>1, <1>2
<1>4. HeapInv'
  BY <1>2, <1>3, NextLayout
<1>. QED
  BY <1>2, <1>4 DEF Quiet

(* A small request, from the list *)
LEMMA TakeFirstStep ==
  ASSUME HeapInv, ~halted, NEW i \in Index, small_mem[i] # 0,
         NEW n \in Nat, n + HeaderSize <= ClassSize(i), TakeFirst(i, n)
  PROVE  HeapInv' /\ Serves(n)
<1>1. PICK F, R, top : Layout(F, R, top, small_mem, mem, live, freed) /\ heap_ptr = top
  BY DEF HeapInv
<1>. DEFINE b == small_mem[i]
<1>2. /\ small_mem' = [small_mem EXCEPT ![i] = mem[b]]
      /\ mem' = Marked(mem, b, ClassSize(i))
      /\ live' = Given(live, BLOCK_RET(b), n) /\ freed' = freed \ {BLOCK_RET(b)}
      /\ halted' = halted /\ heap_ptr' = heap_ptr
  BY DEF TakeFirst, HandOut, Marked, Given, next
<1>. HIDE DEF b
<1>3. Layout(Taken(F, b), MovedUp(F, R, b), top, small_mem', mem', live', freed')
  BY <1>1, <1>2, TakeLayout DEF b
<1>4. HeapInv'
  BY <1>1, <1>2, <1>3, NextLayout DEF HeapInv
<1>5. Served(mem, mem', live, BLOCK_RET(b), n)
  BY <1>1, <1>2, TakeServes DEF b
<1>. QED
  BY <1>2, <1>4, <1>5 DEF Serves

(* or from a new page; *)
LEMMA TakeFromNewPageStep ==
  ASSUME HeapInv, ~halted, ~KdbReturns, SumsFit, NEW i \in Index, small_mem[i] = 0,
         NEW n \in Nat, n + HeaderSize <= ClassSize(i), TakeFromNewPage(i, n)
  PROVE  HeapInv' /\ (Quiet \/ Serves(n))
<1>1. PICK F, R, top : Layout(F, R, top, small_mem, mem, live, freed) /\ heap_ptr = top
  BY DEF HeapInv
<1>2. top \in Nat /\ top <= HeapEnd /\ BlockSize \in Nat /\ WordSize \in Nat /\ HeapEnd \in Nat
  BY <1>1, Area DEF Layout, Typed
<1>3. Advanced(BlockSize) = top + BlockSize /\ top + BlockSize \in Address
  <2>1. top + BlockSize \in Nat /\ top + BlockSize < WordSize
    BY <1>2 DEF SumsFit
  <2>. QED
    BY <1>1, <1>2, <2>1 DEF Advanced, Address
<1>4. CASE Halts(BlockSize)
  <2>1. Halt(BlockSize)
    BY <1>4 DEF TakeFromNewPage
  <2>. QED
    BY <1>3, <2>1, HaltStep
<1>5. CASE ~Halts(BlockSize)
  <2>. DEFINE s == ClassSize(i)
              m == Chain(mem, top, s)
              F1 == Joined(F, top, s, i)
              R1 == Placing(F, R, top, s)
              sm == [small_mem EXCEPT ![i] = top]
  <2>1. top + BlockSize <= HeapEnd
    BY <1>2, <1>3, <1>5 DEF Halts, Exhausted
  <2>2. Chained(top, s) = m
    BY DEF Chained, Chain, Pieces
  <2>3. /\ heap_ptr' = top + BlockSize
        /\ small_mem' = [small_mem EXCEPT ![i] = m[top]]
        /\ mem' = Marked(m, top, s)
        /\ live' = Given(live, BLOCK_RET(top), n) /\ freed' = freed \ {BLOCK_RET(top)}
        /\ halted' = halted
    <3>. HIDE DEF m
    <3>1. /\ heap_ptr' = Advanced(BlockSize)
          /\ small_mem' = [small_mem EXCEPT ![i] = m[next(top)]]
          /\ HandOut(top, s, n, [m EXCEPT ![next(top)] = 0])
      BY <1>1, <1>5, <2>2 DEF TakeFromNewPage
    <3>. QED
      BY <1>3, <3>1 DEF HandOut, Marked, Given, next
  <2>4. Layout(F1, R1, top + BlockSize, sm, m, live, freed)
    BY <1>1, <2>1, CutLayout
  <2>5. sm[i] = top /\ sm[i] # 0 /\ [sm EXCEPT ![i] = m[top]] = [small_mem EXCEPT ![i] = m[top]]
    <3>1. small_mem \in [Index -> Address]
      BY <1>1 DEF Layout, Typed
    <3>2. HeapStart <= top
      BY <1>1 DEF Layout, Typed
    <3>3. top # 0
      BY <1>2, <3>2, Area
    <3>. HIDE DEF m
    <3>. QED
      BY <3>1, <3>3
  <2>. HIDE DEF F1, R1, sm, m
  <2>6. Layout(Taken(F1, top), MovedUp(F1, R1, top), top + BlockSize,
               [sm EXCEPT ![i] = m[sm[i]]], Marked(m, sm[i], s),
               Given(live, BLOCK_RET(sm[i]), n), freed \ {BLOCK_RET(sm[i])})
    BY <2>4, <2>5, TakeLayout
  <2>7. Layout(Taken(F1, top), MovedUp(F1, R1, top), top + BlockSize,
               small_mem', mem', live', freed')
    BY <2>3, <2>5, <2>6
  <2>8. HeapInv'
    <3>1. halted' \in BOOLEAN /\ heap_ptr' \in Address /\ heap_ptr' = top + BlockSize
      BY <1>3, <2>3 DEF HeapInv
    <3>. QED
      BY <2>7, <3>1, NextLayout
  <2>9. Served(m, Marked(m, sm[i], s), live, BLOCK_RET(sm[i]), n)
    BY <2>4, <2>5, TakeServes
  <2>10. Spares(mem, m, live)
    BY <1>1, <2>1, CutServes DEF m
  <2>11. Served(mem, mem', live, BLOCK_RET(top), n)
    BY <2>3, <2>5, <2>9, <2>10 DEF Served, Spares
  <2>. QED
    BY <2>3, <2>8, <2>11 DEF Serves
<1>. QED
  BY <1>4, <1>5

(* a large one. *)
LEMMA TakePagesStep ==
  ASSUME HeapInv, ~halted, ~KdbReturns, NEW s \in Nat, HeapEnd + s < WordSize, s > MaxSmall,
         NEW n \in Nat, n + HeaderSize <= s, TakePages(s, n)
  PROVE  HeapInv' /\ (Quiet \/ Serves(n))
<1>1. PICK F, R, top : Layout(F, R, top, small_mem, mem, live, freed) /\ heap_ptr = top
  BY DEF HeapInv
<1>2. top \in Nat /\ top <= HeapEnd /\ WordSize \in Nat /\ HeapEnd \in Nat
  BY <1>1, Area DEF Layout, Typed
<1>3. Advanced(s) = top + s /\ top + s \in Address
  <2>1. top + s \in Nat /\ top + s < WordSize
    BY <1>2
  <2>. QED
    BY <1>1, <1>2, <2>1 DEF Advanced, Address
<1>4. CASE Halts(s)
  <2>1. Halt(s)
    BY <1>4 DEF TakePages
  <2>. QED
    BY <1>3, <2>1, HaltStep
<1>5. CASE ~Halts(s)
  <2>1. top + s <= HeapEnd
    BY <1>2, <1>3, <1>5 DEF Halts, Exhausted
  <2>2. /\ heap_ptr' = top + s /\ small_mem' = small_mem /\ mem' = [mem EXCEPT ![size(top)] = s]
        /\ live' = Given(live, BLOCK_RET(top), n) /\ freed' = freed \ {BLOCK_RET(top)}
        /\ halted' = halted
    BY <1>1, <1>3, <1>5 DEF TakePages, HandOut, Given
  <2>3. Layout(F, R, top + s, small_mem', mem', live', freed')
    BY <1>1, <2>1, <2>2, PagesLayout
  <2>4. HeapInv'
    <3>1. halted' \in BOOLEAN /\ heap_ptr' \in Address /\ heap_ptr' = top + s
      BY <1>3, <2>2 DEF HeapInv
    <3>. QED
      BY <2>3, <3>1, NextLayout
  <2>5. Served(mem, mem', live, BLOCK_RET(top), n)
    BY <1>1, <2>1, <2>2, PagesServe
  <2>. QED
    BY <2>2, <2>4, <2>5 DEF Serves
<1>. QED
  BY <1>4, <1>5

(* A request, whichever way it is met. *)
LEMMA AllocateStep ==
  ASSUME HeapInv, ~halted, ~KdbReturns, SumsFit, NEW arg \in Asked, NEW n,
         n = arg \/ Refused(arg), Allocate(arg, n)
  PROVE  HeapInv' /\ (Quiet \/ Serves(n))
<1>1. /\ arg \in Nat /\ arg < WordSize /\ WordSize \in Nat /\ WordSize > 2
      /\ MaxSmall \in Nat /\ HeaderSize = 2
  <2>1. arg \in Nat /\ arg < WordSize
    BY Area, RequestAssumption DEF Asked, Address
  <2>. QED
    BY <2>1, Area DEF SumsFit
<1>2. CASE Refused(arg)
  <2>1. UNCHANGED vars
    BY <1>2 DEF Allocate
  <2>. QED
    BY <2>1 DEF HeapInv, vars, Quiet
<1>3. CASE ~Refused(arg)
  <2>. DEFINE s == (arg + HeaderSize) % WordSize
  <2>1. /\ n = arg /\ arg # 0 /\ ~(s < HeaderSize)
        /\ ~(s > MaxSmall /\ PAGE_ALIGN(s) = 0)
    BY <1>3 DEF Refused
  <2>2. s = arg + 2
    <3>1. arg + 2 < WordSize
      <4>1. CASE arg + 2 >= WordSize
        <5>1. arg + 2 - WordSize \in 0 .. 1 /\ arg + 2 \in Nat /\ WordSize \in Nat \ {0}
          BY <1>1, <4>1
        <5>2. (arg + 2) \div WordSize = 1
          <6>1. WordSize * 1 <= arg + 2 /\ arg + 2 < WordSize * 1 + WordSize
            BY <1>1, <4>1
          <6>. QED
            BY <5>1, <6>1, Quotient
        <5>3. arg + 2 = WordSize * 1 + ((arg + 2) % WordSize) /\ (arg + 2) % WordSize \in Int
          <6>1. PICK x \in Nat : x = arg + 2
            BY <5>1
          <6>2. x = WordSize * (x \div WordSize) + (x % WordSize) /\ x % WordSize \in 0 .. WordSize - 1
            BY <5>1, Division
          <6>3. x \div WordSize = 1
            BY <5>2, <6>1
          <6>. QED
            BY <1>1, <6>1, <6>2, <6>3
        <5>4. (arg + 2) % WordSize < 2
          BY <1>1, <5>1, <5>3
        <5>. QED
          BY <1>1, <2>1, <5>4
      <4>. QED
        BY <1>1, <4>1
    <3>. QED
      BY <1>1, <3>1
  <2>. HIDE DEF s
  <2>3. s \in Nat /\ s >= 1 /\ n \in Nat /\ n + HeaderSize = s /\ s < WordSize
    <3>1. s < WordSize
      <4>1. s \in 0 .. WordSize - 1
        <5>1. arg + 2 \in Nat /\ WordSize \in Nat \ {0}
          BY <1>1
        <5>2. (arg + 2) % WordSize \in 0 .. WordSize - 1
          BY <5>1, Division
        <5>. QED
          BY <1>1, <5>2 DEF s
      <4>. QED
        BY <1>1, <4>1
    <3>. QED
      BY <1>1, <2>1, <2>2, <3>1
  <2>4. CASE s <= MaxSmall
    <3>. DEFINE i == get_index(s)
    <3>1. i \in Index /\ n + HeaderSize <= ClassSize(i)
      BY <2>3, <2>4, IndexRight
    <3>2. IF small_mem[i] # 0 THEN TakeFirst(i, n) ELSE TakeFromNewPage(i, n)
      BY <1>3, <2>4 DEF Allocate, s
    <3>. HIDE DEF i
    <3>3. CASE small_mem[i] # 0
      BY <2>3, <3>1, <3>2, <3>3, TakeFirstStep
    <3>4. CASE small_mem[i] = 0
      BY <2>3, <3>1, <3>2, <3>4, TakeFromNewPageStep
    <3>. QED
      BY <3>3, <3>4
  <2>5. CASE ~(s <= MaxSmall)
    <3>. DEFINE t == PAGE_ALIGN(s)
    <3>1. TakePages(t, n)
      BY <1>3, <2>5 DEF Allocate, s
    <3>2. t # 0
      BY <1>1, <2>1, <2>3, <2>5
    <3>3. BlockSize < WordSize
      BY Area DEF SumsFit
    <3>4. t \in Nat /\ s <= t
      BY <2>3, <3>2, <3>3, PagesEnough
    <3>5. HeapEnd + t < WordSize
      BY DEF SumsFit, s
    <3>. HIDE DEF t
    <3>6. t > MaxSmall /\ n + HeaderSize <= t
      BY <1>1, <2>3, <2>5, <3>4
    <3>. QED
      BY <2>3, <3>1, <3>4, <3>5, <3>6, TakePagesStep
  <2>. QED
    BY <2>4, <2>5
<1>. QED
  BY <1>2, <1>3

(* A product that calloc accepts did not wrap. *)
LEMMA CallocStep ==
  ASSUME HeapInv, ~KdbReturns, SumsFit, NEW r \in CallocRequest, calloc(r[1], r[2])
  PROVE  HeapInv' /\ (Quiet \/ Serves(r[1] * r[2]))
<1>1. PICK k \in Nat, s \in Nat : k = r[1] /\ s = r[2]
  BY RequestAssumption, Area
<1>2. WordSize \in Nat \ {0} /\ s * k \in Nat
  BY <1>1, Area
<1>. DEFINE n == (s * k) % WordSize
<1>3. n \in Address /\ n \in Nat /\ n <= s * k
  <2>1. PICK x \in Nat : x = s * k
    BY <1>2
  <2>2. x % WordSize \in 0 .. WordSize - 1
    BY <1>2, <2>1, Division
  <2>3. x = WordSize * (x \div WordSize) + (x % WordSize) /\ WordSize * (x \div WordSize) \in Nat
    BY <1>2, <2>1, Division
  <2>4. x % WordSize \in Nat /\ x % WordSize <= x
    BY <1>2, <2>2, <2>3
  <2>. QED
    BY <2>1, <2>2, <2>4 DEF Address
<1>4. /\ ~halted
      /\ IF k # 0 /\ n \div k # s THEN UNCHANGED vars ELSE Allocate(n, s * k)
  BY <1>1 DEF calloc, MayAsk
<1>5. CASE k # 0 /\ n \div k # s
  <2>1. UNCHANGED vars
    BY <1>4, <1>5
  <2>. QED
    BY <2>1 DEF HeapInv, vars, Quiet
<1>6. CASE ~(k # 0 /\ n \div k # s)
  <2>1. n = s * k
    <3>1. CASE k = 0
      BY <1>1, <1>2, <3>1
    <3>2. CASE k # 0
      <4>1. n \div k = s /\ k \in Nat \ {0}
        BY <1>1, <1>6, <3>2
      <4>. HIDE DEF n
      <4>2. n = k * (n \div k) + (n % k) /\ n % k \in 0 .. k - 1
        BY <1>3, <4>1, Division
      <4>3. k * (n \div k) = s * k /\ n % k \in Int /\ n % k >= 0
        BY <1>1, <4>1, <4>2
      <4>. QED
        BY <1>2, <1>3, <4>2, <4>3
    <3>. QED
      BY <3>1, <3>2
  <2>2. n \in Asked /\ r[1] * r[2] = n
    <3>1. n = r[2] * r[1] /\ r[1] * r[2] = r[2] * r[1]
      BY <1>1, <2>1
    <3>. QED
      BY <1>3, <3>1 DEF Asked
  <2>3. Allocate(n, n)
    BY <1>4, <1>6, <2>1
  <2>. HIDE DEF n
  <2>4. HeapInv' /\ (Quiet \/ Serves(n))
    BY <1>4, <2>2, <2>3, AllocateStep
  <2>. QED
    BY <2>2, <2>4
<1>. QED
  BY <1>5, <1>6

(* What a free gives up and a write fills. *)
Frees(p) == /\ p \in DOMAIN live /\ live' = Dropped(live, p)
            /\ SparesBut(mem, mem', live, BLOCK_START(p))
Fills(p) == /\ p \in DOMAIN live /\ live' = live /\ mem' = Filled(mem, p, live[p])
            /\ SparesBut(mem, mem', live, BLOCK_START(p))

LEMMA FreeStep ==
  ASSUME HeapInv, NEW p \in DOMAIN live \cup freed, free(p)
  PROVE  HeapInv' /\ (Quiet \/ Frees(p))
<1>1. PICK F, R, top : Layout(F, R, top, small_mem, mem, live, freed) /\ heap_ptr = top
  BY DEF HeapInv, free
<1>. DEFINE b == BLOCK_START(p)
            s == mem[size(b)]
<1>2. /\ IF s \in 1 .. MaxSmall THEN small_free(b, s) ELSE UNCHANGED <<mem, small_mem>>
      /\ live' = Dropped(live, p) /\ freed' = freed \cup {p}
      /\ heap_ptr' = heap_ptr /\ halted' = halted
  BY DEF free, Without, Dropped
<1>3. halted' \in BOOLEAN /\ heap_ptr' \in Address /\ heap_ptr' = top
  BY <1>1, <1>2 DEF HeapInv
<1>4. MaxSmall \in Nat /\ \A j \in Index : ClassSize(j) \in 1 .. MaxSmall
  BY Area, Classes
<1>5. CASE p \in DOMAIN live
  <2>1. \/ s > MaxSmall
        \/ \E j \in Index : s = ClassSize(j)
    BY <1>1, <1>5, HeldFacts
  <2>2. CASE \E j \in Index : s = ClassSize(j)
    <3>1. PICK j \in Index : s = ClassSize(j)
      BY <2>2
    <3>2. s \in 1 .. MaxSmall
      BY <1>4, <3>1
    <3>3. get_index(s) = j
      BY <3>1, IndexOfClass
    <3>4. small_free(b, s)
      BY <1>2, <3>2
    <3>5. /\ mem' = Cleared(mem, b, ClassSize(j), small_mem[j])
          /\ small_mem' = [small_mem EXCEPT ![j] = b]
      <4>. HIDE DEF s, b
      <4>. QED
        BY <3>1, <3>3, <3>4 DEF small_free, Cleared
    <3>6. /\ Layout(Returned(F, b, j), MovedDown(F, R, b, j), top, small_mem', mem', live', freed')
          /\ Elsewhere(F, mem, live, freed, b, mem')
      <4>. HIDE DEF b
      <4>1. b = BLOCK_START(p) /\ mem[size(b)] = ClassSize(j)
        BY <3>1 DEF b, s
      <4>. QED
        BY <1>1, <1>2, <1>5, <3>5, <4>1, FreeLayout
    <3>7. SparesBut(mem, mem', live, b)
      BY <1>1, <3>6, SparesHeld
    <3>. QED
      BY <1>2, <1>3, <1>5, <3>6, <3>7, NextLayout DEF Frees
  <2>3. CASE s > MaxSmall
    <3>1. mem' = mem /\ small_mem' = small_mem
      <4>1. s \notin 1 .. MaxSmall
        BY <1>4, <2>3
      <4>. QED
        BY <1>2, <4>1
    <3>2. Layout(F, R, top, small_mem', mem', live', freed')
      BY <1>1, <1>2, <1>5, <2>3, <3>1, DropLayout
    <3>3. SparesBut(mem, mem', live, b)
      BY <3>1 DEF SparesBut
    <3>. QED
      BY <1>2, <1>3, <1>5, <3>2, <3>3, NextLayout DEF Frees
  <2>. QED
    BY <2>1, <2>2, <2>3
<1>6. CASE p \notin DOMAIN live
  <2>1. p \in freed /\ freed' = freed
    BY <1>2, <1>6
  <2>2. live' = live
    <3>1. live = [q \in DOMAIN live |-> live[q]]
      BY <1>1 DEF Layout, Typed
    <3>2. DOMAIN live \ {p} = DOMAIN live
      BY <1>6
    <3>. QED
      BY <1>2, <3>1, <3>2 DEF Dropped
  <2>3. s \notin 1 .. MaxSmall
    <3>1. CASE b \in DOMAIN F
      <4>1. b \in Nat /\ F[b] \in Index
        BY <1>1, <3>1, Area DEF Layout, Typed, Address
      <4>2. ClassSize(F[b]) \in Nat /\ HeaderSize < ClassSize(F[b])
        BY <4>1, Classes
      <4>3. b + 1 \in b + 1 .. b + ClassSize(F[b]) - 1
        BY <4>1, <4>2, Area
      <4>4. mem[b + 1] = 0
        BY <1>1, <3>1, <4>3 DEF Layout, Zeroed
      <4>. QED
        BY <4>4 DEF size
    <3>2. CASE b \notin DOMAIN F
      <4>1. s > MaxSmall
        BY <1>1, <2>1, <3>2 DEF Layout, Owned
      <4>. QED
        BY <1>4, <4>1
    <3>. QED
      BY <3>1, <3>2
  <2>4. mem' = mem /\ small_mem' = small_mem
    BY <1>2, <2>3
  <2>5. Layout(F, R, top, small_mem', mem', live', freed')
    BY <1>1, <2>1, <2>2, <2>4
  <2>. QED
    BY <1>3, <2>2, <2>4, <2>5, NextLayout DEF Quiet
<1>. QED
  BY <1>5, <1>6

LEMMA WriteStep ==
  ASSUME HeapInv, NEW p \in DOMAIN live, Write(p)
  PROVE  HeapInv' /\ Fills(p)
<1>1. PICK F, R, top : Layout(F, R, top, small_mem, mem, live, freed) /\ heap_ptr = top
  BY DEF HeapInv, Write
<1>2. /\ mem' = Filled(mem, p, live[p]) /\ heap_ptr' = heap_ptr /\ small_mem' = small_mem
      /\ live' = live /\ freed' = freed /\ halted' = halted
  BY DEF Write, Filled
<1>3. halted' \in BOOLEAN /\ heap_ptr' \in Address /\ heap_ptr' = top
  BY <1>1, <1>2 DEF HeapInv
<1>4. /\ Layout(F, R, top, small_mem', mem', live', freed')
      /\ Elsewhere(F, mem, live, freed, BLOCK_START(p), mem')
  BY <1>1, <1>2, WriteLayout
<1>5. SparesBut(mem, mem', live, BLOCK_START(p))
  BY <1>1, <1>4, SparesHeld
<1>. QED
  BY <1>2, <1>3, <1>4, <1>5, NextLayout DEF Fills

(* Every step, *)
LengthsAsked == Request \cup {r[1] * r[2] : r \in CallocRequest}

LEMMA HeapStep ==
  ASSUME HeapInv, ~KdbReturns, SumsFit, [Next]_vars
  PROVE  /\ HeapInv'
         /\ \/ Quiet
            \/ \E n \in LengthsAsked : Serves(n)
            \/ \E p \in DOMAIN live : Frees(p) \/ Fills(p)
<1>1. ASSUME NEW n \in Request, malloc(n) PROVE HeapInv' /\ (Quiet \/ Serves(n))
  <2>1. n \in Asked /\ ~halted /\ Allocate(n, n)
    BY <1>1 DEF Asked, malloc, MayAsk
  <2>. QED
    BY <2>1, AllocateStep
<1>2. ASSUME NEW n \in Request, new(n) PROVE HeapInv' /\ (Quiet \/ Serves(n))
  <2>1. CASE Refused(n)
    <3>1. /\ halted' = TRUE
          /\ UNCHANGED <<heap_ptr, small_mem, mem, live, freed>>
      <4>1. halted' = ~KdbReturns /\ UNCHANGED <<heap_ptr, small_mem, mem, live, freed>>
        BY <1>2, <2>1 DEF new
      <4>. QED
        BY <4>1
    <3>2. PICK F, R, top : Layout(F, R, top, small_mem, mem, live, freed)
      BY DEF HeapInv
    <3>3. Layout(F, R, top, small_mem', mem', live', freed') /\ heap_ptr' \in Address
      BY <3>1, <3>2 DEF HeapInv
    <3>. QED
      BY <3>1, <3>3, NextLayout DEF Quiet
  <2>2. CASE ~Refused(n)
    <3>1. n \in Asked /\ ~halted /\ Allocate(n, n)
      BY <1>2, <2>2 DEF Asked, new, MayAsk
    <3>. QED
      BY <3>1, AllocateStep
  <2>. QED
    BY <2>1, <2>2
<1>3. ASSUME NEW r \in CallocRequest, calloc(r[1], r[2])
      PROVE  HeapInv' /\ (Quiet \/ Serves(r[1] * r[2]))
  BY <1>3, CallocStep
<1>4. ASSUME NEW p \in DOMAIN live \cup freed, free(p) \/ delete(p)
      PROVE  HeapInv' /\ (Quiet \/ Frees(p))
  <2>1. free(p)
    BY <1>4 DEF delete
  <2>. QED
    BY <2>1, FreeStep
<1>5. ASSUME NEW p \in DOMAIN live, Write(p) PROVE HeapInv' /\ Fills(p)
  BY <1>5, WriteStep
<1>6. CASE UNCHANGED vars
  BY <1>6 DEF HeapInv, vars, Quiet
<1>7. \A p : Frees(p) => p \in DOMAIN live
  BY DEF Frees
<1>. QED
  BY <1>1, <1>2, <1>3, <1>4, <1>5, <1>6, <1>7 DEF Next, LengthsAsked

(* and the first state. *)
LEMMA HeapInit ==
  ASSUME Init
  PROVE  HeapInv
<1>. DEFINE F == [c \in {} |-> 0]
<1>1. /\ heap_ptr = HeapStart /\ small_mem = [i \in Index |-> 0]
      /\ mem = [a \in Address |-> 0] /\ live = << >> /\ freed = {} /\ halted = FALSE
  BY DEF Init
<1>2. DOMAIN live = {} /\ live \in [DOMAIN live -> Nat]
  BY <1>1
<1>3. HeapStart \in Address /\ 0 \in Address /\ HeapStart \in HeapStart .. HeapEnd /\ HeapStart \in Nat
  BY Area DEF Address
<1>4. DOMAIN F = {} /\ F \in [DOMAIN F -> Index] /\ F \in [DOMAIN F -> Nat]
  OBVIOUS
<1>. HIDE DEF F
<1>5. Typed(F, F, HeapStart, small_mem, mem, live, freed)
  BY <1>1, <1>2, <1>3, <1>4 DEF Typed
<1>6. Starts(F, live, freed) = {}
  BY <1>1, <1>2, <1>4 DEF Starts
<1>7. Placed(F, HeapStart, mem, live, freed)
  <2>1. HeapStart .. HeapStart - 1 = {}
    BY <1>3
  <2>. QED
    BY <1>6, <2>1 DEF Placed
<1>8. Linked(F, F, small_mem, mem)
  BY <1>1, <1>4 DEF Linked
<1>9. Zeroed(F, HeapStart, mem)
  <2>1. \A a \in HeapStart .. HeapEnd - 1 : a \in Address
    BY Area DEF Address
  <2>. QED
    BY <1>1, <1>4, <2>1 DEF Zeroed
<1>10. Owned(F, mem, live, freed)
  BY <1>1, <1>2 DEF Owned
<1>11. Layout(F, F, HeapStart, small_mem, mem, live, freed)
  BY <1>5, <1>7, <1>8, <1>9, <1>10 DEF Layout
<1>. QED
  BY <1>1, <1>3, <1>11 DEF HeapInv

(* Where no sum wraps and a full heap stops the task, every block is where *)
(* do_mmap cut it, the free lists are what the free blocks say, and a free *)
(* block is zero but for its link (heap.cc:92).                            *)
THEOREM HeapInvariant ==
  ASSUME ~KdbReturns, SumsFit
  PROVE  Spec => []HeapInv
<1>1. Init => HeapInv
  BY HeapInit
<1>2. HeapInv /\ [Next]_vars => HeapInv'
  BY HeapStep
<1>. QED
  BY <1>1, <1>2, PTL DEF Spec

LEMMA InvariantTypes ==
  ASSUME HeapInv
  PROVE  TypeOK
<1>1. PICK F, R, top : Layout(F, R, top, small_mem, mem, live, freed)
  BY DEF HeapInv
<1>2. /\ Typed(F, R, top, small_mem, mem, live, freed) /\ Linked(F, R, small_mem, mem)
      /\ HeapEnd \in Nat /\ HeapStart \in Nat /\ WordSize \in Nat /\ HeaderSize = 2
  BY <1>1, Area DEF Layout
<1>3. ASSUME NEW i \in Index PROVE small_mem[i] \in {0} \cup HeapStart .. HeapEnd - 1
  <2>1. CASE small_mem[i] = 0
    BY <2>1
  <2>2. CASE small_mem[i] # 0
    <3>1. small_mem[i] \in Starts(F, live, freed)
      BY <1>2, <2>2 DEF Linked, Starts
    <3>. QED
      BY <1>1, <1>2, <3>1, BlockFacts
  <2>. QED
    BY <2>1, <2>2
<1>4. small_mem \in [Index -> {0} \cup HeapStart .. HeapEnd - 1]
  BY <1>2, <1>3 DEF Typed
<1>5. \A p \in HeaderSize .. WordSize - 1 : p \in Address
  BY <1>2 DEF Address
<1>6. \A p \in DOMAIN live : live[p] \in Nat
  BY <1>2 DEF Typed
<1>. QED
  BY <1>2, <1>4, <1>5, <1>6 DEF TypeOK, HeapInv, Typed

(* The allocator's words have their types, list heads lie in the area, and *)
(* a pointer is held or freed, not both.                                   *)
THEOREM TypeCorrect ==
  ASSUME ~KdbReturns, SumsFit
  PROVE  Spec => []TypeOK
<1>1. HeapInv => TypeOK
  BY InvariantTypes
<1>. QED
  BY <1>1, HeapInvariant, PTL

(* What malloc, calloc and new return lies in the heap, all of it: where   *)
(* the kernel debugger does not come back, __heap_ptr is never beyond the  *)
(* end when a block is cut (heap.cc:47-55).                                *)
THEOREM BlocksLieInside ==
  ASSUME ~KdbReturns, SumsFit
  PROVE  Spec => []InsideHeap
<1>1. HeapInv => InsideHeap
  <2>. SUFFICES ASSUME HeapInv, NEW p \in DOMAIN live
                PROVE  HeapStart <= p /\ p + live[p] <= HeapEnd
    BY DEF InsideHeap
  <2>. QED
    BY HeldFacts DEF HeapInv
<1>. QED
  BY <1>1, HeapInvariant, PTL

-----------------------------------------------------------------------------
(* The contents of held blocks, without the remainder that never matters. *)
ContentsOf(lv, m) == [p \in DOMAIN lv |-> [i \in 0 .. lv[p] - 1 |-> m[p + i]]]

LEMMA ContentsAre ==
  ASSUME NEW lv, NEW m, \A p \in DOMAIN lv : p \in Nat /\ lv[p] \in Nat /\ p + lv[p] <= HeapEnd
  PROVE  [p \in DOMAIN lv |-> [i \in 0 .. lv[p] - 1 |-> m[(p + i) % WordSize]]]
         = ContentsOf(lv, m)
<1>1. \A p \in DOMAIN lv : \A i \in 0 .. lv[p] - 1 : (p + i) % WordSize = p + i
  <2>. SUFFICES ASSUME NEW p \in DOMAIN lv, NEW i \in 0 .. lv[p] - 1
                PROVE  (p + i) % WordSize = p + i
    OBVIOUS
  <2>1. p \in Nat /\ lv[p] \in Nat /\ p + lv[p] <= HeapEnd
    OBVIOUS
  <2>2. p + i \in Nat /\ p + i < WordSize /\ WordSize \in Nat
    BY <2>1, Area
  <2>. QED
    BY <2>2
<1>. QED
  BY <1>1 DEF ContentsOf

LEMMA HeldLie ==
  ASSUME NEW F, NEW R, NEW top, NEW sm, NEW m, NEW lv, NEW fr,
         Layout(F, R, top, sm, m, lv, fr)
  PROVE  /\ \A p \in DOMAIN lv : /\ p \in Nat /\ lv[p] \in Nat /\ p + lv[p] <= HeapEnd
                                 /\ HeapStart <= p /\ p < HeapEnd
         /\ \A p, q \in DOMAIN lv : p # q =>
              (p .. p + lv[p] - 1) \cap (q .. q + lv[q] - 1) = {}
<1>1. \A p \in DOMAIN lv :
        /\ p \in Nat /\ lv[p] \in Nat /\ p + lv[p] <= HeapEnd /\ HeapStart <= p
        /\ BLOCK_START(p) \in Starts(F, lv, fr) /\ p = BLOCK_START(p) + 2
        /\ p + lv[p] <= BLOCK_START(p) + Length(F, m, BLOCK_START(p))
  BY HeldFacts
<1>2. ASSUME NEW p \in DOMAIN lv PROVE p < HeapEnd
  <2>1. PICK b \in Starts(F, lv, fr) : b = BLOCK_START(p) /\ p = b + 2
    BY <1>1
  <2>2. /\ b \in Nat /\ Length(F, m, b) \in Nat /\ HeaderSize < Length(F, m, b)
        /\ b + Length(F, m, b) <= top /\ top \in Nat /\ top <= HeapEnd
    BY BlockFacts
  <2>. QED
    BY <2>1, <2>2, Area
<1>3. ASSUME NEW p \in DOMAIN lv, NEW q \in DOMAIN lv, p # q,
             NEW a \in p .. p + lv[p] - 1, a \in q .. q + lv[q] - 1
      PROVE  FALSE
  <2>1. PICK b \in Starts(F, lv, fr) : /\ b = BLOCK_START(p) /\ p = b + 2
                                       /\ p + lv[p] <= b + Length(F, m, b)
    BY <1>1
  <2>2. PICK c \in Starts(F, lv, fr) : /\ c = BLOCK_START(q) /\ q = c + 2
                                       /\ q + lv[q] <= c + Length(F, m, c)
    BY <1>1
  <2>3. b \in Nat /\ c \in Nat /\ Length(F, m, b) \in Nat /\ Length(F, m, c) \in Nat
    BY BlockFacts
  <2>4. lv[p] \in Nat /\ lv[q] \in Nat
    BY <1>1
  <2>5. a \in b .. b + Length(F, m, b) - 1 /\ a \in c .. c + Length(F, m, c) - 1 /\ b # c
    BY <1>3, <2>1, <2>2, <2>3, <2>4
  <2>. QED
    BY <2>5, WordsApart
<1>. QED
  BY <1>1, <1>2, <1>3

LEMMA InitPromises == Init => Promise!Init
<1>. SUFFICES ASSUME Init PROVE Promise!Init
  OBVIOUS
<1>1. live = << >>
  BY DEF Init
<1>2. Contents = << >>
  BY <1>1 DEF Contents
<1>. QED
  BY <1>2 DEF Promise!Init

(* A block that was served is one the promise allows. *)
LEMMA ServesPromise ==
  ASSUME HeapInv, HeapInv', NEW n, Serves(n)
  PROVE  Promise!Allocate(n)
<1>1. PICK p : live' = Given(live, p, n) /\ Served(mem, mem', live, p, n)
  BY DEF Serves
<1>2. /\ \A q \in DOMAIN live' : /\ q \in Nat /\ live'[q] \in Nat /\ q + live'[q] <= HeapEnd
                                 /\ HeapStart <= q /\ q < HeapEnd
      /\ \A q, r \in DOMAIN live' : q # r =>
              (q .. q + live'[q] - 1) \cap (r .. r + live'[r] - 1) = {}
  <2>1. PICK F, R, top : Layout(F, R, top, small_mem', mem', live', freed')
    BY DEF HeapInv
  <2>. QED
    BY <2>1, HeldLie
<1>3. \A q \in DOMAIN live : q \in Nat /\ live[q] \in Nat /\ q + live[q] <= HeapEnd
  BY HeldLie DEF HeapInv
<1>4. /\ p \notin DOMAIN live /\ DOMAIN live' = DOMAIN live \cup {p} /\ live'[p] = n
      /\ \A q \in DOMAIN live : live'[q] = live[q]
  BY <1>1 DEF Given, Served
<1>5. Contents = ContentsOf(live, mem)
  BY <1>3, ContentsAre DEF Contents
<1>6. Contents' = ContentsOf(live', mem')
  <2>1. Contents' = [q \in DOMAIN live' |-> [i \in 0 .. live'[q] - 1 |-> mem'[(q + i) % WordSize]]]
    BY DEF Contents
  <2>. QED
    BY <1>2, <2>1, ContentsAre
<1>7. \A q \in DOMAIN live : Promise!Cells(q) = q .. q + live[q] - 1
  <2>. SUFFICES ASSUME NEW q \in DOMAIN live PROVE Promise!Cells(q) = q .. q + live[q] - 1
    OBVIOUS
  <2>1. q \in Nat /\ live[q] \in Nat
    BY <1>3
  <2>2. DOMAIN Contents[q] = 0 .. live[q] - 1
    BY <1>5 DEF ContentsOf
  <2>3. {q + i : i \in 0 .. live[q] - 1} = q .. q + live[q] - 1
    <3>1. \A a \in q .. q + live[q] - 1 : a - q \in 0 .. live[q] - 1 /\ a = q + (a - q)
      BY <2>1
    <3>2. \A i \in 0 .. live[q] - 1 : q + i \in q .. q + live[q] - 1
      BY <2>1
    <3>. QED
      BY <3>1, <3>2
  <2>. QED
    BY <2>2, <2>3 DEF Promise!Cells
<1>8. p \in HeapStart .. HeapEnd - 1 /\ p .. p + n - 1 \subseteq HeapStart .. HeapEnd - 1
  <2>1. /\ p \in Nat /\ n \in Nat /\ p + n <= HeapEnd /\ HeapStart <= p /\ p < HeapEnd
    BY <1>2, <1>4
  <2>. QED
    BY <2>1, Area
<1>9. \A q \in DOMAIN Contents : (p .. p + n - 1) \cap Promise!Cells(q) = {}
  <2>1. DOMAIN Contents = DOMAIN live
    BY <1>5 DEF ContentsOf
  <2>2. ASSUME NEW q \in DOMAIN live PROVE (p .. p + n - 1) \cap (q .. q + live[q] - 1) = {}
    BY <1>2, <1>4
  <2>. QED
    BY <1>7, <2>1, <2>2
<1>10. Contents' = [q \in DOMAIN Contents \cup {p} |->
                      IF q = p THEN [i \in 0 .. n - 1 |-> 0] ELSE Contents[q]]
  <2>1. ASSUME NEW i \in 0 .. n - 1 PROVE mem'[p + i] = 0
    <3>1. p \in Nat /\ n \in Nat
      BY <1>2, <1>4
    <3>2. p + i \in p .. p + n - 1
      BY <3>1
    <3>. QED
      BY <1>1, <3>2 DEF Served, Zeros
  <2>2. ASSUME NEW q \in DOMAIN live, NEW i \in 0 .. live[q] - 1 PROVE mem'[q + i] = mem[q + i]
    <3>1. q \in Nat /\ live[q] \in Nat
      BY <1>3
    <3>2. q + i \in q .. q + live[q] - 1
      BY <3>1
    <3>. QED
      BY <1>1, <3>2 DEF Served, Spares
  <2>3. DOMAIN Contents = DOMAIN live
    BY <1>5 DEF ContentsOf
  <2>4. \A q \in DOMAIN live : [i \in 0 .. live'[q] - 1 |-> mem'[q + i]] = Contents[q]
    BY <1>4, <1>5, <2>2 DEF ContentsOf
  <2>5. [i \in 0 .. live'[p] - 1 |-> mem'[p + i]] = [i \in 0 .. n - 1 |-> 0]
    BY <1>4, <2>1
  <2>. QED
    BY <1>4, <1>6, <2>3, <2>4, <2>5 DEF ContentsOf
<1>. QED
  BY <1>8, <1>9, <1>10 DEF Promise!Allocate

(* A write fills one block *)
LEMMA FillsPromise ==
  ASSUME HeapInv, HeapInv', NEW p, Fills(p)
  PROVE  p \in DOMAIN Contents /\ Promise!Fill(p)
<1>1. /\ p \in DOMAIN live /\ live' = live /\ mem' = Filled(mem, p, live[p])
      /\ SparesBut(mem, mem', live, BLOCK_START(p))
  BY DEF Fills
<1>2. \A q \in DOMAIN live : /\ q \in Nat /\ live[q] \in Nat /\ q + live[q] <= HeapEnd
                             /\ q = BLOCK_START(q) + 2
  BY HeldFacts DEF HeapInv
<1>3. Contents = ContentsOf(live, mem)
  BY <1>2, ContentsAre DEF Contents
<1>4. Contents' = ContentsOf(live, mem')
  <2>1. Contents' = [q \in DOMAIN live |-> [i \in 0 .. live[q] - 1 |-> mem'[(q + i) % WordSize]]]
    BY <1>1 DEF Contents
  <2>. QED
    BY <1>2, <2>1, ContentsAre
<1>5. ASSUME NEW i \in 0 .. live[p] - 1 PROVE mem'[p + i] = Dirt
  <2>1. p \in Nat /\ live[p] \in Nat /\ p + live[p] <= HeapEnd
    BY <1>1, <1>2
  <2>2. p + i \in Address /\ p + i \in p .. p + live[p] - 1
    BY <2>1, Area DEF Address
  <2>. QED
    BY <1>1, <2>2 DEF Filled
<1>6. ASSUME NEW q \in DOMAIN live, q # p, NEW i \in 0 .. live[q] - 1 PROVE mem'[q + i] = mem[q + i]
  <2>1. q \in Nat /\ live[q] \in Nat /\ BLOCK_START(q) # BLOCK_START(p)
    BY <1>1, <1>2, <1>6
  <2>2. q + i \in q .. q + live[q] - 1
    BY <2>1
  <2>. QED
    BY <1>1, <2>1, <2>2 DEF SparesBut
<1>7. /\ DOMAIN Contents = DOMAIN live /\ Contents = [q \in DOMAIN live |-> Contents[q]]
      /\ DOMAIN Contents[p] = 0 .. live[p] - 1
  BY <1>1, <1>3 DEF ContentsOf
<1>8. \A q \in DOMAIN live : q # p => [i \in 0 .. live[q] - 1 |-> mem'[q + i]] = Contents[q]
  BY <1>3, <1>6 DEF ContentsOf
<1>9. [i \in 0 .. live[p] - 1 |-> mem'[p + i]] = [i \in DOMAIN Contents[p] |-> Dirt]
  BY <1>5, <1>7
<1>10. Contents' = [q \in DOMAIN live |-> [i \in 0 .. live[q] - 1 |-> mem'[q + i]]]
  BY <1>4 DEF ContentsOf
<1>11. Contents' = [Contents EXCEPT ![p] = [i \in DOMAIN Contents[p] |-> Dirt]]
  BY <1>1, <1>7, <1>8, <1>9, <1>10
<1>. QED
  BY <1>1, <1>7, <1>11 DEF Promise!Fill

(* and a free gives up one. *)
LEMMA FreesPromise ==
  ASSUME HeapInv, HeapInv', NEW p, Frees(p)
  PROVE  p \in DOMAIN Contents /\ Promise!Release(p)
<1>1. /\ p \in DOMAIN live /\ live' = Dropped(live, p)
      /\ SparesBut(mem, mem', live, BLOCK_START(p))
  BY DEF Frees
<1>2. \A q \in DOMAIN live : /\ q \in Nat /\ live[q] \in Nat /\ q + live[q] <= HeapEnd
                             /\ q = BLOCK_START(q) + 2
  BY HeldFacts DEF HeapInv
<1>3. Contents = ContentsOf(live, mem)
  BY <1>2, ContentsAre DEF Contents
<1>4. DOMAIN live' = DOMAIN live \ {p} /\ \A q \in DOMAIN live' : live'[q] = live[q]
  BY <1>1 DEF Dropped
<1>5. Contents' = ContentsOf(live', mem')
  <2>1. Contents' = [q \in DOMAIN live' |-> [i \in 0 .. live'[q] - 1 |-> mem'[(q + i) % WordSize]]]
    BY DEF Contents
  <2>. QED
    BY <1>2, <1>4, <2>1, ContentsAre
<1>6. ASSUME NEW q \in DOMAIN live', NEW i \in 0 .. live[q] - 1 PROVE mem'[q + i] = mem[q + i]
  <2>1. q \in DOMAIN live /\ q \in Nat /\ live[q] \in Nat /\ BLOCK_START(q) # BLOCK_START(p)
    BY <1>1, <1>2, <1>4
  <2>2. q + i \in q .. q + live[q] - 1
    BY <2>1
  <2>. QED
    BY <1>1, <2>1, <2>2 DEF SparesBut
<1>7. DOMAIN Contents = DOMAIN live
  BY <1>3 DEF ContentsOf
<1>8. \A q \in DOMAIN live' : [i \in 0 .. live'[q] - 1 |-> mem'[q + i]] = Contents[q]
  BY <1>3, <1>4, <1>6 DEF ContentsOf
<1>9. Contents' = [q \in DOMAIN Contents \ {p} |-> Contents[q]]
  BY <1>4, <1>5, <1>7, <1>8 DEF ContentsOf
<1>. QED
  BY <1>1, <1>7, <1>9 DEF Promise!Release

(* malloc, calloc and free keep the promise of module Allocator: what they *)
(* hand out lies apart and is zero although calloc clears nothing, and no  *)
(* call changes a word of a block somebody else holds.                     *)
THEOREM Refinement ==
  ASSUME ~KdbReturns, SumsFit
  PROVE  Spec => ImplementsAllocator
<1>1. Init => Promise!Init
  BY InitPromises
<1>2. ASSUME HeapInv, [Next]_vars PROVE [Promise!Next]_Contents
  <2>1. /\ HeapInv'
        /\ \/ Quiet
           \/ \E n \in LengthsAsked : Serves(n)
           \/ \E p \in DOMAIN live : Frees(p) \/ Fills(p)
    BY <1>2, HeapStep
  <2>2. CASE Quiet
    BY <2>2 DEF Quiet, Contents
  <2>3. ASSUME NEW n \in LengthsAsked, Serves(n) PROVE Promise!Next
    <3>1. Promise!Allocate(n)
      BY <1>2, <2>1, <2>3, ServesPromise
    <3>. QED
      BY <3>1 DEF Promise!Next, LengthsAsked
  <2>4. ASSUME NEW p \in DOMAIN live, Frees(p) \/ Fills(p) PROVE Promise!Next
    <3>1. p \in DOMAIN Contents /\ (Promise!Fill(p) \/ Promise!Release(p))
      BY <1>2, <2>1, <2>4, FillsPromise, FreesPromise
    <3>. QED
      BY <3>1 DEF Promise!Next
  <2>. QED
    BY <2>1, <2>2, <2>3, <2>4
<1>. QED
  BY <1>1, <1>2, HeapInvariant, PTL DEF Spec, ImplementsAllocator, Promise!Spec

-----------------------------------------------------------------------------
(* No list is longer than the area: the places of a list are taken by      *)
(* blocks that differ, and a block is as long as the smallest class.       *)
ListBound == (HeapEnd - HeapStart) \div MinSmall

LEMMA BoundFits ==
  /\ ListBound \in Nat /\ ListBound \in 0 .. WordSize
  /\ \A a \in HeapStart .. HeapEnd : a + MinSmall <= HeapEnd =>
       (a - HeapStart) \div MinSmall \in 0 .. ListBound - 1
<1>. DEFINE N == ListBound
<1>1. /\ MinSmall \in Nat \ {0} /\ MinSmall >= 1 /\ HeapEnd \in Nat /\ HeapStart \in Nat
      /\ HeapStart <= HeapEnd /\ HeapEnd < WordSize /\ WordSize \in Nat
      /\ HeapEnd - HeapStart \in Nat
  <2>1. MinSmall \in Nat \ {0}
    BY AreaAssumption DEF HeaderSize
  <2>. QED
    BY <2>1, Area
<1>2. /\ N \in Nat /\ MinSmall * N \in Nat /\ MinSmall * N <= HeapEnd - HeapStart
      /\ HeapEnd - HeapStart < MinSmall * N + MinSmall
  <2>1. PICK x \in Nat : x = HeapEnd - HeapStart
    BY <1>1
  <2>2. /\ x \div MinSmall \in Nat /\ MinSmall * (x \div MinSmall) \in Nat
        /\ x % MinSmall \in 0 .. MinSmall - 1 /\ x = MinSmall * (x \div MinSmall) + (x % MinSmall)
    BY <1>1, <2>1, Division
  <2>3. N = x \div MinSmall
    BY <2>1 DEF ListBound
  <2>. HIDE DEF N
  <2>. QED
    BY <1>1, <2>1, <2>2, <2>3
<1>. HIDE DEF N
<1>3. N <= MinSmall * N
  <2>1. PICK k \in Nat : MinSmall = 1 + k
    <3>1. MinSmall - 1 \in Nat /\ MinSmall = 1 + (MinSmall - 1)
      BY <1>1
    <3>. QED
      BY <3>1
  <2>2. MinSmall * N = N + k * N /\ k * N \in Nat
    BY <1>2, <2>1
  <2>. QED
    BY <1>2, <2>2
<1>4. ASSUME NEW a \in HeapStart .. HeapEnd, a + MinSmall <= HeapEnd
      PROVE  (a - HeapStart) \div MinSmall \in 0 .. N - 1
  <2>1. PICK x \in Nat : x = a - HeapStart
    BY <1>1
  <2>2. /\ x \div MinSmall \in Nat /\ MinSmall * (x \div MinSmall) \in Nat
        /\ x % MinSmall \in 0 .. MinSmall - 1 /\ x = MinSmall * (x \div MinSmall) + (x % MinSmall)
    BY <1>1, Division
  <2>3. PICK y \in Nat : y = x \div MinSmall
    BY <2>2
  <2>4. MinSmall * y <= x /\ MinSmall * y \in Nat /\ x + MinSmall <= HeapEnd - HeapStart
    BY <1>1, <1>4, <2>1, <2>2, <2>3
  <2>5. ASSUME N <= y PROVE FALSE
    <3>1. PICK k \in Nat : y = N + k
      <4>1. y - N \in Nat /\ y = N + (y - N)
        BY <1>2, <2>3, <2>5
      <4>. QED
        BY <4>1
    <3>2. MinSmall * y = MinSmall * N + MinSmall * k /\ MinSmall * k \in Nat
      BY <1>1, <1>2, <3>1
    <3>. QED
      BY <1>1, <1>2, <2>4, <3>2
  <2>6. y < N
    BY <1>2, <2>3, <2>5
  <2>. QED
    BY <1>2, <2>1, <2>3, <2>6
<1>. QED
  BY <1>1, <1>2, <1>3, <1>4 DEF N

LEMMA ListsAreShort ==
  ASSUME NEW F, NEW R, NEW top, NEW sm, NEW m, NEW lv, NEW fr,
         Layout(F, R, top, sm, m, lv, fr), NEW b \in DOMAIN F
  PROVE  R[b] < ListBound
<1>. DEFINE n == R[b]
            At(k) == CHOOSE c \in DOMAIN F : F[c] = F[b] /\ R[c] = k
            Slot(c) == (c - HeapStart) \div MinSmall
            f == [k \in 0 .. n |-> Slot(At(k))]
<1>1. /\ n \in Nat /\ \A c \in DOMAIN F : R[c] \in Nat /\ F[c] \in Index /\ c \in Starts(F, lv, fr)
      /\ \A c \in DOMAIN F : \/ R[c] = 0
                             \/ \E d \in DOMAIN F : F[d] = F[c] /\ R[d] + 1 = R[c] /\ m[d] = c
  BY DEF Layout, Typed, Linked, Starts
<1>2. \A c \in DOMAIN F : /\ c \in Nat /\ HeapStart <= c /\ c + ClassSize(F[c]) <= HeapEnd
                          /\ ClassSize(F[c]) \in Nat /\ MinSmall <= ClassSize(F[c])
  <2>1. ASSUME NEW c \in DOMAIN F
        PROVE  /\ c \in Nat /\ HeapStart <= c /\ c + ClassSize(F[c]) <= HeapEnd
               /\ ClassSize(F[c]) \in Nat /\ MinSmall <= ClassSize(F[c])
    <3>1. /\ c \in Nat /\ HeapStart <= c /\ c + Length(F, m, c) <= top
          /\ top \in Nat /\ top <= HeapEnd
      BY <1>1, BlockFacts
    <3>2. Length(F, m, c) = ClassSize(F[c])
      BY DEF Length
    <3>3. ClassSize(F[c]) \in Nat /\ MinSmall <= ClassSize(F[c])
      BY <1>1, Classes, Area
    <3>. QED
      BY <3>1, <3>2, <3>3, Area
  <2>. QED
    BY <2>1
<1>. HIDE DEF n
<1>3. \A k \in 0 .. n : \E c \in DOMAIN F : F[c] = F[b] /\ R[c] = k
  <2>. DEFINE P == {j \in 0 .. n : \E c \in DOMAIN F : F[c] = F[b] /\ R[c] = n - j}
  <2>1. 0 \in P
    BY <1>1 DEF n
  <2>2. ASSUME NEW j \in 1 .. n, j - 1 \in P PROVE j \in P
    <3>1. PICK c \in DOMAIN F : F[c] = F[b] /\ R[c] = n - (j - 1)
      BY <2>2
    <3>2. R[c] # 0
      BY <1>1, <3>1
    <3>3. PICK d \in DOMAIN F : F[d] = F[c] /\ R[d] + 1 = R[c]
      BY <1>1, <3>2
    <3>4. R[d] = n - j
      BY <1>1, <3>1, <3>3
    <3>. QED
      BY <3>1, <3>3, <3>4
  <2>. HIDE DEF P
  <2>3. 0 .. n \subseteq P
    BY <1>1, <2>1, <2>2, TurnInduction
  <2>4. ASSUME NEW k \in 0 .. n PROVE \E c \in DOMAIN F : F[c] = F[b] /\ R[c] = k
    <3>1. n - k \in P /\ n - (n - k) = k
      BY <1>1, <2>3
    <3>. QED
      BY <3>1 DEF P
  <2>. QED
    BY <2>4
<1>4. \A k \in 0 .. n : At(k) \in DOMAIN F /\ F[At(k)] = F[b] /\ R[At(k)] = k
  BY <1>3
<1>. HIDE DEF At
<1>5. \A c \in DOMAIN F : Slot(c) \in 0 .. ListBound - 1
  <2>. SUFFICES ASSUME NEW c \in DOMAIN F PROVE Slot(c) \in 0 .. ListBound - 1
    OBVIOUS
  <2>1. c \in HeapStart .. HeapEnd /\ c + MinSmall <= HeapEnd
    BY <1>2, Area
  <2>. QED
    BY <2>1, BoundFits
<1>6. f \in [0 .. n -> 0 .. ListBound - 1]
  BY <1>4, <1>5
<1>7. ASSUME NEW c \in DOMAIN F, NEW d \in DOMAIN F, c < d PROVE Slot(c) # Slot(d)
  <2>1. c + Length(F, m, c) <= d /\ Length(F, m, c) = ClassSize(F[c])
    BY <1>1, <1>7 DEF Layout, Placed, Length
  <2>2. c + MinSmall <= d
    BY <1>2, <2>1, Area
  <2>3. PICK x \in Nat, y \in Nat : x = c - HeapStart /\ y = d - HeapStart
    <3>1. c - HeapStart \in Nat /\ d - HeapStart \in Nat
      BY <1>2, Area
    <3>. QED
      BY <3>1
  <2>4. MinSmall \in Nat \ {0}
    BY AreaAssumption DEF HeaderSize
  <2>5. /\ x = MinSmall * (x \div MinSmall) + (x % MinSmall) /\ x % MinSmall \in 0 .. MinSmall - 1
        /\ MinSmall * (x \div MinSmall) \in Nat
    BY <2>4, Division
  <2>6. /\ y = MinSmall * (y \div MinSmall) + (y % MinSmall) /\ y % MinSmall \in 0 .. MinSmall - 1
        /\ MinSmall * (y \div MinSmall) \in Nat
    BY <2>4, Division
  <2>7. x + MinSmall <= y
    BY <1>2, <2>2, <2>3, <2>4, Area
  <2>8. x \div MinSmall # y \div MinSmall
    <3>1. ASSUME x \div MinSmall = y \div MinSmall PROVE FALSE
      <4>1. PICK z \in Nat : z = MinSmall * (x \div MinSmall) /\ z = MinSmall * (y \div MinSmall)
        BY <2>5, <2>6, <3>1
      <4>2. z <= x /\ y < z + MinSmall
        BY <2>4, <2>5, <2>6, <4>1
      <4>. QED
        BY <2>4, <2>7, <4>1, <4>2
    <3>. QED
      BY <3>1
  <2>. QED
    BY <2>3, <2>8
<1>8. \A k, l \in 0 .. n : k # l => f[k] # f[l]
  <2>. SUFFICES ASSUME NEW k \in 0 .. n, NEW l \in 0 .. n, k # l PROVE f[k] # f[l]
    OBVIOUS
  <2>1. At(k) \in DOMAIN F /\ At(l) \in DOMAIN F /\ At(k) # At(l)
    BY <1>4
  <2>2. At(k) \in Nat /\ At(l) \in Nat
    BY <1>2, <2>1
  <2>3. At(k) < At(l) \/ At(l) < At(k)
    BY <2>1, <2>2
  <2>. HIDE DEF Slot
  <2>. QED
    BY <1>7, <2>1, <2>3
<1>9. /\ IsFiniteSet(0 .. n) /\ Cardinality(0 .. n) = n + 1
      /\ IsFiniteSet(0 .. ListBound - 1) /\ Cardinality(0 .. ListBound - 1) = ListBound
      /\ ListBound \in Nat
  <2>1. 0 \in Int /\ n \in Int /\ ~(0 > n) /\ n - 0 + 1 = n + 1
    BY <1>1
  <2>2. ListBound \in Nat /\ ListBound - 1 \in Int
    BY BoundFits
  <2>3. Cardinality(0 .. n) = IF 0 > n THEN 0 ELSE n - 0 + 1
    BY <2>1, FS_Interval
  <2>4. Cardinality(0 .. ListBound - 1) = IF 0 > ListBound - 1 THEN 0 ELSE ListBound - 1 - 0 + 1
    BY <2>1, <2>2, FS_Interval
  <2>5. IsFiniteSet(0 .. n) /\ IsFiniteSet(0 .. ListBound - 1)
    BY <2>1, <2>2, FS_Interval
  <2>. QED
    BY <2>1, <2>2, <2>3, <2>4, <2>5
<1>. HIDE DEF f
<1>10. ~(ListBound < n + 1)
  BY <1>6, <1>8, <1>9, FS_PigeonHole
<1>. QED
  BY <1>1, <1>9, <1>10 DEF n

(* The chain from a list's head reaches the list's blocks in their order, *)
IsReach(g, sm, m, i) ==
  g = [k \in 0 .. WordSize |->
         IF k = 0 THEN {sm[i]}
         ELSE LET r == g[k - 1] IN r \cup {m[next(b)] : b \in r \ {0}}]

LEMMA ReachIs ==
  ASSUME NEW sm \in [Index -> Address], NEW m \in [Address -> Address], NEW i \in Index
  PROVE  \E g : /\ IsReach(g, sm, m, i) /\ g[0] = {sm[i]}
                /\ \A k \in 1 .. WordSize : g[k] = g[k - 1] \cup {m[b] : b \in g[k - 1] \ {0}}
                /\ \A h : IsReach(h, sm, m, i) => h = g
<1>. DEFINE X == SUBSET Address
            step == [r \in X |-> r \cup {m[b] : b \in r \ {0}}]
            turn == [k \in 1 .. WordSize |-> step]
<1>1. WordSize \in Nat /\ {sm[i]} \in X
  BY Area
<1>2. step \in [X -> X]
  <2>1. \A r \in X : \A b \in r \ {0} : m[b] \in Address
    OBVIOUS
  <2>2. \A r \in X : r \cup {m[b] : b \in r \ {0}} \in X
    BY <2>1
  <2>. QED
    BY <2>2
<1>. HIDE DEF X
<1>3. turn \in [1 .. WordSize -> [X -> X]]
  <2>. HIDE DEF step
  <2>. QED
    BY <1>2
<1>4. PICK g : IsRun(g, WordSize, X, {sm[i]}, turn)
  <2>. HIDE DEF turn
  <2>. QED
    BY <1>1, <1>3, LoopRuns
<1>5. /\ g \in [0 .. WordSize -> X] /\ g[0] = {sm[i]}
      /\ \A k \in 1 .. WordSize : g[k] = turn[k][g[k - 1]]
  <2>. HIDE DEF turn
  <2>. QED
    BY <1>4 DEF IsRun
<1>6. \A k \in 1 .. WordSize : g[k] = g[k - 1] \cup {m[b] : b \in g[k - 1] \ {0}}
  <2>. SUFFICES ASSUME NEW k \in 1 .. WordSize
                PROVE  g[k] = g[k - 1] \cup {m[b] : b \in g[k - 1] \ {0}}
    OBVIOUS
  <2>1. k - 1 \in 0 .. WordSize
    BY <1>1
  <2>2. g[k - 1] \in X
    BY <1>5, <2>1
  <2>3. g[k] = step[g[k - 1]]
    <3>. HIDE DEF step
    <3>. QED
      BY <1>5
  <2>. QED
    BY <2>2, <2>3
<1>. HIDE DEF step, turn
<1>7. \A k \in 0 .. WordSize : k # 0 => k \in 1 .. WordSize
  BY <1>1
<1>8. IsReach(g, sm, m, i)
  <2>1. g = [k \in 0 .. WordSize |-> g[k]]
    BY <1>5
  <2>2. \A k \in 0 .. WordSize :
          g[k] = IF k = 0 THEN {sm[i]}
                 ELSE g[k - 1] \cup {m[next(b)] : b \in g[k - 1] \ {0}}
    BY <1>5, <1>6, <1>7 DEF next
  <2>3. g = [k \in 0 .. WordSize |->
               IF k = 0 THEN {sm[i]} ELSE g[k - 1] \cup {m[next(b)] : b \in g[k - 1] \ {0}}]
    BY <2>1, <2>2
  <2>. QED
    BY <2>3 DEF IsReach
<1>9. ASSUME NEW h, IsReach(h, sm, m, i) PROVE h = g
  <2>1. /\ h = [k \in 0 .. WordSize |-> h[k]] /\ h[0] = {sm[i]}
        /\ \A k \in 0 .. WordSize :
             h[k] = IF k = 0 THEN {sm[i]}
                    ELSE h[k - 1] \cup {m[next(b)] : b \in h[k - 1] \ {0}}
    <3>1. h = [k \in 0 .. WordSize |->
                 IF k = 0 THEN {sm[i]} ELSE h[k - 1] \cup {m[next(b)] : b \in h[k - 1] \ {0}}]
      BY <1>9 DEF IsReach
    <3>2. \A k \in 0 .. WordSize :
             h[k] = IF k = 0 THEN {sm[i]}
                    ELSE h[k - 1] \cup {m[next(b)] : b \in h[k - 1] \ {0}}
      BY <3>1
    <3>3. 0 \in 0 .. WordSize
      BY <1>1
    <3>4. DOMAIN h = 0 .. WordSize /\ h = [k \in DOMAIN h |-> h[k]]
      BY <3>1
    <3>. QED
      BY <3>2, <3>3, <3>4
  <2>. DEFINE P == {k \in 0 .. WordSize : h[k] = g[k]}
  <2>2. 0 \in P
    <3>1. h[0] = {sm[i]}
      BY <2>1
    <3>2. g[0] = {sm[i]} /\ 0 \in 0 .. WordSize
      BY <1>1, <1>5
    <3>. QED
      BY <3>1, <3>2
  <2>3. ASSUME NEW k \in 1 .. WordSize, k - 1 \in P PROVE k \in P
    <3>1. h[k - 1] = g[k - 1] /\ k \in 0 .. WordSize /\ k # 0
      BY <1>1, <2>3
    <3>2. h[k] = h[k - 1] \cup {m[b] : b \in h[k - 1] \ {0}}
      BY <2>1, <3>1 DEF next
    <3>. QED
      BY <1>6, <3>1, <3>2
  <2>. HIDE DEF P
  <2>4. 0 .. WordSize \subseteq P
    BY <1>1, <2>2, <2>3, TurnInduction
  <2>5. \A k \in 0 .. WordSize : h[k] = g[k]
    BY <2>4 DEF P
  <2>. QED
    BY <1>5, <2>1, <2>5
<1>. QED
  BY <1>5, <1>6, <1>8, <1>9

(* all of them within the bound FreeList uses. *)
LEMMA FreeListIs ==
  ASSUME NEW F, NEW R, NEW top, Layout(F, R, top, small_mem, mem, live, freed),
         NEW i \in Index
  PROVE  FreeList(i) = {b \in DOMAIN F : F[b] = i}
<1>1. /\ small_mem \in [Index -> Address] /\ mem \in [Address -> Address]
      /\ \A b \in DOMAIN F : R[b] \in Nat /\ F[b] \in Index
      /\ \A j \in Index : \/ small_mem[j] = 0 /\ \A b \in DOMAIN F : F[b] # j
                          \/ small_mem[j] \in DOMAIN F /\ F[small_mem[j]] = j /\ R[small_mem[j]] = 0
      /\ \A b \in DOMAIN F : \/ mem[b] = 0
                             \/ mem[b] \in DOMAIN F /\ F[mem[b]] = F[b] /\ R[mem[b]] = R[b] + 1
      /\ \A b, c \in DOMAIN F : F[b] = F[c] /\ R[b] = R[c] => b = c
      /\ \A b \in DOMAIN F : \/ R[b] = 0
                             \/ \E c \in DOMAIN F : F[c] = F[b] /\ R[c] + 1 = R[b] /\ mem[c] = b
  BY DEF Layout, Typed, Linked
<1>2. \A b \in DOMAIN F : b # 0
  <2>1. \A b \in DOMAIN F : b \in Starts(F, live, freed)
    BY DEF Layout, Typed, Starts
  <2>. QED
    BY <2>1, BlockFacts, Area
<1>3. PICK g : /\ IsReach(g, small_mem, mem, i) /\ g[0] = {small_mem[i]}
               /\ \A k \in 1 .. WordSize : g[k] = g[k - 1] \cup {mem[b] : b \in g[k - 1] \ {0}}
               /\ \A h : IsReach(h, small_mem, mem, i) => h = g
  BY <1>1, ReachIs
<1>4. FreeList(i) = g[ListBound] \ {0}
  <2>1. FreeList(i) = (CHOOSE h : IsReach(h, small_mem, mem, i))[ListBound] \ {0}
    BY DEF FreeList, IsReach, ListBound
  <2>2. (CHOOSE h : IsReach(h, small_mem, mem, i)) = g
    BY <1>3
  <2>. QED
    BY <2>1, <2>2
<1>5. WordSize \in Nat
  BY Area
<1>. DEFINE P == {k \in 0 .. WordSize :
                    g[k] \ {0} = {b \in DOMAIN F : F[b] = i /\ R[b] <= k}}
<1>6. 0 \in P
  <2>1. ASSUME NEW b \in DOMAIN F PROVE (F[b] = i /\ R[b] <= 0) <=> b = small_mem[i]
    BY <1>1, <1>2
  <2>2. small_mem[i] # 0 => small_mem[i] \in DOMAIN F
    BY <1>1
  <2>3. {small_mem[i]} \ {0} = {b \in DOMAIN F : F[b] = i /\ R[b] <= 0}
    BY <1>2, <2>1, <2>2
  <2>. QED
    BY <1>3, <1>5, <2>3
<1>7. ASSUME NEW k \in 1 .. WordSize, k - 1 \in P PROVE k \in P
  <2>. DEFINE A == g[k - 1]
  <2>1. A \ {0} = {b \in DOMAIN F : F[b] = i /\ R[b] <= k - 1}
    BY <1>7
  <2>2. g[k] = A \cup {mem[b] : b \in A \ {0}}
    BY <1>3
  <2>. HIDE DEF A
  <2>3. ASSUME NEW c \in g[k], c # 0 PROVE c \in DOMAIN F /\ F[c] = i /\ R[c] <= k
    <3>1. CASE c \in A
      BY <1>1, <2>1, <2>3, <3>1
    <3>2. CASE c \notin A
      <4>1. PICK b \in A \ {0} : c = mem[b]
        BY <2>2, <3>2
      <4>2. b \in DOMAIN F /\ F[b] = i /\ R[b] <= k - 1
        BY <2>1
      <4>. QED
        BY <1>1, <2>3, <4>1, <4>2
    <3>. QED
      BY <3>1, <3>2
  <2>4. ASSUME NEW c \in DOMAIN F, F[c] = i, R[c] <= k PROVE c \in g[k] /\ c # 0
    <3>1. CASE R[c] <= k - 1
      BY <1>2, <2>1, <2>2, <2>4, <3>1
    <3>2. CASE ~(R[c] <= k - 1)
      <4>1. R[c] = k /\ R[c] # 0
        BY <1>1, <2>4, <3>2
      <4>2. PICK b \in DOMAIN F : F[b] = i /\ R[b] + 1 = R[c] /\ mem[b] = c
        BY <1>1, <2>4, <4>1
      <4>3. R[b] <= k - 1
        BY <1>1, <4>1, <4>2
      <4>4. b \in A \ {0}
        BY <2>1, <4>2, <4>3
      <4>. QED
        BY <1>2, <2>2, <4>2, <4>4
    <3>. QED
      BY <3>1, <3>2
  <2>5. g[k] \ {0} = {b \in DOMAIN F : F[b] = i /\ R[b] <= k}
    BY <2>3, <2>4
  <2>. QED
    BY <1>5, <2>5
<1>. HIDE DEF P
<1>8. 0 .. WordSize \subseteq P
  BY <1>5, <1>6, <1>7, TurnInduction
<1>9. ListBound \in P
  BY <1>8, BoundFits
<1>10. g[ListBound] \ {0} = {b \in DOMAIN F : F[b] = i /\ R[b] <= ListBound}
  BY <1>9 DEF P
<1>11. \A b \in DOMAIN F : R[b] <= ListBound
  BY <1>1, BoundFits, ListsAreShort
<1>. QED
  BY <1>4, <1>10, <1>11

(* So the blocks of ExactCover are the blocks of the layout. *)
Described(F, m, lv, b) ==
  <<b, IF b \in DOMAIN F THEN ClassSize(F[b]) ELSE m[size(b)],
    IF b \in DOMAIN F THEN F[b]
    ELSE IF BLOCK_RET(b) \in DOMAIN lv THEN "live" ELSE "large">>

LEMMA BlocksAre ==
  ASSUME NEW F, NEW R, NEW top, Layout(F, R, top, small_mem, mem, live, freed)
  PROVE  Blocks = {Described(F, mem, live, b) : b \in Starts(F, live, freed)}
<1>. DEFINE S == Starts(F, live, freed)
            D(b) == Described(F, mem, live, b)
            A1 == {<<BLOCK_START(p), mem[size(BLOCK_START(p))], "live">> : p \in DOMAIN live}
            A2 == {<<BLOCK_START(p), mem[size(BLOCK_START(p))], "large">> :
                     p \in {q \in freed : mem[size(BLOCK_START(q))] > MaxSmall}}
            A3 == UNION {{<<b, ClassSize(i), i>> : b \in FreeList(i)} : i \in Index}
<1>1. Blocks = A1 \cup A2 \cup A3
  BY DEF Blocks
<1>2. /\ \A b \in DOMAIN F : b \in S /\ F[b] \in Index
      /\ \A p \in DOMAIN live : BLOCK_START(p) \notin DOMAIN F
      /\ \A p \in freed : BLOCK_START(p) \in DOMAIN F \/ mem[size(BLOCK_START(p))] > MaxSmall
      /\ freed \cap DOMAIN live = {}
  BY DEF Layout, Typed, Owned, Starts
<1>3. \A p \in DOMAIN live \cup freed : BLOCK_START(p) \in S /\ BLOCK_RET(BLOCK_START(p)) = p
  BY HeldFacts
<1>4. \A b \in S : /\ BLOCK_START(BLOCK_RET(b)) = b
                   /\ b \notin DOMAIN F => BLOCK_RET(b) \in DOMAIN live \cup freed
  <2>1. \A b \in S : b \in Nat /\ BLOCK_RET(b) = b + 2
                     /\ (b \notin DOMAIN F => BLOCK_RET(b) \in DOMAIN live \cup freed)
    BY BlockFacts
  <2>2. \A b \in Nat : BLOCK_START(b + 2) = b
    BY DEF BLOCK_START, HeaderSize
  <2>. QED
    BY <2>1, <2>2
<1>5. \A b \in DOMAIN F : ~(mem[size(b)] > MaxSmall)
  <2>. SUFFICES ASSUME NEW b \in DOMAIN F PROVE ~(mem[size(b)] > MaxSmall)
    OBVIOUS
  <2>1. b \in Nat /\ HeaderSize < ClassSize(F[b]) /\ ClassSize(F[b]) \in Nat
    BY <1>2, BlockFacts, Classes
  <2>2. b + 1 \in b + 1 .. b + ClassSize(F[b]) - 1
    BY <2>1, Area
  <2>3. mem[b + 1] = 0
    BY <2>2 DEF Layout, Zeroed
  <2>. QED
    BY <2>3, Area DEF size
<1>6. \A i \in Index : FreeList(i) = {b \in DOMAIN F : F[b] = i}
  BY FreeListIs
<1>. HIDE DEF S
<1>7. ASSUME NEW x \in A1 PROVE \E b \in S : x = D(b)
  <2>1. PICK p \in DOMAIN live : x = <<BLOCK_START(p), mem[size(BLOCK_START(p))], "live">>
    OBVIOUS
  <2>2. x = D(BLOCK_START(p))
    BY <1>2, <1>3, <2>1 DEF Described
  <2>. QED
    BY <1>3, <2>2
<1>8. ASSUME NEW x \in A2 PROVE \E b \in S : x = D(b)
  <2>1. PICK p \in freed : /\ mem[size(BLOCK_START(p))] > MaxSmall
                           /\ x = <<BLOCK_START(p), mem[size(BLOCK_START(p))], "large">>
    OBVIOUS
  <2>2. BLOCK_START(p) \notin DOMAIN F /\ p \notin DOMAIN live
    BY <1>2, <1>5, <2>1
  <2>3. x = D(BLOCK_START(p))
    BY <1>3, <2>1, <2>2 DEF Described
  <2>. QED
    BY <1>3, <2>3
<1>9. ASSUME NEW x \in A3 PROVE \E b \in S : x = D(b)
  <2>1. PICK i \in Index : x \in {<<b, ClassSize(i), i>> : b \in FreeList(i)}
    OBVIOUS
  <2>2. PICK b \in FreeList(i) : x = <<b, ClassSize(i), i>>
    BY <2>1
  <2>3. b \in DOMAIN F /\ F[b] = i
    BY <1>6
  <2>. QED
    BY <1>2, <2>2, <2>3 DEF Described
<1>10. ASSUME NEW b \in S PROVE D(b) \in A1 \cup A2 \cup A3
  <2>1. CASE b \in DOMAIN F
    <3>1. PICK i \in Index : F[b] = i
      BY <1>2, <2>1
    <3>2. b \in FreeList(i) /\ D(b) = <<b, ClassSize(i), i>>
      BY <1>6, <2>1, <3>1 DEF Described
    <3>3. D(b) \in {<<c, ClassSize(i), i>> : c \in FreeList(i)}
      BY <3>2
    <3>. HIDE DEF D
    <3>. QED
      BY <3>3
  <2>2. CASE b \notin DOMAIN F
    <3>1. PICK p \in DOMAIN live \cup freed : p = BLOCK_RET(b) /\ BLOCK_START(p) = b
      BY <1>4, <2>2
    <3>2. CASE p \in DOMAIN live
      <4>1. D(b) = <<BLOCK_START(p), mem[size(BLOCK_START(p))], "live">>
        BY <2>2, <3>1, <3>2 DEF Described
      <4>. HIDE DEF D
      <4>. QED
        BY <3>2, <4>1
    <3>3. CASE p \notin DOMAIN live
      <4>1. D(b) = <<BLOCK_START(p), mem[size(BLOCK_START(p))], "large">>
        BY <2>2, <3>1, <3>3 DEF Described
      <4>2. p \in freed /\ mem[size(BLOCK_START(p))] > MaxSmall
        BY <1>2, <2>2, <3>1, <3>3
      <4>. HIDE DEF D
      <4>. QED
        BY <4>1, <4>2
    <3>. QED
      BY <3>2, <3>3
  <2>. QED
    BY <2>1, <2>2
<1>. HIDE DEF A1, A2, A3, D
<1>11. Blocks = {D(b) : b \in S}
  BY <1>1, <1>7, <1>8, <1>9, <1>10
<1>. QED
  BY <1>11 DEF D, S

(* Every word the heap was cut to belongs to exactly one block: no calls,  *)
(* double frees included, lose a small block, put it on two lists or hand  *)
(* it out twice.                                                           *)
THEOREM CoveredExactly ==
  ASSUME ~KdbReturns, SumsFit
  PROVE  Spec => []ExactCover
<1>1. ASSUME HeapInv PROVE ExactCover
  <2>. SUFFICES ASSUME ~halted, NEW a \in HeapStart .. heap_ptr - 1
                PROVE  Cardinality({b \in Blocks : a \in b[1] .. b[1] + b[2] - 1}) = 1
    BY DEF ExactCover
  <2>1. PICK F, R, top : Layout(F, R, top, small_mem, mem, live, freed) /\ heap_ptr = top
    BY <1>1 DEF HeapInv
  <2>. DEFINE S == Starts(F, live, freed)
              D(b) == Described(F, mem, live, b)
              L(b) == Length(F, mem, b)
  <2>2. Blocks = {D(b) : b \in S}
    BY <2>1, BlocksAre
  <2>3. \A b \in S : D(b)[1] = b /\ D(b)[2] = L(b)
    BY DEF Described, Length
  <2>4. PICK c \in S : c <= a /\ a < c + L(c)
    BY <2>1 DEF Layout, Placed
  <2>5. c \in Nat /\ L(c) \in Nat
    BY <2>1, BlockFacts
  <2>6. a \in c .. c + L(c) - 1
    <3>. HIDE DEF L, S
    <3>. QED
      BY <2>4, <2>5
  <2>7. \A b \in S : a \in b .. b + L(b) - 1 => b = c
    BY <2>1, <2>6, WordsApart
  <2>. HIDE DEF S, D, L
  <2>8. {b \in Blocks : a \in b[1] .. b[1] + b[2] - 1} = {D(c)}
    <3>1. ASSUME NEW x \in Blocks, a \in x[1] .. x[1] + x[2] - 1 PROVE x = D(c)
      <4>1. PICK b \in S : x = D(b)
        BY <2>2
      <4>2. a \in b .. b + L(b) - 1
        BY <2>3, <3>1, <4>1
      <4>. QED
        BY <2>7, <4>1, <4>2
    <3>2. D(c) \in Blocks /\ a \in D(c)[1] .. D(c)[1] + D(c)[2] - 1
      BY <2>2, <2>3, <2>6
    <3>. QED
      BY <3>1, <3>2
  <2>. QED
    BY <2>8, FS_Singleton
<1>2. HeapInv => ExactCover
  BY <1>1
<1>. QED
  BY <1>2, HeapInvariant, PTL
=============================================================================
