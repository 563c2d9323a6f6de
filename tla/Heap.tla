-------------------------------- MODULE Heap --------------------------------
(***************************************************************************)
(* The heap every task links (lib/sdi/heap.cc): small requests are served  *)
(* from one free list per power of two, cut out of pages that do_mmap      *)
(* takes from the end of a fixed area; large requests take whole pages and *)
(* are never reused.  The free lists live in the free blocks themselves.   *)
(*                                                                         *)
(* An address names one machine word; every size is counted in words.      *)
(***************************************************************************)
EXTENDS Naturals, FiniteSets

CONSTANTS
  WordSize,        \* Size of the address space: addresses wrap here.
  HeapStart,       \* __heap_start
  HeapEnd,         \* __heap_end
  BlockSize,       \* MEM_BLOCK_SIZE
  MinSmall,        \* __MIN_SMALL_SIZE
  LastIndex,       \* Index of the last list used in __small_mem.
  Request,         \* Arguments of malloc.
  CallocRequest,   \* Arguments of calloc: <<nmemb, _size>>.
  MaxLive,         \* Bound: blocks held at once.
  KdbReturns       \* Whether L4_KDB_Enter in bailout() comes back.

HeaderSize == 2                 \* sizeof(__alloc_t): next and size.
MaxSmall == BlockSize \div 2    \* __MAX_SMALL_SIZE

(* What a shift by i multiplies with. *)
power[i \in 0 .. LastIndex + 1] == IF i = 0 THEN 1 ELSE 2 * power[i - 1]

ASSUME AreaAssumption ==
  /\ {WordSize, HeapStart, HeapEnd, BlockSize, MinSmall, LastIndex,
      MaxLive} \subseteq Nat
  /\ 0 < HeapStart /\ HeapStart <= HeapEnd /\ HeapEnd < WordSize
  /\ HeaderSize < MinSmall /\ MinSmall * power[LastIndex] = MaxSmall
  /\ BlockSize = 2 * MaxSmall

ASSUME RequestAssumption ==
  /\ Request \subseteq 0 .. WordSize - 1
  /\ CallocRequest \subseteq (0 .. WordSize - 1) \X (0 .. WordSize - 1)
  /\ KdbReturns \in BOOLEAN

VARIABLES
  heap_ptr,    \* __heap_ptr: where do_mmap cuts next.
  small_mem,   \* __small_mem: first free block of each list, 0 at its end.
  mem,         \* Memory: word -> value.
  live,        \* What callers hold: pointer -> length they asked for.
  freed,       \* Pointers that were freed and not handed out again.
  halted       \* bailout() stopped the task in the kernel debugger.

vars == <<heap_ptr, small_mem, mem, live, freed, halted>>

Address == 0 .. WordSize - 1
Index == 0 .. LastIndex
Dirt == WordSize - 1

next(b) == b       \* Where a block's header has its next pointer,
size(b) == b + 1   \* and where its size.
BLOCK_START(p) == p - HeaderSize
BLOCK_RET(b) == b + HeaderSize

PAGE_ALIGN(s) ==
  LET t == (s + BlockSize - 1) % WordSize IN t - (t % BlockSize)

(* The bits of size - 1 above the smallest class are counted. *)
get_index(s) ==
  LET t == ((s - 1) % BlockSize) \div MinSmall
  IN  CHOOSE i \in 0 .. LastIndex + 1 : t < power[i] /\ (i = 0 \/ power[i - 1] <= t)

ClassSize(i) == MinSmall * power[i]
GET_SIZE(s) == ClassSize(get_index(s))

(* The area is zeroed data of the task's image. *)
Init ==
  /\ heap_ptr = HeapStart
  /\ small_mem = [i \in Index |-> 0]
  /\ mem = [a \in Address |-> 0]
  /\ live = << >> /\ freed = {} /\ halted = FALSE

-----------------------------------------------------------------------------
(* do_mmap(s): the pages at heap_ptr, unless the task halts: before it     *)
(* takes any where __heap_ptr is NULL, which it starts as in no program    *)
(* but may wrap to, or when it took more than there are.                   *)
Uninitialized == heap_ptr = 0
Advanced(s) == (heap_ptr + s) % WordSize
Exhausted(s) == Advanced(s) > HeapEnd
Halts(s) == (Uninitialized \/ Exhausted(s)) /\ ~KdbReturns

Halt(s) ==
  /\ heap_ptr' = IF Uninitialized THEN heap_ptr ELSE Advanced(s)
  /\ halted' = TRUE
  /\ UNCHANGED <<small_mem, mem, live, freed>>

(* The caller gets block b, marked as s words long, for n words of data. *)
HandOut(b, s, n, m) ==
  /\ mem' = [m EXCEPT ![size(b)] = s]
  /\ live' = [p \in DOMAIN live \cup {BLOCK_RET(b)} |->
                IF p = BLOCK_RET(b) THEN n ELSE live[p]]
  /\ freed' = freed \ {BLOCK_RET(b)}
  /\ UNCHANGED halted

(* The first block of list i. *)
TakeFirst(i, n) ==
  LET b == small_mem[i] IN
  /\ small_mem' = [small_mem EXCEPT ![i] = mem[next(b)]]
  /\ HandOut(b, ClassSize(i), n, [mem EXCEPT ![next(b)] = 0])
  /\ UNCHANGED heap_ptr

(* Faulty variant: one link too many, beyond the end of the page. *)
ChainedBeyond(page, s) ==
  LET Starts == {page + k * s : k \in 0 .. BlockSize \div s - 1}
  IN  [a \in Address |-> IF a \in Starts THEN a + s ELSE mem[a]]

(* A page as a chain of blocks of s words. *)
Chained(page, s) ==
  LET Starts == {page + k * s : k \in 0 .. BlockSize \div s - 1}
  IN  [a \in Address |->
         IF a \in Starts THEN IF a + s \in Starts THEN a + s ELSE 0 ELSE mem[a]]

(* A new page is cut up for list i and its first block taken. *)
TakeFromNewPage(i, n) ==
  LET b == heap_ptr
      m == Chained(b, ClassSize(i)) IN
  IF Halts(BlockSize) THEN Halt(BlockSize)
  ELSE /\ heap_ptr' = Advanced(BlockSize)
       /\ small_mem' = [small_mem EXCEPT ![i] = m[next(b)]]
       /\ HandOut(b, ClassSize(i), n, [m EXCEPT ![next(b)] = 0])

(* Whole pages. *)
TakePages(s, n) ==
  IF Halts(s) THEN Halt(s)
  ELSE /\ heap_ptr' = Advanced(s)
       /\ HandOut(heap_ptr, s, n, mem)
       /\ UNCHANGED small_mem

(* malloc(arg) returns NULL: for nothing at all, and where a size wraps.    *)
Refused(arg) ==
  LET s == (arg + HeaderSize) % WordSize IN
  arg = 0 \/ s < HeaderSize \/ (s > MaxSmall /\ PAGE_ALIGN(s) = 0)

(* malloc(arg), called for a block of n words. *)
Allocate(arg, n) ==
  LET s == (arg + HeaderSize) % WordSize IN
  CASE Refused(arg) -> UNCHANGED vars
    [] ~Refused(arg) /\ s <= MaxSmall ->
         IF small_mem[get_index(s)] # 0 THEN TakeFirst(get_index(s), n)
                                        ELSE TakeFromNewPage(get_index(s), n)
    [] OTHER -> TakePages(PAGE_ALIGN(s), n)

MayAsk == ~halted /\ Cardinality(DOMAIN live) < MaxLive

malloc(n) == MayAsk /\ Allocate(n, n)

(* calloc(nmemb, _size): does not clear, relies on malloc's blocks being 0. *)
calloc(k, s) ==
  LET n == (s * k) % WordSize IN
  /\ MayAsk
  /\ IF k # 0 /\ n \div k # s THEN UNCHANGED vars ELSE Allocate(n, s * k)

(* operator new and new[]: a NULL enters the kernel debugger. *)
new(n) ==
  /\ MayAsk
  /\ IF Refused(n) THEN /\ halted' = ~KdbReturns
                        /\ UNCHANGED <<heap_ptr, small_mem, mem, live, freed>>
                   ELSE Allocate(n, n)

-----------------------------------------------------------------------------
Without(p) == [q \in DOMAIN live \ {p} |-> live[q]]

(* Faulty variants: only the header is cleared; the block is not put back. *)
SmallFreeHeader(b, s) ==
  LET i == get_index(s) IN
  /\ mem' = [mem EXCEPT ![next(b)] = small_mem[i], ![size(b)] = 0]
  /\ small_mem' = [small_mem EXCEPT ![i] = b]

SmallFreeLost(b, s) ==
  /\ mem' = [a \in Address |-> IF a \in b .. b + s - 1 THEN 0 ELSE mem[a]]
  /\ UNCHANGED small_mem

(* __small_free: clear the block, header included, and put it first. *)
small_free(b, s) ==
  LET i == get_index(s) IN
  /\ mem' = [a \in Address |-> IF a = next(b) THEN small_mem[i]
                               ELSE IF a \in b .. b + s - 1 THEN 0 ELSE mem[a]]
  /\ small_mem' = [small_mem EXCEPT ![i] = b]

(* free(p) of a pointer the caller holds, or freed before: a small block's *)
(* size word is 0 by then.  Large blocks are not taken back.               *)
free(p) ==
  LET b == BLOCK_START(p)
      s == mem[size(b)] IN
  /\ ~halted
  /\ IF s \in 1 .. MaxSmall
     THEN small_free(b, s)
     ELSE UNCHANGED <<mem, small_mem>>
  /\ live' = Without(p)
  /\ freed' = freed \cup {p}
  /\ UNCHANGED <<heap_ptr, halted>>

(* operator delete and delete[]. *)
delete(p) == free(p)

(* The caller fills its block. *)
Write(p) ==
  /\ ~halted
  /\ mem' = [a \in Address |-> IF a \in p .. p + live[p] - 1 THEN Dirt ELSE mem[a]]
  /\ UNCHANGED <<heap_ptr, small_mem, live, freed, halted>>

Next ==
  \/ \E n \in Request : malloc(n)
  \/ \E r \in CallocRequest : calloc(r[1], r[2])
  \/ \E n \in Request : new(n)
  \/ \E p \in DOMAIN live \cup freed : free(p) \/ delete(p)
  \/ \E p \in DOMAIN live : Write(p)

Spec == Init /\ [][Next]_vars

-----------------------------------------------------------------------------
(* The allocator's words have their C types, list heads point into the     *)
(* area, and a pointer is held or freed, not both.                         *)
TypeOK ==
  /\ heap_ptr \in Address
  /\ small_mem \in [Index -> {0} \cup HeapStart .. HeapEnd - 1]
  /\ mem \in [Address -> Address]
  /\ DOMAIN live \subseteq Address /\ \A p \in DOMAIN live : live[p] \in Nat
  /\ freed \subseteq Address /\ freed \cap DOMAIN live = {}
  /\ halted \in BOOLEAN

(* Blocks on list i: what its chain of next pointers reaches. *)
FreeList(i) ==
  LET Reach[k \in 0 .. WordSize] ==
        IF k = 0 THEN {small_mem[i]}
        ELSE LET r == Reach[k - 1]
             IN  r \cup {mem[next(b)] : b \in r \ {0}}
  IN  Reach[(HeapEnd - HeapStart) \div MinSmall] \ {0}

(* Every block there is, as <<start, length, what it is>>. *)
Blocks ==
  {<<BLOCK_START(p), mem[size(BLOCK_START(p))], "live">> : p \in DOMAIN live}
  \cup {<<BLOCK_START(p), mem[size(BLOCK_START(p))], "large">> :
          p \in {q \in freed : mem[size(BLOCK_START(q))] > MaxSmall}}
  \cup UNION {{<<b, ClassSize(i), i>> : b \in FreeList(i)} : i \in Index}

(* Every word between the heap's start and heap_ptr belongs to exactly one *)
(* block: one that a caller holds, one on the free list of its size, or a  *)
(* large one freed before.  No sequence of calls, double frees included,   *)
(* loses a small block, puts it on two lists or hands it out twice.        *)
ExactCover ==
  ~halted =>
    \A a \in HeapStart .. heap_ptr - 1 :
      Cardinality({b \in Blocks : a \in b[1] .. b[1] + b[2] - 1}) = 1

(* What callers hold lies inside the heap. *)
InsideHeap ==
  \A p \in DOMAIN live : HeapStart <= p /\ p + live[p] <= HeapEnd

(* What callers find in the blocks they hold. *)
Contents ==
  [p \in DOMAIN live |-> [i \in 0 .. live[p] - 1 |-> mem[(p + i) % WordSize]]]

(* The heap keeps the promise of module Allocator: blocks apart, zeroed    *)
(* when handed out ("allways zero out small mem", line 92) although calloc *)
(* clears nothing, and untouched by the calls for other blocks.            *)
Promise ==
  INSTANCE Allocator WITH
    Arena  <- HeapStart .. HeapEnd - 1,
    Length <- Request \cup {r[1] * r[2] : r \in CallocRequest},
    blocks <- Contents

ImplementsAllocator == Promise!Spec
=============================================================================
