---------------------------- MODULE StdLibCalls ----------------------------
(* A program that makes one call of a helper of include/stdlib.h on any    *)
(* contents of the memory, with any arguments that name cells of it.       *)
EXTENDS StdLib, Sequences, SequencesExt

VARIABLES
  mem,     \* The memory.
  call,    \* The call made, [op, args]; <<>> before.
  ret      \* What it returned.

vars == <<mem, call, ret>>

Init ==
  /\ mem \in [Addr -> Char]
  /\ call = [op |-> "none", args |-> <<>>]
  /\ ret = 0

(* The n cells from p on are in the memory. *)
Fits(p, n) == p + n - 1 <= Size

Made(op, args) == call' = [op |-> op, args |-> args]
Returns(w) == mem' = w.mem /\ ret' = w.ret
Result(x) == mem' = mem /\ ret' = x

Write ==
  \E d \in Addr, n \in 0 .. Size :
    /\ Fits(d, n)
    /\ \/ \E c \in Char : /\ Made("memset", <<d, c, n>>)
                          /\ mem' = memset(mem, d, c, n) /\ ret' = 0
       \/ \E s \in Addr :
            /\ Fits(s, n)
            /\ \/ /\ Made("memcpy", <<d, s, n>>)
                  /\ mem' = memcpy(mem, d, s, n) /\ ret' = 0
               \/ Made("strncpy", <<d, s, n>>) /\ Returns(strncpy(mem, d, s, n))

CopyString ==
  \E d, s \in Addr : Made("strcpy", <<d, s>>) /\ Returns(strcpy(mem, d, s))

Read ==
  \/ \E p, q \in Addr, n \in 0 .. Size :
       /\ Fits(p, n) /\ Fits(q, n)
       /\ Made("strncmp", <<p, q, n>>) /\ Result(strncmp(mem, p, q, n))
  \/ \E p \in Addr : Made("strlen", <<p>>) /\ Result(strlen(mem, p))
  \/ \E p \in Addr, c \in Char : Made("strchr", <<p, c>>) /\ Result(strchr(mem, p, c))

(* The functions on words, for which the memory does not matter.           *)
Compute ==
  /\ \A x \in Addr : mem[x] = NUL
  /\ \E x, y \in Word :
       \/ Made("min", <<x, y>>) /\ Result(min(x, y))
       \/ Made("max", <<x, y>>) /\ Result(max(x, y))
       \/ /\ y < WordBits
          /\ \/ Made("aroundLb", <<x, y>>) /\ Result(aroundLb(x, y))
             \/ Made("aroundUpLb", <<x, y>>) /\ Result(aroundUpLb(x, y))
       \/ Made("msBit", <<x>>) /\ Result(msBit(x))
       \/ Made("lsBit", <<x>>) /\ Result(lsBit(x))
       \/ Made("numBits", <<x>>) /\ Result(numBits(x))

Next == call.op = "none" /\ (Write \/ CopyString \/ Read \/ Compute)

Spec == Init /\ [][Next]_vars

-----------------------------------------------------------------------------
Op == {"none", "memset", "memcpy", "strncpy", "strcpy", "strncmp", "strlen", "strchr",
       "min", "max", "aroundLb", "aroundUpLb", "msBit", "lsBit", "numBits"}

(* Every variable has its type: no call puts anything into the memory that *)
(* is not a character.                                                     *)
TypeOK ==
  /\ mem \in [Addr -> Char]
  /\ call.op \in Op
  /\ call.args \in Seq(Int)
  /\ ret \in Int

Was(op) == call'.op = op
arg(i) == call'.args[i]

Terminated(m, p) == \E x \in p .. Size : m[x] = NUL

(* The string at p as a sequence. *)
Text(m, p) ==
  LET n == CHOOSE k \in 0 .. Size : m[p + k] = NUL /\ \A j \in 0 .. k - 1 : m[p + j] # NUL
  IN [i \in 1 .. n |-> m[p + i - 1]]

Cells(p, n) == p .. p + n - 1
SameOutside(xs) == \A x \in Addr \ xs : mem'[x] = mem[x]

(* memset and memcpy write the cells they are told to and no other; memcpy *)
(* leaves there what the source held before, also when the destination     *)
(* overlaps it from below, as an image may overlap its module.             *)
CopiesExactly ==
  [][/\ Was("memset") => /\ \A x \in Cells(arg(1), arg(3)) : mem'[x] = arg(2)
                         /\ SameOutside(Cells(arg(1), arg(3)))
     /\ Was("memcpy") =>
          /\ SameOutside(Cells(arg(1), arg(3)))
          /\ arg(1) <= arg(2) \/ Cells(arg(1), arg(3)) \cap Cells(arg(2), arg(3)) = {}
             => \A k \in 0 .. arg(3) - 1 : mem'[arg(1) + k] = mem[arg(2) + k]]_vars

(* The name server's slots: max characters and a cell that strncpy never   *)
(* writes and that holds NUL from the start.  Whatever was in the slot,    *)
(* and however long the source, it holds the source's first max characters *)
(* afterwards as a string that ends.  Without that cell the client's in[]  *)
(* ends only if the source is shorter than max.                            *)
SlotHoldsPrefix ==
  [][Was("strncpy") =>
       LET d == arg(1)
           s == arg(2)
           n == arg(3) IN
       /\ SameOutside(Cells(d, n))
       /\ /\ d + n \in Addr /\ mem[d + n] = NUL
          /\ Terminated(mem, s) /\ Cells(d, n + 1) \cap Cells(s, Len(Text(mem, s)) + 1) = {}
          => Text(mem', d) = SubSeq(Text(mem, s), 1, min(n, Len(Text(mem, s))))
       /\ Terminated(mem, s) /\ Cells(d, n) \cap Cells(s, Len(Text(mem, s)) + 1) = {}
          => IF Len(Text(mem, s)) < n THEN Text(mem', d) = Text(mem, s)
             ELSE \A x \in Cells(d, n) : mem'[x] # NUL]_vars

(* strcpy copies the string and its NUL, unless the copy starts inside the *)
(* string: then it overwrites the NUL before it has read it and runs on.   *)
CopiesString ==
  [][Was("strcpy") /\ Terminated(mem, arg(2)) =>
       LET n == Len(Text(mem, arg(2))) IN
       IF arg(2) < arg(1) /\ arg(1) <= arg(2) + n THEN ret' = Fault
       ELSE IF Fits(arg(1), n + 1)
       THEN ret' = arg(1) /\ Text(mem', arg(1)) = Text(mem, arg(2))
                          /\ SameOutside(Cells(arg(1), n + 1))
       ELSE ret' = Fault]_vars

(* strncmp over the length of one string tells whether that is a prefix of *)
(* the other: the name server's scan asks it of the first string,          *)
(* find_module_byname of the second.  Over more than that it orders the    *)
(* two as dictionaries do.                                                 *)
TellsPrefix ==
  [][Was("strncmp") /\ Terminated(mem, arg(1)) /\ Terminated(mem, arg(2)) =>
       LET x == Text(mem, arg(1))
           y == Text(mem, arg(2)) IN
       /\ arg(3) = Len(x) => (ret' = 0 <=> IsPrefix(x, y))
       /\ arg(3) = Len(y) => (ret' = 0 <=> IsPrefix(y, x))
       /\ arg(3) > Max({Len(x), Len(y)}) => (ret' = 0 <=> x = y)
       /\ ret' < 0 <=> \E k \in 0 .. arg(3) - 1 :
                         /\ k <= Len(x) /\ k <= Len(y)
                         /\ SubSeq(x, 1, k) = SubSeq(y, 1, k)
                         /\ mem[arg(1) + k] < mem[arg(2) + k]]_vars

(* strlen and strchr look no further than the string they are given.       *)
StaysInString ==
  [][/\ Was("strlen") /\ Terminated(mem, arg(1)) => ret' = Len(Text(mem, arg(1)))
     /\ Was("strchr") /\ Terminated(mem, arg(1)) =>
          LET x == Text(mem, arg(1)) IN
          ret' = IF arg(2) = NUL THEN arg(1) + Len(x)
                 ELSE IF \E i \in 1 .. Len(x) : x[i] = arg(2)
                 THEN arg(1) - 1 + Min({i \in 1 .. Len(x) : x[i] = arg(2)})
                 ELSE NULL]_vars

(* The rounding helpers give the nearest multiple of 2^n, but 0 when the   *)
(* one above is past the end of the word; msBit and lsBit the bits that    *)
(* enclose the value, which root takes for the page size; numBits the      *)
(* number of bits but the highest.                                         *)
WordsRight ==
  LET x == call.args[1]
      y == call.args[2]
      multiples == {z \in Word : z % Power[y] = 0} IN
  /\ call.op = "aroundLb" => ret = Max({z \in multiples : z <= x})
  /\ call.op = "aroundUpLb" =>
       LET above == {z \in multiples : z >= x} IN
       ret = IF above = {} THEN 0 ELSE Min(above)
  /\ call.op = "msBit" /\ x # 0 => ret < WordBits /\ Power[ret] <= x /\ x < Power[ret + 1]
  /\ call.op = "lsBit" /\ x # 0 => ret < WordBits /\ x % Power[ret] = 0 /\ x % Power[ret + 1] # 0
  /\ call.op \in {"msBit", "lsBit"} /\ x = 0 => ret = AllOnes
  /\ call.op = "numBits" =>
       \E bits \in SUBSET (0 .. WordBits - 2) :
         ret = Cardinality(bits) /\ WordOf(bits) = x % Power[WordBits - 1]
  /\ call.op = "min" => ret = Min({x, y})
  /\ call.op = "max" => ret = Max({x, y})
=============================================================================
