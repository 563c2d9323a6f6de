----------------------------- MODULE Allocator -----------------------------
(***************************************************************************)
(* What malloc, calloc and free promise: every block lies in the arena and *)
(* apart from every other, holds zeros when it is handed out and keeps     *)
(* what its owner writes until it is released.  An allocation may always   *)
(* fail; memory that was released may come back in another block.          *)
(***************************************************************************)
EXTENDS Naturals

CONSTANTS
  Arena,    \* Addresses that may be handed out.
  Length,   \* Lengths that may be asked for.
  Dirt      \* What an owner writes.

VARIABLE blocks    \* Address of each block -> its contents.

Cells(p) == {p + i : i \in DOMAIN blocks[p]}

Init == blocks = << >>

(* A block of n cells, apart from all others and zeroed. *)
Allocate(n) ==
  \E p \in Arena :
    /\ p .. p + n - 1 \subseteq Arena
    /\ \A q \in DOMAIN blocks : (p .. p + n - 1) \cap Cells(q) = {}
    /\ blocks' = [q \in DOMAIN blocks \cup {p} |->
                    IF q = p THEN [i \in 0 .. n - 1 |-> 0] ELSE blocks[q]]

(* Its owner fills a block. *)
Fill(p) == blocks' = [blocks EXCEPT ![p] = [i \in DOMAIN @ |-> Dirt]]

Release(p) == blocks' = [q \in DOMAIN blocks \ {p} |-> blocks[q]]

Next ==
  \/ \E n \in Length : Allocate(n)
  \/ \E p \in DOMAIN blocks : Fill(p) \/ Release(p)

Spec == Init /\ [][Next]_blocks
=============================================================================
