------------------------------- MODULE MCHeap -------------------------------
(* A heap of two pages with two block sizes, and requests at the         *)
(* boundaries: of a class, of the small sizes, of a page, of the word.     *)
EXTENDS Heap

MCRequest == {0, 2, 3, 7, 61, 62, 63}
MCCallocRequest == {<<0, 5>>, <<2, 3>>, <<16, 5>>}
=============================================================================
