----------------------------- MODULE MCStdLib -----------------------------
(* Six cells: room for a string and a copy of it, overlapping or not.      *)
EXTENDS StdLibCalls

(* NUL, and characters of either sign. *)
MCChar == {-1, 0, 1}
=============================================================================
