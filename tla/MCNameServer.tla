---------------------------- MODULE MCNameServer ----------------------------
(* Small instance of the name server: paths that are prefixes of each     *)
(* other, one that truncation shortens to another's neighbour, the empty  *)
(* path and the server's own names.                                       *)
EXTENDS NameServer

CONSTANTS a, b

MCPath == {<<>>, <<Slash, a>>, <<Slash, b>>, <<Slash, a, Slash, b>>}
MCQuery == MCPath \cup {<<Slash>>, <<Slash, a, b>>}

=============================================================================
