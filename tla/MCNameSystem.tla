---------------------------- MODULE MCNameSystem ----------------------------
(* Threads and their programs.                                             *)
EXTENDS NameSystem, TLC

CONSTANTS th1, th2, th3, th4, ca, cb, cd

register(x) == [op |-> "register", path |-> x]
lookup(x)   == [op |-> "lookup", path |-> x]
deregister  == [op |-> "deregister", path |-> <<>>]
driver(o, x) == [op |-> o, path |-> x]

A == <<Slash, ca>>
B == <<Slash, cb>>
AB == A \o B
MCDriverPath == <<Slash, cd>>

(* Names come and go while others are looked up, some below a registered   *)
(* name, some the server's own.                                            *)
ChurnProgram ==
  (th1 :> <<register(A), deregister>>) @@
  (th2 :> <<register(AB \o <<cb, cb>>), lookup(A)>>) @@
  (th3 :> <<lookup(AB), lookup(<<Slash>>)>>) @@
  (th4 :> <<register(B), deregister, register(AB)>>)

(* A driver server that comes up late, two of its clients, and a lookup.   *)
DriverProgram ==
  (th1 :> <<register(MCDriverPath)>>) @@
  (th2 :> <<driver("driver_register", A), driver("driver_deregister", <<>>)>>) @@
  (th3 :> <<register(B), driver("driver_register", B)>>) @@
  (th4 :> <<lookup(B), lookup(MCDriverPath \o A)>>)

(* Two servers each look below the other's name before they serve, and a  *)
(* third thread looks below one of them, with a path too long for in[].    *)
MutualProgram ==
  (th1 :> <<register(A), lookup(B \o A)>>) @@
  (th2 :> <<register(B), lookup(AB)>>) @@
  (th3 :> <<lookup(AB \o A)>>) @@
  (th4 :> <<lookup(A)>>)

(* A registered thread that never serves, and one that does, both with     *)
(* clients; a name that fills its entry.                                   *)
SpinnerProgram ==
  (th1 :> <<register(A), lookup(B)>>) @@
  (th2 :> <<lookup(B \o A), lookup(A)>>) @@
  (th3 :> <<lookup(AB), register(<<Slash, cd, cd, cd, cd>>)>>) @@
  (th4 :> <<register(B)>>)

MCPrograms == {ChurnProgram, DriverProgram, MutualProgram, SpinnerProgram}
MCStackTail == {<<>>, <<ca>>}
=============================================================================
