---------------------------- MODULE NameService ----------------------------
(***************************************************************************)
(* What the name server promises its clients, without its table of slots.  *)
(*                                                                         *)
(* A thread holds a set of names.  A query is answered with one thread or  *)
(* with NilThread.  The promise is deliberately weak about WHEN a name     *)
(* resolves (the table may hide a name behind a freed slot) and strong     *)
(* about WHO may answer: an answer never moves from one thread to another, *)
(* it comes only from a thread that holds a prefix of the query, and a     *)
(* thread that has deregistered answers nothing.                           *)
(***************************************************************************)
EXTENDS Sequences, SequencesExt

CONSTANTS
  Thread,      \* Threads that may register.
  NilThread,   \* L4_nilthread: nobody answers.
  Name,        \* Names that can be held.
  Query        \* Paths that are looked up.

VARIABLES
  holders,     \* Set of <<name, thread>> pairs.
  answer       \* Thread that answers each query now.

vars == <<holders, answer>>

Holds(t, q, hs) == \E h \in hs : h[2] = t /\ IsPrefix(h[1], q)

Init ==
  /\ holders = {}
  /\ answer = [q \in Query |-> NilThread]

(* Thread c takes name n.  Answered queries keep their answer. *)
Register(c, n) ==
  /\ holders' = holders \cup {<<n, c>>}
  /\ DOMAIN answer' = Query
  /\ \A q \in Query :
       IF answer[q] # NilThread
       THEN answer'[q] = answer[q]
       ELSE answer'[q] = NilThread \/ Holds(answer'[q], q, holders')

(* Thread c gives up all its names.  Others may lose answers, none may     *)
(* gain one, and c answers nothing any more.                               *)
Deregister(c) ==
  /\ holders' = {h \in holders : h[2] # c}
  /\ DOMAIN answer' = Query
  /\ \A q \in Query : answer'[q] # c /\ answer'[q] \in {answer[q], NilThread}

Next ==
  \E c \in Thread :
    \/ \E n \in Name : Register(c, n)
    \/ Deregister(c)

Spec == Init /\ [][Next]_vars
=============================================================================
