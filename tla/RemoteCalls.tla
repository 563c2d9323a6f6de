---------------------------- MODULE RemoteCalls ----------------------------
(* What calling a server promises: a call ends at most once, with one of   *)
(* the outcomes of the very request that was made, and does end if the     *)
(* request has an outcome at all, whatever the other clients do.           *)
EXTENDS Naturals

CONSTANTS
  Client,      \* Threads that call.
  Request,     \* What can be asked for.
  Outcomes,    \* Each request: how its call may end; {} if never.
  NoRequest,   \* No call under way.
  NoResult     \* Nothing has come back since the call began.

VARIABLES
  pending,     \* Each client: the request it waits for.
  result       \* Each client: how its last call ended.

vars == <<pending, result>>

Init ==
  /\ pending = [c \in Client |-> NoRequest]
  /\ result = [c \in Client |-> NoResult]

Call(c) ==
  /\ pending[c] = NoRequest
  /\ \E r \in Request : pending' = [pending EXCEPT ![c] = r]
  /\ result' = [result EXCEPT ![c] = NoResult]

Return(c) ==
  /\ pending[c] # NoRequest
  /\ \E x \in Outcomes[pending[c]] : result' = [result EXCEPT ![c] = x]
  /\ pending' = [pending EXCEPT ![c] = NoRequest]

Next == \E c \in Client : Call(c) \/ Return(c)

Spec == Init /\ [][Next]_vars /\ \A c \in Client : WF_vars(Return(c))
=============================================================================
