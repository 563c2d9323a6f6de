----------------------------- MODULE NameSystem -----------------------------
(***************************************************************************)
(* Threads that use the name service through libsdi: each runs a program   *)
(* of calls of nameserver_register, _deregister, _lookup                   *)
(* (lib/sdi/nameserver.cc), driverserver_register and _deregister          *)
(* (lib/sdi/driverserver.cc), and may then serve requests itself.  The     *)
(* calls reach the name server and the servers it names as synchronous L4  *)
(* IPC: a caller waits in its callee's queue of senders, then for the      *)
(* reply.                                                                  *)
(***************************************************************************)
EXTENDS Integers, Sequences, FiniteSets, SequencesExt

CONSTANTS
  Thread, NilThread, NameServerId,           \* As in NameServer.
  Char, Slash, NullString, MaxEntries, MaxEntryLen,
  DriverPath,    \* The path "/driver".
  DriverServer,  \* The thread whose loop knows IF_DRIVERSERVER.
  Server,        \* Threads that enter a server loop after their program.
  StackTail,     \* What may follow the buffer in[] on a client's stack.
  Programs       \* What the threads may be about to do: a set of functions
                 \* from threads to sequences of calls [op, path].

VARIABLES
  prog,     \* What each thread does: constant after Init.
  names,    \* The name server's table.
  at,       \* Each thread: its position in its program.
  pc,       \* Each thread: ready, or where it is in the call.
  cur,      \* Whom it called last,
  in,       \* and the path it asked for.
  reply,    \* The answer to its last Lookup.
  queue,    \* Each receiver: the threads waiting to send to it, in order.
  drivers,  \* <<thread, path>> pairs the driver server has taken.
  holders,  \* History: <<path, thread>> registered and not deregistered.
  seen,     \* History: all that was held since the thread's call began,
  lasting   \* and what was held all the time since then.

vars == <<prog, names, at, pc, cur, in, reply, queue, drivers,
          holders, seen, lasting>>

(* The paths the programs name. *)
PathsOf(p) == {p[i].path : i \in DOMAIN p}
Paths == UNION {UNION {PathsOf(program[t]) : t \in Thread} : program \in Programs}

N == INSTANCE NameServer WITH Path <- Paths, Query <- Paths

(* strncpy(in, p, MaxEntryLen) leaves a longer path without its NUL, and   *)
(* what is read from in[] then goes on with what lies behind it.           *)
Copies(p) ==
  IF Len(p) < MaxEntryLen THEN {p} ELSE {N!Stored(p) \o x : x \in StackTail}

DriverOp == {"driver_register", "driver_deregister"}

ASSUME ProgramAssumption ==
  /\ NilThread \notin Thread /\ NameServerId \notin Thread \cup {NilThread}
  /\ Server \subseteq Thread /\ DriverServer \in Thread
  /\ StackTail \subseteq Seq(Char) /\ StackTail # {}
  /\ \A program \in Programs : program \in
       [Thread -> Seq([op : {"register", "deregister", "lookup"} \cup DriverOp,
                       path : Seq(Char)])]

(* "/driver" fits into in[] with its NUL. *)
ASSUME BufferAssumption ==
  /\ MaxEntries \in Nat /\ MaxEntryLen \in Nat /\ Slash \in Char
  /\ DriverPath \in Seq(Char) /\ Len(DriverPath) < MaxEntryLen

(* The lookup y is sent on to the thread that registered x.                *)
Leads(x, y) ==
  /\ x.op = "register" /\ y.op = "lookup"
  /\ \E q \in Copies(y.path) : IsStrictPrefix(N!Stored(x.path), q)

(* No thread looks up a path below a name of its own, which would be an    *)
(* IPC to itself; only the driver server takes a name that answers         *)
(* "/driver".                                                              *)
ASSUME CallAssumption ==
  \A program \in Programs : \A t \in Thread : \A i, j \in DOMAIN program[t] :
    LET x == program[t][i]
        y == program[t][j] IN
    /\ i < j => ~Leads(x, y)
    /\ x.op = "register" /\ IsPrefix(x.path, DriverPath) => t = DriverServer
    /\ x.op \in DriverOp => t # DriverServer

Receiver == Thread \cup {NameServerId}
Done(t)  == pc[t] = "ready" /\ at[t] > Len(prog[t])
call(t)  == prog[t][at[t]]

Init ==
  /\ prog \in Programs
  /\ N!Init
  /\ at = [t \in Thread |-> 1]
  /\ pc = [t \in Thread |-> "ready"]
  /\ cur = [t \in Thread |-> NilThread]
  /\ in = [t \in Thread |-> <<>>]
  /\ reply = [t \in Thread |-> [thread |-> NilThread, remaining |-> <<>>]]
  /\ queue = [r \in Receiver |-> <<>>]
  /\ drivers = {}
  /\ holders = {}
  /\ seen = [t \in Thread |-> {}] /\ lasting = [t \in Thread |-> {}]

-----------------------------------------------------------------------------
(* The IPC of thread t to receiver r, the Lookup of path p if it is one.   *)
Send(t, r, p, where) ==
  /\ queue' = [queue EXCEPT ![r] = Append(@, t)]
  /\ cur' = [cur EXCEPT ![t] = r]
  /\ in' = [in EXCEPT ![t] = p]
  /\ pc' = [pc EXCEPT ![t] = where]

InLookup(t) == ~Done(t) /\ call(t).op = "lookup" /\ pc[t] # "ready"

(* Thread t starts its next call: each begins at the name server.          *)
Call(t) ==
  /\ pc[t] = "ready" /\ ~Done(t)
  /\ \/ /\ call(t).op \in {"register", "deregister"}
        /\ Send(t, NameServerId, <<>>, "request")
     \/ /\ call(t).op = "lookup"
        /\ \E q \in Copies(call(t).path) : Send(t, NameServerId, q, "lookup")
     \/ /\ call(t).op \in DriverOp
        /\ Send(t, NameServerId, DriverPath, "lookup")
  /\ IF call(t).op = "lookup"
     THEN /\ seen' = [seen EXCEPT ![t] = holders]
          /\ lasting' = [lasting EXCEPT ![t] = holders]
     ELSE UNCHANGED <<seen, lasting>>
  /\ UNCHANGED <<prog, names, at, reply, drivers, holders>>

(* The call of thread t returns.                                           *)
Return(t) ==
  /\ at' = [at EXCEPT ![t] = @ + 1]
  /\ pc' = [pc EXCEPT ![t] = "ready"]

Hold(hs) ==
  /\ holders' = hs
  /\ seen' = [t \in Thread |-> IF InLookup(t) THEN seen[t] \cup hs ELSE {}]
  /\ lasting' = [t \in Thread |-> lasting[t] \cap hs]

Answer(t, a) ==
  /\ reply' = [reply EXCEPT ![t] = a]
  /\ pc' = [pc EXCEPT ![t] = "answered"]

(* nameserver_server(): take the first caller, process, reply.             *)
NameServerStep ==
  LET s == NameServerId
      t == Head(queue[s]) IN
  /\ queue[s] # <<>>
  /\ queue' = [queue EXCEPT ![s] = Tail(@)]
  /\ \/ /\ pc[t] = "request" /\ call(t).op = "register"
        /\ N!Register(t, call(t).path)
        /\ Return(t) /\ UNCHANGED reply
        /\ Hold(IF N!find_free_entry >= 0
                THEN holders \cup {<<N!Stored(call(t).path), t>>} ELSE holders)
     \/ /\ pc[t] = "request" /\ call(t).op = "deregister"
        /\ N!Deregister(t)
        /\ Return(t) /\ UNCHANGED reply
        /\ Hold({h \in holders : h[2] # t})
     \/ /\ pc[t] = "lookup"
        /\ Answer(t, N!Lookup(in[t]))
        /\ UNCHANGED <<names, at, holders, seen, lasting>>
  /\ UNCHANGED <<prog, cur, in, drivers>>

-----------------------------------------------------------------------------
(* Faulty variants: the nil thread is asked on; a server is asked on with  *)
(* nothing left of the path.                                               *)
EndsWhenNothingLeft(t) ==
  reply[t].thread = cur[t] \/ reply[t].remaining = <<>>

EndsAtServer(t) == reply[t].thread \in {cur[t], NilThread}

(* nameserver_lookup(): the loop ends at a server that names itself, with  *)
(* nobody, or when nothing is left of the path.                            *)
Ends(t) ==
  reply[t].thread \in {cur[t], NilThread} \/ reply[t].remaining = <<>>

NextHop(t) ==
  /\ pc[t] = "answered" /\ ~Ends(t)
  /\ \E q \in Copies(reply[t].remaining) : Send(t, reply[t].thread, q, "lookup")
  /\ UNCHANGED <<prog, names, at, reply, drivers, holders, seen, lasting>>

LookupReturns(t) ==
  /\ pc[t] = "answered" /\ Ends(t) /\ call(t).op = "lookup"
  /\ Return(t)
  /\ seen' = [seen EXCEPT ![t] = {}] /\ lasting' = [lasting EXCEPT ![t] = {}]
  /\ UNCHANGED <<prog, names, cur, in, reply, queue, drivers, holders>>

(* driverserver_register() and _deregister(): look /driver up until it is  *)
(* there,                                                                  *)
AskAgain(t) ==
  /\ pc[t] = "answered" /\ Ends(t) /\ call(t).op \in DriverOp
  /\ reply[t].thread = NilThread
  /\ Send(t, NameServerId, DriverPath, "lookup")
  /\ UNCHANGED <<prog, names, at, reply, drivers, holders, seen, lasting>>

(* then call the thread found. *)
CallDriverServer(t) ==
  /\ pc[t] = "answered" /\ Ends(t) /\ call(t).op \in DriverOp
  /\ reply[t].thread # NilThread
  /\ Send(t, reply[t].thread, <<>>, "driver")
  /\ UNCHANGED <<prog, names, at, reply, drivers, holders, seen, lasting>>

(* The loop of a server other than the name server.  Lookup is the stub    *)
(* the file server and the task server have; the driver server also takes  *)
(* drivers.                                                                *)
ServerStep(s) ==
  LET t == Head(queue[s]) IN
  /\ s \in Server /\ Done(s) /\ queue[s] # <<>>
  /\ queue' = [queue EXCEPT ![s] = Tail(@)]
  /\ \/ /\ pc[t] = "lookup"
        /\ Answer(t, [thread |-> NilThread, remaining |-> in[t]])
        /\ UNCHANGED <<at, drivers>>
     \/ /\ pc[t] = "driver"
        /\ drivers' = IF call(t).op = "driver_register"
                      THEN drivers \cup {<<t, call(t).path>>}
                      ELSE {d \in drivers : d[1] # t}
        /\ Return(t) /\ UNCHANGED reply
  /\ UNCHANGED <<prog, names, cur, in, holders, seen, lasting>>

ClientStep(t) ==
  Call(t) \/ NextHop(t) \/ LookupReturns(t) \/ AskAgain(t) \/ CallDriverServer(t)

Next ==
  \/ NameServerStep
  \/ \E t \in Thread : ClientStep(t) \/ ServerStep(t)

Fairness ==
  /\ WF_vars(NameServerStep)
  /\ \A t \in Thread : WF_vars(ClientStep(t)) /\ WF_vars(ServerStep(t))

Spec == Init /\ [][Next]_vars /\ Fairness

-----------------------------------------------------------------------------
(* Every variable has its type. *)
TypeOK ==
  /\ prog \in Programs
  /\ N!TypeOK
  /\ \A t \in Thread :
       /\ at[t] \in 1 .. Len(prog[t]) + 1
       /\ pc[t] \in {"ready", "request", "lookup", "answered", "driver"}
       /\ cur[t] \in Receiver \cup {NilThread}
       /\ in[t] \in Copies(in[t]) \cup {DriverPath}
       /\ reply[t].thread \in Receiver \cup {NilThread}
  /\ queue \in [Receiver -> Seq(Thread)]
  /\ drivers \subseteq Thread \X Seq(Char)

(* A lookup, over any number of hops and changes of the table in between,  *)
(* names only the name server itself or a thread that held a prefix of the *)
(* path at some time during the call: never one that had deregistered      *)
(* before the call began.                                                  *)
LookupSound ==
  [][\A t \in Thread : LookupReturns(t) =>
       LET r == reply[t].thread IN
       \/ r \in {NilThread, NameServerId}
       \/ \E h \in seen[t] : h[2] = r /\ IsPrefix(h[1], call(t).path)]_vars

NoDeregistration == \A t \in Thread : \A i \in DOMAIN prog[t] : prog[t][i].op # "deregister"

PrefixFree ==
  \A t, u \in Thread : \A i \in DOMAIN prog[t], j \in DOMAIN prog[u] :
    /\ prog[t][i].op = "register" /\ prog[u][j].op = "register"
    /\ IsPrefix(N!Stored(prog[t][i].path), N!Stored(prog[u][j].path))
    => t = u /\ i = j

(* With no name a prefix of another and no slot ever freed, a lookup finds *)
(* every name that was held all the time since it began, if the name       *)
(* leaves room for its NUL in the client's buffer and is not one the name  *)
(* server answers with itself.                                             *)
FindsRegistered ==
  [][NoDeregistration /\ PrefixFree =>
       \A t \in Thread : LookupReturns(t) =>
         \A h \in lasting[t] :
           h[1] = call(t).path /\ Len(h[1]) < MaxEntryLen /\ ~N!IsSelfQuery(h[1])
             => reply[t].thread = h[2]]_vars

(* What the threads have registered and not deregistered, call by call,    *)
(* and what each path would be answered are together the abstract service: *)
(* the queue, the table and the loop let a registration take effect once,  *)
(* in one step, and a deregistration remove all a thread ever registered.  *)
Service ==
  INSTANCE NameService WITH
    Name <- N!Name, Query <- N!TableQuery,
    answer <- [q \in N!TableQuery |-> N!Answer(q)]

ImplementsNameService == Service!Spec

(* A set of threads none of which will get an answer: each waits for one   *)
(* of them, or for a thread that does not serve.                           *)
Stuck(ts) ==
  \A t \in ts :
    /\ pc[t] \in {"lookup", "driver"} /\ cur[t] \in Thread
    /\ cur[t] \in ts \/ (Done(cur[t]) /\ cur[t] \notin Server)

InVain(t) == \E ts \in SUBSET Thread : t \in ts /\ Stuck(ts)

(* Thread t depends on thread u: a call of t may be sent on to u.          *)
DependsOn(t, u) ==
  \E i \in DOMAIN prog[t], j \in DOMAIN prog[u] :
    \/ Leads(prog[u][j], prog[t][i])
    \/ /\ prog[t][i].op \in DriverOp
       /\ prog[u][j].op = "register" /\ IsPrefix(prog[u][j].path, DriverPath)

(* A discipline for registering: only threads that will serve and that     *)
(* depend on nobody themselves take names others go through.               *)
Orderly ==
  \A t, u \in Thread :
    DependsOn(t, u) => u \in Server /\ \A v \in Thread : ~DependsOn(u, v)

(* The IPCs of a lookup have no timeout, and a thread is registered before *)
(* it serves.  Under the discipline nobody waits in vain all the same,     *)
(* whatever is registered, deregistered and found in the meantime.         *)
NobodyInVain == Orderly => \A t \in Thread : ~InVain(t)

(* Every thread gets through its program unless it waits for threads that  *)
(* never serve: no lookup runs round in circles, no call to a server that  *)
(* serves stays unanswered, and driver clients end their polling.          *)
AllReturn == \A t \in Thread : <>(Done(t) \/ InVain(t))
=============================================================================
