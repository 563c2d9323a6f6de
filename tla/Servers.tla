------------------------------ MODULE Servers ------------------------------
(***************************************************************************)
(* The server loops that IDL4 generates and the operations behind them:    *)
(* the task server (src/root/taskserver.cc), the memory server             *)
(* (src/memoryserver/main.cc) and the file server                          *)
(* (src/fileserver/fileserver_idl.cc).  Clients call them through the      *)
(* stubs of any interface; an IPC whose message does not fit the buffer of *)
(* its receiver fails on both sides.                                       *)
(***************************************************************************)
EXTENDS Naturals, Sequences

CONSTANTS
  Client,        \* Threads that call the servers, and fault on one.
  TaskServer, MemoryServer, FileServer,
  Nobody,        \* L4_nilthread.
  BufferSize,    \* Bytes of a server's string buffer, malloc(8000).
  VtableSize,    \* Each server: entries of a table of operations.
  Undefined,     \* Sizes a reply whose string nobody wrote may have.
  Requests       \* What clients ask for: [server, interface, function,
                 \* length, room], the bytes of the request's string and
                 \* those the client has for the reply's.

Server == {TaskServer, MemoryServer, FileServer}

(* Interface ids (if/types.idl), below MAX_INTERFACEID; page faults come   *)
(* from the kernel instead.                                                *)
IF_TASKSERVER   == 3
IF_NAMING       == 4
IF_FILE         == 6
IF_MEMORYSERVER == 11
MAX_INTERFACEID == 16
InterfaceId     == 0 .. MAX_INTERFACEID - 1
Kernel          == MAX_INTERFACEID

ASSUME ServersAssumption ==
  /\ TaskServer # MemoryServer /\ TaskServer # FileServer /\ MemoryServer # FileServer
  /\ Nobody \notin Client
  /\ BufferSize \in Nat /\ Undefined \subseteq Nat /\ Undefined # {}
  /\ VtableSize \in [Server -> Nat \ {0}]
  /\ Requests \subseteq [server : Server, interface : InterfaceId \cup {Kernel},
                         function : Nat \ {0}, length : Nat, room : Nat]

VARIABLES
  pc,        \* Each server: call and wait inside reply_and_wait, or process.
  partner,   \* Each server: the variable of that name.
  out,       \* Each server: the reply in msgbuf, [value, size], until it is
             \* sent and msgbuf free for the next message.
  queue,     \* Each server: clients waiting to send to it, in order.
  state,     \* Each client: idle, sending or receiving.
  request,   \* Each client: its last request.
  result     \* Each client: what came of it.

vars == <<pc, partner, out, queue, state, request, result>>

None == "none"
NoRequest == [server |-> None]
NoReply == [value |-> None, size |-> 0]
Overflow == "overflow"

-----------------------------------------------------------------------------
(* The operations: each stub leaves the server as it is and answers        *)
(* nothing, zero or nil.  A reply with an out string the stub does not     *)
(* write has whatever size and text the buffer had.                        *)
Plain(v)  == {[value |-> v, size |-> 0]}
Unwritten(v) == {[value |-> v, size |-> n] : n \in Undefined}

TaskOperation ==
  <<Plain("nil"), Plain("nil"), Plain("void"), Plain("void"), Plain("void"), Plain("void")>>

(* Faulty variant: Lookup names the server itself. *)
NamingSelf == <<Unwritten("self")>>

NamingOperation == <<Unwritten("nil")>>

(* get_file_id, read, write, get_file_size, get_file_type, remove, mkdir,  *)
(* rmdir, get_dir_size, get_dir_entry                                      *)
FileOperation ==
  <<Plain("0"), Unwritten("0"), Plain("0"), Plain("0"), Plain("0"), Plain("0"),
    Plain("0"), Plain("0"), Plain("0"), Unwritten("0")>>

(* The file server's own read: five bytes, whatever count the caller gave, *)
(* and no return statement.                                                *)
TestText == [value |-> "Test", size |-> 5]
FileServerOperation == [FileOperation EXCEPT ![2] = {TestText}]

(* map_io_pages, map_anon_pages, map_file_pages, unmap_pages, startup,     *)
(* destroyed                                                               *)
MemoryOperation ==
  <<Plain("0"), Plain("0"), Plain("0"), Plain("void"), Plain("void"), Plain("void")>>

(* pagefault: the reply's page is never set.                               *)
PageFault == {[value |-> v, size |-> 0] : v \in {"no_page", "any_page"}}

Discard == <<>>

task_itable ==
  [i \in 0 .. 7 |-> CASE i = IF_TASKSERVER -> TaskOperation
                      [] i = IF_NAMING -> NamingOperation
                      [] i = IF_FILE -> FileOperation
                      [] OTHER -> Discard]

file_itable ==
  [i \in 0 .. 7 |-> CASE i = IF_NAMING -> NamingOperation
                      [] i = IF_FILE -> FileServerOperation
                      [] OTHER -> Discard]

memory_itable ==
  [i \in 0 .. 15 |-> IF i = IF_MEMORYSERVER THEN MemoryOperation ELSE Discard]

itable(s) ==
  CASE s = TaskServer -> task_itable
    [] s = FileServer -> file_itable
    [] s = MemoryServer -> memory_itable

(* The interface id is cut to the size of the table, and so is the         *)
(* function's id, which is one less than its number.                       *)
Masked(s, i) == IF s = MemoryServer THEN i % 16 ELSE i % 8
MaskedFunction(s, f) == ((f - 1) % VtableSize[s]) + 1

(* The replies the table entry for request r may give; none when it is the *)
(* entry that discards.  Only the memory server tells kernel messages.     *)
Replies(r) ==
  IF r.interface = Kernel
  THEN IF r.server = MemoryServer THEN PageFault ELSE {}
  ELSE LET vtable == itable(r.server)[Masked(r.server, r.interface)]
           f == MaskedFunction(r.server, r.function) IN
       IF f \in DOMAIN vtable THEN vtable[f] ELSE {}

-----------------------------------------------------------------------------
Init ==
  /\ pc = [s \in Server |-> "call"]
  /\ partner = [s \in Server |-> Nobody]
  /\ out = [s \in Server |-> NoReply]
  /\ queue = [s \in Server |-> <<>>]
  /\ state = [c \in Client |-> "idle"]
  /\ request = [c \in Client |-> NoRequest]
  /\ result = [c \in Client |-> None]

(* A client's stub sends the request and then waits for the reply of that  *)
(* server, without a timeout.                                              *)
Call(c) ==
  /\ state[c] = "idle"
  /\ \E r \in Requests :
       /\ request' = [request EXCEPT ![c] = r]
       /\ queue' = [queue EXCEPT ![r.server] = Append(@, c)]
  /\ state' = [state EXCEPT ![c] = "sending"]
  /\ result' = [result EXCEPT ![c] = None]
  /\ UNCHANGED <<pc, partner, out>>

(* The client's call ends with x.                                          *)
End(c, x) ==
  /\ state' = [state EXCEPT ![c] = "idle"]
  /\ request' = [request EXCEPT ![c] = NoRequest]
  /\ result' = [result EXCEPT ![c] = x]

(* Faulty variant: the outer loop does not reset partner. *)
BreakKeepsPartner(s) ==
  pc' = [pc EXCEPT ![s] = "call"] /\ UNCHANGED partner

(* idl4_is_error: leave the inner loop, forget the partner, wait again.    *)
Break(s) ==
  /\ pc' = [pc EXCEPT ![s] = "call"]
  /\ partner' = [partner EXCEPT ![s] = Nobody]

AwaitsReply(c, s) == state[c] = "receiving" /\ request[c].server = s

(* Send phase of idl4_reply_and_wait.  It never waits: a partner that is   *)
(* not ready to receive, or whose buffer is too small, is an error, and    *)
(* the receive phase is left out.                                          *)
SendPhase(s) ==
  LET c == partner[s] IN
  /\ pc[s] = "call"
  /\ \/ /\ c = Nobody
        /\ pc' = [pc EXCEPT ![s] = "wait"]
        /\ UNCHANGED <<partner, state, request, result>>
     \/ /\ c # Nobody /\ AwaitsReply(c, s) /\ out[s].size <= request[c].room
        /\ End(c, out[s].value)
        /\ pc' = [pc EXCEPT ![s] = "wait"]
        /\ UNCHANGED partner
     \/ /\ c # Nobody /\ AwaitsReply(c, s) /\ out[s].size > request[c].room
        /\ End(c, Overflow)
        /\ Break(s)
     \/ /\ c # Nobody /\ ~AwaitsReply(c, s)
        /\ Break(s)
        /\ UNCHANGED <<state, request, result>>
  /\ out' = [out EXCEPT ![s] = NoReply]
  /\ UNCHANGED queue

(* Faulty variant: the partner is set also when the receive fails. *)
ReceiveSetsPartner(s) ==
  LET c == Head(queue[s]) IN
  /\ pc[s] = "wait" /\ queue[s] # <<>>
  /\ queue' = [queue EXCEPT ![s] = Tail(@)]
  /\ partner' = [partner EXCEPT ![s] = c]
  /\ IF request[c].length > BufferSize
     THEN End(c, Overflow) /\ pc' = [pc EXCEPT ![s] = "call"]
     ELSE /\ pc' = [pc EXCEPT ![s] = "process"]
          /\ state' = [state EXCEPT ![c] = "receiving"]
          /\ UNCHANGED <<request, result>>
  /\ UNCHANGED out

(* Receive phase: the first waiting sender, from whom a message longer     *)
(* than the buffer is an error for both.                                   *)
ReceivePhase(s) ==
  LET c == Head(queue[s]) IN
  /\ pc[s] = "wait" /\ queue[s] # <<>>
  /\ queue' = [queue EXCEPT ![s] = Tail(@)]
  /\ \/ /\ request[c].length > BufferSize
        /\ End(c, Overflow)
        /\ Break(s)
     \/ /\ request[c].length <= BufferSize
        /\ pc' = [pc EXCEPT ![s] = "process"]
        /\ partner' = [partner EXCEPT ![s] = c]
        /\ state' = [state EXCEPT ![c] = "receiving"]
        /\ UNCHANGED <<request, result>>
  /\ UNCHANGED out

(* idl4_process_request: the entry prepares the reply, or the request is   *)
(* discarded and its sender gets none.                                     *)
Process(s) ==
  LET r == request[partner[s]] IN
  /\ pc[s] = "process"
  /\ pc' = [pc EXCEPT ![s] = "call"]
  /\ \/ /\ Replies(r) # {}
        /\ \E x \in Replies(r) : out' = [out EXCEPT ![s] = x]
        /\ UNCHANGED partner
     \/ /\ Replies(r) = {}
        /\ partner' = [partner EXCEPT ![s] = Nobody]
        /\ UNCHANGED out
  /\ UNCHANGED <<queue, state, request, result>>

ServerStep(s) == SendPhase(s) \/ ReceivePhase(s) \/ Process(s)

Next == (\E c \in Client : Call(c)) \/ (\E s \in Server : ServerStep(s))

Spec == Init /\ [][Next]_vars /\ \A s \in Server : WF_vars(ServerStep(s))

-----------------------------------------------------------------------------
Value == {None, "nil", "void", "0", "Test", "no_page", "any_page"}

(* Every variable has its type. *)
TypeOK ==
  /\ pc \in [Server -> {"call", "wait", "process"}]
  /\ partner \in [Server -> Client \cup {Nobody}]
  /\ out \in [Server -> [value : Value, size : Nat]]
  /\ queue \in [Server -> Seq(Client)]
  /\ state \in [Client -> {"idle", "sending", "receiving"}]
  /\ request \in [Client -> Requests \cup {NoRequest}]
  /\ result \in [Client -> Value \cup {Overflow}]

(* The partner a server processes or is about to reply to.                 *)
Serving(s, c) ==
  /\ partner[s] = c
  /\ pc[s] \in {"process", "call"}

(* Whoever a server is about to answer awaits an answer from that server   *)
(* and from no other: after a failed reply or receive nobody is left over  *)
(* to be answered twice.  And whoever has been received from and is not    *)
(* being served asked for something no table entry knows.                  *)
CallersKept ==
  /\ \A s \in Server, c \in Client : Serving(s, c) => AwaitsReply(c, s)
  /\ \A c \in Client :
       state[c] = "receiving" =>
         Serving(request[c].server, c) \/ Replies(request[c]) = {}

(* What server s offers under interface id i, as types.idl numbers them.   *)
Offered(s, i) ==
  CASE s = TaskServer /\ i = IF_TASKSERVER -> TaskOperation
    [] s = TaskServer /\ i = IF_FILE -> FileOperation
    [] s = FileServer /\ i = IF_FILE -> FileServerOperation
    [] s \in {TaskServer, FileServer} /\ i = IF_NAMING -> NamingOperation
    [] s = MemoryServer /\ i = IF_MEMORYSERVER -> MemoryOperation
    [] s = MemoryServer /\ i = Kernel -> [n \in Nat |-> PageFault]
    [] OTHER -> Discard

(* How the call of request r may end: not at all if the server does not    *)
(* offer an operation under the ids that the request's are cut to.  That   *)
(* these may not be the ones the caller meant is outside of the promise.   *)
CallOutcomes(r) ==
  LET i == IF r.interface = Kernel THEN Kernel ELSE Masked(r.server, r.interface)
      f == MaskedFunction(r.server, r.function)
      operations == Offered(r.server, i) IN
  IF r.length > BufferSize THEN {Overflow}
  ELSE IF f \notin DOMAIN operations THEN {}
  ELSE {IF x.size <= r.room THEN x.value ELSE Overflow : x \in operations[f]}

Calls ==
  INSTANCE RemoteCalls WITH
    Request  <- Requests,
    Outcomes <- [r \in Requests |-> CallOutcomes(r)],
    NoResult <- None,
    pending  <- request

(* Every call of an operation the server offers ends, once, with an        *)
(* outcome of that operation, and errors of one client's IPC neither reach *)
(* nor hold up another; a call of anything else gets no answer.            *)
ImplementsRemoteCalls == Calls!Spec
=============================================================================
