--------------------------- MODULE ServersProofs ---------------------------
(***************************************************************************)
(* Proofs about the server loops, for any clients, any requests and any    *)
(* size of the buffers: the types, and that no loop loses track of whom it *)
(* is to answer.                                                           *)
(***************************************************************************)
EXTENDS Servers, TLAPS

Reply == [value : Value, size : Nat]

(* No operation answers anything but a reply. *)
LEMMA OperationsReply ==
  /\ \A f \in DOMAIN TaskOperation : TaskOperation[f] \subseteq Reply
  /\ \A f \in DOMAIN NamingOperation : NamingOperation[f] \subseteq Reply
  /\ \A f \in DOMAIN FileOperation : FileOperation[f] \subseteq Reply
  /\ \A f \in DOMAIN FileServerOperation : FileServerOperation[f] \subseteq Reply
  /\ \A f \in DOMAIN MemoryOperation : MemoryOperation[f] \subseteq Reply
  /\ \A f \in DOMAIN Discard : Discard[f] \subseteq Reply
  /\ PageFault \subseteq Reply
<1>1. /\ Plain("nil") \subseteq Reply /\ Plain("void") \subseteq Reply /\ Plain("0") \subseteq Reply
  BY DEF Plain, Reply, Value
<1>2. Unwritten("nil") \subseteq Reply /\ Unwritten("0") \subseteq Reply
  BY ServersAssumption DEF Unwritten, Reply, Value
<1>3. {TestText} \subseteq Reply /\ PageFault \subseteq Reply
  BY DEF TestText, PageFault, Reply, Value
<1>4. \A f \in DOMAIN TaskOperation : TaskOperation[f] \subseteq Reply
  BY <1>1 DEF TaskOperation
<1>5. \A f \in DOMAIN NamingOperation : NamingOperation[f] \subseteq Reply
  BY <1>2 DEF NamingOperation
<1>6. \A f \in DOMAIN FileOperation : FileOperation[f] \subseteq Reply
  BY <1>1, <1>2 DEF FileOperation
<1>7. \A f \in DOMAIN FileServerOperation : FileServerOperation[f] \subseteq Reply
  BY <1>3, <1>6 DEF FileServerOperation
<1>8. \A f \in DOMAIN MemoryOperation : MemoryOperation[f] \subseteq Reply
  BY <1>1 DEF MemoryOperation
<1>9. \A f \in DOMAIN Discard : Discard[f] \subseteq Reply
  BY DEF Discard
<1>. QED
  BY <1>3, <1>4, <1>5, <1>6, <1>7, <1>8, <1>9

(* The entry a request is cut to is one of the operations. *)
LEMMA EntriesReply ==
  ASSUME NEW r \in Requests
  PROVE  Replies(r) \subseteq Reply
<1>1. r.server \in Server /\ r.interface \in InterfaceId \cup {Kernel}
  BY ServersAssumption
<1>. DEFINE vtable == itable(r.server)[Masked(r.server, r.interface)]
<1>2. CASE r.interface = Kernel
  BY <1>2, OperationsReply DEF Replies
<1>3. CASE r.interface # Kernel
  <2>1. r.interface \in 0 .. 15
    BY <1>1, <1>3 DEF InterfaceId, MAX_INTERFACEID
  <2>2. vtable \in {TaskOperation, NamingOperation, FileOperation,
                    FileServerOperation, MemoryOperation, Discard}
    <3>1. CASE r.server = TaskServer
      <4>1. Masked(r.server, r.interface) \in 0 .. 7
        BY <2>1, <3>1, ServersAssumption DEF Masked
      <4>. QED
        BY <3>1, <4>1, ServersAssumption DEF itable, task_itable
    <3>2. CASE r.server = FileServer
      <4>1. Masked(r.server, r.interface) \in 0 .. 7
        BY <2>1, <3>2, ServersAssumption DEF Masked
      <4>. QED
        BY <3>2, <4>1, ServersAssumption DEF itable, file_itable
    <3>3. CASE r.server = MemoryServer
      <4>1. Masked(r.server, r.interface) \in 0 .. 15
        BY <2>1, <3>3, ServersAssumption DEF Masked
      <4>. QED
        BY <3>3, <4>1, ServersAssumption DEF itable, memory_itable
    <3>. QED
      BY <1>1, <3>1, <3>2, <3>3 DEF Server
  <2>3. \A f \in DOMAIN vtable : vtable[f] \subseteq Reply
    BY <2>2, OperationsReply
  <2>. QED
    BY <1>3, <2>3 DEF Replies
<1>. QED
  BY <1>2, <1>3

-----------------------------------------------------------------------------
(* Who is in a queue is sending to that server, and is there once. *)
QueuedOnce ==
  \A s \in Server : \A i \in 1 .. Len(queue[s]) :
    /\ state[queue[s][i]] = "sending" /\ request[queue[s][i]].server = s
    /\ \A j \in 1 .. Len(queue[s]) : queue[s][i] = queue[s][j] => i = j

(* A client in a call has a request; a server that processes has a client. *)
CallsHaveRequests == \A c \in Client : state[c] # "idle" => request[c] \in Requests
ProcessHasPartner == \A s \in Server : pc[s] = "process" => partner[s] \in Client

Inv == TypeOK /\ CallersKept /\ QueuedOnce /\ CallsHaveRequests /\ ProcessHasPartner

LEMMA InitInv == Init => Inv
<1>. SUFFICES ASSUME Init PROVE Inv
  OBVIOUS
<1>1. TypeOK
  BY DEF Init, TypeOK, NoReply, Value, None
<1>2. CallersKept
  BY ServersAssumption DEF Init, CallersKept, Serving
<1>. QED
  BY <1>1, <1>2 DEF Init, Inv, QueuedOnce, CallsHaveRequests, ProcessHasPartner

LEMMA CallInv ==
  ASSUME Inv, NEW c \in Client, Call(c)
  PROVE  Inv'
<1>1. PICK r \in Requests :
        /\ request' = [request EXCEPT ![c] = r]
        /\ queue' = [queue EXCEPT ![r.server] = Append(@, c)]
  BY DEF Call
<1>2. r.server \in Server
  BY ServersAssumption
<1>3. /\ state[c] = "idle" /\ state' = [state EXCEPT ![c] = "sending"]
      /\ UNCHANGED <<pc, partner, out>> /\ result' = [result EXCEPT ![c] = None]
  BY DEF Call
<1>4. TypeOK'
  BY <1>1, <1>2, <1>3 DEF Inv, TypeOK, Value
<1>5. CallersKept'
  BY <1>1, <1>2, <1>3 DEF Inv, TypeOK, CallersKept, Serving, AwaitsReply
<1>6. QueuedOnce'
  <2>. SUFFICES ASSUME NEW s \in Server, NEW i \in 1 .. Len(queue'[s])
                PROVE  /\ state'[queue'[s][i]] = "sending" /\ request'[queue'[s][i]].server = s
                       /\ \A j \in 1 .. Len(queue'[s]) : queue'[s][i] = queue'[s][j] => i = j
    BY DEF QueuedOnce
  <2>1. queue[s] \in Seq(Client) /\ \A j \in 1 .. Len(queue[s]) : queue[s][j] # c
    BY <1>3 DEF Inv, TypeOK, QueuedOnce
  <2>2. CASE s = r.server
    BY <1>1, <1>2, <1>3, <2>1, <2>2 DEF Inv, TypeOK, QueuedOnce
  <2>3. CASE s # r.server
    BY <1>1, <1>2, <1>3, <2>1, <2>3 DEF Inv, TypeOK, QueuedOnce
  <2>. QED
    BY <2>2, <2>3
<1>7. CallsHaveRequests' /\ ProcessHasPartner'
  BY <1>1, <1>3 DEF Inv, TypeOK, CallsHaveRequests, ProcessHasPartner
<1>. QED
  BY <1>4, <1>5, <1>6, <1>7 DEF Inv

(* A server that has a partner when it calls has one that awaits it. *)
LEMMA SendPhaseInv ==
  ASSUME Inv, NEW s \in Server, SendPhase(s)
  PROVE  Inv'
<1>. DEFINE c == partner[s]
<1>1. pc[s] = "call" /\ out' = [out EXCEPT ![s] = NoReply] /\ UNCHANGED queue
  BY DEF SendPhase
<1>2. CASE c = Nobody
  <2>1. pc' = [pc EXCEPT ![s] = "wait"] /\ UNCHANGED <<partner, state, request, result>>
    BY <1>2, ServersAssumption DEF SendPhase
  <2>2. TypeOK'
    BY <1>1, <2>1 DEF Inv, TypeOK, NoReply, Value, None
  <2>3. CallersKept'
    <3>1. \A d \in Client : ~Serving(s, d)
      BY <1>2, ServersAssumption DEF Serving
    <3>. QED
      BY <1>1, <2>1, <3>1 DEF Inv, TypeOK, CallersKept, Serving, AwaitsReply
  <2>4. QueuedOnce' /\ CallsHaveRequests'
    BY <1>1, <2>1 DEF Inv, QueuedOnce, CallsHaveRequests
  <2>5. ProcessHasPartner'
    BY <2>1 DEF Inv, TypeOK, ProcessHasPartner
  <2>. QED
    BY <2>2, <2>3, <2>4, <2>5 DEF Inv
<1>3. CASE c # Nobody
  <2>1. c \in Client /\ AwaitsReply(c, s)
    BY <1>1, <1>3 DEF Inv, TypeOK, CallersKept, Serving
  <2>2. PICK x \in Value \cup {Overflow} : End(c, x)
    BY <1>3, <2>1 DEF SendPhase, Inv, TypeOK
  <2>3. \/ pc' = [pc EXCEPT ![s] = "wait"] /\ partner' = partner
        \/ pc' = [pc EXCEPT ![s] = "call"] /\ partner' = [partner EXCEPT ![s] = Nobody]
    BY <1>3, <2>1 DEF SendPhase, Break
  <2>4. TypeOK'
    BY <1>1, <2>1, <2>2, <2>3 DEF Inv, TypeOK, End, NoReply, Value, None
  <2>5. CallersKept'
    <3>1. \A d \in Client : ~Serving(s, d)'
      BY <2>3, ServersAssumption DEF Serving, Inv, TypeOK
    <3>2. \A t \in Server, d \in Client :
            t # s => /\ Serving(t, d)' <=> Serving(t, d)
                     /\ Serving(t, d) => d # c
      BY <2>1, <2>3 DEF Serving, Inv, TypeOK, CallersKept, AwaitsReply
    <3>3. \A d \in Client \ {c} : state'[d] = state[d] /\ request'[d] = request[d]
      BY <2>2 DEF End, Inv, TypeOK
    <3>4. state'[c] = "idle"
      BY <2>1, <2>2 DEF End, Inv, TypeOK
    <3>5. \A t \in Server, d \in Client : Serving(t, d)' => AwaitsReply(d, t)'
      BY <3>1, <3>2, <3>3 DEF Inv, CallersKept, AwaitsReply
    <3>6. \A d \in Client \ {c} : Serving(s, d) => FALSE
      BY DEF Serving
    <3>7. ASSUME NEW d \in Client, state'[d] = "receiving"
          PROVE  \/ partner'[request'[d].server] = d /\ pc'[request'[d].server] \in {"process", "call"}
                 \/ Replies(request'[d]) = {}
      <4>1. d # c /\ state[d] = "receiving" /\ request[d] \in Requests
        BY <3>3, <3>4, <3>7 DEF Inv, CallsHaveRequests
      <4>2. request[d].server \in Server
        BY <4>1, ServersAssumption
      <4>3. Serving(request[d].server, d) \/ Replies(request[d]) = {}
        BY <4>1 DEF Inv, CallersKept
      <4>4. CASE Serving(request[d].server, d)
        <5>1. request[d].server # s
          BY <4>1, <4>4 DEF Serving
        <5>2. Serving(request[d].server, d) =>
                partner'[request[d].server] = d /\ pc'[request[d].server] \in {"process", "call"}
          BY <4>2, <5>1, <2>3 DEF Serving, Inv, TypeOK
        <5>. QED
          BY <3>3, <4>1, <4>4, <5>2
      <4>5. CASE Replies(request[d]) = {}
        BY <3>3, <4>1, <4>5
      <4>. QED
        BY <4>3, <4>4, <4>5
    <3>. QED
      BY <3>5, <3>7 DEF CallersKept, Serving
  <2>6. QueuedOnce'
    <3>1. \A t \in Server : \A i \in 1 .. Len(queue[t]) : queue[t][i] # c /\ queue[t][i] \in Client
      BY <2>1 DEF Inv, TypeOK, QueuedOnce, AwaitsReply
    <3>. QED
      BY <1>1, <2>2, <3>1 DEF Inv, TypeOK, QueuedOnce, End
  <2>7. CallsHaveRequests' /\ ProcessHasPartner'
    BY <1>1, <2>1, <2>2, <2>3 DEF Inv, TypeOK, CallsHaveRequests, ProcessHasPartner, End
  <2>. QED
    BY <2>4, <2>5, <2>6, <2>7 DEF Inv
<1>. QED
  BY <1>2, <1>3

(* The client received from becomes the partner, or its call has ended. *)
LEMMA ReceivePhaseInv ==
  ASSUME Inv, NEW s \in Server, ReceivePhase(s)
  PROVE  Inv'
<1>. DEFINE c == Head(queue[s])
<1>1. /\ pc[s] = "wait" /\ queue[s] # <<>> /\ UNCHANGED out
      /\ queue' = [queue EXCEPT ![s] = Tail(@)]
  BY DEF ReceivePhase
<1>2. /\ c \in Client /\ c = queue[s][1] /\ 1 \in 1 .. Len(queue[s])
      /\ state[c] = "sending" /\ request[c].server = s /\ request[c] \in Requests
  BY <1>1 DEF Inv, TypeOK, QueuedOnce, CallsHaveRequests
<1>3. /\ \A d \in Client : ~Serving(s, d)
      /\ \A t \in Server : ~Serving(t, c)
  BY <1>1, <1>2 DEF Inv, CallersKept, Serving, AwaitsReply
<1>4. QueuedOnce' /\ queue' \in [Server -> Seq(Client)]
  <2>1. ASSUME NEW d \in Client \ {c} PROVE state'[d] = state[d] /\ request'[d] = request[d]
    BY <2>1, <1>2 DEF ReceivePhase, End, Inv, TypeOK
  <2>2. ASSUME NEW t \in Server, NEW i \in 1 .. Len(queue'[t])
        PROVE  \E k \in 1 .. Len(queue[t]) :
                 /\ queue'[t][i] = queue[t][k] /\ (t = s => k = i + 1) /\ (t # s => k = i)
    <3>1. queue[t] \in Seq(Client) /\ queue[s] \in Seq(Client)
      BY DEF Inv, TypeOK
    <3>2. CASE t = s
      <4>1. queue'[s] = Tail(queue[s])
        BY <1>1 DEF Inv, TypeOK
      <4>2. \A q \in Seq(Client) : q # <<>> =>
              \A j \in 1 .. Len(Tail(q)) : j + 1 \in 1 .. Len(q) /\ Tail(q)[j] = q[j + 1]
        OBVIOUS
      <4>3. i \in 1 .. Len(Tail(queue[s]))
        BY <3>2, <4>1
      <4>4. i + 1 \in 1 .. Len(queue[t]) /\ queue'[t][i] = queue[t][i + 1]
        BY <1>1, <3>1, <3>2, <4>1, <4>2, <4>3
      <4>. QED
        BY <3>2, <4>4
    <3>3. CASE t # s
      BY <1>1, <3>3 DEF Inv, TypeOK
    <3>. QED
      BY <3>2, <3>3
  <2>3. ASSUME NEW t \in Server, NEW k \in 1 .. Len(queue[t]), t = s => k > 1
        PROVE  queue[t][k] \in Client \ {c}
    BY <1>2, <2>3 DEF Inv, TypeOK, QueuedOnce
  <2>4. ASSUME NEW t \in Server, NEW i \in 1 .. Len(queue'[t])
        PROVE  /\ state'[queue'[t][i]] = "sending" /\ request'[queue'[t][i]].server = t
               /\ \A j \in 1 .. Len(queue'[t]) : queue'[t][i] = queue'[t][j] => i = j
    <3>1. PICK k \in 1 .. Len(queue[t]) :
            queue'[t][i] = queue[t][k] /\ (t = s => k = i + 1) /\ (t # s => k = i)
      BY <2>2
    <3>2. queue[t][k] \in Client \ {c}
      BY <2>3, <3>1
    <3>3. \A j \in 1 .. Len(queue'[t]) : queue'[t][i] = queue'[t][j] => i = j
      <4>. SUFFICES ASSUME NEW j \in 1 .. Len(queue'[t]), queue'[t][i] = queue'[t][j]
                    PROVE  i = j
        OBVIOUS
      <4>1. PICK l \in 1 .. Len(queue[t]) :
              queue'[t][j] = queue[t][l] /\ (t = s => l = j + 1) /\ (t # s => l = j)
        BY <2>2
      <4>2. queue[t][k] = queue[t][l]
        BY <3>1, <4>1
      <4>3. k = l
        BY <4>2 DEF Inv, QueuedOnce
      <4>. QED
        BY <3>1, <4>1, <4>3
    <3>. QED
      BY <2>1, <3>1, <3>2, <3>3 DEF Inv, QueuedOnce
  <2>5. queue' \in [Server -> Seq(Client)]
    BY <1>1 DEF Inv, TypeOK
  <2>. QED
    BY <2>4, <2>5 DEF QueuedOnce
<1>5. CASE request[c].length > BufferSize
  <2>1. End(c, Overflow) /\ Break(s)
    BY <1>2, <1>5, ServersAssumption DEF ReceivePhase
  <2>2. TypeOK'
    BY <1>1, <1>2, <1>4, <2>1 DEF Inv, TypeOK, End, Break
  <2>3. \A t \in Server, d \in Client :
          /\ Serving(t, d)' <=> Serving(t, d)
          /\ d # c => state'[d] = state[d] /\ request'[d] = request[d]
    BY <1>3, <2>1, ServersAssumption DEF Inv, TypeOK, End, Break, Serving
  <2>4. state'[c] = "idle"
    BY <1>2, <2>1 DEF Inv, TypeOK, End
  <2>5. CallersKept'
    <3>1. \A t \in Server, d \in Client : Serving(t, d)' => AwaitsReply(d, t)'
      BY <1>3, <2>3 DEF Inv, CallersKept, AwaitsReply
    <3>2. ASSUME NEW d \in Client, state'[d] = "receiving"
          PROVE  \/ partner'[request'[d].server] = d /\ pc'[request'[d].server] \in {"process", "call"}
                 \/ Replies(request'[d]) = {}
      <4>1. d # c /\ state[d] = "receiving" /\ request[d] \in Requests /\ request'[d] = request[d]
        BY <2>3, <2>4, <3>2, ServersAssumption DEF Inv, CallsHaveRequests, Server
      <4>2. request[d].server \in Server
        BY <4>1, ServersAssumption
      <4>3. Serving(request[d].server, d) \/ Replies(request[d]) = {}
        BY <4>1 DEF Inv, CallersKept
      <4>4. \A t \in Server : Serving(t, d) => partner'[t] = d /\ pc'[t] \in {"process", "call"}
        BY <2>3 DEF Serving
      <4>. QED
        BY <4>1, <4>2, <4>3, <4>4 DEF Serving
    <3>. QED
      BY <3>1, <3>2 DEF CallersKept, Serving
  <2>. QED
    BY <1>1, <1>2, <1>4, <2>1, <2>2, <2>5
    DEF Inv, TypeOK, CallsHaveRequests, ProcessHasPartner, End, Break
<1>6. CASE request[c].length <= BufferSize
  <2>1. /\ pc' = [pc EXCEPT ![s] = "process"] /\ partner' = [partner EXCEPT ![s] = c]
        /\ state' = [state EXCEPT ![c] = "receiving"] /\ UNCHANGED <<request, result>>
    BY <1>2, <1>6, ServersAssumption DEF ReceivePhase
  <2>2. TypeOK'
    BY <1>1, <1>2, <1>4, <2>1 DEF Inv, TypeOK
  <2>3. CallersKept'
    BY <1>2, <1>3, <2>1 DEF Inv, TypeOK, CallersKept, Serving, AwaitsReply
  <2>. QED
    BY <1>1, <1>2, <1>4, <2>1, <2>2, <2>3
    DEF Inv, TypeOK, CallsHaveRequests, ProcessHasPartner
<1>. QED
  BY <1>2, <1>5, <1>6, ServersAssumption

(* A processed request leaves a reply behind or is one nobody answers. *)
LEMMA ProcessInv ==
  ASSUME Inv, NEW s \in Server, Process(s)
  PROVE  Inv'
<1>. DEFINE c == partner[s]
<1>1. /\ pc[s] = "process" /\ pc' = [pc EXCEPT ![s] = "call"]
      /\ UNCHANGED <<queue, state, request, result>>
  BY DEF Process
<1>2. c \in Client /\ AwaitsReply(c, s) /\ request[c] \in Requests
  BY <1>1 DEF Inv, ProcessHasPartner, CallersKept, Serving, AwaitsReply, CallsHaveRequests
<1>3. CASE Replies(request[c]) # {}
  <2>1. PICK x \in Replies(request[c]) : out' = [out EXCEPT ![s] = x] /\ UNCHANGED partner
    BY <1>3 DEF Process
  <2>2. x \in Reply
    BY <1>2, EntriesReply
  <2>3. TypeOK'
    BY <1>1, <2>1, <2>2 DEF Inv, TypeOK, Reply
  <2>4. CallersKept'
    BY <1>1, <2>1 DEF Inv, TypeOK, CallersKept, Serving, AwaitsReply
  <2>5. QueuedOnce' /\ CallsHaveRequests'
    BY <1>1 DEF Inv, QueuedOnce, CallsHaveRequests
  <2>6. ProcessHasPartner'
    BY <1>1, <2>1 DEF Inv, TypeOK, ProcessHasPartner
  <2>. QED
    BY <2>3, <2>4, <2>5, <2>6 DEF Inv
<1>4. CASE Replies(request[c]) = {}
  <2>1. partner' = [partner EXCEPT ![s] = Nobody] /\ UNCHANGED out
    BY <1>4 DEF Process
  <2>2. TypeOK'
    BY <1>1, <2>1 DEF Inv, TypeOK
  <2>3. \A t \in Server, d \in Client :
          /\ Serving(t, d)' => Serving(t, d)
          /\ Serving(t, d) => Serving(t, d)' \/ d = c
    BY <1>1, <2>1, ServersAssumption DEF Inv, TypeOK, Serving
  <2>4. \A t \in Server, d \in Client : Serving(t, d)' => AwaitsReply(d, t)'
    BY <1>1, <2>3 DEF Inv, CallersKept, AwaitsReply
  <2>5. ASSUME NEW d \in Client, state[d] = "receiving"
        PROVE  Serving(request[d].server, d)' \/ Replies(request[d]) = {}
    <3>1. request[d].server \in Server
      BY <2>5, ServersAssumption DEF Inv, CallsHaveRequests
    <3>2. Serving(request[d].server, d) \/ Replies(request[d]) = {}
      BY <2>5 DEF Inv, CallersKept
    <3>. QED
      BY <1>1, <1>4, <2>3, <3>1, <3>2 DEF Serving
  <2>6. CallersKept'
    BY <1>1, <2>4, <2>5 DEF CallersKept, Serving
  <2>7. QueuedOnce' /\ CallsHaveRequests'
    BY <1>1 DEF Inv, QueuedOnce, CallsHaveRequests
  <2>8. ProcessHasPartner'
    BY <1>1, <2>1 DEF Inv, TypeOK, ProcessHasPartner
  <2>. QED
    BY <2>2, <2>6, <2>7, <2>8 DEF Inv
<1>. QED
  BY <1>3, <1>4

LEMMA InvInductive == Inv /\ [Next]_vars => Inv'
<1>. SUFFICES ASSUME Inv, [Next]_vars PROVE Inv'
  OBVIOUS
<1>1. ASSUME NEW c \in Client, Call(c) PROVE Inv'
  BY <1>1, CallInv
<1>2. ASSUME NEW s \in Server, ServerStep(s) PROVE Inv'
  BY <1>2, SendPhaseInv, ReceivePhaseInv, ProcessInv DEF ServerStep
<1>3. CASE UNCHANGED vars
  BY <1>3 DEF vars, Inv, TypeOK, CallersKept, Serving, AwaitsReply,
     QueuedOnce, CallsHaveRequests, ProcessHasPartner
<1>. QED
  BY <1>1, <1>2, <1>3 DEF Next

LEMMA InvHolds == Spec => []Inv
BY InitInv, InvInductive, PTL DEF Spec

(* Types of the servers, whatever clients ask of them. *)
THEOREM TypeCorrect == Spec => []TypeOK
BY InvHolds, PTL DEF Inv

(* Whoever a server is about to answer awaits its answer and no other's,   *)
(* and whoever waits is being served or asked for what nobody answers.     *)
THEOREM NoCallerIsLost == Spec => []CallersKept
BY InvHolds, PTL DEF Inv

-----------------------------------------------------------------------------
(* What a request's entry answers is what the server offers under the ids  *)
(* that the request's are cut to.                                          *)
CutInterface(r) == IF r.interface = Kernel THEN Kernel ELSE Masked(r.server, r.interface)
CutFunction(r)  == MaskedFunction(r.server, r.function)

LEMMA TaskTableOffers == \A n \in 0 .. 7 : task_itable[n] = Offered(TaskServer, n)
BY ServersAssumption
DEF task_itable, Offered, IF_MEMORYSERVER, IF_FILE, IF_TASKSERVER, IF_NAMING, Kernel,
     MAX_INTERFACEID

LEMMA FileTableOffers == \A n \in 0 .. 7 : file_itable[n] = Offered(FileServer, n)
BY ServersAssumption
DEF file_itable, Offered, IF_MEMORYSERVER, IF_FILE, IF_TASKSERVER, IF_NAMING, Kernel,
     MAX_INTERFACEID

LEMMA MemoryTableOffers == \A n \in 0 .. 15 : memory_itable[n] = Offered(MemoryServer, n)
BY ServersAssumption
DEF memory_itable, Offered, IF_MEMORYSERVER, IF_FILE, IF_TASKSERVER, IF_NAMING, Kernel,
     MAX_INTERFACEID

LEMMA TablesOffer ==
  ASSUME NEW s \in Server, NEW i \in InterfaceId
  PROVE  itable(s)[Masked(s, i)] = Offered(s, Masked(s, i))
<1>1. i \in Nat
  BY DEF InterfaceId, MAX_INTERFACEID
<1>2. CASE s = TaskServer
  <2>1. Masked(s, i) \in 0 .. 7
    BY <1>1, <1>2, ServersAssumption DEF Masked
  <2>. QED
    BY <1>2, <2>1, TaskTableOffers, ServersAssumption DEF itable
<1>3. CASE s = FileServer
  <2>1. Masked(s, i) \in 0 .. 7
    BY <1>1, <1>3, ServersAssumption DEF Masked
  <2>. QED
    BY <1>3, <2>1, FileTableOffers, ServersAssumption DEF itable
<1>4. CASE s = MemoryServer
  <2>1. Masked(s, i) \in 0 .. 15
    BY <1>1, <1>4, ServersAssumption DEF Masked
  <2>. QED
    BY <1>4, <2>1, MemoryTableOffers, ServersAssumption DEF itable
<1>. QED
  BY <1>2, <1>3, <1>4 DEF Server

LEMMA EntryIsOffered ==
  ASSUME NEW r \in Requests
  PROVE  LET operations == Offered(r.server, CutInterface(r)) IN
         /\ CutFunction(r) \in DOMAIN operations => Replies(r) = operations[CutFunction(r)]
         /\ CutFunction(r) \notin DOMAIN operations => Replies(r) = {}
<1>. DEFINE operations == Offered(r.server, CutInterface(r))
<1>1. /\ r.server \in Server /\ r.interface \in InterfaceId \cup {Kernel}
      /\ CutFunction(r) \in Nat
  BY ServersAssumption DEF CutFunction, MaskedFunction
<1>2. CASE r.interface = Kernel
  <2>1. CASE r.server = MemoryServer
    <3>1. operations = [n \in Nat |-> PageFault]
      BY <1>2, <2>1, ServersAssumption
      DEF CutInterface, Offered, Kernel, MAX_INTERFACEID, IF_MEMORYSERVER, IF_FILE,
          IF_TASKSERVER, IF_NAMING
    <3>. QED
      BY <1>1, <1>2, <2>1, <3>1 DEF Replies
  <2>2. CASE r.server # MemoryServer
    <3>1. operations = Discard
      BY <1>2, <2>2
      DEF CutInterface, Offered, Kernel, MAX_INTERFACEID, IF_MEMORYSERVER, IF_FILE,
          IF_TASKSERVER, IF_NAMING
    <3>2. CutFunction(r) \notin DOMAIN Discard
      BY DEF Discard
    <3>. QED
      BY <1>2, <2>2, <3>1, <3>2 DEF Replies
  <2>. QED
    BY <2>1, <2>2
<1>3. CASE r.interface # Kernel
  <2>1. operations = itable(r.server)[Masked(r.server, r.interface)]
    BY <1>1, <1>3, TablesOffer DEF CutInterface
  <2>. QED
    BY <1>3, <2>1 DEF Replies, CutFunction
<1>. QED
  BY <1>2, <1>3

LEMMA OutcomesOf ==
  ASSUME NEW r \in Requests
  PROVE  /\ r.length > BufferSize => CallOutcomes(r) = {Overflow}
         /\ r.length <= BufferSize =>
              \A x \in Replies(r) :
                (IF x.size <= r.room THEN x.value ELSE Overflow) \in CallOutcomes(r)
<1>1. r.length \in Nat
  BY ServersAssumption
<1>. QED
  BY <1>1, EntryIsOffered, ServersAssumption DEF CallOutcomes, CutInterface, CutFunction

(* What a server holds for its partner: a request it could take, and then  *)
(* one of the replies to it.  A client without a call has no request.      *)
RepliesDue ==
  \A s \in Server :
    partner[s] \in Client =>
      /\ pc[s] \in {"process", "call"} => request[partner[s]].length <= BufferSize
      /\ pc[s] = "call" => out[s] \in Replies(request[partner[s]])
IdleIsFree == \A c \in Client : state[c] = "idle" => request[c] = NoRequest

DueInv == Inv /\ RepliesDue /\ IdleIsFree

LEMMA InitDue == Init => DueInv
<1>. SUFFICES ASSUME Init PROVE DueInv
  OBVIOUS
<1>1. RepliesDue
  BY ServersAssumption DEF Init, RepliesDue
<1>. QED
  BY <1>1, InitInv DEF Init, DueInv, IdleIsFree

(* Of whom a server serves, the request stays as it is until it replies. *)
LEMMA ServedIsApart ==
  ASSUME Inv, NEW s \in Server, partner[s] \in Client, pc[s] \in {"process", "call"}
  PROVE  /\ state[partner[s]] = "receiving" /\ request[partner[s]].server = s
         /\ request[partner[s]] \in Requests
BY DEF Inv, CallersKept, Serving, AwaitsReply, CallsHaveRequests

LEMMA CallDue ==
  ASSUME DueInv, NEW c \in Client, Call(c)
  PROVE  DueInv' /\ Calls!Next
<1>1. /\ state[c] = "idle" /\ state' = [state EXCEPT ![c] = "sending"]
      /\ UNCHANGED <<pc, partner, out>> /\ result' = [result EXCEPT ![c] = None]
  BY DEF Call
<1>2. PICK r \in Requests : request' = [request EXCEPT ![c] = r]
  BY DEF Call
<1>3. Inv'
  BY CallInv DEF DueInv
<1>4. RepliesDue'
  <2>. SUFFICES ASSUME NEW s \in Server, partner[s] \in Client, pc[s] \in {"process", "call"}
                PROVE  request'[partner[s]] = request[partner[s]]
    BY <1>1 DEF DueInv, RepliesDue
  <2>. QED
    BY <1>1, <1>2, ServedIsApart DEF DueInv, Inv, TypeOK
<1>5. IdleIsFree'
  BY <1>1, <1>2 DEF DueInv, Inv, TypeOK, IdleIsFree
<1>6. Calls!Call(c)
  BY <1>1, <1>2 DEF Calls!Call, DueInv, IdleIsFree
<1>. QED
  BY <1>3, <1>4, <1>5, <1>6 DEF DueInv, Calls!Next

(* A call that ends does so with an outcome of its request. *)
LEMMA EndIsReturn ==
  ASSUME Inv, NEW c \in Client, state[c] # "idle", NEW x \in CallOutcomes(request[c]), End(c, x)
  PROVE  Calls!Next
<1>1. request[c] \in Requests /\ request[c] # NoRequest
  <2>1. request[c] \in Requests
    BY DEF Inv, CallsHaveRequests
  <2>2. "length" \in DOMAIN request[c] /\ "length" \notin DOMAIN NoRequest
    BY <2>1, ServersAssumption DEF NoRequest
  <2>. QED
    BY <2>1, <2>2
<1>2. Calls!Return(c)
  BY <1>1 DEF Calls!Return, End
<1>. QED
  BY <1>2 DEF Calls!Next

LEMMA ServerDue ==
  ASSUME DueInv, NEW s \in Server, ServerStep(s)
  PROVE  DueInv' /\ [Calls!Next]_(Calls!vars)
<1>1. Inv'
  BY SendPhaseInv, ReceivePhaseInv, ProcessInv DEF DueInv, ServerStep
<1>2. CASE SendPhase(s)
  <2>1. /\ pc[s] = "call"
        /\ partner' \in {partner, [partner EXCEPT ![s] = Nobody]}
        /\ pc' \in {[pc EXCEPT ![s] = "wait"], [pc EXCEPT ![s] = "call"]}
        /\ out' = [out EXCEPT ![s] = NoReply]
    BY <1>2 DEF SendPhase, Break
  <2>2. pc'[s] = "wait" \/ partner'[s] = Nobody
    BY <1>2 DEF SendPhase, Break, DueInv, Inv, TypeOK
  <2>3. CASE partner[s] \notin Client
    <3>1. UNCHANGED <<state, request, result>>
      BY <1>2, <2>3 DEF SendPhase, DueInv, Inv, TypeOK
    <3>2. RepliesDue'
      BY <2>1, <2>2, <3>1, ServersAssumption DEF DueInv, Inv, TypeOK, RepliesDue
    <3>. QED
      BY <1>1, <3>1, <3>2 DEF DueInv, IdleIsFree, Calls!vars
  <2>4. CASE partner[s] \in Client
    <3>. DEFINE c == partner[s]
    <3>1. /\ state[c] = "receiving" /\ request[c] \in Requests /\ request[c].server = s
          /\ request[c].length <= BufferSize /\ out[s] \in Replies(request[c])
      BY <2>1, <2>4, ServedIsApart DEF DueInv, RepliesDue
    <3>2. AwaitsReply(c, s) /\ c # Nobody
      BY <2>4, <3>1, ServersAssumption DEF AwaitsReply
    <3>3. request[c].room \in Nat /\ out[s].size \in Nat
      BY <3>1, ServersAssumption DEF DueInv, Inv, TypeOK
    <3>4. End(c, IF out[s].size <= request[c].room THEN out[s].value ELSE Overflow)
      BY <1>2, <3>2, <3>3 DEF SendPhase
    <3>5. (IF out[s].size <= request[c].room THEN out[s].value ELSE Overflow)
            \in CallOutcomes(request[c])
      BY <3>1, OutcomesOf
    <3>6. Calls!Next
      BY <2>4, <3>1, <3>4, <3>5, EndIsReturn DEF DueInv
    <3>7. RepliesDue'
      <4>. SUFFICES ASSUME NEW t \in Server, partner'[t] \in Client, pc'[t] \in {"process", "call"}
                    PROVE  /\ request'[partner'[t]].length <= BufferSize
                           /\ pc'[t] = "call" => out'[t] \in Replies(request'[partner'[t]])
        BY DEF RepliesDue
      <4>1. t # s
        BY <2>2, ServersAssumption
      <4>2. partner'[t] = partner[t] /\ pc'[t] = pc[t] /\ out'[t] = out[t]
        BY <2>1, <4>1 DEF DueInv, Inv, TypeOK
      <4>3. partner[t] # c
        BY <3>1, <4>1, <4>2, ServedIsApart DEF DueInv
      <4>4. request'[partner[t]] = request[partner[t]]
        BY <3>4, <4>3, <4>2 DEF End, DueInv, Inv, TypeOK
      <4>. QED
        BY <4>2, <4>4 DEF DueInv, RepliesDue
    <3>8. IdleIsFree'
      BY <2>4, <3>4 DEF End, DueInv, Inv, TypeOK, IdleIsFree
    <3>. QED
      BY <1>1, <3>6, <3>7, <3>8 DEF DueInv
  <2>. QED
    BY <2>3, <2>4
<1>3. CASE ReceivePhase(s)
  <2>. DEFINE c == Head(queue[s])
  <2>1. /\ c \in Client /\ state[c] = "sending" /\ request[c].server = s /\ request[c] \in Requests
    <3>1. c = queue[s][1] /\ 1 \in 1 .. Len(queue[s]) /\ c \in Client
      BY <1>3 DEF ReceivePhase, DueInv, Inv, TypeOK
    <3>. QED
      BY <3>1 DEF DueInv, Inv, QueuedOnce, CallsHaveRequests
  <2>2. request[c].length \in Nat
    BY <2>1, ServersAssumption
  <2>3. pc[s] = "wait" /\ UNCHANGED out
    BY <1>3 DEF ReceivePhase
  <2>4. \A t \in Server \ {s} :
          /\ partner'[t] = partner[t] /\ pc'[t] = pc[t]
          /\ partner[t] \in Client /\ pc[t] \in {"process", "call"} =>
               partner[t] # c /\ request'[partner[t]] = request[partner[t]]
    BY <1>3, <2>1, ServedIsApart DEF ReceivePhase, Break, End, DueInv, Inv, TypeOK
  <2>5. CASE request[c].length > BufferSize
    <3>1. End(c, Overflow) /\ Break(s)
      BY <1>3, <2>2, <2>5, ServersAssumption DEF ReceivePhase
    <3>2. Calls!Next
      BY <2>1, <2>5, <3>1, OutcomesOf, EndIsReturn DEF DueInv
    <3>3. partner'[s] \notin Client
      BY <3>1, ServersAssumption DEF Break, DueInv, Inv, TypeOK
    <3>4. RepliesDue'
      BY <2>3, <2>4, <3>3 DEF DueInv, RepliesDue
    <3>5. IdleIsFree'
      BY <2>1, <3>1 DEF End, DueInv, Inv, TypeOK, IdleIsFree
    <3>. QED
      BY <1>1, <3>2, <3>4, <3>5 DEF DueInv
  <2>6. CASE request[c].length <= BufferSize
    <3>1. /\ pc' = [pc EXCEPT ![s] = "process"] /\ partner' = [partner EXCEPT ![s] = c]
          /\ state' = [state EXCEPT ![c] = "receiving"] /\ UNCHANGED <<request, result>>
      BY <1>3, <2>2, <2>6, ServersAssumption DEF ReceivePhase
    <3>2. pc'[s] = "process" /\ partner'[s] = c
      BY <3>1 DEF DueInv, Inv, TypeOK
    <3>3. RepliesDue'
      BY <2>3, <2>4, <2>6, <3>1, <3>2 DEF DueInv, RepliesDue
    <3>4. IdleIsFree'
      BY <2>1, <3>1 DEF DueInv, Inv, TypeOK, IdleIsFree
    <3>. QED
      BY <1>1, <3>1, <3>3, <3>4 DEF DueInv, Calls!vars
  <2>. QED
    BY <2>2, <2>5, <2>6, ServersAssumption
<1>4. CASE Process(s)
  <2>1. /\ pc[s] = "process" /\ pc' = [pc EXCEPT ![s] = "call"]
        /\ UNCHANGED <<queue, state, request, result>>
    BY <1>4 DEF Process
  <2>2. \/ partner' = [partner EXCEPT ![s] = Nobody] /\ out' = out
        \/ /\ partner' = partner
           /\ \E x \in Replies(request[partner[s]]) : out' = [out EXCEPT ![s] = x]
    BY <1>4 DEF Process
  <2>3. RepliesDue'
    BY <2>1, <2>2, ServersAssumption DEF DueInv, Inv, TypeOK, RepliesDue
  <2>. QED
    BY <1>1, <2>1, <2>3 DEF DueInv, IdleIsFree, Calls!vars
<1>. QED
  BY <1>2, <1>3, <1>4 DEF ServerStep

LEMMA StepIsCall == DueInv /\ [Next]_vars => DueInv' /\ [Calls!Next]_(Calls!vars)
<1>. SUFFICES ASSUME DueInv, [Next]_vars PROVE DueInv' /\ [Calls!Next]_(Calls!vars)
  OBVIOUS
<1>1. ASSUME NEW c \in Client, Call(c) PROVE DueInv' /\ [Calls!Next]_(Calls!vars)
  BY <1>1, CallDue
<1>2. ASSUME NEW s \in Server, ServerStep(s) PROVE DueInv' /\ [Calls!Next]_(Calls!vars)
  BY <1>2, ServerDue
<1>3. CASE UNCHANGED vars
  <2>1. Inv'
    BY <1>3, InvInductive DEF DueInv
  <2>. QED
    BY <1>3, <2>1 DEF vars, DueInv, RepliesDue, IdleIsFree, Calls!vars
<1>. QED
  BY <1>1, <1>2, <1>3 DEF Next

LEMMA InitIsCalls == Init => Calls!Init
BY DEF Init, Calls!Init

(* The safety half of ImplementsRemoteCalls: whatever the servers do, a    *)
(* call ends at most once, with an outcome of the operation asked for.     *)
THEOREM CallsEndAsOffered == Spec => Calls!Init /\ [][Calls!Next]_(Calls!vars)
<1>1. Spec => []DueInv
  BY InitDue, StepIsCall, PTL DEF Spec
<1>. QED
  BY <1>1, InitIsCalls, StepIsCall, PTL DEF Spec
=============================================================================
