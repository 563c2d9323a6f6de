-------------------------- MODULE NameSystemProofs --------------------------
(***************************************************************************)
(* Proofs about the clients of the name service, for any number of threads *)
(* and any programs: the types, that a lookup over several hops names only *)
(* who held a prefix of the path meanwhile, that it finds what stays       *)
(* registered, and that nobody waits in vain for an orderly server.        *)
(***************************************************************************)
EXTENDS NameSystem, WellFoundedInduction, TLAPS

Entry  == [path : Seq(Char), registrant : Thread \cup {NilThread}]
Held   == Seq(Char) \X Thread
Shapes ==
  /\ prog \in Programs
  /\ names \in [N!Slot -> Entry]
  /\ \A i \in N!Slot : Len(names[i].path) <= MaxEntryLen
  /\ at \in [Thread -> Nat \ {0}]
  /\ pc \in [Thread -> {"ready", "request", "lookup", "answered", "driver"}]
  /\ cur \in [Thread -> Receiver \cup {NilThread}]
  /\ in \in [Thread -> Seq(Char)]
  /\ reply \in [Thread -> [thread : Receiver \cup {NilThread},
                           remaining : Seq(Char) \cup {NullString}]]
  /\ queue \in [Receiver -> Seq(Thread)]
  /\ drivers \subseteq Thread \X Seq(Char)
  /\ holders \subseteq Held
  /\ seen \in [Thread -> SUBSET Held] /\ lasting \in [Thread -> SUBSET Held]

(* Who is queued waits for that receiver, and waits once.                  *)
Waiting(t) == pc[t] \in {"request", "lookup", "driver"}
Queued ==
  \A r \in Receiver :
    /\ \A i \in 1 .. Len(queue[r]) : Waiting(queue[r][i]) /\ cur[queue[r][i]] = r
    /\ \A i, j \in 1 .. Len(queue[r]) : queue[r][i] = queue[r][j] => i = j

(* Occupied slots and holders are the same, and were registered by program.*)
Registers(u, n) ==
  \E j \in DOMAIN prog[u] :
    prog[u][j].op = "register" /\ N!Stored(prog[u][j].path) = n
SlotsHeld ==
  \A i \in N!Slot : ~N!IsFree(i) => <<names[i].path, names[i].registrant>> \in holders
HoldersInSlots ==
  \A h \in holders :
    /\ Registers(h[2], h[1])
    /\ \E i \in N!Slot : ~N!IsFree(i) /\ names[i].path = h[1] /\ names[i].registrant = h[2]
History ==
  \A t \in Thread : lasting[t] \subseteq holders /\ (InLookup(t) => holders \subseteq seen[t])

(* The place a thread is at in its call. *)
InCall(t) ==
  /\ pc[t] # "ready" => at[t] <= Len(prog[t])
  /\ pc[t] = "ready" => at[t] <= Len(prog[t]) + 1
  /\ pc[t] = "request" => call(t).op \in {"register", "deregister"}
  /\ pc[t] \in {"lookup", "answered"} => call(t).op \in {"lookup"} \cup DriverOp
  /\ pc[t] = "driver" => call(t).op \in DriverOp

(* What a thread asks the name server for, and every in[] may hold. *)
Asks(t) == IF call(t).op = "lookup" THEN Copies(call(t).path) ELSE {DriverPath}
Asked(t) ==
  /\ in[t] \in Copies(in[t])
  /\ pc[t] \in {"lookup", "answered"} /\ cur[t] = NameServerId => in[t] \in Asks(t)

(* An answer that names a thread came from the table, and names one that   *)
(* registered a prefix of what was asked, held during the lookup.          *)
FromTable(t, n) ==
  /\ Registers(reply[t].thread, n)
  /\ n \in Seq(Char) /\ Len(n) <= MaxEntryLen /\ IsPrefix(n, in[t])
  /\ reply[t].remaining # <<>> => n # in[t]
  /\ call(t).op = "lookup" => <<n, reply[t].thread>> \in seen[t]
Answered(t) ==
  pc[t] = "answered" =>
    /\ reply[t].thread = NameServerId => cur[t] = NameServerId
    /\ reply[t].thread \in Thread =>
         /\ cur[t] = NameServerId /\ reply[t].remaining \in Seq(Char)
         /\ \E n \in Seq(Char) : FromTable(t, n)

(* A call goes on only to threads the caller depends on. *)
Hop(t) == pc[t] \in {"lookup", "driver"} /\ cur[t] \in Thread => DependsOn(t, cur[t])

ThreadInv(t) == InCall(t) /\ Asked(t) /\ Answered(t) /\ Hop(t)

SystemInv ==
  /\ Shapes /\ Queued
  /\ SlotsHeld /\ HoldersInSlots /\ History
  /\ \A t \in Thread : ThreadInv(t)

(* While nothing is deregistered the table has no hole, and who looks up a *)
(* name that stays is answered with its holder at once.                    *)
Wanted(t, h) ==
  /\ call(t).op = "lookup" /\ h[1] = call(t).path
  /\ Len(h[1]) < MaxEntryLen /\ ~N!IsSelfQuery(h[1])
Finds(t) ==
  pc[t] \in {"lookup", "answered"} =>
    \A h \in lasting[t] : Wanted(t, h) =>
      /\ pc[t] = "answered" => reply[t].thread = h[2] /\ reply[t].remaining = <<>>
      /\ pc[t] = "lookup" => cur[t] = NameServerId
FindInv ==
  NoDeregistration /\ PrefixFree => N!NoHoles /\ \A t \in Thread : Finds(t)

-----------------------------------------------------------------------------
(* A prefix agrees with the sequence on every position it has. *)
LEMMA PrefixByElement ==
  ASSUME NEW S, NEW s \in Seq(S), NEW t \in Seq(S)
  PROVE  IsPrefix(s, t) <=> /\ Len(s) <= Len(t)
                            /\ \A i \in 1 .. Len(s) : s[i] = t[i]
<1>1. ASSUME Len(s) <= Len(t), NEW i \in 1 .. Len(s)
      PROVE  SubSeq(s, 1, Len(s))[i] = s[i] /\ SubSeq(t, 1, Len(s))[i] = t[i]
  BY <1>1
<1>2. ASSUME IsPrefix(s, t), NEW i \in 1 .. Len(s)
      PROVE  s[i] = t[i]
  BY <1>1, <1>2 DEF IsPrefix
<1>3. ASSUME Len(s) <= Len(t), \A i \in 1 .. Len(s) : s[i] = t[i]
      PROVE  IsPrefix(s, t)
  <2>1. SubSeq(s, 1, Len(s)) = SubSeq(t, 1, Len(s))
    BY <1>3
  <2>. QED
    BY <1>3, <2>1 DEF IsPrefix
<1>. QED
  BY <1>2, <1>3 DEF IsPrefix

(* strncpy keeps the first MaxEntryLen characters, *)
LEMMA StoredPath ==
  ASSUME NEW p \in Seq(Char)
  PROVE  /\ N!Stored(p) \in Seq(Char) /\ Len(N!Stored(p)) <= MaxEntryLen
         /\ Len(p) < MaxEntryLen => N!Stored(p) = p
         /\ Len(p) >= MaxEntryLen => Len(N!Stored(p)) = MaxEntryLen
         /\ \A i \in 1 .. Len(N!Stored(p)) : N!Stored(p)[i] = p[i]
         /\ Len(N!Stored(p)) <= Len(p)
BY BufferAssumption DEF N!Stored

(* and what in[] holds after it starts with them, *)
LEMMA CopyOfPath ==
  ASSUME NEW p \in Seq(Char), NEW q \in Copies(p)
  PROVE  /\ q \in Seq(Char)
         /\ Len(p) < MaxEntryLen => q = p
         /\ Len(p) >= MaxEntryLen => \E x \in StackTail : q = N!Stored(p) \o x
<1>1. CASE Len(p) < MaxEntryLen
  BY <1>1, BufferAssumption DEF Copies
<1>2. CASE ~(Len(p) < MaxEntryLen)
  <2>1. PICK x \in StackTail : q = N!Stored(p) \o x
    BY <1>2 DEF Copies
  <2>2. x \in Seq(Char) /\ N!Stored(p) \in Seq(Char)
    BY ProgramAssumption, StoredPath
  <2>3. q \in Seq(Char)
    BY <2>1, <2>2
  <2>4. Len(p) \in Nat /\ MaxEntryLen \in Nat
    BY BufferAssumption
  <2>. QED
    BY <1>2, <2>1, <2>3, <2>4
<1>. QED
  BY <1>1, <1>2

(* so that a name found in it is one the caller asked for, *)
LEMMA PrefixOfCopy ==
  ASSUME NEW p \in Seq(Char), NEW q \in Copies(p),
         NEW n \in Seq(Char), Len(n) <= MaxEntryLen, IsPrefix(n, q)
  PROVE  IsPrefix(n, p)
<1>1. CASE Len(p) < MaxEntryLen
  BY <1>1, CopyOfPath
<1>2. CASE ~(Len(p) < MaxEntryLen)
  <2>1. Len(p) >= MaxEntryLen
    BY <1>2, BufferAssumption
  <2>2. PICK x \in StackTail : q = N!Stored(p) \o x
    BY <2>1, CopyOfPath
  <2>3. x \in Seq(Char) /\ q \in Seq(Char)
    BY ProgramAssumption, CopyOfPath
  <2>4. Len(N!Stored(p)) = MaxEntryLen /\ N!Stored(p) \in Seq(Char)
    BY <2>1, StoredPath
  <2>5. ASSUME NEW i \in 1 .. Len(n)
        PROVE  q[i] = p[i]
    <3>1. i \in 1 .. Len(N!Stored(p))
      BY <2>4, BufferAssumption
    <3>2. q[i] = N!Stored(p)[i]
      BY <2>2, <2>3, <2>4, <3>1
    <3>. QED
      BY <3>1, <3>2, StoredPath
  <2>6. \A i \in 1 .. Len(n) : n[i] = q[i]
    BY <2>3, PrefixByElement
  <2>7. Len(n) <= Len(p)
    BY <2>1, BufferAssumption
  <2>. QED
    BY <2>5, <2>6, <2>7, PrefixByElement
<1>. QED
  BY <1>1, <1>2

(* and copying the copy changes nothing more. *)
LEMMA CopyAgain ==
  ASSUME NEW p \in Seq(Char), NEW q \in Copies(p)
  PROVE  q \in Copies(q)
<1>1. CASE Len(p) < MaxEntryLen
  BY <1>1, CopyOfPath DEF Copies
<1>2. CASE ~(Len(p) < MaxEntryLen)
  <2>1. Len(p) >= MaxEntryLen
    BY <1>2, BufferAssumption
  <2>2. PICK x \in StackTail : q = N!Stored(p) \o x
    BY <2>1, CopyOfPath
  <2>3. x \in Seq(Char) /\ N!Stored(p) \in Seq(Char) /\ Len(N!Stored(p)) = MaxEntryLen
    BY <2>1, ProgramAssumption, StoredPath
  <2>4. Len(q) >= MaxEntryLen /\ SubSeq(q, 1, MaxEntryLen) = N!Stored(p)
    BY <2>2, <2>3, BufferAssumption
  <2>5. N!Stored(q) = N!Stored(p)
    BY <2>2, <2>3, <2>4, BufferAssumption DEF N!Stored
  <2>. QED
    BY <2>2, <2>3, <2>4, <2>5, BufferAssumption DEF Copies
<1>. QED
  BY <1>1, <1>2

(* A stored name that begins "/driver" was not cut off. *)
LEMMA StoredInDriverPath ==
  ASSUME NEW p \in Seq(Char), IsPrefix(N!Stored(p), DriverPath)
  PROVE  IsPrefix(p, DriverPath)
<1>1. Len(N!Stored(p)) < MaxEntryLen
  BY BufferAssumption, StoredPath DEF IsPrefix
<1>2. Len(p) < MaxEntryLen
  BY <1>1, StoredPath, BufferAssumption
<1>. QED
  BY <1>2, StoredPath

-----------------------------------------------------------------------------
LEMMA ElementOfSequence ==
  ASSUME NEW S, NEW s \in Seq(S), NEW i \in 1 .. Len(s)
  PROVE  s[i] \in S
OBVIOUS

(* Programs hold calls, each with a path, *)
Calls == [op : {"register", "deregister", "lookup"} \cup DriverOp, path : Seq(Char)]

LEMMA ProgramTyped ==
  ASSUME Shapes, NEW u \in Thread
  PROVE  /\ prog[u] \in Seq(Calls)
         /\ \A j \in DOMAIN prog[u] : prog[u][j] \in Calls
<1>1. prog[u] \in Seq(Calls)
  <2>1. prog \in Programs
    BY DEF Shapes
  <2>2. prog \in [Thread -> Seq(Calls)]
    BY <2>1, ProgramAssumption DEF Calls
  <2>. QED
    BY <2>2
<1>2. \A j \in 1 .. Len(prog[u]) : prog[u][j] \in Calls
  BY <1>1, ElementOfSequence
<1>. QED
  BY <1>1, <1>2

(* as has the call a thread is at, as long as there is one. *)
LEMMA CallTyped ==
  ASSUME Shapes, NEW t \in Thread, at[t] <= Len(prog[t])
  PROVE  /\ at[t] \in DOMAIN prog[t]
         /\ call(t).op \in {"register", "deregister", "lookup"} \cup DriverOp
         /\ call(t).path \in Seq(Char)
<1>1. prog[t] \in Seq(Calls) /\ at[t] \in Nat \ {0}
  BY ProgramTyped DEF Shapes
<1>2. at[t] \in DOMAIN prog[t]
  BY <1>1
<1>3. prog[t][at[t]] \in Calls
  BY <1>2, ProgramTyped
<1>. QED
  BY <1>2, <1>3 DEF call, Calls

(* A thread that calls is added behind the others, *)
LEMMA SendQueued ==
  ASSUME Shapes, Queued, NEW t \in Thread, NEW r \in Receiver, NEW p, ~Waiting(t),
         NEW w \in {"request", "lookup", "driver"}, Send(t, r, p, w)
  PROVE  Queued' /\ queue' \in [Receiver -> Seq(Thread)]
<1>1. /\ queue \in [Receiver -> Seq(Thread)]
      /\ queue' = [queue EXCEPT ![r] = Append(queue[r], t)]
      /\ pc'[t] = w /\ cur'[t] = r
      /\ \A u \in Thread : u # t => pc'[u] = pc[u] /\ cur'[u] = cur[u]
  BY DEF Shapes, Send
<1>2. \A x \in Receiver : \A i \in 1 .. Len(queue[x]) :
        queue[x][i] \in Thread /\ queue[x][i] # t
  <2>. SUFFICES ASSUME NEW x \in Receiver, NEW i \in 1 .. Len(queue[x])
                PROVE  queue[x][i] \in Thread /\ queue[x][i] # t
    OBVIOUS
  <2>1. queue[x] \in Seq(Thread)
    BY <1>1
  <2>2. Waiting(queue[x][i])
    BY DEF Queued
  <2>. QED
    BY <2>1, <2>2
<1>3. /\ queue'[r] = Append(queue[r], t) /\ Len(queue'[r]) = Len(queue[r]) + 1
      /\ queue'[r][Len(queue[r]) + 1] = t
      /\ \A i \in 1 .. Len(queue[r]) : queue'[r][i] = queue[r][i]
  BY <1>1
<1>4. \A x \in Receiver : x # r => queue'[x] = queue[x]
  BY <1>1
<1>5. queue[r] \in Seq(Thread) /\ Len(queue[r]) \in Nat
  BY <1>1
<1>6. ASSUME NEW x \in Receiver, NEW i \in 1 .. Len(queue'[x])
      PROVE  Waiting(queue[x][i])' /\ cur'[queue'[x][i]] = x
  <2>1. CASE x = r /\ i = Len(queue[r]) + 1
    BY <1>1, <1>3, <2>1 DEF Waiting
  <2>2. CASE i \in 1 .. Len(queue[x])
    <3>1. queue'[x][i] = queue[x][i]
      BY <1>3, <1>4, <2>2
    <3>2. Waiting(queue[x][i]) /\ cur[queue[x][i]] = x
      BY <2>2 DEF Queued
    <3>3. queue[x][i] \in Thread /\ queue[x][i] # t
      BY <1>2, <2>2
    <3>. QED
      BY <1>1, <3>1, <3>2, <3>3 DEF Waiting
  <2>3. (x = r /\ i = Len(queue[r]) + 1) \/ i \in 1 .. Len(queue[x])
    <3>1. CASE x = r
      BY <1>3, <1>5, <1>6, <3>1
    <3>2. CASE x # r
      BY <1>4, <1>6, <3>2
    <3>. QED
      BY <3>1, <3>2
  <2>. QED
    BY <2>1, <2>2, <2>3
<1>7. ASSUME NEW x \in Receiver, NEW i \in 1 .. Len(queue'[x]),
             NEW j \in 1 .. Len(queue'[x]), queue'[x][i] = queue'[x][j]
      PROVE  i = j
  <2>1. CASE x # r
    BY <1>4, <1>7, <2>1 DEF Queued
  <2>2. CASE x = r /\ i \in 1 .. Len(queue[r]) /\ j \in 1 .. Len(queue[r])
    BY <1>3, <1>7, <2>2 DEF Queued
  <2>3. CASE x = r /\ ~(i \in 1 .. Len(queue[r]) /\ j \in 1 .. Len(queue[r]))
    <3>1. \A k \in 1 .. Len(queue'[r]) :
            k \in 1 .. Len(queue[r]) \/ k = Len(queue[r]) + 1
      BY <1>3, <1>5
    <3>2. \A k \in 1 .. Len(queue[r]) : queue'[r][k] # t
      BY <1>2, <1>3
    <3>. QED
      BY <1>3, <1>7, <2>3, <3>1, <3>2
  <2>. QED
    BY <2>1, <2>2, <2>3
<1>8. Queued'
  BY <1>6, <1>7 DEF Queued
<1>. QED
  BY <1>1, <1>8

(* and the first of the queue is taken off it. *)
LEMMA PopQueued ==
  ASSUME Shapes, Queued, NEW r \in Receiver, queue[r] # <<>>,
         queue' = [queue EXCEPT ![r] = Tail(@)], NEW w,
         pc' = [pc EXCEPT ![Head(queue[r])] = w], cur' = cur
  PROVE  /\ Queued' /\ queue' \in [Receiver -> Seq(Thread)]
         /\ Head(queue[r]) \in Thread /\ cur[Head(queue[r])] = r
         /\ Waiting(Head(queue[r]))
<1>. DEFINE t == Head(queue[r])
<1>1. /\ queue \in [Receiver -> Seq(Thread)] /\ queue[r] \in Seq(Thread)
      /\ Len(queue[r]) \in Nat /\ Len(queue[r]) >= 1
      /\ t = queue[r][1] /\ 1 \in 1 .. Len(queue[r])
  BY DEF Shapes
<1>2. t \in Thread /\ cur[t] = r /\ Waiting(t)
  BY <1>1 DEF Queued
<1>3. /\ queue'[r] = Tail(queue[r]) /\ Len(queue'[r]) = Len(queue[r]) - 1
      /\ \A i \in 1 .. Len(queue'[r]) :
           i + 1 \in 1 .. Len(queue[r]) /\ queue'[r][i] = queue[r][i + 1]
  BY <1>1
<1>4. \A x \in Receiver : x # r => queue'[x] = queue[x]
  BY <1>1
<1>5. \A u \in Thread : u # t => pc'[u] = pc[u]
  BY DEF Shapes
<1>6. ASSUME NEW x \in Receiver, NEW i \in 1 .. Len(queue'[x])
      PROVE  Waiting(queue[x][i])' /\ cur'[queue'[x][i]] = x
  <2>1. \E k \in 1 .. Len(queue[x]) : queue'[x][i] = queue[x][k] /\ queue[x][k] # t
    <3>1. CASE x = r
      <4>1. i + 1 \in 1 .. Len(queue[r]) /\ i + 1 # 1
        BY <1>3, <1>6, <3>1
      <4>2. queue[r][i + 1] # queue[r][1]
        BY <1>1, <4>1 DEF Queued
      <4>. QED
        BY <1>1, <1>3, <1>6, <3>1, <4>1, <4>2
    <3>2. CASE x # r
      BY <1>2, <1>4, <1>6, <3>2 DEF Queued
    <3>. QED
      BY <3>1, <3>2
  <2>2. PICK k \in 1 .. Len(queue[x]) : queue'[x][i] = queue[x][k] /\ queue[x][k] # t
    BY <2>1
  <2>3. queue[x][k] \in Thread
    BY <1>1
  <2>. QED
    BY <1>5, <2>2, <2>3 DEF Queued, Waiting
<1>7. ASSUME NEW x \in Receiver, NEW i \in 1 .. Len(queue'[x]),
             NEW j \in 1 .. Len(queue'[x]), queue'[x][i] = queue'[x][j]
      PROVE  i = j
  <2>1. CASE x # r
    BY <1>4, <1>7, <2>1 DEF Queued
  <2>2. CASE x = r
    <3>1. i + 1 = j + 1
      BY <1>3, <1>7, <2>2 DEF Queued
    <3>. QED
      BY <1>3, <1>1, <2>2, <3>1
  <2>. QED
    BY <2>1, <2>2
<1>8. Queued'
  BY <1>6, <1>7 DEF Queued
<1>9. queue' \in [Receiver -> Seq(Thread)]
  BY <1>1
<1>. QED
  BY <1>2, <1>8, <1>9

(* What a thread knows of its own call stays right while others move.      *)
LEMMA ThreadKept ==
  ASSUME NEW u \in Thread, ThreadInv(u), prog' = prog,
         pc'[u] = pc[u], cur'[u] = cur[u], in'[u] = in[u], reply'[u] = reply[u],
         at'[u] = at[u], InLookup(u) => seen[u] \subseteq seen'[u]
  PROVE  ThreadInv(u)'
<1>1. call(u)' = call(u) /\ Asks(u)' = Asks(u)
  BY DEF call, Asks
<1>2. InCall(u)' /\ Asked(u)'
  BY <1>1 DEF ThreadInv, InCall, Asked
<1>3. Hop(u)'
  BY DEF ThreadInv, Hop, DependsOn
<1>4. Answered(u)'
  <2>1. ASSUME NEW n \in Seq(Char), pc[u] = "answered", FromTable(u, n)
        PROVE  FromTable(u, n)'
    BY <1>1, <2>1 DEF FromTable, Registers, InLookup, Done
  <2>. QED
    BY <2>1 DEF ThreadInv, Answered
<1>. QED
  BY <1>2, <1>3, <1>4 DEF ThreadInv

-----------------------------------------------------------------------------
(* An IPC that is sent keeps the invariant, if it fits the caller's call,  *)
(* asks the name server what the call is about, and goes to a thread only  *)
(* where the caller depends on it.                                         *)
LEMMA SendStep ==
  ASSUME SystemInv, NEW t \in Thread, NEW r \in Receiver, NEW p \in Seq(Char),
         NEW w \in {"request", "lookup", "driver"},
         Send(t, r, p, w), ~Waiting(t), at[t] <= Len(prog[t]), p \in Copies(p),
         UNCHANGED <<prog, names, at, reply, drivers, holders>>,
         seen' \in [Thread -> SUBSET Held], lasting' \in [Thread -> SUBSET Held],
         \A u \in Thread : u # t => seen'[u] = seen[u] /\ lasting'[u] = lasting[u],
         lasting'[t] \subseteq holders,
         call(t).op = "lookup" => holders \subseteq seen'[t],
         w = "request" => call(t).op \in {"register", "deregister"},
         w = "lookup" => call(t).op \in {"lookup"} \cup DriverOp,
         w = "driver" => call(t).op \in DriverOp,
         w = "lookup" /\ r = NameServerId => p \in Asks(t),
         w # "request" /\ r \in Thread => DependsOn(t, r)
  PROVE  SystemInv'
<1>1. Shapes /\ Queued /\ SlotsHeld /\ HoldersInSlots /\ History
  BY DEF SystemInv
<1>2. Queued' /\ queue' \in [Receiver -> Seq(Thread)]
  BY <1>1, SendQueued
<1>3. /\ pc' = [pc EXCEPT ![t] = w] /\ cur' = [cur EXCEPT ![t] = r]
      /\ in' = [in EXCEPT ![t] = p]
  BY DEF Send
<1>4. Shapes'
  BY <1>1, <1>2, <1>3 DEF Shapes
<1>5. /\ pc'[t] = w /\ cur'[t] = r /\ in'[t] = p
      /\ \A u \in Thread : u # t => pc'[u] = pc[u] /\ cur'[u] = cur[u] /\ in'[u] = in[u]
  BY <1>1, <1>3 DEF Shapes
<1>6. SlotsHeld' /\ HoldersInSlots'
  BY <1>1 DEF SlotsHeld, HoldersInSlots, Registers, N!IsFree
<1>7. History'
  <2>1. SUFFICES ASSUME NEW u \in Thread
                 PROVE  /\ lasting'[u] \subseteq holders'
                        /\ InLookup(u)' => holders' \subseteq seen'[u]
    BY DEF History
  <2>2. call(u)' = call(u)
    BY DEF call
  <2>3. CASE u = t
    BY <2>2, <2>3 DEF InLookup
  <2>4. CASE u # t
    BY <1>1, <1>5, <2>2, <2>4 DEF History, InLookup, Done
  <2>. QED
    BY <2>3, <2>4
<1>8. ASSUME NEW u \in Thread PROVE ThreadInv(u)'
  <2>1. CASE u = t
    <3>1. call(t)' = call(t) /\ Asks(t)' = Asks(t)
      BY DEF call, Asks
    <3>2. Asked(t)'
      <4>1. p \in Copies(p)'
        BY DEF Copies
      <4>. QED
        BY <1>5, <3>1 DEF Asked
    <3>3. InCall(t)'
      BY <1>5, <3>1 DEF InCall
    <3>4. Answered(t)'
      BY <1>5 DEF Answered
    <3>5. Hop(t)'
      <4>1. SUFFICES ASSUME w # "request", r \in Thread PROVE DependsOn(t, r)'
        BY <1>5 DEF Hop
      <4>. QED
        BY <4>1 DEF DependsOn
    <3>. QED
      BY <2>1, <3>2, <3>3, <3>4, <3>5 DEF ThreadInv
  <2>2. CASE u # t
    <3>1. ThreadInv(u)
      BY DEF SystemInv
    <3>. QED
      BY <1>5, <2>2, <3>1, ThreadKept
  <2>. QED
    BY <2>1, <2>2
<1>. QED
  BY <1>2, <1>4, <1>6, <1>7, <1>8 DEF SystemInv

LEMMA ShortCopies ==
  /\ <<>> \in Seq(Char) /\ <<>> \in Copies(<<>>)
  /\ DriverPath \in Seq(Char) /\ DriverPath \in Copies(DriverPath)
BY BufferAssumption DEF Copies

LEMMA CallStep ==
  ASSUME SystemInv, NEW t \in Thread, Call(t)
  PROVE  SystemInv'
<1>1. Shapes /\ History /\ ThreadInv(t)
  BY DEF SystemInv
<1>2. at[t] <= Len(prog[t]) /\ pc[t] = "ready" /\ ~Waiting(t)
  <2>1. at[t] \in Nat /\ Len(prog[t]) \in Nat
    BY <1>1, ProgramAssumption DEF Shapes
  <2>. QED
    BY <2>1 DEF Call, Done, Waiting
<1>3. call(t).path \in Seq(Char)
  BY <1>1, <1>2, CallTyped
<1>4. /\ seen' \in [Thread -> SUBSET Held] /\ lasting' \in [Thread -> SUBSET Held]
      /\ \A u \in Thread : u # t => seen'[u] = seen[u] /\ lasting'[u] = lasting[u]
      /\ lasting'[t] \subseteq holders
      /\ call(t).op = "lookup" => holders \subseteq seen'[t]
  <2>1. CASE call(t).op = "lookup"
    <3>1. seen' = [seen EXCEPT ![t] = holders] /\ lasting' = [lasting EXCEPT ![t] = holders]
      BY <2>1 DEF Call
    <3>. QED
      BY <1>1, <3>1 DEF Shapes
  <2>2. CASE call(t).op # "lookup"
    <3>1. seen' = seen /\ lasting' = lasting
      BY <2>2 DEF Call
    <3>. QED
      BY <1>1, <2>2, <3>1 DEF Shapes, History
  <2>. QED
    BY <2>1, <2>2
<1>5. NameServerId \in Receiver /\ NameServerId \notin Thread
  BY ProgramAssumption DEF Receiver
<1>6. UNCHANGED <<prog, names, at, reply, drivers, holders>>
  BY DEF Call
<1>7. \/ /\ call(t).op \in {"register", "deregister"}
         /\ Send(t, NameServerId, <<>>, "request")
      \/ /\ call(t).op = "lookup"
         /\ \E q \in Copies(call(t).path) : Send(t, NameServerId, q, "lookup")
      \/ /\ call(t).op \in DriverOp
         /\ Send(t, NameServerId, DriverPath, "lookup")
  BY DEF Call
<1>8. CASE /\ call(t).op \in {"register", "deregister"}
           /\ Send(t, NameServerId, <<>>, "request")
  <2>. HIDE DEF Call
  <2>. QED
    BY <1>2, <1>4, <1>5, <1>6, <1>8, SendStep, ShortCopies
<1>9. ASSUME call(t).op = "lookup", NEW q \in Copies(call(t).path),
             Send(t, NameServerId, q, "lookup")
      PROVE  SystemInv'
  <2>1. q \in Seq(Char) /\ q \in Copies(q) /\ q \in Asks(t)
    BY <1>3, <1>9, CopyOfPath, CopyAgain DEF Asks
  <2>. QED
    BY <1>2, <1>4, <1>5, <1>6, <1>9, <2>1, SendStep
<1>10. CASE /\ call(t).op \in DriverOp
            /\ Send(t, NameServerId, DriverPath, "lookup")
  <2>1. DriverPath \in Asks(t) /\ call(t).op # "lookup"
    BY <1>10 DEF Asks, DriverOp
  <2>. QED
    BY <1>2, <1>4, <1>5, <1>6, <1>10, <2>1, SendStep, ShortCopies
<1>. QED
  BY <1>7, <1>8, <1>9, <1>10

(* Who was named by the table, and is gone on to, is one the caller        *)
(* depends on.                                                             *)
LEMMA TableDepends ==
  ASSUME SystemInv, NEW t \in Thread, pc[t] = "answered", reply[t].thread \in Thread,
         call(t).op \in DriverOp \/ reply[t].remaining # <<>>
  PROVE  DependsOn(t, reply[t].thread)
<1>. DEFINE r == reply[t].thread
<1>1. Shapes /\ InCall(t) /\ Asked(t) /\ Answered(t)
  BY DEF SystemInv, ThreadInv
<1>2. PICK n \in Seq(Char) : FromTable(t, n)
  BY <1>1 DEF Answered
<1>3. /\ cur[t] = NameServerId /\ in[t] \in Asks(t)
      /\ call(t).op \in {"lookup"} \cup DriverOp
      /\ at[t] \in DOMAIN prog[t] /\ call(t) = prog[t][at[t]]
  BY <1>1, CallTyped DEF Answered, Asked, InCall, call
<1>4. PICK j \in DOMAIN prog[r] :
        prog[r][j].op = "register" /\ N!Stored(prog[r][j].path) = n
  BY <1>2 DEF FromTable, Registers
<1>5. CASE call(t).op = "lookup"
  <2>1. in[t] \in Copies(call(t).path)
    BY <1>3, <1>5 DEF Asks
  <2>2. IsStrictPrefix(n, in[t])
    BY <1>2, <1>5 DEF FromTable, IsStrictPrefix, DriverOp
  <2>3. Leads(prog[r][j], prog[t][at[t]])
    BY <1>3, <1>4, <1>5, <2>1, <2>2 DEF Leads
  <2>. QED
    BY <1>3, <2>3 DEF DependsOn
<1>6. CASE call(t).op \in DriverOp
  <2>1. in[t] = DriverPath
    BY <1>3, <1>6 DEF Asks, DriverOp
  <2>2. prog[r][j].path \in Seq(Char)
    BY <1>1, ProgramTyped DEF Calls
  <2>3. IsPrefix(prog[r][j].path, DriverPath)
    BY <1>2, <1>4, <2>1, <2>2, StoredInDriverPath DEF FromTable
  <2>. QED
    BY <1>3, <1>4, <1>6, <2>3 DEF DependsOn
<1>. QED
  BY <1>3, <1>5, <1>6

LEMMA HistoryKept ==
  ASSUME Shapes, History, NEW t \in Thread, UNCHANGED <<seen, lasting>>,
         pc[t] # "ready"
  PROVE  /\ seen' \in [Thread -> SUBSET Held] /\ lasting' \in [Thread -> SUBSET Held]
         /\ \A u \in Thread : u # t => seen'[u] = seen[u] /\ lasting'[u] = lasting[u]
         /\ lasting'[t] \subseteq holders
         /\ call(t).op = "lookup" => holders \subseteq seen'[t]
BY DEF Shapes, History, InLookup, Done

LEMMA NextHopStep ==
  ASSUME SystemInv, NEW t \in Thread, NextHop(t)
  PROVE  SystemInv'
<1>1. Shapes /\ History /\ InCall(t) /\ Answered(t)
  BY DEF SystemInv, ThreadInv
<1>2. /\ pc[t] = "answered" /\ ~Waiting(t) /\ at[t] <= Len(prog[t])
      /\ reply[t].thread # NilThread /\ reply[t].thread # cur[t]
      /\ reply[t].remaining # <<>>
  BY <1>1 DEF NextHop, Ends, Waiting, InCall
<1>3. reply[t].thread \in Thread
  BY <1>1, <1>2 DEF Shapes, Answered, Receiver
<1>4. reply[t].remaining \in Seq(Char) /\ reply[t].thread \in Receiver
  BY <1>1, <1>2, <1>3 DEF Answered, Receiver
<1>5. DependsOn(t, reply[t].thread)
  BY <1>2, <1>3, TableDepends
<1>6. PICK q \in Copies(reply[t].remaining) : Send(t, reply[t].thread, q, "lookup")
  BY DEF NextHop
<1>7. q \in Seq(Char) /\ q \in Copies(q)
  BY <1>4, CopyOfPath, CopyAgain
<1>8. /\ UNCHANGED <<prog, names, at, reply, drivers, holders>>
      /\ UNCHANGED <<seen, lasting>>
  BY DEF NextHop
<1>9. call(t).op \in {"lookup"} \cup DriverOp /\ reply[t].thread # NameServerId
  BY <1>1, <1>2, <1>3, ProgramAssumption DEF InCall
<1>. QED
  BY <1>1, <1>2, <1>4, <1>5, <1>6, <1>7, <1>8, <1>9, HistoryKept, SendStep

LEMMA AskAgainStep ==
  ASSUME SystemInv, NEW t \in Thread, AskAgain(t)
  PROVE  SystemInv'
<1>1. Shapes /\ History /\ InCall(t)
  BY DEF SystemInv, ThreadInv
<1>2. /\ pc[t] = "answered" /\ ~Waiting(t) /\ at[t] <= Len(prog[t])
      /\ call(t).op \in DriverOp /\ Send(t, NameServerId, DriverPath, "lookup")
  BY <1>1 DEF AskAgain, Waiting, InCall
<1>3. DriverPath \in Asks(t)
  BY <1>2 DEF Asks, DriverOp
<1>4. NameServerId \in Receiver /\ NameServerId \notin Thread
  BY ProgramAssumption DEF Receiver
<1>5. /\ UNCHANGED <<prog, names, at, reply, drivers, holders>>
      /\ UNCHANGED <<seen, lasting>>
  BY DEF AskAgain
<1>. QED
  BY <1>1, <1>2, <1>3, <1>4, <1>5, ShortCopies, HistoryKept, SendStep

LEMMA CallDriverServerStep ==
  ASSUME SystemInv, NEW t \in Thread, CallDriverServer(t)
  PROVE  SystemInv'
<1>1. Shapes /\ History /\ InCall(t)
  BY DEF SystemInv, ThreadInv
<1>2. /\ pc[t] = "answered" /\ ~Waiting(t) /\ at[t] <= Len(prog[t])
      /\ call(t).op \in DriverOp /\ reply[t].thread # NilThread
      /\ Send(t, reply[t].thread, <<>>, "driver")
  BY <1>1 DEF CallDriverServer, Waiting, InCall
<1>3. reply[t].thread \in Receiver
  BY <1>1, <1>2 DEF Shapes
<1>4. reply[t].thread \in Thread => DependsOn(t, reply[t].thread)
  BY <1>2, TableDepends
<1>5. /\ UNCHANGED <<prog, names, at, reply, drivers, holders>>
      /\ UNCHANGED <<seen, lasting>>
  BY DEF CallDriverServer
<1>. QED
  BY <1>1, <1>2, <1>3, <1>4, <1>5, ShortCopies, HistoryKept, SendStep

LEMMA ReturnTyped ==
  ASSUME Shapes, NEW t \in Thread, Return(t)
  PROVE  /\ at' \in [Thread -> Nat \ {0}]
         /\ pc' \in [Thread -> {"ready", "request", "lookup", "answered", "driver"}]
         /\ pc'[t] = "ready" /\ at'[t] = at[t] + 1
         /\ \A u \in Thread : u # t => pc'[u] = pc[u] /\ at'[u] = at[u]
<1>1. at[t] + 1 \in Nat \ {0}
  <2>1. at[t] \in Nat
    BY DEF Shapes
  <2>. QED
    BY <2>1
<1>2. at' = [at EXCEPT ![t] = at[t] + 1] /\ pc' = [pc EXCEPT ![t] = "ready"]
  BY DEF Return
<1>. QED
  BY <1>1, <1>2 DEF Shapes

(* A call that returns leaves all threads in order, *)
LEMMA ReturnThreads ==
  ASSUME SystemInv, NEW t \in Thread, pc[t] # "ready", Return(t),
         UNCHANGED <<prog, cur, in, reply>>,
         \A u \in Thread : u # t /\ InLookup(u) => seen[u] \subseteq seen'[u]
  PROVE  \A u \in Thread : ThreadInv(u)'
<1>. SUFFICES ASSUME NEW u \in Thread PROVE ThreadInv(u)'
  OBVIOUS
<1>1. Shapes /\ ThreadInv(u) /\ ThreadInv(t)
  BY DEF SystemInv
<1>2. /\ pc'[t] = "ready" /\ at'[t] = at[t] + 1
      /\ u # t => pc'[u] = pc[u] /\ at'[u] = at[u]
  BY <1>1 DEF Return, Shapes
<1>3. CASE u = t
  <2>1. InCall(t)'
    <3>1. at[t] <= Len(prog[t]) /\ at[t] \in Nat /\ Len(prog[t]) \in Nat
      BY <1>1, ProgramTyped DEF ThreadInv, InCall, Shapes
    <3>. QED
      BY <1>2, <3>1 DEF InCall
  <2>2. Asked(t)'
    BY <1>1, <1>2 DEF ThreadInv, Asked, Copies
  <2>3. Answered(t)' /\ Hop(t)'
    BY <1>2 DEF Answered, Hop
  <2>. QED
    BY <1>3, <2>1, <2>2, <2>3 DEF ThreadInv
<1>4. CASE u # t
  BY <1>1, <1>2, <1>4, ThreadKept
<1>. QED
  BY <1>3, <1>4

(* as does an answer, if it is of the kind that is expected. *)
LEMMA AnswerThreads ==
  ASSUME SystemInv, NEW t \in Thread, pc[t] = "lookup", NEW a, Answer(t, a),
         UNCHANGED <<prog, at, cur, in, seen>>, Answered(t)'
  PROVE  \A u \in Thread : ThreadInv(u)'
<1>. SUFFICES ASSUME NEW u \in Thread PROVE ThreadInv(u)'
  OBVIOUS
<1>1. Shapes /\ ThreadInv(u) /\ ThreadInv(t)
  BY DEF SystemInv
<1>2. /\ pc'[t] = "answered"
      /\ u # t => pc'[u] = pc[u] /\ reply'[u] = reply[u]
  BY <1>1 DEF Answer, Shapes
<1>3. CASE u = t
  <2>1. call(t)' = call(t) /\ Asks(t)' = Asks(t)
    BY DEF call, Asks
  <2>2. InCall(t)'
    BY <1>1, <1>2, <2>1 DEF ThreadInv, InCall
  <2>3. Asked(t)'
    BY <1>1, <1>2, <2>1 DEF ThreadInv, Asked, Copies
  <2>4. Hop(t)'
    BY <1>2 DEF Hop
  <2>. QED
    BY <1>3, <2>2, <2>3, <2>4 DEF ThreadInv
<1>4. CASE u # t
  BY <1>1, <1>2, <1>4, ThreadKept
<1>. QED
  BY <1>3, <1>4

LEMMA LookupReturnsStep ==
  ASSUME SystemInv, NEW t \in Thread, LookupReturns(t)
  PROVE  SystemInv'
<1>1. Shapes /\ Queued /\ SlotsHeld /\ HoldersInSlots /\ History /\ ThreadInv(t)
  BY DEF SystemInv
<1>2. /\ pc[t] = "answered" /\ at[t] <= Len(prog[t])
      /\ at' = [at EXCEPT ![t] = @ + 1] /\ pc' = [pc EXCEPT ![t] = "ready"]
      /\ seen' = [seen EXCEPT ![t] = {}] /\ lasting' = [lasting EXCEPT ![t] = {}]
      /\ UNCHANGED <<prog, names, cur, in, reply, queue, drivers, holders>>
  BY <1>1 DEF LookupReturns, Return, ThreadInv, InCall
<1>3. Shapes'
  BY <1>1, <1>2 DEF Shapes
<1>4. /\ pc'[t] = "ready" /\ at'[t] = at[t] + 1 /\ lasting'[t] = {}
      /\ \A u \in Thread : u # t => /\ pc'[u] = pc[u] /\ at'[u] = at[u]
                                   /\ seen'[u] = seen[u] /\ lasting'[u] = lasting[u]
  BY <1>1, <1>2 DEF Shapes
<1>5. Queued'
  <2>1. \A r \in Receiver : \A i \in 1 .. Len(queue[r]) :
          queue[r][i] \in Thread /\ queue[r][i] # t
    <3>. SUFFICES ASSUME NEW r \in Receiver, NEW i \in 1 .. Len(queue[r])
                  PROVE  queue[r][i] \in Thread /\ queue[r][i] # t
      OBVIOUS
    <3>1. Waiting(queue[r][i]) /\ ~Waiting(t)
      BY <1>1, <1>2 DEF Queued, Waiting
    <3>. QED
      BY <1>1, <3>1, ElementOfSequence DEF Shapes
  <2>. QED
    BY <1>1, <1>2, <1>4, <2>1 DEF Queued, Waiting
<1>6. SlotsHeld' /\ HoldersInSlots'
  BY <1>1, <1>2 DEF SlotsHeld, HoldersInSlots, Registers, N!IsFree
<1>7. History'
  <2>1. SUFFICES ASSUME NEW u \in Thread
                 PROVE  /\ lasting'[u] \subseteq holders'
                        /\ InLookup(u)' => holders' \subseteq seen'[u]
    BY DEF History
  <2>2. CASE u = t
    BY <1>4, <2>2 DEF InLookup
  <2>3. CASE u # t
    BY <1>1, <1>2, <1>4, <2>3 DEF History, InLookup, Done, call
  <2>. QED
    BY <2>2, <2>3
<1>8. \A u \in Thread : ThreadInv(u)'
  BY <1>2, <1>4, ReturnThreads DEF Return
<1>. QED
  BY <1>3, <1>5, <1>6, <1>7, <1>8 DEF SystemInv

-----------------------------------------------------------------------------
(* The history follows the holders while lookups only end. *)
LEMMA HoldKeeps ==
  ASSUME Shapes, History, NEW hs \in SUBSET Held, Hold(hs),
         \A u \in Thread : InLookup(u)' => InLookup(u)
  PROVE  /\ History' /\ holders' = hs
         /\ seen' \in [Thread -> SUBSET Held] /\ lasting' \in [Thread -> SUBSET Held]
         /\ \A u \in Thread : InLookup(u) => seen[u] \subseteq seen'[u]
<1>1. /\ holders' = hs
      /\ \A u \in Thread : /\ seen'[u] = IF InLookup(u) THEN seen[u] \cup hs ELSE {}
                           /\ lasting'[u] = lasting[u] \cap hs
  BY DEF Hold
<1>2. /\ seen' \in [Thread -> SUBSET Held] /\ lasting' \in [Thread -> SUBSET Held]
  <2>1. \A u \in Thread : seen[u] \subseteq Held /\ lasting[u] \subseteq Held
    BY DEF Shapes
  <2>2. \A u \in Thread :
          (IF InLookup(u) THEN seen[u] \cup hs ELSE {}) \in SUBSET Held
          /\ (lasting[u] \cap hs) \in SUBSET Held
    BY <2>1
  <2>. QED
    BY <2>2 DEF Hold
<1>3. History'
  BY <1>1 DEF History
<1>. QED
  BY <1>1, <1>2, <1>3

(* What Lookup answers: itself, the first slot that matches, or nobody. *)
LEMMA LookupAnswer ==
  ASSUME NEW q
  PROVE  \/ N!IsSelfQuery(q) /\ N!Lookup(q) = [thread |-> NameServerId, remaining |-> NullString]
         \/ /\ ~N!IsSelfQuery(q)
            /\ \E k \in N!Slot :
                 /\ N!FirstMatch(k, q)
                 /\ N!Lookup(q) = [thread |-> names[k].registrant,
                                   remaining |-> SubSeq(q, Len(names[k].path) + 1, Len(q))]
         \/ /\ ~N!IsSelfQuery(q) /\ ~ \E k \in N!Slot : N!FirstMatch(k, q)
            /\ N!Lookup(q) = [thread |-> NilThread, remaining |-> q]
BY DEF N!Lookup

LEMMA AnswerTyped ==
  ASSUME Shapes, NEW q \in Seq(Char)
  PROVE  N!Lookup(q) \in [thread : Receiver \cup {NilThread},
                          remaining : Seq(Char) \cup {NullString}]
<1>1. ASSUME NEW k \in N!Slot
      PROVE  /\ names[k].registrant \in Thread \cup {NilThread}
             /\ SubSeq(q, Len(names[k].path) + 1, Len(q)) \in Seq(Char)
  <2>1. names[k].path \in Seq(Char) /\ names[k].registrant \in Thread \cup {NilThread}
    BY DEF Shapes, Entry
  <2>. QED
    BY <2>1
<1>2. NameServerId \in Receiver
  BY DEF Receiver
<1>3. CASE N!Lookup(q) = [thread |-> NameServerId, remaining |-> NullString]
  BY <1>2, <1>3
<1>4. CASE \E k \in N!Slot :
             N!Lookup(q) = [thread |-> names[k].registrant,
                            remaining |-> SubSeq(q, Len(names[k].path) + 1, Len(q))]
  <2>1. PICK k \in N!Slot :
          N!Lookup(q) = [thread |-> names[k].registrant,
                         remaining |-> SubSeq(q, Len(names[k].path) + 1, Len(q))]
    BY <1>4
  <2>2. names[k].registrant \in Receiver \cup {NilThread}
    BY <1>1 DEF Receiver
  <2>3. SubSeq(q, Len(names[k].path) + 1, Len(q)) \in Seq(Char) \cup {NullString}
    BY <1>1
  <2>4. [thread |-> names[k].registrant,
         remaining |-> SubSeq(q, Len(names[k].path) + 1, Len(q))]
        \in [thread : Receiver \cup {NilThread}, remaining : Seq(Char) \cup {NullString}]
    BY <2>2, <2>3
  <2>. QED
    BY <2>1, <2>4
<1>5. CASE N!Lookup(q) = [thread |-> NilThread, remaining |-> q]
  BY <1>5
<1>6. \/ N!Lookup(q) = [thread |-> NameServerId, remaining |-> NullString]
      \/ \E k \in N!Slot :
           N!Lookup(q) = [thread |-> names[k].registrant,
                          remaining |-> SubSeq(q, Len(names[k].path) + 1, Len(q))]
      \/ N!Lookup(q) = [thread |-> NilThread, remaining |-> q]
  BY LookupAnswer
<1>. QED
  BY <1>3, <1>4, <1>5, <1>6

(* The name server answers a lookup as it should: whom it names registered *)
(* the prefix it found, and holds it now.                                  *)
LEMMA TableAnswers ==
  ASSUME SystemInv, NEW t \in Thread, pc[t] = "lookup", cur[t] = NameServerId,
         Answer(t, N!Lookup(in[t])), UNCHANGED <<prog, at, cur, in, seen>>
  PROVE  Answered(t)'
<1>1. Shapes /\ SlotsHeld /\ HoldersInSlots /\ History /\ in[t] \in Seq(Char)
  BY DEF SystemInv, Shapes
<1>2. reply'[t] = N!Lookup(in[t]) /\ cur'[t] = NameServerId
  BY <1>1 DEF Answer, Shapes
<1>3. call(t)' = call(t)
  BY DEF call
<1>4. SUFFICES ASSUME N!Lookup(in[t]).thread \in Thread
               PROVE  /\ N!Lookup(in[t]).remaining \in Seq(Char)
                      /\ \E n \in Seq(Char) : FromTable(t, n)'
  BY <1>2 DEF Answered
<1>5. PICK k \in N!Slot :
        /\ N!FirstMatch(k, in[t])
        /\ N!Lookup(in[t]) = [thread |-> names[k].registrant,
                              remaining |-> SubSeq(in[t], Len(names[k].path) + 1, Len(in[t]))]
  <2>1. N!Lookup(in[t]) # [thread |-> NameServerId, remaining |-> NullString]
    BY <1>4, ProgramAssumption
  <2>2. N!Lookup(in[t]) # [thread |-> NilThread, remaining |-> in[t]]
    BY <1>4, ProgramAssumption
  <2>. QED
    BY <2>1, <2>2, LookupAnswer
<1>. PICK n, r : n = names[k].path /\ r = names[k].registrant
  OBVIOUS
<1>6. /\ n \in Seq(Char) /\ Len(n) <= MaxEntryLen /\ IsPrefix(n, in[t])
      /\ r \in Thread
  <2>1. names[k] \in Entry
    BY <1>1 DEF Shapes
  <2>2. Len(n) <= MaxEntryLen
    BY <1>1 DEF Shapes
  <2>3. IsPrefix(n, in[t])
    BY <1>5 DEF N!FirstMatch, N!Matches, N!IsPrefix, IsPrefix
  <2>4. r \in Thread
    BY <1>4, <1>5
  <2>. QED
    BY <2>1, <2>2, <2>3, <2>4 DEF Entry
<1>7. SubSeq(in[t], Len(n) + 1, Len(in[t])) \in Seq(Char)
  BY <1>1, <1>6
<1>8. n = in[t] => SubSeq(in[t], Len(n) + 1, Len(in[t])) = <<>>
  BY <1>1, <1>6
<1>9. <<n, r>> \in holders /\ Registers(r, n)
  <2>1. ~N!IsFree(k)
    BY <1>6, ProgramAssumption DEF N!IsFree
  <2>2. <<n, r>> \in holders
    BY <1>1, <2>1 DEF SlotsHeld
  <2>. QED
    BY <1>1, <2>2 DEF HoldersInSlots
<1>10. call(t).op = "lookup" => <<n, r>> \in seen[t]
  BY <1>1, <1>9 DEF History, InLookup, Done
<1>11. reply'[t].thread = r /\ reply'[t].remaining = SubSeq(in[t], Len(n) + 1, Len(in[t]))
  BY <1>2, <1>5
<1>12. in'[t] = in[t] /\ seen'[t] = seen[t] /\ Registers(r, n)'
  BY <1>9 DEF Registers
<1>13. FromTable(t, n)'
  BY <1>3, <1>6, <1>8, <1>10, <1>11, <1>12 DEF FromTable, Registers
<1>14. N!Lookup(in[t]).remaining \in Seq(Char)
  BY <1>2, <1>7, <1>11
<1>. QED
  BY <1>6, <1>13, <1>14

-----------------------------------------------------------------------------
(* A registration that finds a free slot fills it, *)
LEMMA RegisterTable ==
  ASSUME NEW c \in Thread, NEW p, N!Register(c, p)
  PROVE  \/ ~(N!find_free_entry >= 0) /\ names' = names
         \/ /\ N!find_free_entry >= 0
            /\ \E n \in N!Slot :
                 /\ N!FirstFree(n)
                 /\ names' = [names EXCEPT ![n] = [path |-> N!Stored(p), registrant |-> c]]
<1>1. CASE N!find_free_entry >= 0
  <2>1. names' = [names EXCEPT ![N!find_free_entry] =
                    [path |-> N!Stored(p), registrant |-> c]]
    BY <1>1 DEF N!Register
  <2>2. \E i \in N!Slot : N!FirstFree(i)
    BY <1>1 DEF N!find_free_entry
  <2>3. N!find_free_entry \in N!Slot /\ N!FirstFree(N!find_free_entry)
    BY <2>2 DEF N!find_free_entry
  <2>. QED
    BY <1>1, <2>1, <2>3
<1>2. CASE ~(N!find_free_entry >= 0)
  BY <1>2 DEF N!Register
<1>. QED
  BY <1>1, <1>2

(* and makes the caller a holder of the name. *)
LEMMA RegisterHolds ==
  ASSUME Shapes, SlotsHeld, HoldersInSlots, prog' = prog,
         NEW t \in Thread, at[t] <= Len(prog[t]), call(t).op = "register",
         N!Register(t, call(t).path),
         holders' = IF N!find_free_entry >= 0
                    THEN holders \cup {<<N!Stored(call(t).path), t>>} ELSE holders
  PROVE  /\ SlotsHeld' /\ HoldersInSlots' /\ holders' \in SUBSET Held
         /\ names' \in [N!Slot -> Entry]
         /\ \A i \in N!Slot : Len(names'[i].path) <= MaxEntryLen
<1>. DEFINE nm == N!Stored(call(t).path)
<1>1. /\ nm \in Seq(Char) /\ Len(nm) <= MaxEntryLen
      /\ Registers(t, nm) /\ t # NilThread
  BY CallTyped, StoredPath, ProgramAssumption DEF Registers, call
<1>2. \A u, x : Registers(u, x)' <=> Registers(u, x)
  BY DEF Registers
<1>3. CASE ~(N!find_free_entry >= 0) /\ names' = names
  BY <1>2, <1>3 DEF Shapes, SlotsHeld, HoldersInSlots, N!IsFree
<1>4. ASSUME N!find_free_entry >= 0, NEW n \in N!Slot, N!FirstFree(n),
             names' = [names EXCEPT ![n] = [path |-> nm, registrant |-> t]]
      PROVE  /\ SlotsHeld' /\ HoldersInSlots' /\ holders' \in SUBSET Held
             /\ names' \in [N!Slot -> Entry]
             /\ \A i \in N!Slot : Len(names'[i].path) <= MaxEntryLen
  <2>. HIDE DEF nm
  <2>1. [path |-> nm, registrant |-> t] \in Entry
    BY <1>1 DEF Entry
  <2>2. /\ names' \in [N!Slot -> Entry]
        /\ names'[n].path = nm /\ names'[n].registrant = t
        /\ \A i \in N!Slot : i # n => names'[i] = names[i]
    BY <1>4, <2>1 DEF Shapes
  <2>3. holders' = holders \cup {<<nm, t>>} /\ <<nm, t>> \in Held
    BY <1>1, <1>4 DEF nm, Held
  <2>4. SlotsHeld'
    BY <2>2, <2>3 DEF SlotsHeld, N!IsFree
  <2>5. HoldersInSlots'
    <3>. SUFFICES ASSUME NEW h \in holders'
                  PROVE  /\ Registers(h[2], h[1])
                         /\ \E i \in N!Slot : /\ names'[i].registrant # NilThread
                                             /\ names'[i].path = h[1]
                                             /\ names'[i].registrant = h[2]
      BY <1>2 DEF HoldersInSlots, N!IsFree
    <3>1. CASE h \in holders
      <4>1. PICK i \in N!Slot :
              ~N!IsFree(i) /\ names[i].path = h[1] /\ names[i].registrant = h[2]
        BY <3>1 DEF HoldersInSlots
      <4>2. i # n
        BY <1>4, <4>1 DEF N!FirstFree
      <4>. QED
        BY <2>2, <3>1, <4>1, <4>2 DEF HoldersInSlots, N!IsFree
    <3>2. CASE h = <<nm, t>>
      BY <1>1, <2>2, <3>2
    <3>. QED
      BY <2>3, <3>1, <3>2
  <2>6. \A i \in N!Slot : Len(names'[i].path) <= MaxEntryLen
    BY <1>1, <2>2 DEF Shapes
  <2>. QED
    BY <2>2, <2>3, <2>4, <2>5, <2>6 DEF Shapes
<1>. QED
  BY <1>3, <1>4, RegisterTable

(* A deregistration frees the caller's slots and takes its names from it.  *)
LEMMA DeregisterHolds ==
  ASSUME Shapes, SlotsHeld, HoldersInSlots, prog' = prog,
         NEW t \in Thread, N!Deregister(t),
         holders' = {h \in holders : h[2] # t}
  PROVE  /\ SlotsHeld' /\ HoldersInSlots' /\ holders' \in SUBSET Held
         /\ names' \in [N!Slot -> Entry]
         /\ \A i \in N!Slot : Len(names'[i].path) <= MaxEntryLen
<1>1. N!FreeEntry \in Entry /\ N!FreeEntry.registrant = NilThread
      /\ Len(N!FreeEntry.path) = 0
  BY DEF N!FreeEntry, Entry
<1>2. \A i \in N!Slot : names'[i] = IF names[i].registrant = t
                                     THEN N!FreeEntry ELSE names[i]
  BY DEF N!Deregister
<1>3. names' \in [N!Slot -> Entry]
  <2>1. \A i \in N!Slot : names[i] \in Entry
    BY DEF Shapes
  <2>. QED
    BY <1>1, <2>1 DEF N!Deregister
<1>4. ASSUME NEW i \in N!Slot PROVE Len(names'[i].path) <= MaxEntryLen
  <2>1. CASE names'[i] = N!FreeEntry
    <3>1. Len(names'[i].path) = 0
      BY <1>1, <2>1
    <3>. QED
      BY <3>1, BufferAssumption
  <2>2. CASE names'[i] = names[i]
    BY <2>2 DEF Shapes
  <2>. QED
    BY <1>2, <2>1, <2>2
<1>5. SlotsHeld'
  <2>. SUFFICES ASSUME NEW i \in N!Slot, names'[i].registrant # NilThread
                PROVE  <<names'[i].path, names'[i].registrant>> \in holders'
    BY DEF SlotsHeld, N!IsFree
  <2>1. names[i].registrant # t /\ names'[i] = names[i]
    BY <1>1, <1>2
  <2>. QED
    BY <2>1 DEF SlotsHeld, N!IsFree
<1>6. HoldersInSlots'
  <2>. SUFFICES ASSUME NEW h \in holders, h[2] # t
                PROVE  /\ Registers(h[2], h[1])'
                       /\ \E i \in N!Slot : /\ names'[i].registrant # NilThread
                                           /\ names'[i].path = h[1]
                                           /\ names'[i].registrant = h[2]
    BY DEF HoldersInSlots, N!IsFree
  <2>1. PICK i \in N!Slot :
          ~N!IsFree(i) /\ names[i].path = h[1] /\ names[i].registrant = h[2]
    BY DEF HoldersInSlots
  <2>2. names'[i] = names[i]
    BY <1>2, <2>1
  <2>3. Registers(h[2], h[1])'
    BY DEF HoldersInSlots, Registers
  <2>. QED
    BY <2>1, <2>2, <2>3 DEF N!IsFree
<1>. QED
  BY <1>3, <1>4, <1>5, <1>6 DEF Shapes

-----------------------------------------------------------------------------
(* The name server's loop: one case per request. *)
LEMMA NameServerStepInv ==
  ASSUME SystemInv, NameServerStep
  PROVE  SystemInv'
<1>. PICK t : t = Head(queue[NameServerId])
  OBVIOUS
<1>1. Shapes /\ Queued /\ SlotsHeld /\ HoldersInSlots /\ History
  BY DEF SystemInv
<1>2. NameServerId \in Receiver /\ NameServerId \notin Thread
  BY ProgramAssumption DEF Receiver
<1>3. /\ queue[NameServerId] # <<>>
      /\ queue' = [queue EXCEPT ![NameServerId] = Tail(@)]
      /\ UNCHANGED <<prog, cur, in, drivers>>
  BY DEF NameServerStep
<1>4. CASE /\ pc[t] = "request" /\ Return(t) /\ UNCHANGED reply
           /\ \/ /\ call(t).op = "register"
                 /\ N!Register(t, call(t).path)
                 /\ Hold(IF N!find_free_entry >= 0
                         THEN holders \cup {<<N!Stored(call(t).path), t>>} ELSE holders)
              \/ /\ call(t).op = "deregister"
                 /\ N!Deregister(t)
                 /\ Hold({h \in holders : h[2] # t})
  <2>1. /\ Queued' /\ queue' \in [Receiver -> Seq(Thread)] /\ t \in Thread
    BY <1>1, <1>2, <1>3, <1>4, PopQueued DEF Return
  <2>2. InCall(t)
    BY <2>1 DEF SystemInv, ThreadInv
  <2>3. at[t] <= Len(prog[t])
    BY <1>4, <2>2 DEF InCall
  <2>4. /\ at' \in [Thread -> Nat \ {0}]
        /\ pc' \in [Thread -> {"ready", "request", "lookup", "answered", "driver"}]
        /\ pc'[t] = "ready"
        /\ \A u \in Thread : u # t => pc'[u] = pc[u] /\ at'[u] = at[u]
    BY <1>1, <1>4, <2>1, ReturnTyped
  <2>5. \A u \in Thread : InLookup(u)' => InLookup(u)
    BY <1>3, <2>4 DEF InLookup, Done, call
  <2>6. /\ SlotsHeld' /\ HoldersInSlots' /\ holders' \in SUBSET Held
        /\ names' \in [N!Slot -> Entry]
        /\ \A i \in N!Slot : Len(names'[i].path) <= MaxEntryLen
    <3>1. CASE /\ call(t).op = "register" /\ N!Register(t, call(t).path)
               /\ Hold(IF N!find_free_entry >= 0
                       THEN holders \cup {<<N!Stored(call(t).path), t>>} ELSE holders)
      <4>1. holders' = IF N!find_free_entry >= 0
                       THEN holders \cup {<<N!Stored(call(t).path), t>>} ELSE holders
        BY <3>1 DEF Hold
      <4>. QED
        BY <1>1, <1>3, <2>1, <2>3, <3>1, <4>1, RegisterHolds
    <3>2. CASE /\ N!Deregister(t) /\ Hold({h \in holders : h[2] # t})
      <4>1. holders' = {h \in holders : h[2] # t}
        BY <3>2 DEF Hold
      <4>. QED
        BY <1>1, <1>3, <2>1, <3>2, <4>1, DeregisterHolds
    <3>. QED
      BY <1>4, <3>1, <3>2
  <2>7. Hold(holders')
    BY <1>4 DEF Hold
  <2>8. /\ History'
        /\ seen' \in [Thread -> SUBSET Held] /\ lasting' \in [Thread -> SUBSET Held]
        /\ \A u \in Thread : InLookup(u) => seen[u] \subseteq seen'[u]
    BY <1>1, <2>5, <2>6, <2>7, HoldKeeps
  <2>9. \A u \in Thread : ThreadInv(u)'
    BY <1>3, <1>4, <2>1, <2>8, ReturnThreads
  <2>10. Shapes'
    BY <1>1, <1>3, <1>4, <2>1, <2>4, <2>6, <2>8 DEF Shapes
  <2>. QED
    BY <2>1, <2>6, <2>8, <2>9, <2>10 DEF SystemInv
<1>5. CASE /\ pc[t] = "lookup" /\ Answer(t, N!Lookup(in[t]))
           /\ UNCHANGED <<names, at, holders, seen, lasting>>
  <2>1. /\ Queued' /\ queue' \in [Receiver -> Seq(Thread)] /\ t \in Thread
        /\ cur[t] = NameServerId
    BY <1>1, <1>2, <1>3, <1>5, PopQueued DEF Answer
  <2>2. \A u \in Thread : ThreadInv(u)'
    <3>1. UNCHANGED <<prog, at, cur, in, seen>>
      BY <1>3, <1>5
    <3>2. pc[t] = "lookup" /\ Answer(t, N!Lookup(in[t]))
      BY <1>5
    <3>3. Answered(t)'
      BY <2>1, <3>1, <3>2, TableAnswers
    <3>. QED
      BY <2>1, <3>1, <3>2, <3>3, AnswerThreads
  <2>3. Shapes'
    <3>1. in[t] \in Seq(Char)
      BY <1>1, <2>1 DEF Shapes
    <3>2. N!Lookup(in[t]) \in [thread : Receiver \cup {NilThread},
                               remaining : Seq(Char) \cup {NullString}]
      BY <1>1, <3>1, AnswerTyped
    <3>3. /\ pc' = [pc EXCEPT ![t] = "answered"]
          /\ reply' = [reply EXCEPT ![t] = N!Lookup(in[t])]
      BY <1>5 DEF Answer
    <3>. QED
      BY <1>1, <1>3, <1>5, <2>1, <3>2, <3>3 DEF Shapes
  <2>4. SlotsHeld' /\ HoldersInSlots'
    BY <1>1, <1>3, <1>5 DEF SlotsHeld, HoldersInSlots, Registers, N!IsFree
  <2>5. History'
    <3>1. \A u \in Thread : InLookup(u)' => InLookup(u)
      BY <1>1, <1>3, <1>5 DEF InLookup, Done, call, Answer, Shapes
    <3>. QED
      BY <1>1, <1>5, <3>1 DEF History
  <2>. QED
    BY <2>1, <2>2, <2>3, <2>4, <2>5 DEF SystemInv
<1>. QED
  BY <1>4, <1>5 DEF NameServerStep

(* The other servers' loop. *)
LEMMA ServerStepInv ==
  ASSUME SystemInv, NEW s \in Thread, ServerStep(s)
  PROVE  SystemInv'
<1>. PICK t : t = Head(queue[s])
  OBVIOUS
<1>. PICK nobody : nobody = [thread |-> NilThread, remaining |-> in[t]]
  OBVIOUS
<1>1. Shapes /\ Queued /\ SlotsHeld /\ HoldersInSlots /\ History
  BY DEF SystemInv
<1>2. s \in Receiver
  BY DEF Receiver
<1>3. /\ queue[s] # <<>> /\ queue' = [queue EXCEPT ![s] = Tail(@)]
      /\ UNCHANGED <<prog, names, cur, in, holders, seen, lasting>>
  BY DEF ServerStep
<1>4. \/ pc[t] = "lookup" /\ Answer(t, nobody) /\ UNCHANGED <<at, drivers>>
      \/ /\ pc[t] = "driver" /\ Return(t) /\ UNCHANGED reply
         /\ drivers' = IF call(t).op = "driver_register"
                       THEN drivers \cup {<<t, call(t).path>>}
                       ELSE {d \in drivers : d[1] # t}
  BY DEF ServerStep
<1>5. \E w \in {"answered", "ready"} : pc' = [pc EXCEPT ![t] = w]
  BY <1>4 DEF Answer, Return
<1>6. /\ Queued' /\ queue' \in [Receiver -> Seq(Thread)] /\ t \in Thread
      /\ cur[t] = s
  BY <1>1, <1>2, <1>3, <1>5, PopQueued
<1>7. SlotsHeld' /\ HoldersInSlots'
  BY <1>1, <1>3 DEF SlotsHeld, HoldersInSlots, Registers, N!IsFree
<1>8. CASE pc[t] = "lookup" /\ Answer(t, nobody) /\ UNCHANGED <<at, drivers>>
  <2>1. /\ pc' = [pc EXCEPT ![t] = "answered"] /\ reply' = [reply EXCEPT ![t] = nobody]
    BY <1>8 DEF Answer
  <2>2. nobody \in [thread : Receiver \cup {NilThread},
                    remaining : Seq(Char) \cup {NullString}]
    BY <1>1, <1>6 DEF Shapes
  <2>3. Shapes'
    BY <1>1, <1>3, <1>6, <1>8, <2>1, <2>2 DEF Shapes
  <2>4. Answered(t)'
    <3>1. reply'[t].thread = NilThread
      BY <1>1, <1>6, <2>1 DEF Shapes
    <3>2. NilThread \notin Thread /\ NilThread # NameServerId
      BY ProgramAssumption
    <3>. QED
      BY <3>1, <3>2 DEF Answered
  <2>5. \A u \in Thread : ThreadInv(u)'
    <3>1. UNCHANGED <<prog, at, cur, in, seen>>
      BY <1>3, <1>8
    <3>. QED
      BY <1>6, <1>8, <2>4, <3>1, AnswerThreads
  <2>6. History'
    <3>1. \A u \in Thread : InLookup(u)' => InLookup(u)
      BY <1>1, <1>3, <1>8, <2>1 DEF InLookup, Done, call, Shapes
    <3>. QED
      BY <1>1, <1>3, <3>1 DEF History
  <2>. QED
    BY <1>6, <1>7, <2>3, <2>5, <2>6 DEF SystemInv
<1>9. CASE /\ pc[t] = "driver" /\ Return(t) /\ UNCHANGED reply
           /\ drivers' = IF call(t).op = "driver_register"
                         THEN drivers \cup {<<t, call(t).path>>}
                         ELSE {d \in drivers : d[1] # t}
  <2>1. InCall(t)
    BY <1>6 DEF SystemInv, ThreadInv
  <2>2. call(t).path \in Seq(Char)
    BY <1>1, <1>6, <1>9, <2>1, CallTyped DEF InCall
  <2>3. drivers' \subseteq Thread \X Seq(Char)
    BY <1>1, <1>6, <1>9, <2>2 DEF Shapes
  <2>4. at' \in [Thread -> Nat \ {0}] /\ pc' \in [Thread ->
          {"ready", "request", "lookup", "answered", "driver"}]
    BY <1>1, <1>6, <1>9, ReturnTyped
  <2>5. Shapes'
    BY <1>1, <1>3, <1>6, <1>9, <2>3, <2>4 DEF Shapes
  <2>6. \A u \in Thread : ThreadInv(u)'
    BY <1>3, <1>6, <1>9, ReturnThreads
  <2>7. History'
    <3>1. \A u \in Thread : InLookup(u)' => InLookup(u)
      BY <1>1, <1>3, <1>9 DEF InLookup, Done, call, Return, Shapes
    <3>. QED
      BY <1>1, <1>3, <3>1 DEF History
  <2>. QED
    BY <1>6, <1>7, <2>5, <2>6, <2>7 DEF SystemInv
<1>. QED
  BY <1>4, <1>8, <1>9

-----------------------------------------------------------------------------
LEMMA SystemInit == Init => SystemInv
<1>. SUFFICES ASSUME Init PROVE SystemInv
  OBVIOUS
<1>1. names = [i \in N!Slot |-> N!FreeEntry]
  BY DEF Init, N!Init
<1>2. N!FreeEntry \in Entry /\ Len(N!FreeEntry.path) = 0
      /\ N!FreeEntry.registrant = NilThread
  BY DEF N!FreeEntry, Entry
<1>3. names \in [N!Slot -> Entry] /\ \A i \in N!Slot : Len(names[i].path) <= MaxEntryLen
  BY <1>1, <1>2, BufferAssumption
<1>4. Shapes
  BY <1>3 DEF Init, Shapes
<1>5. Queued
  BY DEF Init, Queued
<1>6. SlotsHeld /\ HoldersInSlots
  BY <1>1, <1>2 DEF Init, SlotsHeld, HoldersInSlots, N!IsFree
<1>7. History
  BY DEF Init, History, InLookup
<1>8. ASSUME NEW t \in Thread PROVE ThreadInv(t)
  <2>1. prog[t] \in Seq(Calls)
    BY <1>4, ProgramTyped
  <2>2. InCall(t)
    BY <2>1 DEF Init, InCall
  <2>3. Asked(t)
    BY ShortCopies DEF Init, Asked
  <2>4. Answered(t) /\ Hop(t)
    BY DEF Init, Answered, Hop
  <2>. QED
    BY <2>2, <2>3, <2>4 DEF ThreadInv
<1>. QED
  BY <1>4, <1>5, <1>6, <1>7, <1>8 DEF SystemInv

LEMMA SystemStep == SystemInv /\ [Next]_vars => SystemInv'
<1>. SUFFICES ASSUME SystemInv, [Next]_vars PROVE SystemInv'
  OBVIOUS
<1>1. CASE NameServerStep
  BY <1>1, NameServerStepInv
<1>2. ASSUME NEW t \in Thread, ClientStep(t)
      PROVE  SystemInv'
  <2>1. CASE Call(t)
    BY <2>1, CallStep
  <2>2. CASE NextHop(t)
    BY <2>2, NextHopStep
  <2>3. CASE LookupReturns(t)
    BY <2>3, LookupReturnsStep
  <2>4. CASE AskAgain(t)
    BY <2>4, AskAgainStep
  <2>5. CASE CallDriverServer(t)
    BY <2>5, CallDriverServerStep
  <2>. QED
    BY <1>2, <2>1, <2>2, <2>3, <2>4, <2>5 DEF ClientStep
<1>3. ASSUME NEW t \in Thread, ServerStep(t)
      PROVE  SystemInv'
  BY <1>3, ServerStepInv
<1>4. CASE UNCHANGED vars
  <2>1. Shapes'
    BY <1>4 DEF vars, SystemInv, Shapes
  <2>2. Queued'
    BY <1>4 DEF vars, SystemInv, Queued, Waiting
  <2>3. SlotsHeld' /\ HoldersInSlots'
    BY <1>4 DEF vars, SystemInv, SlotsHeld, HoldersInSlots, Registers, N!IsFree
  <2>4. History'
    BY <1>4 DEF vars, SystemInv, History, InLookup, Done, call
  <2>5. \A u \in Thread : ThreadInv(u)'
    BY <1>4, ThreadKept DEF vars, SystemInv
  <2>. QED
    BY <2>1, <2>2, <2>3, <2>4, <2>5 DEF SystemInv
<1>. QED
  BY <1>1, <1>2, <1>3, <1>4 DEF Next

(* SystemInv is an inductive invariant of the name service and its clients. *)
THEOREM SystemInvariant == Spec => []SystemInv
BY SystemInit, SystemStep, PTL DEF Spec

(* Every variable keeps its type: the table never holds more of a path     *)
(* than its slots have room for, a program counter never runs past the     *)
(* program, and what a client asks for is what its buffer can hold.        *)
THEOREM TypeCorrect == Spec => []TypeOK
<1>1. SystemInv => TypeOK
  <2>. SUFFICES ASSUME SystemInv PROVE TypeOK
    OBVIOUS
  <2>1. Shapes
    BY DEF SystemInv
  <2>2. N!TypeOK
    BY <2>1 DEF Shapes, N!TypeOK, Entry
  <2>3. ASSUME NEW t \in Thread
        PROVE  /\ at[t] \in 1 .. Len(prog[t]) + 1
               /\ pc[t] \in {"ready", "request", "lookup", "answered", "driver"}
               /\ cur[t] \in Receiver \cup {NilThread}
               /\ in[t] \in Copies(in[t]) \cup {DriverPath}
               /\ reply[t].thread \in Receiver \cup {NilThread}
    <3>1. at[t] \in Nat \ {0} /\ prog[t] \in Seq(Calls)
      BY <2>1, ProgramTyped DEF Shapes
    <3>2. InCall(t) /\ Asked(t)
      BY DEF SystemInv, ThreadInv
    <3>3. at[t] <= Len(prog[t]) + 1
      BY <3>1, <3>2 DEF InCall
    <3>4. at[t] \in 1 .. Len(prog[t]) + 1
      BY <3>1, <3>3
    <3>. QED
      BY <2>1, <3>2, <3>4 DEF Shapes, Asked
  <2>. QED
    BY <2>1, <2>2, <2>3 DEF Shapes, TypeOK
<1>. QED
  BY <1>1, SystemInvariant, PTL

(* Over any number of hops, and whatever is registered and deregistered in *)
(* between, nameserver_lookup() names nobody, the name server, or a thread *)
(* that held a prefix of the path at some time during the call.            *)
THEOREM LookupIsSound == Spec => LookupSound
<1>1. ASSUME SystemInv, NEW t \in Thread, LookupReturns(t)
      PROVE  \/ reply[t].thread \in {NilThread, NameServerId}
             \/ \E h \in seen[t] : h[2] = reply[t].thread /\ IsPrefix(h[1], call(t).path)
  <2>. SUFFICES ASSUME reply[t].thread \notin {NilThread, NameServerId}
                PROVE  \E h \in seen[t] :
                         h[2] = reply[t].thread /\ IsPrefix(h[1], call(t).path)
    OBVIOUS
  <2>1. Shapes /\ InCall(t) /\ Asked(t) /\ Answered(t)
    BY <1>1 DEF SystemInv, ThreadInv
  <2>2. pc[t] = "answered" /\ call(t).op = "lookup" /\ at[t] <= Len(prog[t])
    BY <1>1, <2>1 DEF LookupReturns, InCall
  <2>3. reply[t].thread \in Thread
    BY <2>1 DEF Shapes, Receiver
  <2>4. PICK n \in Seq(Char) : FromTable(t, n)
    BY <2>1, <2>2, <2>3 DEF Answered
  <2>5. in[t] \in Copies(call(t).path) /\ call(t).path \in Seq(Char)
    BY <2>1, <2>2, <2>3, CallTyped DEF Answered, Asked, Asks
  <2>6. IsPrefix(n, call(t).path)
    BY <2>4, <2>5, PrefixOfCopy DEF FromTable
  <2>7. <<n, reply[t].thread>> \in seen[t]
    BY <2>2, <2>4 DEF FromTable
  <2>. QED
    BY <2>6, <2>7
<1>2. SystemInv /\ [Next]_vars =>
        [\A t \in Thread : LookupReturns(t) =>
           LET r == reply[t].thread IN
           \/ r \in {NilThread, NameServerId}
           \/ \E h \in seen[t] : h[2] = r /\ IsPrefix(h[1], call(t).path)]_vars
  BY <1>1
<1>. QED
  BY <1>2, SystemInvariant, PTL DEF Spec, LookupSound

(* If only threads that will serve, and go through nobody themselves, take *)
(* names others go through, no thread ever waits for an IPC partner that   *)
(* will not answer: there is no cycle of calls and no call to a thread     *)
(* that never serves.                                                      *)
THEOREM NobodyWaitsInVain == Spec => []NobodyInVain
<1>1. SystemInv => NobodyInVain
  <2>. SUFFICES ASSUME SystemInv, Orderly, NEW t \in Thread,
                       NEW ts \in SUBSET Thread, t \in ts, Stuck(ts)
                PROVE  FALSE
    BY DEF NobodyInVain, InVain
  <2>1. \A x \in ts : cur[x] \in Thread /\ DependsOn(x, cur[x])
    BY DEF Stuck, SystemInv, ThreadInv, Hop
  <2>2. cur[t] \in Server /\ \A v \in Thread : ~DependsOn(cur[t], v)
    BY <2>1 DEF Orderly
  <2>3. cur[t] \in ts
    BY <2>2 DEF Stuck
  <2>. QED
    BY <2>1, <2>2, <2>3
<1>. QED
  BY <1>1, SystemInvariant, PTL

-----------------------------------------------------------------------------
(* The scan of Lookup stops at or before any slot that matches. *)
LEMMA ScanStops ==
  ASSUME NEW q, NEW i \in N!Slot, N!Matches(i, q)
  PROVE  \E k \in N!Slot : N!FirstMatch(k, q) /\ k <= i
<1>. DEFINE T == {j \in N!Slot : N!Matches(j, q)}
<1>1. T \subseteq Nat /\ i \in T
  BY DEF N!Slot
<1>2. IsWellFoundedOn(OpToRel(<, Nat), Nat)
  BY NatLessThanWellFounded
<1>3. PICK k \in T : \A j \in T : ~(<<j, k>> \in OpToRel(<, Nat))
  BY <1>1, <1>2, WFMin
<1>4. \A j \in T : ~(j < k)
  BY <1>1, <1>3 DEF OpToRel
<1>5. ASSUME NEW j \in 0 .. k - 1 PROVE ~N!Matches(j, q)
  BY <1>4, <1>5, BufferAssumption DEF N!Slot
<1>. QED
  BY <1>1, <1>4, <1>5 DEF N!FirstMatch, N!Slot

(* A slot taken at the first free place leaves no hole. *)
LEMMA RegisterNoHoles ==
  ASSUME Shapes, N!NoHoles, NEW c \in Thread, NEW p, N!Register(c, p)
  PROVE  N!NoHoles'
<1>1. CASE names' = names
  BY <1>1 DEF N!NoHoles, N!IsFree
<1>2. ASSUME NEW n \in N!Slot, N!FirstFree(n),
             names' = [names EXCEPT ![n] = [path |-> N!Stored(p), registrant |-> c]]
      PROVE  N!NoHoles'
  <2>1. /\ names'[n].registrant # NilThread
        /\ \A i \in N!Slot : i # n => names'[i] = names[i]
    BY <1>2, ProgramAssumption DEF Shapes
  <2>. SUFFICES ASSUME NEW i \in N!Slot, names'[i].registrant # NilThread,
                       NEW j \in 0 .. i - 1
                PROVE  names'[j].registrant # NilThread
    BY DEF N!NoHoles, N!IsFree
  <2>2. j \in N!Slot
    BY BufferAssumption DEF N!Slot
  <2>3. CASE i = n
    <3>1. ~N!IsFree(j) /\ j # n
      BY <1>2, <2>3 DEF N!FirstFree, N!Slot
    <3>. QED
      BY <2>1, <2>2, <3>1 DEF N!IsFree
  <2>4. CASE i # n
    <3>1. ~N!IsFree(j)
      BY <2>1, <2>4 DEF N!NoHoles, N!IsFree
    <3>. QED
      BY <2>1, <2>2, <3>1 DEF N!IsFree
  <2>. QED
    BY <2>3, <2>4
<1>. QED
  BY <1>1, <1>2, RegisterTable

(* With no hole, and no registered name a prefix of another, the name      *)
(* server answers a held name with its holder, and nothing is left.        *)
LEMMA HeldNameFound ==
  ASSUME SystemInv, N!NoHoles, PrefixFree, NEW h \in holders, ~N!IsSelfQuery(h[1])
  PROVE  N!Lookup(h[1]).thread = h[2] /\ N!Lookup(h[1]).remaining = <<>>
<1>1. Shapes /\ SlotsHeld /\ HoldersInSlots /\ h[1] \in Seq(Char) /\ h[2] \in Thread
  BY DEF SystemInv, Shapes, Held
<1>2. PICK i \in N!Slot : ~N!IsFree(i) /\ names[i].path = h[1] /\ names[i].registrant = h[2]
  BY <1>1 DEF HoldersInSlots
<1>3. N!Matches(i, h[1])
  <2>1. IsPrefix(h[1], h[1])
    BY <1>1, PrefixByElement
  <2>. QED
    BY <1>2, <2>1 DEF N!Matches, N!IsPrefix, IsPrefix
<1>4. \E k \in N!Slot : N!FirstMatch(k, h[1])
  BY <1>3, ScanStops
<1>5. PICK k \in N!Slot :
        /\ N!FirstMatch(k, h[1])
        /\ N!Lookup(h[1]) = [thread |-> names[k].registrant,
                             remaining |-> SubSeq(h[1], Len(names[k].path) + 1, Len(h[1]))]
  BY <1>4, LookupAnswer
<1>6. ~N!IsFree(k)
  <2>1. k <= i
    BY <1>3, <1>5 DEF N!FirstMatch, N!Slot
  <2>. QED
    BY <1>2, <2>1 DEF N!NoHoles, N!Slot
<1>7. Registers(names[k].registrant, names[k].path) /\ Registers(h[2], h[1])
      /\ names[k].registrant \in Thread
  <2>1. <<names[k].path, names[k].registrant>> \in holders
    BY <1>1, <1>6 DEF SlotsHeld
  <2>. QED
    BY <1>1, <2>1 DEF HoldersInSlots, Shapes, Held
<1>8. IsPrefix(names[k].path, h[1])
  BY <1>5 DEF N!FirstMatch, N!Matches, N!IsPrefix, IsPrefix
<1>9. names[k].registrant = h[2] /\ names[k].path = h[1]
  BY <1>1, <1>7, <1>8 DEF PrefixFree, Registers
<1>10. SubSeq(h[1], Len(h[1]) + 1, Len(h[1])) = <<>>
  BY <1>1
<1>. QED
  BY <1>5, <1>9, <1>10

-----------------------------------------------------------------------------
(* Threads that do not move, while nothing is added to what stayed.        *)
LEMMA FindsKept ==
  ASSUME NEW u \in Thread, Finds(u), prog' = prog, pc'[u] = pc[u], at'[u] = at[u],
         cur'[u] = cur[u], reply'[u] = reply[u], lasting'[u] \subseteq lasting[u]
  PROVE  Finds(u)'
<1>1. call(u)' = call(u)
  BY DEF call
<1>2. ASSUME NEW h \in lasting'[u], Wanted(u, h)'
      PROVE  h \in lasting[u] /\ Wanted(u, h)
  BY <1>1, <1>2 DEF Wanted, N!IsSelfQuery
<1>. QED
  BY <1>2 DEF Finds

(* A thread that sends keeps the invariant where its IPC is not a lookup,  *)
(* goes to the name server, or is one nothing is wanted of.                *)
LEMMA FindsSend ==
  ASSUME Shapes, NEW t \in Thread, NEW r \in Receiver, NEW p, NEW w,
         Send(t, r, p, w), w # "answered",
         UNCHANGED <<prog, at, reply>>,
         w = "lookup" /\ r # NameServerId => \A h \in lasting'[t] : ~Wanted(t, h),
         \A u \in Thread : u # t => lasting'[u] = lasting[u],
         \A u \in Thread : Finds(u)
  PROVE  \A u \in Thread : Finds(u)'
<1>. SUFFICES ASSUME NEW u \in Thread PROVE Finds(u)'
  OBVIOUS
<1>1. /\ pc'[t] = w /\ cur'[t] = r
      /\ u # t => pc'[u] = pc[u] /\ cur'[u] = cur[u]
  BY DEF Send, Shapes
<1>2. CASE u # t
  BY <1>1, <1>2, FindsKept
<1>3. CASE u = t
  <2>1. \A h : Wanted(t, h)' <=> Wanted(t, h)
    BY DEF Wanted, call, N!IsSelfQuery
  <2>. QED
    BY <1>1, <1>3, <2>1 DEF Finds
<1>. QED
  BY <1>2, <1>3

LEMMA ClientFinds ==
  ASSUME SystemInv, NEW t \in Thread, ClientStep(t), \A u \in Thread : Finds(u)
  PROVE  \A u \in Thread : Finds(u)'
<1>1. Shapes /\ InCall(t) /\ Answered(t) /\ NameServerId \in Receiver
  BY DEF SystemInv, ThreadInv, Receiver
<1>2. CASE Call(t)
  <2>1. \A u \in Thread : u # t => lasting'[u] = lasting[u]
    BY <1>1, <1>2 DEF Call, Shapes
  <2>2. UNCHANGED <<prog, at, reply>>
    BY <1>2 DEF Call
  <2>3. \E p, w : w \in {"request", "lookup"} /\ Send(t, NameServerId, p, w)
    BY <1>2 DEF Call
  <2>. QED
    BY <1>1, <2>1, <2>2, <2>3, FindsSend
<1>3. CASE NextHop(t)
  <2>1. pc[t] = "answered" /\ reply[t].remaining # <<>>
    BY <1>3 DEF NextHop, Ends
  <2>2. \A h \in lasting[t] : ~Wanted(t, h)
    BY <2>1 DEF Finds
  <2>3. reply[t].thread \in Receiver
    BY <1>1, <1>3 DEF Shapes, NextHop, Ends
  <2>4. UNCHANGED <<prog, at, reply, lasting>>
    BY <1>3 DEF NextHop
  <2>5. \E p : Send(t, reply[t].thread, p, "lookup")
    BY <1>3 DEF NextHop
  <2>. QED
    BY <1>1, <2>2, <2>3, <2>4, <2>5, FindsSend
<1>4. CASE LookupReturns(t)
  <2>. SUFFICES ASSUME NEW u \in Thread PROVE Finds(u)'
    OBVIOUS
  <2>1. /\ pc'[t] = "ready" /\ UNCHANGED <<prog, cur, reply>>
        /\ u # t => pc'[u] = pc[u] /\ at'[u] = at[u] /\ lasting'[u] = lasting[u]
    BY <1>1, <1>4 DEF LookupReturns, Return, Shapes
  <2>2. CASE u = t
    BY <2>1, <2>2 DEF Finds
  <2>3. CASE u # t
    BY <2>1, <2>3, FindsKept
  <2>. QED
    BY <2>2, <2>3
<1>5. CASE AskAgain(t)
  <2>1. UNCHANGED <<prog, at, reply, lasting>> /\ Send(t, NameServerId, DriverPath, "lookup")
    BY <1>5 DEF AskAgain
  <2>. QED
    BY <1>1, <2>1, FindsSend
<1>6. CASE CallDriverServer(t)
  <2>1. UNCHANGED <<prog, at, reply, lasting>> /\ Send(t, reply[t].thread, <<>>, "driver")
    BY <1>6 DEF CallDriverServer
  <2>2. reply[t].thread \in Receiver
    BY <1>1, <1>6 DEF Shapes, CallDriverServer
  <2>. QED
    BY <1>1, <2>1, <2>2, FindsSend
<1>. QED
  BY <1>2, <1>3, <1>4, <1>5, <1>6 DEF ClientStep

LEMMA ReturnFinds ==
  ASSUME Shapes, NEW t \in Thread, Return(t), UNCHANGED <<prog, cur, reply>>,
         \A u \in Thread : lasting'[u] \subseteq lasting[u],
         \A u \in Thread : Finds(u)
  PROVE  \A u \in Thread : Finds(u)'
<1>. SUFFICES ASSUME NEW u \in Thread PROVE Finds(u)'
  OBVIOUS
<1>1. pc'[t] = "ready" /\ (u # t => pc'[u] = pc[u] /\ at'[u] = at[u])
  BY ReturnTyped
<1>2. CASE u = t
  BY <1>1, <1>2 DEF Finds
<1>3. CASE u # t
  BY <1>1, <1>3, FindsKept
<1>. QED
  BY <1>2, <1>3

LEMMA NameServerFinds ==
  ASSUME SystemInv, NameServerStep, NoDeregistration, PrefixFree,
         N!NoHoles, \A u \in Thread : Finds(u)
  PROVE  N!NoHoles' /\ \A u \in Thread : Finds(u)'
<1>. PICK t : t = Head(queue[NameServerId])
  OBVIOUS
<1>1. Shapes /\ Queued /\ NameServerId \in Receiver
  BY DEF SystemInv, Receiver
<1>2. queue[NameServerId] # <<>> /\ UNCHANGED <<prog, cur, in, drivers>>
  BY DEF NameServerStep
<1>3. t \in Thread /\ cur[t] = NameServerId
  <2>1. /\ queue[NameServerId] \in Seq(Thread) /\ t = queue[NameServerId][1]
        /\ 1 \in 1 .. Len(queue[NameServerId])
    BY <1>1, <1>2 DEF Shapes
  <2>. QED
    BY <1>1, <2>1 DEF Queued
<1>4. InCall(t) /\ Asked(t) /\ History
  BY <1>3 DEF SystemInv, ThreadInv
<1>5. \/ /\ pc[t] = "request" /\ call(t).op = "register"
         /\ N!Register(t, call(t).path) /\ Return(t) /\ UNCHANGED reply
         /\ \E hs : Hold(hs)
      \/ pc[t] = "request" /\ call(t).op = "deregister"
      \/ /\ pc[t] = "lookup" /\ Answer(t, N!Lookup(in[t]))
         /\ UNCHANGED <<names, at, holders, seen, lasting>>
  BY DEF NameServerStep
<1>6. CASE /\ pc[t] = "request" /\ call(t).op = "register"
           /\ N!Register(t, call(t).path) /\ Return(t) /\ UNCHANGED reply
           /\ \E hs : Hold(hs)
  <2>1. \A u \in Thread : lasting'[u] \subseteq lasting[u]
    BY <1>6 DEF Hold
  <2>2. \A u \in Thread : Finds(u)'
    BY <1>1, <1>2, <1>3, <1>6, <2>1, ReturnFinds
  <2>. QED
    BY <1>1, <1>3, <1>6, <2>2, RegisterNoHoles
<1>7. CASE pc[t] = "request" /\ call(t).op = "deregister"
  <2>1. at[t] \in DOMAIN prog[t] /\ prog[t][at[t]].op = "deregister"
    BY <1>1, <1>3, <1>4, <1>7, CallTyped DEF InCall, call
  <2>. QED
    BY <1>3, <2>1 DEF NoDeregistration
<1>8. CASE /\ pc[t] = "lookup" /\ Answer(t, N!Lookup(in[t]))
           /\ UNCHANGED <<names, at, holders, seen, lasting>>
  <2>1. N!NoHoles'
    BY <1>8 DEF N!NoHoles, N!IsFree
  <2>2. /\ pc'[t] = "answered" /\ reply'[t] = N!Lookup(in[t])
        /\ \A u \in Thread : u # t => pc'[u] = pc[u] /\ reply'[u] = reply[u]
    BY <1>1, <1>3, <1>8 DEF Answer, Shapes
  <2>3. \A h : Wanted(t, h)' <=> Wanted(t, h)
    BY <1>2, <1>8 DEF Wanted, call, N!IsSelfQuery
  <2>4. ASSUME NEW h \in lasting[t], Wanted(t, h)
        PROVE  N!Lookup(in[t]).thread = h[2] /\ N!Lookup(in[t]).remaining = <<>>
    <3>1. in[t] \in Copies(h[1])
      BY <1>3, <1>4, <1>8, <2>4 DEF Asked, Asks, Wanted
    <3>2. in[t] = h[1] /\ h \in holders
      BY <1>3, <1>4, <2>4, <3>1 DEF Wanted, Copies, History
    <3>. QED
      BY <2>4, <3>2, HeldNameFound DEF Wanted
  <2>5. Finds(t)'
    BY <1>8, <2>2, <2>3, <2>4 DEF Finds
  <2>6. ASSUME NEW u \in Thread, u # t PROVE Finds(u)'
    BY <1>2, <1>8, <2>2, <2>6, FindsKept
  <2>. QED
    BY <2>1, <2>5, <2>6
<1>. QED
  BY <1>5, <1>6, <1>7, <1>8

(* No other server is asked for a name that is wanted. *)
LEMMA ServerFinds ==
  ASSUME SystemInv, NEW s \in Thread, ServerStep(s), \A u \in Thread : Finds(u)
  PROVE  \A u \in Thread : Finds(u)'
<1>. PICK t : t = Head(queue[s])
  OBVIOUS
<1>. PICK nobody : nobody = [thread |-> NilThread, remaining |-> in[t]]
  OBVIOUS
<1>1. Shapes /\ Queued /\ s \in Receiver /\ s # NameServerId
  BY ProgramAssumption DEF SystemInv, Receiver
<1>2. queue[s] # <<>> /\ UNCHANGED <<prog, names, cur, in, holders, seen, lasting>>
  BY DEF ServerStep
<1>3. t \in Thread /\ cur[t] = s
  <2>1. queue[s] \in Seq(Thread) /\ t = queue[s][1] /\ 1 \in 1 .. Len(queue[s])
    BY <1>1, <1>2 DEF Shapes
  <2>. QED
    BY <1>1, <2>1 DEF Queued
<1>4. \/ pc[t] = "lookup" /\ Answer(t, nobody) /\ UNCHANGED at
      \/ Return(t) /\ UNCHANGED reply
  BY DEF ServerStep
<1>5. CASE pc[t] = "lookup" /\ Answer(t, nobody) /\ UNCHANGED at
  <2>1. \A u \in Thread : u # t => pc'[u] = pc[u] /\ reply'[u] = reply[u]
    BY <1>1, <1>3, <1>5 DEF Answer, Shapes
  <2>2. \A h \in lasting[t] : ~Wanted(t, h)
    BY <1>1, <1>3, <1>5 DEF Finds
  <2>3. \A h : Wanted(t, h)' <=> Wanted(t, h)
    BY <1>2, <1>5 DEF Wanted, call, N!IsSelfQuery
  <2>4. Finds(t)'
    BY <1>2, <2>2, <2>3 DEF Finds
  <2>5. ASSUME NEW u \in Thread, u # t PROVE Finds(u)'
    BY <1>2, <1>5, <2>1, <2>5, FindsKept
  <2>. QED
    BY <2>4, <2>5
<1>6. CASE Return(t) /\ UNCHANGED reply
  BY <1>1, <1>2, <1>3, <1>6, ReturnFinds
<1>. QED
  BY <1>4, <1>5, <1>6

LEMMA FindInit == Init => FindInv
<1>1. Init => N!NoHoles
  BY DEF Init, N!Init, N!NoHoles, N!IsFree, N!FreeEntry
<1>. QED
  BY <1>1 DEF Init, FindInv, Finds

LEMMA FindStep == SystemInv /\ FindInv /\ [Next]_vars => FindInv'
<1>. SUFFICES ASSUME SystemInv, FindInv, [Next]_vars PROVE FindInv'
  OBVIOUS
<1>1. prog' = prog
  BY DEF Next, vars, NameServerStep, ClientStep, Call, NextHop, LookupReturns,
         AskAgain, CallDriverServer, ServerStep
<1>2. (NoDeregistration' <=> NoDeregistration) /\ (PrefixFree' <=> PrefixFree)
  BY <1>1 DEF NoDeregistration, PrefixFree
<1>. SUFFICES ASSUME NoDeregistration, PrefixFree
              PROVE  N!NoHoles' /\ \A u \in Thread : Finds(u)'
  BY <1>2 DEF FindInv
<1>3. N!NoHoles /\ \A u \in Thread : Finds(u)
  BY DEF FindInv
<1>4. CASE NameServerStep
  BY <1>3, <1>4, NameServerFinds
<1>5. ASSUME NEW t \in Thread, ClientStep(t)
      PROVE  N!NoHoles' /\ \A u \in Thread : Finds(u)'
  <2>1. UNCHANGED names
    BY <1>5 DEF ClientStep, Call, NextHop, LookupReturns, AskAgain, CallDriverServer
  <2>2. N!NoHoles'
    BY <1>3, <2>1 DEF N!NoHoles, N!IsFree
  <2>. QED
    BY <1>3, <1>5, <2>2, ClientFinds
<1>6. ASSUME NEW t \in Thread, ServerStep(t)
      PROVE  N!NoHoles' /\ \A u \in Thread : Finds(u)'
  <2>1. UNCHANGED names
    BY <1>6 DEF ServerStep
  <2>2. N!NoHoles'
    BY <1>3, <2>1 DEF N!NoHoles, N!IsFree
  <2>. QED
    BY <1>3, <1>6, <2>2, ServerFinds
<1>7. CASE UNCHANGED vars
  <2>1. N!NoHoles'
    BY <1>3, <1>7 DEF vars, N!NoHoles, N!IsFree
  <2>2. ASSUME NEW u \in Thread PROVE Finds(u)'
    BY <1>3, <1>7, <2>2, FindsKept DEF vars
  <2>. QED
    BY <2>1, <2>2
<1>. QED
  BY <1>4, <1>5, <1>6, <1>7 DEF Next

(* As long as nothing is deregistered and no registered name is a prefix   *)
(* of another, nameserver_lookup() of a name that fits the buffer and has  *)
(* been held since the call began returns its holder, whatever else is     *)
(* registered and looked up meanwhile.                                     *)
THEOREM FindsWhatStays == Spec => FindsRegistered
<1>1. Spec => [](SystemInv /\ FindInv)
  <2>1. SystemInv /\ FindInv /\ [Next]_vars => (SystemInv /\ FindInv)'
    BY SystemStep, FindStep
  <2>. QED
    BY SystemInit, FindInit, <2>1, PTL DEF Spec
<1>2. ASSUME FindInv, NoDeregistration, PrefixFree,
             NEW t \in Thread, LookupReturns(t), NEW h \in lasting[t],
             h[1] = call(t).path, Len(h[1]) < MaxEntryLen, ~N!IsSelfQuery(h[1])
      PROVE  reply[t].thread = h[2]
  <2>1. pc[t] = "answered" /\ call(t).op = "lookup"
    BY <1>2 DEF LookupReturns
  <2>. QED
    BY <1>2, <2>1 DEF FindInv, Finds, Wanted
<1>3. SystemInv /\ FindInv /\ [Next]_vars =>
        [NoDeregistration /\ PrefixFree =>
           \A t \in Thread : LookupReturns(t) =>
             \A h \in lasting[t] :
               h[1] = call(t).path /\ Len(h[1]) < MaxEntryLen /\ ~N!IsSelfQuery(h[1])
                 => reply[t].thread = h[2]]_vars
  BY <1>2
<1>. QED
  BY <1>1, <1>3, PTL DEF Spec, FindsRegistered

-----------------------------------------------------------------------------
(* The table alone, of which NameServerProofs tells. *)
P == INSTANCE NameServerProofs WITH Path <- Paths, Query <- Paths

(* Its assumptions hold for the paths of programs. *)
LEMMA TableAssumptions ==
  /\ MaxEntries \in Nat /\ MaxEntryLen \in Nat
  /\ NilThread \notin Thread /\ NameServerId # NilThread
  /\ Slash \in Char /\ Paths \subseteq Seq(Char)
<1>1. ASSUME NEW program \in Programs, NEW t \in Thread, NEW i \in DOMAIN program[t]
      PROVE  program[t][i].path \in Seq(Char)
  <2>1. program[t] \in Seq(Calls)
    BY ProgramAssumption DEF Calls
  <2>2. program[t][i] \in Calls
    BY <2>1, ElementOfSequence
  <2>. QED
    BY <2>2 DEF Calls
<1>. QED
  BY <1>1, BufferAssumption, ProgramAssumption DEF Paths, PathsOf

(* Both instances of the name server are the same. *)
LEMMA SameTable ==
  /\ \A c, p : N!Register(c, p) <=> P!Register(c, p)
  /\ \A c : N!Deregister(c) <=> P!Deregister(c)
  /\ N!Init <=> P!Init
BY DEF N!Register, P!Register, N!find_free_entry, P!find_free_entry, N!FirstFree, P!FirstFree,
       N!IsFree, P!IsFree, N!Slot, P!Slot, N!Stored, P!Stored, N!Deregister, P!Deregister,
       N!FreeEntry, P!FreeEntry, N!Init, P!Init

(* A step of the system either leaves table and history alone, or is one   *)
(* request to the table.                                                   *)
LEMMA RequestsOnly ==
  ASSUME SystemInv, [Next]_vars
  PROVE  \/ UNCHANGED <<names, holders>>
         \/ \E t \in Thread : \/ \E p \in Paths : P!Register(t, p)
                              \/ P!Deregister(t)
<1>1. CASE NameServerStep
  <2>. DEFINE t == Head(queue[NameServerId])
  <2>1. /\ Shapes /\ queue[NameServerId] \in Seq(Thread) /\ queue[NameServerId] # <<>>
    BY <1>1 DEF SystemInv, Shapes, Receiver, NameServerStep
  <2>2. t \in Thread
    BY <2>1
  <2>3. CASE pc[t] = "request" /\ N!Register(t, call(t).path)
    <3>1. at[t] \in DOMAIN prog[t]
      <4>1. at[t] <= Len(prog[t])
        BY <2>2, <2>3 DEF SystemInv, ThreadInv, InCall
      <4>. QED
        BY <2>1, <2>2, <4>1, CallTyped
    <3>2. prog \in Programs
      BY <2>1 DEF Shapes
    <3>3. call(t).path \in Paths
      <4>1. call(t).path \in PathsOf(prog[t])
        BY <3>1 DEF call, PathsOf
      <4>. QED
        BY <2>2, <3>2, <4>1 DEF Paths
    <3>. QED
      BY <2>2, <2>3, <3>3, SameTable
  <2>4. CASE N!Deregister(t)
    BY <2>2, <2>4, SameTable
  <2>. QED
    BY <1>1, <2>3, <2>4 DEF NameServerStep
<1>2. ASSUME NEW t \in Thread, ClientStep(t) \/ ServerStep(t)
      PROVE  UNCHANGED <<names, holders>>
  BY <1>2 DEF ClientStep, ServerStep, Call, NextHop, LookupReturns, AskAgain, CallDriverServer
<1>3. CASE UNCHANGED vars
  BY <1>3 DEF vars
<1>. QED
  BY <1>1, <1>2, <1>3 DEF Next

(* The holders are those the table shows. *)
Shown == {<<names[i].path, names[i].registrant>> : i \in {k \in P!Slot : ~P!IsFree(k)}}

LEMMA HoldersShown == SystemInv => holders = Shown
<1>. SUFFICES ASSUME SystemInv PROVE holders = Shown
  OBVIOUS
<1>1. N!Slot = P!Slot /\ \A i \in N!Slot : N!IsFree(i) <=> P!IsFree(i)
  BY DEF N!Slot, P!Slot, N!IsFree, P!IsFree
<1>2. \A h \in holders : h = <<h[1], h[2]>>
  BY DEF SystemInv, Shapes, Held
<1>3. holders \subseteq Shown
  BY <1>1, <1>2 DEF SystemInv, HoldersInSlots, Shown
<1>4. Shown \subseteq holders
  BY <1>1 DEF SystemInv, SlotsHeld, Shown
<1>. QED
  BY <1>3, <1>4

LEMMA HoldersShownNext == (SystemInv => holders = Shown)'
BY HoldersShown, PTL

(* What the table alone would answer is what the system answers. *)
LEMMA SameAnswers ==
  /\ N!TableQuery = P!TableQuery /\ N!Name = P!Name
  /\ \A q : N!Answer(q) = P!Answer(q) /\ N!Answer(q)' = P!Answer(q)'
BY DEF N!TableQuery, P!TableQuery, N!IsSelfQuery, P!IsSelfQuery, N!Name, P!Name, N!Stored,
       P!Stored, N!Answer, P!Answer, N!Lookup, P!Lookup, N!FirstMatch, P!FirstMatch,
       N!Matches, P!Matches, N!Slot, P!Slot, N!IsPrefix, P!IsPrefix

(* Every step of the system is a step of the table alone or leaves it, *)
LEMMA TableRuns == Spec => P!Spec /\ []P!Inv
<1>1. Init => P!Init
  BY SameTable DEF Init
<1>2. SystemInv /\ [Next]_vars => [P!Next]_names
  BY RequestsOnly DEF P!Next
<1>3. Spec => P!Spec
  BY <1>1, <1>2, SystemInvariant, PTL DEF Spec, P!Spec
<1>4. P!Spec => []P!Inv
  BY TableAssumptions, P!SpecInv
<1>. QED
  BY <1>3, <1>4

(* and a step of the abstract service or a stutter.                        *)
LEMMA ServiceStep ==
  ASSUME SystemInv, SystemInv', P!Inv, [Next]_vars
  PROVE  [Service!Next]_(Service!vars)
<1>1. holders = Shown /\ holders' = Shown'
  BY HoldersShown, HoldersShownNext
<1>2. CASE UNCHANGED names
  <2>1. Shown' = Shown
    BY <1>2 DEF Shown, P!IsFree
  <2>2. \A q : N!Answer(q)' = N!Answer(q)
    BY <1>2 DEF N!Answer, N!Lookup, N!FirstMatch, N!Matches
  <2>. QED
    BY <1>1, <2>1, <2>2 DEF Service!vars
<1>3. ASSUME NEW t \in Thread, NEW p \in Paths, P!Register(t, p)
      PROVE  [Service!Next]_(Service!vars)
  <2>1. P!Service!Register(t, P!Stored(p)) \/ UNCHANGED names
    BY <1>3, TableAssumptions, P!RegisterRefines
  <2>2. CASE P!Service!Register(t, P!Stored(p))
    <3>1. P!Stored(p) \in N!Name
      BY SameAnswers DEF P!Name
    <3>2. Service!Register(t, P!Stored(p))
      BY <1>1, <2>2, SameAnswers
         DEF Service!Register, P!Service!Register, Shown, Service!Holds, P!Service!Holds,
             Service!IsPrefix, P!Service!IsPrefix
    <3>. QED
      BY <3>1, <3>2 DEF Service!Next
  <2>. QED
    BY <1>2, <2>1, <2>2
<1>4. ASSUME NEW t \in Thread, P!Deregister(t)
      PROVE  [Service!Next]_(Service!vars)
  <2>1. P!Service!Deregister(t)
    BY <1>4, TableAssumptions, P!DeregisterRefines
  <2>2. Service!Deregister(t)
    BY <1>1, <2>1, SameAnswers DEF Service!Deregister, P!Service!Deregister, Shown
  <2>. QED
    BY <2>2 DEF Service!Next
<1>. QED
  BY <1>2, <1>3, <1>4, RequestsOnly

(* However many threads call nameserver_register, _deregister and _lookup  *)
(* and in whatever order the loop takes them, what they have registered    *)
(* and what paths are answered with is a run of the abstract service.      *)
THEOREM SystemRefinement == Spec => ImplementsNameService
<1>1. Init => Service!Init
  <2>1. ASSUME Init PROVE P!Service!Init /\ holders = {}
    BY <2>1, SameTable, TableAssumptions, P!InitRefines DEF Init
  <2>. QED
    BY <2>1, SameAnswers DEF Service!Init, P!Service!Init
<1>2. SystemInv /\ SystemInv' /\ P!Inv /\ [Next]_vars => [Service!Next]_(Service!vars)
  BY ServiceStep
<1>. QED
  BY <1>1, <1>2, SystemInvariant, TableRuns, PTL
     DEF Spec, ImplementsNameService, Service!Spec
=============================================================================
