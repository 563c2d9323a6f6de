----------------------------- MODULE MCServers -----------------------------
(* Two clients that ask for operations of the three servers, some of       *)
(* them with strings too long for the server or too little room for the    *)
(* reply, for interfaces a server does not have, and that fault.           *)
EXTENDS Servers

CONSTANTS c1, c2

Ask(s, i, f, n, m) ==
  [server |-> s, interface |-> i, function |-> f, length |-> n, room |-> m]

(* Powers of two that the longest table of operations fits in. *)
MCVtableSize == [s \in Server |-> IF s = MemoryServer THEN 8 ELSE 16]

Short == 1
Long == BufferSize + 1

(* The first and the last function of a table, and one behind it. *)
Operations ==
  {Ask(TaskServer, IF_TASKSERVER, f, Short, 10) : f \in {1, 6, 7}} \cup
  {Ask(TaskServer, IF_FILE, 10, Short, 10), Ask(TaskServer, IF_NAMING, 1, Short, 10)} \cup
  {Ask(FileServer, IF_FILE, f, Short, 10) : f \in {1, 2, 10}} \cup
  {Ask(MemoryServer, IF_MEMORYSERVER, f, Short, 10) : f \in {1, 6}}

Misfits ==
  {Ask(FileServer, IF_FILE, 2, Short, 3), Ask(FileServer, IF_FILE, 3, Long, 10),
   Ask(MemoryServer, IF_MEMORYSERVER, 3, Long, 10)}

(* Faults, ids that are cut to those of another operation, and ids that no *)
(* entry knows.                                                            *)
Strangers ==
  {Ask(MemoryServer, Kernel, 1, 0, 10), Ask(TaskServer, Kernel, 1, 0, 10),
   Ask(TaskServer, IF_MEMORYSERVER, 1, Short, 10), Ask(TaskServer, 8, 1, Short, 10),
   Ask(MemoryServer, IF_MEMORYSERVER, 9, Short, 10), Ask(FileServer, 14, 10, Short, 10),
   Ask(FileServer, IF_MEMORYSERVER, 1, Short, 10), Ask(MemoryServer, IF_TASKSERVER, 1, Short, 10)}

MCRequests == Operations \cup Misfits \cup Strangers
=============================================================================
