----------------------------- MODULE NameServer -----------------------------
(***************************************************************************)
(* The name server's database (src/nameserver/main.cc): a fixed table of   *)
(* slots, each holding a path and the thread that registered it.  A path   *)
(* is a sequence of characters; only the slash is told apart by the code.  *)
(***************************************************************************)
EXTENDS Integers, Sequences, SequencesExt

CONSTANTS
  Thread,        \* Threads that may call the server.
  NilThread,     \* L4_nilthread, marks a free slot.
  NameServerId,  \* L4_Myself() of the name server.
  Char,          \* Characters of a path, the terminating NUL excluded.
  Slash,         \* The character '/'.
  NullString,    \* A NULL char*, the remainder the self lookup leaves.
  Path,          \* Paths clients register.
  Query,         \* Paths clients look up.
  MaxEntries,    \* SDI_NAMESERVER_MAX_ENTRIES.
  MaxEntryLen    \* SDI_NAMESERVER_MAX_ENTRY_LEN.

ASSUME TableSizeAssumption == MaxEntries \in Nat /\ MaxEntryLen \in Nat
ASSUME ThreadAssumption == NilThread \notin Thread /\ NameServerId # NilThread
ASSUME PathAssumption ==
  Slash \in Char /\ Path \subseteq Seq(Char) /\ Query \subseteq Seq(Char)

VARIABLE names   \* The table: slot -> [path, registrant].

Slot == 0 .. MaxEntries - 1

(* Faulty variant of Stored: strcpy instead of strncpy. *)
StoredUnbounded(p) == p

(* strncpy copies at most MaxEntryLen characters into the slot. *)
Stored(p) == SubSeq(p, 1, IF Len(p) < MaxEntryLen THEN Len(p) ELSE MaxEntryLen)

Name == {Stored(p) : p \in Path}

FreeEntry == [path |-> <<>>, registrant |-> NilThread]

-----------------------------------------------------------------------------
(* clear_name_database() *)
Init == names = [i \in Slot |-> FreeEntry]

IsFree(i) == names[i].registrant = NilThread

FirstFree(i) == IsFree(i) /\ \A j \in 0 .. i - 1 : ~IsFree(j)

(* Faulty variant: a slot is taken for free when its path is blank. *)
FindUnnamedEntry ==
  IF \E i \in Slot : names[i].path = <<>>
  THEN CHOOSE i \in Slot : names[i].path = <<>> ELSE -1

(* The lowest free slot, or -1 when the database is full. *)
find_free_entry ==
  IF \E i \in Slot : FirstFree(i) THEN CHOOSE i \in Slot : FirstFree(i) ELSE -1

(* nameserver_register_implementation(_caller = c, path = p).  A full      *)
(* table drops the request, and the caller is told nothing.                *)
Register(c, p) ==
  LET i == find_free_entry IN
  names' = IF i >= 0
           THEN [names EXCEPT ![i] = [path |-> Stored(p), registrant |-> c]]
           ELSE names

(* Faulty variants: a slot is freed without blanking its path; the scan    *)
(* stops at the caller's first slot.                                       *)
DeregisterKeepsPath(c) ==
  names' = [i \in Slot |->
              IF names[i].registrant = c
              THEN [names[i] EXCEPT !.registrant = NilThread] ELSE names[i]]

DeregisterFirstOnly(c) ==
  names' = [i \in Slot |->
              IF /\ names[i].registrant = c
                 /\ \A j \in 0 .. i - 1 : names[j].registrant # c
              THEN FreeEntry ELSE names[i]]

(* Faulty variant: the loop over the table starts at entry 1. *)
DeregisterSkipsFirst(c) ==
  names' = [i \in Slot |->
              IF i > 0 /\ names[i].registrant = c THEN FreeEntry ELSE names[i]]

(* nameserver_deregister_implementation(_caller = c). *)
Deregister(c) ==
  names' = [i \in Slot |->
              IF names[i].registrant = c THEN FreeEntry ELSE names[i]]

-----------------------------------------------------------------------------
IsSelfQuery(q) == q = <<>> \/ q = <<Slash>>

(* Faulty variant: an entry matches only paths that go beyond it. *)
MatchesBeyond(i, q) ==
  Len(names[i].path) < Len(q) /\ IsPrefix(names[i].path, q)

(* strncmp over the entry's length: the entry is a character prefix of q.  *)
(* A blank entry is a prefix of every path.                                *)
Matches(i, q) == IsPrefix(names[i].path, q)

FirstMatch(i, q) == Matches(i, q) /\ \A j \in 0 .. i - 1 : ~Matches(j, q)

(* nameserver_Lookup_implementation(path = q): the thread of the first     *)
(* matching slot and what is left of q behind that slot's path.            *)
Lookup(q) ==
  IF IsSelfQuery(q)
  THEN [thread |-> NameServerId, remaining |-> NullString]
  ELSE IF \E i \in Slot : FirstMatch(i, q)
  THEN LET e == names[CHOOSE i \in Slot : FirstMatch(i, q)] IN
       [thread |-> e.registrant,
        remaining |-> SubSeq(q, Len(e.path) + 1, Len(q))]
  ELSE [thread |-> NilThread, remaining |-> q]

Next ==
  \E c \in Thread :
    \/ \E p \in Path : Register(c, p)
    \/ Deregister(c)

Spec == Init /\ [][Next]_names

-----------------------------------------------------------------------------
(* The table has its C type: a path of at most MaxEntryLen characters and  *)
(* a registrant in every slot.                                             *)
TypeOK ==
  /\ names \in [Slot -> [path : Seq(Char), registrant : Thread \cup {NilThread}]]
  /\ \A i \in Slot : Len(names[i].path) <= MaxEntryLen

(* A free slot carries no path.  Register relies on it: it overwrites the  *)
(* lowest free slot, which must not be one that a lookup skips.            *)
FreeSlotsBlank == \A i \in Slot : IsFree(i) => names[i].path = <<>>

(* Queries that the table answers, not the server itself. *)
TableQuery == {q \in Query : ~IsSelfQuery(q)}

Answer(q) == Lookup(q).thread

(* No request moves an answered query to another thread: it keeps its      *)
(* answer or loses it.  Two servers registering overlapping paths in any   *)
(* order, with deregistrations in between, never divert each other's       *)
(* clients in one step.                                                    *)
NoTakeover ==
  [][\A q \in TableQuery :
       Answer(q) # NilThread => Answer(q)' \in {Answer(q), NilThread}]_names

NoHoles == \A i \in Slot : ~IsFree(i) => \A j \in 0 .. i - 1 : ~IsFree(j)

(* While no freed slot precedes an occupied one, every registered name     *)
(* that is not the server's own resolves to some thread.                   *)
CompactResolves ==
  NoHoles =>
    \A i \in Slot :
      ~IsFree(i) /\ ~IsSelfQuery(names[i].path)
        => Answer(names[i].path) # NilThread

(* The comment above the scan ("Find the first database entry matching the *)
(* query", main.cc line 89) and doc/naming.tex read as: a registered name  *)
(* resolves.  Freed slots match everything and break it.                   *)
RegisteredNameResolves ==
  \A i \in Slot :
    ~IsFree(i) /\ ~IsSelfQuery(names[i].path)
      => Answer(names[i].path) # NilThread

(* The table implements the abstract name service: holders are the         *)
(* occupied slots, answers are what Lookup returns.                        *)
Service ==
  INSTANCE NameService WITH
    Query   <- TableQuery,
    holders <- {<<names[i].path, names[i].registrant>> :
                  i \in {k \in Slot : ~IsFree(k)}},
    answer  <- [q \in TableQuery |-> Answer(q)]

ImplementsNameService == Service!Spec
=============================================================================
