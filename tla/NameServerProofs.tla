-------------------------- MODULE NameServerProofs --------------------------
(***************************************************************************)
(* Proofs about the name server's table, for every table size, every set   *)
(* of threads and every set of paths: its type, blank free slots, no       *)
(* takeover, and that it implements the abstract name service.             *)
(***************************************************************************)
EXTENDS NameServer, LoopProofs

(* The inductive invariant: type and blank free slots. *)
Inv == TypeOK /\ FreeSlotsBlank

(* A stored name is a sequence of at most MaxEntryLen characters. *)
LEMMA NameIsSequence ==
  ASSUME NEW p \in Path
  PROVE  Stored(p) \in Seq(Char) /\ Len(Stored(p)) <= MaxEntryLen
<1>1. p \in Seq(Char) /\ Len(p) \in Nat
  BY PathAssumption
<1>. QED
  BY <1>1, TableSizeAssumption DEF Stored

(* The blank path is a prefix of every path. *)
LEMMA BlankIsPrefix ==
  ASSUME NEW q \in Seq(Char)
  PROVE  IsPrefix(<<>>, q)
BY DEF IsPrefix

(* find_free_entry returns the lowest free slot or -1. *)
LEMMA FindFreeEntry ==
  \/ find_free_entry = -1
  \/ find_free_entry \in Slot /\ FirstFree(find_free_entry)
BY DEF find_free_entry

(* The scan of Lookup has one result: the slot FirstMatch describes. *)
LEMMA FirstMatchAnswers ==
  ASSUME NEW q, ~IsSelfQuery(q), NEW i \in Slot, FirstMatch(i, q)
  PROVE  Answer(q) = names[i].registrant
<1>. DEFINE k == CHOOSE j \in Slot : FirstMatch(j, q)
<1>1. k \in Slot /\ FirstMatch(k, q)
  OBVIOUS
<1>2. k = i
  <2>1. ~(k < i) /\ ~(i < k)
    BY <1>1 DEF FirstMatch, Slot
  <2>. QED
    BY <1>1, <2>1 DEF Slot
<1>. QED
  BY <1>2 DEF Answer, Lookup

LEMMA AnswerIsFirstMatch ==
  \A q \in TableQuery, i \in Slot :
    FirstMatch(i, q) => Answer(q) = names[i].registrant
BY FirstMatchAnswers DEF TableQuery

(* An answer other than nil is the registrant of the first match. *)
LEMMA AnswerHasSlot ==
  \A q \in TableQuery :
    Answer(q) # NilThread =>
      \E i \in Slot : /\ FirstMatch(i, q) /\ ~IsFree(i)
                      /\ Answer(q) = names[i].registrant
<1>. SUFFICES ASSUME NEW q \in TableQuery, Answer(q) # NilThread
              PROVE  \E i \in Slot : /\ FirstMatch(i, q) /\ ~IsFree(i)
                                     /\ Answer(q) = names[i].registrant
  OBVIOUS
<1>1. PICK i \in Slot : FirstMatch(i, q)
  BY DEF Answer, Lookup, TableQuery
<1>2. Answer(q) = names[i].registrant
  BY <1>1, AnswerIsFirstMatch
<1>. QED
  BY <1>1, <1>2 DEF IsFree

-----------------------------------------------------------------------------
(* Initially every slot is free and blank. *)
LEMMA InitInv == Init => Inv
BY TableSizeAssumption DEF Init, Inv, TypeOK, FreeSlotsBlank, FreeEntry, IsFree

(* Registering writes one stored name with a real thread. *)
LEMMA RegisterInv ==
  ASSUME Inv, NEW c \in Thread, NEW p \in Path, Register(c, p)
  PROVE  Inv'
<1>. DEFINE n == find_free_entry
            e == [path |-> Stored(p), registrant |-> c]
<1>1. CASE n = -1
  BY <1>1 DEF Register, Inv, TypeOK, FreeSlotsBlank, IsFree
<1>2. CASE n \in Slot
  <2>1. names' = [names EXCEPT ![n] = e]
    BY <1>2 DEF Register, Slot
  <2>2. /\ e \in [path : Seq(Char), registrant : Thread \cup {NilThread}]
        /\ Len(e.path) <= MaxEntryLen
    BY NameIsSequence
  <2>3. TypeOK'
    BY <1>2, <2>1, <2>2 DEF Inv, TypeOK
  <2>4. FreeSlotsBlank'
    BY <1>2, <2>1, ThreadAssumption DEF Inv, TypeOK, FreeSlotsBlank, IsFree
  <2>. QED
    BY <2>3, <2>4 DEF Inv
<1>. QED
  BY <1>1, <1>2, FindFreeEntry

(* Deregistering only frees slots, and blanks what it frees. *)
LEMMA DeregisterInv ==
  ASSUME Inv, NEW c \in Thread, Deregister(c)
  PROVE  Inv'
<1>1. TypeOK'
  BY TableSizeAssumption DEF Inv, TypeOK, Deregister, FreeEntry
<1>2. FreeSlotsBlank'
  BY DEF Inv, TypeOK, FreeSlotsBlank, IsFree, Deregister, FreeEntry
<1>. QED
  BY <1>1, <1>2 DEF Inv

LEMMA NextInv == Inv /\ [Next]_names => Inv'
<1>. SUFFICES ASSUME Inv, [Next]_names PROVE Inv'
  OBVIOUS
<1>1. CASE UNCHANGED names
  BY <1>1 DEF Inv, TypeOK, FreeSlotsBlank, IsFree
<1>2. ASSUME NEW c \in Thread, NEW p \in Path, Register(c, p) PROVE Inv'
  BY <1>2, RegisterInv
<1>3. ASSUME NEW c \in Thread, Deregister(c) PROVE Inv'
  BY <1>3, DeregisterInv
<1>. QED
  BY <1>1, <1>2, <1>3 DEF Next

LEMMA SpecInv == Spec => []Inv
BY InitInv, NextInv, PTL DEF Spec

(* The table keeps its type: src/nameserver/main.cc never stores more than *)
(* MaxEntryLen characters and never a registrant that did not call.        *)
THEOREM TypeCorrect == Spec => []TypeOK
<1>1. Inv => TypeOK
  BY DEF Inv
<1>. QED
  BY <1>1, SpecInv, PTL

(* Every free slot is blank, whatever was registered and deregistered. *)
THEOREM FreeSlotsAreBlank == Spec => []FreeSlotsBlank
<1>1. Inv => FreeSlotsBlank
  BY DEF Inv
<1>. QED
  BY <1>1, SpecInv, PTL

-----------------------------------------------------------------------------
(* The same two facts about Answer in the successor state. *)
LEMMA AnswerIsFirstMatchNext ==
  (\A q \in TableQuery, i \in Slot :
     FirstMatch(i, q) => Answer(q) = names[i].registrant)'
BY AnswerIsFirstMatch, PTL

LEMMA AnswerHasSlotNext ==
  (\A q \in TableQuery :
     Answer(q) # NilThread =>
       \E i \in Slot : /\ FirstMatch(i, q) /\ ~IsFree(i)
                       /\ Answer(q) = names[i].registrant)'
BY AnswerHasSlot, PTL

LEMMA TableQueryIsSequence == TableQuery \subseteq Seq(Char)
BY PathAssumption DEF TableQuery

(* A registration takes a slot behind every slot that answers: the lowest  *)
(* free slot is blank, so a lookup that got past it would have stopped.    *)
LEMMA RegisterKeepsAnswers ==
  ASSUME Inv, NEW c \in Thread, NEW p \in Path, Register(c, p),
         NEW q \in TableQuery, Answer(q) # NilThread
  PROVE  Answer(q)' = Answer(q)
<1>. DEFINE n == find_free_entry
<1>1. PICK i \in Slot : /\ FirstMatch(i, q) /\ ~IsFree(i)
                        /\ Answer(q) = names[i].registrant
  BY AnswerHasSlot
<1>2. CASE n = -1
  <2>1. names' = names
    BY <1>2 DEF Register
  <2>2. FirstMatch(i, q)'
    BY <1>1, <2>1 DEF FirstMatch, Matches
  <2>. QED
    BY <1>1, <2>1, <2>2, AnswerIsFirstMatchNext
<1>3. CASE n \in Slot /\ FirstFree(n)
  <2>1. names' = [names EXCEPT ![n] = [path |-> Stored(p), registrant |-> c]]
    BY <1>3 DEF Register, Slot
  <2>2. Matches(n, q)
    <3>1. names[n].path = <<>>
      BY <1>3 DEF Inv, FreeSlotsBlank, FirstFree
    <3>. QED
      BY <3>1, BlankIsPrefix, TableQueryIsSequence DEF Matches
  <2>3. n # i
    BY <1>1, <1>3 DEF FirstFree
  <2>4. ~(n < i)
    BY <1>1, <1>3, <2>2 DEF FirstMatch, Slot
  <2>5. \A j \in 0 .. i : names'[j] = names[j]
    BY <1>3, <2>1, <2>3, <2>4, TableSizeAssumption DEF Slot, Inv, TypeOK
  <2>6. FirstMatch(i, q)' /\ names'[i] = names[i]
    BY <1>1, <2>5, TableSizeAssumption DEF FirstMatch, Matches, Slot
  <2>. QED
    BY <1>1, <2>6, AnswerIsFirstMatchNext
<1>. QED
  BY <1>2, <1>3, FindFreeEntry

(* A deregistration blanks slots, and a blank slot hides everything behind *)
(* it: what still answers was already the answer, and is not the caller.   *)
LEMMA DeregisterOnlyRemoves ==
  ASSUME Inv, NEW c \in Thread, Deregister(c), NEW q \in TableQuery
  PROVE  /\ Answer(q)' \in {Answer(q), NilThread}
         /\ Answer(q)' # c
<1>1. CASE Answer(q)' = NilThread
  BY <1>1, ThreadAssumption
<1>2. CASE Answer(q)' # NilThread
  <2>1. PICK i \in Slot : /\ FirstMatch(i, q)' /\ ~IsFree(i)'
                          /\ Answer(q)' = names'[i].registrant
    BY <1>2, AnswerHasSlotNext
  <2>2. names'[i] = names[i] /\ names[i].registrant # c
    BY <2>1 DEF Deregister, FreeEntry, IsFree
  <2>3. ASSUME NEW j \in 0 .. i - 1 PROVE ~Matches(j, q)
    <3>1. j \in Slot
      BY TableSizeAssumption DEF Slot
    <3>2. ~Matches(j, q)'
      BY <2>1 DEF FirstMatch
    <3>3. names'[j].path # <<>>
      BY <3>2, BlankIsPrefix, TableQueryIsSequence DEF Matches
    <3>4. names'[j] = names[j]
      BY <3>1, <3>3 DEF Deregister, FreeEntry
    <3>. QED
      BY <3>2, <3>4 DEF Matches
  <2>4. FirstMatch(i, q)
    BY <2>1, <2>2, <2>3 DEF FirstMatch, Matches
  <2>5. Answer(q) = names[i].registrant
    BY <2>4, AnswerIsFirstMatch
  <2>. QED
    BY <2>1, <2>2, <2>5
<1>. QED
  BY <1>1, <1>2

(* No request moves an answered query to another thread.  The table is    *)
(* filled from the lowest free slot and searched from the same end, and a *)
(* freed slot is blank: together they make takeover impossible.           *)
THEOREM AnswersAreNotTakenOver == Spec => NoTakeover
<1>. DEFINE Stable(q) ==
       Answer(q) # NilThread => Answer(q)' \in {Answer(q), NilThread}
<1>1. ASSUME Inv, [Next]_names PROVE [\A q \in TableQuery : Stable(q)]_names
  <2>1. SUFFICES ASSUME Next, NEW q \in TableQuery PROVE Stable(q)
    BY <1>1
  <2>2. ASSUME NEW c \in Thread, NEW p \in Path, Register(c, p)
        PROVE  Stable(q)
    BY <1>1, <2>2, RegisterKeepsAnswers
  <2>3. ASSUME NEW c \in Thread, Deregister(c) PROVE Stable(q)
    BY <1>1, <2>3, DeregisterOnlyRemoves
  <2>. QED
    BY <2>1, <2>2, <2>3 DEF Next
<1>. QED
  BY <1>1, SpecInv, PTL DEF Spec, NoTakeover

-----------------------------------------------------------------------------
(* The refinement mapping of NameServer!Service, named. *)
Holders == {<<names[i].path, names[i].registrant>> : i \in {k \in Slot : ~IsFree(k)}}
Answers == [q \in TableQuery |-> Answer(q)]

(* An empty table holds nothing and answers nothing. *)
LEMMA InitRefines == Init => Service!Init
<1>. SUFFICES ASSUME Init PROVE Service!Init
  OBVIOUS
<1>1. \A i \in Slot : IsFree(i)
  BY DEF Init, FreeEntry, IsFree
<1>2. Holders = {}
  BY <1>1 DEF Holders
<1>3. Answers = [q \in TableQuery |-> NilThread]
  BY <1>1, AnswerHasSlot DEF Answers
<1>. QED
  BY <1>2, <1>3 DEF Service!Init, Holders, Answers

(* A registration is the abstract one, or a stutter when the table is full. *)
LEMMA RegisterRefines ==
  ASSUME Inv, NEW c \in Thread, NEW p \in Path, Register(c, p)
  PROVE  Service!Register(c, Stored(p)) \/ UNCHANGED names
<1>. DEFINE n == find_free_entry
<1>1. CASE n = -1
  BY <1>1 DEF Register
<1>2. CASE n \in Slot /\ FirstFree(n)
  <2>1. names' = [names EXCEPT ![n] = [path |-> Stored(p), registrant |-> c]]
    BY <1>2 DEF Register, Slot
  <2>2. names'[n] = [path |-> Stored(p), registrant |-> c]
    BY <1>2, <2>1 DEF Inv, TypeOK
  <2>3. \A i \in Slot : i # n => names'[i] = names[i]
    BY <2>1 DEF Inv, TypeOK
  <2>4. {k \in Slot : ~IsFree(k)}' = {k \in Slot : ~IsFree(k)} \cup {n}
    BY <1>2, <2>2, <2>3, ThreadAssumption DEF IsFree, FirstFree
  <2>5. n \notin {k \in Slot : ~IsFree(k)}
    BY <1>2 DEF FirstFree
  <2>6. Holders' = Holders \cup {<<Stored(p), c>>}
    BY <2>2, <2>3, <2>4, <2>5 DEF Holders
  <2>7. ASSUME NEW q \in TableQuery, Answer(q) = NilThread, Answer(q)' # NilThread
        PROVE  Service!Holds(Answer(q)', q, Holders')
    <3>1. PICK i \in Slot : /\ FirstMatch(i, q)' /\ ~IsFree(i)'
                            /\ Answer(q)' = names'[i].registrant
      BY <2>7, AnswerHasSlotNext
    <3>2. <<names'[i].path, names'[i].registrant>> \in Holders'
      BY <3>1 DEF Holders
    <3>3. IsPrefix(names'[i].path, q)
      BY <3>1 DEF FirstMatch, Matches
    <3>. QED
      BY <3>1, <3>2, <3>3 DEF Service!Holds, Service!IsPrefix, IsPrefix
  <2>8. \A q \in TableQuery :
          IF Answer(q) # NilThread
          THEN Answer(q)' = Answer(q)
          ELSE Answer(q)' = NilThread \/ Service!Holds(Answer(q)', q, Holders')
    BY <2>7, RegisterKeepsAnswers
  <2>. QED
    BY <2>6, <2>8 DEF Service!Register, Holders
<1>. QED
  BY <1>1, <1>2, FindFreeEntry

(* A deregistration drops exactly the caller's names and only loses answers. *)
LEMMA DeregisterRefines ==
  ASSUME Inv, NEW c \in Thread, Deregister(c)
  PROVE  Service!Deregister(c)
<1>1. {k \in Slot : ~IsFree(k)}' =
        {k \in {j \in Slot : ~IsFree(j)} : names[k].registrant # c}
  BY ThreadAssumption DEF Deregister, IsFree, FreeEntry
<1>2. \A k \in Slot : names[k].registrant # c => names'[k] = names[k]
  BY DEF Deregister
<1>3. Holders' = {h \in Holders : h[2] # c}
  BY <1>1, <1>2 DEF Holders
<1>4. \A q \in TableQuery :
        Answer(q)' # c /\ Answer(q)' \in {Answer(q), NilThread}
  BY DeregisterOnlyRemoves
<1>. QED
  BY <1>3, <1>4 DEF Service!Deregister, Holders

(* The table of src/nameserver/main.cc, with its holes, truncation and     *)
(* silent overflow, behaves as the abstract name service allows.           *)
THEOREM Refinement == Spec => ImplementsNameService
<1>1. Init => Service!Init
  BY InitRefines
<1>2. ASSUME Inv, [Next]_names PROVE [Service!Next]_(Service!vars)
  <2>1. CASE UNCHANGED names
    BY <2>1 DEF Service!vars, IsFree, Answer, Lookup, FirstMatch, Matches
  <2>2. ASSUME NEW c \in Thread, NEW p \in Path, Register(c, p)
        PROVE  [Service!Next]_(Service!vars)
    <3>1. Stored(p) \in Name
      BY DEF Name
    <3>. QED
      BY <1>2, <2>1, <2>2, <3>1, RegisterRefines DEF Service!Next
  <2>3. ASSUME NEW c \in Thread, Deregister(c)
        PROVE  [Service!Next]_(Service!vars)
    BY <1>2, <2>3, DeregisterRefines DEF Service!Next
  <2>. QED
    BY <1>2, <2>1, <2>2, <2>3 DEF Next
<1>. QED
  BY <1>1, <1>2, SpecInv, PTL DEF Spec, ImplementsNameService, Service!Spec

-----------------------------------------------------------------------------
(* The scan of Lookup reaches a slot whenever some slot matches. *)
LEMMA MatchHasFirst ==
  ASSUME NEW q, NEW i \in Slot, Matches(i, q)
  PROVE  \E k \in Slot : FirstMatch(k, q) /\ k <= i
<1>. DEFINE T == {j \in Slot : Matches(j, q)}
<1>1. PICK k \in T : \A y \in T : ~(y < k)
  BY LeastElement, T \subseteq Nat DEF Slot
<1>2. ASSUME NEW j \in 0 .. k - 1 PROVE ~Matches(j, q)
  BY <1>1, <1>2, TableSizeAssumption DEF Slot
<1>. QED
  BY <1>1, <1>2 DEF FirstMatch, Slot

(* Without holes every registered name resolves: only the slots that       *)
(* deregistration blanks can hide a name.                                  *)
THEOREM CompactTableResolves == Spec => []CompactResolves
<1>1. ASSUME Inv PROVE CompactResolves
  <2>1. SUFFICES ASSUME NoHoles, NEW i \in Slot, ~IsFree(i),
                        ~IsSelfQuery(names[i].path)
                 PROVE  Answer(names[i].path) # NilThread
    BY DEF CompactResolves
  <2>2. names[i].path \in Seq(Char)
    BY <1>1 DEF Inv, TypeOK
  <2>3. Matches(i, names[i].path)
    BY <2>2 DEF Matches, IsPrefix
  <2>4. PICK k \in Slot : FirstMatch(k, names[i].path) /\ k <= i
    BY <2>3, MatchHasFirst
  <2>5. ~IsFree(k)
    BY <2>1, <2>4 DEF NoHoles, Slot
  <2>. QED
    BY <2>1, <2>4, <2>5, FirstMatchAnswers DEF IsFree
<1>. QED
  BY <1>1, SpecInv, PTL
=============================================================================
