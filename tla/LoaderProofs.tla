---------------------------- MODULE LoaderProofs ----------------------------
(***************************************************************************)
(* Proofs about finding and loading a module, for every memory, bootinfo   *)
(* and image: the types, that the first module of the name is found, that  *)
(* all its pages were requested, and that the loop over the segments puts  *)
(* the image where its headers say.                                        *)
(***************************************************************************)
EXTENDS Loader, LoopProofs, FiniteSetTheorems

(* The copies and fills of the loader are those of any memory. *)
LEMMA MemcpyCopies ==
  ASSUME NEW m \in [Addr -> Char], NEW d \in Nat \ {0}, NEW s \in Nat \ {0}, NEW n \in Nat,
         s + n - 1 <= Size, d + n - 1 <= Size
  PROVE  /\ memcpy(m, d, s, n) \in [Addr -> Char]
         /\ Spared(memcpy(m, d, s, n), m, d, n)
         /\ NotInside(d, s, n) => Arrived(memcpy(m, d, s, n), m, d, s, n)
<1>1. memcpy(m, d, s, n) = CopyLoop(m, d, s, n)
  BY DEF memcpy, CopyLoop, CopyRun
<1>2. m \in [1 .. Size -> Char]
  BY DEF Addr
<1>. QED
  BY <1>1, <1>2, CopyLoopCopies, StdLibAssumption DEF Addr

LEMMA MemsetSets ==
  ASSUME NEW m \in [Addr -> Char], NEW d \in Int, NEW c \in Char, NEW n \in Nat
  PROVE  /\ memset(m, d, c, n) \in [Addr -> Char]
         /\ \A x \in Addr : memset(m, d, c, n)[x] = IF x \in d .. d + n - 1 THEN c ELSE m[x]
<1>1. memset(m, d, c, n) = SetLoop(m, d, c, n)
  BY DEF memset, SetLoop, SetRun
<1>2. m \in [1 .. Size -> Char]
  BY DEF Addr
<1>3. /\ SetLoop(m, d, c, n) \in [1 .. Size -> Char]
      /\ FilledWith(SetLoop(m, d, c, n), m, d, c, n)
  BY <1>2, SetLoopSets, StdLibAssumption
<1>. QED
  BY <1>1, <1>3 DEF Addr, FilledWith

(* While root searches, it has passed over the records before rec.         *)
SearchInv ==
  /\ pc = "find" => /\ rec = i + 1 /\ (i = 0 \/ i < Entries)
                    /\ \A k \in 1 .. i : ~Carries(Record(k))
  /\ pc \notin {"find", "load", "panic"} => module.type = ModuleType

(* While it requests pages, it has those of the cells below addr, but for  *)
(* the page of addr itself, where cells of the module may lie before addr. *)
RequestInv ==
  pc = "request" =>
    /\ addr >= module.start /\ addr % PageSize = module.start % PageSize
    /\ \A a \in module.start .. addr - 1 : PageOf(a) \in got \/ PageOf(a) = PageOf(addr)

(* What cell x holds when the first n segments are loaded. *)
Loaded(n, x) ==
  IF \E k \in Loadable : k < n /\ x \in Target(k) THEN Image(x) ELSE load.mem[x]

LoadInv ==
  /\ pc \in {"find", "load", "request"} => mem = load.mem
  /\ pc \in {"find", "load", "request", "segments"} => ip = NULL
  /\ pc = "segments" =>
       /\ IsExecutable(load.mem)
       /\ Placeable => /\ i <= Field(load.mem, e_phnum)
                       /\ \A x \in Addr : mem[x] = Loaded(i, x)
  /\ pc \in {"start", "started"} =>
       IF ~IsExecutable(load.mem) THEN ip = NULL /\ mem = load.mem
       ELSE Placeable => /\ ip = Field(load.mem, e_entry)
                         /\ \A x \in Addr : mem[x] = Image(x)
  /\ pc = "wild" => IsExecutable(load.mem) /\ ~Placeable

LoaderInv == TypeOK /\ SearchInv /\ FindsFirst /\ RequestInv /\ ModuleRequested /\ LoadInv

-----------------------------------------------------------------------------
(* A prefix agrees with the sequence on every position it has. *)
LEMMA PrefixByElement ==
  ASSUME NEW S, NEW s \in Seq(S), NEW t \in Seq(S)
  PROVE  IsPrefix(s, t) <=> /\ Len(s) <= Len(t)
                            /\ \A k \in DOMAIN s : t[k] = s[k]
<1>1. ASSUME Len(s) <= Len(t), NEW k \in 1 .. Len(s)
      PROVE  SubSeq(s, 1, Len(s))[k] = s[k] /\ SubSeq(t, 1, Len(s))[k] = t[k]
  BY <1>1
<1>2. ASSUME IsPrefix(s, t), NEW k \in DOMAIN s
      PROVE  s[k] = t[k]
  BY <1>1, <1>2 DEF IsPrefix
<1>3. ASSUME Len(s) <= Len(t), \A k \in DOMAIN s : t[k] = s[k]
      PROVE  IsPrefix(s, t)
  <2>1. SubSeq(s, 1, Len(s)) = SubSeq(t, 1, Len(s))
    BY <1>3
  <2>. QED
    BY <1>3, <2>1 DEF IsPrefix
<1>. QED
  BY <1>2, <1>3 DEF IsPrefix

(* What is known of the situation. *)
LEMMA Situation ==
  ASSUME TypeOK
  PROVE  /\ load.mem \in [Addr -> Char] /\ Entries \in Nat
         /\ load.wanted \in Seq(Letter)
         /\ \A k \in Nat \ {0} : Record(k) \in BootRecord
         /\ module \in BootRecord
         /\ module.type = ModuleType => hdr \in Addr /\ hdr + EhdrSize - 1 \in Addr
<1>1. load.entries \in Seq(BootRecord) /\ load.beyond \in BootRecord
  BY LoadsAssumption DEF TypeOK
<1>2. \A k \in 1 .. Entries : Record(k) \in Range(load.entries) /\ Record(k) \in BootRecord
  BY <1>1 DEF Record, Entries, Range
<1>3. Entries \in Nat
  BY <1>1 DEF Entries
<1>4. ASSUME NEW k \in Nat \ {0}
      PROVE  Record(k) \in BootRecord /\ Record(k) \in Range(load.entries) \cup {load.beyond}
  <2>1. CASE k <= Entries
    <3>1. k \in 1 .. Entries
      BY <1>3, <2>1
    <3>. QED
      BY <1>2, <3>1
  <2>2. CASE ~(k <= Entries)
    BY <1>1, <2>2 DEF Record
  <2>. QED
    BY <2>1, <2>2
<1>5. rec \in Nat \ {0}
  BY <1>3 DEF TypeOK
<1>. QED
  BY <1>3, <1>4, <1>5, LoadsAssumption DEF TypeOK, module, hdr

(* strncmp over the name's length finds the modules that carry the name.   *)
LEMMA WantedCarries ==
  ASSUME TypeOK, NEW k \in Nat \ {0}
  PROVE  IsWanted(Record(k)) <=> Carries(Record(k))
<1>1. load.wanted \in Seq(Letter) /\ Record(k).cmdline \in Seq(Letter)
  BY Situation DEF BootRecord
<1>. QED
  BY <1>1, PrefixByElement DEF IsWanted, Carries

-----------------------------------------------------------------------------
(* The fields of a header in memory m are characters of it. *)
LEMMA FieldTyped ==
  ASSUME TypeOK, module.type = ModuleType, NEW m \in [Addr -> Char], NEW f \in 0 .. EhdrSize - 1
  PROVE  Field(m, f) \in Char /\ Field(m, f) \in Nat
<1>1. hdr \in Addr /\ hdr + EhdrSize - 1 \in Addr
  BY Situation
<1>2. hdr + f \in Addr
  BY <1>1, StdLibAssumption DEF Addr, EhdrSize
<1>. QED
  BY <1>2, LoadsAssumption DEF Field

LEMMA PageTyped ==
  ASSUME NEW a \in Nat
  PROVE  /\ PageOf(a) \in Nat /\ a % PageSize \in 0 .. PageSize - 1
         /\ a = PageSize * PageOf(a) + (a % PageSize)
<1>1. PageSize \in Nat /\ PageSize > 0
  BY LoadsAssumption
<1>2. a \div PageSize \in Int /\ a % PageSize \in 0 .. PageSize - 1
      /\ a = PageSize * (a \div PageSize) + (a % PageSize)
  BY <1>1
<1>3. a \div PageSize >= 0
  BY <1>1, <1>2
<1>. QED
  BY <1>2, <1>3 DEF PageOf

LEMMA HeaderFields ==
  {e_ident, e_type, e_machine, e_version, e_entry, e_phoff, e_flags, e_phnum} \subseteq 0 .. EhdrSize - 1
BY DEF e_ident, e_type, e_machine, e_version, e_entry, e_phoff, e_flags, e_phnum, EhdrSize

LEMMA SegmentFields ==
  {p_type, p_offset, p_vaddr, p_filesz, p_memsz} \subseteq 0 .. PhdrSize - 1
BY DEF p_type, p_offset, p_vaddr, p_filesz, p_memsz, PhdrSize

LEMMA phdrTyped ==
  ASSUME TypeOK, module.type = ModuleType, NEW m \in [Addr -> Char],
         NEW k \in Nat, InMemory(k), NEW f \in 0 .. PhdrSize - 1
  PROVE  phdr(m, k, f) \in Char /\ phdr(m, k, f) \in Nat
<1>1. hdr \in Addr
  BY Situation
<1>2. Field(load.mem, e_phoff) \in Nat
  BY FieldTyped, HeaderFields, Situation
<1>3. hdr + Field(load.mem, e_phoff) + k * PhdrSize + f \in Addr
  BY <1>1, <1>2, StdLibAssumption DEF InMemory, PhdrSize, Addr
<1>. QED
  BY <1>3, LoadsAssumption DEF phdr

(* One turn of the loop over the segments, and what it takes. *)
LEMMA SegmentSteps ==
  ASSUME LoadSegment
  PROVE  /\ pc = "segments" /\ i < Field(mem, e_phnum)
         /\ UNCHANGED <<load, rec, addr, got, ip>>
         /\ \/ /\ pc' = "wild" /\ UNCHANGED <<mem, i>>
               /\ InMemory(i) =>
                    /\ phdr(mem, i, p_type) = PT_LOAD
                    /\ ~ /\ CopyFits(hdr + phdr(mem, i, p_offset), phdr(mem, i, p_vaddr),
                                     phdr(mem, i, p_filesz))
                         /\ ClearFits(phdr(mem, i, p_vaddr), phdr(FileCopied(mem, i), i, p_filesz),
                                      phdr(FileCopied(mem, i), i, p_memsz))
            \/ /\ InMemory(i) /\ phdr(mem, i, p_type) # PT_LOAD
               /\ i' = i + 1 /\ UNCHANGED <<mem, pc>>
            \/ /\ InMemory(i) /\ phdr(mem, i, p_type) = PT_LOAD
               /\ CopyFits(hdr + phdr(mem, i, p_offset), phdr(mem, i, p_vaddr),
                           phdr(mem, i, p_filesz))
               /\ ClearFits(phdr(mem, i, p_vaddr), phdr(FileCopied(mem, i), i, p_filesz),
                            phdr(FileCopied(mem, i), i, p_memsz))
               /\ mem' = Cleared(FileCopied(mem, i), i, phdr(mem, i, p_vaddr))
               /\ i' = i + 1 /\ UNCHANGED pc
BY DEF LoadSegment, NextSegment

LEMMA CopiedTyped ==
  ASSUME TypeOK, module.type = ModuleType, InMemory(i),
         CopyFits(hdr + phdr(mem, i, p_offset), phdr(mem, i, p_vaddr), phdr(mem, i, p_filesz))
  PROVE  /\ hdr + phdr(mem, i, p_offset) \in Nat \ {0} /\ phdr(mem, i, p_vaddr) \in Nat \ {0}
         /\ phdr(mem, i, p_filesz) \in Nat
         /\ hdr + phdr(mem, i, p_offset) + phdr(mem, i, p_filesz) - 1 <= Size
         /\ phdr(mem, i, p_vaddr) + phdr(mem, i, p_filesz) - 1 <= Size
         /\ FileCopied(mem, i) \in [Addr -> Char]
<1>1. /\ phdr(mem, i, p_offset) \in Nat /\ phdr(mem, i, p_vaddr) \in Nat
      /\ phdr(mem, i, p_filesz) \in Nat /\ hdr \in Nat
  <2>1. mem \in [Addr -> Char] /\ i \in Nat
    BY DEF TypeOK
  <2>2. \A f \in 0 .. PhdrSize - 1 : phdr(mem, i, f) \in Nat
    BY <2>1, phdrTyped
  <2>3. hdr \in Nat
    BY Situation DEF Addr
  <2>. QED
    BY <2>2, <2>3, SegmentFields
<1>2. /\ hdr + phdr(mem, i, p_offset) \in Nat \ {0} /\ phdr(mem, i, p_vaddr) \in Nat \ {0}
      /\ hdr + phdr(mem, i, p_offset) + phdr(mem, i, p_filesz) - 1 <= Size
      /\ phdr(mem, i, p_vaddr) + phdr(mem, i, p_filesz) - 1 <= Size
  BY <1>1 DEF CopyFits, Fits
<1>3. FileCopied(mem, i) \in [Addr -> Char]
  BY <1>1, <1>2, MemcpyCopies DEF FileCopied, TypeOK
<1>. QED
  BY <1>1, <1>2, <1>3

LEMMA ClearedTyped ==
  ASSUME TypeOK, module.type = ModuleType, InMemory(i), NEW m \in [Addr -> Char],
         NEW a \in Nat, ClearFits(a, phdr(m, i, p_filesz), phdr(m, i, p_memsz))
  PROVE  /\ phdr(m, i, p_filesz) \in Nat /\ phdr(m, i, p_memsz) - phdr(m, i, p_filesz) \in Nat
         /\ Cleared(m, i, a) \in [Addr -> Char]
<1>1. phdr(m, i, p_filesz) \in Nat /\ phdr(m, i, p_memsz) \in Nat
  BY phdrTyped, SegmentFields DEF TypeOK
<1>2. phdr(m, i, p_memsz) - phdr(m, i, p_filesz) \in Nat /\ a + phdr(m, i, p_filesz) \in Int
  BY <1>1 DEF ClearFits
<1>3. Cleared(m, i, a) \in [Addr -> Char]
  BY <1>2, MemsetSets, StdLibAssumption DEF Cleared
<1>. QED
  BY <1>1, <1>2, <1>3

LEMMA TypeStep ==
  ASSUME TypeOK, SearchInv, [Next]_vars
  PROVE  TypeOK'
<1>1. load' = load
  BY DEF Next, vars, FindByName, CheckType, RequestPage, CheckHeader,
         LoadSegment, ReturnEntry, StartTask
<1>2. Entries \in Nat /\ Entries' = Entries /\ module \in BootRecord
  BY <1>1, Situation DEF Entries
<1>4. CASE FindByName
  <2>1. i' \in Nat /\ rec' \in 1 .. Entries + 1
    BY <1>2, <1>4 DEF FindByName, NextRecord, TypeOK, SearchInv
  <2>2. pc' \in {"find", "load", "panic"}
    BY <1>4 DEF FindByName, panic
  <2>. QED
    BY <1>1, <1>2, <1>4, <2>1, <2>2 DEF FindByName, TypeOK
<1>5. CASE CheckType
  BY <1>1, <1>2, <1>5 DEF CheckType, TypeOK, panic, BootRecord
<1>6. CASE RequestPage
  <2>1. PageOf(addr) \in Nat /\ PageAfter(addr) \in Nat
    <3>1. addr \in Nat /\ PageSize \in Nat
      BY LoadsAssumption DEF TypeOK
    <3>. QED
      BY <3>1, PageTyped DEF PageAfter
  <2>. QED
    BY <1>1, <1>2, <1>6, <2>1 DEF RequestPage, TypeOK, panic
<1>7. CASE CheckHeader
  BY <1>1, <1>2, <1>7 DEF CheckHeader, TypeOK
<1>8. CASE LoadSegment
  <2>1. module.type = ModuleType
    BY <1>8 DEF LoadSegment, SearchInv
  <2>2. mem' \in [Addr -> Char]
    <3>1. CASE mem' = mem
      BY <3>1 DEF TypeOK
    <3>2. CASE /\ InMemory(i)
               /\ CopyFits(hdr + phdr(mem, i, p_offset), phdr(mem, i, p_vaddr),
                           phdr(mem, i, p_filesz))
               /\ ClearFits(phdr(mem, i, p_vaddr), phdr(FileCopied(mem, i), i, p_filesz),
                            phdr(FileCopied(mem, i), i, p_memsz))
               /\ mem' = Cleared(FileCopied(mem, i), i, phdr(mem, i, p_vaddr))
      <4>1. FileCopied(mem, i) \in [Addr -> Char] /\ phdr(mem, i, p_vaddr) \in Nat
        BY <2>1, <3>2, CopiedTyped
      <4>. QED
        BY <2>1, <3>2, <4>1, ClearedTyped
    <3>. QED
      BY <1>8, <3>1, <3>2, SegmentSteps
  <2>3. i' \in Nat /\ pc' \in {"segments", "wild"}
    BY <1>8, SegmentSteps DEF TypeOK
  <2>4. UNCHANGED <<load, rec, addr, got, ip>>
    BY <1>8 DEF LoadSegment
  <2>. QED
    BY <1>2, <2>2, <2>3, <2>4 DEF TypeOK
<1>9. CASE ReturnEntry
  <2>1. Field(mem, e_entry) \in Char
    BY <1>9, FieldTyped, HeaderFields DEF ReturnEntry, SearchInv, TypeOK
  <2>. QED
    BY <1>1, <1>2, <1>9, <2>1 DEF ReturnEntry, TypeOK
<1>10. CASE StartTask
  BY <1>1, <1>2, <1>10 DEF StartTask, TypeOK
<1>11. CASE UNCHANGED vars
  BY <1>2, <1>11 DEF vars, TypeOK
<1>. QED
  BY <1>4, <1>5, <1>6, <1>7, <1>8, <1>9, <1>10, <1>11 DEF Next

-----------------------------------------------------------------------------
LEMMA LoadConstant ==
  ASSUME [Next]_vars
  PROVE  /\ load' = load /\ Entries' = Entries
         /\ \A r : Carries(r)' <=> Carries(r)
         /\ \A k : Record(k)' = Record(k)
<1>1. load' = load
  BY DEF Next, vars, FindByName, CheckType, RequestPage, CheckHeader,
         LoadSegment, ReturnEntry, StartTask
<1>. QED
  BY <1>1 DEF Entries, Carries, Record

(* Behind the search the record stays, and what is known of it. *)
LEMMA RecordKept ==
  ASSUME SearchInv, FindsFirst, [Next]_vars, UNCHANGED rec,
         pc \notin {"find", "panic"}, pc' \notin {"find", "panic"},
         pc' = "load" \/ module.type = ModuleType
  PROVE  SearchInv' /\ FindsFirst'
<1>1. /\ load' = load /\ Entries' = Entries /\ module' = module
      /\ \A r : Carries(r)' <=> Carries(r)
      /\ \A k : Record(k)' = Record(k)
  BY LoadConstant DEF module
<1>. QED
  BY <1>1 DEF SearchInv, FindsFirst, Found

(* The search goes on to the next record, or ends at the first that        *)
(* carries the name.                                                       *)
LEMMA SearchByName ==
  ASSUME TypeOK, SearchInv, FindByName
  PROVE  SearchInv' /\ FindsFirst'
<1>1. /\ load' = load /\ Entries' = Entries /\ Entries \in Nat
      /\ \A r : Carries(r)' <=> Carries(r)
      /\ \A k : Record(k)' = Record(k)
  BY LoadConstant, Situation DEF Next
<1>2. /\ pc = "find" /\ rec = i + 1 /\ rec \in 1 .. Entries + 1
      /\ i \in Nat /\ (i = 0 \/ i < Entries) /\ \A k \in 1 .. i : ~Carries(Record(k))
  BY DEF FindByName, SearchInv, TypeOK
<1>3. IsWanted(module) <=> Carries(Record(rec))
  BY <1>2, WantedCarries DEF module
<1>4. CASE IsWanted(module)
  <2>1. pc' = "load" /\ rec' = rec
    BY <1>4 DEF FindByName
  <2>2. Entries > 0 => rec <= Entries
    BY <1>1, <1>2
  <2>3. module' = Record(rec)
    BY <1>1, <2>1 DEF module
  <2>4. \A k \in 1 .. rec - 1 : ~Carries(Record(k))
    BY <1>2
  <2>. QED
    BY <1>1, <1>2, <1>3, <1>4, <2>1, <2>2, <2>3, <2>4 DEF SearchInv, FindsFirst, Found
<1>5. CASE ~IsWanted(module)
  <2>1. \A k \in 1 .. i + 1 : ~Carries(Record(k))
    BY <1>2, <1>3, <1>5
  <2>2. /\ i' = i + 1 /\ rec' = IF i < Entries THEN rec + 1 ELSE rec
        /\ IF i + 1 < Entries THEN pc' = "find" ELSE pc' = "panic"
    BY <1>2, <1>5 DEF FindByName, NextRecord, panic
  <2>3. CASE i + 1 < Entries
    <3>1. pc' = "find" /\ rec' = i' + 1 /\ i' < Entries
      BY <1>1, <1>2, <2>2, <2>3
    <3>. QED
      BY <1>1, <2>1, <2>2, <3>1 DEF SearchInv, FindsFirst, Found
  <2>4. CASE ~(i + 1 < Entries)
    <3>1. pc' = "panic" /\ \A k \in 1 .. Entries : k \in 1 .. i + 1
      BY <1>1, <1>2, <2>2, <2>4
    <3>. QED
      BY <1>1, <2>1, <3>1 DEF SearchInv, FindsFirst, Found
  <2>. QED
    BY <2>3, <2>4
<1>. QED
  BY <1>4, <1>5

LEMMA SearchStep ==
  ASSUME TypeOK, SearchInv, FindsFirst, [Next]_vars
  PROVE  SearchInv' /\ FindsFirst'
<1>1. /\ load' = load /\ Entries' = Entries /\ Entries \in Nat
      /\ \A r : Carries(r)' <=> Carries(r)
      /\ \A k : Record(k)' = Record(k)
  BY LoadConstant, Situation
<1>3. CASE FindByName
  BY <1>3, SearchByName
<1>4. CASE CheckType
  <2>1. CASE module.type # ModuleType
    <3>1. pc = "load" /\ pc' = "panic"
      BY <1>4, <2>1 DEF CheckType, panic
    <3>2. Entries = 0
      BY <1>1, <2>1, <3>1 DEF FindsFirst, Found, Carries
    <3>. QED
      BY <1>1, <3>1, <3>2 DEF SearchInv, FindsFirst, Found
  <2>2. CASE module.type = ModuleType
    <3>1. pc = "load" /\ pc' = "request" /\ rec' = rec
      BY <1>4, <2>2 DEF CheckType
    <3>. QED
      BY <2>2, <3>1, RecordKept
  <2>. QED
    BY <2>1, <2>2
<1>5. CASE RequestPage
  <2>1. pc = "request" /\ rec' = rec /\ module.type = ModuleType
    BY <1>5 DEF RequestPage, SearchInv
  <2>2. CASE PageOf(addr) \in load.refused
    <3>1. pc' = "panic" /\ load.refused # {}
      BY <1>5, <2>2 DEF RequestPage, panic
    <3>. QED
      BY <1>1, <3>1 DEF SearchInv, FindsFirst, Found
  <2>3. CASE PageOf(addr) \notin load.refused
    <3>1. pc' = "request"
      BY <1>5, <2>3 DEF RequestPage
    <3>. QED
      BY <2>1, <3>1, RecordKept
  <2>. QED
    BY <2>2, <2>3
<1>6. CASE CheckHeader \/ LoadSegment \/ ReturnEntry \/ StartTask
  <2>1. /\ pc \in {"request", "segments", "start"} /\ rec' = rec
        /\ pc' \in {"segments", "start", "started", "wild"}
    BY <1>6 DEF CheckHeader, LoadSegment, ReturnEntry, StartTask
  <2>2. module.type = ModuleType
    BY <2>1 DEF SearchInv
  <2>. QED
    BY <2>1, <2>2, RecordKept
<1>7. CASE UNCHANGED vars
  <2>1. UNCHANGED <<pc, i, rec, load>> /\ module' = module
    BY <1>1, <1>7 DEF vars, module
  <2>. QED
    BY <1>1, <2>1 DEF SearchInv, FindsFirst, Found
<1>. QED
  BY <1>3, <1>4, <1>5, <1>6, <1>7 DEF Next

-----------------------------------------------------------------------------
(* Cells in order lie on pages in order. *)
LEMMA PagesInOrder ==
  ASSUME NEW P \in Nat, NEW q \in Nat, NEW r \in Nat,
         NEW s \in 0 .. P - 1, NEW t \in 0 .. P - 1, P * q + s <= P * r + t
  PROVE  q <= r
<1>1. ASSUME r < q PROVE FALSE
  <2>1. PICK k \in Nat : q = r + 1 + k
    <3>1. q - r - 1 \in Nat /\ q = r + 1 + (q - r - 1)
      BY <1>1
    <3>. QED
      BY <3>1
  <2>2. P * q = P * r + P + P * k /\ P * k \in Nat /\ P * r \in Nat
    BY <2>1
  <2>. QED
    BY <2>2
<1>. QED
  BY <1>1

LEMMA PageOfMonotone ==
  ASSUME NEW a \in Nat, NEW b \in Nat, a <= b
  PROVE  PageOf(a) <= PageOf(b)
<1>1. /\ a = PageSize * PageOf(a) + (a % PageSize) /\ PageOf(a) \in Nat
      /\ b = PageSize * PageOf(b) + (b % PageSize) /\ PageOf(b) \in Nat
      /\ a % PageSize \in 0 .. PageSize - 1 /\ b % PageSize \in 0 .. PageSize - 1
      /\ PageSize \in Nat
  BY PageTyped, LoadsAssumption
<1>. QED
  BY <1>1, PagesInOrder

(* Two cells of one page lie in the order of their offsets. *)
LEMMA OffsetsInOrder ==
  ASSUME NEW a \in Nat, NEW b \in Nat, PageOf(a) = PageOf(b), a < b
  PROVE  a % PageSize < b % PageSize
<1>. DEFINE P == PageSize
            q == PageOf(a)
            s == a % P
            t == b % P
<1>1. a = P * q + s /\ b = P * q + t /\ q \in Nat /\ P \in Nat /\ s \in Nat /\ t \in Nat
  BY PageTyped, LoadsAssumption
<1>2. s < t
  <2>. HIDE DEF P, q, s, t
  <2>1. P * q \in Nat
    BY <1>1
  <2>. QED
    BY <1>1, <2>1
<1>. QED
  BY <1>2

(* A page further on the offset is the same and the page is the next. *)
LEMMA PageAfterIsNext ==
  ASSUME NEW a \in Nat
  PROVE  /\ PageAfter(a) \in Nat /\ PageAfter(a) % PageSize = a % PageSize
         /\ PageOf(PageAfter(a)) = PageOf(a) + 1
<1>. DEFINE P == PageSize
            q == PageOf(a)
            s == a % P
            b == PageAfter(a)
            r == PageOf(b)
            t == b % P
<1>1. P \in Nat \ {0} /\ b = a + P /\ b \in Nat
  BY LoadsAssumption DEF PageAfter
<1>2. /\ a = P * q + s /\ q \in Nat /\ s \in 0 .. P - 1
      /\ b = P * r + t /\ r \in Nat /\ t \in 0 .. P - 1
  BY <1>1, PageTyped
<1>. HIDE DEF P, q, s, b, r, t
<1>3. P * (q + 1) = P * q + P /\ q + 1 \in Nat /\ P * q \in Nat /\ P * r \in Nat
  BY <1>1, <1>2
<1>4. P * (q + 1) + s = P * r + t
  BY <1>1, <1>2, <1>3
<1>5. q + 1 <= r /\ r <= q + 1
  <2>1. P * (q + 1) + s <= P * r + t /\ P * r + t <= P * (q + 1) + s
    BY <1>1, <1>2, <1>3, <1>4
  <2>2. q + 1 <= r
    BY <1>1, <1>2, <1>3, <2>1, PagesInOrder
  <2>3. r <= q + 1
    BY <1>1, <1>2, <1>3, <2>1, PagesInOrder
  <2>. QED
    BY <2>2, <2>3
<1>6. r = q + 1
  BY <1>2, <1>5
<1>7. t = s
  BY <1>1, <1>2, <1>3, <1>4, <1>6
<1>. QED
  BY <1>1, <1>6, <1>7 DEF b, r, q, t, s, P

LEMMA CellsBelow ==
  ASSUME NEW x \in Nat, NEW y \in Nat, NEW z \in x .. y - 1
  PROVE  z \in Nat /\ z < y
OBVIOUS

LEMMA RequestStep ==
  ASSUME TypeOK, SearchInv, RequestInv, ModuleRequested, [Next]_vars
  PROVE  RequestInv' /\ ModuleRequested'
<1>1. load' = load /\ module \in BootRecord /\ addr \in Nat
  BY LoadConstant, Situation DEF TypeOK
<1>2. module.start \in Nat /\ module.size \in Nat
  BY <1>1 DEF BootRecord
<1>3. CASE FindByName
  <2>1. pc' \in {"find", "load", "panic"}
    BY <1>3 DEF FindByName, panic
  <2>. QED
    BY <2>1 DEF RequestInv, ModuleRequested
<1>4. CASE CheckType
  <2>1. /\ pc' = "panic" \/ (pc' = "request" /\ addr' = module.start)
        /\ module' = module
    BY <1>1, <1>4 DEF CheckType, panic, module, Record, Entries
  <2>. QED
    BY <1>2, <2>1 DEF RequestInv, ModuleRequested
<1>5. CASE RequestPage /\ PageOf(addr) \in load.refused
  <2>1. pc' = "panic"
    BY <1>5 DEF RequestPage, panic
  <2>. QED
    BY <2>1 DEF RequestInv, ModuleRequested
<1>6. CASE RequestPage /\ PageOf(addr) \notin load.refused
  <2>1. /\ pc = "request" /\ pc' = "request" /\ got' = got \cup {PageOf(addr)}
        /\ addr' = PageAfter(addr) /\ addr >= module.start
        /\ addr % PageSize = module.start % PageSize
    BY <1>6 DEF RequestPage, RequestInv
  <2>2. module' = module
    BY <1>1, <1>6 DEF RequestPage, module, Record, Entries
  <2>3. /\ addr' \in Nat /\ addr' % PageSize = addr % PageSize
        /\ PageOf(addr') = PageOf(addr) + 1
    BY <1>1, <2>1, PageAfterIsNext
  <2>4. addr' >= module.start
    BY <1>1, <1>2, <2>1, LoadsAssumption DEF PageAfter
  <2>5. ASSUME NEW a \in module.start .. addr' - 1
        PROVE  PageOf(a) \in got' \/ PageOf(a) = PageOf(addr')
    <3>1. CASE a < addr
      <4>1. a \in module.start .. addr - 1
        BY <1>1, <1>2, <3>1
      <4>. QED
        BY <2>1, <4>1 DEF RequestInv
    <3>2. CASE ~(a < addr)
      <4>1. a \in Nat /\ addr <= a /\ a <= addr'
        <5>1. a \in Nat /\ a < addr'
          BY <1>2, <2>3, CellsBelow
        <5>. QED
          BY <1>1, <2>3, <3>2, <5>1
      <4>2. PageOf(addr) <= PageOf(a) /\ PageOf(a) <= PageOf(addr')
        BY <1>1, <2>3, <4>1, PageOfMonotone
      <4>3. PageOf(addr) \in Nat /\ PageOf(a) \in Nat
        BY <1>1, <4>1, PageTyped
      <4>. QED
        BY <2>1, <2>3, <4>2, <4>3
    <3>. QED
      BY <3>1, <3>2
  <2>6. RequestInv'
    BY <2>1, <2>2, <2>3, <2>4, <2>5 DEF RequestInv, PageOf
  <2>. QED
    BY <2>1, <2>6 DEF ModuleRequested
<1>7. CASE CheckHeader
  <2>1. /\ pc = "request" /\ pc' \in {"segments", "start"} /\ got' = got
        /\ addr >= module.start + module.size /\ module' = module
    BY <1>1, <1>7 DEF CheckHeader, module, Record, Entries
  <2>2. ASSUME NEW a \in module.start .. LastCell, PageOf(a) \notin got
        PROVE  /\ PageOf(a) = PageOf(LastCell)
               /\ LastCell % PageSize < module.start % PageSize
    <3>1. a \in module.start .. addr - 1 /\ a \in Nat /\ a <= LastCell
          /\ LastCell \in Nat /\ LastCell < addr
      BY <1>1, <1>2, <2>1 DEF LastCell
    <3>2. PageOf(a) = PageOf(addr) /\ addr % PageSize = module.start % PageSize
      BY <2>1, <2>2, <3>1 DEF RequestInv
    <3>3. PageOf(a) <= PageOf(LastCell) /\ PageOf(LastCell) <= PageOf(addr)
      BY <1>1, <3>1, PageOfMonotone
    <3>4. PageOf(a) \in Nat /\ PageOf(LastCell) \in Nat
      BY <3>1, PageTyped
    <3>5. PageOf(LastCell) = PageOf(a)
      BY <3>2, <3>3, <3>4
    <3>. QED
      BY <1>1, <3>1, <3>2, <3>5, OffsetsInOrder
  <2>3. RequestInv'
    BY <2>1 DEF RequestInv
  <2>4. ModuleRequested'
    BY <2>1, <2>2 DEF ModuleRequested, LastCell, PageOf
  <2>. QED
    BY <2>3, <2>4
<1>8. CASE LoadSegment \/ ReturnEntry \/ StartTask
  <2>1. /\ pc \in {"segments", "start"} /\ pc' \in {"segments", "start", "started", "wild"}
        /\ got' = got /\ module' = module
    BY <1>1, <1>8 DEF LoadSegment, ReturnEntry, StartTask, module, Record, Entries
  <2>. QED
    BY <2>1 DEF RequestInv, ModuleRequested, LastCell, PageOf
<1>9. CASE UNCHANGED vars
  <2>1. UNCHANGED <<pc, got, addr>> /\ module' = module
    BY <1>9 DEF vars, module, Record, Entries
  <2>. QED
    BY <2>1 DEF RequestInv, ModuleRequested, LastCell, PageOf
<1>. QED
  BY <1>3, <1>4, <1>5, <1>6, <1>7, <1>8, <1>9 DEF Next

-----------------------------------------------------------------------------
(* What an image should become does not change while it is loaded. *)
LEMMA ImageConstant ==
  ASSUME load' = load, rec' = rec
  PROVE  /\ (Placeable' <=> Placeable) /\ (IsExecutable(load.mem)' <=> IsExecutable(load.mem))
         /\ Field(load.mem, e_entry)' = Field(load.mem, e_entry)
         /\ Field(load.mem, e_phnum)' = Field(load.mem, e_phnum)
         /\ \A x : Image(x)' = Image(x)
         /\ \A n, x : Loaded(n, x)' = Loaded(n, x)
<1>1. hdr' = hdr
  BY DEF hdr, module, Record, Entries
<1>2. \A f : Field(load.mem, f)' = Field(load.mem, f)
  BY <1>1 DEF Field
<1>3. \A k, f : seg(k, f)' = seg(k, f)
  BY <1>1, <1>2 DEF seg, phdr
<1>4. Segment' = Segment /\ Loadable' = Loadable
  BY <1>2, <1>3 DEF Segment, Loadable
<1>5. /\ \A k : Target(k)' = Target(k) /\ Source(k)' = Source(k)
      /\ Headers' = Headers
  BY <1>1, <1>2, <1>3, <1>4 DEF Target, Source, Headers
<1>6. Placeable' <=> Placeable
  BY <1>1, <1>3, <1>4, <1>5 DEF Placeable, CopyFits, ClearFits, Fits
<1>7. \A x : Image(x)' = Image(x)
  BY <1>1, <1>3, <1>4, <1>5 DEF Image
<1>8. \A n, x : Loaded(n, x)' = Loaded(n, x)
  BY <1>4, <1>5, <1>7 DEF Loaded
<1>9. IsExecutable(load.mem)' <=> IsExecutable(load.mem)
  BY <1>2 DEF IsExecutable
<1>. QED
  BY <1>2, <1>6, <1>7, <1>8, <1>9

(* The cells of the headers are in the memory, *)
LEMMA HeaderCells ==
  ASSUME TypeOK, module.type = ModuleType, Placeable
  PROVE  /\ \A f \in 0 .. EhdrSize - 1 : hdr + f \in Headers
         /\ \A k \in Segment : /\ k \in Nat /\ InMemory(k)
                               /\ \A f \in 0 .. PhdrSize - 1 :
                                    hdr + Field(load.mem, e_phoff) + k * PhdrSize + f \in Headers
         /\ Headers \subseteq Addr
         /\ Segment = 0 .. Field(load.mem, e_phnum) - 1 /\ Field(load.mem, e_phnum) \in Nat
<1>1. /\ hdr \in Nat /\ Field(load.mem, e_phoff) \in Nat /\ Field(load.mem, e_phnum) \in Nat
  <2>1. hdr \in Nat /\ load.mem \in [Addr -> Char]
    BY Situation DEF Addr
  <2>2. \A f \in 0 .. EhdrSize - 1 : Field(load.mem, f) \in Nat
    BY <2>1, FieldTyped
  <2>. QED
    BY <2>1, <2>2, HeaderFields
<1>2. Cardinality(Segment) = Field(load.mem, e_phnum)
  <2>. DEFINE n == Field(load.mem, e_phnum)
  <2>1. Segment = 0 .. n - 1 /\ 0 \in Int /\ n - 1 \in Int
    BY <1>1 DEF Segment
  <2>2. Cardinality(0 .. n - 1) = IF 0 > n - 1 THEN 0 ELSE n - 1 - 0 + 1
    BY <2>1, FS_Interval
  <2>. QED
    BY <1>1, <2>1, <2>2
<1>3. \A f \in 0 .. EhdrSize - 1 : hdr + f \in Headers
  BY <1>1 DEF Headers, EhdrSize
<1>4. ASSUME NEW k \in Segment
      PROVE  /\ k \in Nat
             /\ \A f \in 0 .. PhdrSize - 1 :
                  hdr + Field(load.mem, e_phoff) + k * PhdrSize + f \in Headers
  <2>. DEFINE n == Field(load.mem, e_phnum)
              t == hdr + Field(load.mem, e_phoff)
  <2>1. k \in Nat /\ k <= n - 1 /\ n \in Nat /\ t \in Nat
    BY <1>1 DEF Segment
  <2>2. t .. t + Cardinality(Segment) * PhdrSize - 1 \subseteq Headers
    BY DEF Headers
  <2>3. Cardinality(Segment) = n
    BY <1>2
  <2>. HIDE DEF n, t
  <2>4. ASSUME NEW f \in 0 .. PhdrSize - 1
        PROVE  t + k * PhdrSize + f \in t .. t + n * PhdrSize - 1
    BY <2>1, <2>4 DEF PhdrSize
  <2>5. \A f \in 0 .. PhdrSize - 1 : t + k * PhdrSize + f \in Headers
    BY <2>2, <2>3, <2>4
  <2>. QED
    BY <2>1, <2>5 DEF t
<1>5. Headers \subseteq Addr
  BY DEF Placeable
<1>6. ASSUME NEW k \in Segment PROVE InMemory(k)
  <2>1. hdr + Field(load.mem, e_phoff) + k * PhdrSize + (PhdrSize - 1) \in Addr
    BY <1>4, <1>5 DEF PhdrSize
  <2>. QED
    BY <1>1, <1>4, <2>1, StdLibAssumption DEF InMemory, Addr, PhdrSize
<1>. QED
  BY <1>1, <1>3, <1>4, <1>5, <1>6 DEF Segment

(* and are read alike from every memory that agrees on them. *)
LEMMA HeadersRead ==
  ASSUME TypeOK, module.type = ModuleType, Placeable, NEW m,
         \A x \in Headers : m[x] = load.mem[x]
  PROVE  /\ \A f \in 0 .. EhdrSize - 1 : Field(m, f) = Field(load.mem, f)
         /\ \A k \in Segment : \A f \in 0 .. PhdrSize - 1 : phdr(m, k, f) = seg(k, f)
BY HeaderCells DEF Field, phdr, seg

(* The fields of a segment, and its parts. *)
LEMMA SegmentTyped ==
  ASSUME TypeOK, module.type = ModuleType, Placeable, NEW k \in Loadable
  PROVE  /\ k \in Segment
         /\ seg(k, p_offset) \in Nat /\ seg(k, p_vaddr) \in Nat \ {0}
         /\ seg(k, p_filesz) \in Nat /\ seg(k, p_memsz) \in Nat
         /\ seg(k, p_filesz) <= seg(k, p_memsz)
         /\ hdr \in Nat \ {0}
         /\ hdr + seg(k, p_offset) + seg(k, p_filesz) - 1 <= Size
         /\ seg(k, p_vaddr) + seg(k, p_memsz) - 1 <= Size
<1>1. k \in Segment /\ k \in Nat /\ InMemory(k) /\ load.mem \in [Addr -> Char]
  BY HeaderCells, Situation DEF Loadable
<1>2. /\ seg(k, p_offset) \in Nat /\ seg(k, p_vaddr) \in Nat
      /\ seg(k, p_filesz) \in Nat /\ seg(k, p_memsz) \in Nat
  BY <1>1, phdrTyped, SegmentFields DEF seg
<1>3. hdr \in Nat \ {0}
  BY Situation DEF Addr
<1>. QED
  BY <1>1, <1>2, <1>3 DEF Placeable, CopyFits, ClearFits, Fits

(* Where it is to go, the image is the file part and zeros behind it. *)
LEMMA ImageInTarget ==
  ASSUME Placeable, NEW k \in Loadable, NEW x \in Target(k)
  PROVE  Image(x) = IF x - seg(k, p_vaddr) < seg(k, p_filesz)
                    THEN load.mem[hdr + seg(k, p_offset) + (x - seg(k, p_vaddr))] ELSE 0
<1>1. \A j \in Loadable : x \in Target(j) => j = k
  BY DEF Placeable
<1>2. (CHOOSE j \in Loadable : x \in Target(j)) = k
  BY <1>1
<1>. QED
  BY <1>2 DEF Image

(* The segments loaded so far have spared the headers, *)
LEMMA HeadersSpared ==
  ASSUME Placeable, NEW m, NEW n, \A x \in Addr : m[x] = Loaded(n, x)
  PROVE  \A x \in Headers : m[x] = load.mem[x]
<1>1. ASSUME NEW x \in Headers PROVE m[x] = load.mem[x]
  <2>1. x \in Addr /\ \A k \in Loadable : x \notin Target(k)
    BY DEF Placeable
  <2>. QED
    BY <2>1 DEF Loaded
<1>. QED
  BY <1>1

(* and the file part of the segment that is next.                          *)
LEMMA SourceSpared ==
  ASSUME TypeOK, module.type = ModuleType, Placeable, NEW n \in Loadable,
         NEW m, \A x \in Addr : m[x] = Loaded(n, x)
  PROVE  \A x \in Source(n) : m[x] = load.mem[x]
<1>1. \A k \in Loadable : k \in Int
  BY SegmentTyped, HeaderCells
<1>2. Source(n) \subseteq Addr
  BY SegmentTyped, StdLibAssumption DEF Source, Addr
<1>3. ASSUME NEW x \in Source(n) PROVE m[x] = load.mem[x]
  <2>1. \A k \in Loadable : k < n => x \notin Target(k)
    BY <1>1 DEF Placeable
  <2>. QED
    BY <1>2, <2>1 DEF Loaded
<1>. QED
  BY <1>3

(* The next segment's memory: copied from the file part, *)
LEMMA SegmentCopied ==
  ASSUME TypeOK, module.type = ModuleType, Placeable, i \in Loadable,
         \A x \in Addr : mem[x] = Loaded(i, x)
  PROVE  /\ CopyFits(hdr + phdr(mem, i, p_offset), phdr(mem, i, p_vaddr), phdr(mem, i, p_filesz))
         /\ phdr(mem, i, p_vaddr) = seg(i, p_vaddr)
         /\ FileCopied(mem, i) \in [Addr -> Char]
         /\ \A x \in Addr : x \notin seg(i, p_vaddr) .. seg(i, p_vaddr) + seg(i, p_filesz) - 1 =>
              FileCopied(mem, i)[x] = Loaded(i, x)
         /\ \A j \in 0 .. seg(i, p_filesz) - 1 :
              FileCopied(mem, i)[seg(i, p_vaddr) + j] = load.mem[hdr + seg(i, p_offset) + j]
<1>. DEFINE a == seg(i, p_vaddr)
            s == hdr + seg(i, p_offset)
            n == seg(i, p_filesz)
<1>1. i \in Segment /\ \A x \in Headers : mem[x] = load.mem[x]
  BY HeadersSpared, SegmentTyped
<1>2. \A f \in 0 .. PhdrSize - 1 : phdr(mem, i, f) = seg(i, f)
  BY <1>1, HeadersRead
<1>3. phdr(mem, i, p_offset) = seg(i, p_offset) /\ phdr(mem, i, p_vaddr) = a
      /\ phdr(mem, i, p_filesz) = n
  BY <1>2, SegmentFields
<1>4. /\ a \in Nat \ {0} /\ s \in Nat \ {0} /\ n \in Nat
      /\ s + n - 1 <= Size /\ a + n - 1 <= Size
      /\ n <= seg(i, p_memsz) /\ seg(i, p_memsz) \in Nat
  BY SegmentTyped, StdLibAssumption
<1>5. CopyFits(s, a, n)
  BY DEF Placeable
<1>6. NotInside(a, s, n)
  <2>1. a <= s \/ Target(i) \cap Source(i) = {}
    BY DEF Placeable
  <2>2. a .. a + n - 1 \subseteq Target(i) /\ s .. s + n - 1 = Source(i)
    BY <1>4 DEF Target, Source
  <2>. QED
    BY <2>1, <2>2 DEF NotInside
<1>7. FileCopied(mem, i) = memcpy(mem, a, s, n) /\ mem \in [Addr -> Char]
  BY <1>3 DEF FileCopied, TypeOK
<1>8. \A x \in Source(i) : mem[x] = load.mem[x]
  BY SourceSpared
<1>9. \A j \in 0 .. n - 1 : s + j \in Source(i)
  BY <1>4 DEF Source
<1>. HIDE DEF a, s, n
<1>10. /\ FileCopied(mem, i) \in [Addr -> Char]
       /\ \A x \in Addr : x \notin a .. a + n - 1 => FileCopied(mem, i)[x] = mem[x]
       /\ \A j \in 0 .. n - 1 : FileCopied(mem, i)[a + j] = mem[s + j]
  <2>1. /\ memcpy(mem, a, s, n) \in [Addr -> Char]
        /\ Spared(memcpy(mem, a, s, n), mem, a, n)
        /\ Arrived(memcpy(mem, a, s, n), mem, a, s, n)
    BY <1>4, <1>6, <1>7, MemcpyCopies
  <2>. QED
    BY <1>7, <2>1 DEF Spared, Arrived, TypeOK
<1>11. \A x \in Addr : x \notin a .. a + n - 1 => FileCopied(mem, i)[x] = Loaded(i, x)
  BY <1>10
<1>12. \A j \in 0 .. n - 1 : FileCopied(mem, i)[a + j] = load.mem[s + j]
  BY <1>8, <1>9, <1>10
<1>. QED
  BY <1>3, <1>5, <1>10, <1>11, <1>12 DEF a, s, n

(* then cleared behind it; the sizes read after the copy are those of the  *)
(* header, and nothing else changes.                                       *)
LEMMA SegmentLoaded ==
  ASSUME TypeOK, module.type = ModuleType, Placeable, i \in Loadable,
         \A x \in Addr : mem[x] = Loaded(i, x)
  PROVE  /\ ClearFits(phdr(mem, i, p_vaddr), phdr(FileCopied(mem, i), i, p_filesz),
                      phdr(FileCopied(mem, i), i, p_memsz))
         /\ \A x \in Addr :
              Cleared(FileCopied(mem, i), i, phdr(mem, i, p_vaddr))[x] = Loaded(i + 1, x)
<1>. DEFINE a == seg(i, p_vaddr)
            s == hdr + seg(i, p_offset)
            n == seg(i, p_filesz)
            z == seg(i, p_memsz)
            c == FileCopied(mem, i)
<1>1. /\ i \in Segment /\ a \in Nat \ {0} /\ n \in Nat /\ z \in Nat /\ n <= z
      /\ a + z - 1 <= Size
  BY SegmentTyped
<1>2. /\ phdr(mem, i, p_vaddr) = a /\ c \in [Addr -> Char]
      /\ \A x \in Addr : x \notin a .. a + n - 1 => c[x] = Loaded(i, x)
      /\ \A j \in 0 .. n - 1 : c[a + j] = load.mem[s + j]
  BY SegmentCopied
<1>3. \A x \in Headers : c[x] = load.mem[x]
  <2>1. ASSUME NEW x \in Headers PROVE c[x] = load.mem[x]
    <3>1. x \in Addr /\ \A k \in Loadable : x \notin Target(k)
      BY DEF Placeable
    <3>2. x \notin a .. a + n - 1
      BY <1>1, <3>1 DEF Target
    <3>. QED
      BY <1>2, <3>1, <3>2 DEF Loaded
  <2>. QED
    BY <2>1
<1>4. phdr(c, i, p_filesz) = n /\ phdr(c, i, p_memsz) = z
  BY <1>1, <1>3, HeadersRead, SegmentFields
<1>5. ClearFits(a, n, z)
  BY DEF Placeable
<1>6. Cleared(c, i, a) = memset(c, a + n, 0, z - n)
  BY <1>4 DEF Cleared
<1>7. Target(i) = a .. a + z - 1
  BY DEF Target
<1>8. \A x \in Target(i) : Image(x) = IF x - a < n THEN load.mem[s + (x - a)] ELSE 0
  BY ImageInTarget
<1>9. \A k \in Loadable : k \in Nat
  BY SegmentTyped, HeaderCells
<1>10. ASSUME NEW x \in Target(i) PROVE Loaded(i + 1, x) = Image(x)
  BY <1>9 DEF Loaded
<1>11. ASSUME NEW x, x \notin Target(i) PROVE Loaded(i + 1, x) = Loaded(i, x)
  <2>1. \A k \in Loadable : k < i + 1 /\ x \in Target(k) <=> k < i /\ x \in Target(k)
    BY <1>9, <1>11
  <2>. QED
    BY <2>1 DEF Loaded
<1>. HIDE DEF a, s, n, z, c
<1>12. \A x \in Addr : Cleared(c, i, a)[x] = IF x \in a + n .. a + n + (z - n) - 1 THEN 0 ELSE c[x]
  BY <1>1, <1>2, <1>6, MemsetSets, StdLibAssumption
<1>13. ASSUME NEW x \in Addr PROVE Cleared(c, i, a)[x] = Loaded(i + 1, x)
  <2>0. x \in Int
    BY DEF Addr
  <2>1. CASE x \in a .. a + n - 1
    <3>1. x \in Target(i) /\ x \notin a + n .. a + n + (z - n) - 1 /\ x - a < n
          /\ x - a \in 0 .. n - 1 /\ x = a + (x - a)
      BY <1>1, <1>7, <2>0, <2>1
    <3>2. c[x] = load.mem[s + (x - a)]
      BY <1>2, <3>1
    <3>. QED
      BY <1>8, <1>10, <1>12, <3>1, <3>2
  <2>2. CASE x \in a + n .. a + z - 1
    <3>1. x \in Target(i) /\ x \in a + n .. a + n + (z - n) - 1 /\ ~(x - a < n)
      BY <1>1, <1>7, <2>0, <2>2
    <3>. QED
      BY <1>8, <1>10, <1>12, <3>1
  <2>3. CASE x \notin a .. a + z - 1
    <3>1. x \notin Target(i) /\ x \notin a + n .. a + n + (z - n) - 1 /\ x \notin a .. a + n - 1
      BY <1>1, <1>7, <2>0, <2>3
    <3>. QED
      BY <1>2, <1>11, <1>12, <3>1
  <2>. QED
    BY <1>1, <2>0, <2>1, <2>2, <2>3
<1>. QED
  BY <1>2, <1>4, <1>5, <1>13 DEF a, n, z, c

(* Loading goes on as the headers say. *)
LEMMA LoadTurn ==
  ASSUME TypeOK, SearchInv, LoadInv, LoadSegment
  PROVE  LoadInv'
<1>1. /\ pc = "segments" /\ i < Field(mem, e_phnum) /\ ip' = NULL
      /\ load' = load /\ rec' = rec /\ pc' \in {"segments", "wild"}
      /\ module.type = ModuleType /\ IsExecutable(load.mem)
      /\ IsExecutable(load.mem)'
  <2>1. /\ pc = "segments" /\ i < Field(mem, e_phnum) /\ UNCHANGED <<load, rec, ip>>
        /\ pc' \in {"segments", "wild"}
    BY SegmentSteps
  <2>2. module.type = ModuleType /\ IsExecutable(load.mem) /\ ip = NULL
    BY <2>1 DEF SearchInv, LoadInv
  <2>. QED
    BY <2>1, <2>2, ImageConstant
<1>2. ASSUME Placeable
      PROVE  pc' = "segments" /\ i' <= Field(load.mem, e_phnum)
             /\ \A x \in Addr : mem'[x] = Loaded(i', x)
  <2>1. i <= Field(load.mem, e_phnum) /\ \A x \in Addr : mem[x] = Loaded(i, x)
    BY <1>1, <1>2 DEF LoadInv
  <2>2. \A x \in Headers : mem[x] = load.mem[x]
    BY <1>2, <2>1, HeadersSpared
  <2>3. /\ \A f \in 0 .. EhdrSize - 1 : Field(mem, f) = Field(load.mem, f)
        /\ \A k \in Segment : \A f \in 0 .. PhdrSize - 1 : phdr(mem, k, f) = seg(k, f)
    BY <1>1, <1>2, <2>2, HeadersRead
  <2>4. i \in Nat /\ Field(load.mem, e_phnum) \in Nat /\ i + 1 <= Field(load.mem, e_phnum)
        /\ i \in Segment /\ InMemory(i)
    <3>1. Field(mem, e_phnum) = Field(load.mem, e_phnum)
      BY <2>3, HeaderFields
    <3>2. i \in Nat /\ Field(load.mem, e_phnum) \in Nat
          /\ Segment = 0 .. Field(load.mem, e_phnum) - 1
      BY <1>1, <1>2, HeaderCells DEF TypeOK
    <3>3. i + 1 <= Field(load.mem, e_phnum) /\ i \in Segment
      BY <1>1, <3>1, <3>2
    <3>. QED
      BY <1>1, <1>2, <3>2, <3>3, HeaderCells
  <2>5. phdr(mem, i, p_type) = seg(i, p_type)
    BY <2>3, <2>4, SegmentFields
  <2>6. CASE seg(i, p_type) # PT_LOAD
    <3>1. i' = i + 1 /\ mem' = mem /\ pc' = "segments"
      BY <1>1, <2>4, <2>5, <2>6, SegmentSteps
    <3>2. \A k \in Loadable : k \in Int /\ k # i
      BY <2>4, <2>6 DEF Loadable, Segment
    <3>3. \A x \in Addr : Loaded(i + 1, x) = Loaded(i, x)
      <4>1. \A k \in Loadable : k < i + 1 <=> k < i
        BY <2>4, <3>2
      <4>. QED
        BY <4>1 DEF Loaded
    <3>. QED
      BY <2>1, <2>4, <3>1, <3>3
  <2>7. CASE seg(i, p_type) = PT_LOAD
    <3>1. i \in Loadable
      BY <2>4, <2>7 DEF Loadable
    <3>2. /\ CopyFits(hdr + phdr(mem, i, p_offset), phdr(mem, i, p_vaddr), phdr(mem, i, p_filesz))
          /\ ClearFits(phdr(mem, i, p_vaddr), phdr(FileCopied(mem, i), i, p_filesz),
                       phdr(FileCopied(mem, i), i, p_memsz))
      BY <1>1, <1>2, <2>1, <3>1, SegmentCopied, SegmentLoaded
    <3>3. /\ mem' = Cleared(FileCopied(mem, i), i, phdr(mem, i, p_vaddr))
          /\ i' = i + 1 /\ pc' = "segments"
      BY <1>1, <2>4, <2>5, <2>7, <3>2, SegmentSteps
    <3>4. \A x \in Addr :
            Cleared(FileCopied(mem, i), i, phdr(mem, i, p_vaddr))[x] = Loaded(i + 1, x)
      BY <1>1, <1>2, <2>1, <3>1, SegmentLoaded
    <3>. QED
      BY <2>4, <3>3, <3>4
  <2>. QED
    BY <2>6, <2>7
<1>3. Placeable' <=> Placeable
  BY <1>1, ImageConstant
<1>4. Placeable => /\ pc' = "segments" /\ i' <= Field(load.mem, e_phnum)'
                   /\ \A x \in Addr : mem'[x] = Loaded(i', x)
  BY <1>1, <1>2, ImageConstant
<1>5. \A x : Loaded(i, x)' = Loaded(i', x)
  BY <1>1, ImageConstant
<1>. QED
  BY <1>1, <1>3, <1>4, <1>5 DEF LoadInv

LEMMA LoadStep ==
  ASSUME TypeOK, SearchInv, LoadInv, [Next]_vars
  PROVE  LoadInv'
<1>1. load' = load
  BY LoadConstant
<1>2. CASE FindByName \/ CheckType \/ RequestPage
  <2>1. /\ pc \in {"find", "load", "request"} /\ mem' = mem /\ ip' = ip
        /\ pc' \in {"find", "load", "request", "panic"}
    BY <1>2 DEF FindByName, CheckType, RequestPage, panic
  <2>2. mem' = load.mem /\ ip' = NULL
    BY <2>1 DEF LoadInv
  <2>. QED
    BY <1>1, <2>1, <2>2 DEF LoadInv
<1>3. CASE CheckHeader
  <2>1. /\ pc = "request" /\ mem' = mem /\ ip' = ip /\ rec' = rec /\ i' = 0
        /\ pc' = IF IsExecutable(mem) THEN "segments" ELSE "start"
    BY <1>3 DEF CheckHeader
  <2>2. mem = load.mem /\ ip = NULL /\ module.type = ModuleType
    BY <2>1 DEF LoadInv, SearchInv
  <2>3. /\ (Placeable' <=> Placeable) /\ (IsExecutable(load.mem)' <=> IsExecutable(load.mem))
        /\ Field(load.mem, e_phnum)' = Field(load.mem, e_phnum)
        /\ \A x : Loaded(i, x)' = Loaded(0, x)
    BY <1>1, <2>1, ImageConstant
  <2>4. CASE ~IsExecutable(load.mem)
    BY <1>1, <2>1, <2>2, <2>3, <2>4 DEF LoadInv
  <2>5. CASE IsExecutable(load.mem)
    <3>1. pc' = "segments"
      BY <2>1, <2>2, <2>5
    <3>2. 0 <= Field(load.mem, e_phnum)
      BY <2>2, FieldTyped, HeaderFields, Situation
    <3>3. ASSUME Placeable, NEW x \in Addr PROVE Loaded(0, x) = load.mem[x]
      <4>1. \A k \in Loadable : k \in Nat /\ ~(k < 0)
        BY <2>2, <3>3, SegmentTyped, HeaderCells
      <4>. QED
        BY <4>1 DEF Loaded
    <3>. QED
      BY <1>1, <2>1, <2>2, <2>3, <2>5, <3>1, <3>2, <3>3 DEF LoadInv
  <2>. QED
    BY <2>4, <2>5
<1>4. CASE LoadSegment
  BY <1>4, LoadTurn
<1>5. CASE ReturnEntry
  <2>1. /\ pc = "segments" /\ i >= Field(mem, e_phnum) /\ ip' = Field(mem, e_entry)
        /\ pc' = "start" /\ mem' = mem /\ rec' = rec
        /\ module.type = ModuleType /\ IsExecutable(load.mem)
    BY <1>5 DEF ReturnEntry, SearchInv, LoadInv
  <2>2. /\ (Placeable' <=> Placeable) /\ (IsExecutable(load.mem)' <=> IsExecutable(load.mem))
        /\ Field(load.mem, e_entry)' = Field(load.mem, e_entry)
        /\ \A x : Image(x)' = Image(x)
    BY <1>1, <2>1, ImageConstant
  <2>3. ASSUME Placeable
        PROVE  Field(mem, e_entry) = Field(load.mem, e_entry)
               /\ \A x \in Addr : mem[x] = Image(x)
    <3>1. i <= Field(load.mem, e_phnum) /\ \A x \in Addr : mem[x] = Loaded(i, x)
      BY <2>1, <2>3 DEF LoadInv
    <3>2. \A f \in 0 .. EhdrSize - 1 : Field(mem, f) = Field(load.mem, f)
      BY <2>1, <2>3, <3>1, HeadersSpared, HeadersRead
    <3>3. Field(mem, e_entry) = Field(load.mem, e_entry)
          /\ Field(mem, e_phnum) = Field(load.mem, e_phnum)
      BY <3>2, HeaderFields
    <3>4. i = Field(load.mem, e_phnum) /\ i \in Nat
          /\ Segment = 0 .. Field(load.mem, e_phnum) - 1
      BY <2>1, <2>3, <3>1, <3>3, HeaderCells DEF TypeOK
    <3>5. \A k \in Loadable : k < i
      BY <3>4 DEF Loadable
    <3>6. \A x \in Addr : Loaded(i, x) = Image(x)
      BY <3>5 DEF Loaded, Image
    <3>. QED
      BY <3>1, <3>3, <3>6
  <2>. QED
    BY <1>1, <2>1, <2>2, <2>3 DEF LoadInv
<1>6. CASE StartTask
  <2>1. pc = "start" /\ pc' = "started" /\ UNCHANGED <<load, mem, i, rec, addr, got, ip>>
    BY <1>6 DEF StartTask
  <2>2. /\ (Placeable' <=> Placeable) /\ (IsExecutable(load.mem)' <=> IsExecutable(load.mem))
        /\ Field(load.mem, e_entry)' = Field(load.mem, e_entry)
        /\ \A x : Image(x)' = Image(x)
    BY <2>1, ImageConstant
  <2>. QED
    BY <2>1, <2>2 DEF LoadInv
<1>7. CASE UNCHANGED vars
  <2>1. UNCHANGED <<load, mem, pc, i, rec, ip>>
    BY <1>7 DEF vars
  <2>2. /\ (Placeable' <=> Placeable) /\ (IsExecutable(load.mem)' <=> IsExecutable(load.mem))
        /\ Field(load.mem, e_entry)' = Field(load.mem, e_entry)
        /\ Field(load.mem, e_phnum)' = Field(load.mem, e_phnum)
        /\ \A x : Image(x)' = Image(x)
        /\ \A n, x : Loaded(n, x)' = Loaded(n, x)
    BY <2>1, ImageConstant
  <2>3. \A x : Loaded(i, x)' = Loaded(i, x)
    BY <2>1, <2>2
  <2>. QED
    BY <2>1, <2>2, <2>3 DEF LoadInv
<1>. QED
  BY <1>2, <1>3, <1>4, <1>5, <1>6, <1>7 DEF Next

-----------------------------------------------------------------------------
LEMMA LoaderInit ==
  ASSUME Init
  PROVE  LoaderInv
<1>1. load \in Loads /\ load.entries \in Seq(BootRecord) /\ load.mem \in [Addr -> Char]
  BY LoadsAssumption DEF Init
<1>2. Entries \in Nat
  BY <1>1 DEF Entries
<1>3. TypeOK
  BY <1>1, <1>2, StdLibAssumption DEF Init, TypeOK, NULL
<1>4. SearchInv /\ FindsFirst /\ RequestInv /\ ModuleRequested /\ LoadInv
  BY <1>2 DEF Init, SearchInv, FindsFirst, Found, RequestInv, ModuleRequested, LoadInv
<1>. QED
  BY <1>3, <1>4 DEF LoaderInv

(* The inductive invariant of the search and of the loading: what the      *)
(* loops of root/main.cc have done so far.                                 *)
THEOREM LoaderInvariant == Spec => []LoaderInv
<1>1. Init => LoaderInv
  BY LoaderInit
<1>2. LoaderInv /\ [Next]_vars => LoaderInv'
  BY TypeStep, SearchStep, RequestStep, LoadStep DEF LoaderInv
<1>. QED
  BY <1>1, <1>2, PTL DEF Spec

(* Every variable has its type: no load writes outside the memory unless   *)
(* it is counted as wild, and what it writes are characters.               *)
THEOREM TypeCorrect == Spec => []TypeOK
<1>1. LoaderInv => TypeOK
  BY DEF LoaderInv
<1>. QED
  BY <1>1, LoaderInvariant, PTL

(* find_module_byname finds the first module whose command line begins     *)
(* with the name and gives up only if there is none: for every bootinfo    *)
(* and every name.                                                         *)
THEOREM FindsFirstModule == Spec => []FindsFirst
<1>1. LoaderInv => FindsFirst
  BY DEF LoaderInv
<1>. QED
  BY <1>1, LoaderInvariant, PTL

(* Every page of a module is requested before load_elfimage looks at it,   *)
(* but for a last page in which it ends at a smaller offset than it starts *)
(* at in its first: for every page size, start and size.                   *)
THEOREM WholeModuleRequested == Spec => []ModuleRequested
<1>1. LoaderInv => ModuleRequested
  BY DEF LoaderInv
<1>. QED
  BY <1>1, LoaderInvariant, PTL

(* load_elfimage leaves a module alone that is no executable, and loads    *)
(* every image that can be placed cell for cell as its headers say: for    *)
(* every memory and any number of segments of any size.                    *)
THEOREM ImageIsLoaded == Spec => []LoadsImage
<1>1. LoaderInv => LoadsImage
  BY DEF LoaderInv, LoadInv, LoadsImage
<1>. QED
  BY <1>1, LoaderInvariant, PTL

(* No loop of find_module_byname and load_elfimage goes on for ever: every *)
(* step uses up a turn or leaves its loop for a later stage, for every     *)
(* bootinfo, module and memory.                                            *)
THEOREM LoopsCountDown == Spec => GetsNearer
<1>. DEFINE Nearer == \/ Stage' < Stage
                      \/ Stage' = Stage /\ TurnsLeft > 0 /\ TurnsLeft' < TurnsLeft
<1>1. ASSUME LoaderInv, Next PROVE Nearer
  <2>1. /\ TypeOK /\ SearchInv /\ RequestInv /\ i \in Nat /\ addr \in Nat
        /\ Entries \in Nat /\ load.mem \in [Addr -> Char] /\ module \in BootRecord
    BY <1>1, Situation DEF LoaderInv, TypeOK
  <2>3. CASE FindByName
    <3>1. CASE pc' # "find"
      BY <2>3, <3>1 DEF FindByName, Stage, panic
    <3>2. CASE pc' = "find"
      <4>1. i' = i + 1 /\ pc = "find" /\ Entries' = Entries
        BY <2>3, <3>2 DEF FindByName, Entries
      <4>2. i = 0 \/ i < Entries
        BY <2>1, <4>1 DEF SearchInv
      <4>. QED
        BY <2>1, <3>2, <4>1, <4>2 DEF Stage, TurnsLeft
    <3>. QED
      BY <3>1, <3>2
  <2>4. CASE CheckType
    BY <2>4 DEF CheckType, Stage, panic
  <2>5. CASE RequestPage
    <3>1. CASE pc' = "panic"
      BY <2>5, <3>1 DEF RequestPage, Stage
    <3>2. CASE pc' = pc /\ addr' = addr + PageSize
      <4>1. module' = module /\ module.start \in Nat /\ module.size \in Nat
        <5>1. module' = module
          BY <2>5 DEF RequestPage, module, Record, Entries
        <5>. QED
          BY <2>1, <5>1 DEF BootRecord
      <4>. QED
        BY <2>1, <2>5, <3>2, <4>1, LoadsAssumption DEF RequestPage, Stage, TurnsLeft
    <3>. QED
      BY <2>5, <3>1, <3>2 DEF RequestPage, PageAfter, panic
  <2>6. CASE CheckHeader
    BY <2>6 DEF CheckHeader, Stage
  <2>7. CASE LoadSegment
    <3>1. CASE pc' = "wild"
      BY <2>7, <3>1 DEF LoadSegment, Stage
    <3>2. CASE pc' = pc /\ i' = i + 1 /\ InMemory(i)
      <4>1. pc = "segments"
        BY <2>7 DEF LoadSegment
      <4>2. hdr \in Addr /\ hdr + e_phoff \in Addr
        <5>1. module.type = ModuleType
          BY <2>1, <4>1 DEF SearchInv
        <5>2. hdr \in Addr /\ hdr + EhdrSize - 1 \in Addr
          BY <2>1, <5>1, Situation
        <5>. QED
          BY <5>2, StdLibAssumption DEF e_phoff, EhdrSize, Addr
      <4>3. Field(load.mem, e_phoff) \in Nat
        BY <2>1, <4>2, LoadsAssumption DEF Field
      <4>4. i < Size
        BY <2>1, <3>2, <4>2, <4>3, StdLibAssumption DEF InMemory, PhdrSize, Addr
      <4>. QED
        BY <2>1, <3>2, <4>1, <4>4, StdLibAssumption DEF Stage, TurnsLeft
    <3>. QED
      BY <2>7, <3>1, <3>2 DEF LoadSegment, NextSegment
  <2>8. CASE ReturnEntry
    BY <2>8 DEF ReturnEntry, Stage
  <2>9. CASE StartTask
    BY <2>9 DEF StartTask, Stage
  <2>. QED
    BY <1>1, <2>3, <2>4, <2>5, <2>6, <2>7, <2>8, <2>9 DEF Next
<1>2. LoaderInv /\ [Next]_vars => [Nearer]_vars
  BY <1>1
<1>. QED
  BY <1>2, LoaderInvariant, PTL DEF Spec, GetsNearer
=============================================================================
