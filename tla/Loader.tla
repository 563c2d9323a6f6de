------------------------------- MODULE Loader -------------------------------
(***************************************************************************)
(* How the root task finds a module in the bootinfo and loads the image in *)
(* it (src/root/main.cc), cell by cell: module Boot tells pages apart, this *)
(* one the fields of the ELF headers (include/elf.h) and the bytes.  A     *)
(* field of a header is one cell of the memory, which the loop over the    *)
(* segments both reads and writes.                                         *)
(***************************************************************************)
EXTENDS StdLib, Sequences, SequencesExt

CONSTANTS
  PageSize,    \* Cells of a page.
  Letter,      \* Characters of a command line.
  Loads        \* What there is to find and load: [mem, entries, beyond,
               \* wanted, refused], the memory GRUB left, the bootinfo's
               \* records [type, cmdline, start, size], what lies behind the
               \* last of them, the name asked for, and the pages sigma0
               \* will not give.

ModuleType == 1    \* L4_BootInfo_Module

VARIABLES
  load,    \* The situation: constant after Init.
  mem,     \* The memory.
  pc,      \* Root's place.
  i,       \* The loop counter of find_module_byname and load_elfimage.
  rec,     \* The record bootrec points to.
  addr,    \* The address whose page is requested next.
  got,     \* Pages requested from sigma0.
  ip       \* What load_elfimage returned, where the task is started.

vars == <<load, mem, pc, i, rec, addr, got, ip>>

-----------------------------------------------------------------------------
(* Elf32_Ehdr, the fields that are looked at and where they are. *)
e_ident == 0
e_type == 1
e_machine == 2
e_version == 3
e_entry == 4
e_phoff == 5
e_flags == 6
e_phnum == 7
EhdrSize == 8

ELFMAG == 127
ET_EXEC == 2
EM_386 == 3
EV_CURRENT == 1

(* Elf32_Phdr *)
p_type == 0
p_offset == 1
p_vaddr == 2
p_filesz == 3
p_memsz == 4
PhdrSize == 5

PT_LOAD == 1

(* The fields are unsigned, and the header of what claims to be a module   *)
(* is in the memory.                                                       *)
BootRecord == [type : Nat, cmdline : Seq(Letter), start : Nat, size : Nat]

ASSUME LoadsAssumption ==
  /\ PageSize \in Nat \ {0} /\ Char \subseteq Nat
  /\ \A x \in Loads :
       /\ x.mem \in [Addr -> Char]
       /\ x.entries \in Seq(BootRecord) /\ x.beyond \in BootRecord
       /\ x.wanted \in Seq(Letter)
       /\ \A r \in Range(x.entries) \cup {x.beyond} :
            r.type = ModuleType => r.start \in Addr /\ r.start + EhdrSize - 1 \in Addr

-----------------------------------------------------------------------------
Entries == Len(load.entries)

(* L4_Next goes from record to record, also behind the last one.           *)
Record(k) == IF k <= Entries THEN load.entries[k] ELSE load.beyond

module == Record(rec)
hdr == module.start
Field(m, f) == m[hdr + f]
PageOf(a) == a \div PageSize

Init ==
  /\ load \in Loads
  /\ mem = load.mem
  /\ pc = "find" /\ i = 0 /\ rec = 1 /\ addr = 0 /\ got = {} /\ ip = NULL

panic == pc' = "panic"

(* Faulty variant: the step is taken behind the last record, too. *)
NextRecordAlways == rec + 1

NextRecord == IF i < Entries THEN rec + 1 ELSE rec

(* Faulty variant: the name may begin with the command line. *)
IsWantedEither(r) ==
  /\ r.type = ModuleType
  /\ IsPrefix(load.wanted, r.cmdline) \/ IsPrefix(r.cmdline, load.wanted)

IsWanted(r) == r.type = ModuleType /\ IsPrefix(load.wanted, r.cmdline)

(* find_module_byname, one turn of its do loop                             *)
FindByName ==
  /\ pc = "find"
  /\ IF IsWanted(module)
     THEN pc' = "load" /\ UNCHANGED <<i, rec>>
     ELSE /\ rec' = NextRecord
          /\ i' = i + 1
          /\ IF i + 1 < Entries THEN UNCHANGED pc ELSE panic
  /\ UNCHANGED <<load, mem, addr, got, ip>>

(* load_elfimage: no other type is loaded; *)
CheckType ==
  /\ pc = "load"
  /\ IF module.type # ModuleType
     THEN panic /\ UNCHANGED addr
     ELSE pc' = "request" /\ addr' = module.start
  /\ UNCHANGED <<load, mem, i, rec, got, ip>>

(* Faulty variant: the step is two pages. *)
EverySecondPage(a) == a + 2 * PageSize

PageAfter(a) == a + PageSize

(* request_page for every address a page apart; *)
RequestPage ==
  /\ pc = "request" /\ addr < module.start + module.size
  /\ IF PageOf(addr) \in load.refused
     THEN panic /\ UNCHANGED <<addr, got>>
     ELSE /\ got' = got \cup {PageOf(addr)}
          /\ addr' = PageAfter(addr)
          /\ UNCHANGED pc
  /\ UNCHANGED <<load, mem, i, rec, ip>>

(* a header that is not of an i386 executable returns NULL; *)
IsExecutable(m) ==
  /\ Field(m, e_ident) = ELFMAG
  /\ Field(m, e_type) = ET_EXEC
  /\ Field(m, e_machine) = EM_386
  /\ Field(m, e_version) = EV_CURRENT
  /\ Field(m, e_flags) = 0
  /\ Field(m, e_phnum) > 0

CheckHeader ==
  /\ pc = "request" /\ addr >= module.start + module.size
  /\ pc' = IF IsExecutable(mem) THEN "segments" ELSE "start"
  /\ i' = 0
  /\ UNCHANGED <<load, mem, rec, addr, got, ip>>

(* phdr[k] of a header in m, whose e_phoff was read before the loop.       *)
phdr(m, k, f) == m[hdr + Field(load.mem, e_phoff) + k * PhdrSize + f]

InMemory(k) == hdr + Field(load.mem, e_phoff) + k * PhdrSize + PhdrSize - 1 <= Size

(* n cells from a on lie in the memory. *)
Fits(a, n) == a >= 1 /\ a + n - 1 <= Size

(* What memcpy and memset touch for a segment; with memsz < filesz the     *)
(* number of cells to clear wraps.                                         *)
CopyFits(fstart, mstart, filesz) == Fits(fstart, filesz) /\ Fits(mstart, filesz)
ClearFits(mstart, filesz, memsz) == filesz <= memsz /\ Fits(mstart, memsz)

(* Faulty variant: the counter stays where the segment is not loaded. *)
NextSegmentIfLoaded(m, k) == IF phdr(m, k, p_type) = PT_LOAD THEN k + 1 ELSE k

(* Faulty variant: only a segment that is skipped is counted. *)
NextSegmentIfSkipped(m, k) == IF phdr(m, k, p_type) = PT_LOAD THEN k ELSE k + 1

NextSegment(m, k) == k + 1

(* Copy the image of the file; *)
FileCopied(m, k) ==
  memcpy(m, phdr(m, k, p_vaddr), hdr + phdr(m, k, p_offset), phdr(m, k, p_filesz))

(* Faulty variant: the cells to clear are counted from the segment's start. *)
ClearedFromStart(m, k, mstart) ==
  memset(m, mstart, 0, phdr(m, k, p_memsz) - phdr(m, k, p_filesz))

(* zero fill the rest.  The sizes are read again, after the copy.          *)
Cleared(m, k, mstart) ==
  memset(m, mstart + phdr(m, k, p_filesz), 0, phdr(m, k, p_memsz) - phdr(m, k, p_filesz))

(* One turn of the loop over the program headers; "wild" is where a copy   *)
(* leaves the memory that is here.                                         *)
LoadSegment ==
  LET mstart == phdr(mem, i, p_vaddr)
      file == hdr + phdr(mem, i, p_offset)
      copied == FileCopied(mem, i) IN
  /\ pc = "segments" /\ i < Field(mem, e_phnum)
  /\ \/ /\ ~InMemory(i)
        /\ pc' = "wild" /\ UNCHANGED <<mem, i>>
     \/ /\ InMemory(i) /\ phdr(mem, i, p_type) # PT_LOAD
        /\ i' = NextSegment(mem, i) /\ UNCHANGED <<mem, pc>>
     \/ /\ InMemory(i) /\ phdr(mem, i, p_type) = PT_LOAD
        /\ IF /\ CopyFits(file, mstart, phdr(mem, i, p_filesz))
              /\ ClearFits(mstart, phdr(copied, i, p_filesz), phdr(copied, i, p_memsz))
           THEN /\ mem' = Cleared(copied, i, mstart)
                /\ i' = NextSegment(mem, i) /\ UNCHANGED pc
           ELSE pc' = "wild" /\ UNCHANGED <<mem, i>>
  /\ UNCHANGED <<load, rec, addr, got, ip>>

ReturnEntry ==
  /\ pc = "segments" /\ i >= Field(mem, e_phnum)
  /\ ip' = Field(mem, e_entry) /\ pc' = "start"
  /\ UNCHANGED <<load, mem, i, rec, addr, got>>

(* start_task_byname: the task is started at whatever came back.           *)
StartTask ==
  /\ pc = "start" /\ pc' = "started"
  /\ UNCHANGED <<load, mem, i, rec, addr, got, ip>>

Next ==
  \/ FindByName \/ CheckType \/ RequestPage \/ CheckHeader
  \/ LoadSegment \/ ReturnEntry \/ StartTask

Spec == Init /\ [][Next]_vars /\ WF_vars(Next)

-----------------------------------------------------------------------------
(* Every variable has its type. *)
TypeOK ==
  /\ load \in Loads
  /\ mem \in [Addr -> Char]
  /\ pc \in {"find", "load", "request", "segments", "start", "started", "panic", "wild"}
  /\ i \in Nat /\ rec \in 1 .. Entries + 1 /\ addr \in Nat
  /\ got \subseteq Nat
  /\ ip \in Char

Found == pc \notin {"find", "panic"}

(* A module with a command line that begins with the name.                 *)
Carries(r) ==
  /\ r.type = ModuleType
  /\ Len(r.cmdline) >= Len(load.wanted)
  /\ \A k \in DOMAIN load.wanted : r.cmdline[k] = load.wanted[k]

(* The record that is loaded is the first module whose command line begins *)
(* with the name, and root panics only if there is none.                   *)
FindsFirst ==
  /\ Found /\ Entries > 0 =>
       rec <= Entries /\ Carries(module) /\ \A k \in 1 .. rec - 1 : ~Carries(Record(k))
  /\ pc = "panic" /\ load.refused = {} => \A k \in 1 .. Entries : ~Carries(Record(k))

LastCell == module.start + module.size - 1

(* Before root looks at the module it has asked sigma0 for every page of   *)
(* it.  One page may be left out: the last one, if the module ends at a    *)
(* smaller offset in its page than it starts at, which no module does that *)
(* starts with a page.                                                     *)
ModuleRequested ==
  pc \in {"segments", "start", "started"} =>
    \A a \in module.start .. LastCell :
      \/ PageOf(a) \in got
      \/ /\ PageOf(a) = PageOf(LastCell)
         /\ LastCell % PageSize < module.start % PageSize

(* The segments the module has in the memory GRUB left.                    *)
Segment == 0 .. Field(load.mem, e_phnum) - 1
seg(k, f) == phdr(load.mem, k, f)
Loadable == {k \in Segment : seg(k, p_type) = PT_LOAD}
Source(k) == hdr + seg(k, p_offset) .. hdr + seg(k, p_offset) + seg(k, p_filesz) - 1
Target(k) == seg(k, p_vaddr) .. seg(k, p_vaddr) + seg(k, p_memsz) - 1
Headers ==
  (hdr .. hdr + EhdrSize - 1) \cup
  (hdr + Field(load.mem, e_phoff) ..
   hdr + Field(load.mem, e_phoff) + Cardinality(Segment) * PhdrSize - 1)

(* An image that can be loaded: its headers are there, and each segment is *)
(* at least as large in the memory as in the file, and spares the headers, *)
(* the segments before it and the file part of those behind it.  It may    *)
(* lie over its own file part, if it does not begin inside it.             *)
Placeable ==
  /\ Headers \subseteq Addr
  /\ \A k \in Loadable :
       /\ CopyFits(hdr + seg(k, p_offset), seg(k, p_vaddr), seg(k, p_filesz))
       /\ ClearFits(seg(k, p_vaddr), seg(k, p_filesz), seg(k, p_memsz))
       /\ Target(k) \cap Headers = {}
       /\ \A j \in Loadable : /\ j # k => Target(k) \cap Target(j) = {}
                              /\ j > k => Target(k) \cap Source(j) = {}
       /\ seg(k, p_vaddr) <= hdr + seg(k, p_offset)
            \/ Target(k) \cap Source(k) = {}

(* What the memory should hold then: the file part, zeros behind it, and   *)
(* elsewhere what was there.                                               *)
Image(x) ==
  IF \E k \in Loadable : x \in Target(k)
  THEN LET k == CHOOSE k \in Loadable : x \in Target(k)
           n == x - seg(k, p_vaddr) IN
       IF n < seg(k, p_filesz) THEN load.mem[hdr + seg(k, p_offset) + n] ELSE 0
  ELSE load.mem[x]

(* A module that is no executable is left as it is and returns NULL; an    *)
(* executable that can be placed is loaded as its headers say, with        *)
(* nothing else written, and returns its entry point, although the loop    *)
(* reads the headers from the memory it writes to.                         *)
LoadsImage ==
  pc \in {"wild", "started"} =>
    IF ~IsExecutable(load.mem) THEN pc = "started" /\ ip = NULL /\ mem = load.mem
    ELSE Placeable => /\ pc = "started"
                      /\ ip = Field(load.mem, e_entry)
                      /\ \A x \in Addr : mem[x] = Image(x)

(* How far root is from the end: the stages before it, and how many turns  *)
(* its loop can still make at most.                                        *)
Stage ==
  [find |-> 5, load |-> 4, request |-> 3, segments |-> 2, start |-> 1,
   started |-> 0, panic |-> 0, wild |-> 0][pc]

TurnsLeft ==
  CASE pc = "find" -> Entries + 1 - i
    [] pc = "request" -> module.start + module.size - addr
    [] pc = "segments" -> Size - i
    [] OTHER -> 0

(* Every step takes root to a later stage or uses up a turn of its loop:   *)
(* not one of the three loops can go on for ever.  The loop over the       *)
(* segments reads its bound from memory that it writes, but cannot pass    *)
(* the end of the memory with its header.                                  *)
GetsNearer ==
  [][\/ Stage' < Stage
     \/ Stage' = Stage /\ TurnsLeft > 0 /\ TurnsLeft' < TurnsLeft]_vars

(* Loading ends, even if an image lies over the headers that say how many  *)
(* segments there are.                                                     *)
LoadingEnds == <>(pc \in {"started", "panic", "wild"})
=============================================================================
