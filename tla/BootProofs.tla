----------------------------- MODULE BootProofs -----------------------------
(***************************************************************************)
(* Proofs about the boot, for every layout, page count and superpage size: *)
(* its type, that the memory server never takes a page the root task still *)
(* needs, provided the layout is a safe one, that tasks share no page, and *)
(* that what was loaded stays.                                             *)
(***************************************************************************)
EXTENDS Boot, TLAPS

(* The task being started is one of the three. *)
LEMMA CurrentIsTask ==
  ASSUME nth \in 1 .. Len(StartOrder)
  PROVE  current \in Task
BY DEF current, StartOrder, Task

(* The memory server is the first task, and only the first. *)
LEMMA FirstIsMemoryServer ==
  ASSUME nth \in 1 .. Len(StartOrder)
  PROVE  current = MemoryServer <=> nth = 1
BY NameAssumption DEF current, StartOrder

(* The bounds of a task's module and image, as numbers. *)
LEMMA LayoutBounds ==
  ASSUME NEW t \in Task
  PROVE  /\ LastPage \in Nat
         /\ Layout[t].mod \in 0 .. LastPage /\ Layout[t].modEnd \in 0 .. LastPage
         /\ Layout[t].base \in 0 .. LastPage /\ Layout[t].bss \in 0 .. LastPage
         /\ Layout[t].end \in 0 .. LastPage
         /\ Layout[t].mod <= Layout[t].modEnd
         /\ Layout[t].base < Layout[t].bss /\ Layout[t].bss <= Layout[t].end
<1>1. Layout[t] \in [mod : Page, modEnd : Page, base : Page, bss : Page, end : Page]
  BY LayoutAssumption
<1>. QED
  BY <1>1, LayoutAssumption DEF Page

Contents == {"module", "file", "zero", "bss", "garbage"} \X (Task \cup {None})

-----------------------------------------------------------------------------
LEMMA TypeInit == Init => TypeOK
<1>. SUFFICES ASSUME Init PROVE TypeOK
  OBVIOUS
<1>1. content \in [Page -> Contents]
  <2>1. ASSUME NEW p \in Page PROVE content[p] \in Contents
    <3>1. CASE \E t \in Task : p \in ModPages(t)
      BY <3>1 DEF Init, Module, Contents
    <3>2. CASE ~ \E t \in Task : p \in ModPages(t)
      BY <3>2 DEF Init, Garbage, Contents
    <3>. QED
      BY <3>1, <3>2
  <2>. QED
    BY <2>1 DEF Init
<1>2. owner \in [Page -> {Free, Root, MemoryServer}]
  BY DEF Init
<1>3. 0 \in Page /\ 0 \in 0 .. LastPage + 1
  BY LayoutAssumption DEF Page
<1>4. nth \in 1 .. Len(StartOrder)
  BY DEF Init, StartOrder
<1>5. taddr \in [Task -> Page] /\ addr \in 0 .. LastPage + 1
  BY <1>3 DEF Init
<1>. QED
  BY <1>1, <1>2, <1>4, <1>5 DEF Init, TypeOK, Contents

(* One case per action of the root thread. *)
LEMMA TypeRoot == TypeOK /\ RootStep => TypeOK'
<1>. SUFFICES ASSUME TypeOK, RootStep PROVE TypeOK'
  OBVIOUS
<1>. USE DEF taskVars, pagerVars, rootVars
<1>0. current \in Task
  BY CurrentIsTask DEF TypeOK
<1>1. CASE GetBootinfo
  <2>1. owner' \in [Page -> {Free, Root, MemoryServer}]
    BY <1>1 DEF GetBootinfo, Give, TypeOK
  <2>. QED
    BY <1>1, <2>1 DEF GetBootinfo, TypeOK
<1>2. CASE StartMinipager
  BY <1>2 DEF StartMinipager, start_thread, TypeOK
<1>3. CASE FindModule
  <2>1. addr' \in 0 .. LastPage + 1
    BY <1>0, <1>3, LayoutBounds DEF FindModule, TypeOK
  <2>. QED
    BY <1>3, <2>1 DEF FindModule, TypeOK
<1>4. CASE RequestModulePage
  <2>1. addr' \in 0 .. LastPage + 1
    BY <1>0, <1>4, LayoutBounds DEF RequestModulePage, TypeOK
  <2>2. owner' \in [Page -> {Free, Root, MemoryServer}]
    BY <1>4 DEF RequestModulePage, Give, TypeOK
  <2>. QED
    BY <1>4, <2>1, <2>2 DEF RequestModulePage, TypeOK
<1>5. CASE CheckHeader
  <2>1. addr' \in 0 .. LastPage + 1
    BY <1>0, <1>5, LayoutBounds DEF CheckHeader, TypeOK
  <2>. QED
    BY <1>5, <2>1 DEF CheckHeader, TypeOK
<1>6. CASE LoadPage
  <2>1. LoadedPage(current, addr) \in Contents
    BY <1>0 DEF LoadedPage, LoadedZero, FileData, Garbage, Contents
  <2>2. content' \in [Page -> Contents]
    BY <1>6, <2>1 DEF LoadPage, TypeOK, Contents
  <2>3. addr' \in 0 .. LastPage + 1
    BY <1>0, <1>6, LayoutBounds DEF LoadPage, TypeOK
  <2>4. owner' \in [Page -> {Free, Root, MemoryServer}]
    BY <1>6 DEF LoadPage, Give, TypeOK
  <2>. QED
    BY <1>6, <2>2, <2>3, <2>4 DEF LoadPage, TypeOK, Contents
<1>7. CASE LoadDone
  BY <1>7 DEF LoadDone, TypeOK
<1>8. CASE StartTask
  <2>1. nth' \in 1 .. Len(StartOrder)
    BY <1>8 DEF StartTask, TypeOK, StartOrder
  <2>2. taddr' \in [Task -> Page]
    <3>1. 0 \in Page /\ Layout[current].base \in Page
      BY <1>0, LayoutBounds DEF Page
    <3>. QED
      BY <1>8, <3>1 DEF StartTask, TypeOK
  <2>3. tpc' \in [Task -> {"absent", "crt0", "main", "serve", "calling",
                           "spin", "wild"}]
    BY <1>8 DEF StartTask, TypeOK
  <2>. QED
    BY <1>8, <2>1, <2>2, <2>3 DEF StartTask, TypeOK
<1>9. CASE TaskserverDiscards
  BY <1>9 DEF TaskserverDiscards, TypeOK
<1>. QED
  BY <1>1, <1>2, <1>3, <1>4, <1>5, <1>6, <1>7, <1>8, <1>9 DEF RootStep

LEMMA TypeMinipager == TypeOK /\ MinipagerStep => TypeOK'
<1>. SUFFICES ASSUME TypeOK, MinipagerStep PROVE TypeOK'
  OBVIOUS
<1>. USE DEF TypeOK, taskVars, rootVars
<1>1. CASE MinipagerReceive
  BY <1>1 DEF MinipagerReceive
<1>2. CASE MinipagerTouch
  BY <1>2 DEF MinipagerTouch
<1>3. CASE MinipagerReply
  BY <1>3 DEF MinipagerReply
<1>. QED
  BY <1>1, <1>2, <1>3 DEF MinipagerStep

LEMMA TypeTask ==
  ASSUME NEW t \in Task, TypeOK, TaskStep(t)
  PROVE  TypeOK'
<1>. USE DEF rootVars, pagerVars
<1>1. CASE PageFault(t)
  BY <1>1 DEF PageFault, taskVars, TypeOK
<1>2. CASE RunText(t)
  <2>1. taddr' \in [Task -> Page]
    BY <1>2, LayoutBounds DEF RunText, FilePages, Page, TypeOK
  <2>. QED
    BY <1>2, <2>1 DEF RunText, TypeOK
<1>3. CASE ClearBss(t)
  <2>1. LiveBss(t) \in Contents
    BY DEF LiveBss, Contents
  <2>2. taddr' \in [Task -> Page]
    <3>1. taddr[t] + 1 \in Page \/ taddr[t] = Layout[t].end
      BY <1>3, LayoutBounds DEF ClearBss, BssPages, Page
    <3>. QED
      BY <1>3, <3>1 DEF ClearBss, TypeOK
  <2>3. content' \in [Page -> Contents]
    BY <1>3, <2>1 DEF ClearBss, TypeOK, Contents
  <2>4. tpc' \in [Task -> {"absent", "crt0", "main", "serve", "calling",
                           "spin", "wild"}]
    BY <1>3 DEF ClearBss, TypeOK
  <2>. QED
    BY <1>3, <2>2, <2>3, <2>4 DEF ClearBss, TypeOK, Contents
<1>4. CASE RunForeign(t)
  BY <1>4 DEF RunForeign, TypeOK
<1>5. CASE Grab
  <2>1. ASSUME NEW s, Give(MemoryServer, SuperPage(s)),
               tmap' = [tmap EXCEPT ![MemoryServer] = @ \cup SuperPage(s)]
        PROVE  /\ owner' \in [Page -> {Free, Root, MemoryServer}]
               /\ tmap' \in [Task -> SUBSET Page]
    BY <2>1 DEF Give, SuperPage, TypeOK
  <2>2. /\ owner' \in [Page -> {Free, Root, MemoryServer}]
        /\ tmap' \in [Task -> SUBSET Page]
    BY <1>5, <2>1 DEF Grab, TypeOK
  <2>3. tpc' \in [Task -> {"absent", "crt0", "main", "serve", "calling",
                           "spin", "wild"}]
    BY <1>5 DEF Grab, TypeOK
  <2>. QED
    BY <1>5, <2>2, <2>3 DEF Grab, TypeOK
<1>6. CASE EnterLoop \/ ServeRead \/ CallRead
  BY <1>6 DEF EnterLoop, ServeRead, CallRead, TypeOK
<1>. QED
  BY <1>1, <1>2, <1>3, <1>4, <1>5, <1>6 DEF TaskStep

(* Every variable of the boot keeps its type; in particular no loop of     *)
(* load_elfimage or of _start runs off the last page.                      *)
THEOREM TypeCorrect == Spec => []TypeOK
<1>1. TypeOK /\ UNCHANGED vars => TypeOK'
  BY DEF TypeOK, vars, rootVars, taskVars, pagerVars
<1>2. TypeOK /\ [Next]_vars => TypeOK'
  BY <1>1, TypeRoot, TypeMinipager, TypeTask DEF Next
<1>. QED
  BY TypeInit, <1>2, PTL DEF Spec

-----------------------------------------------------------------------------
(* The invariant behind NeverDenied.  A superpage belongs to the memory    *)
(* server wholly or not at all; root owns all early pages once the memory  *)
(* server exists.                                                          *)
WholeSuperPages ==
  \A p, q \in Page :
    SuperOf[p] = SuperOf[q] /\ owner[p] = MemoryServer => owner[q] = MemoryServer
NoneBeforeStart ==
  ~Exists(MemoryServer) => \A p \in Page : owner[p] # MemoryServer
RootHas(ps) == \A p \in ps : owner[p] = Root
BootinfoOwned == rpc \notin {"bootinfo", "panic"} => RootHas({BootinfoPage})
EarlyOwned ==
  Exists(MemoryServer) /\ boot.module[MemoryServer] = "good" => RootHas(EarlyPages)
LoadProgress ==
  nth = 1 =>
    /\ rpc = "request" => RootHas({p \in ModPages(MemoryServer) : p < addr})
    /\ rpc = "load" => /\ RootHas(ModPages(MemoryServer))
                       /\ RootHas({p \in Image(MemoryServer) : p < addr})
    /\ rpc = "start" /\ boot.module[MemoryServer] = "good" =>
         RootHas(ModPages(MemoryServer) \cup Image(MemoryServer))
AddrInLoop ==
  /\ rpc = "request" => Layout[current].mod <= addr
  /\ rpc = "load" => Layout[current].base <= addr

PlacementInv ==
  /\ TypeOK
  /\ WholeSuperPages /\ NoneBeforeStart /\ RootHas(RootPages)
  /\ BootinfoOwned /\ EarlyOwned /\ LoadProgress /\ AddrInLoop /\ NeverDenied

(* Modules and images are pages. *)
LEMMA PagesOfTask ==
  ASSUME NEW t \in Task
  PROVE  ModPages(t) \subseteq Page /\ Image(t) \subseteq Page
BY LayoutBounds DEF ModPages, Image, FilePages, BssPages, Page

LEMMA EarlyArePages == EarlyPages \subseteq Page
BY PagesOfTask, LayoutAssumption DEF EarlyPages, Task

LEMMA PlacementInit == Init => PlacementInv
<1>. SUFFICES ASSUME Init PROVE PlacementInv
  OBVIOUS
<1>1. \A p \in Page : owner[p] \in {Root, Free} /\ owner[p] # MemoryServer
  BY NameAssumption DEF Init, Task
<1>2. RootHas(RootPages)
  BY LayoutAssumption DEF Init, RootHas
<1>3. ~Exists(MemoryServer)
  BY DEF Init, Exists, Task
<1>. QED
  BY <1>1, <1>2, <1>3, TypeInit
     DEF PlacementInv, WholeSuperPages, NoneBeforeStart, BootinfoOwned,
         EarlyOwned, LoadProgress, AddrInLoop, NeverDenied, Init

(* How ownership changes in one step. *)
LEMMA OwnerStep ==
  ASSUME TypeOK, [Next]_vars
  PROVE  \/ owner' = owner
         \/ \E p \in Page : CanGet(Root, p) /\ Give(Root, {p})
         \/ /\ Exists(MemoryServer)
            /\ \E s : /\ \A p \in SuperPage(s) : owner[p] = Free
                     /\ Give(MemoryServer, SuperPage(s))
<1>1. CASE UNCHANGED vars
  BY <1>1 DEF vars
<1>2. CASE RootStep
  <2>1. CASE GetBootinfo
    BY <2>1, LayoutAssumption DEF GetBootinfo
  <2>2. CASE RequestModulePage
    <3>1. addr \in Page \/ UNCHANGED owner
      BY <2>2, CurrentIsTask, LayoutBounds DEF RequestModulePage, TypeOK, Page
    <3>. QED
      BY <2>2, <3>1 DEF RequestModulePage
  <2>3. CASE LoadPage
    <3>1. addr \in Page \/ UNCHANGED owner
      BY <2>3, CurrentIsTask, LayoutBounds DEF LoadPage, TypeOK, Page
    <3>. QED
      BY <2>3, <3>1 DEF LoadPage
  <2>4. CASE StartMinipager \/ FindModule \/ CheckHeader \/ LoadDone
             \/ StartTask \/ TaskserverDiscards
    BY <2>4 DEF StartMinipager, start_thread, FindModule, CheckHeader, LoadDone, StartTask,
                TaskserverDiscards
  <2>. QED
    BY <1>2, <2>1, <2>2, <2>3, <2>4 DEF RootStep
<1>3. CASE MinipagerStep
  BY <1>3 DEF MinipagerStep, MinipagerReceive, MinipagerTouch, MinipagerReply
<1>4. ASSUME NEW t \in Task, TaskStep(t)
      PROVE  \/ owner' = owner
             \/ /\ Exists(MemoryServer)
                /\ \E s : /\ \A p \in SuperPage(s) : owner[p] = Free
                         /\ Give(MemoryServer, SuperPage(s))
  <2>1. CASE Grab
    BY <2>1 DEF Grab, Exists
  <2>2. CASE ~Grab
    BY <1>4, <2>2 DEF TaskStep, PageFault, RunText, ClearBss, RunForeign,
                      EnterLoop, ServeRead, CallRead
  <2>. QED
    BY <2>1, <2>2
<1>. QED
  BY <1>1, <1>2, <1>3, <1>4 DEF Next

(* A page of root's stays root's. *)
LEMMA RootKeeps ==
  ASSUME TypeOK, [Next]_vars, NEW p \in Page, owner[p] = Root
  PROVE  owner'[p] = Root
BY OwnerStep, NameAssumption DEF Give, SuperPage

LEMMA RootKeepsSet ==
  ASSUME TypeOK, [Next]_vars, NEW ps \in SUBSET Page, RootHas(ps)
  PROVE  RootHas(ps)'
BY RootKeeps DEF RootHas

LEMMA WholeSuperPagesStep ==
  ASSUME TypeOK, [Next]_vars, WholeSuperPages
  PROVE  WholeSuperPages'
<1>. SUFFICES ASSUME NEW p \in Page, NEW q \in Page,
                     SuperOf[p] = SuperOf[q], owner'[p] = MemoryServer
              PROVE  owner'[q] = MemoryServer
  BY DEF WholeSuperPages
<1>1. CASE owner' = owner
  BY <1>1 DEF WholeSuperPages
<1>2. ASSUME NEW r \in Page, CanGet(Root, r), Give(Root, {r})
      PROVE  owner'[q] = MemoryServer
  <2>1. owner[p] = MemoryServer
    BY <1>2, NameAssumption DEF Give, Task
  <2>2. owner[q] = MemoryServer
    BY <2>1 DEF WholeSuperPages
  <2>. QED
    BY <1>2, <2>2, NameAssumption DEF Give, CanGet, Task
<1>3. ASSUME NEW s, Give(MemoryServer, SuperPage(s))
      PROVE  owner'[q] = MemoryServer
  BY <1>3 DEF Give, SuperPage, WholeSuperPages
<1>. QED
  BY <1>1, <1>2, <1>3, OwnerStep

(* Root is never refused a page it needs. *)
LEMMA CanGetNeeded ==
  ASSUME SafePlacement, PlacementInv, boot.module[MemoryServer] = "good",
         NEW p \in NeededPages, p \in Page
  PROVE  CanGet(Root, p)
<1>1. SUFFICES ASSUME owner[p] = MemoryServer PROVE FALSE
  BY DEF PlacementInv, TypeOK, CanGet
<1>2. RootHas(EarlyPages)
  BY <1>1 DEF PlacementInv, NoneBeforeStart, EarlyOwned
<1>3. PICK e \in EarlyPages : SuperOf[e] = SuperOf[p]
  BY DEF SafePlacement
<1>4. owner[e] = MemoryServer
  BY <1>1, <1>3, EarlyArePages DEF PlacementInv, WholeSuperPages
<1>. QED
  BY <1>2, <1>4, NameAssumption DEF RootHas, Task

(* Only root moves root's program counter, and only StartTask creates a    *)
(* task: in every step root's place and the tasks change as follows.       *)
LEMMA OthersKeepRoot ==
  ASSUME TypeOK, [Next]_vars, ~RootStep
  PROVE  /\ rpc' = rpc /\ nth' = nth /\ addr' = addr /\ boot' = boot
         /\ Exists(MemoryServer)' = Exists(MemoryServer)
<1>1. CASE UNCHANGED vars
  BY <1>1 DEF vars, rootVars, taskVars, Exists
<1>2. CASE MinipagerStep
  BY <1>2 DEF MinipagerStep, MinipagerReceive, MinipagerTouch, MinipagerReply,
              rootVars, taskVars, Exists
<1>3. ASSUME NEW t \in Task, TaskStep(t)
      PROVE  /\ rpc' = rpc /\ nth' = nth /\ addr' = addr /\ boot' = boot
             /\ Exists(MemoryServer)' = Exists(MemoryServer)
  <2>1. CASE PageFault(t)
    BY <2>1 DEF PageFault, rootVars, taskVars, Exists
  <2>2. CASE RunText(t) \/ ClearBss(t) \/ RunForeign(t)
    <3>1. \/ tpc' = tpc
          \/ tpc[t] = "crt0" /\ \E x \in {"main", "wild"} : tpc' = [tpc EXCEPT ![t] = x]
      BY <2>2 DEF RunText, ClearBss, RunForeign
    <3>2. Exists(MemoryServer)' = Exists(MemoryServer)
      BY <3>1 DEF Exists, TypeOK, Task
    <3>. QED
      BY <2>2, <3>2 DEF RunText, ClearBss, RunForeign, rootVars
  <2>3. CASE Grab
    <3>1. \/ tpc' = tpc
          \/ tpc[MemoryServer] = "main" /\ tpc' = [tpc EXCEPT ![MemoryServer] = "serve"]
      BY <2>3 DEF Grab
    <3>2. Exists(MemoryServer)' = Exists(MemoryServer)
      BY <3>1 DEF Exists, TypeOK, Task
    <3>. QED
      BY <2>3, <3>2 DEF Grab, rootVars
  <2>4. CASE EnterLoop \/ ServeRead \/ CallRead
    <3>1. tpc'[MemoryServer] = tpc[MemoryServer]
      BY <2>4, NameAssumption DEF EnterLoop, ServeRead, CallRead, TypeOK, Task
    <3>. QED
      BY <2>4, <3>1 DEF EnterLoop, ServeRead, CallRead, rootVars, Exists
  <2>. QED
    BY <1>3, <2>1, <2>2, <2>3, <2>4 DEF TaskStep
<1>. QED
  BY <1>1, <1>2, <1>3 DEF Next

LEMMA RootStepTasks ==
  ASSUME TypeOK, RootStep
  PROVE  /\ boot' = boot
         /\ \/ Exists(MemoryServer)' = Exists(MemoryServer)
            \/ StartTask /\ nth = 1
<1>1. CASE StartTask
  <2>1. nth # 1 => tpc'[MemoryServer] = tpc[MemoryServer]
    BY <1>1, FirstIsMemoryServer DEF StartTask, TypeOK, Task
  <2>. QED
    BY <1>1, <2>1 DEF StartTask, Exists
<1>2. CASE ~StartTask
  BY <1>2 DEF RootStep, GetBootinfo, StartMinipager, start_thread, FindModule,
     RequestModulePage, CheckHeader, LoadPage, LoadDone, TaskserverDiscards,
     taskVars, Exists
<1>. QED
  BY <1>1, <1>2

LEMMA NoneBeforeStartStep ==
  ASSUME TypeOK, [Next]_vars, NoneBeforeStart
  PROVE  NoneBeforeStart'
<1>. SUFFICES ASSUME ~Exists(MemoryServer)', NEW p \in Page
              PROVE  owner'[p] # MemoryServer
  BY DEF NoneBeforeStart
<1>1. ~Exists(MemoryServer)
  <2>1. CASE StartTask
    BY <2>1 DEF StartTask, Exists, TypeOK, Task
  <2>2. CASE ~StartTask
    BY <2>2, OthersKeepRoot, RootStepTasks
  <2>. QED
    BY <2>1, <2>2
<1>. QED
  BY <1>1, OwnerStep, NameAssumption DEF NoneBeforeStart, Give, Task

LEMMA BootinfoOwnedStep ==
  ASSUME TypeOK, [Next]_vars, BootinfoOwned
  PROVE  BootinfoOwned'
<1>. SUFFICES ASSUME rpc' \notin {"bootinfo", "panic"}
              PROVE  RootHas({BootinfoPage})'
  BY DEF BootinfoOwned
<1>1. CASE rpc \in {"bootinfo", "panic"}
  <2>1. RootStep
    BY <1>1, OthersKeepRoot
  <2>2. GetBootinfo
    BY <1>1, <2>1 DEF RootStep, StartMinipager, start_thread, FindModule, RequestModulePage,
       CheckHeader, LoadPage, LoadDone, StartTask, TaskserverDiscards, rootVars
  <2>. QED
    BY <2>2, LayoutAssumption DEF GetBootinfo, Give, RootHas
<1>2. CASE rpc \notin {"bootinfo", "panic"}
  BY <1>2, RootKeepsSet, LayoutAssumption DEF BootinfoOwned
<1>. QED
  BY <1>1, <1>2

(* The memory server comes into being when its module and image are root's.*)
LEMMA EarlyOwnedStep ==
  ASSUME PlacementInv, [Next]_vars
  PROVE  EarlyOwned'
<1>. SUFFICES ASSUME Exists(MemoryServer)', boot'.module[MemoryServer] = "good"
              PROVE  RootHas(EarlyPages)'
  BY DEF EarlyOwned
<1>1. boot' = boot /\ TypeOK
  BY OthersKeepRoot, RootStepTasks DEF PlacementInv
<1>2. RootHas(EarlyPages)
  <2>1. CASE Exists(MemoryServer)
    BY <1>1, <2>1 DEF PlacementInv, EarlyOwned
  <2>2. CASE ~Exists(MemoryServer)
    <3>1. StartTask /\ nth = 1
      BY <1>1, <2>2, OthersKeepRoot, RootStepTasks
    <3>2. rpc = "start"
      BY <3>1 DEF StartTask
    <3>. QED
      BY <1>1, <3>1, <3>2
         DEF PlacementInv, LoadProgress, BootinfoOwned, EarlyPages, RootHas
  <2>. QED
    BY <2>1, <2>2
<1>. QED
  BY <1>1, <1>2, RootKeepsSet, EarlyArePages

(* The loops of load_elfimage leave no page of the memory server behind.   *)
LEMMA LoadProgressStep ==
  ASSUME PlacementInv, [Next]_vars
  PROVE  LoadProgress'
<1>. DEFINE M == MemoryServer
<1>1. TypeOK /\ boot' = boot
  BY OthersKeepRoot, RootStepTasks DEF PlacementInv
<1>2. M \in Task
  BY DEF Task
<1>3. \A ps \in SUBSET Page : RootHas(ps) => RootHas(ps)'
  BY <1>1, RootKeepsSet
<1>4. ModPages(M) \subseteq Page /\ Image(M) \subseteq Page
  BY <1>2, PagesOfTask
<1>5. CASE rpc' = rpc /\ nth' = nth /\ addr' = addr
  BY <1>1, <1>3, <1>4, <1>5 DEF PlacementInv, LoadProgress
<1>6. CASE RootStep
  <2>1. SUFFICES ASSUME nth' = 1, rpc' \in {"request", "load", "start"}
                 PROVE  LoadProgress'
    BY DEF LoadProgress
  <2>2. nth = 1 /\ current = M
    BY <1>1, <1>6, <2>1, FirstIsMemoryServer
       DEF RootStep, GetBootinfo, StartMinipager, start_thread, FindModule, RequestModulePage,
           CheckHeader, LoadPage, LoadDone, StartTask, TaskserverDiscards,
           rootVars, TypeOK, StartOrder
  <2>3. CASE FindModule
    BY <2>1, <2>2, <2>3, <1>2, LayoutBounds
       DEF FindModule, LoadProgress, RootHas, ModPages
  <2>4. CASE RequestModulePage
    <3>1. rpc = "request" /\ rpc' = "request" /\ addr' = addr + 1
          /\ Give(Root, {addr}) /\ addr <= Layout[M].modEnd
      BY <2>1, <2>2, <2>4 DEF RequestModulePage
    <3>2. \A p \in ModPages(M) : p < addr => owner'[p] = Root
      BY <1>1, <1>4, <2>2, <3>1, RootKeeps DEF PlacementInv, LoadProgress, RootHas
    <3>3. \A p \in ModPages(M) : p < addr + 1 => p < addr \/ p = addr
      BY <1>1, <1>2, LayoutBounds DEF ModPages, TypeOK
    <3>4. \A p \in ModPages(M) : p < addr + 1 => owner'[p] = Root
      BY <1>4, <3>1, <3>2, <3>3 DEF RootHas, Give
    <3>. QED
      BY <3>1, <3>4 DEF LoadProgress, RootHas
  <2>5. CASE CheckHeader
    <3>1. RootHas(ModPages(M))
      <4>1. \A p \in ModPages(M) : p < addr
        BY <1>1, <1>2, <2>2, <2>5, LayoutBounds DEF CheckHeader, ModPages, TypeOK
      <4>. QED
        BY <2>2, <2>5, <4>1 DEF CheckHeader, PlacementInv, LoadProgress, RootHas
    <3>2. \A p \in Image(M) : ~(p < Layout[M].base)
      BY <1>2, LayoutBounds DEF Image, FilePages, BssPages
    <3>. QED
      BY <1>1, <1>3, <1>4, <2>2, <2>5, <3>1, <3>2
         DEF CheckHeader, LoadProgress, RootHas
  <2>6. CASE LoadPage
    <3>1. rpc = "load" /\ rpc' = "load" /\ addr' = addr + 1
          /\ Give(Root, {addr})
      BY <2>1, <2>2, <2>6 DEF LoadPage
    <3>2. /\ RootHas(ModPages(M))'
          /\ RootHas({p \in Image(M) : p < addr})
      BY <1>3, <1>4, <2>2, <3>1 DEF PlacementInv, LoadProgress
    <3>5. \A p \in Image(M) : p < addr => owner'[p] = Root
      BY <1>1, <1>4, <3>2, RootKeeps DEF RootHas
    <3>3. \A p \in Image(M) : p < addr + 1 => p < addr \/ p = addr
      BY <1>1, <1>2, LayoutBounds DEF Image, FilePages, BssPages, TypeOK
    <3>4. \A p \in Image(M) : p < addr + 1 => owner'[p] = Root
      BY <1>4, <3>1, <3>5, <3>3 DEF RootHas, Give
    <3>. QED
      BY <3>1, <3>2, <3>4 DEF LoadProgress, RootHas
  <2>7. CASE LoadDone
    <3>1. \A p \in Image(M) : p < addr
      BY <1>1, <1>2, <2>2, <2>7, LayoutBounds
         DEF LoadDone, Image, FilePages, BssPages, TypeOK
    <3>2. RootHas(ModPages(M) \cup Image(M))
      BY <2>2, <2>7, <3>1 DEF LoadDone, PlacementInv, LoadProgress, RootHas
    <3>. QED
      BY <1>3, <1>4, <2>7, <3>2 DEF LoadDone, LoadProgress
  <2>. QED
    BY <1>6, <2>1, <2>2, <2>3, <2>4, <2>5, <2>6, <2>7
       DEF RootStep, GetBootinfo, StartMinipager, start_thread, StartTask, TaskserverDiscards,
           rootVars
<1>. QED
  BY <1>1, <1>5, <1>6, OthersKeepRoot

(* The loops of load_elfimage start at their first page and go up. *)
LEMMA AddrInLoopStep ==
  ASSUME TypeOK, AddrInLoop, [Next]_vars
  PROVE  AddrInLoop'
<1>1. current \in Task
  BY CurrentIsTask DEF TypeOK
<1>2. CASE RootStep
  <2>1. CASE FindModule
    BY <1>1, <2>1, LayoutBounds DEF FindModule, AddrInLoop, current
  <2>2. CASE RequestModulePage
    BY <1>1, <2>2, LayoutBounds DEF RequestModulePage, AddrInLoop, current, TypeOK
  <2>3. CASE CheckHeader
    BY <1>1, <2>3, LayoutBounds DEF CheckHeader, AddrInLoop, current
  <2>4. CASE LoadPage
    BY <1>1, <2>4, LayoutBounds DEF LoadPage, AddrInLoop, current, TypeOK
  <2>5. CASE GetBootinfo \/ StartMinipager \/ LoadDone \/ StartTask
             \/ TaskserverDiscards
    BY <2>5 DEF GetBootinfo, StartMinipager, start_thread, LoadDone, StartTask,
                TaskserverDiscards, rootVars, AddrInLoop
  <2>. QED
    BY <1>2, <2>1, <2>2, <2>3, <2>4, <2>5 DEF RootStep
<1>3. CASE ~RootStep
  BY <1>3, OthersKeepRoot DEF AddrInLoop, current
<1>. QED
  BY <1>2, <1>3

(* With every needed page at hand, no branch to panic is taken. *)
LEMMA NeverDeniedStep ==
  ASSUME SafePlacement, PlacementInv, [Next]_vars
  PROVE  NeverDenied'
<1>. SUFFICES ASSUME GoodBoot' PROVE rpc' \notin {"panic", "stuck"}
  BY DEF NeverDenied
<1>1. TypeOK /\ boot' = boot
  BY OthersKeepRoot, RootStepTasks DEF PlacementInv
<1>2. GoodBoot /\ rpc \notin {"panic", "stuck"}
  BY <1>1 DEF PlacementInv, NeverDenied, GoodBoot
<1>3. current \in Task /\ boot.module[current] = "good"
      /\ boot.module[MemoryServer] = "good"
  BY <1>1, <1>2, CurrentIsTask DEF GoodBoot, TypeOK, Task
<1>4. \A p \in NeededPages : p \in Page => CanGet(Root, p)
  BY <1>3, CanGetNeeded
<1>5. CASE RootStep
  <2>1. CASE GetBootinfo
    BY <1>2, <1>4, <2>1, LayoutAssumption DEF GetBootinfo, NeededPages, GoodBoot
  <2>2. CASE RequestModulePage
    <3>1. addr <= Layout[current].modEnd => addr \in ModPages(current)
      BY <1>1, <1>3, <2>2, LayoutBounds
         DEF RequestModulePage, ModPages, TypeOK, PlacementInv, AddrInLoop
    <3>. QED
      BY <1>2, <1>3, <1>4, <2>2, <3>1, PagesOfTask
         DEF RequestModulePage, NeededPages
  <2>3. CASE LoadPage
    <3>1. addr <= Layout[current].end => addr \in Image(current)
      BY <1>1, <1>3, <2>3, LayoutBounds
         DEF LoadPage, Image, FilePages, BssPages, TypeOK, PlacementInv, AddrInLoop
    <3>. QED
      BY <1>2, <1>3, <1>4, <2>3, <3>1, PagesOfTask DEF LoadPage, NeededPages
  <2>4. CASE FindModule \/ StartTask
    BY <1>2, <1>3, <2>4 DEF FindModule, StartTask, GoodBoot
  <2>5. CASE StartMinipager \/ CheckHeader \/ LoadDone \/ TaskserverDiscards
    BY <1>2, <2>5 DEF StartMinipager, start_thread, CheckHeader, LoadDone, TaskserverDiscards,
                      rootVars, GoodBoot
  <2>. QED
    BY <1>5, <2>1, <2>2, <2>3, <2>4, <2>5 DEF RootStep
<1>6. CASE ~RootStep
  BY <1>1, <1>2, <1>6, OthersKeepRoot
<1>. QED
  BY <1>5, <1>6

LEMMA PlacementStep ==
  ASSUME SafePlacement, PlacementInv, [Next]_vars
  PROVE  PlacementInv'
<1>1. TypeOK'
  BY TypeRoot, TypeMinipager, TypeTask
     DEF PlacementInv, Next, TypeOK, vars, rootVars, taskVars, pagerVars
<1>2. RootHas(RootPages)'
  BY RootKeepsSet, LayoutAssumption DEF PlacementInv
<1>3. WholeSuperPages' /\ NoneBeforeStart' /\ BootinfoOwned'
  BY WholeSuperPagesStep, NoneBeforeStartStep, BootinfoOwnedStep DEF PlacementInv
<1>4. EarlyOwned' /\ LoadProgress' /\ AddrInLoop' /\ NeverDenied'
  BY EarlyOwnedStep, LoadProgressStep, AddrInLoopStep, NeverDeniedStep DEF PlacementInv
<1>. QED
  BY <1>1, <1>2, <1>3, <1>4 DEF PlacementInv

(* The memory server runs while root still requests modules and writes     *)
(* images, and takes every whole free superpage; on a safe layout root is  *)
(* never refused a page, in any interleaving and for any number of pages.  *)
THEOREM RootIsNeverDenied ==
  ASSUME SafePlacement
  PROVE  Spec => []NeverDenied
<1>1. PlacementInv /\ [Next]_vars => PlacementInv'
  BY PlacementStep
<1>2. PlacementInv => NeverDenied
  BY DEF PlacementInv
<1>. QED
  BY PlacementInit, <1>1, <1>2, PTL DEF Spec

-----------------------------------------------------------------------------
(* When root comes to start simplethread1 the file server is there, and    *)
(* nothing that exists goes away: what makes CalleeExists inductive.       *)
ServerFirst ==
  /\ nth = 3 => tpc[FileServer] # "absent"
  /\ tpc[SimpleThread1] # "absent" => tpc[FileServer] # "absent"

CalleeInv == TypeOK /\ ServerFirst /\ CalleeExists

LEMMA CalleeInit == Init => CalleeInv
<1>. SUFFICES ASSUME Init PROVE CalleeInv
  OBVIOUS
<1>1. nth = 1 /\ tpc = [t \in Task |-> "absent"] /\ answer = None
  BY DEF Init
<1>2. ServerFirst /\ CalleeExists
  BY <1>1 DEF ServerFirst, CalleeExists, None, Task
<1>. QED
  BY <1>2, TypeInit DEF CalleeInv

LEMMA CalleeStep == CalleeInv /\ [Next]_vars => CalleeInv'
<1>. SUFFICES ASSUME CalleeInv, [Next]_vars PROVE CalleeInv'
  OBVIOUS
<1>. USE DEF taskVars, pagerVars, rootVars
<1>1. TypeOK'
  BY TypeRoot, TypeMinipager, TypeTask DEF CalleeInv, Next, TypeOK, vars
<1>2. CASE RootStep
  <2>1. CASE StartTask
    <3>1. answer' = answer
      BY <2>1 DEF StartTask
    <3>2. nth \in 1 .. 3 /\ tpc \in [Task -> {"absent", "crt0", "main", "serve",
                                           "calling", "spin", "wild"}]
      BY DEF CalleeInv, TypeOK, StartOrder
    <3>3. ServerFirst'
      <4>1. CASE nth' = nth /\ tpc' = tpc
        BY <4>1 DEF CalleeInv, ServerFirst
      <4>2. CASE tpc' = [tpc EXCEPT ![current] = "crt0"]
                 /\ IF nth < 3 THEN nth' = nth + 1 ELSE nth' = nth
        <5>1. CASE nth = 1
          <6>1. current = MemoryServer /\ nth' = 2
            BY <4>2, <5>1 DEF current, StartOrder
          <6>. QED
            BY <3>2, <4>2, <6>1, NameAssumption DEF CalleeInv, ServerFirst, Task
        <5>2. CASE nth = 2
          <6>1. current = FileServer
            BY <5>2 DEF current, StartOrder
          <6>. QED
            BY <3>2, <4>2, <6>1, NameAssumption DEF ServerFirst, Task
        <5>3. CASE nth = 3
          <6>1. current = SimpleThread1 /\ nth' = 3
            BY <4>2, <5>3 DEF current, StartOrder
          <6>. QED
            BY <3>2, <4>2, <5>3, <6>1, NameAssumption DEF CalleeInv, ServerFirst, Task
        <5>. QED
          BY <3>2, <5>1, <5>2, <5>3
      <4>3. Len(StartOrder) = 3
        BY DEF StartOrder
      <4>4. CASE current \in boot.refused
        BY <2>1, <4>1, <4>4 DEF StartTask
      <4>5. CASE current \notin boot.refused
        <5>1. tpc' = [tpc EXCEPT ![current] = "crt0"]
          BY <2>1, <4>5 DEF StartTask
        <5>2. IF nth < 3 THEN nth' = nth + 1 ELSE nth' = nth
          BY <2>1, <4>3, <4>5 DEF StartTask
        <5>. QED
          BY <4>2, <5>1, <5>2
      <4>. QED
        BY <4>4, <4>5
    <3>. QED
      BY <1>1, <3>1, <3>3 DEF CalleeInv, CalleeExists
  <2>2. CASE ~StartTask
    <3>1. nth' = nth /\ tpc' = tpc /\ answer' = answer
      BY <1>2, <2>2 DEF RootStep, GetBootinfo, StartMinipager, FindModule,
         RequestModulePage, CheckHeader, LoadPage, LoadDone, TaskserverDiscards
    <3>. QED
      BY <1>1, <3>1 DEF CalleeInv, ServerFirst, CalleeExists
  <2>. QED
    BY <2>1, <2>2
<1>3. CASE MinipagerStep
  <2>1. nth' = nth /\ tpc' = tpc /\ answer' = answer
    BY <1>3 DEF MinipagerStep, MinipagerReceive, MinipagerTouch, MinipagerReply
  <2>. QED
    BY <1>1, <2>1 DEF CalleeInv, ServerFirst, CalleeExists
<1>4. ASSUME NEW t \in Task, TaskStep(t)
      PROVE  CalleeInv'
  <2>1. nth' = nth
    BY <1>4 DEF TaskStep, PageFault, RunText, ClearBss, RunForeign, Grab, EnterLoop,
                CallRead, ServeRead
  <2>2. \A u \in Task : tpc'[u] = "absent" <=> tpc[u] = "absent"
    BY <1>4, NameAssumption
       DEF TaskStep, PageFault, RunText, ClearBss, RunForeign, Grab, EnterLoop,
           CallRead, ServeRead, CalleeInv, TypeOK, Task
  <2>3. CASE CallRead
    BY <1>1, <2>1, <2>2, <2>3
       DEF CallRead, CalleeInv, ServerFirst, CalleeExists, Task
  <2>4. CASE ~CallRead
    <3>1. answer' # "error"
      BY <1>4, <2>4 DEF TaskStep, PageFault, RunText, ClearBss, RunForeign, Grab,
                        EnterLoop, ServeRead, CalleeInv, CalleeExists
    <3>. QED
      BY <1>1, <2>1, <2>2, <3>1 DEF CalleeInv, ServerFirst, CalleeExists, Task
  <2>. QED
    BY <2>3, <2>4
<1>5. CASE UNCHANGED vars
  BY <1>1, <1>5 DEF vars, CalleeInv, ServerFirst, CalleeExists
<1>. QED
  BY <1>2, <1>3, <1>4, <1>5 DEF Next

(* simplethread1 never calls a thread that is not there, on any layout and *)
(* whatever the boot finds, although only the order of the starts says so. *)
THEOREM CalleeIsThere == Spec => []CalleeExists
<1>1. CalleeInv => CalleeExists
  BY DEF CalleeInv
<1>. QED
  BY <1>1, CalleeInit, CalleeStep, PTL DEF Spec

-----------------------------------------------------------------------------
(***************************************************************************)
(* Proof that the minipager, which maps whatever page it is asked for, and *)
(* maps it writable, never gives two tasks the same page: for any number   *)
(* of pages and any layout in which the images do not overlap.             *)
(***************************************************************************)

DisjointImages == \A t, u \in Task : t # u => Image(t) \cap Image(u) = {}
NoBadElf == \A b \in Boots : \A t \in Task : b.module[t] # "bad_elf"

-----------------------------------------------------------------------------
(* Root has yet to start the tasks from nth on, and has found the module   *)
(* of the one it is at.                                                    *)
NotYetStarted ==
  rpc # "taskserver" =>
    /\ tpc[SimpleThread1] = "absent"
    /\ nth < 3 => tpc[FileServer] = "absent"
    /\ nth < 2 => tpc[MemoryServer] = "absent"
ModuleThere ==
  rpc \in {"request", "load", "start"} => boot.module[current] # "missing"

(* A task starts up inside its image. *)
AddrInImage == \A t \in Task : tpc[t] = "crt0" => taddr[t] \in Image(t)

(* Who has faulted waits for a page it lacks, and waits once. *)
Waits(t) == tpc[t] = "crt0" /\ taddr[t] \notin tmap[t]
Serving == mpc \in {"touch", "reply", "faulting", "unanswered"}
FaultersWait ==
  /\ \A k \in 1 .. Len(faults) : /\ Waits(faults[k])
                                 /\ Serving => faults[k] # mtask
  /\ \A j, k \in 1 .. Len(faults) : faults[j] = faults[k] => j = k
ServedWaits == Serving => mtask \in Task /\ Waits(mtask)

(* What the minipager is about to map is root's page,                      *)
TouchedIsRoots == mpc = "reply" => owner[taddr[mtask]] = Root

(* and what is mapped in a task is a page of its image that is root's, or  *)
(* one the memory server took.                                             *)
MapsOwn ==
  \A t \in Task : \A p \in tmap[t] :
    \/ p \in Image(t) /\ owner[p] = Root
    \/ t = MemoryServer /\ owner[p] = MemoryServer

(* What holds on every boot, and what no bad module may spoil. *)
FaultInv ==
  /\ TypeOK
  /\ NotYetStarted /\ ModuleThere
  /\ FaultersWait /\ ServedWaits /\ TouchedIsRoots
IsoInv == FaultInv /\ AddrInImage /\ MapsOwn

LEMMA IsoInit == Init => IsoInv
<1>. SUFFICES ASSUME Init PROVE IsoInv
  OBVIOUS
<1>1. /\ tpc = [t \in Task |-> "absent"] /\ tmap = [t \in Task |-> {}]
      /\ faults = <<>> /\ mpc = "absent" /\ rpc = "bootinfo"
  BY DEF Init
<1>2. NotYetStarted /\ ModuleThere /\ AddrInImage
  BY <1>1 DEF NotYetStarted, ModuleThere, AddrInImage, Task
<1>3. FaultersWait /\ ServedWaits /\ TouchedIsRoots /\ MapsOwn
  BY <1>1 DEF FaultersWait, ServedWaits, Serving, TouchedIsRoots, MapsOwn
<1>. QED
  BY <1>2, <1>3, TypeInit DEF IsoInv, FaultInv

(* How one step moves a task's thread on. *)
Stays(t) == tpc'[t] = tpc[t] /\ taddr'[t] = taddr[t]
GoesOn(t) == /\ tpc[t] \in {"main", "calling"} /\ taddr'[t] = taddr[t]
             /\ tpc'[t] \in {"serve", "calling", "spin"}

LEMMA ThreadStep ==
  ASSUME TypeOK, [Next]_vars, NEW t \in Task
  PROVE  \/ Stays(t) \/ GoesOn(t)
         \/ StartTask /\ t = current /\ current \notin boot.refused
         \/ RunText(t) \/ ClearBss(t) \/ RunForeign(t)
<1>1. CASE StartTask
  <2>1. current \in Task
    BY CurrentIsTask DEF TypeOK
  <2>2. CASE current \in boot.refused
    BY <1>1, <2>2 DEF StartTask, Stays
  <2>3. CASE current \notin boot.refused /\ t # current
    BY <1>1, <2>1, <2>3 DEF StartTask, Stays, TypeOK
  <2>. QED
    BY <1>1, <2>2, <2>3
<1>2. CASE RootStep /\ ~StartTask
  BY <1>2 DEF RootStep, GetBootinfo, StartMinipager, FindModule, RequestModulePage,
              CheckHeader, LoadPage, LoadDone, TaskserverDiscards, taskVars, Stays
<1>3. CASE MinipagerStep
  BY <1>3 DEF MinipagerStep, MinipagerReceive, MinipagerTouch, MinipagerReply,
              taskVars, Stays
<1>4. ASSUME NEW u \in Task, TaskStep(u)
      PROVE  Stays(t) \/ GoesOn(t) \/ RunText(t) \/ ClearBss(t) \/ RunForeign(t)
  <2>1. CASE PageFault(u)
    BY <2>1 DEF PageFault, taskVars, Stays
  <2>2. CASE RunText(u) \/ ClearBss(u) \/ RunForeign(u)
    <3>1. CASE u # t
      BY <2>2, <3>1 DEF RunText, ClearBss, RunForeign, Stays, TypeOK
    <3>. QED
      BY <2>2, <3>1
  <2>3. CASE Grab
    BY <2>3 DEF Grab, Stays, GoesOn, TypeOK
  <2>4. CASE EnterLoop \/ ServeRead \/ CallRead
    BY <2>4 DEF EnterLoop, ServeRead, CallRead, Stays, GoesOn, TypeOK
  <2>. QED
    BY <1>4, <2>1, <2>2, <2>3, <2>4 DEF TaskStep
<1>5. CASE UNCHANGED vars
  BY <1>5 DEF vars, taskVars, Stays
<1>. QED
  BY <1>1, <1>2, <1>3, <1>4, <1>5 DEF Next

(* A page the memory server took stays its own. *)
LEMMA ServerKeeps ==
  ASSUME TypeOK, [Next]_vars, NEW p \in Page, owner[p] = MemoryServer
  PROVE  owner'[p] = MemoryServer
BY OwnerStep, NameAssumption DEF Give, SuperPage, CanGet, Task

(* What is mapped stays right while no mapping is added. *)
LEMMA MapsKept ==
  ASSUME TypeOK, MapsOwn, [Next]_vars, NEW t \in Task, NEW p \in tmap[t]
  PROVE  \/ p \in Image(t) /\ owner'[p] = Root
         \/ t = MemoryServer /\ owner'[p] = MemoryServer
<1>1. p \in Page
  BY DEF TypeOK
<1>. QED
  BY <1>1, RootKeeps, ServerKeeps DEF MapsOwn

(* While whoever waits goes on waiting for the same page, the faults and   *)
(* the one served remain what they are.                                    *)
LEMMA WaitersKept ==
  ASSUME FaultInv, [Next]_vars,
         \A t \in Task : Waits(t) => Waits(t)' /\ taddr'[t] = taddr[t],
         faults' = faults, mtask' = mtask,
         mpc' = mpc \/ mpc' = "wait" \/ (mpc = "faulting" /\ mpc' = "unanswered")
  PROVE  FaultersWait' /\ ServedWaits' /\ TouchedIsRoots'
<1>1. TypeOK /\ FaultersWait /\ ServedWaits /\ TouchedIsRoots
  BY DEF FaultInv
<1>2. Serving' => Serving
  BY DEF Serving
<1>3. \A k \in 1 .. Len(faults) : faults[k] \in Task
  BY <1>1 DEF TypeOK
<1>4. FaultersWait'
  BY <1>1, <1>2, <1>3 DEF FaultersWait
<1>5. ServedWaits'
  BY <1>1, <1>2 DEF ServedWaits
<1>6. TouchedIsRoots'
  <2>1. SUFFICES ASSUME mpc' = "reply" PROVE owner'[taddr'[mtask']] = Root
    BY DEF TouchedIsRoots
  <2>2. mpc = "reply" /\ Serving
    BY <2>1 DEF Serving
  <2>3. mtask \in Task /\ Waits(mtask) /\ owner[taddr[mtask]] = Root
    BY <1>1, <2>2 DEF ServedWaits, TouchedIsRoots
  <2>4. taddr[mtask] \in Page
    BY <1>1, <2>3 DEF TypeOK
  <2>. QED
    BY <1>1, <2>3, <2>4, RootKeeps
<1>. QED
  BY <1>4, <1>5, <1>6

(* The task root is about to start is not there yet. *)
LEMMA CurrentIsAbsent ==
  ASSUME TypeOK, NotYetStarted, rpc # "taskserver"
  PROVE  tpc[current] = "absent"
<1>1. nth \in 1 .. 3
  BY DEF TypeOK, StartOrder
<1>2. CASE nth = 1
  BY <1>2 DEF NotYetStarted, current, StartOrder
<1>3. CASE nth = 2
  BY <1>3 DEF NotYetStarted, current, StartOrder
<1>4. CASE nth = 3
  BY <1>4 DEF NotYetStarted, current, StartOrder
<1>. QED
  BY <1>1, <1>2, <1>3, <1>4

LEMMA FaultStartTask ==
  ASSUME FaultInv, StartTask
  PROVE  FaultInv'
<1>1. TypeOK /\ rpc = "start" /\ current \in Task /\ nth \in 1 .. 3
  BY CurrentIsTask DEF FaultInv, StartTask, TypeOK, StartOrder
<1>2. TypeOK' /\ [Next]_vars
  BY <1>1, TypeRoot DEF RootStep, Next
<1>3. tpc[current] = "absent"
  BY <1>1, CurrentIsAbsent DEF FaultInv
<1>5. /\ boot' = boot /\ owner' = owner /\ tmap' = tmap
      /\ faults' = faults /\ mpc' = mpc /\ mtask' = mtask
  BY DEF StartTask, pagerVars
<1>6. \/ /\ tpc' = [tpc EXCEPT ![current] = "crt0"]
         /\ \E a : taddr' = [taddr EXCEPT ![current] = a]
         /\ IF nth < 3 THEN nth' = nth + 1 /\ rpc' = "find"
            ELSE rpc' = "taskserver" /\ nth' = nth
      \/ tpc' = tpc /\ taddr' = taddr /\ nth' = nth /\ rpc' = "panic"
  <2>1. Len(StartOrder) = 3
    BY DEF StartOrder
  <2>2. CASE current \in boot.refused
    BY <2>2 DEF StartTask
  <2>3. CASE current \notin boot.refused
    BY <2>1, <2>3 DEF StartTask
  <2>. QED
    BY <2>2, <2>3
<1>7. NotYetStarted'
  <2>1. CASE tpc' = tpc /\ nth' = nth
    BY <1>1, <2>1 DEF FaultInv, NotYetStarted
  <2>2. CASE /\ tpc' = [tpc EXCEPT ![current] = "crt0"]
             /\ nth < 3 /\ nth' = nth + 1
    <3>1. CASE nth = 1
      <4>1. current = MemoryServer
        BY <3>1 DEF current, StartOrder
      <4>. QED
        BY <1>1, <2>2, <3>1, <4>1, NameAssumption DEF FaultInv, NotYetStarted, TypeOK, Task
    <3>2. CASE nth = 2
      <4>1. current = FileServer
        BY <3>2 DEF current, StartOrder
      <4>. QED
        BY <1>1, <2>2, <3>2, <4>1, NameAssumption DEF FaultInv, NotYetStarted, TypeOK, Task
    <3>. QED
      BY <1>1, <2>2, <3>1, <3>2
  <2>3. CASE rpc' = "taskserver"
    BY <2>3 DEF NotYetStarted
  <2>. QED
    BY <1>6, <2>1, <2>2, <2>3
<1>8. ModuleThere'
  BY <1>6 DEF ModuleThere
<1>10. FaultersWait' /\ ServedWaits' /\ TouchedIsRoots'
  <2>1. \A t \in Task : Waits(t) => t # current
    BY <1>3 DEF Waits
  <2>2. \A t \in Task : t # current => tpc'[t] = tpc[t] /\ taddr'[t] = taddr[t]
    BY <1>1, <1>6 DEF TypeOK
  <2>3. \A t \in Task : Waits(t) => Waits(t)' /\ taddr'[t] = taddr[t]
    BY <1>5, <2>1, <2>2 DEF Waits
  <2>. QED
    BY <1>2, <1>5, <2>3, WaitersKept
<1>. QED
  BY <1>2, <1>7, <1>8, <1>10 DEF FaultInv

LEMMA FaultRoot ==
  ASSUME FaultInv, RootStep
  PROVE  FaultInv'
<1>1. TypeOK /\ TypeOK' /\ [Next]_vars
  BY TypeRoot DEF FaultInv, Next
<1>2. CASE ~StartTask
  <2>1. /\ boot' = boot /\ tpc' = tpc /\ taddr' = taddr /\ tmap' = tmap
        /\ faults' = faults /\ mtask' = mtask /\ nth' = nth
        /\ rpc = "taskserver" <=> rpc' = "taskserver"
    BY <1>2 DEF RootStep, GetBootinfo, StartMinipager, start_thread, FindModule,
       RequestModulePage, CheckHeader, LoadPage, LoadDone, TaskserverDiscards,
       rootVars, taskVars, pagerVars
  <2>2. mpc' = mpc \/ mpc' = "wait" \/ (mpc = "faulting" /\ mpc' = "unanswered")
    BY <1>2 DEF RootStep, GetBootinfo, StartMinipager, start_thread, FindModule,
       RequestModulePage, CheckHeader, LoadPage, LoadDone, TaskserverDiscards,
       pagerVars
  <2>3. ModuleThere'
    <3>1. rpc' \in {"request", "load", "start"} =>
            boot.module[current] # "missing" \/ rpc \in {"request", "load", "start"}
      BY <1>2 DEF RootStep, GetBootinfo, StartMinipager, start_thread, FindModule,
         RequestModulePage, CheckHeader, LoadPage, LoadDone, TaskserverDiscards, rootVars
    <3>. QED
      BY <2>1, <3>1 DEF FaultInv, ModuleThere, current
  <2>4. FaultersWait' /\ ServedWaits' /\ TouchedIsRoots'
    BY <1>1, <2>1, <2>2, WaitersKept DEF Waits
  <2>. QED
    BY <1>1, <2>1, <2>3, <2>4 DEF FaultInv, NotYetStarted
<1>. QED
  BY <1>2, FaultStartTask

LEMMA FaultMinipager ==
  ASSUME FaultInv, MinipagerStep
  PROVE  FaultInv'
<1>1. TypeOK /\ TypeOK'
  BY TypeMinipager DEF FaultInv
<1>2. /\ boot' = boot /\ tpc' = tpc /\ taddr' = taddr /\ owner' = owner
      /\ nth' = nth /\ rpc' = rpc
  BY DEF MinipagerStep, MinipagerReceive, MinipagerTouch, MinipagerReply,
         rootVars, taskVars
<1>3. NotYetStarted' /\ ModuleThere'
  BY <1>2 DEF FaultInv, NotYetStarted, ModuleThere, current
<1>4. CASE MinipagerReceive
  <2>1. /\ faults # <<>> /\ mtask' = Head(faults) /\ faults' = Tail(faults)
        /\ mpc' = "touch" /\ tmap' = tmap
    BY <1>4 DEF MinipagerReceive
  <2>2. faults \in Seq(Task) /\ Len(faults) >= 1 /\ mtask' = faults[1]
    BY <1>1, <2>1 DEF TypeOK
  <2>3. /\ Len(faults') = Len(faults) - 1
        /\ \A k \in 1 .. Len(faults') : faults'[k] = faults[k + 1]
    BY <2>1, <2>2
  <2>4. \A k \in 1 .. Len(faults') : /\ k + 1 \in 1 .. Len(faults)
                                     /\ Waits(faults[k + 1]) /\ faults[k + 1] # faults[1]
    <3>. SUFFICES ASSUME NEW k \in 1 .. Len(faults')
                  PROVE  /\ k + 1 \in 1 .. Len(faults)
                         /\ Waits(faults[k + 1]) /\ faults[k + 1] # faults[1]
      OBVIOUS
    <3>1. k + 1 \in 1 .. Len(faults) /\ 1 \in 1 .. Len(faults) /\ k + 1 # 1
      BY <2>2, <2>3
    <3>2. Waits(faults[k + 1])
      BY <3>1 DEF FaultInv, FaultersWait
    <3>3. faults[k + 1] # faults[1]
      BY <3>1 DEF FaultInv, FaultersWait
    <3>. QED
      BY <3>1, <3>2, <3>3
  <2>5. FaultersWait'
    <3>1. \A k \in 1 .. Len(faults') : Waits(faults[k])' /\ faults'[k] # mtask'
      BY <1>2, <2>1, <2>2, <2>3, <2>4 DEF Waits
    <3>2. ASSUME NEW j \in 1 .. Len(faults'), NEW k \in 1 .. Len(faults'),
                 faults'[j] = faults'[k]
          PROVE  j = k
      <4>1. faults[j + 1] = faults[k + 1]
        BY <2>3, <3>2
      <4>2. j + 1 = k + 1
        BY <2>4, <4>1 DEF FaultInv, FaultersWait
      <4>. QED
        BY <2>2, <2>3, <4>2
    <3>3. \A j, k \in 1 .. Len(faults') : faults'[j] = faults'[k] => j = k
      BY <3>2
    <3>. QED
      BY <3>1, <3>3 DEF FaultersWait
  <2>6. ServedWaits'
    <3>1. Waits(faults[1]) /\ faults[1] \in Task
      BY <2>2 DEF FaultInv, FaultersWait
    <3>. QED
      BY <1>2, <2>1, <2>2, <3>1 DEF ServedWaits, Waits
  <2>7. TouchedIsRoots'
    BY <2>1 DEF TouchedIsRoots
  <2>. QED
    BY <1>1, <1>3, <2>5, <2>6, <2>7 DEF FaultInv
<1>5. CASE MinipagerTouch
  <2>1. /\ mtask' = mtask /\ faults' = faults /\ tmap' = tmap
        /\ mpc = "touch" /\ Serving /\ Serving'
        /\ mpc' = "reply" => owner[taddr[mtask]] = Root
    BY <1>5 DEF MinipagerTouch, Serving
  <2>2. FaultersWait' /\ ServedWaits'
    BY <1>2, <2>1 DEF FaultInv, FaultersWait, ServedWaits, Waits
  <2>3. TouchedIsRoots'
    BY <1>2, <2>1 DEF TouchedIsRoots
  <2>. QED
    BY <1>1, <1>3, <2>2, <2>3 DEF FaultInv
<1>6. CASE MinipagerReply
  <2>1. /\ tmap' = [tmap EXCEPT ![mtask] = @ \cup {taddr[mtask]}]
        /\ mpc = "reply" /\ mpc' = "wait" /\ faults' = faults
    BY <1>6 DEF MinipagerReply
  <2>2. Serving /\ ~Serving'
    BY <2>1 DEF Serving
  <2>5. \A t \in Task : t # mtask => tmap'[t] = tmap[t]
    BY <1>1, <2>1 DEF TypeOK
  <2>6. FaultersWait'
    <3>1. \A k \in 1 .. Len(faults) : faults[k] \in Task /\ faults[k] # mtask
      BY <1>1, <2>2 DEF TypeOK, FaultInv, FaultersWait
    <3>. QED
      BY <1>2, <2>1, <2>2, <2>5, <3>1 DEF FaultInv, FaultersWait, Waits
  <2>7. ServedWaits' /\ TouchedIsRoots'
    BY <2>1, <2>2 DEF ServedWaits, TouchedIsRoots
  <2>. QED
    BY <1>1, <1>3, <2>6, <2>7 DEF FaultInv
<1>. QED
  BY <1>4, <1>5, <1>6 DEF MinipagerStep

(* A page fault queues the task's thread once more behind the others. *)
LEMMA FaultPageFault ==
  ASSUME FaultInv, NEW t \in Task, PageFault(t)
  PROVE  FaultInv'
<1>1. TypeOK /\ TypeOK'
  BY DEF FaultInv, PageFault, rootVars, taskVars, TypeOK
<1>2. /\ boot' = boot /\ tpc' = tpc /\ taddr' = taddr /\ owner' = owner
      /\ nth' = nth /\ rpc' = rpc /\ tmap' = tmap /\ mpc' = mpc /\ mtask' = mtask
  BY DEF PageFault, rootVars, taskVars
<1>3. /\ Waits(t) /\ t # mtask
      /\ \A k \in 1 .. Len(faults) : faults[k] # t
      /\ faults' = Append(faults, t)
  BY DEF PageFault, Faulting, Waits
<1>4. /\ faults \in Seq(Task) /\ Len(faults) \in Nat
      /\ Len(faults') = Len(faults) + 1
      /\ faults'[Len(faults) + 1] = t
      /\ \A k \in 1 .. Len(faults) : faults'[k] = faults[k]
  BY <1>1, <1>3 DEF TypeOK
<1>5. FaultersWait'
  <2>1. \A k \in 1 .. Len(faults') : /\ Waits(faults[k])'
                                     /\ Serving' => faults'[k] # mtask'
    <3>. SUFFICES ASSUME NEW k \in 1 .. Len(faults')
                  PROVE  Waits(faults[k])' /\ (Serving' => faults'[k] # mtask')
      OBVIOUS
    <3>1. CASE k \in 1 .. Len(faults)
      BY <1>2, <1>4, <3>1 DEF FaultInv, FaultersWait, Waits, Serving
    <3>2. CASE k = Len(faults) + 1
      BY <1>2, <1>3, <1>4, <3>2 DEF Waits
    <3>. QED
      BY <1>4, <3>1, <3>2
  <2>2. \A j, k \in 1 .. Len(faults') : faults'[j] = faults'[k] => j = k
    BY <1>3, <1>4 DEF FaultInv, FaultersWait
  <2>. QED
    BY <2>1, <2>2 DEF FaultersWait
<1>6. ServedWaits' /\ TouchedIsRoots'
  BY <1>2 DEF FaultInv, ServedWaits, Serving, Waits, TouchedIsRoots
<1>7. NotYetStarted' /\ ModuleThere'
  BY <1>2 DEF FaultInv, NotYetStarted, ModuleThere, current
<1>. QED
  BY <1>1, <1>5, <1>6, <1>7 DEF FaultInv

(* What a task that is there does changes that task only, which does not   *)
(* wait for a page, and maps nothing but what the memory server took.      *)
Moves(c) ==
  /\ ~Waits(c) /\ tpc[c] # "absent" /\ tpc'[c] # "absent"
  /\ \A u \in Task : u # c => /\ tpc'[u] = tpc[u] /\ taddr'[u] = taddr[u]
                             /\ tmap'[u] = tmap[u]
  /\ \/ tmap' = tmap
     \/ /\ c = MemoryServer
        /\ \A p \in tmap'[c] : p \in tmap[c] \/ owner'[p] = MemoryServer

LEMMA OneTaskMoves ==
  ASSUME TypeOK, NEW t \in Task, TaskStep(t), ~PageFault(t)
  PROVE  \E c \in Task : Moves(c)
<1>1. CASE RunText(t) \/ ClearBss(t) \/ RunForeign(t)
  <2>1. /\ ~Waits(t) /\ tpc[t] = "crt0" /\ tmap' = tmap
        /\ \A u \in Task : u # t => tpc'[u] = tpc[u] /\ taddr'[u] = taddr[u]
    BY <1>1 DEF RunText, ClearBss, RunForeign, Waits, pagerVars, TypeOK
  <2>2. tpc'[t] # "absent"
    BY <1>1, <2>1 DEF RunText, ClearBss, RunForeign, TypeOK
  <2>. QED
    BY <2>1, <2>2 DEF Moves
<1>2. CASE Grab
  <2>. DEFINE c == MemoryServer
  <2>1. /\ c \in Task /\ tpc[c] = "main" /\ taddr' = taddr
    BY <1>2 DEF Grab, Task
  <2>2. tpc'[c] \in {"main", "serve"} /\ \A u \in Task : u # c => tpc'[u] = tpc[u]
    BY <1>2, <2>1 DEF Grab, TypeOK
  <2>3. /\ \A u \in Task : u # c => tmap'[u] = tmap[u]
        /\ \A p \in tmap'[c] : p \in tmap[c] \/ owner'[p] = MemoryServer
    <3>1. CASE UNCHANGED tmap
      BY <3>1
    <3>2. CASE \E s : /\ Give(MemoryServer, SuperPage(s))
                      /\ tmap' = [tmap EXCEPT ![MemoryServer] = @ \cup SuperPage(s)]
      BY <2>1, <3>2 DEF Give, SuperPage, TypeOK
    <3>. QED
      BY <1>2, <3>1, <3>2 DEF Grab
  <2>. QED
    BY <2>1, <2>2, <2>3 DEF Waits, Moves
<1>3. CASE EnterLoop \/ ServeRead \/ CallRead
  <2>1. taddr' = taddr /\ tmap' = tmap
    BY <1>3 DEF EnterLoop, ServeRead, CallRead, pagerVars
  <2>2. \E c \in Task : /\ tpc[c] \in {"main", "calling"}
                        /\ \E x \in {"serve", "spin", "calling"} :
                             tpc' = [tpc EXCEPT ![c] = x]
    BY <1>3 DEF EnterLoop, ServeRead, CallRead, Task
  <2>3. PICK c \in Task : /\ tpc[c] \in {"main", "calling"}
                         /\ \E x \in {"serve", "spin", "calling"} :
                              tpc' = [tpc EXCEPT ![c] = x]
    BY <2>2
  <2>4. /\ tpc'[c] \in {"serve", "spin", "calling"}
        /\ \A u \in Task : u # c => tpc'[u] = tpc[u]
    BY <2>3 DEF TypeOK
  <2>. QED
    BY <2>1, <2>3, <2>4 DEF Waits, Moves
<1>. QED
  BY <1>1, <1>2, <1>3 DEF TaskStep

LEMMA FaultTask ==
  ASSUME FaultInv, NEW t \in Task, TaskStep(t)
  PROVE  FaultInv'
<1>1. TypeOK /\ TypeOK' /\ [Next]_vars
  BY TypeTask DEF FaultInv, Next
<1>2. CASE ~PageFault(t)
  <2>1. /\ boot' = boot /\ nth' = nth /\ rpc' = rpc
        /\ faults' = faults /\ mtask' = mtask /\ mpc' = mpc
    BY <1>2 DEF TaskStep, RunText, ClearBss, RunForeign, Grab, EnterLoop, ServeRead,
                CallRead, rootVars, pagerVars
  <2>2. PICK c \in Task : Moves(c)
    BY <1>1, <1>2, OneTaskMoves
  <2>3. NotYetStarted'
    BY <2>1, <2>2 DEF Moves, FaultInv, NotYetStarted, Task
  <2>4. ModuleThere'
    BY <2>1 DEF FaultInv, ModuleThere, current
  <2>6. FaultersWait' /\ ServedWaits' /\ TouchedIsRoots'
    <3>1. \A u \in Task : Waits(u) => Waits(u)' /\ taddr'[u] = taddr[u]
      BY <2>2 DEF Moves, Waits
    <3>. QED
      BY <1>1, <2>1, <3>1, WaitersKept
  <2>. QED
    BY <1>1, <2>3, <2>4, <2>6 DEF FaultInv
<1>. QED
  BY <1>2, FaultPageFault

LEMMA FaultStep ==
  ASSUME FaultInv, [Next]_vars
  PROVE  FaultInv'
<1>1. CASE UNCHANGED vars
  <2>1. UNCHANGED rootVars /\ UNCHANGED taskVars /\ UNCHANGED pagerVars
    BY <1>1 DEF vars, rootVars, taskVars, pagerVars
  <2>2. UNCHANGED <<boot, rpc, nth, tpc, tmap, taddr, faults, mpc, mtask>>
    BY <1>1 DEF vars, rootVars, taskVars, pagerVars
  <2>3. TypeOK'
    BY <1>1 DEF FaultInv, TypeOK, vars, rootVars, taskVars, pagerVars
  <2>4. NotYetStarted' /\ ModuleThere'
    BY <2>2 DEF FaultInv, NotYetStarted, ModuleThere, current
  <2>5. \A t \in Task : Waits(t) => Waits(t)' /\ taddr'[t] = taddr[t]
    BY <2>2 DEF Waits
  <2>6. FaultersWait' /\ ServedWaits' /\ TouchedIsRoots'
    BY <2>2, <2>5, WaitersKept
  <2>. QED
    BY <2>3, <2>4, <2>6 DEF FaultInv
<1>. QED
  BY <1>1, FaultRoot, FaultMinipager, FaultTask DEF Next

(* What is found is an executable, since none is a bad one. *)
LEMMA FoundIsGood ==
  ASSUME NoBadElf, IsoInv, rpc \in {"request", "load", "start"}
  PROVE  boot.module[current] = "good"
<1>1. current \in Task /\ boot \in Boots /\ boot.module[current] # "missing"
  BY CurrentIsTask DEF IsoInv, FaultInv, TypeOK, ModuleThere
<1>2. boot.module[current] \in {"good", "bad_elf", "missing"}
  BY <1>1, BootAssumption
<1>. QED
  BY <1>1, <1>2 DEF NoBadElf

(* A thread starts at its image's first page and goes on to the next one   *)
(* until it has cleared the last.                                          *)
LEMMA AddrInImageStep ==
  ASSUME NoBadElf, IsoInv, [Next]_vars
  PROVE  AddrInImage'
<1>1. TypeOK /\ AddrInImage
  BY DEF IsoInv, FaultInv
<1>. SUFFICES ASSUME NEW t \in Task, tpc'[t] = "crt0" PROVE taddr'[t] \in Image(t)
  BY DEF AddrInImage
<1>2. CASE StartTask /\ t = current /\ current \notin boot.refused
  <2>1. boot.module[t] = "good"
    BY <1>2, FoundIsGood DEF StartTask
  <2>2. taddr'[t] = Layout[t].base
    BY <1>1, <1>2, <2>1 DEF StartTask, TypeOK
  <2>. QED
    BY <2>2, LayoutBounds DEF Image, FilePages
<1>3. CASE Stays(t) \/ GoesOn(t)
  BY <1>1, <1>3 DEF Stays, GoesOn, AddrInImage
<1>4. CASE RunText(t)
  BY <1>1, <1>4, LayoutBounds DEF RunText, Image, FilePages, BssPages, TypeOK
<1>5. CASE ClearBss(t)
  <2>1. taddr[t] # Layout[t].end /\ taddr'[t] = taddr[t] + 1 /\ taddr[t] \in BssPages(t)
    BY <1>1, <1>5 DEF ClearBss, TypeOK
  <2>. QED
    BY <2>1, LayoutBounds DEF Image, BssPages
<1>6. ~RunForeign(t)
  BY <1>1 DEF RunForeign, TypeOK
<1>. QED
  BY <1>1, <1>2, <1>3, <1>4, <1>5, <1>6, ThreadStep

(* Mappings come from the minipager, which maps a page of the image it is  *)
(* asked for, or with the pages the memory server takes.                   *)
LEMMA MapsOwnStep ==
  ASSUME IsoInv, [Next]_vars
  PROVE  MapsOwn'
<1>1. TypeOK /\ MapsOwn /\ AddrInImage /\ ServedWaits /\ TouchedIsRoots
  BY DEF IsoInv, FaultInv
<1>. SUFFICES ASSUME NEW t \in Task, NEW p \in tmap'[t]
              PROVE  \/ p \in Image(t) /\ owner'[p] = Root
                     \/ t = MemoryServer /\ owner'[p] = MemoryServer
  BY DEF MapsOwn
<1>2. CASE p \in tmap[t]
  BY <1>1, <1>2, MapsKept
<1>3. CASE p \notin tmap[t]
  <2>1. CASE MinipagerReply
    <3>1. mpc = "reply" /\ owner' = owner /\ Serving
      BY <2>1 DEF MinipagerReply, Serving
    <3>2. mtask \in Task /\ Waits(mtask) /\ owner[taddr[mtask]] = Root
      BY <1>1, <3>1 DEF ServedWaits, TouchedIsRoots
    <3>3. t = mtask /\ p = taddr[mtask]
      BY <1>1, <1>3, <2>1, <3>2 DEF MinipagerReply, TypeOK
    <3>. QED
      BY <1>1, <3>1, <3>2, <3>3 DEF AddrInImage, Waits
  <2>2. ASSUME NEW u \in Task, TaskStep(u), ~PageFault(u)
        PROVE  t = MemoryServer /\ owner'[p] = MemoryServer
    <3>1. PICK c \in Task : Moves(c)
      BY <1>1, <2>2, OneTaskMoves
    <3>. QED
      BY <1>3, <3>1 DEF Moves
  <2>3. CASE ~MinipagerReply /\ \A u \in Task : TaskStep(u) => PageFault(u)
    <3>1. tmap' = tmap
      BY <2>3 DEF Next, MinipagerStep, MinipagerReceive, MinipagerTouch, PageFault,
         RootStep, GetBootinfo, StartMinipager, FindModule, RequestModulePage,
         CheckHeader, LoadPage, LoadDone, StartTask, TaskserverDiscards, vars, pagerVars
    <3>. QED
      BY <1>3, <3>1
  <2>. QED
    BY <2>1, <2>2, <2>3
<1>. QED
  BY <1>2, <1>3

LEMMA IsoStep ==
  ASSUME NoBadElf, IsoInv, [Next]_vars
  PROVE  IsoInv'
BY FaultStep, AddrInImageStep, MapsOwnStep DEF IsoInv

LEMMA IsoMeansIsolation ==
  ASSUME DisjointImages, IsoInv
  PROVE  Isolation
<1>. SUFFICES ASSUME NEW t \in Task, NEW u \in Task, t # u,
                     NEW p, p \in tmap[t], p \in tmap[u]
              PROVE  FALSE
  BY DEF Isolation
<1>1. Root # MemoryServer
  BY NameAssumption DEF Task
<1>2. p \notin Image(t) \/ p \notin Image(u)
  BY DEF DisjointImages
<1>. QED
  BY <1>1, <1>2 DEF IsoInv, FaultInv, MapsOwn

(* Although the minipager maps every page that is asked for, no page is    *)
(* ever mapped in two tasks, if the images do not overlap and every module *)
(* that is there is an executable: a task asks for pages of its own image, *)
(* the minipager maps root's only, and what the memory server takes is no  *)
(* longer root's to map.                                                   *)
THEOREM TasksAreIsolated ==
  ASSUME DisjointImages, NoBadElf
  PROVE  Spec => []Isolation
<1>1. IsoInv /\ [Next]_vars => IsoInv'
  BY IsoStep
<1>2. IsoInv => Isolation
  BY IsoMeansIsolation
<1>. QED
  BY IsoInit, <1>1, <1>2, PTL DEF Spec

-----------------------------------------------------------------------------
(***************************************************************************)
(* Proofs that what load_elfimage copied stays what the task finds: in     *)
(* every interleaving of root's loading with the tasks that run already,   *)
(* for any number of pages and any layout in which nothing overlaps.       *)
(***************************************************************************)

NothingOverlaps ==
  /\ DisjointImages
  /\ \A t, u \in Task : t # u => ModPages(t) \cap ModPages(u) = {}
  /\ \A t, u \in Task : Image(t) \cap ModPages(u) = {}

-----------------------------------------------------------------------------
HoldsText(t) == \A p \in FilePages(t) : content[p] = FileData(t)

(* No write hits a module, so whatever root copies is the file's.          *)
ModulesIntact == \A t \in Task : ModuleIntact(t)

(* The text of the task being loaded is there up to addr; when the task is *)
(* about to start, all of it is.                                           *)
TextSoFar ==
  /\ rpc = "load" =>
       \A p \in FilePages(current) : p < addr => content[p] = FileData(current)
  /\ rpc = "start" => HoldsText(current)

(* Whoever is there has its text, and what it has cleared is its own.      *)
TextStays == \A t \in Task : Exists(t) => HoldsText(t)
NoneWild  == \A t \in Task : tpc[t] # "wild"
BssSoFar  ==
  \A t \in Task : tpc[t] = "crt0" =>
    \A p \in BssPages(t) : p < taddr[t] => content[p] = LiveBss(t)

ImageInv ==
  /\ IsoInv /\ AddrInLoop
  /\ ModulesIntact /\ TextSoFar /\ TextStays /\ NoneWild /\ BssSoFar /\ BssIntact

-----------------------------------------------------------------------------
(* Where a module lies nothing else does: GRUB left it there whole. *)
LEMMA ModulesAtFirst ==
  ASSUME NothingOverlaps, Init
  PROVE  ModulesIntact
<1>. SUFFICES ASSUME NEW t \in Task, NEW p \in ModPages(t)
              PROVE  content[p] = Module(t)
  BY DEF ModulesIntact, ModuleIntact
<1>1. p \in Page
  BY PagesOfTask
<1>2. \A u \in Task : p \in ModPages(u) => u = t
  BY DEF NothingOverlaps
<1>3. (CHOOSE u \in Task : p \in ModPages(u)) = t
  BY <1>2
<1>. QED
  BY <1>1, <1>3 DEF Init

LEMMA ImageInit ==
  ASSUME NothingOverlaps, Init
  PROVE  ImageInv
<1>1. rpc = "bootinfo" /\ tpc = [t \in Task |-> "absent"]
  BY DEF Init
<1>. QED
  BY <1>1, IsoInit, ModulesAtFirst
     DEF ImageInv, AddrInLoop, TextSoFar, TextStays, NoneWild, BssSoFar, BssIntact,
         Exists, Running

(* Pages are written by root, in the image it loads, and by a starting     *)
(* task, in its own bss.                                                   *)
LEMMA WhoWrites ==
  ASSUME TypeOK, AddrInLoop, [Next]_vars
  PROVE  \/ content' = content
         \/ /\ LoadPage /\ addr \in Image(current)
            /\ content' = [content EXCEPT ![addr] = LoadedPage(current, addr)]
         \/ \E t \in Task : ClearBss(t)
<1>1. CASE LoadPage
  <2>1. current \in Task
    BY CurrentIsTask DEF TypeOK
  <2>2. addr <= Layout[current].end => addr \in Image(current)
    BY <1>1, <2>1, LayoutBounds
       DEF LoadPage, Image, FilePages, BssPages, AddrInLoop, TypeOK
  <2>. QED
    BY <1>1, <2>2 DEF LoadPage
<1>2. CASE RootStep /\ ~LoadPage
  BY <1>2 DEF RootStep, GetBootinfo, StartMinipager, FindModule, RequestModulePage,
              CheckHeader, LoadDone, StartTask, TaskserverDiscards
<1>3. CASE MinipagerStep
  BY <1>3 DEF MinipagerStep, MinipagerReceive, MinipagerTouch, MinipagerReply
<1>4. ASSUME NEW t \in Task, TaskStep(t), ~ClearBss(t)
      PROVE  content' = content
  BY <1>4 DEF TaskStep, PageFault, RunText, RunForeign, Grab, EnterLoop, CallRead,
              ServeRead
<1>5. CASE UNCHANGED vars
  BY <1>5 DEF vars
<1>. QED
  BY <1>1, <1>2, <1>3, <1>4, <1>5 DEF Next

(* The two kinds of writer keep off each other's pages and the modules. *)
LEMMA WritesAreLocal ==
  ASSUME TypeOK, AddrInLoop, [Next]_vars
  PROVE  \E w \in Task :
           /\ \A p \in Page : p \notin Image(w) => content'[p] = content[p]
           /\ \/ content' = content
              \/ w = current /\ LoadPage
              \/ ClearBss(w) /\ \A p \in FilePages(w) : content'[p] = content[p]
<1>1. MemoryServer \in Task /\ current \in Task
  BY CurrentIsTask DEF Task, TypeOK
<1>2. CASE content' = content
  BY <1>1, <1>2
<1>3. CASE /\ LoadPage /\ addr \in Image(current)
           /\ content' = [content EXCEPT ![addr] = LoadedPage(current, addr)]
  BY <1>1, <1>3 DEF TypeOK
<1>4. ASSUME NEW t \in Task, ClearBss(t)
      PROVE  /\ \A p \in Page : p \notin Image(t) => content'[p] = content[p]
             /\ \A p \in FilePages(t) : content'[p] = content[p]
  <2>1. /\ content' = [content EXCEPT ![taddr[t]] = LiveBss(t)]
        /\ taddr[t] \in BssPages(t)
    BY <1>4 DEF ClearBss
  <2>2. \A p \in FilePages(t) : p # taddr[t]
    BY <2>1, LayoutBounds DEF FilePages, BssPages
  <2>3. \A p \in FilePages(t) : p \in Page
    BY PagesOfTask DEF Image
  <2>. QED
    BY <2>1, <2>2, <2>3 DEF Image, TypeOK
<1>. QED
  BY <1>2, <1>3, <1>4, WhoWrites

(* So nothing but root's loading of its image changes a task's text, and   *)
(* nothing but the task itself its bss once it is there.                   *)
LEMMA ImageKept ==
  ASSUME NothingOverlaps, TypeOK, AddrInLoop, [Next]_vars, NEW t \in Task
  PROVE  /\ \A p \in ModPages(t) : content'[p] = content[p]
         /\ ~(LoadPage /\ t = current) =>
              \A p \in FilePages(t) : content'[p] = content[p]
         /\ ~(LoadPage /\ t = current) /\ ~ClearBss(t) =>
              \A p \in BssPages(t) : content'[p] = content[p]
<1>1. PICK w \in Task :
        /\ \A p \in Page : p \notin Image(w) => content'[p] = content[p]
        /\ \/ content' = content
           \/ w = current /\ LoadPage
           \/ ClearBss(w) /\ \A p \in FilePages(w) : content'[p] = content[p]
  BY WritesAreLocal
<1>2. /\ \A p \in ModPages(t) : p \in Page /\ p \notin Image(w)
      /\ w # t => \A p \in Image(t) : p \in Page /\ p \notin Image(w)
  BY PagesOfTask DEF NothingOverlaps, DisjointImages
<1>. QED
  BY <1>1, <1>2 DEF Image

(* A task that is there is not the one root is loading. *)
LEMMA LoadedIsNotThere ==
  ASSUME TypeOK, NotYetStarted, NEW t \in Task, Exists(t), rpc # "taskserver"
  PROVE  t # current
BY CurrentIsAbsent DEF Exists

LEMMA ImageLoadPage ==
  ASSUME NothingOverlaps, ImageInv, LoadPage
  PROVE  TextSoFar'
<1>1. /\ TypeOK /\ AddrInLoop /\ TextSoFar /\ current \in Task
      /\ ModuleIntact(current) /\ current' = current
  BY CurrentIsTask
     DEF ImageInv, IsoInv, FaultInv, TypeOK, ModulesIntact, LoadPage, current
<1>2. CASE rpc' = "stuck"
  BY <1>2 DEF TextSoFar
<1>3. CASE rpc' # "stuck"
  <2>1. /\ rpc = "load" /\ rpc' = "load" /\ addr' = addr + 1
        /\ content' = [content EXCEPT ![addr] = LoadedPage(current, addr)]
    BY <1>3 DEF LoadPage
  <2>2. \A p \in FilePages(current) : p \in Page /\ p \notin BssPages(current)
    BY <1>1, PagesOfTask, LayoutBounds DEF Image, FilePages, BssPages
  <2>3. \A p \in FilePages(current) : p < addr + 1 => p < addr \/ p = addr
    BY <1>1, LayoutBounds DEF FilePages, TypeOK
  <2>4. \A p \in FilePages(current) : p < addr + 1 => content'[p] = FileData(current)
    <3>. SUFFICES ASSUME NEW p \in FilePages(current), p < addr + 1
                  PROVE  content'[p] = FileData(current)
      OBVIOUS
    <3>1. CASE p = addr
      BY <1>1, <2>1, <2>2, <3>1 DEF LoadedPage, TypeOK
    <3>2. CASE p # addr
      BY <1>1, <2>1, <2>2, <2>3, <3>2 DEF TextSoFar, TypeOK
    <3>. QED
      BY <3>1, <3>2
  <2>. QED
    BY <1>1, <2>1, <2>4 DEF TextSoFar
<1>. QED
  BY <1>2, <1>3

(* Root reaches the start of a task with the text in place. *)
LEMMA TextSoFarStep ==
  ASSUME NothingOverlaps, NoBadElf, ImageInv, [Next]_vars
  PROVE  TextSoFar'
<1>1. TypeOK /\ AddrInLoop /\ TextSoFar /\ IsoInv /\ current \in Task
  BY CurrentIsTask DEF ImageInv, IsoInv, FaultInv, TypeOK
<1>2. ~LoadPage => \A p \in FilePages(current) : content'[p] = content[p]
  BY <1>1, ImageKept
<1>3. CASE rpc' = rpc /\ nth' = nth /\ addr' = addr /\ ~LoadPage
  BY <1>1, <1>2, <1>3 DEF TextSoFar, HoldsText, current
<1>4. CASE CheckHeader
  <2>1. rpc' = "load" /\ addr' = Layout[current].base /\ nth' = nth
    BY <1>1, <1>4, FoundIsGood DEF CheckHeader
  <2>2. \A p \in FilePages(current) : ~(p < Layout[current].base)
    BY <1>1, LayoutBounds DEF FilePages
  <2>. QED
    BY <2>1, <2>2 DEF TextSoFar, current
<1>5. CASE LoadDone
  <2>1. /\ rpc = "load" /\ rpc' = "start" /\ addr > Layout[current].end
        /\ nth' = nth /\ content' = content
    BY <1>5 DEF LoadDone
  <2>2. \A p \in FilePages(current) : p < addr
    BY <1>1, <2>1, LayoutBounds DEF FilePages, TypeOK
  <2>. QED
    BY <1>1, <2>1, <2>2 DEF TextSoFar, HoldsText, current
<1>6. CASE RootStep /\ ~LoadPage /\ ~CheckHeader /\ ~LoadDone
  <2>1. rpc' \notin {"load", "start"} \/ (rpc' = rpc /\ nth' = nth /\ addr' = addr)
    BY <1>6 DEF RootStep, GetBootinfo, StartMinipager, start_thread, FindModule,
                RequestModulePage, StartTask, TaskserverDiscards, rootVars
  <2>. QED
    BY <1>3, <1>6, <2>1 DEF TextSoFar
<1>7. CASE ~RootStep
  BY <1>1, <1>3, <1>7, OthersKeepRoot DEF RootStep
<1>. QED
  BY <1>4, <1>5, <1>6, <1>7, ImageLoadPage

(* A task that is there keeps its text; root starts one that has it all.   *)
LEMMA TextStaysStep ==
  ASSUME NothingOverlaps, ImageInv, [Next]_vars
  PROVE  TextStays'
<1>1. TypeOK /\ AddrInLoop /\ NotYetStarted /\ TextSoFar /\ TextStays
  BY DEF ImageInv, IsoInv, FaultInv
<1>. SUFFICES ASSUME NEW t \in Task, Exists(t)'
              PROVE  HoldsText(t)'
  BY DEF TextStays
<1>2. CASE Exists(t)
  <2>1. ~(LoadPage /\ t = current)
    BY <1>1, <1>2, LoadedIsNotThere DEF LoadPage
  <2>. QED
    BY <1>1, <1>2, <2>1, ImageKept DEF TextStays, HoldsText
<1>3. CASE ~Exists(t)
  <2>1. StartTask /\ t = current
    BY <1>1, <1>3, ThreadStep
       DEF Exists, Stays, GoesOn, RunText, ClearBss, RunForeign
  <2>. QED
    BY <1>1, <2>1 DEF TextSoFar, HoldsText, StartTask
<1>. QED
  BY <1>2, <1>3

(* A thread that runs inside an image whose text is in place never meets   *)
(* anything else.                                                          *)
LEMMA NoneWildStep ==
  ASSUME NothingOverlaps, ImageInv, [Next]_vars
  PROVE  NoneWild'
<1>1. TypeOK /\ AddrInImage /\ TextStays /\ NoneWild
  BY DEF ImageInv, IsoInv, FaultInv
<1>. SUFFICES ASSUME NEW t \in Task PROVE tpc'[t] # "wild"
  BY DEF NoneWild
<1>2. ~RunForeign(t)
  BY <1>1 DEF RunForeign, AddrInImage, Image, TextStays, HoldsText, Exists
<1>3. CASE StartTask /\ t = current /\ current \notin boot.refused
  BY <1>1, <1>3 DEF StartTask, TypeOK
<1>4. CASE RunText(t) \/ ClearBss(t)
  <2>1. tpc' = tpc \/ tpc' = [tpc EXCEPT ![t] = "main"]
    BY <1>4 DEF RunText, ClearBss
  <2>. QED
    BY <1>1, <2>1 DEF NoneWild, TypeOK
<1>5. CASE Stays(t) \/ GoesOn(t)
  BY <1>1, <1>5 DEF NoneWild, Stays, GoesOn
<1>. QED
  BY <1>1, <1>2, <1>3, <1>4, <1>5, ThreadStep

(* A starting task clears its bss page by page and enters main behind the  *)
(* last one; nobody else writes there.                                     *)
LEMMA BssStep ==
  ASSUME NothingOverlaps, NoBadElf, ImageInv, [Next]_vars
  PROVE  BssSoFar' /\ BssIntact'
<1>1. /\ TypeOK /\ AddrInLoop /\ NotYetStarted /\ AddrInImage /\ IsoInv
      /\ BssSoFar /\ BssIntact /\ NoneWild'
  BY NoneWildStep DEF ImageInv, IsoInv, FaultInv
<1>2. SUFFICES ASSUME NEW t \in Task
               PROVE  /\ tpc'[t] = "crt0" =>
                           \A p \in BssPages(t) : p < taddr'[t] => content'[p] = LiveBss(t)
                      /\ Running(t)' =>
                           \A p \in BssPages(t) : content'[p] = LiveBss(t)
  BY DEF BssSoFar, BssIntact
<1>3. Exists(t) /\ ~ClearBss(t) => \A p \in BssPages(t) : content'[p] = content[p]
  BY <1>1, ImageKept, LoadedIsNotThere DEF LoadPage
<1>4. CASE ClearBss(t)
  <2>1. /\ content' = [content EXCEPT ![taddr[t]] = LiveBss(t)]
        /\ taddr[t] \in BssPages(t) /\ tpc[t] = "crt0"
        /\ IF taddr[t] = Layout[t].end
           THEN tpc' = [tpc EXCEPT ![t] = "main"] /\ taddr' = taddr
           ELSE taddr' = [taddr EXCEPT ![t] = @ + 1] /\ tpc' = tpc
    BY <1>4 DEF ClearBss
  <2>2. \A p \in BssPages(t) : p < taddr[t] \/ p = taddr[t] => content'[p] = LiveBss(t)
    BY <1>1, <2>1, PagesOfTask DEF BssSoFar, Image, TypeOK
  <2>3. CASE taddr[t] = Layout[t].end
    <3>1. \A p \in BssPages(t) : p < taddr[t] \/ p = taddr[t]
      BY <1>1, <2>1, <2>3, LayoutBounds DEF BssPages, TypeOK
    <3>2. tpc'[t] = "main"
      BY <1>1, <2>1, <2>3 DEF TypeOK
    <3>. QED
      BY <2>2, <3>1, <3>2
  <2>4. CASE taddr[t] # Layout[t].end
    <3>1. taddr'[t] = taddr[t] + 1 /\ tpc'[t] = "crt0"
      BY <1>1, <2>1, <2>4 DEF TypeOK
    <3>2. \A p \in BssPages(t) : p < taddr[t] + 1 => p < taddr[t] \/ p = taddr[t]
      BY <2>1, LayoutBounds DEF BssPages
    <3>. QED
      BY <2>2, <3>1, <3>2 DEF Running
  <2>. QED
    BY <2>3, <2>4
<1>5. CASE RunText(t)
  <2>1. /\ tpc' = tpc /\ tpc[t] = "crt0" /\ taddr[t] \in FilePages(t)
        /\ taddr'[t] = taddr[t] + 1 /\ content' = content
    BY <1>1, <1>5 DEF RunText, TypeOK
  <2>2. \A p \in BssPages(t) : ~(p < taddr[t] + 1)
    BY <2>1, LayoutBounds DEF FilePages, BssPages
  <2>. QED
    BY <2>1, <2>2 DEF Running
<1>6. CASE StartTask /\ t = current /\ current \notin boot.refused
  <2>1. boot.module[current] = "good"
    BY <1>1, <1>6, FoundIsGood DEF StartTask
  <2>2. tpc'[t] = "crt0" /\ taddr'[t] = Layout[t].base
    BY <1>1, <1>6, <2>1 DEF StartTask, TypeOK
  <2>3. \A p \in BssPages(t) : ~(p < Layout[t].base)
    BY LayoutBounds DEF BssPages
  <2>. QED
    BY <2>2, <2>3 DEF Running
<1>7. CASE (Stays(t) \/ GoesOn(t)) /\ ~ClearBss(t)
  <2>1. CASE ~Exists(t)
    BY <1>7, <2>1 DEF Stays, GoesOn, Exists, Running
  <2>2. CASE Exists(t)
    BY <1>1, <1>3, <1>7, <2>2
       DEF Stays, GoesOn, Running, BssSoFar, BssIntact
  <2>. QED
    BY <2>1, <2>2
<1>8. ~RunForeign(t)
  BY <1>1 DEF RunForeign, NoneWild, TypeOK
<1>. QED
  BY <1>1, <1>4, <1>5, <1>6, <1>7, <1>8, ThreadStep

LEMMA ImageStep ==
  ASSUME NothingOverlaps, NoBadElf, ImageInv, [Next]_vars
  PROVE  ImageInv'
<1>1. TypeOK /\ AddrInLoop /\ IsoInv
  BY DEF ImageInv, IsoInv, FaultInv
<1>2. IsoInv' /\ AddrInLoop'
  BY <1>1, IsoStep, AddrInLoopStep
<1>3. ModulesIntact'
  BY <1>1, ImageKept DEF ImageInv, ModulesIntact, ModuleIntact
<1>. QED
  BY <1>2, <1>3, TextSoFarStep, TextStaysStep, NoneWildStep, BssStep DEF ImageInv

(* From the moment a task is started its text and data are the file's, and *)
(* no task runs anything else, whatever is loaded, cleared and mapped in   *)
(* the meantime: on every layout in which images and modules overlap with  *)
(* nothing, when every module that is there is an executable.  Root writes *)
(* all images through its own address space and only their link addresses  *)
(* keep it off a running task.                                             *)
THEOREM LoadedTextIsIntact ==
  ASSUME NothingOverlaps, NoBadElf
  PROVE  Spec => []TextIntact
<1>1. Init => ImageInv
  BY ImageInit
<1>2. ImageInv /\ [Next]_vars => ImageInv'
  BY ImageStep
<1>3. ImageInv => TextIntact
  BY DEF ImageInv, TextIntact, NoneWild, TextStays, HoldsText
<1>. QED
  BY <1>1, <1>2, <1>3, PTL DEF Spec

(* Likewise the bss and stack of a task that is in main stay its own.      *)
THEOREM RunningBssIsIntact ==
  ASSUME NothingOverlaps, NoBadElf
  PROVE  Spec => []BssIntact
<1>1. Init => ImageInv
  BY ImageInit
<1>2. ImageInv /\ [Next]_vars => ImageInv'
  BY ImageStep
<1>3. ImageInv => BssIntact
  BY DEF ImageInv
<1>. QED
  BY <1>1, <1>2, <1>3, PTL DEF Spec

-----------------------------------------------------------------------------
(***************************************************************************)
(* Proofs that the boot never ties itself up: root owns every page of an   *)
(* image before it starts the task, so the minipager, whose own faults     *)
(* nobody answers, never faults; and it runs before any task does.         *)
(***************************************************************************)

(* Root has taken the pages of the image it loads up to addr; when the     *)
(* task is about to start, all of them; and it keeps them.                 *)
LoadedOwned ==
  /\ rpc = "load" => RootHas({p \in Image(current) : p < addr})
  /\ rpc = "start" => RootHas(Image(current))
ImagesOwned == \A t \in Task : Exists(t) => RootHas(Image(t))
PagerLives  == mpc \notin {"faulting", "unanswered"}

TouchInv == IsoInv /\ AddrInLoop /\ LoadedOwned /\ ImagesOwned /\ PagerLives

LEMMA TouchInit == Init => TouchInv
<1>. SUFFICES ASSUME Init PROVE TouchInv
  OBVIOUS
<1>1. rpc = "bootinfo" /\ mpc = "absent" /\ tpc = [t \in Task |-> "absent"]
  BY DEF Init
<1>. QED
  BY <1>1, IsoInit
     DEF TouchInv, AddrInLoop, LoadedOwned, ImagesOwned, PagerLives, Exists

(* Root reaches the start of a task with its whole image taken. *)
LEMMA LoadedOwnedStep ==
  ASSUME NoBadElf, TouchInv, [Next]_vars
  PROVE  LoadedOwned'
<1>1. /\ TypeOK /\ AddrInLoop /\ IsoInv /\ LoadedOwned /\ current \in Task
      /\ Image(current) \subseteq Page
  BY CurrentIsTask, PagesOfTask DEF TouchInv, IsoInv, FaultInv, TypeOK
<1>2. \A p \in Image(current) : p \in Page /\ Layout[current].base <= p
                                /\ p <= Layout[current].end
  BY <1>1, LayoutBounds DEF Image, FilePages, BssPages
<1>3. CASE rpc' = rpc /\ nth' = nth /\ addr' = addr
  BY <1>1, <1>3, RootKeeps DEF LoadedOwned, RootHas, current
<1>4. CASE CheckHeader
  <2>1. rpc' = "load" /\ addr' = Layout[current].base /\ nth' = nth
    BY <1>1, <1>4, FoundIsGood DEF CheckHeader
  <2>2. \A p \in Image(current) : ~(p < Layout[current].base)
    BY <1>1, <1>2, LayoutBounds DEF Page
  <2>. QED
    BY <2>1, <2>2 DEF LoadedOwned, RootHas, current
<1>5. CASE LoadPage
  <2>1. CASE rpc' = "stuck"
    BY <2>1 DEF LoadedOwned
  <2>2. CASE rpc' # "stuck"
    <3>1. /\ rpc = "load" /\ rpc' = "load" /\ addr' = addr + 1 /\ nth' = nth
          /\ Give(Root, {addr})
      BY <1>5, <2>2 DEF LoadPage
    <3>2. ASSUME NEW p \in Image(current), p < addr + 1
          PROVE  owner'[p] = Root
      <4>1. CASE p = addr
        BY <1>2, <3>1, <4>1 DEF Give
      <4>2. CASE p # addr
        <5>1. p < addr
          BY <1>1, <1>2, <3>2, <4>2 DEF Page, TypeOK
        <5>2. owner[p] = Root
          BY <1>1, <3>1, <5>1 DEF LoadedOwned, RootHas
        <5>. QED
          BY <1>1, <1>2, <5>2, RootKeeps
      <4>. QED
        BY <4>1, <4>2
    <3>. QED
      BY <3>1, <3>2 DEF LoadedOwned, RootHas, current
  <2>. QED
    BY <2>1, <2>2
<1>6. CASE LoadDone
  <2>1. /\ rpc = "load" /\ rpc' = "start" /\ addr > Layout[current].end
        /\ nth' = nth /\ owner' = owner
    BY <1>6 DEF LoadDone
  <2>2. \A p \in Image(current) : p < addr
    BY <1>1, <1>2, <2>1, LayoutBounds DEF Page, TypeOK
  <2>. QED
    BY <1>1, <2>1, <2>2 DEF LoadedOwned, RootHas, current
<1>7. CASE RootStep /\ ~LoadPage /\ ~CheckHeader /\ ~LoadDone
  <2>1. rpc' \notin {"load", "start"} \/ (rpc' = rpc /\ nth' = nth /\ addr' = addr)
    BY <1>7 DEF RootStep, GetBootinfo, StartMinipager, start_thread, FindModule,
                RequestModulePage, StartTask, TaskserverDiscards, rootVars
  <2>. QED
    BY <1>3, <2>1 DEF LoadedOwned
<1>8. CASE ~RootStep
  BY <1>1, <1>3, <1>8, OthersKeepRoot
<1>. QED
  BY <1>4, <1>5, <1>6, <1>7, <1>8

(* A task that comes to be is the one root has just loaded. *)
LEMMA ImagesOwnedStep ==
  ASSUME TouchInv, [Next]_vars
  PROVE  ImagesOwned'
<1>1. TypeOK /\ LoadedOwned /\ ImagesOwned
  BY DEF TouchInv, IsoInv, FaultInv
<1>. SUFFICES ASSUME NEW t \in Task, Exists(t)'
              PROVE  RootHas(Image(t))'
  BY DEF ImagesOwned
<1>2. RootHas(Image(t))
  <2>1. CASE Exists(t)
    BY <1>1, <2>1 DEF ImagesOwned
  <2>2. CASE ~Exists(t)
    <3>1. StartTask /\ t = current
      BY <1>1, <2>2, ThreadStep
         DEF Exists, Stays, GoesOn, RunText, ClearBss, RunForeign
    <3>. QED
      BY <1>1, <3>1 DEF LoadedOwned, StartTask
  <2>. QED
    BY <2>1, <2>2
<1>3. \A p \in Image(t) : owner'[p] = Root
  BY <1>1, <1>2, PagesOfTask, RootKeeps DEF RootHas
<1>. QED
  BY <1>3 DEF RootHas

(* The page the minipager touches is in the image of a task that exists.   *)
LEMMA PagerLivesStep ==
  ASSUME TouchInv, [Next]_vars
  PROVE  PagerLives'
<1>1. IsoInv /\ TypeOK /\ ImagesOwned /\ PagerLives
  BY DEF TouchInv, IsoInv, FaultInv
<1>2. CASE MinipagerTouch
  <2>1. mpc = "touch" /\ Serving
    BY <1>2 DEF MinipagerTouch, Serving
  <2>2. mtask \in Task /\ tpc[mtask] = "crt0"
    BY <1>1, <2>1 DEF IsoInv, FaultInv, ServedWaits, Waits
  <2>3. taddr[mtask] \in Image(mtask) /\ RootHas(Image(mtask))
    BY <1>1, <2>2 DEF IsoInv, FaultInv, AddrInImage, ImagesOwned, Exists
  <2>. QED
    BY <1>2, <2>3 DEF MinipagerTouch, RootHas, PagerLives
<1>3. CASE MinipagerReceive \/ MinipagerReply
  BY <1>3 DEF MinipagerReceive, MinipagerReply, PagerLives
<1>4. CASE RootStep
  BY <1>1, <1>4 DEF RootStep, GetBootinfo, StartMinipager, start_thread, FindModule,
     RequestModulePage, CheckHeader, LoadPage, LoadDone, StartTask,
     TaskserverDiscards, pagerVars, PagerLives
<1>5. ASSUME NEW t \in Task, TaskStep(t)
      PROVE  mpc' = mpc
  BY <1>5 DEF TaskStep, PageFault, RunText, ClearBss, RunForeign, Grab, EnterLoop,
              ServeRead, CallRead, pagerVars
<1>6. CASE UNCHANGED vars
  BY <1>1, <1>6 DEF vars, pagerVars, PagerLives
<1>. QED
  BY <1>1, <1>2, <1>3, <1>4, <1>5, <1>6 DEF Next, MinipagerStep, PagerLives

LEMMA TouchStep ==
  ASSUME NoBadElf, TouchInv, [Next]_vars
  PROVE  TouchInv'
<1>1. TypeOK /\ AddrInLoop /\ IsoInv
  BY DEF TouchInv, IsoInv, FaultInv
<1>2. IsoInv' /\ AddrInLoop'
  BY <1>1, IsoStep, AddrInLoopStep
<1>. QED
  BY <1>2, LoadedOwnedStep, ImagesOwnedStep, PagerLivesStep DEF TouchInv

(* The comment in minipager.cc is right wherever every module that is      *)
(* there is an executable, on any layout and whatever else fails: touching *)
(* the address brings the page, for it is one of an image that root loaded *)
(* and has not lost.  A module that is none is what it is wrong for.       *)
THEOREM TouchedPagesCome ==
  ASSUME NoBadElf
  PROVE  Spec => []TouchBringsPage
<1>1. TouchInv /\ [Next]_vars => TouchInv'
  BY TouchStep
<1>2. TouchInv => TouchBringsPage
  BY DEF TouchInv, PagerLives, TouchBringsPage
<1>. QED
  BY TouchInit, <1>1, <1>2, PTL DEF Spec

-----------------------------------------------------------------------------
(* The minipager runs before root starts a task and is never given up;     *)
(* only while it serves does it have a task; only simplethread1 calls.     *)
PagerThere ==
  /\ rpc \in {"bootinfo", "minipager"} => mpc = "absent"
  /\ rpc \in {"find", "request", "load", "start"} => mpc # "absent"
  /\ \A t \in Task : Exists(t) => mpc # "absent"
ServedOnly  == mtask # None => Serving
CallerKnown == \A t \in Task : tpc[t] \in {"calling", "spin"} => t = SimpleThread1

StallInv == TouchInv /\ PagerThere /\ ServedOnly /\ CallerKnown

LEMMA StallInit == Init => StallInv
<1>. SUFFICES ASSUME Init PROVE StallInv
  OBVIOUS
<1>1. rpc = "bootinfo" /\ mtask = None /\ tpc = [t \in Task |-> "absent"]
  BY DEF Init
<1>. QED
  BY <1>1, TouchInit DEF Init, StallInv, PagerThere, ServedOnly, CallerKnown, Exists

LEMMA PagerThereStep ==
  ASSUME TypeOK, PagerThere, [Next]_vars
  PROVE  PagerThere'
<1>1. mpc # "absent" => mpc' # "absent"
  <2>1. CASE RootStep
    BY <2>1 DEF RootStep, GetBootinfo, StartMinipager, start_thread, FindModule,
       RequestModulePage, CheckHeader, LoadPage, LoadDone, StartTask,
       TaskserverDiscards, pagerVars
  <2>2. CASE MinipagerStep
    BY <2>2 DEF MinipagerStep, MinipagerReceive, MinipagerTouch, MinipagerReply
  <2>3. ASSUME NEW t \in Task, TaskStep(t)
        PROVE  mpc' = mpc
    BY <2>3 DEF TaskStep, PageFault, RunText, ClearBss, RunForeign, Grab, EnterLoop,
                ServeRead, CallRead, pagerVars
  <2>4. CASE UNCHANGED vars
    BY <2>4 DEF vars, pagerVars
  <2>. QED
    BY <2>1, <2>2, <2>3, <2>4 DEF Next
<1>2. ASSUME rpc' \in {"find", "request", "load", "start"}
      PROVE  mpc' # "absent"
  <2>1. CASE RootStep
    <3>1. CASE StartMinipager
      BY <1>2, <3>1 DEF StartMinipager, start_thread
    <3>2. CASE ~StartMinipager
      <4>1. rpc \in {"find", "request", "load", "start"}
        BY <1>2, <2>1, <3>2 DEF RootStep, GetBootinfo, FindModule,
           RequestModulePage, CheckHeader, LoadPage, LoadDone, StartTask,
           TaskserverDiscards, rootVars
      <4>. QED
        BY <1>1, <4>1 DEF PagerThere
    <3>. QED
      BY <3>1, <3>2
  <2>2. CASE ~RootStep
    BY <1>1, <1>2, <2>2, OthersKeepRoot DEF PagerThere
  <2>. QED
    BY <2>1, <2>2
<1>3. ASSUME NEW t \in Task, Exists(t)'
      PROVE  mpc' # "absent"
  <2>1. CASE Exists(t)
    BY <1>1, <2>1 DEF PagerThere
  <2>2. CASE ~Exists(t)
    <3>1. rpc = "start"
      BY <1>3, <2>2, ThreadStep
         DEF Exists, Stays, GoesOn, RunText, ClearBss, RunForeign, StartTask
    <3>. QED
      BY <1>1, <3>1 DEF PagerThere
  <2>. QED
    BY <2>1, <2>2
<1>4. ASSUME rpc' \in {"bootinfo", "minipager"}
      PROVE  mpc' = "absent"
  <2>1. CASE RootStep
    BY <1>4, <2>1 DEF RootStep, GetBootinfo, StartMinipager, start_thread, FindModule,
       RequestModulePage, CheckHeader, LoadPage, LoadDone, StartTask,
       TaskserverDiscards, rootVars, pagerVars, PagerThere
  <2>2. CASE ~RootStep
    <3>1. rpc' = rpc /\ mpc = "absent"
      BY <1>4, <2>2, OthersKeepRoot DEF PagerThere
    <3>2. ~MinipagerStep
      BY <3>1 DEF MinipagerStep, MinipagerReceive, MinipagerTouch, MinipagerReply
    <3>3. ASSUME NEW t \in Task, TaskStep(t)
          PROVE  mpc' = mpc
      BY <3>3 DEF TaskStep, PageFault, RunText, ClearBss, RunForeign, Grab, EnterLoop,
                  ServeRead, CallRead, pagerVars
    <3>4. CASE UNCHANGED vars
      BY <3>1, <3>4 DEF vars, pagerVars
    <3>. QED
      BY <2>2, <3>1, <3>2, <3>3, <3>4 DEF Next
  <2>. QED
    BY <2>1, <2>2
<1>. QED
  BY <1>2, <1>3, <1>4 DEF PagerThere

LEMMA ServedOnlyStep ==
  ASSUME ServedOnly, PagerThere, [Next]_vars
  PROVE  ServedOnly'
<1>1. CASE MinipagerStep
  BY <1>1 DEF MinipagerStep, MinipagerReceive, MinipagerTouch, MinipagerReply,
              ServedOnly, Serving
<1>2. CASE RootStep
  <2>1. mtask' = mtask
    BY <1>2 DEF RootStep, GetBootinfo, StartMinipager, FindModule, RequestModulePage,
       CheckHeader, LoadPage, LoadDone, StartTask, TaskserverDiscards, pagerVars
  <2>2. Serving => Serving'
    BY <1>2 DEF RootStep, GetBootinfo, StartMinipager, FindModule, RequestModulePage,
       CheckHeader, LoadPage, LoadDone, StartTask, TaskserverDiscards, pagerVars,
       PagerThere, Serving
  <2>. QED
    BY <2>1, <2>2 DEF ServedOnly
<1>3. ASSUME NEW t \in Task, TaskStep(t)
      PROVE  mtask' = mtask /\ mpc' = mpc
  BY <1>3 DEF TaskStep, PageFault, RunText, ClearBss, RunForeign, Grab, EnterLoop,
              ServeRead, CallRead, pagerVars
<1>4. CASE UNCHANGED vars
  BY <1>4 DEF vars, pagerVars, ServedOnly, Serving
<1>. QED
  BY <1>1, <1>2, <1>3, <1>4 DEF Next, ServedOnly, Serving

LEMMA CallerKnownStep ==
  ASSUME TypeOK, CallerKnown, [Next]_vars
  PROVE  CallerKnown'
<1>. SUFFICES ASSUME NEW t \in Task, t # SimpleThread1
              PROVE  tpc'[t] \notin {"calling", "spin"}
  BY DEF CallerKnown
<1>1. tpc[t] \notin {"calling", "spin"}
  BY DEF CallerKnown
<1>2. CASE Stays(t)
  BY <1>1, <1>2 DEF Stays
<1>3. CASE StartTask
  BY <1>1, <1>3, CurrentIsTask DEF StartTask, TypeOK
<1>4. CASE RunText(t) \/ ClearBss(t) \/ RunForeign(t)
  BY <1>1, <1>4 DEF RunText, ClearBss, RunForeign, TypeOK
<1>5. ASSUME NEW u \in Task, TaskStep(u)
      PROVE  tpc'[t] \notin {"calling", "spin"}
  <2>1. CASE CallRead \/ ServeRead
    BY <1>1, <2>1 DEF CallRead, ServeRead, TypeOK
  <2>2. CASE Grab \/ EnterLoop
    BY <1>1, <2>2 DEF Grab, EnterLoop, TypeOK
  <2>3. CASE PageFault(u)
    BY <1>1, <2>3 DEF PageFault, taskVars
  <2>4. CASE RunText(u) \/ ClearBss(u) \/ RunForeign(u)
    BY <1>1, <2>4 DEF RunText, ClearBss, RunForeign, TypeOK
  <2>. QED
    BY <1>5, <2>1, <2>2, <2>3, <2>4 DEF TaskStep
<1>6. CASE RootStep /\ ~StartTask
  BY <1>1, <1>6 DEF RootStep, GetBootinfo, StartMinipager, FindModule,
     RequestModulePage, CheckHeader, LoadPage, LoadDone, TaskserverDiscards, taskVars
<1>7. CASE MinipagerStep
  BY <1>1, <1>7 DEF MinipagerStep, MinipagerReceive, MinipagerTouch, MinipagerReply,
     taskVars
<1>8. CASE UNCHANGED vars
  BY <1>1, <1>8 DEF vars, taskVars
<1>. QED
  BY <1>3, <1>5, <1>6, <1>7, <1>8 DEF Next

LEMMA StallStep ==
  ASSUME NoBadElf, StallInv, [Next]_vars
  PROVE  StallInv'
<1>1. TypeOK
  BY DEF StallInv, TouchInv, IsoInv, FaultInv
<1>. QED
  BY <1>1, TouchStep, PagerThereStep, ServedOnlyStep, CallerKnownStep DEF StallInv

(* Who waits for a page waits for a minipager at work. *)
LEMMA FaultersGetOn ==
  ASSUME StallInv, NEW t \in Task, tpc[t] = "crt0"
  PROVE  GetsOn(t)
<1>1. mpc \in {"wait", "touch", "reply"}
  BY DEF StallInv, PagerThere, Exists, TouchInv, PagerLives, IsoInv, FaultInv, TypeOK
<1>2. mtask = t => mpc \in {"touch", "reply"}
  <2>1. mtask = t => Serving
    BY NameAssumption DEF StallInv, ServedOnly
  <2>. QED
    BY <1>1, <2>1 DEF Serving
<1>. QED
  BY <1>1, <1>2 DEF GetsOn

(* The boot never ties itself up, on any layout in which nothing overlaps  *)
(* and whatever fails, if the modules that are there are executables: in   *)
(* every state each task that starts up has its page, or is about to fault *)
(* or waits for a minipager that is at work, and simplethread1 waits for a *)
(* file server that has started.                                           *)
THEOREM NobodyEverStalls ==
  ASSUME NothingOverlaps, NoBadElf
  PROVE  Spec => []NobodyStalls
<1>. DEFINE Inv == StallInv /\ ImageInv /\ CalleeInv
<1>1. Init => Inv
  BY CalleeInit, StallInit, ImageInit
<1>2. Inv /\ [Next]_vars => Inv'
  BY StallStep, ImageStep, CalleeStep
<1>3. Inv => NobodyStalls
  <2>. SUFFICES ASSUME Inv, NEW t \in Task
                PROVE  /\ tpc[t] = "crt0" => GetsOn(t)
                       /\ tpc[t] = "calling" => tpc[FileServer] \in {"crt0", "main", "serve"}
    BY DEF NobodyStalls
  <2>1. tpc[t] = "crt0" => GetsOn(t)
    BY FaultersGetOn
  <2>2. ASSUME tpc[t] = "calling"
        PROVE  tpc[FileServer] \in {"crt0", "main", "serve"}
    <3>1. t = SimpleThread1
      BY <2>2 DEF StallInv, CallerKnown
    <3>2. tpc[FileServer] # "absent"
      BY <2>2, <3>1 DEF CalleeInv, ServerFirst
    <3>3. tpc[FileServer] \notin {"calling", "spin", "wild"} /\ FileServer \in Task
      BY NameAssumption DEF StallInv, CallerKnown, ImageInv, NoneWild, Task
    <3>. QED
      BY <3>2, <3>3 DEF CalleeInv, TypeOK
  <2>. QED
    BY <2>1, <2>2
<1>. QED
  BY <1>1, <1>2, <1>3, PTL DEF Spec

-----------------------------------------------------------------------------
(***************************************************************************)
(* Proof that the boot only goes forward: on every layout, overlapping or  *)
(* not, and whatever the modules are.                                      *)
(***************************************************************************)

ForwardInv == FaultInv /\ PagerThere /\ ServedOnly
Same(t) == Halts(t) /\ FaultStage(t)' = FaultStage(t)

LEMMA ForwardInvStep ==
  ASSUME ForwardInv, [Next]_vars
  PROVE  ForwardInv'
<1>1. TypeOK
  BY DEF ForwardInv, FaultInv
<1>. QED
  BY <1>1, FaultStep, PagerThereStep, ServedOnlyStep DEF ForwardInv

(* The places of a thread in their order. *)
LEMMA Places ==
  ASSUME TypeOK, NEW t \in Task
  PROVE  /\ tpc[t] = "absent" => TaskPlace(t) = 0
         /\ tpc[t] = "crt0" => TaskPlace(t) = 1
         /\ tpc[t] = "main" => TaskPlace(t) = 2
         /\ tpc[t] = "calling" => TaskPlace(t) = 3
         /\ tpc[t] \in {"serve", "spin", "wild"} => TaskPlace(t) = 4
BY DEF TaskPlace

LEMMA PlacesNext ==
  ASSUME TypeOK', NEW t \in Task
  PROVE  /\ tpc'[t] = "crt0" => TaskPlace(t)' = 1
         /\ tpc'[t] = "main" => TaskPlace(t)' = 2
         /\ tpc'[t] = "calling" => TaskPlace(t)' = 3
         /\ tpc'[t] \in {"serve", "spin", "wild"} => TaskPlace(t)' = 4
BY DEF TaskPlace

LEMMA RootPlaces ==
  ASSUME TypeOK
  PROVE  /\ rpc = "bootinfo" => RootPlace = 0 
         /\ rpc = "minipager" => RootPlace = 1
         /\ rpc = "find" => RootPlace = 2
         /\ rpc = "request" => RootPlace = 3
         /\ rpc = "load" => RootPlace = 4
         /\ rpc = "start" => RootPlace = 5
         /\ rpc \in {"taskserver", "panic", "stuck"} => RootPlace = 6
BY DEF RootPlace

LEMMA RootPlacesNext ==
  ASSUME TypeOK'
  PROVE  /\ rpc' = "minipager" => RootPlace' = 1
         /\ rpc' = "find" => RootPlace' = 2
         /\ rpc' = "request" => RootPlace' = 3
         /\ rpc' = "load" => RootPlace' = 4
         /\ rpc' = "start" => RootPlace' = 5
         /\ rpc' \in {"taskserver", "panic", "stuck"} => RootPlace' = 6
BY DEF RootPlace

(* Everything root does but discarding a message takes root on. *)
LEMMA RootGoes ==
  ASSUME TypeOK, TypeOK', RootStep, ~TaskserverDiscards
  PROVE  RootForward
<1>. USE RootPlaces, RootPlacesNext
<1>1. nth \in Nat /\ addr \in Nat
  BY LayoutAssumption DEF TypeOK
<1>2. CASE GetBootinfo
  BY <1>2 DEF GetBootinfo, RootForward
<1>3. CASE StartMinipager
  BY <1>3 DEF StartMinipager, start_thread, RootForward
<1>4. CASE FindModule
  BY <1>4 DEF FindModule, RootForward
<1>5. CASE RequestModulePage
  BY <1>1, <1>5 DEF RequestModulePage, RootForward
<1>6. CASE CheckHeader
  BY <1>6 DEF CheckHeader, RootForward
<1>7. CASE LoadPage
  BY <1>1, <1>7 DEF LoadPage, RootForward
<1>8. CASE LoadDone
  BY <1>8 DEF LoadDone, RootForward
<1>9. CASE StartTask
  BY <1>1, <1>9 DEF StartTask, RootForward
<1>. QED
  BY <1>2, <1>3, <1>4, <1>5, <1>6, <1>7, <1>8, <1>9 DEF RootStep

(* No page becomes free again. *)
LEMMA FreeShrinks ==
  ASSUME TypeOK, [Next]_vars
  PROVE  FreePages' \subseteq FreePages
BY OwnerStep, NameAssumption DEF FreePages, Give, Task

(* Where nothing that a fault depends on changes, a task stands where it   *)
(* stood.                                                                  *)
LEMMA NothingMoves ==
  ASSUME NEW t \in Task, tpc'[t] = tpc[t], taddr'[t] = taddr[t], tmap'[t] = tmap[t],
         Faulting(t)' = Faulting(t), (mtask' = t) = (mtask = t),
         mtask = t => mpc' = mpc
  PROVE  Same(t)
BY DEF Same, Halts, FaultStage

(* Root's steps leave a task where it is, start it, or leave the           *)
(* minipager's fault unanswered.                                           *)
LEMMA RootMovesTasks ==
  ASSUME ForwardInv, ForwardInv', RootStep
  PROVE  /\ \A t \in Task : Forward(t) \/ Same(t)
         /\ TaskserverDiscards => \E t \in Task : Forward(t)
<1>1. TypeOK /\ TypeOK' /\ current \in Task
  BY CurrentIsTask DEF ForwardInv, FaultInv, TypeOK
<1>2. CASE StartTask
  <2>1. /\ tmap' = tmap /\ faults' = faults /\ mpc' = mpc /\ mtask' = mtask
        /\ rpc = "start"
    BY <1>2 DEF StartTask, pagerVars
  <2>2. ASSUME NEW t \in Task
        PROVE  Forward(t) \/ Same(t)
    <3>1. CASE tpc'[t] = tpc[t] /\ taddr'[t] = taddr[t]
      BY <2>1, <3>1, NothingMoves DEF Faulting
    <3>2. CASE t = current /\ current \notin boot.refused
      <4>1. tpc[t] = "absent"
        BY <1>1, <2>1, <3>2, CurrentIsAbsent DEF ForwardInv, FaultInv
      <4>2. tpc'[t] = "crt0"
        BY <1>1, <1>2, <3>2 DEF StartTask, TypeOK
      <4>. QED
        BY <1>1, <4>1, <4>2, Places, PlacesNext DEF Forward
    <3>. QED
      BY <1>1, <1>2, <3>1, <3>2 DEF StartTask, TypeOK
  <2>. QED
    BY <2>1, <2>2 DEF TaskserverDiscards
<1>3. CASE TaskserverDiscards
  <2>1. /\ tpc' = tpc /\ taddr' = taddr /\ tmap' = tmap /\ faults' = faults
        /\ mtask' = mtask /\ mpc = "faulting" /\ mpc' = "unanswered"
    BY <1>3 DEF TaskserverDiscards, taskVars
  <2>2. mtask \in Task /\ Waits(mtask)
    BY <2>1 DEF ForwardInv, FaultInv, ServedWaits, Serving
  <2>3. Forward(mtask)
    BY <2>1, <2>2 DEF Forward, Halts, FaultStage, Waits
  <2>4. ASSUME NEW t \in Task, t # mtask
        PROVE  Same(t)
    BY <2>1, <2>4, NothingMoves DEF Faulting
  <2>. QED
    BY <2>2, <2>3, <2>4
<1>4. CASE ~StartTask /\ ~TaskserverDiscards
  <2>1. tpc' = tpc /\ taddr' = taddr /\ tmap' = tmap /\ faults' = faults /\ mtask' = mtask
    BY <1>4 DEF RootStep, GetBootinfo, StartMinipager, FindModule, RequestModulePage,
       CheckHeader, LoadPage, LoadDone, taskVars, pagerVars
  <2>2. mpc' = mpc \/ mpc = "absent"
    BY <1>4 DEF RootStep, GetBootinfo, StartMinipager, FindModule, RequestModulePage,
       CheckHeader, LoadPage, LoadDone, pagerVars, ForwardInv, PagerThere
  <2>3. \A t \in Task : mtask = t => mpc' = mpc
    BY <2>2, NameAssumption DEF ForwardInv, ServedOnly, Serving
  <2>. QED
    BY <1>4, <2>1, <2>3, NothingMoves DEF Faulting
<1>. QED
  BY <1>2, <1>3, <1>4

(* Each step of the minipager takes the one task on that it serves. *)
LEMMA MinipagerMovesTasks ==
  ASSUME ForwardInv, MinipagerStep
  PROVE  /\ \A t \in Task : Forward(t) \/ Same(t)
         /\ \E t \in Task : Forward(t)
<1>1. TypeOK
  BY DEF ForwardInv, FaultInv
<1>2. tpc' = tpc /\ taddr' = taddr
  BY DEF MinipagerStep, MinipagerReceive, MinipagerTouch, MinipagerReply, taskVars
<1>3. CASE MinipagerReceive
  <2>1. /\ faults # <<>> /\ mtask' = Head(faults) /\ faults' = Tail(faults)
        /\ mpc = "wait" /\ mpc' = "touch" /\ tmap' = tmap
    BY <1>3 DEF MinipagerReceive
  <2>2. mtask = None
    BY <2>1 DEF ForwardInv, ServedOnly, Serving
  <2>3. faults \in Seq(Task) /\ Len(faults) \in Nat /\ Len(faults) >= 1 /\ mtask' = faults[1]
    BY <1>1, <2>1 DEF TypeOK
  <2>4. /\ Len(faults') = Len(faults) - 1
        /\ \A k \in 1 .. Len(faults') : faults'[k] = faults[k + 1]
    BY <2>1, <2>3
  <2>5. PICK h \in Task : h = faults[1] /\ Waits(h) /\ Faulting(h)
    BY <2>3 DEF ForwardInv, FaultInv, FaultersWait, Faulting
  <2>6. Forward(h)
    <3>1. FaultStage(h) = 3
      BY <2>2, <2>5, NameAssumption DEF FaultStage, Waits
    <3>2. FaultStage(h)' = 2
      BY <1>2, <2>1, <2>3, <2>5 DEF FaultStage, Waits
    <3>. QED
      BY <1>2, <3>1, <3>2 DEF Forward, Halts
  <2>7. ASSUME NEW t \in Task, t # h
        PROVE  Same(t)
    <3>1. Faulting(t)' => Faulting(t)
      <4>. SUFFICES ASSUME NEW k \in 1 .. Len(faults'), faults'[k] = t PROVE Faulting(t)
        BY DEF Faulting
      <4>1. k + 1 \in 1 .. Len(faults) /\ faults[k + 1] = t
        BY <2>3, <2>4
      <4>. QED
        BY <4>1 DEF Faulting
    <3>2. Faulting(t) => Faulting(t)'
      <4>. SUFFICES ASSUME NEW k \in 1 .. Len(faults), faults[k] = t PROVE Faulting(t)'
        BY DEF Faulting
      <4>1. k # 1
        BY <2>5, <2>7
      <4>2. k - 1 \in 1 .. Len(faults') /\ faults'[k - 1] = t
        BY <2>3, <2>4, <4>1
      <4>. QED
        BY <4>2 DEF Faulting
    <3>. QED
      BY <1>2, <2>1, <2>2, <2>3, <2>5, <2>7, <3>1, <3>2, NameAssumption, NothingMoves
         DEF Faulting
  <2>. QED
    BY <2>6, <2>7
<1>4. CASE MinipagerTouch \/ MinipagerReply
  <2>1. /\ mpc \in {"touch", "reply"} /\ faults' = faults
        /\ \A t \in Task : t # mtask => tmap'[t] = tmap[t] /\ mtask' # t
    BY <1>1, <1>4, NameAssumption DEF MinipagerTouch, MinipagerReply, TypeOK
  <2>2. PICK c \in Task : c = mtask /\ Waits(c)
    BY <2>1 DEF ForwardInv, FaultInv, ServedWaits, Serving
  <2>3. Forward(c)
    <3>1. CASE MinipagerTouch
      <4>1. FaultStage(c) = 2
        BY <2>2, <3>1 DEF MinipagerTouch, FaultStage, Waits
      <4>2. FaultStage(c)' = 1
        BY <1>2, <2>2, <3>1 DEF MinipagerTouch, FaultStage, Waits
      <4>. QED
        BY <1>2, <4>1, <4>2 DEF Forward, Halts
    <3>2. CASE MinipagerReply
      <4>1. FaultStage(c) = 1
        BY <2>2, <3>2 DEF MinipagerReply, FaultStage, Waits
      <4>2. FaultStage(c)' = 0
        BY <1>1, <1>2, <2>2, <3>2 DEF MinipagerReply, FaultStage, TypeOK
      <4>. QED
        BY <1>2, <4>1, <4>2 DEF Forward, Halts
    <3>. QED
      BY <1>4, <3>1, <3>2
  <2>4. ASSUME NEW t \in Task, t # c
        PROVE  Same(t)
    BY <1>2, <2>1, <2>2, <2>4, NothingMoves DEF Faulting
  <2>. QED
    BY <2>3, <2>4
<1>. QED
  BY <1>3, <1>4 DEF MinipagerStep

(* Each step of a task takes that task on, or the memory server to one     *)
(* superpage more.                                                         *)
LEMMA TaskMovesTasks ==
  ASSUME ForwardInv, ForwardInv', NEW t \in Task, TaskStep(t)
  PROVE  /\ \A u \in Task : Forward(u) \/ Same(u)
         /\ FreePages' # FreePages \/ \E u \in Task : Forward(u)
<1>1. TypeOK /\ TypeOK'
  BY DEF ForwardInv, FaultInv
<1>2. CASE PageFault(t)
  <2>1. /\ tpc' = tpc /\ taddr' = taddr /\ tmap' = tmap /\ mpc' = mpc /\ mtask' = mtask
        /\ Waits(t) /\ ~Faulting(t) /\ mtask # t /\ faults' = Append(faults, t)
    BY <1>2 DEF PageFault, Waits, taskVars
  <2>2. /\ faults \in Seq(Task) /\ Len(faults) \in Nat
        /\ Len(faults') = Len(faults) + 1 /\ faults'[Len(faults) + 1] = t
        /\ \A k \in 1 .. Len(faults) : faults'[k] = faults[k]
    BY <1>1, <2>1 DEF TypeOK
  <2>3. Forward(t)
    <3>1. Faulting(t)'
      BY <2>2 DEF Faulting
    <3>2. FaultStage(t) = 4
      BY <2>1 DEF FaultStage, Waits
    <3>3. FaultStage(t)' = 3
      BY <2>1, <3>1 DEF FaultStage, Waits
    <3>. QED
      BY <2>1, <3>2, <3>3 DEF Forward, Halts
  <2>4. ASSUME NEW u \in Task, u # t
        PROVE  Same(u)
    <3>1. Faulting(u)' = Faulting(u)
      <4>1. Faulting(u)' => Faulting(u)
        BY <2>2, <2>4 DEF Faulting
      <4>2. Faulting(u) => Faulting(u)'
        BY <2>2 DEF Faulting
      <4>. QED
        BY <4>1, <4>2 DEF Faulting
    <3>. QED
      BY <2>1, <3>1, NothingMoves
  <2>. QED
    BY <2>3, <2>4
<1>3. CASE ~PageFault(t)
  <2>1. faults' = faults /\ mtask' = mtask /\ mpc' = mpc
    BY <1>3 DEF TaskStep, RunText, ClearBss, RunForeign, Grab, EnterLoop, ServeRead,
                CallRead, pagerVars
  <2>2. ASSUME NEW c \in Task, NEW u \in Task, Moves(c), u # c
        PROVE  Same(u)
    BY <2>1, <2>2, NothingMoves DEF Moves, Faulting
  <2>3. \A u \in Task : Forward(u) \/ Same(u) \/ Moves(u)
    BY <1>1, <1>3, <2>2, OneTaskMoves
  <2>4. ASSUME NEW c \in Task, tpc[c] # tpc'[c]
        PROVE  Forward(c)
    <3>1. CASE RunText(t) \/ ClearBss(t) \/ RunForeign(t)
      <4>1. tpc[c] = "crt0" /\ tpc'[c] \in {"main", "wild"}
        BY <1>1, <2>4, <3>1 DEF RunText, ClearBss, RunForeign, TypeOK
      <4>. QED
        BY <1>1, <4>1, Places, PlacesNext DEF Forward
    <3>2. CASE Grab \/ EnterLoop \/ ServeRead \/ CallRead
      <4>1. \/ tpc[c] \in {"main", "calling"} /\ tpc'[c] \in {"serve", "spin"}
            \/ tpc[c] = "main" /\ tpc'[c] = "calling"
        BY <1>1, <2>4, <3>2 DEF Grab, EnterLoop, ServeRead, CallRead, TypeOK
      <4>. QED
        BY <1>1, <4>1, Places, PlacesNext DEF Forward
    <3>. QED
      BY <1>3, <3>1, <3>2 DEF TaskStep
  <2>5. ASSUME NEW c \in Task, taddr'[c] # taddr[c]
        PROVE  Forward(c)
    <3>1. taddr'[c] = taddr[c] + 1 /\ tpc'[c] = tpc[c]
      BY <1>1, <1>3, <2>5 DEF TaskStep, RunText, ClearBss, RunForeign, Grab, EnterLoop,
         ServeRead, CallRead, TypeOK
    <3>2. taddr[c] \in Nat
      BY <1>1, LayoutAssumption DEF TypeOK, Page
    <3>. QED
      BY <3>1, <3>2 DEF Forward
  <2>6. ASSUME NEW u \in Task, Halts(u)
        PROVE  Same(u)
    <3>1. PICK c \in Task : Moves(c)
      BY <1>1, <1>3, OneTaskMoves
    <3>2. CASE u # c
      BY <2>2, <3>1, <3>2
    <3>3. CASE u = c
      <4>1. tmap[u] \subseteq tmap'[u]
        BY <1>1, <1>3 DEF TaskStep, RunText, ClearBss, RunForeign, Grab, EnterLoop,
           ServeRead, CallRead, pagerVars, TypeOK
      <4>2. FaultStage(u) = 0 /\ FaultStage(u)' = 0
        BY <2>6, <3>1, <3>3, <4>1 DEF Moves, Waits, Halts, FaultStage
      <4>. QED
        BY <2>6, <4>2 DEF Same
    <3>. QED
      BY <3>2, <3>3
  <2>7. FreePages' # FreePages \/ \E u \in Task : tpc'[u] # tpc[u] \/ taddr'[u] # taddr[u]
    <3>1. CASE RunText(t)
      <4>1. taddr'[t] = taddr[t] + 1 /\ taddr[t] \in Nat
        BY <1>1, <3>1, LayoutAssumption DEF RunText, TypeOK, Page
      <4>. QED
        BY <4>1
    <3>2. CASE ClearBss(t)
      <4>1. taddr[t] \in Nat
        BY <1>1, LayoutAssumption DEF TypeOK, Page
      <4>2. tpc'[t] = "main" \/ taddr'[t] = taddr[t] + 1
        BY <1>1, <3>2 DEF ClearBss, TypeOK
      <4>. QED
        BY <3>2, <4>1, <4>2 DEF ClearBss
    <3>3. CASE RunForeign(t) \/ EnterLoop \/ ServeRead \/ CallRead
      <4>1. \E u \in Task : tpc'[u] # tpc[u]
        BY <1>1, <3>3 DEF RunForeign, EnterLoop, ServeRead, CallRead, TypeOK, Task
      <4>. QED
        BY <4>1
    <3>4. CASE Grab
      <4>1. ASSUME NEW s \in {SuperOf[p] : p \in Page},
                   \A p \in SuperPage(s) : owner[p] = Free,
                   Give(MemoryServer, SuperPage(s))
            PROVE  \E p \in Page : owner[p] = Free /\ owner'[p] # Free
        BY <4>1, NameAssumption DEF SuperPage, Give, Task
      <4>2. \/ \E p \in Page : owner[p] = Free /\ owner'[p] # Free
            \/ tpc' = [tpc EXCEPT ![MemoryServer] = "serve"]
        BY <3>4, <4>1 DEF Grab
      <4>3. MemoryServer \in Task /\ tpc[MemoryServer] = "main"
        BY <3>4 DEF Grab, Task
      <4>4. CASE \E p \in Page : owner[p] = Free /\ owner'[p] # Free
        BY <4>4 DEF FreePages
      <4>5. CASE tpc' = [tpc EXCEPT ![MemoryServer] = "serve"]
        BY <1>1, <4>3, <4>5 DEF TypeOK
      <4>. QED
        BY <4>2, <4>4, <4>5
    <3>. QED
      BY <1>3, <3>1, <3>2, <3>3, <3>4 DEF TaskStep
  <2>. QED
    BY <2>4, <2>5, <2>6, <2>7 DEF Halts
<1>. QED
  BY <1>2, <1>3

(* In every step of every boot, whatever the modules and the layout are,   *)
(* root, the tasks and their page faults only go forward, one at least     *)
(* does, and no page comes free again.  All of them have an end, so the    *)
(* boot has one: with NobodyEverStalls, the safety part of its liveness.   *)
THEOREM BootOnlyGoesForward == Spec => OnlyForward
<1>1. Init => ForwardInv
  <2>1. Init => FaultInv
    BY IsoInit DEF IsoInv
  <2>2. Init => PagerThere /\ ServedOnly
    BY StallInit DEF StallInv
  <2>. QED
    BY <2>1, <2>2 DEF ForwardInv
<1>2. ForwardInv /\ [Next]_vars => ForwardInv'
  BY ForwardInvStep
<1>3. ForwardInv /\ ForwardInv' /\ Next => NobodyBack /\ SomeoneOn
  <2>. SUFFICES ASSUME ForwardInv, ForwardInv', Next
                PROVE  NobodyBack /\ SomeoneOn
    OBVIOUS
  <2>1. TypeOK /\ TypeOK' /\ FreePages' \subseteq FreePages
    BY FreeShrinks DEF ForwardInv, FaultInv
  <2>2. CASE RootStep
    <3>1. RootForward \/ (TaskserverDiscards /\ UNCHANGED rootVars)
      BY <2>1, <2>2, RootGoes DEF TaskserverDiscards
    <3>. QED
      BY <2>1, <2>2, <3>1, RootMovesTasks DEF NobodyBack, SomeoneOn, Same
  <2>3. CASE MinipagerStep
    <3>1. UNCHANGED rootVars
      BY <2>3 DEF MinipagerStep, MinipagerReceive, MinipagerTouch, MinipagerReply
    <3>. QED
      BY <2>1, <2>3, <3>1, MinipagerMovesTasks DEF NobodyBack, SomeoneOn, Same
  <2>4. ASSUME NEW t \in Task, TaskStep(t)
        PROVE  NobodyBack /\ SomeoneOn
    <3>1. UNCHANGED rootVars
      BY <2>4 DEF TaskStep, PageFault, RunText, ClearBss, RunForeign, Grab, EnterLoop,
                  ServeRead, CallRead
    <3>. QED
      BY <2>1, <2>4, <3>1, TaskMovesTasks DEF NobodyBack, SomeoneOn, Same
  <2>. QED
    BY <2>2, <2>3, <2>4 DEF Next
<1>4. ForwardInv /\ ForwardInv' /\ [Next]_vars => [NobodyBack /\ SomeoneOn]_vars
  BY <1>3
<1>. QED
  BY <1>1, <1>2, <1>4, PTL DEF Spec, OnlyForward
=============================================================================
