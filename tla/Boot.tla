-------------------------------- MODULE Boot --------------------------------
(***************************************************************************)
(* Bringing the system up: the root task (src/root/main.cc) loads and      *)
(* starts the memory server, the file server and simplethread1, while the  *)
(* minipager (src/root/minipager.cc) serves the page faults of what runs   *)
(* already, the memory server takes all free memory from sigma0, and       *)
(* simplethread1 calls the file server.                                    *)
(*                                                                         *)
(* Memory is identity mapped, so a page is one number for everybody.  The  *)
(* root task loads an image by writing it at its link address in its OWN   *)
(* address space and the task later maps those very pages.                 *)
(***************************************************************************)
EXTENDS Naturals, Sequences

CONSTANTS
  MemoryServer, FileServer, SimpleThread1,   \* The tasks, by name.
  Root, Free,      \* Page owners besides the memory server.
  LastPage,        \* Highest page number.
  SuperOf,         \* The 4 MB superpage of each page.
  RootPages,       \* Pages of the root task's own image.
  BootinfoPage,    \* Where GRUB left the bootinfo.
  Layout,          \* Where each task's module lies and its image is linked:
                   \* [mod, modEnd, base, bss, end], first and last pages.
  Boots            \* Boot situations: [bootinfo, module, refused, kdbReturns];
                   \* refused holds the tasks the kernel will not create, and
                   \* Root when it will not create the minipager thread;
                   \* kdbReturns is whether L4_KDB_Enter comes back.

Task == {MemoryServer, FileServer, SimpleThread1}
Page == 0 .. LastPage

ModPages(t)  == Layout[t].mod .. Layout[t].modEnd
FilePages(t) == Layout[t].base .. Layout[t].bss - 1
BssPages(t)  == Layout[t].bss .. Layout[t].end
Image(t)     == FilePages(t) \cup BssPages(t)

None == "none"   \* No task; no answer yet.

ASSUME NameAssumption ==
  /\ MemoryServer # FileServer /\ MemoryServer # SimpleThread1
  /\ FileServer # SimpleThread1
  /\ Root \notin Task /\ Free \notin Task /\ Root # Free
  /\ None \notin Task

ASSUME LayoutAssumption ==
  /\ LastPage \in Nat
  /\ SuperOf \in [Page -> Nat]
  /\ RootPages \subseteq Page /\ BootinfoPage \in Page
  /\ Layout \in [Task -> [mod : Page, modEnd : Page,
                          base : Page, bss : Page, end : Page]]
  /\ \A t \in Task : /\ Layout[t].mod <= Layout[t].modEnd
                     /\ Layout[t].base < Layout[t].bss
                     /\ Layout[t].bss <= Layout[t].end

ASSUME BootAssumption ==
  Boots \subseteq [bootinfo : BOOLEAN,
                   module : [Task -> {"good", "bad_elf", "missing"}],
                   refused : SUBSET (Task \cup {Root}),
                   kdbReturns : BOOLEAN]

VARIABLES
  boot,      \* What this boot finds: constant after Init.
  owner,     \* sigma0's view: who got each page.
  content,   \* What each page holds.
  rpc,       \* Root main thread: its place in main().
  nth,       \* Root: index in StartOrder of the task being started.
  addr,      \* Root: page the current loop of load_elfimage is at.
  tpc,       \* Each task's thread: its place in its program.
  taddr,     \* Page the thread touches next while it starts up.
  tmap,      \* Pages mapped in each task's address space.
  faults,    \* Threads waiting to send a page fault to the minipager.
  mpc,       \* Minipager thread: its place in its loop.
  mtask,     \* Minipager: the task whose fault it is serving.
  answer     \* What simplethread1 got from IF_FILE_read.

rootVars  == <<rpc, nth, addr>>
taskVars  == <<tpc, taddr, answer>>
pagerVars == <<faults, mpc, mtask, tmap>>
vars == <<boot, owner, content, rootVars, taskVars, pagerVars>>

Module(t)     == <<"module", t>>
FileData(t)   == <<"file", t>>
LoadedZero(t) == <<"zero", t>>
LiveBss(t)    == <<"bss", t>>
Garbage       == <<"garbage", None>>

(* Faulty variant: the client is started before its server. *)
StartOrderClientFirst == <<MemoryServer, SimpleThread1, FileServer>>

(* The order in which main() starts the tasks. *)
StartOrder == <<MemoryServer, FileServer, SimpleThread1>>
current == StartOrder[nth]

(* panic() enters the kernel debugger again and again, which stops every   *)
(* thread of the machine until it returns, if it does.                     *)
MachineStopped == rpc = "panic" /\ ~boot.kdbReturns

-----------------------------------------------------------------------------
(* sigma0 (external): hands out a page that is free, or again to its owner *)
CanGet(who, p) == owner[p] \in {Free, who}
Give(who, ps)  == owner' = [p \in Page |-> IF p \in ps THEN who ELSE owner[p]]

(* GRUB has put the modules and the bootinfo in memory. *)
Init ==
  /\ boot \in Boots
  /\ owner = [p \in Page |-> IF p \in RootPages THEN Root ELSE Free]
  /\ content = [p \in Page |->
                  IF \E t \in Task : p \in ModPages(t)
                  THEN Module(CHOOSE t \in Task : p \in ModPages(t))
                  ELSE Garbage]
  /\ rpc = "bootinfo" /\ nth = 1 /\ addr = 0
  /\ tpc = [t \in Task |-> "absent"]
  /\ taddr = [t \in Task |-> 0]
  /\ tmap = [t \in Task |-> {}]
  /\ faults = <<>> /\ mpc = "absent" /\ mtask = None
  /\ answer = None

-----------------------------------------------------------------------------
(* main(): fetch the bootinfo page and check it. *)
GetBootinfo ==
  /\ rpc = "bootinfo"
  /\ IF CanGet(Root, BootinfoPage)
     THEN /\ Give(Root, {BootinfoPage})
          /\ rpc' = IF boot.bootinfo THEN "minipager" ELSE "panic"
     ELSE rpc' = "panic" /\ UNCHANGED owner
  /\ UNCHANGED <<boot, content, nth, addr, taskVars, pagerVars>>

(* Faulty variant: nobody looks whether the kernel refused. *)
start_threadUnchecked ==
  rpc' = "find" /\ mpc' = IF Root \in boot.refused THEN mpc ELSE "wait"

(* start_thread: the minipager runs, unless the kernel refuses it. *)
start_thread ==
  IF Root \in boot.refused
  THEN rpc' = "panic" /\ UNCHANGED mpc
  ELSE rpc' = "find" /\ mpc' = "wait"

(* From here on faults can be served. *)
StartMinipager ==
  /\ rpc = "minipager"
  /\ start_thread
  /\ UNCHANGED <<boot, owner, content, nth, addr, taskVars,
                 faults, mtask, tmap>>

(* find_module_byname *)
FindModule ==
  /\ rpc = "find"
  /\ IF boot.module[current] = "missing"
     THEN rpc' = "panic" /\ UNCHANGED addr
     ELSE rpc' = "request" /\ addr' = Layout[current].mod
  /\ UNCHANGED <<boot, owner, content, nth, taskVars, pagerVars>>

(* load_elfimage, first loop: ask sigma0 for the module, page by page. *)
RequestModulePage ==
  /\ rpc = "request" /\ addr <= Layout[current].modEnd
  /\ IF CanGet(Root, addr)
     THEN Give(Root, {addr}) /\ addr' = addr + 1 /\ UNCHANGED rpc
     ELSE rpc' = "panic" /\ UNCHANGED <<owner, addr>>
  /\ UNCHANGED <<boot, content, nth, taskVars, pagerVars>>

(* The header decides: an image to load, or NULL returned as the entry     *)
(* point, which the caller does not look at.                               *)
CheckHeader ==
  /\ rpc = "request" /\ addr > Layout[current].modEnd
  /\ IF boot.module[current] = "good"
     THEN rpc' = "load" /\ addr' = Layout[current].base
     ELSE rpc' = "start" /\ UNCHANGED addr
  /\ UNCHANGED <<boot, owner, content, nth, taskVars, pagerVars>>

ModuleIntact(t) == \A p \in ModPages(t) : content[p] = Module(t)

(* Faulty variant: memset starts at mstart instead of mstart + p_filesz. *)
LoadedPageAllZero(t, p) == LoadedZero(t)

(* What memcpy from the module, and memset behind it, leave in page p. *)
LoadedPage(t, p) ==
  IF p \in BssPages(t) THEN LoadedZero(t)
  ELSE IF ModuleIntact(t) THEN FileData(t) ELSE Garbage

(* load_elfimage, second loop: the write faults, the kernel asks the root  *)
(* thread's pager sigma0, and the thread stays stuck if the page is gone.  *)
LoadPage ==
  /\ rpc = "load" /\ addr <= Layout[current].end
  /\ IF CanGet(Root, addr)
     THEN /\ Give(Root, {addr})
          /\ content' = [content EXCEPT ![addr] = LoadedPage(current, addr)]
          /\ addr' = addr + 1
          /\ UNCHANGED rpc
     ELSE rpc' = "stuck" /\ UNCHANGED <<owner, content, addr>>
  /\ UNCHANGED <<boot, nth, taskVars, pagerVars>>

LoadDone ==
  /\ rpc = "load" /\ addr > Layout[current].end
  /\ rpc' = "start"
  /\ UNCHANGED <<boot, owner, content, nth, addr, taskVars, pagerVars>>

(* Faulty variants: the index runs past the last task; root waits for each *)
(* task to come up before it goes on.                                      *)
StartTaskPastEnd ==
  /\ rpc = "start"
  /\ tpc' = [tpc EXCEPT ![current] = "crt0"]
  /\ taddr' = [taddr EXCEPT ![current] = Layout[current].base]
  /\ nth' = nth + 1
  /\ rpc' = IF nth < Len(StartOrder) THEN "find" ELSE "taskserver"
  /\ UNCHANGED <<boot, owner, content, addr, answer, pagerVars>>

StartTaskAndWait ==
  /\ rpc = "start"
  /\ IF tpc[current] = "absent"
     THEN /\ tpc' = [tpc EXCEPT ![current] = "crt0"]
          /\ taddr' = [taddr EXCEPT ![current] =
                         IF boot.module[current] = "good"
                         THEN Layout[current].base ELSE 0]
          /\ UNCHANGED <<rpc, nth>>
     ELSE /\ tpc[current] # "crt0"
          /\ IF nth < Len(StartOrder)
             THEN nth' = nth + 1 /\ rpc' = "find"
             ELSE rpc' = "taskserver" /\ UNCHANGED nth
          /\ UNCHANGED <<tpc, taddr>>
  /\ UNCHANGED <<boot, owner, content, addr, answer, pagerVars>>

(* start_task: create the space and its thread, then L4_Start at the entry *)
(* point, which is 0 for a bad image.  After the last task root becomes    *)
(* the task server.                                                        *)
StartTask ==
  /\ rpc = "start"
  /\ IF current \in boot.refused
     THEN rpc' = "panic" /\ UNCHANGED <<nth, tpc, taddr>>
     ELSE /\ tpc' = [tpc EXCEPT ![current] = "crt0"]
          /\ taddr' = [taddr EXCEPT ![current] =
                         IF boot.module[current] = "good"
                         THEN Layout[current].base ELSE 0]
          /\ IF nth < Len(StartOrder)
             THEN nth' = nth + 1 /\ rpc' = "find"
             ELSE rpc' = "taskserver" /\ UNCHANGED nth
  /\ UNCHANGED <<boot, owner, content, addr, answer, pagerVars>>

(* taskserver_server() receives a page fault of the minipager: no entry of *)
(* its table handles it, the message is discarded and nobody replies.      *)
TaskserverDiscards ==
  /\ rpc = "taskserver" /\ mpc = "faulting"
  /\ mpc' = "unanswered"
  /\ UNCHANGED <<boot, owner, content, rootVars, taskVars,
                 faults, mtask, tmap>>

RootStep ==
  \/ GetBootinfo \/ StartMinipager \/ FindModule \/ RequestModulePage
  \/ CheckHeader \/ LoadPage \/ LoadDone \/ StartTask \/ TaskserverDiscards

-----------------------------------------------------------------------------
(* A thread touches a page that its space lacks: the kernel sends a page   *)
(* fault to its pager and the thread waits.                                *)
Faulting(t) == \E i \in 1 .. Len(faults) : faults[i] = t

PageFault(t) ==
  /\ tpc[t] = "crt0" /\ taddr[t] \notin tmap[t]
  /\ ~Faulting(t) /\ mtask # t
  /\ faults' = Append(faults, t)
  /\ UNCHANGED <<boot, owner, content, rootVars, taskVars, mpc, mtask, tmap>>

(* _start: execute the image's own text, *)
RunText(t) ==
  /\ tpc[t] = "crt0" /\ taddr[t] \in tmap[t]
  /\ taddr[t] \in FilePages(t) /\ content[taddr[t]] = FileData(t)
  /\ taddr' = [taddr EXCEPT ![t] = @ + 1]
  /\ UNCHANGED <<boot, owner, content, rootVars, tpc, answer, pagerVars>>

(* (faulty variant: the last bss page is left out) *)
ClearBssShort(t) ==
  /\ tpc[t] = "crt0" /\ taddr[t] \in tmap[t]
  /\ taddr[t] \in BssPages(t)
  /\ content' = [content EXCEPT ![taddr[t]] = LiveBss(t)]
  /\ IF taddr[t] + 1 >= Layout[t].end
     THEN tpc' = [tpc EXCEPT ![t] = "main"] /\ UNCHANGED taddr
     ELSE taddr' = [taddr EXCEPT ![t] = @ + 1] /\ UNCHANGED tpc
  /\ UNCHANGED <<boot, owner, rootVars, answer, pagerVars>>

(* clear the bss page by page, then jump to main, *)
ClearBss(t) ==
  /\ tpc[t] = "crt0" /\ taddr[t] \in tmap[t]
  /\ taddr[t] \in BssPages(t)
  /\ content' = [content EXCEPT ![taddr[t]] = LiveBss(t)]
  /\ IF taddr[t] = Layout[t].end
     THEN tpc' = [tpc EXCEPT ![t] = "main"] /\ UNCHANGED taddr
     ELSE taddr' = [taddr EXCEPT ![t] = @ + 1] /\ UNCHANGED tpc
  /\ UNCHANGED <<boot, owner, rootVars, answer, pagerVars>>

(* or run whatever else the page holds, which may lead anywhere. *)
RunForeign(t) ==
  /\ tpc[t] = "crt0" /\ taddr[t] \in tmap[t]
  /\ taddr[t] \notin BssPages(t)
  /\ ~(taddr[t] \in FilePages(t) /\ content[taddr[t]] = FileData(t))
  /\ tpc' = [tpc EXCEPT ![t] = "wild"]
  /\ UNCHANGED <<boot, owner, content, rootVars, taddr, answer, pagerVars>>

-----------------------------------------------------------------------------
(* The minipager's loop: receive a fault, touch the page in the root       *)
(* task's space, answer with a mapping of it.                              *)
(* Faulty variant: the loop runs in the root thread, a panic stops it. *)
MinipagerReceiveUnlessPanic ==
  /\ rpc # "panic"
  /\ mpc = "wait" /\ faults # <<>>
  /\ mtask' = Head(faults) /\ faults' = Tail(faults)
  /\ mpc' = "touch"
  /\ UNCHANGED <<boot, owner, content, rootVars, taskVars, tmap>>

MinipagerReceive ==
  /\ mpc = "wait" /\ faults # <<>>
  /\ mtask' = Head(faults) /\ faults' = Tail(faults)
  /\ mpc' = "touch"
  /\ UNCHANGED <<boot, owner, content, rootVars, taskVars, tmap>>

(* The minipager's own pager is the root thread, not sigma0.  A page that  *)
(* root does not have makes the minipager fault in turn.                   *)
MinipagerTouch ==
  /\ mpc = "touch"
  /\ mpc' = IF owner[taddr[mtask]] = Root THEN "reply" ELSE "faulting"
  /\ UNCHANGED <<boot, owner, content, rootVars, taskVars,
                 faults, mtask, tmap>>

(* Faulty variants: the test for a local caller is inverted, so nobody gets *)
(* a mapping; the page size is the largest of the mask, not the smallest.  *)
MinipagerReplyNoMap ==
  /\ mpc = "reply"
  /\ mpc' = "wait" /\ mtask' = None
  /\ UNCHANGED <<boot, owner, content, rootVars, taskVars, faults, tmap>>

MinipagerReplyLarge ==
  /\ mpc = "reply"
  /\ tmap' = [tmap EXCEPT ![mtask] = @ \cup
                {p \in Page : SuperOf[p] = SuperOf[taddr[mtask]] /\ owner[p] = Root}]
  /\ mpc' = "wait" /\ mtask' = None
  /\ UNCHANGED <<boot, owner, content, rootVars, taskVars, faults>>

MinipagerReply ==
  /\ mpc = "reply"
  /\ tmap' = [tmap EXCEPT ![mtask] = @ \cup {taddr[mtask]}]
  /\ mpc' = "wait" /\ mtask' = None
  /\ UNCHANGED <<boot, owner, content, rootVars, taskVars, faults>>

MinipagerStep ==
  ~MachineStopped /\ (MinipagerReceive \/ MinipagerTouch \/ MinipagerReply)

-----------------------------------------------------------------------------
SuperPage(s) == {p \in Page : SuperOf[p] = s}

(* Faulty variant: free memory is taken in small pages. *)
GrabSmall ==
  /\ tpc[MemoryServer] = "main"
  /\ IF \E p \in Page : owner[p] = Free
     THEN /\ \E p \in Page : owner[p] = Free /\ Give(MemoryServer, {p})
          /\ UNCHANGED tpc
     ELSE tpc' = [tpc EXCEPT ![MemoryServer] = "serve"] /\ UNCHANGED owner
  /\ UNCHANGED <<boot, content, rootVars, taddr, answer, pagerVars>>

(* The memory server's main(): take 4 MB pages until sigma0 has none. *)
Grab ==
  LET Whole == {s \in {SuperOf[p] : p \in Page} :
                  \A p \in SuperPage(s) : owner[p] = Free}
  IN
  /\ tpc[MemoryServer] = "main"
  /\ IF Whole # {}
     THEN /\ \E s \in Whole :
               /\ Give(MemoryServer, SuperPage(s))
               /\ tmap' = [tmap EXCEPT ![MemoryServer] = @ \cup SuperPage(s)]
          /\ UNCHANGED tpc
     ELSE tpc' = [tpc EXCEPT ![MemoryServer] = "serve"] /\ UNCHANGED <<owner, tmap>>
  /\ UNCHANGED <<boot, content, rootVars, taddr, answer, faults, mpc, mtask>>

(* The file server's main() enters its loop. *)
EnterLoop ==
  /\ tpc[FileServer] = "main"
  /\ tpc' = [tpc EXCEPT ![FileServer] = "serve"]
  /\ UNCHANGED <<boot, owner, content, rootVars, taddr, answer, pagerVars>>

(* simplethread1 calls IF_FILE_read; the kernel refuses the call when the  *)
(* file server's thread does not exist.                                    *)
CallRead ==
  /\ tpc[SimpleThread1] = "main"
  /\ IF tpc[FileServer] = "absent"
     THEN /\ tpc' = [tpc EXCEPT ![SimpleThread1] = "spin"]
          /\ answer' = "error"
     ELSE tpc' = [tpc EXCEPT ![SimpleThread1] = "calling"] /\ UNCHANGED answer
  /\ UNCHANGED <<boot, owner, content, rootVars, taddr, pagerVars>>

(* fileserver_read_implementation: the answer is always "Test". *)
ServeRead ==
  /\ tpc[FileServer] = "serve" /\ tpc[SimpleThread1] = "calling"
  /\ answer' = "Test"
  /\ tpc' = [tpc EXCEPT ![SimpleThread1] = "spin"]
  /\ UNCHANGED <<boot, owner, content, rootVars, taddr, pagerVars>>

TaskStep(t) ==
  /\ ~MachineStopped
  /\ \/ PageFault(t)
     \/ RunText(t) \/ ClearBss(t) \/ RunForeign(t)
     \/ t = MemoryServer /\ Grab
     \/ t = FileServer /\ (EnterLoop \/ ServeRead)
     \/ t = SimpleThread1 /\ CallRead

Next == RootStep \/ MinipagerStep \/ \E t \in Task : TaskStep(t)

(* A thread that can run does run in the end; in a machine that the        *)
(* debugger has stopped, none can.                                         *)
Fairness ==
  WF_vars(RootStep) /\ WF_vars(MinipagerStep) /\ \A t \in Task : WF_vars(TaskStep(t))

Spec == Init /\ [][Next]_vars /\ Fairness

-----------------------------------------------------------------------------
(* Every variable has its type. *)
TypeOK ==
  /\ boot \in Boots
  /\ owner \in [Page -> {Free, Root, MemoryServer}]
  /\ content \in [Page -> {"module", "file", "zero", "bss", "garbage"}
                          \X (Task \cup {None})]
  /\ rpc \in {"bootinfo", "minipager", "find", "request", "load", "start",
              "taskserver", "panic", "stuck"}
  /\ nth \in 1 .. Len(StartOrder)
  /\ addr \in 0 .. LastPage + 1
  /\ tpc \in [Task -> {"absent", "crt0", "main", "serve", "calling", "spin", "wild"}]
  /\ taddr \in [Task -> Page]
  /\ tmap \in [Task -> SUBSET Page]
  /\ faults \in Seq(Task)
  /\ mpc \in {"absent", "wait", "touch", "reply", "faulting", "unanswered"}
  /\ mtask \in Task \cup {None}
  /\ answer \in {None, "error", "Test"}

GoodElf  == \A t \in Task : boot.module[t] # "bad_elf"
GoodBoot == /\ boot.bootinfo /\ boot.refused = {}
            /\ \A t \in Task : boot.module[t] = "good"

Exists(t)  == tpc[t] # "absent"
Running(t) == tpc[t] \notin {"absent", "crt0", "wild"}

(* From the moment a task is started, every page of its text and data is   *)
(* what load_elfimage copied there: neither later loads by root nor other  *)
(* tasks clearing their bss touch it, and no task runs foreign text.       *)
TextIntact ==
  \A t \in Task :
    /\ tpc[t] # "wild"
    /\ Exists(t) /\ boot.module[t] = "good"
         => \A p \in FilePages(t) : content[p] = FileData(t)

(* Once a task is in main, its stack and globals are its own: root's       *)
(* loading of the next image does not write there.                         *)
BssIntact ==
  \A t \in Task : Running(t) => \A p \in BssPages(t) : content[p] = LiveBss(t)

(* Although the minipager maps any page that is asked for, writable, no    *)
(* page is ever mapped in two tasks.                                       *)
Isolation ==
  \A t, u \in Task : t # u => tmap[t] \cap tmap[u] = {}

(* The memory server takes free superpages while root still has modules to *)
(* request and images to write; it never takes a page root needs.          *)
NeverDenied == GoodBoot => rpc \notin {"panic", "stuck"}

(* The layouts for which that is so: every superpage that holds a page the *)
(* root task needs also holds one that root owns before the memory server  *)
(* is started, and sigma0 does not hand out a superpage in part.           *)
EarlyPages  == RootPages \cup {BootinfoPage} \cup ModPages(MemoryServer)
                         \cup Image(MemoryServer)
NeededPages == {BootinfoPage} \cup UNION {ModPages(t) \cup Image(t) : t \in Task}
SafePlacement ==
  \A p \in NeededPages : \E e \in EarlyPages : SuperOf[e] = SuperOf[p]

(* simplethread1 calls a thread that exists, though nothing but the order  *)
(* in main() makes sure of it.                                             *)
CalleeExists == answer # "error"

(* minipager.cc line 25: touching the address brings the page into the     *)
(* address space.  It does not when the page is not root's yet.            *)
TouchBringsPage == mpc # "unanswered"

(* No task waits for another that will not act, whatever failed before: a  *)
(* task that starts up has its page, or will fault, or its fault is with a *)
(* minipager that is at work; and the file server simplethread1 waits for  *)
(* has started and is not lost.  (Whether they run is StartedServes.)      *)
GetsOn(t) ==
  \/ taddr[t] \in tmap[t]
  \/ ~Faulting(t) /\ mtask # t
  \/ Faulting(t) /\ mpc \in {"wait", "touch", "reply"}
  \/ mtask = t /\ mpc \in {"touch", "reply"}
NobodyStalls ==
  \A t \in Task :
    /\ tpc[t] = "crt0" => GetsOn(t)
    /\ tpc[t] = "calling" => tpc[FileServer] \in {"crt0", "main", "serve"}

(* A boot that finds all it needs completes: root is the task server, both *)
(* servers serve and simplethread1 has its answer, and that stays so.      *)
BootCompletes ==
  GoodBoot =>
  <>[](/\ rpc = "taskserver" /\ answer = "Test"
       /\ tpc[MemoryServer] = "serve" /\ tpc[FileServer] = "serve")

(* Root gets through main() even when a task hangs in its first            *)
(* instruction: nothing there waits for a task.                            *)
RootFinishes == <>(rpc \in {"taskserver", "panic"})

(* Who was started comes up and gets to its loop, whatever stops root,     *)
(* unless it is the debugger and stops the machine.  Where the debugger    *)
(* returns to panic(), the minipager, a thread of its own, goes on serving *)
(* faults; and the client was started behind its server.                   *)
StartedServes ==
  \A t \in Task : tpc[t] = "crt0" ~> tpc[t] \in {"serve", "spin"} \/ MachineStopped

(* The boot only goes forward: no step takes root or a task back, no page  *)
(* is free again, no task faults twice for one page, and every step takes  *)
(* someone on.  So nobody can keep the others from going on by doing the   *)
(* same again and again.                                                   *)
RootPlace == [bootinfo |-> 0, minipager |-> 1, find |-> 2, request |-> 3, load |-> 4,
              start |-> 5, taskserver |-> 6, panic |-> 6, stuck |-> 6][rpc]
TaskPlace(t) == [absent |-> 0, crt0 |-> 1, main |-> 2, calling |-> 3,
                 serve |-> 4, spin |-> 4, wild |-> 4][tpc[t]]
FreePages == {p \in Page : owner[p] = Free}

(* How much is still to do until a starting task has its page. *)
FaultStage(t) ==
  IF tpc[t] # "crt0" \/ taddr[t] \in tmap[t] THEN 0
  ELSE IF mtask = t THEN IF mpc = "touch" THEN 2 ELSE IF mpc = "unanswered" THEN 0 ELSE 1
  ELSE IF Faulting(t) THEN 3 ELSE 4

RootForward ==
  \/ nth' > nth
  \/ nth' = nth /\ RootPlace' > RootPlace
  \/ nth' = nth /\ rpc' = rpc /\ addr' > addr
Halts(t)   == tpc'[t] = tpc[t] /\ taddr'[t] = taddr[t]
Forward(t) ==
  \/ TaskPlace(t)' > TaskPlace(t)
  \/ tpc'[t] = tpc[t] /\ taddr'[t] > taddr[t]
  \/ Halts(t) /\ FaultStage(t)' < FaultStage(t)

NobodyBack ==
  /\ RootForward \/ UNCHANGED rootVars
  /\ \A t \in Task : Forward(t) \/ (Halts(t) /\ FaultStage(t)' = FaultStage(t))
  /\ FreePages' \subseteq FreePages
SomeoneOn == RootForward \/ FreePages' # FreePages \/ \E t \in Task : Forward(t)
OnlyForward == [][NobodyBack /\ SomeoneOn]_vars
=============================================================================
