# SDI-OS in TLA+

SDI-OS is a small multiserver operating system on the L4 Pistachio
microkernel.  GRUB leaves the kernel and a few modules in memory; the root task
starts a pager of its own (the minipager) and then the memory server, the file
server and a test client from those modules.  Programs talk by synchronous IPC
through stubs and server loops that IDL4 generates; a library (`lib/sdi`) gives
every task naming, a driver-server client, a heap and panic.

This directory holds TLA+ modules for that system, TLC configurations that
check them on small instances, and proofs that TLAPS checks for all instances.
Paths below are relative to the repository.

    tlc -workers 2 -config NameServer.cfg MCNameServer
    tlapm NameServerProofs.tla

## 1. Inventory

| part | state it keeps | operations | talks to |
|---|---|---|---|
| name server, `src/nameserver/main.cc` | `names[16]`, each a path of up to 64 characters and a registrant | register, deregister, Lookup; a loop that takes one caller at a time | any client, by IPC |
| root task, `src/root/main.cc` | its place in `main()`, the pages it got from sigma0, the pages it writes | bootinfo, find module, request module, load ELF image, create space and thread, panic | sigma0, kernel, minipager |
| minipager, `src/root/minipager.cc` | the fault it serves; root's address space | receive a fault, touch the page, map it | every task that faults |
| task server, `src/root/taskserver.cc` | its loop's `partner` and `msgbuf` | 17 stubs behind three interfaces; discards what it does not know | any client; the minipager's own faults end here |
| memory server, `src/memoryserver/main.cc` | the pages it took, its loop's `partner` and `msgbuf` (`tasks[]` is never written) | takes all 4 MB pages from sigma0, then a loop with 6 stubs and one for kernel messages | sigma0, any client |
| file server, `src/fileserver/` | its loop's `partner` and `msgbuf` | `read` answers "Test", the rest are stubs | simplethread1, any client |
| simplethread1, `src/simplethread1/main.cc` | the answer it got | one `IF_FILE_read`, then spins | file server |
| start-up code, `*/ia32-crt0.S`, link addresses in `Makefile.in` | the bss of each image | clear the bss, call main | pager, through faults |
| naming client, `lib/sdi/nameserver.cc` | `in`, `rem`, `cur`, `next` of one lookup | register, deregister, recursive lookup | name server, then the servers it names |
| driver-server client, `lib/sdi/driverserver.cc` | the thread found | poll for `/driver`, then register or deregister there | name server, driver server |
| heap, `lib/sdi/heap.cc`, `include/new.h` | `__heap_ptr`, `__small_mem[8]`, links and sizes inside the blocks | malloc, calloc, free, new, delete | kernel debugger when full |
| C helpers, `include/stdlib.h` | none | strings, memory, bits, rounding | root's loader, name server, naming client |
| logging, sleep, panic, `lib/sdi/` | none | print a line; one kernel call; stop for ever | |
| interfaces (`if/*.idl`), build files, documents, vendored headers | none | | |

Where it gets hard:

* **Slots freed and reused.**  The name table is scanned for the first slot
  whose path is a prefix of the query, free slots are blank, and a blank path is
  a prefix of everything.  What a name resolves to depends on the history of
  registrations.
* **Lookups of several hops.**  A lookup asks the name server, then the server
  it named, and so on; the table may change between two hops, and a server may
  not be serving yet.
* **Five threads during the boot.**  Root loads while tasks already started
  fault on the minipager, the memory server swallows all free memory, and each
  may need what the next one holds.  Memory is identity mapped: root writes each
  image at its link address in its own space, into the pages other tasks map.
* **Failures in the middle of the boot.**  A missing module, a bad header, a
  kernel call refused: what was started before still depends on root's pages.
* **Loops that serve several clients with one `partner`.**  A request too long, a
  reply too large or a request nobody offers must not leave its sender behind in
  the loop's variables, and interface and function ids are cut to the size of a table.
* **An image loaded over what describes it.**  `load_elfimage` reads the ELF
  headers and the file part from memory that its own copies may be writing.
* **C helpers at their limits.**  `strncpy` that does not end its string, copies
  that overlap, words that wrap.
* **A heap in its own free memory.**  Free lists run through the free blocks,
  `calloc` relies on every free block being zero, and sizes may wrap.

What makes each part correct, and where it is stated:

* Name server: an answer is a thread that holds a prefix of the query; it never
  passes from one thread to another in one step; a thread that deregistered
  answers nothing (`NameService`).  Without freed slots every name resolves.
* Naming client: a lookup returns only a thread that held a prefix of the path
  during the lookup, and it ends unless it waits for a thread that never serves;
  if threads register in order, nobody does (`NameSystem`).
* Servers: a call ends once, with an outcome of the operation its ids stand for once
  they are cut, and ends at all if the server offers one (`RemoteCalls`, `Servers`).
* Loader: root loads the module it was asked for, the whole of it, as its headers
  say, and comes back (`Loader`).
* C helpers: each does what its callers here rely on (`StdLibCalls`).
* Boot: images and bss stay intact, no page is in two tasks, root is never
  refused a page, the client's server exists, nobody stalls or does anything
  twice, the boot completes (`Boot`).
* Heap: blocks apart, zero when handed out, unaffected by other calls; every word
  below `__heap_ptr` in exactly one block (`Allocator`, `Heap`).

## 2. Modules

| module | models | lines up with |
|---|---|---|
| `NameService` | what naming promises, without a table | (abstract) |
| `NameServer` | the table and its three handlers, one action each; `Lookup` is an operator, it changes nothing | `nameserver/main.cc` |
| `NameSystem` | threads running programs of libsdi calls against the server, hop by hop | `lib/sdi/nameserver.cc`, `driverserver.cc`, both server loops |
| `Boot` | root, minipager, three tasks, sigma0 | `root/`, `memoryserver/`, `fileserver/`, `simplethread1/` |
| `RemoteCalls` | what calling a server promises | (abstract) |
| `Servers` | the three server loops, their tables and operations, and clients | `root/taskserver.cc`, `memoryserver/main.cc`, `fileserver/fileserver_idl.cc` |
| `Loader` | finding one module and loading it, cell by cell | `root/main.cc`, `include/elf.h` |
| `StdLib` | the C helpers as operators on a memory and on words | `include/stdlib.h` |
| `StdLibCalls` | a program that makes any one call of them | |
| `Allocator` | what malloc, calloc and free promise | (abstract) |
| `Heap` | the allocator with its lists in memory | `lib/sdi/heap.cc`, `include/new.h` |
| `MC*` | instances for TLC | |
| `NameServerProofs`, `NameSystemProofs`, `BootProofs`, `ServersProofs`, `LoaderProofs`, `StdLibProofs`, `HeapProofs` | theorems about the module of that name (`StdLibProofs`: about `StdLibCalls`) | |
| `LoopProofs` | lemmas about loops, used by the others | |

`Loader` is `Boot`'s loading under a magnifying glass: `Boot` has pages and five
threads, `Loader` has the words of the headers and root alone.  It copies and
clears with `StdLib`'s `memcpy` and `memset`.

`NameSystem` composes: it instantiates `NameServer` for the table and uses its
actions `Register` and `Deregister` and its operator `Lookup` inside the
server's step, so a hop sees the table as it is at that moment.  `NameServer`
implements `NameService`, so does the whole of `NameSystem`, `Servers` implements
`RemoteCalls` and `Heap` implements `Allocator`, each by `INSTANCE ... WITH` and a
refinement mapping.

**NameServer.**  `names` is the array; a slot is `[path, registrant]`.  `Stored`
is `strncpy` into the entry: the path cut to `MaxEntryLen`.  `Matches` is
`strncmp` over the length of the *entry*, so that a blank entry matches; the scan
does not look at the registrant.  A path is a sequence of characters only because
prefixes and truncation are what the handlers are about.

**NameSystem.**  `prog` is what the threads are going to do, one of the set
`Programs`.  A thread has a place in its program, a `pc` in the call it is
in, and for a lookup `cur`, `in` and the `reply` (`next` and `rem`).  `Copies` is
`strncpy` into `in[]`: a path of `MaxEntryLen` characters or more is left without
its NUL, and one of `StackTail` follows it in the query.  L4 IPC is
the `queue` of senders at each receiver, served in order: `Send` puts the caller
there, the receiver's step takes the first and answers it.  `NameServerStep` is
one turn of `nameserver_server()`.  `ServerStep` is one turn of another server's
loop, entered when the thread's program has ended: its Lookup is the stub that
the file server and the task server have, which names nobody.  The driver server
has no source in this tree; `driver` requests to it are modelled from the
interface and its client.  `holders`, `seen` and `lasting` are history variables:
who holds what, everything held since a lookup began, and what was held
throughout.  `ImplementsNameService` maps `holders` and what each path would be
answered to the abstract service: clients, queue and loop let a registration take
effect once.  `InVain` says that a thread is in a circle of threads waiting for
one another, or waits for one that never serves; `Orderly` is a discipline that
keeps this from happening: names that others look below are taken only by
threads that will serve and look below nobody's name themselves.

**Servers.**  Each of the three loops has its `pc` (about to send and receive in
`idl4_reply_and_wait`, waiting there, or processing), its `partner` and the reply
`out` in `msgbuf`.  The send phase, the receive phase and the processing are one
action each, since another client may queue up between any two.  A message that
does not fit fails the IPC on both sides and the loop starts over (`Break`).
`itable` is the table of each server with the ids of `types.idl`, `Masked` the cut
of the interface id and `MaskedFunction` that of the function's, whose tables have
`VtableSize` entries.  An operation is the set of replies its stub may leave: a
string it does not write has whatever size the buffer had.

**StdLib, StdLibCalls.**  Memory is a function from addresses to characters, a
loop a recursive function of the number of turns, so that overlapping copies come
out as they do.  A loop that runs off the memory gives `Fault`.  `strncpy` does
not pad: its second loop asks an unsigned number to be negative.  `Power`
is a recursive function and `WordOf` the sum over a set of bits, so that the theorems
hold for words of any width.  `StdLibCalls`
makes one call from any memory, and its properties compare memory and result with
what a caller relies on.

**Loader.**  Each field of an ELF header is a cell.  `FindByName` is one turn of
the do loop, `RequestPage` and `LoadSegment` one turn of theirs.  The sizes of a
segment are read again after its copy, and the number of segments after each
turn, as in the code.  A copy that would leave the memory here ends in `wild`.
`beyond` is what lies behind the last record: the do loop looks at it in an empty
bootinfo.  `find_module`, which nobody calls, is left out.

**Boot.**  A page is a number, `owner` is sigma0's book, `content` says whose
module, file data or bss a page holds.  `rpc`, `nth` and `addr` are root's place
in `main()`, which task, which page of the loop; `tpc` and `taddr` are each
task's thread; `mpc` and `mtask` the minipager.  The loop of `load_elfimage` is
one step per page, since the other threads run in between.  A thread that touches
a page it has no mapping for waits in `faults` for the minipager.  The minipager
has *root's main thread* as its pager, and that thread never answers a page
fault, so a page root does not own stops it (`faulting`, then `unanswered` when
the task server's loop discards the message).  A root thread that writes to a
page sigma0 refuses stays `stuck`; `panic` is never left.  `panic()` enters the
kernel debugger, where every thread stands still.  `boot.kdbReturns` says whether it
comes back, to root's loop and to the other threads; if not, the boot ends there
(`MachineStopped`).

**Heap.**  The unit is a machine word instead of a byte: a header is two words,
the page and the classes keep their proportions, and addresses wrap at
`WordSize`.  `next` and `size` of a block are words of `mem`.  `Write` is the
caller filling its block.  A second `free` of the same pointer is a step of the
model as long as the block has not been handed out again, because the code is
written to survive it: the size word is 0 by then.  A `free` of a pointer never
handed out is not modelled, nor are two threads in the heap at once, since no
task here has two threads that allocate.  `new` enters the debugger when malloc
gives NULL (as for a size of 0) and returns it all the same; `delete` is `free`.
`do_mmap` bails out before a block is taken if `__heap_ptr` is NULL
(`Uninitialized`) and after it if the block ends behind the heap (`Exhausted`).

### What is assumed of the environment

These stand for code outside the repository and are marked external.

* *L4 IPC*: synchronous, a sender waits until its receiver takes it, senders
  are served in order; a call to a thread that does not exist fails at once.
* *sigma0*: gives a page that is free, or again to the same owner; a superpage
  only as a whole.  It does not answer a fault for any other page.
* *IDL4 loops*: a message no table entry knows is discarded, and its sender
  forgotten without a reply; function ids count an interface's operations from 0,
  and a server's tables all have the same number of entries, a power of two that holds
  its largest interface; a reply is sent without waiting, and fails if the client
  is not receiving from the server or has too little room.
* *Clients of the servers*: requests carry an interface id below the
  `MAX_INTERFACEID` of `types.idl`, and any function id.
* *L4_KDB_Enter*: stops every thread, and may return or not: `KdbReturns` in `Heap`,
  `kdbReturns` of a boot in `Boot`.
* *Programs* of `NameSystem`: `CallAssumption` leaves out a thread that looks up
  a path below its own name (an IPC to itself) and a thread other than the driver
  server that takes a name answering `/driver`.

## 3. Runs

| run | instance | shows |
|---|---|---|
| `name_server` | 2 threads, 3 slots, paths `""`, `/a`, `/b`, `/a/b`, names cut at 3 characters | type, blank free slots, compact tables resolve, no takeover, refinement of `NameService` |
| `name_server_holes` | the same | **violated**: a registered name resolves |
| `name_system` | 4 threads, 3 slots, 4 sets of programs: names that come and go under lookups; driver clients and a late driver server; two servers that look each other up; a registered thread that never serves | lookups are sound over all their hops; a name held throughout is found; refinement of `NameService`; every thread gets through unless it waits in vain; no thread does if threads register in order |
| `servers` | 2 clients; the first and last operations of each table, one behind, unknown interfaces, ids beyond the tables, page faults, requests too long, replies too large | nobody is left over in a loop or lost; refinement of `RemoteCalls` |
| `stdlib` | every memory of 6 cells, every call whose arguments name cells of it, every pair of 4-bit words | copies, strings, comparisons and roundings are what callers rely on |
| `loader` | 40 cells in pages of 8: images of many shapes below, above and over their module, damaged headers, bootinfos of up to three records, modules that start within a page, refused pages | the right module, all of it, loaded as its headers say; each step brings the end nearer; loading ends |
| `boot` | 32 pages in 4 superpages, disjoint images; every combination of bootinfo valid or not, modules present or missing, tasks and the minipager thread refused, the debugger returning or not after a panic | images and bss intact, isolation, root never refused, callee exists; nobody stalls, whatever stops root; the boot only goes forward; a good one completes; who was started comes up, unless the debugger stops the machine |
| `boot_damaged` | one module with a bad header, images as linked | root still gets through `main()` |
| `boot_bad_elf` | one module with a bad header | **violated**: touching an address brings its page in |
| `boot_linked` | the memory server's bss reaches the file server's base | **violated**: text stays intact |
| `heap` | two pages of 16 words, classes of 4 and 8 words, up to 3 blocks held | type, exact cover, refinement of `Allocator` |
| `heap_exhausted` | the same, the debugger returns | **violated**: what is handed out lies inside the heap |

**Bounds and why they are enough.**

* Name table: the handlers treat slots only by order and occupancy.  Three slots
  give a freed slot before, between and after occupied ones, and a full table is
  reached.  The paths cover equal, prefix of, unrelated, empty, and equal only
  after cutting.  The theorems of section 5 hold for every number of slots.
* `NameSystem`: a program has at most three calls per thread, so the state space
  is finite without a further bound.  `MaxEntryLen` is 5, so that `/a/b` fits and
  the longer paths overflow an entry or the client's buffer.  `FindsRegistered`
  has its premise in the programs without a deregistration and without a name
  that is a prefix of another: elsewhere it is false, which `name_server_holes`
  shows at its root.  `Orderly` holds of the first two sets of programs and fails
  of the other two.
* `Servers`: the loops treat clients alike and hold one at a time, so a second
  client shows whatever one may do to another.  `BufferSize` is 8 for 8000 bytes;
  requests are below and above it, replies below and above the client's room.
  `VtableSize` is 8 for the memory server's six functions and 16 for the ten of the
  other two; a function of each kind of table is asked for one table further on.  An
  unwritten string has size 0 or more than there is room (`Undefined`).
* `StdLib`: six cells hold two strings of two characters or one overlapping copy;
  three characters give NUL and both signs of a difference; four bits give words
  whose rounding wraps and the highest bit.
* `Loader`: two segments, the second loadable or not, show the loop's step and an
  image over the next segment's file part; addresses lie at, before and behind
  the module, its headers and the ends of the memory.  A module starts with a page,
  or within one so that its last page is requested, or is not.
* Boot: two pages for a module or a bss make each loop turn at least twice and
  leave room for another thread between two pages.  Two superpages hold root's
  pages and the images, two are free for the memory server to take.
* Heap: two classes show a block taken from the wrong list; a two-page area shows
  cutting a second page, exhaustion by small and by large requests, and a page
  shared by blocks held and free.  The requests are 0, the two sides of the class
  boundary and of the small limit after the header, and the sizes whose header
  makes the word wrap or just not; `calloc` gets a product that wraps.
  `MaxLive` bounds the blocks held; freed and reused blocks are unbounded.

Deadlock checking is off wherever the system really may stop: programs end,
simplethread1 spins, root panics, the heap halts, a helper has returned, every
client has asked for what nobody answers.  It is on for the name server,
which always can take another request.

**Fairness.**  Weak fairness for each thread: root, minipager and each task in
`Boot`; the name server, each client and each server loop in `NameSystem`; each
server's loop in `Servers`, whose clients need not call; root alone in `Loader`.
L4 schedules threads of one priority round robin and nothing here changes a
priority, so a thread that can run does run, beside a root thread that loops in
`panic()`, too, as long as each `L4_KDB_Enter` returns.  While one does not, no
thread of the machine runs: the steps of `Boot`'s other threads are disabled then, and
`StartedServes` makes no claim.  Nothing is assumed of *which*
caller a server takes: the queue says, as the kernel's does.  In particular the
polling driver client gets no fairness against the thread it waits for beyond
its place in the queue, and `AllReturn` shows that this is enough.  All threads
get through although their lookups interleave with every change of the table.

## 4. Disagreements between the code and what it says

1. **A freed slot hides later names** (`name_server_holes`).  The scan at
   `src/nameserver/main.cc:91` does not skip free slots and their blank path
   matches, so that after register, register, deregister the second name answers
   nilthread.  The comment two lines above and `doc/naming.tex:7` promise the
   matching entry.
2. **A bad module stops the minipager** (`boot_bad_elf`).
   `start_task_byname_realmem` does not look at the NULL that `load_elfimage`
   returns and starts the task at 0; the minipager touches page 0 in a space
   whose pager does not answer, and waits for ever with all later faults behind.
3. **Images overlap as linked** (`boot_linked`).  0x40000 bytes lie between the
   memory server's base and the file server's, and its bss is larger.  Its
   start-up code can clear text of the file server that root has already copied.
4. **An exhausted heap goes on** (`heap_exhausted`): `do_mmap` returns the
   pointer behind the end after `bailout`, whose message says "halted".

Met while reading, with no run of their own:

* A registration that finds the table full is dropped without a word
  (`src/nameserver/main.cc:51-59`) and its caller goes on as if it were
  registered; in `NameServer` such a step changes nothing.
* Two registered servers that look below each other's name before they serve wait
  for each other for ever, since the IPC has no timeout (`nameserver.cc:52`).  The
  run `name_system` holds such a pair: `AllReturn` excepts it, and `NobodyInVain`
  shows a discipline that excludes it.
* A name of exactly 64 characters is stored whole but cannot be relied on to be
  found: the client's `in[]` then has no NUL (`nameserver.cc:46`), and the query
  ends somewhere on the stack.
* The memory server's interface id is 11 and the task server's table has 8
  entries: a call meant for the memory server that reaches the task server runs
  an operation of the task server (`taskserver.cc:247`).  The run `servers` makes
  such calls, but no document says what they should get: `ImplementsRemoteCalls`
  speaks of the ids as they are cut and takes the answer for the offered one.
* The file server's `read` ignores the count and has no return statement
  (`fileserver_idl.cc:42-48`): a caller with room for fewer than five bytes gets
  an IPC error.
* `load_elfimage` leaves out the last page of a module that starts within a page
  and ends at a smaller offset than it starts at (`main.cc:157`), which
  `ModuleRequested` allows and run `loader` meets.  Where modules lie is GRUB's
  choice.  `find_module`, which has no caller, lets through an index one too large
  (`main.cc:124`).
* `strncpy` never pads (`stdlib.h:59`: its loop tests an unsigned number to be
  negative), `numBits` does not count the highest bit (`stdlib.h:189`), `new` of
  size 0 enters the debugger with "Out if memory" (`new.h:25`).
* `nameserver_deregister` is documented (`lib/sdi/nameserver.cc:21`) to deregister
  "from the given path"; it takes no path and the server clears every entry of
  the caller (`src/nameserver/main.cc:67-72`).  `NameServer` does what the code
  does.
* `doc/bootup.tex` has the name server started and all servers registered there;
  the start is commented out (`src/root/main.cc:324-328`) and nobody registers.
  `Boot` therefore has no name server, and `NameSystem` none of the servers but
  for what their loops do with a lookup.
* `do_mmap` compares `__heap_ptr` after the sum has wrapped (`heap.cc:51-52`), so
  a request of almost the whole address space moves it backwards.  The area and
  the requests of run `heap` do not reach that: there, a sum past the end is
  still below `WordSize`.

## 5. Theorems

Checked by TLAPS for every value of the constants the assumptions allow.

| theorem | says |
|---|---|
| `NameServerProofs!TypeCorrect` | slots hold paths of at most `MaxEntryLen` characters and a registrant |
| `NameServerProofs!FreeSlotsAreBlank` | a free slot carries no path |
| `NameServerProofs!AnswersAreNotTakenOver` | no request moves an answered query to another thread |
| `NameServerProofs!CompactTableResolves` | with no freed slot before an occupied one, every registered name resolves |
| `NameServerProofs!Refinement` | the table implements `NameService` |
| `NameSystemProofs!TypeCorrect` | types of the naming clients, for any threads and programs |
| `NameSystemProofs!LookupIsSound` | a lookup, over all its hops, returns only a thread that held a prefix of the path during the lookup |
| `NameSystemProofs!FindsWhatStays` | with nothing deregistered and no name a prefix of another, a lookup finds the name that was held throughout |
| `NameSystemProofs!SystemRefinement` | clients, queue, loop and table together implement `NameService` |
| `NameSystemProofs!NobodyWaitsInVain` | in an orderly system no threads wait for one another, or for one that never serves |
| `BootProofs!TypeCorrect` | types of the boot, for every layout and boot situation |
| `BootProofs!RootIsNeverDenied` | on a safe layout sigma0 never refuses root a page |
| `BootProofs!CalleeIsThere` | simplethread1's callee exists, on any layout and in any boot situation |
| `BootProofs!TasksAreIsolated` | with images that do not overlap and no damaged module, no page is mapped in two tasks |
| `BootProofs!LoadedTextIsIntact`, `RunningBssIsIntact` | if the modules lie apart, too, a started task keeps its text and a running one its bss |
| `BootProofs!TouchedPagesCome` | with no damaged module the minipager, whose faults nobody answers, never faults, on any layout |
| `BootProofs!NobodyEverStalls` | if moreover nothing overlaps, every task that starts up has its page or waits for a minipager at work, and simplethread1 waits for a file server that has started |
| `BootProofs!BootOnlyGoesForward` | on every boot and layout, without a condition, no step takes root, a task or a page fault back, and each takes one of them on |
| `ServersProofs!TypeCorrect` | types of the server loops and their clients |
| `ServersProofs!NoCallerIsLost` | who is about to be answered waits for that answer; who waits is being served, or asked for what is not offered |
| `ServersProofs!CallsEndAsOffered` | a call ends at most once and with an outcome of the operation offered under its ids as they are cut: the safety half of `ImplementsRemoteCalls` |
| `LoaderProofs!TypeCorrect` | types of the loader, for any headers |
| `LoaderProofs!FindsFirstModule` | the search finds the first module that carries the name, or says that there is none |
| `LoaderProofs!WholeModuleRequested` | all pages of a module are requested, but for a last one in which it ends at a smaller offset than it starts at |
| `LoaderProofs!ImageIsLoaded` | an image that can be placed is loaded cell for cell as its headers say |
| `LoaderProofs!LoopsCountDown` | each step comes to a later stage of loading or uses up a turn of its loop, whatever the headers say |
| `StdLibProofs!TypeCorrect` | a helper leaves characters in the memory and returns an integer |
| `StdLibProofs!CopyingIsExact` | `memset` and `memcpy` write what and where they should |
| `StdLibProofs!SlotsHoldPrefixes`, `StringsAreCopied` | `strncpy` and `strcpy` as the slots and the callers need them |
| `StdLibProofs!PrefixesAreTold`, `SearchStaysInString` | `strncmp`, `strlen`, `strchr` |
| `StdLibProofs!WordsAreRight` | rounding, `msBit`, `lsBit`, `numBits`, `min`, `max`, for words of any width |
| `HeapProofs!TypeCorrect` | types of the heap, whose debugger halts and whose sums fit |
| `HeapProofs!Refinement` | the free lists implement `Allocator` |
| `HeapProofs!CoveredExactly` | every word below `__heap_ptr` is in exactly one block |
| `HeapProofs!BlocksLieInside` | nothing is handed out behind the heap: `InsideHeap`, which `heap_exhausted` violates when the debugger returns |

`NameSystemProofs!SystemInvariant`, `LoaderProofs!LoaderInvariant` and
`HeapProofs!HeapInvariant` state the inductive invariants themselves.

**Name server.**  The inductive invariant is `TypeOK /\ FreeSlotsBlank`.  The
second part is what makes the first match tell: a registration fills the lowest
free slot, which is blank and so already matched every query that got past the
slots before it.  Hence the queries the new entry can divert are those that had
no answer (`RegisterKeepsAnswers`), and a deregistration, which only makes slots
match more, can only turn an answer into nilthread (`DeregisterOnlyRemoves`).
Without it a registration could slip in before an older, longer name and take
its clients; the mutant of `find_free_entry` does exactly that.  `Refinement`
follows from the same two lemmas; the case of a full table maps to a
stuttering step or to a registration that adds nothing.
`CompactTableResolves` needs that a nonempty set of slots has a least element,
which `LeastElement` takes from the library's fact that `<` is well-founded on
the naturals.

**Boot.**  `RootIsNeverDenied` is stated under `SafePlacement`: each superpage
root will need holds a page that root owns before the memory server starts
(`EarlyPages`: its own image, the bootinfo, the memory server's module and
image).  sigma0 does not give out a superpage in part, so the memory server
cannot get such a superpage.  `NeverDenied` alone is not inductive; the
invariant `PlacementInv` adds

* `WholeSuperPages`: the memory server owns only whole superpages,
* `NoneBeforeStart`: and none before root has started it,
* `BootinfoOwned`, `EarlyOwned`: from then on, root owns all early pages,
* `LoadProgress`: before that, those the loops have passed so far,
* `AddrInLoop`: the loop's page lies in the module or the image,

so that the page asked for next is free or root's own.  `MCBoot`'s layouts are
safe in this sense, and so are the link addresses of the Makefiles: all images
lie in the superpage of the memory server's.  Where the modules lie is GRUB's
choice; one that GRUB put alone in a superpage of its own could be taken by the
memory server, and the theorem says nothing of it.

`CalleeIsThere` rests on the order of the starts alone: when root comes to the
third task the second is there, and no task that is there goes away.
`TasksAreIsolated` assumes `DisjointImages` and `NoBadElf`.  That a mapped page
belongs to its task (`MapsOwn`: it lies in the task's image and is root's, or the
memory server took it) is kept by the minipager's reply only because the page it
touched is still the one the task waits for.  Hence `FaultersWait` and
`ServedWaits`: whoever is queued or served is starting up, lacks its page and is
there once, so that neither the task itself nor the memory server's grabbing can
change it in between; `AddrInImage`: what it waits for is in its image;
`TouchedIsRoots`: the touched page is and stays root's; `NotYetStarted` and
`ModuleThere`: root starts each task once, at an address in its image.

`NobodyEverStalls` and `BootOnlyGoesForward` are the safety part of the boot's
liveness: no deadlock and no livelock.  For the first, `TouchInv` adds to `IsoInv`
that root owns the pages of the image it loads up to `addr` (`LoadedOwned`) and all
of it from the task's start on (`ImagesOwned`).  A page the minipager touches is in
the image of a task that exists, hence root's, and the minipager never enters the
fault that nobody answers; this is `TouchedPagesCome`, the comment at
`minipager.cc:25` with its condition, which `boot_bad_elf` shows to be needed.
`StallInv` adds that the minipager runs before any task is started (`PagerThere`), that
it has a task only while it serves (`ServedOnly`, without which a task could take
itself for served) and that nobody but simplethread1 calls (`CallerKnown`).  That a
file server that has started is not lost is `NoneWild` of `ImageInv`, hence
`NothingOverlaps`.  The second theorem has no condition: `FaultInv`, the part of
`IsoInv` that no bad module spoils, is enough to see that a queued fault is one of a
task that still waits, so that each turn of the minipager takes exactly one task from
one `FaultStage` to the next.  Places, pages and stages are finite in number and no
page becomes free again, so a boot has an end.

**Servers.**  The invariant of `NoCallerIsLost` adds to `CallersKept` that whoever
is in a queue is sending to that server and is there once (`QueuedOnce`), that a
client in a call has a request, and that a loop that processes has a partner.
Without `QueuedOnce` the receive phase could take up a client that is being
served elsewhere.  For `CallsEndAsOffered`, `RepliesDue` says that a prepared
reply is one of those its partner's request may have, and `IdleIsFree` that a
client outside a call has no request.  `EntryIsOffered` compares the entry that
answers a request with what the server offers under the ids the request's are cut
to, for every interface id below `MAX_INTERFACEID` and every function id; it rests on
`TablesOffer`, which compares the three tables with the ids of `types.idl`.

`LoadedTextIsIntact` and `RunningBssIsIntact` assume `NoBadElf` and
`NothingOverlaps`, which adds to `DisjointImages` that no two modules share a page
and no image lies on a module.  `boot_linked` and `boot_damaged` are layouts and
situations outside of this.  All tasks' images are written through root's own
identity mapped space, so a write is kept off a running task by addresses alone.
`ImageInv` adds to `IsoInv`: `ModulesIntact`, so that what root copies is the
file's; `TextSoFar` and `BssSoFar`, what the two loops have done up to where they
are; `TextStays`, from the start of a task on; and `NoneWild`.  `WhoWrites` says
once and for all which step writes which page, and the parts follow from it.

**Naming clients.**  `SystemInv` says where a thread may be (`InCall`), that who
is queued waits for that receiver and once (`Queued`), and that occupied slots
and `holders` are the same (`SlotsHeld`, `HoldersInSlots`).  `LookupSound` rests on
`Answered`: an answer in hand that names a thread came from the table while the
lookup ran, for a prefix of what the client's buffer held, and that buffer holds
one of the `Copies` of the path (`Asked`).  This has to speak of the reply and not
of the table, which may have changed since.  `FindInv` adds that a table from which
nothing is deregistered has no hole and that a name held throughout is answered
with its holder at the first hop.  `FindsRegistered` leaves out the names that the
name server answers with itself.  A client that registered `/` is not found there:
the handler tests for its own name first.  `NobodyInVain` needs `Hop`: a thread is sent on
only to threads its program makes it depend on.  `Orderly` gives these a rank of
two levels, and nobody waits for a thread of the upper one.  `BufferAssumption`
says that `/driver` fits the buffer and that a path has a slash.
`SystemRefinement` composes: `NameServerProofs` is instantiated for the table inside the
system (`P`), so that `TableRuns` gives each of its steps as a step of the service, and
`HoldersShown` says that the history variable `holders`, which is kept call by call, is
at every moment what the table shows.  Steps of clients and servers are stutterings.

**Loader.**  `SearchInv` speaks of the records passed so far, `RequestInv` of the
pages requested so far: all those of the cells below `addr`, but for the page
`addr` lies in, where the module may have cells before `addr`.  `LoadInv` speaks of
the segments loaded so far: before segment `i`, each cell holds what the segments
before `i` put there, and else what was there at first (`Loaded(i, x)`).  The step
is `SegmentLoaded`.  It uses that the headers of a placeable image are spared, so
that the sizes read again after the copy are the same, and that the file part of a
later segment is spared.
`LoopsCountDown` orders the stages (`Stage`) and counts in each the turns left
(`TurnsLeft`): records, pages, segments.  For the segments the number of turns is read
from memory the copies may change, but a header that lies outside of the memory ends
the loop in `wild`, so their number is bounded by the memory's end.  The property
compares two states and is insensitive to stuttering: it is the part of `LoadingEnds`
that does not rest on fairness.
`Placeable` asks for the headers to lie in the memory; without that it says nothing
about an image at the end of it.  `LoadsAssumption` describes the bootinfo as GRUB
leaves it, with command lines over the letters `Letter`.

**C helpers.**  A loop is a recursive function of its turns.  tlapm cannot
instantiate the library's induction theorem, so `LoopProofs` has an induction of
its own that speaks of a *set* of turns: a set that has the first turn and with each
turn the next has all of them, since otherwise the turns it lacks would have a
least element (`TurnInduction`, `LeastElement`).  `LoopRuns` shows in the same way
that the function defined by a loop exists; only then does the `CHOOSE` behind a
recursive function tell anything.  `CopyDone` says what the strings' copy has done
without asking whether its arguments overlap: each cell it wrote holds what the
source held, or, if the copy had come by there before, what it wrote there.  That
a `strcpy` into its own string runs on for ever follows from it directly: the cell
where it stopped would be a copy of an earlier cell that is not NUL.
Words are sums of powers of two.  `Power` is a recursive function, and each bit of a
word is found by `OneBitMore`: what a slice of a word is worth (`WordOfSlice`) grows
by a bit with each turn.  `BitsOfMask` gives the bits of the masks the roundings use,
so that masking is taking a multiple of a power away; `aroundUp` is right because the
sum it masks is less than one power past the multiple wanted, or wraps to 0.

**Heap.**  The theorems assume that the debugger halts (`~KdbReturns`;
`heap_exhausted` shows why) and `SumsFit`: no sum in `do_mmap` wraps, for the
requests made.  The code does not ensure the latter (section 4).  Where blocks are
cannot be read off the memory without following the lists, and reachability is
beyond the prover.  So `HeapInv` says that there *are* three things, not kept as
variables: `F`, which gives every free block its list, `R`, its place on that list,
and `top`, how far the heap has been cut.  `Layout` relates them to the memory:

* `Typed`: `top` lies in the area, and what the other parts speak of has its type;
* `Placed`: blocks, free, held, or large and freed before, lie apart and side by
  side from the start of the area to `top`;
* `Linked`: the head of a list is at place 0, a link leads to the next place on the
  same list or ends it, and no place is taken twice; hence no block is on two
  lists, nor twice on one;
* `Zeroed`: a free block is zero but for its link, and so is all behind `top`,
  which is what lets `calloc` do without clearing;
* `Owned`: a held block is on no list and large enough for what was asked, and what was
  freed is on a list or large, so that a second `free` does nothing.

A list cut out of a new page is a loop again and its links are found by
`TurnInduction`.  `Refinement` maps `blocks` to the contents of the held blocks
(`Contents`).  `CoveredExactly` has to identify the blocks of `Layout` with those
that `ExactCover` finds by following each list a bounded number of steps: a list is
no longer than that because its blocks are distinct and all fit below `top`.

**Only model-checked.**  Liveness: `BootCompletes`, `RootFinishes`, `StartedServes`,
`AllReturn`, `LoadingEnds` and the liveness half of `ImplementsRemoteCalls`, which rest
on fairness.  All invariants and action properties of the passing runs are proved.

## 6. Not modelled

* `sleep` (one kernel call that nothing here makes), `LogMessage`, `list_modules`,
  `list_memdesc` and all other printing; placement `new` and its `delete`, which
  do nothing.
* Errors of an IPC other than a missing thread: what an IDL4 stub leaves in its
  results then is not in the repository.  The same goes for the NULL string the
  name server answers to `/` (carried as `NullString`, never read further).
* `WANT_MALLOC_ZERO` and `WANT_FREE_OVERWRITE`, which are never defined.
* Console, keyboard, logging and driver servers: interfaces without source.
* The stack, the constructors and the return from `main` in the start-up code: no
  constructor here has an effect on the state, and no `main` returns.
* Build files and documents: no behaviour.  Link addresses and document statements
  are quoted where a property uses them.  Of the interface files and the vendored
  headers `elf.h`, `mbi.h`, `stddef.h` and `limits.h`, only the numbers and fields
  the code looks at are in the models.

## 7. Plan

1. All parts with behaviour are modelled and, but for the liveness that section 5
   lists as only model-checked, all that the passing runs check is proved.
2. `HeapProofs` without `SumsFit`: what the heap keeps when `__heap_ptr` moves
   backwards, first as a run.
3. The server loops and the naming clients together: a table whose clients are the
   servers of `Servers`, once one of them registers.
