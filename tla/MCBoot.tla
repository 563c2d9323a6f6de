------------------------------- MODULE MCBoot -------------------------------
(* Small boots.  Superpages of 8 pages: the first holds the bootinfo, root *)
(* and the modules, the second the images, the rest is free memory.        *)
EXTENDS Boot, TLC

MCSuperOf == [p \in 0 .. LastPage |-> p \div 8]
MCRootPages == {6}

Place(m, n, f, b, e) == [mod |-> m, modEnd |-> n, base |-> f, bss |-> b, end |-> e]

(* Disjoint images; the memory server has the larger module and bss. *)
MCLayout ==
  (MemoryServer  :> Place(2, 3,  8,  9, 10)) @@
  (FileServer    :> Place(4, 4, 11, 12, 12)) @@
  (SimpleThread1 :> Place(5, 5, 13, 14, 14))

(* The link addresses of the Makefiles: the memory server's bss, with      *)
(* tasks[10], reaches past the file server's base.                         *)
LinkedLayout ==
  (MemoryServer  :> Place(2, 3,  8,  9, 11)) @@
  (FileServer    :> Place(4, 4, 11, 12, 12)) @@
  (SimpleThread1 :> Place(5, 5, 13, 14, 14))

AllGood == [t \in Task |-> "good"]
GoodBoots ==
  {[bootinfo |-> TRUE, module |-> AllGood, refused |-> {}, kdbReturns |-> TRUE]}

(* Bootinfo, modules and kernel refusals in every combination, with a      *)
(* debugger that returns and one that does not.                            *)
FailingBoots ==
  [bootinfo : BOOLEAN, module : [Task -> {"good", "missing"}],
   refused : SUBSET (Task \cup {Root}), kdbReturns : BOOLEAN]

(* One module is no i386 executable. *)
BadElfBoots ==
  {[bootinfo |-> TRUE, module |-> [AllGood EXCEPT ![t] = "bad_elf"], refused |-> {},
    kdbReturns |-> TRUE] : t \in Task}
=============================================================================
