----------------------------- MODULE MCLoader -----------------------------
(* A memory of five pages of eight cells with a module of two segments in  *)
(* it, at cell 8, 6 or 2; an image may lie below, above or over it.         *)
EXTENDS Loader, TLC

CONSTANTS n1, n2

MCChar == 0 .. 127
Blank == [x \in Addr |-> 9]

Segments2 == <<<<PT_LOAD, 19, 33, 1, 2>>, <<2, 0, 0, 0, 0>>>>

(* Type, offset in the file, address, size in the file and in memory. *)
Segments1 ==
  {<<PT_LOAD, o, v, f, m>> :
     o \in {18, 20}, v \in {2, 6, 8, 14, 24, 27, 30, 32, 38}, f \in {0, 1, 3}, m \in {0, 2, 4}}

GoodHeader == <<ELFMAG, ET_EXEC, EM_386, EV_CURRENT, 50, EhdrSize, 0, 2>>
BadHeaders == {[GoodHeader EXCEPT ![k + 1] = 99] : k \in {e_ident, e_type, e_machine, e_version, e_flags}}
Headers1 == {[GoodHeader EXCEPT ![e_phnum + 1] = 0]} \cup BadHeaders

Data == <<41, 42, 43>>
File(h, s1, s2) == h \o s1 \o s2 \o Data
FileSize == EhdrSize + 2 * PhdrSize + 3

At(start, h, s1, s2) ==
  [x \in Addr |-> IF x \in start .. start + FileSize - 1
                  THEN File(h, s1, s2)[x - start + 1] ELSE Blank[x]]

Entry(t, c, a, z) == [type |-> t, cmdline |-> c, start |-> a, size |-> z]
Mine(a) == Entry(ModuleType, <<n1, n2>>, a, FileSize)
Short == Entry(ModuleType, <<n1>>, 1, 2)
Kernelish == Entry(2, <<n1>>, 1, 2)

Name == <<n1, n2>>

Situation(m, es, w, rs) ==
  [mem |-> m, entries |-> es, beyond |-> Mine(8), wanted |-> w, refused |-> rs]

First(S) == CHOOSE x \in S : TRUE
Plain == At(8, GoodHeader, <<PT_LOAD, 18, 30, 2, 3>>, Segments2[1])

(* Images of all shapes, *)
Shapes ==
  {Situation(At(8, GoodHeader, s1, s2), <<Mine(8)>>, Name, {}) :
     s1 \in Segments1, s2 \in Range(Segments2)}
(* headers that are not an executable's, *)
BadFiles ==
  {Situation(At(8, h, First(Segments1), Segments2[1]), <<Mine(8)>>, Name, {}) : h \in Headers1}
(* bootinfos of up to three records and what is taken for one more, *)
Searches ==
  {[Situation(Plain, es, w, {}) EXCEPT !.beyond = b] :
     es \in UNION {[1 .. n -> {Mine(8), Short, Kernelish}] : n \in 0 .. 3},
     w \in {Name, <<n1>>}, b \in {Mine(8), Kernelish}}
(* modules that do not start with a page, of which one ends in a page that *)
(* is left out, and pages refused.                                         *)
Pages ==
  {Situation(At(a, GoodHeader, <<PT_LOAD, 18, 30, 2, 3>>, Segments2[1]), <<Mine(a)>>, Name, {}) :
     a \in {2, 6}} \cup
  {Situation(Plain, <<Mine(8)>>, Name, {k}) : k \in 0 .. 4}

MCLoads == Shapes \cup BadFiles \cup Searches \cup Pages
=============================================================================
