---------------------------- MODULE ObjectFiles ----------------------------
(* Small object files and archives for ObjectLoad. *)
EXTENDS Integers, Sequences

Part(name, type, size, align) ==
  [name |-> name, type |-> type, size |-> size, align |-> align, info |-> 0, rels |-> <<>>]
RelaPart(of, info, rels) ==
  [name |-> of, type |-> "rela", size |-> 0, align |-> 8, info |-> info, rels |-> rels]
Rel(at, sym) == [at |-> at, sym |-> sym]
Sym(name, bind, sec, off) == [name |-> name, bind |-> bind, sec |-> sec, off |-> off]

\* one function f that uses g and a string of its own; two layouts
Uses(f, g, bind) ==
  [secs |-> <<Part(".text", "bits", 3, 1), Part(".note", "other", 2, 1), Part(".data", "bits", 3, 2),
              RelaPart(".rela.text", 1, <<Rel(0, 2), Rel(2, 1)>>)>>,
   syms |-> <<Sym("str", "LOCAL", 3, 1), Sym(g, "GLOBAL", 0, 0), Sym(f, bind, 1, 0)>>]
UsesToo(f, g, bind) ==
  [secs |-> <<Part(".note", "other", 1, 1), RelaPart(".rela.data", 3, <<Rel(1, 3)>>), Part(".data", "bits", 2, 2),
              RelaPart(".rela.text", 5, <<Rel(1, 1), Rel(0, 2)>>), Part(".text", "bits", 2, 4),
              Part(".bss", "nobits", 1, 2)>>,
   syms |-> <<Sym("str", "LOCAL", 6, 0), Sym(f, bind, 5, 1), Sym(g, "WEAK", 0, 0)>>]

\* a function that uses nothing; one that uses an absolute value
Leaf(f, bind) ==
  [secs |-> <<Part(".text", "bits", 1, 1)>>, syms |-> <<Sym(f, bind, 1, 0)>>]
Absolute(f) ==
  [secs |-> <<Part(".text", "bits", 2, 2), RelaPart(".rela.text", 1, <<Rel(1, 1)>>)>>,
   syms |-> <<Sym("abs", "GLOBAL", -1, 5), Sym(f, "WEAK", 1, 1)>>]

\* files the loader does not take
BadIndex ==
  [Leaf("f", "GLOBAL") EXCEPT !.secs = Append(@, RelaPart(".rela.text", 1, <<Rel(0, 2)>>))]
NoSymbol ==
  [Leaf("f", "GLOBAL") EXCEPT !.secs = Append(@, RelaPart(".rela.text", 1, <<Rel(0, 0)>>))]
BadType ==
  [Leaf("f", "GLOBAL") EXCEPT !.secs[1].type = "nobits"]

Strengths == {"GLOBAL", "WEAK"}
Words == {"f", "g", "h"}
Sound(o) == \A x, y \in DOMAIN o.syms : o.syms[x].name = o.syms[y].name => x = y
GoodFiles ==
  { o \in { Uses(f, g, b) : f, g \in Words, b \in Strengths }
           \cup { UsesToo(f, g, b) : f, g \in Words, b \in Strengths }
           \cup { Leaf(f, b) : f \in Words, b \in Strengths }
           \cup { Absolute(f) : f \in Words } : Sound(o) }
BadFiles == { BadIndex, NoSymbol, BadType }

\* what ar and the tool of the compiler write: the names members define
RECURSIVE IndexOf(_, _)
IndexOf(members, m) ==
  IF m > Len(members) THEN <<>>
  ELSE LET defs == SelectSeq(members[m].syms, LAMBDA y : y.bind # "LOCAL" /\ y.sec > 0)
       IN [d \in DOMAIN defs |-> [name |-> defs[d].name, member |-> m]] \o IndexOf(members, m + 1)

ObjectFile(o) == [kind |-> "object", obj |-> o]
ArchiveFile(members, whole) ==
  [kind |-> "archive", members |-> members, indexed |-> TRUE, index |-> IndexOf(members, 1), whole |-> whole]
NoIndex(members) == [ArchiveFile(members, FALSE) EXCEPT !.indexed = FALSE, !.index = <<>>]

\* members that need none, one after the other, or each other
Members ==
  { <<x, y, z>> : x \in {Leaf("f", "GLOBAL"), Uses("f", "g", "GLOBAL"), UsesToo("f", "h", "WEAK")},
                  y \in {Leaf("g", "WEAK"), UsesToo("g", "f", "GLOBAL"), Uses("g", "h", "GLOBAL")},
                  z \in {Uses("h", "g", "WEAK"), UsesToo("h", "f", "GLOBAL"), Uses("h", "k", "GLOBAL")} }
Orders == {<<1, 2, 3>>, <<1, 3, 2>>, <<2, 1, 3>>, <<2, 3, 1>>, <<3, 1, 2>>, <<3, 2, 1>>}
Shuffled == { [n \in 1 .. 3 |-> m[p[n]]] : m \in Members, p \in Orders }

Mains == { Uses("main", w, "GLOBAL") : w \in Words } \cup { UsesToo("main", "f", "GLOBAL"), Leaf("main", "GLOBAL") }

LinksOfThree ==
  { <<ObjectFile(a), ObjectFile(b), ObjectFile(c)>> :
      a \in GoodFiles, b \in GoodFiles, c \in {UsesToo("h", "f", "GLOBAL")} \cup BadFiles }
  \cup { <<ObjectFile(s), ArchiveFile(m, FALSE), ObjectFile(Absolute("g"))>> : s \in Mains, m \in Shuffled }
  \cup { <<ArchiveFile(m, TRUE), ObjectFile(s)>> : s \in Mains, m \in Members }
  \cup { <<ObjectFile(s), NoIndex(m)>> : s \in Mains, m \in Members }
  \cup { <<ObjectFile(s), ArchiveFile(<<Leaf("k", "LOCAL")>>, w)>> : s \in Mains, w \in BOOLEAN }
  \cup { <<ObjectFile(s), ArchiveFile(<<m[1], m[2]>>, FALSE), ArchiveFile(<<m[3]>>, FALSE)>> : s \in Mains, m \in Shuffled }
  \cup { <<ObjectFile(s), ArchiveFile(<<m[1], BadIndex>>, FALSE)>> : s \in Mains, m \in Members }

\* text linked once, which has no relocation, or one
Once(bind, rels) ==
  [secs |-> <<Part(".text", "bits", 2, 1), Part(".gnu.linkonce.t.f", "bits", 2, 1),
              RelaPart(".rela.text", 1, <<Rel(1, 1)>>)>> \o rels,
   syms |-> <<Sym("f", bind, 2, 1), Sym("g", "GLOBAL", 0, 0)>>]
SharedText ==
  { <<ObjectFile(Once(a, <<>>)), ObjectFile(Leaf("g", "GLOBAL")), ObjectFile(Once(b, <<>>))>> :
      a, b \in Strengths }
SharedReference ==
  { <<ObjectFile(Leaf("g", "GLOBAL")), ObjectFile(x), ObjectFile(x)>> :
      x \in { Once("WEAK", <<RelaPart(".rela.gnu.linkonce.t.f", 2, <<Rel(0, 2)>>)>>) } }
LinkedFiles == LinksOfThree \cup SharedText
=============================================================================
