------------------------------ MODULE MC_Link ------------------------------
(* Link on small object files, names, sections and command lines.          *)
EXTENDS Link, ObjectFiles, ImportNames

\* all but SharedReference meet the hypothesis of RelocationsAlwaysFollow
ASSUME ProgramsApart ==
  Programs # SharedReference => \A p \in Programs : \A o \in O!ObjectsOf(p) : O!OnceApart(o)

Q == INSTANCE SectionLists
AllImages == Q!AllImages

\* command lines with up to three files
File(type, does) == [type |-> type, does |-> does, tests |-> 0]
Tested(does, k) == [type |-> "C", does |-> does, tests |-> k]

Kinds == { File("C", "well"), File("C", "errs"), File("C", "missing"),
           File("BIN", "well"), File("BIN", "complains"), File("BIN", "errs"),
           File("LIB", "well"), File("LIB", "missing") }
TestFiles == { Tested("well", 0), Tested("well", 2), Tested("errs", 1) }

UpTo(kinds, k) == UNION {[1 .. j -> kinds] : j \in 0 .. k}

AllCommands ==
  { [mode |-> m, files |-> f] : m \in {"exe", "obj", "merge", "pp"}, f \in UpTo(Kinds, 3) }
  \cup { [mode |-> "tests", files |-> f] : f \in UpTo(TestFiles, 3) }

AllLinks == {"well", "undefined", "complains", "exits", "unwritable"}
=============================================================================
