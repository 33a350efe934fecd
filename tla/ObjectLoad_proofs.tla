-------------------------- MODULE ObjectLoad_proofs --------------------------
(* Proofs about ObjectLoad as a part of Link, for any programs of objects  *)
(* and archives: members are loaded as they are needed, and relocations    *)
(* move along with the sections and keep their symbols.                    *)
EXTENDS Link, FiniteSetTheorems, TLAPS

-----------------------------------------------------------------------------
(* The objects that are linked.                                            *)

\* where the loader is
LoadedInv ==
  /\ program \in Programs
  /\ loads \in Seq([obj : O!ObjectsOf(program), from : DOMAIN program])
  /\ file \in Nat \ {0} /\ bound \in Nat /\ i \in Nat
  /\ pc \in {"file", "member", "index", "done", "failed"} \cup O!Loops
  /\ pc \in {"member", "index"} \cup O!Loops => file \in DOMAIN program
  /\ pc \in {"member", "index"} =>
       program[file].kind = "archive" /\ i > 0 /\ (O!UsesIndex(program[file]) <=> pc = "index")
  /\ pc \in O!Loops =>
       turn \in Nat \ {0} /\ loads # <<>> /\ (program[file].kind = "archive" => i > 0)

LEMMA ProgramShape ==
  ASSUME program \in Programs
  PROVE  /\ program \in Seq(O!Range(program))
         /\ \A f \in DOMAIN program : program[f].kind \in {"object", "archive"}
         /\ \A f \in DOMAIN program : program[f].kind = "object" =>
              program[f].obj \in O!ObjectsOf(program)
         /\ \A f \in DOMAIN program : program[f].kind = "archive" =>
              /\ program[f].members \in Seq(O!Range(program[f].members))
              /\ program[f].index \in Seq(O!Range(program[f].index))
              /\ O!IndexTrue(program[f])
              /\ \A k \in DOMAIN program[f].members :
                   program[f].members[k] \in O!ObjectsOf(program)
<1>1. /\ program \in Seq(O!Range(program))
      /\ \A f \in O!Range(program) :
         \/ f.kind = "object"
         \/ /\ f.kind = "archive" /\ f.whole \in BOOLEAN
            /\ f.members \in Seq(O!Range(f.members)) /\ f.index \in Seq(O!Range(f.index))
            /\ O!IndexTrue(f)
  BY ObjectAssumption DEF O!Assumptions
<1>2. \A f \in DOMAIN program : program[f] \in O!Range(program)
  BY DEF O!Range
<1>3. \A f \in DOMAIN program : program[f].kind = "object" =>
        program[f].obj \in O!ObjectsOf(program)
  BY DEF O!ObjectsOf
<1>4. ASSUME NEW f \in DOMAIN program, program[f].kind = "archive",
             NEW k \in DOMAIN program[f].members
      PROVE  program[f].members[k] \in O!ObjectsOf(program)
  <2>1. program[f].members[k] \in O!Range(program[f].members)
    BY DEF O!Range
  <2> QED
    BY <1>4, <2>1 DEF O!ObjectsOf
<1> QED
  BY <1>1, <1>2, <1>3, <1>4

LEMMA Elements == \A R : \A w \in Seq(R) : \A x \in DOMAIN w : w[x] \in R
OBVIOUS

LEMMA FirstOf == \A R : \A w \in Seq(R) : w # <<>> => 1 \in DOMAIN w
OBVIOUS

LEMMA ObjectShape ==
  ASSUME program \in Programs, NEW o \in O!ObjectsOf(program)
  PROVE  /\ O!WellFormed(o) /\ O!RelocationsFit(o)
         /\ \A b \in O!ObjectsOf(program) : O!RelasNamed(o, b) /\ O!OnceAlike(o, b)
BY ObjectAssumption DEF O!Assumptions

LEMMA LoadsAre ==
  ASSUME LoadedInv, NEW l \in DOMAIN loads
  PROVE  O!ObjectOf(l) \in O!ObjectsOf(program) /\ loads[l].from \in DOMAIN program
<1>1. loads[l] \in [obj : O!ObjectsOf(program), from : DOMAIN program]
  BY Elements DEF LoadedInv
<1> QED
  BY <1>1 DEF O!ObjectOf

LEMMA CurrentIs ==
  ASSUME LoadedInv, pc \in O!Loops
  PROVE  /\ Len(loads) \in DOMAIN loads
         /\ O!Current = O!ObjectOf(Len(loads))
         /\ O!Current \in O!ObjectsOf(program)
<1>1. Len(loads) \in DOMAIN loads
  BY DEF LoadedInv
<1> QED
  BY <1>1, LoadsAre DEF O!Current, O!ObjectOf

-----------------------------------------------------------------------------
(* Kinds of steps.                                                         *)

\* the loading of object o begins
Begins(o) == O!Load(o) /\ o \in O!ObjectsOf(program) /\ pc \notin O!Loops /\ pc # "failed"
             /\ file \in DOMAIN program /\ file' = file /\ program' = program
\* the tables stay
Idles == /\ UNCHANGED <<program, secs, syms, errs, loads>>
         /\ pc \notin O!Loops /\ pc' \notin O!Loops

LEMMA BeginsLoaded ==
  ASSUME LoadedInv, NEW o, Begins(o), i' \in Nat, bound' \in Nat,
         program[file].kind = "archive" => i' > 0
  PROVE  LoadedInv'
<1> DEFINE E == [obj : O!ObjectsOf(program), from : DOMAIN program]
<1>1. [obj |-> o, from |-> file] \in E
  BY DEF Begins
<1>2. loads \in Seq(E)
  BY DEF LoadedInv
<1> HIDE DEF E
<1>3. Append(loads, [obj |-> o, from |-> file]) \in Seq(E)
  BY <1>1, <1>2
<1>4. Append(loads, [obj |-> o, from |-> file]) # <<>>
  BY <1>1, <1>2
<1>5. loads' = Append(loads, [obj |-> o, from |-> file]) /\ pc' = "place" /\ turn' = 1
      /\ program' = program /\ file' = file
  BY DEF Begins, O!Load
<1>6. O!ObjectsOf(program)' = O!ObjectsOf(program)
  BY <1>5 DEF O!ObjectsOf
<1>7. E' = E
  BY <1>5, <1>6 DEF E
<1> QED
  BY <1>3, <1>4, <1>5, <1>7 DEF LoadedInv, Begins, O!Loops, E

\* the steps that begin a load, and what else changes
LEMMA BeginKinds ==
  ASSUME LoadedInv, O!LoadFile \/ O!LoadMember \/ O!ScanIndex
  PROVE  \/ \E o : Begins(o) /\ i' \in Nat /\ bound' \in Nat /\ (program[file].kind = "archive" => i' > 0)
         \/ Idles /\ O!ScanIndex /\ UNCHANGED <<pc, file, bound>>
<1>1. CASE O!LoadFile
  <2>1. file \in DOMAIN program /\ program[file].kind = "object"
    BY <1>1, ProgramShape DEF O!LoadFile, O!Input, LoadedInv
  <2>2. Begins(program[file].obj)
    BY <1>1, <2>1, ProgramShape DEF O!LoadFile, O!Input, LoadedInv, Begins, O!Loops
  <2> QED
    BY <1>1, <2>1, <2>2 DEF O!LoadFile, LoadedInv
<1>2. CASE O!LoadMember
  <2>1. file \in DOMAIN program /\ program[file].kind = "archive" /\ i > 0 /\ i \in Nat
    BY <1>2 DEF O!LoadMember, LoadedInv
  <2>2. i \in DOMAIN program[file].members
    BY <1>2, <2>1, ProgramShape DEF O!LoadMember, O!Input, LoadedInv
  <2>3. program[file].members[i] \in O!ObjectsOf(program)
    BY <2>1, <2>2, ProgramShape DEF LoadedInv
  <2>4. Begins(program[file].members[i])
    BY <1>2, <2>1, <2>3 DEF O!LoadMember, O!Input, LoadedInv, Begins, O!Loops
  <2> QED
    BY <1>2, <2>1, <2>4 DEF O!LoadMember, LoadedInv
<1>3. CASE O!ScanIndex
  <2>1. file \in DOMAIN program /\ program[file].kind = "archive" /\ i > 0 /\ i \in Nat /\ pc = "index"
    BY <1>3 DEF O!ScanIndex, LoadedInv
  <2>2. i \in DOMAIN program[file].index
    BY <1>3, <2>1, ProgramShape DEF O!ScanIndex, O!Input, LoadedInv
  <2> DEFINE e == program[file].index[i]
  <2>3. e \in O!Range(program[file].index)
    BY <2>2 DEF O!Range
  <2>4. e.member \in DOMAIN program[file].members
    BY <2>1, <2>3, ProgramShape DEF O!IndexTrue, LoadedInv
  <2>5. program[file].members[e.member] \in O!ObjectsOf(program)
    BY <2>1, <2>4, ProgramShape DEF LoadedInv
  <2>6. CASE O!Undefined(syms, e.name)
    <3>1. Begins(program[file].members[e.member]) /\ bound' = bound + 1 /\ i' = i + 1
      BY <1>3, <2>1, <2>5, <2>6 DEF O!ScanIndex, O!Input, LoadedInv, Begins, O!Loops
    <3> QED
      BY <3>1, <2>1 DEF LoadedInv
  <2>7. CASE ~ O!Undefined(syms, e.name)
    BY <1>3, <2>1, <2>7 DEF O!ScanIndex, O!Input, Idles, O!Loops, O!linked, O!locals
  <2> QED
    BY <2>6, <2>7
<1> QED
  BY <1>1, <1>2, <1>3

\* what the loops of a load do not touch
LEMMA TurnKinds ==
  ASSUME O!Place \/ O!LinkInfo \/ O!AddSymbol \/ O!SymbolsAdded \/ O!Patch
  PROVE  /\ UNCHANGED <<program, file, i, bound, loads>>
         /\ pc \in O!Loops /\ pc' \in O!Loops \cup {"failed"}
         /\ turn' = turn + 1 \/ turn' = 1
<1>1. O!Place => UNCHANGED <<program, file, i, bound, loads>> /\ pc = "place" /\ pc' \in {"place", "failed"}
                 /\ turn' = turn + 1
  BY DEF O!Place, O!Ignore, O!SkipOnce, O!WrongType, O!AddSection, O!JoinSection, O!Concatenate
<1>2. O!LinkInfo => UNCHANGED <<program, file, i, bound, loads>> /\ pc = "place"
                    /\ pc' \in {"symbols", "failed"} /\ turn' = 1
  BY DEF O!LinkInfo
<1>3. O!AddSymbol => UNCHANGED <<program, file, i, bound, loads>> /\ pc = "symbols" /\ pc' = "symbols"
                     /\ turn' = turn + 1
  BY DEF O!AddSymbol
<1>4. O!SymbolsAdded => UNCHANGED <<program, file, i, bound, loads>> /\ pc = "symbols" /\ pc' = "patch"
                        /\ turn' = 1
  BY DEF O!SymbolsAdded
<1>5. O!Patch => UNCHANGED <<program, file, i, bound, loads>> /\ pc = "patch" /\ pc' \in {"patch", "failed"}
                 /\ turn' = turn + 1
  BY DEF O!Patch
<1> QED
  BY <1>1, <1>2, <1>3, <1>4, <1>5 DEF O!Loops

LEMMA LoadedNext ==
  ASSUME LoadedInv, O!Next
  PROVE  LoadedInv'
<1> USE DEF O!Loops
<1>0. O!ObjectsOf(program)' = O!ObjectsOf(program) /\ program' = program
  <2>1. program' = program
    BY DEF O!Next, O!LoadFile, O!OpenArchive, O!LoadMember, O!CloseArchive, O!ScanIndex,
           O!ScanAgain, O!AllAdded, O!Place, O!LinkInfo, O!AddSymbol, O!SymbolsAdded, O!Patch, O!Return
  <2> QED
    BY <2>1 DEF O!ObjectsOf
<1>1. CASE O!LoadFile \/ O!LoadMember \/ O!ScanIndex
  <2>1. CASE Idles /\ O!ScanIndex /\ UNCHANGED <<pc, file, bound>>
    BY <2>1, <1>0 DEF LoadedInv, Idles, O!ScanIndex, O!UsesIndex
  <2>2. CASE \E o : Begins(o) /\ i' \in Nat /\ bound' \in Nat /\ (program[file].kind = "archive" => i' > 0)
    BY <2>2, BeginsLoaded
  <2> QED
    BY <1>1, <2>1, <2>2, BeginKinds
<1>2. CASE O!Place \/ O!LinkInfo \/ O!AddSymbol \/ O!SymbolsAdded \/ O!Patch
  <2>1. /\ UNCHANGED <<program, file, i, bound, loads>>
        /\ pc \in O!Loops /\ pc' \in O!Loops \cup {"failed"}
        /\ turn' = turn + 1 \/ turn' = 1
    BY <1>2, TurnKinds
  <2> QED
    BY <2>1, <1>0 DEF LoadedInv
<1>3. CASE O!OpenArchive
  <2>1. file \in DOMAIN program
    BY <1>3, ProgramShape DEF O!OpenArchive, LoadedInv
  <2> QED
    BY <1>3, <1>0, <2>1 DEF LoadedInv, O!OpenArchive, O!Input, O!UsesIndex
<1>4. CASE O!CloseArchive \/ O!ScanAgain \/ O!AllAdded
  BY <1>4, <1>0 DEF LoadedInv, O!CloseArchive, O!ScanAgain, O!AllAdded, O!UsesIndex
<1>5. CASE O!Return
  <2>1. program[file].kind \in {"object", "archive"}
    BY <1>5, ProgramShape DEF O!Return, LoadedInv
  <2> QED
    BY <1>5, <1>0, <2>1 DEF LoadedInv, O!Return, O!Input, O!UsesIndex
<1> QED
  BY <1>1, <1>2, <1>3, <1>4, <1>5 DEF O!Next

-----------------------------------------------------------------------------
(* What is linked so far, and the locals of the loader.                    *)

LinkedPart == [load : Nat \ {0}, sec : Nat \ {0}, off : Nat, size : Nat]
LinkedSection ==
  [name : STRING, type : STRING, size : Nat, info : Nat, rels : Seq([at : Nat, sym : Nat]),
   parts : Seq(LinkedPart)]
LinkedSymbol == [name : STRING, bind : STRING, sec : Int, off : Nat]
Merged == [s : Nat, offset : Nat, new_section : BOOLEAN, link_once : BOOLEAN]

\* names are found in one place
TableInv ==
  /\ secs \in Seq(LinkedSection) /\ syms \in Seq(LinkedSymbol)
  /\ \A j, k \in DOMAIN secs : secs[j].name = secs[k].name => j = k
  /\ \A j, k \in DOMAIN syms :
       syms[j].name = syms[k].name /\ syms[j].bind # "LOCAL" /\ syms[k].bind # "LOCAL" => j = k

LocalsInv ==
  pc \in O!Loops =>
    /\ sm_table \in [DOMAIN O!Current.secs -> Merged]
    /\ old_to_new_syms \in [DOMAIN O!Current.syms -> Nat] /\ once \in BOOLEAN
    /\ \A h \in DOMAIN sm_table : sm_table[h].s # 0 => sm_table[h].s \in DOMAIN secs

TypesInv == LoadedInv /\ TableInv /\ LocalsInv

LEMMA AlignUpBounds ==
  \A x \in Nat : \A a \in Nat \ {0} : O!AlignUp(x, a) \in Nat /\ O!AlignUp(x, a) >= x
<1> SUFFICES ASSUME NEW x \in Nat, NEW a \in Nat \ {0}
             PROVE  O!AlignUp(x, a) \in Nat /\ O!AlignUp(x, a) >= x
  OBVIOUS
<1> DEFINE z == x + a - 1
<1>1. PICK d \in Nat : d = z \div a
  OBVIOUS
<1>2. d * a <= z /\ z < (d * a) + a
  BY <1>1
<1>3. PICK m \in Nat : m = d * a
  BY <1>1
<1>4. m >= x /\ O!AlignUp(x, a) = m
  BY <1>1, <1>2, <1>3 DEF O!AlignUp
<1> QED
  BY <1>3, <1>4

LEMMA LeastOfOne == \A x \in Int : O!Least({x}) = x
<1> SUFFICES ASSUME NEW x \in Int PROVE O!Least({x}) = x
  OBVIOUS
<1>1. \E y \in {x} : \A z \in {x} : y <= z
  OBVIOUS
<1> QED
  BY <1>1 DEF O!Least

LEMMA SameIs ==
  ASSUME TableInv, O!Same # {}
  PROVE  /\ O!Least(O!Same) \in DOMAIN secs
         /\ secs[O!Least(O!Same)].name = O!sh.name
<1>1. PICK j \in O!Same : TRUE
  OBVIOUS
<1>2. j \in DOMAIN secs /\ secs[j].name = O!sh.name /\ O!Same = {j}
  BY <1>1 DEF O!Same, TableInv
<1>3. j \in Int
  BY <1>2 DEF TableInv
<1> QED
  BY <1>2, <1>3, LeastOfOne

LEMMA FindIs ==
  ASSUME TableInv, NEW name
  PROVE  \/ O!Entry(syms, name) = {} /\ O!find_elf_sym(syms, name) = 0
         \/ /\ O!find_elf_sym(syms, name) \in DOMAIN syms /\ O!find_elf_sym(syms, name) # 0
            /\ O!Entry(syms, name) = {O!find_elf_sym(syms, name)}
            /\ syms[O!find_elf_sym(syms, name)].name = name
            /\ syms[O!find_elf_sym(syms, name)].bind # "LOCAL"
<1>1. CASE O!Entry(syms, name) = {}
  BY <1>1 DEF O!find_elf_sym
<1>2. CASE O!Entry(syms, name) # {}
  <2>1. PICK j \in O!Entry(syms, name) : TRUE
    BY <1>2
  <2>2. j \in DOMAIN syms /\ syms[j].name = name /\ syms[j].bind # "LOCAL" /\ O!Entry(syms, name) = {j}
    BY <2>1 DEF O!Entry, TableInv
  <2>3. j \in Int /\ j # 0
    BY <2>2 DEF TableInv
  <2>4. O!find_elf_sym(syms, name) = j
    BY <1>2, <2>2, <2>3, LeastOfOne DEF O!find_elf_sym
  <2> QED
    BY <2>2, <2>3, <2>4
<1> QED
  BY <1>1, <1>2

\* symbol y is entered as number e
Sets(y, e) ==
  /\ e \in Nat \ {0}
  /\ old_to_new_syms' = [old_to_new_syms EXCEPT ![turn] = e]
  /\ syms' \in Seq(LinkedSymbol) /\ DOMAIN syms' = DOMAIN syms \cup {e}
  /\ \A j \in DOMAIN syms : j # e => syms'[j] = syms[j]
  /\ syms'[e].name = y.name /\ (syms'[e].bind = "LOCAL" <=> y.bind = "LOCAL")
  /\ y.sec # 0 => syms'[e].sec # 0
  /\ \/ /\ e \in DOMAIN syms /\ syms[e].bind # "LOCAL" /\ y.bind # "LOCAL" /\ syms[e].name = y.name
        /\ syms'[e] \in {y, syms[e]}
        /\ syms[e].sec # 0 => syms'[e].sec # 0
     \/ /\ e \notin DOMAIN syms /\ syms'[e] = y
        /\ y.bind # "LOCAL" =>
             \A j \in DOMAIN syms : ~ (syms[j].bind # "LOCAL" /\ syms[j].name = y.name)

LEMMA SetElfSymSets ==
  ASSUME TableInv, NEW y \in LinkedSymbol, O!SetElfSym(y)
  PROVE  \E e : Sets(y, e)
<1>1. syms \in Seq(LinkedSymbol)
  BY DEF TableInv
<1>2. CASE y.bind # "LOCAL" /\ O!find_elf_sym(syms, y.name) # 0
  <2> DEFINE e == O!find_elf_sym(syms, y.name)
  <2>1. e \in DOMAIN syms /\ syms[e].name = y.name /\ syms[e].bind # "LOCAL"
    BY <1>2, FindIs
  <2>2. /\ syms' = [syms EXCEPT ![e] = IF O!Overrides(syms[e], y) THEN y ELSE syms[e]]
        /\ old_to_new_syms' = [old_to_new_syms EXCEPT ![turn] = e]
    BY <1>2 DEF O!SetElfSym
  <2> HIDE DEF e
  <2>3. syms' \in Seq(LinkedSymbol) /\ DOMAIN syms' = DOMAIN syms
    BY <1>1, <2>1, <2>2
  <2>4. syms'[e] = IF O!Overrides(syms[e], y) THEN y ELSE syms[e]
    BY <2>1, <2>2
  <2>5. e \in Nat \ {0} /\ \A j \in DOMAIN syms : j # e => syms'[j] = syms[j]
    BY <1>1, <2>1, <2>2
  <2>6. (y.sec # 0 => syms'[e].sec # 0) /\ (syms[e].sec # 0 => syms'[e].sec # 0)
    BY <2>4 DEF O!Overrides
  <2> QED
    BY <1>2, <2>1, <2>2, <2>3, <2>4, <2>5, <2>6 DEF Sets
<1>3. CASE ~ (y.bind # "LOCAL" /\ O!find_elf_sym(syms, y.name) # 0)
  <2> DEFINE e == Len(syms) + 1
  <2>1. syms' = Append(syms, y) /\ old_to_new_syms' = [old_to_new_syms EXCEPT ![turn] = e]
    BY <1>3 DEF O!SetElfSym
  <2>2. syms' \in Seq(LinkedSymbol) /\ DOMAIN syms' = DOMAIN syms \cup {e} /\ syms'[e] = y /\ e \notin DOMAIN syms
        /\ e \in Nat \ {0} /\ \A j \in DOMAIN syms : syms'[j] = syms[j]
    BY <1>1, <2>1
  <2>3. y.bind # "LOCAL" => \A j \in DOMAIN syms : ~ (syms[j].bind # "LOCAL" /\ syms[j].name = y.name)
    BY <1>3, FindIs DEF O!Entry
  <2> HIDE DEF e
  <2>4. Sets(y, e)
    BY <2>1, <2>2, <2>3 DEF Sets
  <2> QED
    BY <2>4
<1> QED
  BY <1>2, <1>3

ObjectSection ==
  [name : STRING, type : STRING, size : Nat, align : Nat \ {0}, info : Nat,
   rels : Seq([at : Nat, sym : Nat])]

LEMMA CurrentTyped ==
  ASSUME LoadedInv, pc \in O!Loops
  PROVE  /\ O!Current.secs \in Seq(ObjectSection) /\ O!Current.syms \in Seq(LinkedSymbol)
         /\ turn <= Len(O!Current.secs) =>
              turn \in DOMAIN O!Current.secs /\ O!sh \in ObjectSection
         /\ turn <= Len(O!Current.syms) =>
              turn \in DOMAIN O!Current.syms /\ O!sym \in LinkedSymbol
<1>1. O!Current.secs \in Seq(ObjectSection) /\ O!Current.syms \in Seq(LinkedSymbol)
  BY CurrentIs, ObjectShape DEF LoadedInv, O!WellFormed, ObjectSection, LinkedSymbol
<1>2. turn \in Nat \ {0}
  BY DEF LoadedInv
<1>3. turn <= Len(O!Current.secs) => turn \in DOMAIN O!Current.secs
  BY <1>1, <1>2
<1>4. turn <= Len(O!Current.syms) => turn \in DOMAIN O!Current.syms
  BY <1>1, <1>2
<1> QED
  BY <1>1, <1>3, <1>4, Elements DEF O!sh, O!sym

Offset(x) == IF O!sh.type = "rela" THEN Len(x.rels) ELSE O!AlignUp(x.size, O!sh.align)
NewPart(x) == [load |-> Len(loads), sec |-> turn, off |-> Offset(x), size |-> O!sh.size]
Joined(x) ==
  [x EXCEPT !.size = IF O!sh.type = "rela" THEN 0 ELSE Offset(x) + O!sh.size,
            !.rels = x.rels \o O!sh.rels,
            !.parts = Append(x.parts, NewPart(x))]

\* the section that is looked at is added to x, section s
Takes(x, s, new) ==
  /\ O!sh.type \in O!Handled /\ x.name = O!sh.name /\ x.type = O!sh.type
  /\ x \in LinkedSection /\ Offset(x) \in Nat
  /\ O!sh.type # "rela" => Offset(x) >= x.size
  /\ \/ new = FALSE /\ s \in DOMAIN secs /\ x = secs[s] /\ x.name \notin OnceNames
     \/ /\ new = TRUE /\ s = Len(secs) + 1 /\ s \notin DOMAIN secs /\ x = O!NewSection
        /\ \A j \in DOMAIN secs : secs[j].name # x.name
  /\ s \in Nat \ {0}
  /\ secs' \in Seq(LinkedSection) /\ DOMAIN secs' = DOMAIN secs \cup {s}
  /\ \A j \in DOMAIN secs : j # s => secs'[j] = secs[j]
  /\ secs'[s] = Joined(x)
  /\ sm_table' = [sm_table EXCEPT ![turn] =
                   [s |-> s, offset |-> Offset(x), new_section |-> new, link_once |-> FALSE]]
  /\ pc' = pc

LEMMA JoinedTyped ==
  ASSUME NEW x \in LinkedSection, O!sh \in ObjectSection, turn \in Nat \ {0}, Len(loads) \in Nat \ {0}
  PROVE  /\ Joined(x) \in LinkedSection /\ Offset(x) \in Nat
         /\ Joined(x).name = x.name /\ Joined(x).type = x.type /\ Joined(x).info = x.info
         /\ Joined(x).size = IF O!sh.type = "rela" THEN 0 ELSE Offset(x) + O!sh.size
         /\ Joined(x).rels = x.rels \o O!sh.rels
         /\ Joined(x).parts = Append(x.parts, NewPart(x))
         /\ O!sh.type # "rela" => Offset(x) >= x.size
<1>1. /\ O!sh.name \in STRING /\ O!sh.type \in STRING /\ O!sh.size \in Nat
      /\ O!sh.align \in Nat \ {0} /\ O!sh.rels \in Seq([at : Nat, sym : Nat])
  BY DEF ObjectSection
<1>2. /\ x.name \in STRING /\ x.type \in STRING /\ x.size \in Nat /\ x.info \in Nat
      /\ x.rels \in Seq([at : Nat, sym : Nat]) /\ x.parts \in Seq(LinkedPart)
  BY DEF LinkedSection
<1>3. O!AlignUp(x.size, O!sh.align) \in Nat /\ O!AlignUp(x.size, O!sh.align) >= x.size
  BY <1>1, <1>2, AlignUpBounds
<1>4. Len(x.rels) \in Nat
  BY <1>2
<1>5. Offset(x) \in Nat /\ (O!sh.type # "rela" => Offset(x) >= x.size)
  BY <1>3, <1>4 DEF Offset
<1>6. NewPart(x) \in LinkedPart
  BY <1>1, <1>5 DEF NewPart, LinkedPart
<1>7. Append(x.parts, NewPart(x)) \in Seq(LinkedPart)
  BY <1>2, <1>6
<1>8. x.rels \o O!sh.rels \in Seq([at : Nat, sym : Nat])
  BY <1>1, <1>2
<1>9. (IF O!sh.type = "rela" THEN 0 ELSE Offset(x) + O!sh.size) \in Nat
  BY <1>1, <1>5
<1> DEFINE a == IF O!sh.type = "rela" THEN 0 ELSE Offset(x) + O!sh.size
           b == x.rels \o O!sh.rels
           c == Append(x.parts, NewPart(x))
<1>10. Joined(x) = [x EXCEPT !.size = a, !.rels = b, !.parts = c]
  BY DEF Joined
<1> HIDE DEF a, b, c
<1>11. [x EXCEPT !.size = a, !.rels = b, !.parts = c] \in LinkedSection
  BY <1>7, <1>8, <1>9 DEF LinkedSection, a, b, c
<1>12. /\ Joined(x).name = x.name /\ Joined(x).type = x.type /\ Joined(x).info = x.info
       /\ Joined(x).size = a /\ Joined(x).rels = b /\ Joined(x).parts = c
  BY <1>10 DEF LinkedSection
<1> QED
  BY <1>5, <1>10, <1>11, <1>12 DEF a, b, c

LEMMA TakesIs ==
  ASSUME TypesInv, pc = "place", turn <= Len(O!Current.secs), O!AddSection \/ O!JoinSection
  PROVE  \E x, s, new : Takes(x, s, new)
<1>1. O!sh \in ObjectSection /\ turn \in Nat \ {0} /\ Len(loads) \in Nat \ {0}
  BY CurrentTyped, CurrentIs DEF TypesInv, LoadedInv, O!Loops
<1>2. secs \in Seq(LinkedSection)
  BY DEF TypesInv, TableInv
<1>3. CASE O!AddSection
  <2> DEFINE x == O!NewSection
             s == Len(secs) + 1
  <2>1. x \in LinkedSection
    <3>1. O!sh.name \in STRING /\ O!sh.type \in STRING
      BY <1>1 DEF ObjectSection
    <3> QED
      BY <3>1 DEF O!NewSection, LinkedSection
  <2>3. /\ secs' = [Append(secs, x) EXCEPT ![s] = Joined(x)]
        /\ sm_table' = [sm_table EXCEPT ![turn] =
                         [s |-> s, offset |-> Offset(x), new_section |-> TRUE, link_once |-> FALSE]]
        /\ pc' = pc
        /\ O!sh.type \in O!Handled /\ O!Same = {}
    BY <1>3 DEF O!AddSection, O!Concatenate, Joined, Offset, NewPart
  <2>4. Joined(x) \in LinkedSection /\ Offset(x) \in Nat /\ (O!sh.type # "rela" => Offset(x) >= x.size)
    BY <1>1, <2>1, JoinedTyped
  <2>5. x.name = O!sh.name /\ x.type = O!sh.type
    BY DEF O!NewSection
  <2>6. \A j \in DOMAIN secs : secs[j].name # x.name
    BY <2>3, <2>5 DEF O!Same
  <2> HIDE DEF x
  <2>7. secs' \in Seq(LinkedSection) /\ DOMAIN secs' = DOMAIN secs \cup {s}
    BY <1>2, <2>1, <2>3, <2>4
  <2>10. Append(secs, x) \in Seq(LinkedSection) /\ DOMAIN Append(secs, x) = 1 .. s /\ s \in Nat \ {0}
    BY <1>2, <2>1
  <2>11. DOMAIN secs = 1 .. s - 1 /\ \A j \in DOMAIN secs : Append(secs, x)[j] = secs[j]
    BY <1>2, <2>1
  <2> HIDE DEF s
  <2>8. secs'[s] = Joined(x) /\ s \notin DOMAIN secs /\ s \in Nat \ {0}
        /\ \A j \in DOMAIN secs : secs'[j] = secs[j]
    <3>1. PICK w : w = Append(secs, x)
      OBVIOUS
    <3>2. secs' = [w EXCEPT ![s] = Joined(x)]
      BY <2>3, <3>1
    <3>3. DOMAIN w = 1 .. s /\ DOMAIN secs = 1 .. s - 1 /\ s \in Nat \ {0}
          /\ \A j \in DOMAIN secs : w[j] = secs[j]
      BY <2>10, <2>11, <3>1
    <3> QED
      BY <3>2, <3>3
  <2>9. Takes(x, s, TRUE)
    BY <2>1, <2>3, <2>4, <2>5, <2>6, <2>7, <2>8 DEF Takes, x, s
  <2> QED
    BY <2>9
<1>4. CASE O!JoinSection
  <2> DEFINE s == O!Least(O!Same)
             x == secs[s]
  <2>1. s \in DOMAIN secs /\ x.name = O!sh.name /\ x.type = O!sh.type /\ x.name \notin OnceNames
        /\ O!sh.type \in O!Handled
    BY <1>4, SameIs DEF O!JoinSection, TypesInv
  <2> HIDE DEF s
  <2>2. x \in LinkedSection /\ s \in Nat \ {0}
    BY <1>2, <2>1, Elements
  <2>4. /\ secs' = [secs EXCEPT ![s] = Joined(x)]
        /\ sm_table' = [sm_table EXCEPT ![turn] =
                         [s |-> s, offset |-> Offset(x), new_section |-> FALSE, link_once |-> FALSE]]
        /\ pc' = pc
    BY <1>4 DEF O!JoinSection, O!Concatenate, Joined, Offset, NewPart, s
  <2>5. Joined(x) \in LinkedSection /\ Offset(x) \in Nat /\ (O!sh.type # "rela" => Offset(x) >= x.size)
    BY <1>1, <2>2, JoinedTyped
  <2>6. secs' \in Seq(LinkedSection) /\ DOMAIN secs' = DOMAIN secs
    BY <1>2, <2>1, <2>4, <2>5
  <2>7. secs'[s] = Joined(x) /\ \A j \in DOMAIN secs : j # s => secs'[j] = secs[j]
    BY <1>2, <2>1, <2>4
  <2>8. Takes(x, s, FALSE)
    BY <2>1, <2>2, <2>4, <2>5, <2>6, <2>7 DEF Takes
  <2> QED
    BY <2>8
<1> QED
  BY <1>3, <1>4

\* section j is new and has relocations, by section h of the object
Fresh(j, h) ==
  /\ h \in DOMAIN sm_table /\ sm_table[h].new_section /\ sm_table[h].s = j
  /\ O!Current.secs[h].type = "rela"

SetsInfo ==
  /\ secs' \in Seq(LinkedSection) /\ DOMAIN secs' = DOMAIN secs
  /\ \A j \in DOMAIN secs :
       /\ secs'[j].name = secs[j].name /\ secs'[j].type = secs[j].type /\ secs'[j].size = secs[j].size
       /\ secs'[j].rels = secs[j].rels /\ secs'[j].parts = secs[j].parts
       /\ \/ secs'[j].info = secs[j].info /\ \A h : ~ Fresh(j, h)
          \/ \E h : Fresh(j, h) /\ secs'[j].info = sm_table[O!Current.secs[h].info].s
  /\ pc' # "failed" =>
       \A j \in DOMAIN secs : \A h : Fresh(j, h) => sm_table[O!Current.secs[h].info].s # 0

LEMMA RelaIs ==
  ASSUME LoadedInv, pc \in O!Loops, NEW h \in DOMAIN O!Current.secs, O!Current.secs[h].type = "rela"
  PROVE  /\ O!Current.secs[h].info \in DOMAIN O!Current.secs
         /\ O!Current.secs[h].name \notin OnceNames
         /\ O!Current.secs[O!Current.secs[h].info].type \in {"bits", "nobits"}
<1>1. O!RelocationsFit(O!Current)
  BY CurrentIs, ObjectShape DEF LoadedInv
<1> QED
  BY <1>1 DEF O!RelocationsFit

LEMMA InfoChanged ==
  \A x \in LinkedSection : \A v \in Nat :
    /\ [x EXCEPT !.info = v] \in LinkedSection
    /\ [x EXCEPT !.info = v].name = x.name /\ [x EXCEPT !.info = v].type = x.type
    /\ [x EXCEPT !.info = v].size = x.size /\ [x EXCEPT !.info = v].rels = x.rels
    /\ [x EXCEPT !.info = v].parts = x.parts /\ [x EXCEPT !.info = v].info = v
BY DEF LinkedSection

LEMMA SetsInfoIs ==
  ASSUME TypesInv, O!LinkInfo
  PROVE  SetsInfo
<1> DEFINE fresh(j) == { h \in DOMAIN sm_table : sm_table[h].new_section /\ sm_table[h].s = j
                                                 /\ O!Current.secs[h].type = "rela" }
           info(h) == sm_table[O!Current.secs[h].info].s
           new(j) == IF fresh(j) = {} THEN secs[j]
                     ELSE [secs[j] EXCEPT !.info = info(CHOOSE h \in fresh(j) : TRUE)]
<1>1. /\ secs' = [j \in DOMAIN secs |-> new(j)]
      /\ pc' # "failed" => \A j \in DOMAIN secs : \A h \in fresh(j) : info(h) # 0
      /\ pc = "place" /\ pc \in O!Loops
  BY DEF O!LinkInfo, O!Loops
<1>2. secs \in Seq(LinkedSection) /\ sm_table \in [DOMAIN O!Current.secs -> Merged]
  BY <1>1 DEF TypesInv, TableInv, LocalsInv
<1>3. \A j, h : h \in fresh(j) <=> Fresh(j, h)
  BY DEF Fresh
<1>4. \A j, h : Fresh(j, h) => info(h) \in Nat
  <2> SUFFICES ASSUME NEW j, NEW h, Fresh(j, h) PROVE info(h) \in Nat
    OBVIOUS
  <2>1. h \in DOMAIN O!Current.secs /\ O!Current.secs[h].type = "rela"
    BY <1>2 DEF Fresh
  <2>2. O!Current.secs[h].info \in DOMAIN O!Current.secs
    BY <1>1, <2>1, RelaIs DEF TypesInv
  <2> QED
    BY <1>2, <2>2 DEF Merged
<1> HIDE DEF fresh, info
<1>5. ASSUME NEW j \in DOMAIN secs
      PROVE  /\ new(j) \in LinkedSection
             /\ new(j).name = secs[j].name /\ new(j).type = secs[j].type /\ new(j).size = secs[j].size
             /\ new(j).rels = secs[j].rels /\ new(j).parts = secs[j].parts
             /\ \/ new(j).info = secs[j].info /\ \A h : ~ Fresh(j, h)
                \/ \E h : Fresh(j, h) /\ new(j).info = info(h)
  <2>1. secs[j] \in LinkedSection
    BY <1>2, Elements
  <2>2. CASE fresh(j) = {}
    BY <2>1, <2>2, <1>3
  <2>3. CASE fresh(j) # {}
    <3> DEFINE h == CHOOSE g \in fresh(j) : TRUE
    <3>1. h \in fresh(j)
      BY <2>3
    <3> HIDE DEF h
    <3>2. info(h) \in Nat /\ Fresh(j, h)
      BY <3>1, <1>3, <1>4
    <3>3. new(j) = [secs[j] EXCEPT !.info = info(h)]
      BY <2>3 DEF h
    <3>4. PICK z : z = new(j)
      OBVIOUS
    <3>5. PICK v : v = info(h)
      OBVIOUS
    <3>6. z = [secs[j] EXCEPT !.info = v] /\ v \in Nat
      BY <3>2, <3>3, <3>4, <3>5
    <3>7. /\ z \in LinkedSection /\ z.info = v
          /\ z.name = secs[j].name /\ z.type = secs[j].type /\ z.size = secs[j].size
          /\ z.rels = secs[j].rels /\ z.parts = secs[j].parts
      BY <2>1, <3>6, InfoChanged
    <3> HIDE DEF new
    <3> QED
      BY <3>2, <3>4, <3>5, <3>7
  <2> QED
    BY <2>2, <2>3
<1> HIDE DEF new
<1>6. DOMAIN secs' = DOMAIN secs /\ \A j \in DOMAIN secs : secs'[j] = new(j)
  BY <1>1
<1>7. secs' \in Seq(LinkedSection)
  BY <1>1, <1>2, <1>5
<1>8. pc' # "failed" => \A j \in DOMAIN secs : \A h : Fresh(j, h) => info(h) # 0
  BY <1>1, <1>3
<1> QED
  BY <1>5, <1>6, <1>7, <1>8 DEF SetsInfo, info

\* the symbol that is looked at is entered as y, number e
Adds(y, e) ==
  /\ y \in LinkedSymbol /\ Sets(y, e) /\ y.name = O!sym.name /\ y.bind = O!sym.bind
  /\ O!sym.sec <= 0 => y = O!sym /\ once' = once
  /\ O!sym.sec > 0 =>
       /\ ~ sm_table[O!sym.sec].link_once /\ sm_table[O!sym.sec].s # 0
       /\ O!sym.sec \in DOMAIN sm_table
       /\ y.sec = sm_table[O!sym.sec].s /\ y.off = O!sym.off + sm_table[O!sym.sec].offset
       /\ once' = FALSE

LEMMA SymIs ==
  ASSUME LoadedInv, pc \in O!Loops, turn <= Len(O!Current.syms)
  PROVE  O!sym \in LinkedSymbol /\ (O!sym.sec > 0 => O!sym.sec \in DOMAIN O!Current.secs)
         /\ turn \in DOMAIN O!Current.syms
         /\ (O!sym.bind # "LOCAL" /\ O!sym.sec > 0 => O!Current.secs[O!sym.sec].type \in O!Handled)
<1>1. O!WellFormed(O!Current)
  BY CurrentIs, ObjectShape DEF LoadedInv
<1>2. O!sym \in LinkedSymbol /\ turn \in DOMAIN O!Current.syms /\ O!Current.secs \in Seq(ObjectSection)
  BY CurrentTyped
<1>3. O!sym \in O!Range(O!Current.syms)
  BY <1>2 DEF O!Range, O!sym
<1>4. O!sym.sec <= Len(O!Current.secs)
      /\ (O!sym.bind # "LOCAL" /\ O!sym.sec > 0 => O!Current.secs[O!sym.sec].type \in O!Handled)
  BY <1>1, <1>3 DEF O!WellFormed
<1> QED
  BY <1>2, <1>4 DEF LinkedSymbol

LEMMA SymbolMoved ==
  \A x \in LinkedSymbol : \A a \in Int : \A b \in Nat :
    LET y == [x EXCEPT !.sec = a, !.off = x.off + b] IN
    y \in LinkedSymbol /\ y.name = x.name /\ y.bind = x.bind /\ y.sec = a /\ y.off = x.off + b
<1>2. \A x \in LinkedSymbol : \A b \in Nat : x.off + b \in Nat
  BY DEF LinkedSymbol
<1> SUFFICES ASSUME NEW x \in LinkedSymbol, NEW a \in Int, NEW b \in Nat
             PROVE  LET y == [x EXCEPT !.sec = a, !.off = x.off + b] IN
                    y \in LinkedSymbol /\ y.name = x.name /\ y.bind = x.bind /\ y.sec = a
                    /\ y.off = x.off + b
  OBVIOUS
<1>3. PICK c : c = x.off + b
  OBVIOUS
<1>4. c \in Nat
  BY <1>2, <1>3
<1>5. /\ [x EXCEPT !.sec = a, !.off = c] \in LinkedSymbol
      /\ [x EXCEPT !.sec = a, !.off = c].name = x.name /\ [x EXCEPT !.sec = a, !.off = c].bind = x.bind
      /\ [x EXCEPT !.sec = a, !.off = c].sec = a /\ [x EXCEPT !.sec = a, !.off = c].off = c
  BY <1>4 DEF LinkedSymbol
<1> QED
  BY <1>3, <1>5

LEMMA AddsIs ==
  ASSUME TypesInv, O!AddSymbol, O!AddPlain \/ O!AddMoved
  PROVE  \E y, e : Adds(y, e)
<1>1. pc \in O!Loops /\ turn <= Len(O!Current.syms)
  BY DEF O!AddSymbol, O!Loops
<1>2. O!sym \in LinkedSymbol /\ (O!sym.sec > 0 => O!sym.sec \in DOMAIN O!Current.secs)
  BY <1>1, SymIs DEF TypesInv
<1>3. sm_table \in [DOMAIN O!Current.secs -> Merged]
  BY <1>1 DEF TypesInv, LocalsInv
<1>4. CASE O!AddPlain
  <2>1. O!sym.sec <= 0 /\ O!SetElfSym(O!sym) /\ once' = once
    BY <1>4 DEF O!AddPlain
  <2>2. PICK e : Sets(O!sym, e)
    BY <1>2, <2>1, SetElfSymSets DEF TypesInv
  <2>3. O!sym.sec \in Int
    BY <1>2 DEF LinkedSymbol
  <2>4. Adds(O!sym, e)
    BY <1>2, <2>1, <2>2, <2>3 DEF Adds
  <2> QED
    BY <2>4
<1>5. CASE O!AddMoved
  <2> DEFINE x == sm_table[O!sym.sec]
             y == [O!sym EXCEPT !.sec = x.s, !.off = O!sym.off + x.offset]
  <2>1. O!sym.sec > 0 /\ ~ x.link_once /\ x.s # 0 /\ once' = FALSE /\ O!SetElfSym(y)
    BY <1>5 DEF O!AddMoved
  <2>2. x \in Merged
    BY <1>2, <1>3, <2>1
  <2>3. y \in LinkedSymbol /\ y.name = O!sym.name /\ y.bind = O!sym.bind /\ y.sec = x.s /\ y.off = O!sym.off + x.offset
    <3>1. x.s \in Int /\ x.offset \in Nat
      BY <2>2 DEF Merged
    <3> QED
      BY <1>2, <3>1, SymbolMoved
  <2> HIDE DEF y
  <2>4. PICK e : Sets(y, e)
    BY <2>1, <2>3, SetElfSymSets DEF TypesInv
  <2>5. O!sym.sec \in Int
    BY <1>2 DEF LinkedSymbol
  <2>6. Adds(y, e)
    BY <1>2, <1>3, <2>1, <2>3, <2>4, <2>5 DEF Adds
  <2> QED
    BY <2>6
<1> QED
  BY <1>4, <1>5

NewSym(r) == IF r.sym = 0 THEN 0 ELSE old_to_new_syms[r.sym]
\* the relocations of section s, which is the one looked at, are moved
Patches(s) ==
  /\ s = sm_table[turn].s /\ s \in DOMAIN secs /\ O!sh.type = "rela"
  /\ secs' \in Seq(LinkedSection) /\ DOMAIN secs' = DOMAIN secs
  /\ \A j \in DOMAIN secs : j # s => secs'[j] = secs[j]
  /\ secs'[s].name = secs[s].name /\ secs'[s].type = secs[s].type /\ secs'[s].size = secs[s].size
  /\ secs'[s].info = secs[s].info /\ secs'[s].parts = secs[s].parts
  /\ DOMAIN secs'[s].rels = DOMAIN secs[s].rels
  /\ \A k \in DOMAIN secs[s].rels : k <= sm_table[turn].offset => secs'[s].rels[k] = secs[s].rels[k]
  /\ \A k \in DOMAIN secs[s].rels : k > sm_table[turn].offset =>
       LET r == secs[s].rels[k] IN
       /\ secs'[s].rels[k] = [at |-> r.at + sm_table[O!sh.info].offset, sym |-> NewSym(r)]
       /\ r.sym \in 0 .. Len(O!Current.syms) /\ (NewSym(r) # 0 \/ once)
  /\ pc' = pc

LEMMA RelElements ==
  \A w \in Seq([at : Nat, sym : Nat]) : \A k \in DOMAIN w :
    w[k].at \in Nat /\ w[k].sym \in Nat /\ k \in Nat /\ w[k] \in [at : Nat, sym : Nat]
<1> SUFFICES ASSUME NEW w \in Seq([at : Nat, sym : Nat]), NEW k \in DOMAIN w
             PROVE  w[k].at \in Nat /\ w[k].sym \in Nat /\ k \in Nat /\ w[k] \in [at : Nat, sym : Nat]
  OBVIOUS
<1>1. w[k] \in [at : Nat, sym : Nat]
  BY Elements
<1> QED
  BY <1>1

LEMMA TailOf ==
  \A w \in Seq([at : Nat, sym : Nat]) : \A d \in Nat : \A k \in DOMAIN w :
    k \in d + 1 .. Len(w) <=> k > d
OBVIOUS

LEMMA PatchedSection ==
  \A x \in LinkedSection : \A u \in Seq([at : Nat, sym : Nat]) :
    LET y == [x EXCEPT !.rels = u] IN
    /\ y \in LinkedSection /\ y.rels = u /\ y.name = x.name /\ y.type = x.type
    /\ y.size = x.size /\ y.info = x.info /\ y.parts = x.parts
BY DEF LinkedSection

LEMMA PatchIs ==
  ASSUME TypesInv, O!Patch
  PROVE  \/ ~ (sm_table[turn].s # 0 /\ O!sh.type = "rela") /\ UNCHANGED <<secs, pc>>
         \/ pc' = "failed" /\ UNCHANGED secs
         \/ Patches(sm_table[turn].s)
<1>1. pc \in O!Loops /\ turn <= Len(O!Current.secs)
  BY DEF O!Patch, O!Loops
<1>2. sm_table \in [DOMAIN O!Current.secs -> Merged] /\ old_to_new_syms \in [DOMAIN O!Current.syms -> Nat]
      /\ \A h \in DOMAIN sm_table : sm_table[h].s # 0 => sm_table[h].s \in DOMAIN secs
  BY <1>1 DEF TypesInv, LocalsInv
<1>3. O!Current.syms \in Seq(LinkedSymbol) /\ turn \in DOMAIN O!Current.secs
  BY <1>1, CurrentTyped DEF TypesInv
<1> DEFINE s == sm_table[turn].s
           off == sm_table[turn].offset
           w == secs[s].rels
           base == sm_table[O!sh.info].offset
           valid(r) == r.sym \in 0 .. Len(O!Current.syms) /\ (NewSym(r) # 0 \/ once)
           moved(r) == [at |-> r.at + base, sym |-> NewSym(r)]
           mine == off + 1 .. Len(w)
<1>4. SUFFICES ASSUME s # 0, O!sh.type = "rela", pc' # "failed"
               PROVE  Patches(s)
  BY DEF O!Patch
<1>5. /\ { k \in mine : ~ valid(w[k]) } = {}
      /\ secs' = [secs EXCEPT ![s].rels = [k \in DOMAIN w |-> IF k \in mine THEN moved(w[k]) ELSE w[k]]]
      /\ pc' = pc
  BY <1>4 DEF O!Patch, NewSym
<1>6. s \in DOMAIN secs /\ secs \in Seq(LinkedSection) /\ off \in Nat
  BY <1>2, <1>3, <1>4 DEF TypesInv, TableInv, Merged
<1>7. secs[s] \in LinkedSection
  BY <1>6, Elements
<1>8. w \in Seq([at : Nat, sym : Nat])
  BY <1>7 DEF LinkedSection
<1>9. base \in Nat
  <2>1. O!sh.info \in DOMAIN O!Current.secs
    BY <1>1, <1>3, <1>4, RelaIs DEF TypesInv, O!sh
  <2> QED
    BY <1>2, <2>1 DEF Merged
<1> DEFINE u == [k \in DOMAIN w |-> IF k \in mine THEN moved(w[k]) ELSE w[k]]
<1>10. \A k \in DOMAIN w : k \in mine => valid(w[k])
  BY <1>5
<1>11. \A k \in DOMAIN w : w[k].at \in Nat /\ w[k].sym \in Nat
  BY <1>8, RelElements
<1>12. \A k \in DOMAIN w : k \in mine => NewSym(w[k]) \in Nat
  BY <1>2, <1>3, <1>10, <1>11 DEF NewSym
<1>13. \A k \in DOMAIN w : k \in mine => moved(w[k]) \in [at : Nat, sym : Nat]
  <2> SUFFICES ASSUME NEW k \in DOMAIN w, k \in mine PROVE moved(w[k]) \in [at : Nat, sym : Nat]
    OBVIOUS
  <2>1. w[k].at + base \in Nat /\ NewSym(w[k]) \in Nat
    BY <1>9, <1>11, <1>12
  <2> QED
    BY <2>1
<1>14. \A k \in DOMAIN w : k \in mine <=> k > off
  BY <1>6, <1>8, TailOf
<1> HIDE DEF mine, moved, valid, w, s, off, base
<1>15. u \in Seq([at : Nat, sym : Nat]) /\ DOMAIN u = DOMAIN w
  <2>1. \A k \in DOMAIN w : u[k] \in [at : Nat, sym : Nat]
    BY <1>8, <1>13, Elements
  <2> HIDE DEF u
  <2>2. DOMAIN u = DOMAIN w /\ u = [k \in DOMAIN u |-> u[k]]
    BY DEF u
  <2> QED
    BY <1>8, <2>1, <2>2
<1>16. \A k \in DOMAIN w : u[k] = IF k \in mine THEN moved(w[k]) ELSE w[k]
  OBVIOUS
<1> DEFINE z == [secs[s] EXCEPT !.rels = u]
<1>17. secs' = [secs EXCEPT ![s] = z]
  BY <1>5 DEF w
<1> HIDE DEF u
<1>18. z \in LinkedSection /\ z.rels = u /\ z.name = secs[s].name /\ z.type = secs[s].type
       /\ z.size = secs[s].size /\ z.info = secs[s].info /\ z.parts = secs[s].parts
  BY <1>7, <1>15, PatchedSection
<1> HIDE DEF z
<1>19. secs' \in Seq(LinkedSection) /\ DOMAIN secs' = DOMAIN secs
  BY <1>6, <1>17, <1>18
<1>20. secs'[s] = z /\ \A j \in DOMAIN secs : j # s => secs'[j] = secs[j]
  BY <1>6, <1>17
<1>21. DOMAIN secs[s].rels = DOMAIN w /\ w = secs[s].rels
  BY DEF w
<1>22. \A k \in DOMAIN w : /\ k <= off => u[k] = w[k]
                           /\ k > off => u[k] = moved(w[k]) /\ valid(w[k])
  <2>1. \A k \in DOMAIN w : k \in Nat /\ off \in Nat
    BY <1>6, <1>8
  <2> QED
    BY <1>10, <1>14, <1>16, <2>1
<1>23. /\ DOMAIN secs'[s].rels = DOMAIN secs[s].rels
       /\ \A k \in DOMAIN secs[s].rels : k <= off => secs'[s].rels[k] = secs[s].rels[k]
       /\ \A k \in DOMAIN secs[s].rels : k > off =>
            secs'[s].rels[k] = moved(secs[s].rels[k]) /\ valid(secs[s].rels[k])
  BY <1>15, <1>18, <1>20, <1>21, <1>22
<1>24. \A k \in DOMAIN secs[s].rels : k > sm_table[turn].offset =>
         LET r == secs[s].rels[k] IN
         /\ secs'[s].rels[k] = [at |-> r.at + sm_table[O!sh.info].offset, sym |-> NewSym(r)]
         /\ r.sym \in 0 .. Len(O!Current.syms) /\ (NewSym(r) # 0 \/ once)
  BY <1>23 DEF moved, valid, off, base
<1> QED
  BY <1>4, <1>5, <1>6, <1>18, <1>19, <1>20, <1>23, <1>24 DEF Patches, s, off

LEMMA PlaceIs ==
  ASSUME TypesInv, O!Place
  PROVE  \/ O!Ignore
         \/ O!SkipOnce
         \/ pc' = "failed" /\ UNCHANGED secs
         \/ \E x, s, new : Takes(x, s, new)
<1>1. pc = "place" /\ turn <= Len(O!Current.secs)
      /\ (O!Ignore \/ O!SkipOnce \/ O!WrongType \/ O!AddSection \/ O!JoinSection)
  BY DEF O!Place
<1>2. CASE O!WrongType
  BY <1>2 DEF O!WrongType
<1>3. CASE O!AddSection \/ O!JoinSection
  BY <1>1, <1>3, TakesIs
<1> QED
  BY <1>1, <1>2, <1>3

\* what a step is; Return goes back to the files
LEMMA StepIs ==
  ASSUME TypesInv, O!Next
  PROVE  \/ \E o : Begins(o)
         \/ Idles
         \/ O!Return
         \/ O!Place /\ (O!Ignore \/ O!SkipOnce \/ (pc' = "failed" /\ UNCHANGED secs)
                        \/ \E x, s, new : Takes(x, s, new))
         \/ O!LinkInfo /\ SetsInfo
         \/ O!AddSymbol /\ (O!UseDefined \/ O!NotAdded \/ \E y, e : Adds(y, e))
         \/ O!SymbolsAdded
         \/ O!Patch /\ (UNCHANGED <<secs, pc>> \/ (pc' = "failed" /\ UNCHANGED secs)
                        \/ Patches(sm_table[turn].s))
<1>1. CASE O!LoadFile \/ O!LoadMember \/ O!ScanIndex
  BY <1>1, BeginKinds DEF TypesInv
<1>2. CASE O!OpenArchive \/ O!CloseArchive \/ O!ScanAgain \/ O!AllAdded
  BY <1>2 DEF O!OpenArchive, O!CloseArchive, O!ScanAgain, O!AllAdded, Idles, O!linked, O!Loops
<1>3. CASE O!Place
  BY <1>3, PlaceIs
<1>4. CASE O!AddSymbol
  <2>1. O!AddPlain \/ O!AddMoved => \E y, e : Adds(y, e)
    BY <1>4, AddsIs
  <2> QED
    BY <1>4, <2>1 DEF O!AddSymbol
<1> QED
  BY <1>1, <1>2, <1>3, <1>4, SetsInfoIs, PatchIs DEF O!Next

LEMMA TypesNext ==
  ASSUME TypesInv, O!Next
  PROVE  TypesInv'
<1>1. LoadedInv'
  BY LoadedNext DEF TypesInv
<1>2. UNCHANGED <<secs, syms>> => TableInv'
  BY DEF TypesInv, TableInv
<1>3. pc' \notin O!Loops => LocalsInv'
  BY DEF LocalsInv, O!Loops
<1>4. loads' = loads => O!Current' = O!Current
  BY DEF O!Current
<1>5. CASE \E o : Begins(o)
  <2>1. PICK o : Begins(o)
    BY <1>5
  <2>2. loads \in Seq([obj : O!ObjectsOf(program), from : DOMAIN program])
    BY DEF TypesInv, LoadedInv
  <2>3. O!Current' = o
    BY <2>1, <2>2 DEF Begins, O!Load, O!Current
  <2>4. /\ sm_table' = [h \in DOMAIN o.secs |-> O!NoMerge]
        /\ old_to_new_syms' = [h \in DOMAIN o.syms |-> 0] /\ once' = FALSE
        /\ UNCHANGED <<secs, syms>>
    BY <2>1 DEF Begins, O!Load, O!linked
  <2>5. O!NoMerge \in Merged /\ O!NoMerge.s = 0
    BY DEF O!NoMerge, Merged
  <2>6. LocalsInv'
    BY <2>3, <2>4, <2>5 DEF LocalsInv
  <2> QED
    BY <1>1, <1>2, <2>4, <2>6 DEF TypesInv
<1>6. CASE Idles \/ O!Return
  <2>1. UNCHANGED <<secs, syms>> /\ pc' \notin O!Loops
    BY <1>6 DEF Idles, O!Return, O!linked, O!Loops
  <2> QED
    BY <1>1, <1>2, <1>3, <2>1 DEF TypesInv
<1>7. CASE O!Place
  <2>1. /\ pc = "place" /\ pc \in O!Loops /\ loads' = loads /\ syms' = syms
        /\ old_to_new_syms' = old_to_new_syms /\ once' = once
        /\ turn <= Len(O!Current.secs)
    BY <1>7 DEF O!Place, O!Loops
  <2>2. turn \in DOMAIN O!Current.secs
    BY <2>1, CurrentTyped DEF TypesInv
  <2>3. sm_table \in [DOMAIN O!Current.secs -> Merged]
        /\ \A h \in DOMAIN sm_table : sm_table[h].s # 0 => sm_table[h].s \in DOMAIN secs
    BY <2>1 DEF TypesInv, LocalsInv
  <2>4. CASE O!Ignore \/ (pc' = "failed" /\ UNCHANGED secs)
    <3>1. TableInv'
      BY <1>2, <2>1, <2>4 DEF O!Ignore
    <3>2. LocalsInv'
      BY <1>3, <1>4, <2>1, <2>4 DEF O!Ignore, O!Loops, LocalsInv, TypesInv
    <3> QED
      BY <1>1, <3>1, <3>2 DEF TypesInv
  <2>5. CASE O!SkipOnce
    <3>1. TableInv'
      BY <1>2, <2>1, <2>5 DEF O!SkipOnce
    <3>2. sm_table' = [sm_table EXCEPT ![turn].link_once = TRUE] /\ UNCHANGED secs
      BY <2>5 DEF O!SkipOnce
    <3>3. sm_table' \in [DOMAIN O!Current.secs -> Merged]
      BY <2>2, <2>3, <3>2 DEF Merged
    <3>4. \A h \in DOMAIN sm_table' : sm_table'[h].s # 0 => sm_table'[h].s \in DOMAIN secs
      BY <2>2, <2>3, <3>2 DEF Merged
    <3>5. LocalsInv'
      BY <1>4, <2>1, <3>2, <3>3, <3>4 DEF LocalsInv, TypesInv
    <3> QED
      BY <1>1, <3>1, <3>5 DEF TypesInv
  <2>6. CASE \E x, s, new : Takes(x, s, new)
    <3>1. PICK x, s, new : Takes(x, s, new)
      BY <2>6
    <3>2. Joined(x).name = x.name
      <4>1. O!sh \in ObjectSection /\ turn \in Nat \ {0} /\ Len(loads) \in Nat \ {0}
        BY <2>1, CurrentTyped, CurrentIs DEF TypesInv, LoadedInv
      <4> QED
        BY <3>1, <4>1, JoinedTyped DEF Takes
    <3>3. TableInv'
      <4>1. secs' \in Seq(LinkedSection) /\ DOMAIN secs' = DOMAIN secs \cup {s} /\ secs'[s].name = x.name
            /\ \A j \in DOMAIN secs : j # s => secs'[j] = secs[j]
        BY <3>1, <3>2 DEF Takes
      <4>2. \A j \in DOMAIN secs : j # s => secs[j].name # x.name
        BY <3>1 DEF Takes, TypesInv, TableInv
      <4>3. \A j, k \in DOMAIN secs' : secs'[j].name = secs'[k].name => j = k
        BY <4>1, <4>2 DEF TypesInv, TableInv
      <4> QED
        BY <2>1, <4>1, <4>3 DEF TypesInv, TableInv
    <3>4. sm_table' \in [DOMAIN O!Current.secs -> Merged]
      <4>1. [s |-> s, offset |-> Offset(x), new_section |-> new, link_once |-> FALSE] \in Merged
        BY <3>1 DEF Takes, Merged
      <4> QED
        BY <2>3, <3>1, <4>1 DEF Takes
    <3>5. \A h \in DOMAIN sm_table' : sm_table'[h].s # 0 => sm_table'[h].s \in DOMAIN secs'
      BY <2>2, <2>3, <3>1 DEF Takes
    <3>6. LocalsInv'
      BY <1>4, <2>1, <3>4, <3>5 DEF LocalsInv, TypesInv
    <3> QED
      BY <1>1, <3>3, <3>6 DEF TypesInv
  <2> QED
    BY <1>7, <2>4, <2>5, <2>6, PlaceIs
<1>8. CASE O!LinkInfo
  <2>1. SetsInfo
    BY <1>8, SetsInfoIs
  <2>2. loads' = loads /\ UNCHANGED <<syms, sm_table, old_to_new_syms, once>> /\ pc = "place"
    BY <1>8 DEF O!LinkInfo
  <2>3. TableInv'
    BY <2>1, <2>2 DEF TypesInv, TableInv, SetsInfo
  <2>4. LocalsInv'
    BY <1>4, <2>1, <2>2 DEF LocalsInv, SetsInfo, TypesInv, O!Loops
  <2> QED
    BY <1>1, <2>3, <2>4 DEF TypesInv
<1>9. CASE O!AddSymbol
  <2>1. /\ pc \in O!Loops /\ loads' = loads /\ secs' = secs /\ sm_table' = sm_table
        /\ turn <= Len(O!Current.syms)
    BY <1>9 DEF O!AddSymbol, O!Loops
  <2>2. /\ old_to_new_syms \in [DOMAIN O!Current.syms -> Nat] /\ once \in BOOLEAN
    BY <2>1 DEF TypesInv, LocalsInv
  <2>3. TableInv' /\ old_to_new_syms' \in [DOMAIN O!Current.syms -> Nat] /\ once' \in BOOLEAN
    <3>1. CASE O!NotAdded
      BY <1>2, <2>1, <2>2, <3>1 DEF O!NotAdded
    <3>2. CASE O!UseDefined
      <4>1. O!find_elf_sym(syms, O!sym.name) \in Nat
        BY FindIs DEF TypesInv, TableInv
      <4> QED
        BY <1>2, <2>1, <2>2, <3>2, <4>1 DEF O!UseDefined
    <3>3. CASE \E y, e : Adds(y, e)
      <4>1. PICK y, e : Adds(y, e)
        BY <3>3
      <4>2. Sets(y, e)
        BY <4>1 DEF Adds
      <4>3. \A j, k \in DOMAIN syms' :
              syms'[j].name = syms'[k].name /\ syms'[j].bind # "LOCAL" /\ syms'[k].bind # "LOCAL" => j = k
        BY <4>2 DEF Sets, TypesInv, TableInv
      <4>4. TableInv'
        BY <2>1, <4>2, <4>3 DEF Sets, TypesInv, TableInv
      <4>5. e \in Nat /\ old_to_new_syms' = [old_to_new_syms EXCEPT ![turn] = e]
        BY <4>2 DEF Sets
      <4>6. O!sym.sec \in Int
        BY <2>1, SymIs DEF TypesInv, LinkedSymbol
      <4>7. once' \in BOOLEAN
        <5>1. O!sym.sec <= 0 \/ O!sym.sec > 0
          BY <4>6
        <5>2. once' = once \/ once' = FALSE
          BY <4>1, <5>1 DEF Adds
        <5> QED
          BY <2>2, <5>2
      <4> QED
        BY <2>2, <4>4, <4>5, <4>7
    <3> QED
      BY <1>9, <3>1, <3>2, <3>3, AddsIs DEF O!AddSymbol
  <2>4. LocalsInv'
    BY <1>4, <2>1, <2>3 DEF LocalsInv, TypesInv
  <2> QED
    BY <1>1, <2>3, <2>4 DEF TypesInv
<1>10. CASE O!SymbolsAdded
  <2>1. UNCHANGED <<loads, secs, syms, sm_table, old_to_new_syms, once>> /\ pc \in O!Loops
    BY <1>10 DEF O!SymbolsAdded, O!linked, O!Loops
  <2> QED
    BY <1>1, <1>2, <1>4, <2>1 DEF LocalsInv, TypesInv
<1>11. CASE O!Patch
  <2>1. UNCHANGED <<loads, syms, sm_table, old_to_new_syms, once>> /\ pc \in O!Loops
    BY <1>11 DEF O!Patch, O!Loops
  <2>2. TableInv' /\ DOMAIN secs' = DOMAIN secs
    <3>1. CASE Patches(sm_table[turn].s)
      <4>1. secs' \in Seq(LinkedSection) /\ DOMAIN secs' = DOMAIN secs
            /\ \A j \in DOMAIN secs : secs'[j].name = secs[j].name
        BY <3>1 DEF Patches
      <4> QED
        BY <2>1, <4>1 DEF TypesInv, TableInv
    <3> QED
      BY <1>11, <1>2, <2>1, <3>1, PatchIs
  <2>3. LocalsInv'
    BY <1>4, <2>1, <2>2 DEF LocalsInv, TypesInv
  <2> QED
    BY <1>1, <2>2, <2>3 DEF TypesInv
<1> QED
  BY <1>5, <1>6, <1>7, <1>8, <1>9, <1>10, <1>11, StepIs

-----------------------------------------------------------------------------
(* The parts of the linked sections.                                       *)

SectionOf(l, h) == O!ObjectOf(l).secs[h]

LEMMA Appends ==
  \A R : \A u \in Seq(R) : \A v \in R :
    /\ Append(u, v) \in Seq(R) /\ DOMAIN Append(u, v) = DOMAIN u \cup {Len(u) + 1}
    /\ Append(u, v)[Len(u) + 1] = v /\ Len(u) + 1 \notin DOMAIN u
    /\ Append(u, v) # <<>>
    /\ \A a \in DOMAIN u : Append(u, v)[a] = u[a] /\ a < Len(u) + 1 /\ a \in Nat
OBVIOUS

LEMMA Counts ==
  \A R : \A u \in Seq(R) : Len(u) \in Nat /\ DOMAIN u = 1 .. Len(u)
OBVIOUS

LEMMA Concats ==
  \A R : \A u, v \in Seq(R) :
    /\ u \o v \in Seq(R) /\ Len(u \o v) = Len(u) + Len(v)
    /\ DOMAIN u = 1 .. Len(u) /\ DOMAIN v = 1 .. Len(v)
    /\ \A a \in DOMAIN u : a \in DOMAIN (u \o v) /\ (u \o v)[a] = u[a]
    /\ \A a \in DOMAIN v : Len(u) + a \in DOMAIN (u \o v) /\ (u \o v)[Len(u) + a] = v[a]
OBVIOUS

NewNumber(x) == Len(x.parts) + 1
\* section s after it took, with its new part
Took(x, s) ==
  /\ secs'[s].name = O!sh.name /\ secs'[s].type = O!sh.type /\ secs'[s].info = x.info
  /\ secs'[s].size = IF O!sh.type = "rela" THEN 0 ELSE Offset(x) + O!sh.size
  /\ secs'[s].rels = x.rels \o O!sh.rels
  /\ x.rels \in Seq([at : Nat, sym : Nat]) /\ O!sh.rels \in Seq([at : Nat, sym : Nat])
  /\ x.parts \in Seq(LinkedPart) /\ NewPart(x) \in LinkedPart
  /\ DOMAIN secs'[s].parts = DOMAIN x.parts \cup {NewNumber(x)} /\ NewNumber(x) \notin DOMAIN x.parts
  /\ secs'[s].parts[NewNumber(x)] = NewPart(x) /\ secs'[s].parts # <<>>
  /\ \A a \in DOMAIN x.parts : secs'[s].parts[a] = x.parts[a] /\ a < NewNumber(x) /\ a \in Nat
  /\ s \in DOMAIN secs => x = secs[s]
  /\ s \notin DOMAIN secs => DOMAIN x.parts = {} /\ x.rels = <<>> /\ x.info = 0 /\ x.size = 0

LEMMA TakesGives ==
  ASSUME TypesInv, pc = "place", turn <= Len(O!Current.secs), NEW x, NEW s, NEW new, Takes(x, s, new)
  PROVE  Took(x, s)
<1>1. O!sh \in ObjectSection /\ turn \in Nat \ {0} /\ Len(loads) \in Nat \ {0}
  BY CurrentTyped, CurrentIs DEF TypesInv, LoadedInv, O!Loops
<1>2. x \in LinkedSection /\ x.name = O!sh.name /\ x.type = O!sh.type /\ secs'[s] = Joined(x)
      /\ Offset(x) \in Nat
  BY DEF Takes
<1>3. /\ Joined(x).name = x.name /\ Joined(x).type = x.type /\ Joined(x).info = x.info
      /\ Joined(x).size = IF O!sh.type = "rela" THEN 0 ELSE Offset(x) + O!sh.size
      /\ Joined(x).rels = x.rels \o O!sh.rels
      /\ Joined(x).parts = Append(x.parts, NewPart(x))
  BY <1>1, <1>2, JoinedTyped
<1>4. x.parts \in Seq(LinkedPart) /\ x.rels \in Seq([at : Nat, sym : Nat])
  BY <1>2 DEF LinkedSection
<1>5. O!sh.rels \in Seq([at : Nat, sym : Nat]) /\ O!sh.size \in Nat
  BY <1>1 DEF ObjectSection
<1>6. NewPart(x) \in LinkedPart
  BY <1>1, <1>2, <1>5 DEF NewPart, LinkedPart
<1>7. s \in DOMAIN secs => x = secs[s]
  BY DEF Takes
<1>8. s \notin DOMAIN secs => DOMAIN x.parts = {} /\ x.rels = <<>> /\ x.info = 0 /\ x.size = 0
  BY DEF Takes, O!NewSection
<1>9. /\ DOMAIN secs'[s].parts = DOMAIN x.parts \cup {NewNumber(x)} /\ NewNumber(x) \notin DOMAIN x.parts
      /\ secs'[s].parts[NewNumber(x)] = NewPart(x) /\ secs'[s].parts # <<>>
      /\ \A a \in DOMAIN x.parts : secs'[s].parts[a] = x.parts[a] /\ a < NewNumber(x) /\ a \in Nat
  BY <1>2, <1>3, <1>4, <1>6, Appends DEF NewNumber
<1> QED
  BY <1>2, <1>3, <1>4, <1>5, <1>6, <1>7, <1>8, <1>9 DEF Took

\* part a of section j is section h of load l
PartIs(j, a, l, h) ==
  /\ j \in DOMAIN secs /\ a \in DOMAIN secs[j].parts
  /\ secs[j].parts[a].load = l /\ secs[j].parts[a].sec = h

\* linked sections keep what they have
Grows ==
  /\ \A j \in DOMAIN secs :
       /\ j \in DOMAIN secs' /\ secs'[j].name = secs[j].name /\ secs'[j].type = secs[j].type
       /\ \A a \in DOMAIN secs[j].parts :
            a \in DOMAIN secs'[j].parts /\ secs'[j].parts[a] = secs[j].parts[a]
  /\ \A l \in DOMAIN loads : l \in DOMAIN loads' /\ O!ObjectOf(l)' = O!ObjectOf(l)

LEMMA NextGrows ==
  ASSUME TypesInv, O!Next
  PROVE  Grows
<1>1. loads' = loads => \A l \in DOMAIN loads : l \in DOMAIN loads' /\ O!ObjectOf(l)' = O!ObjectOf(l)
  BY DEF O!ObjectOf
<1>2. CASE \E o : Begins(o)
  <2>1. PICK o : Begins(o)
    BY <1>2
  <2>2. secs' = secs /\ loads' = Append(loads, [obj |-> o, from |-> file])
    BY <2>1 DEF Begins, O!Load, O!linked
  <2>3. \A l \in DOMAIN loads : l \in DOMAIN loads' /\ O!ObjectOf(l)' = O!ObjectOf(l)
    BY <2>2 DEF TypesInv, LoadedInv, O!ObjectOf
  <2> QED
    BY <2>2, <2>3 DEF Grows
<1>3. CASE Idles \/ O!Return \/ O!SymbolsAdded \/ O!AddSymbol
  <2>1. UNCHANGED <<secs, loads>>
    BY <1>3 DEF Idles, O!Return, O!SymbolsAdded, O!AddSymbol, O!linked
  <2> QED
    BY <2>1, <1>1 DEF Grows
<1>4. CASE O!Place
  <2>1. loads' = loads /\ pc = "place" /\ turn <= Len(O!Current.secs)
    BY <1>4 DEF O!Place
  <2>2. CASE \E x, s, new : Takes(x, s, new)
    <3>1. PICK x, s, new : Takes(x, s, new)
      BY <2>2
    <3>2. /\ secs'[s].name = O!sh.name /\ secs'[s].type = O!sh.type
          /\ DOMAIN x.parts \subseteq DOMAIN secs'[s].parts
          /\ \A a \in DOMAIN x.parts : secs'[s].parts[a] = x.parts[a]
          /\ s \in DOMAIN secs => x = secs[s]
      <4>1. Took(x, s)
        BY <2>1, <3>1, TakesGives
      <4> QED
        BY <4>1 DEF Took
    <3>3. /\ DOMAIN secs' = DOMAIN secs \cup {s} /\ x.name = O!sh.name /\ x.type = O!sh.type
          /\ \A j \in DOMAIN secs : j # s => secs'[j] = secs[j]
      BY <3>1 DEF Takes
    <3> QED
      BY <1>1, <2>1, <3>2, <3>3 DEF Grows
  <2>3. CASE secs' = secs
    BY <1>1, <2>1, <2>3 DEF Grows
  <2> QED
    BY <1>4, <2>2, <2>3, PlaceIs DEF O!Ignore, O!SkipOnce
<1>5. CASE O!LinkInfo /\ SetsInfo
  <2>1. loads' = loads
    BY <1>5 DEF O!LinkInfo
  <2> QED
    BY <1>1, <1>5, <2>1 DEF SetsInfo, Grows
<1>6. CASE O!Patch
  <2>1. loads' = loads
    BY <1>6 DEF O!Patch
  <2>2. CASE Patches(sm_table[turn].s)
    BY <1>1, <2>1, <2>2 DEF Patches, Grows
  <2>3. CASE secs' = secs
    BY <1>1, <2>1, <2>3 DEF Grows
  <2> QED
    BY <1>6, <2>2, <2>3, PatchIs
<1> QED
  BY <1>2, <1>3, <1>4, <1>5, <1>6, StepIs

\* part a of section j comes from a section that may be part of it
Fits(j, a) ==
  LET p == secs[j].parts[a] IN
  /\ p.load \in DOMAIN loads /\ p.sec \in DOMAIN O!ObjectOf(p.load).secs
  /\ SectionOf(p.load, p.sec).name = secs[j].name
  /\ SectionOf(p.load, p.sec).type = secs[j].type
  /\ SectionOf(p.load, p.sec).size = p.size
  /\ secs[j].type \in O!Handled
  /\ pc = "place" /\ p.load = Len(loads) => p.sec < turn

PartsInv ==
  \A j \in DOMAIN secs :
    secs[j].parts # <<>> /\ \A a \in DOMAIN secs[j].parts : Fits(j, a)

LEMMA FitsStays ==
  ASSUME Grows, NEW j \in DOMAIN secs, NEW a \in DOMAIN secs[j].parts, Fits(j, a),
         (pc' = "place" /\ secs[j].parts[a].load = Len(loads')) => secs[j].parts[a].sec < turn'
  PROVE  Fits(j, a)'
<1>1. PICK p : p = secs[j].parts[a]
  OBVIOUS
<1>2. secs'[j].parts[a] = p /\ secs'[j].name = secs[j].name /\ secs'[j].type = secs[j].type
      /\ p.load \in DOMAIN loads' /\ O!ObjectOf(p.load)' = O!ObjectOf(p.load)
  BY <1>1 DEF Grows, Fits
<1>3. SectionOf(p.load, p.sec)' = SectionOf(p.load, p.sec)
  BY <1>2 DEF SectionOf
<1> QED
  BY <1>1, <1>2, <1>3 DEF Fits, SectionOf

LEMMA PartsStay ==
  ASSUME PartsInv, Grows, DOMAIN secs' = DOMAIN secs,
         \A j \in DOMAIN secs : secs'[j].parts = secs[j].parts,
         \A j \in DOMAIN secs : \A a \in DOMAIN secs[j].parts :
           (pc' = "place" /\ secs[j].parts[a].load = Len(loads')) => secs[j].parts[a].sec < turn'
  PROVE  PartsInv'
<1>1. ASSUME NEW j \in DOMAIN secs, NEW a \in DOMAIN secs[j].parts
      PROVE  Fits(j, a)'
  BY FitsStays DEF PartsInv
<1> QED
  BY <1>1 DEF PartsInv

LEMMA PartsNext ==
  ASSUME TypesInv, PartsInv, O!Next
  PROVE  PartsInv'
<1>1. Grows
  BY NextGrows
<1>2. \A j \in DOMAIN secs : \A a \in DOMAIN secs[j].parts :
        /\ secs[j].parts[a].load \in DOMAIN loads /\ secs[j].parts[a].sec \in Nat
        /\ pc = "place" /\ secs[j].parts[a].load = Len(loads) => secs[j].parts[a].sec < turn
  <2> SUFFICES ASSUME NEW j \in DOMAIN secs, NEW a \in DOMAIN secs[j].parts
               PROVE  /\ secs[j].parts[a].load \in DOMAIN loads /\ secs[j].parts[a].sec \in Nat
                      /\ pc = "place" /\ secs[j].parts[a].load = Len(loads) => secs[j].parts[a].sec < turn
    OBVIOUS
  <2>1. secs[j] \in LinkedSection
    BY Elements DEF TypesInv, TableInv
  <2>2. secs[j].parts \in Seq(LinkedPart)
    BY <2>1 DEF LinkedSection
  <2>3. secs[j].parts[a] \in LinkedPart
    BY <2>2, Elements
  <2> QED
    BY <2>3 DEF PartsInv, Fits, LinkedPart
<1>3. pc \in O!Loops => turn \in Nat
  BY DEF TypesInv, LoadedInv
<1>4. CASE \E o : Begins(o)
  <2>1. PICK o : Begins(o)
    BY <1>4
  <2>2. secs' = secs /\ loads' = Append(loads, [obj |-> o, from |-> file])
    BY <2>1 DEF Begins, O!Load, O!linked
  <2>3. \A l \in DOMAIN loads : l # Len(loads')
    BY <2>2 DEF TypesInv, LoadedInv
  <2> QED
    BY <1>1, <1>2, <2>2, <2>3, PartsStay
<1>5. CASE Idles \/ O!Return \/ O!SymbolsAdded \/ O!AddSymbol
  <2>1. secs' = secs /\ pc' # "place"
    BY <1>5 DEF Idles, O!Return, O!SymbolsAdded, O!AddSymbol, O!linked, O!Loops
  <2> QED
    BY <1>1, <2>1, PartsStay
<1>6. CASE O!Place
  <2>1. loads' = loads /\ pc = "place" /\ turn <= Len(O!Current.secs) /\ turn' = turn + 1 /\ turn \in Nat
    BY <1>6, <1>3 DEF O!Place, O!Loops
  <2>2. \A j \in DOMAIN secs : \A a \in DOMAIN secs[j].parts :
          secs[j].parts[a].load = Len(loads') => secs[j].parts[a].sec < turn'
    BY <1>2, <2>1
  <2>3. CASE secs' = secs
    BY <1>1, <2>2, <2>3, PartsStay
  <2>4. CASE \E x, s, new : Takes(x, s, new)
    <3>1. PICK x, s, new : Takes(x, s, new)
      BY <2>4
    <3>2. Took(x, s)
      BY <2>1, <3>1, TakesGives
    <3>3. /\ DOMAIN secs' = DOMAIN secs \cup {s} /\ \A j \in DOMAIN secs : j # s => secs'[j] = secs[j]
          /\ O!sh.type \in O!Handled
      BY <3>1 DEF Takes
    <3> DEFINE c == NewNumber(x)
    <3>4. Fits(s, c)'
      <4>1. Len(loads) \in DOMAIN loads /\ O!Current = O!ObjectOf(Len(loads)) /\ turn \in DOMAIN O!Current.secs
        BY <2>1, CurrentIs, CurrentTyped DEF TypesInv, O!Loops
      <4>2. PICK l : l = Len(loads)
        OBVIOUS
      <4>3. PICK h : h = turn
        OBVIOUS
      <4>4. PICK p : p = NewPart(x)
        OBVIOUS
      <4>5. SectionOf(l, h) = O!sh /\ h \in DOMAIN O!ObjectOf(l).secs
        BY <4>1, <4>2, <4>3 DEF SectionOf, O!sh
      <4>6. O!ObjectOf(l)' = O!ObjectOf(l) /\ l \in DOMAIN loads' /\ l = Len(loads') /\ h < turn'
        BY <2>1, <4>1, <4>2, <4>3, <1>1 DEF Grows
      <4>7. /\ secs'[s].name = O!sh.name /\ secs'[s].type = O!sh.type /\ secs'[s].parts[c] = p
            /\ p.load = l /\ p.sec = h /\ p.size = O!sh.size
        BY <3>2, <4>2, <4>3, <4>4 DEF Took, NewPart
      <4> HIDE DEF c
      <4>8. SectionOf(l, h)' = O!sh
        BY <4>5, <4>6 DEF SectionOf
      <4> QED
        BY <3>3, <4>5, <4>6, <4>7, <4>8 DEF Fits
    <3>5. ASSUME NEW j \in DOMAIN secs', NEW a \in DOMAIN secs'[j].parts
          PROVE  Fits(j, a)'
      <4>1. CASE j \in DOMAIN secs /\ a \in DOMAIN secs[j].parts
        BY <1>1, <2>2, <4>1, FitsStays DEF PartsInv
      <4>2. CASE j = s /\ a = c
        BY <3>4, <4>2
      <4>3. j # s => j \in DOMAIN secs /\ a \in DOMAIN secs[j].parts
        BY <3>3
      <4>4. j = s /\ a # NewNumber(x) => j \in DOMAIN secs /\ a \in DOMAIN secs[j].parts
        BY <3>2 DEF Took
      <4> QED
        BY <4>1, <4>2, <4>3, <4>4
    <3>6. \A j \in DOMAIN secs' : secs'[j].parts # <<>>
      BY <3>2, <3>3 DEF PartsInv, Took
    <3> QED
      BY <3>5, <3>6 DEF PartsInv
  <2> QED
    BY <1>6, <2>3, <2>4, PlaceIs DEF O!Ignore, O!SkipOnce
<1>7. CASE O!LinkInfo /\ SetsInfo
  <2>1. pc' # "place" /\ DOMAIN secs' = DOMAIN secs /\ \A j \in DOMAIN secs : secs'[j].parts = secs[j].parts
    BY <1>7 DEF O!LinkInfo, SetsInfo
  <2> QED
    BY <1>1, <2>1, PartsStay
<1>8. CASE O!Patch
  <2>1. pc' # "place"
    BY <1>8 DEF O!Patch
  <2>2. DOMAIN secs' = DOMAIN secs /\ \A j \in DOMAIN secs : secs'[j].parts = secs[j].parts
    BY <1>8, PatchIs DEF Patches
  <2> QED
    BY <1>1, <2>1, <2>2, PartsStay
<1> QED
  BY <1>4, <1>5, <1>6, <1>7, <1>8, StepIs

-----------------------------------------------------------------------------
(* What sm_table says of the sections of the object.                       *)

Ignored(h) ==
  O!Current.secs[h].type \notin O!Handled /\ ~ sm_table[h].link_once /\ sm_table[h].s = 0
  /\ ~ sm_table[h].new_section

\* a load before had a section of the name
Skipped(h) ==
  /\ sm_table[h].link_once /\ sm_table[h].s = 0 /\ ~ sm_table[h].new_section
  /\ O!Current.secs[h].type \in O!Handled /\ O!Current.secs[h].name \in OnceNames
  /\ \E j \in DOMAIN secs : secs[j].name = O!Current.secs[h].name
       /\ \E a \in DOMAIN secs[j].parts : secs[j].parts[a].load # Len(loads)

\* it is a part of a linked section, its relocations are the last of that
Taken(h) ==
  /\ ~ sm_table[h].link_once /\ sm_table[h].s \in DOMAIN secs
  /\ O!Current.secs[h].type \in O!Handled
  /\ secs[sm_table[h].s].name = O!Current.secs[h].name
  /\ secs[sm_table[h].s].type = O!Current.secs[h].type
  /\ \E a \in DOMAIN secs[sm_table[h].s].parts :
       PartIs(sm_table[h].s, a, Len(loads), h) /\ secs[sm_table[h].s].parts[a].off = sm_table[h].offset
  /\ O!Current.secs[h].type = "rela" =>
       sm_table[h].offset + Len(O!Current.secs[h].rels) = Len(secs[sm_table[h].s].rels)

MergedAs(h) == Ignored(h) \/ Skipped(h) \/ Taken(h)
Unmerged(h) == ~ sm_table[h].link_once /\ sm_table[h].s = 0 /\ ~ sm_table[h].new_section

MergeInv ==
  pc \in O!Loops =>
    \A h \in DOMAIN sm_table : IF pc = "place" /\ h >= turn THEN Unmerged(h) ELSE MergedAs(h)

LEMMA MergedStays ==
  ASSUME TypesInv, Grows, loads' = loads, NEW h, sm_table'[h] = sm_table[h], MergedAs(h),
         O!Current.secs[h].type = "rela" /\ Taken(h) =>
           Len(secs'[sm_table[h].s].rels) = Len(secs[sm_table[h].s].rels)
  PROVE  MergedAs(h)'
<1>1. O!Current' = O!Current
  BY DEF O!Current
<1>2. PICK l : l = Len(loads)
  OBVIOUS
<1>3. l = Len(loads')
  BY <1>2
<1>4. CASE Ignored(h)
  BY <1>1, <1>4 DEF Ignored, MergedAs
<1>5. CASE Skipped(h)
  <2>1. PICK j \in DOMAIN secs : secs[j].name = O!Current.secs[h].name
          /\ \E a \in DOMAIN secs[j].parts : secs[j].parts[a].load # l
    BY <1>2, <1>5 DEF Skipped
  <2>2. PICK a \in DOMAIN secs[j].parts : secs[j].parts[a].load # l
    BY <2>1
  <2>3. j \in DOMAIN secs' /\ secs'[j].name = secs[j].name /\ a \in DOMAIN secs'[j].parts
        /\ secs'[j].parts[a] = secs[j].parts[a]
    BY <2>1, <2>2 DEF Grows
  <2>4. Skipped(h)'
    BY <1>1, <1>3, <1>5, <2>1, <2>2, <2>3 DEF Skipped
  <2> QED
    BY <2>4 DEF MergedAs
<1>6. CASE Taken(h)
  <2>1. PICK j : j = sm_table[h].s /\ j = sm_table'[h].s
    OBVIOUS
  <2>2. PICK a \in DOMAIN secs[j].parts : PartIs(j, a, l, h) /\ secs[j].parts[a].off = sm_table[h].offset
    BY <1>2, <1>6, <2>1 DEF Taken
  <2>3. j \in DOMAIN secs
    BY <1>6, <2>1 DEF Taken
  <2>4. j \in DOMAIN secs' /\ secs'[j].name = secs[j].name /\ secs'[j].type = secs[j].type
        /\ a \in DOMAIN secs'[j].parts /\ secs'[j].parts[a] = secs[j].parts[a]
    BY <2>2, <2>3 DEF Grows
  <2>5. PartIs(j, a, l, h)'
    BY <2>2, <2>4 DEF PartIs
  <2>6. O!Current.secs[h].type = "rela" => Len(secs'[j].rels) = Len(secs[j].rels)
    BY <1>6, <2>1
  <2>7. Taken(h)'
    BY <1>1, <1>3, <1>6, <2>1, <2>2, <2>3, <2>4, <2>5, <2>6 DEF Taken
  <2> QED
    BY <2>7 DEF MergedAs
<1> QED
  BY <1>4, <1>5, <1>6 DEF MergedAs

LEMMA MergeNext ==
  ASSUME TypesInv, PartsInv, MergeInv, O!Next
  PROVE  MergeInv'
<1>1. Grows /\ TypesInv'
  BY NextGrows, TypesNext
<1>2. pc \in O!Loops => sm_table \in [DOMAIN O!Current.secs -> Merged] /\ turn \in Nat
                        /\ O!Current.secs \in Seq(ObjectSection)
  BY CurrentTyped DEF TypesInv, LocalsInv, LoadedInv
<1>3. CASE \E o : Begins(o)
  <2>1. PICK o : Begins(o)
    BY <1>3
  <2>2. sm_table' = [h \in DOMAIN o.secs |-> O!NoMerge] /\ pc' = "place" /\ turn' = 1
    BY <2>1 DEF Begins, O!Load
  <2>3. loads' \in Seq([obj : O!ObjectsOf(program)', from : DOMAIN program']) /\ pc' \in O!Loops
    BY <1>1, <2>2 DEF TypesInv, LoadedInv, O!Loops
  <2>4. O!Current' = o
    <3>1. loads \in Seq([obj : O!ObjectsOf(program), from : DOMAIN program])
      BY DEF TypesInv, LoadedInv
    <3> QED
      BY <2>1, <3>1 DEF Begins, O!Load, O!Current
  <2>5. o \in O!ObjectsOf(program)
    BY <2>1 DEF Begins
  <2>6. o.secs \in Seq(ObjectSection)
    BY <2>5, ObjectShape DEF TypesInv, LoadedInv, O!WellFormed, ObjectSection
  <2>7. \A h \in DOMAIN o.secs : h >= 1
    BY <2>6
  <2> QED
    BY <2>2, <2>7 DEF MergeInv, Unmerged, O!NoMerge
<1>4. CASE Idles \/ O!Return
  BY <1>4 DEF Idles, O!Return, MergeInv, O!Loops
<1>5. CASE O!SymbolsAdded \/ O!AddSymbol
  <2>1. UNCHANGED <<secs, loads, sm_table>> /\ pc \in O!Loops /\ pc # "place" /\ pc' # "place"
    BY <1>5 DEF O!SymbolsAdded, O!AddSymbol, O!linked, O!Loops
  <2>2. \A h \in DOMAIN sm_table : MergedAs(h)'
    BY <1>1, <2>1, MergedStays DEF MergeInv
  <2> QED
    BY <2>1, <2>2 DEF MergeInv
<1>6. CASE O!LinkInfo /\ SetsInfo
  <2>1. UNCHANGED <<loads, sm_table>> /\ pc = "place" /\ turn > Len(O!Current.secs) /\ pc' # "place" /\ pc \in O!Loops
    BY <1>6 DEF O!LinkInfo, O!Loops
  <2>2. \A h \in DOMAIN sm_table : ~ (h >= turn)
    BY <1>2, <2>1
  <2>3. \A j \in DOMAIN secs : secs'[j].rels = secs[j].rels
    BY <1>6 DEF SetsInfo
  <2>4. \A h \in DOMAIN sm_table : MergedAs(h)'
    <3> SUFFICES ASSUME NEW h \in DOMAIN sm_table PROVE MergedAs(h)'
      OBVIOUS
    <3>1. MergedAs(h)
      BY <2>1, <2>2 DEF MergeInv
    <3>2. Taken(h) => secs'[sm_table[h].s].rels = secs[sm_table[h].s].rels
      BY <2>3 DEF Taken
    <3> QED
      BY <1>1, <2>1, <3>1, <3>2, MergedStays
  <2> QED
    BY <2>1, <2>4 DEF MergeInv
<1>7. CASE O!Patch
  <2>1. UNCHANGED <<loads, sm_table>> /\ pc = "patch" /\ pc' # "place" /\ pc \in O!Loops
    BY <1>7 DEF O!Patch, O!Loops
  <2>2. \A j \in DOMAIN secs : Len(secs'[j].rels) = Len(secs[j].rels)
    <3>1. CASE secs' = secs
      BY <3>1
    <3>2. CASE Patches(sm_table[turn].s)
      <4>1. /\ secs' \in Seq(LinkedSection) /\ DOMAIN secs' = DOMAIN secs
            /\ \A j \in DOMAIN secs : DOMAIN secs'[j].rels = DOMAIN secs[j].rels
        BY <3>2 DEF Patches
      <4>2. secs \in Seq(LinkedSection)
        BY DEF TypesInv, TableInv
      <4>3. \A j \in DOMAIN secs : secs[j] \in LinkedSection /\ secs'[j] \in LinkedSection
        BY <4>1, <4>2, Elements
      <4>4. \A j \in DOMAIN secs : secs[j].rels \in Seq([at : Nat, sym : Nat])
                                   /\ secs'[j].rels \in Seq([at : Nat, sym : Nat])
        BY <4>3 DEF LinkedSection
      <4> QED
        BY <4>1, <4>4
    <3> QED
      BY <1>7, <3>1, <3>2, PatchIs
  <2>3. \A h \in DOMAIN sm_table : MergedAs(h)'
    <3> SUFFICES ASSUME NEW h \in DOMAIN sm_table PROVE MergedAs(h)'
      OBVIOUS
    <3>1. MergedAs(h)
      BY <2>1 DEF MergeInv
    <3>2. Taken(h) => Len(secs'[sm_table[h].s].rels) = Len(secs[sm_table[h].s].rels)
      BY <2>2 DEF Taken
    <3> QED
      BY <1>1, <2>1, <3>1, <3>2, MergedStays
  <2> QED
    BY <2>1, <2>3 DEF MergeInv

<1>8. CASE O!Place
  <2>1. /\ loads' = loads /\ pc = "place" /\ pc \in O!Loops /\ turn <= Len(O!Current.secs)
        /\ turn' = turn + 1
    BY <1>8 DEF O!Place, O!Loops
  <2>2. turn \in DOMAIN O!Current.secs /\ turn \in DOMAIN sm_table /\ turn \in Nat
    BY <1>2, <2>1, CurrentTyped DEF TypesInv
  <2>3. Unmerged(turn) /\ O!sh = O!Current.secs[turn] /\ O!Current' = O!Current
    BY <2>1, <2>2 DEF MergeInv, O!sh, O!Current
  <2>4. PICK g : g = turn
    OBVIOUS
  <2>5. ASSUME MergedAs(g)', \A h \in DOMAIN sm_table : h < g => MergedAs(h)',
               \A h \in DOMAIN sm_table : h # g => sm_table'[h] = sm_table[h],
               DOMAIN sm_table' = DOMAIN sm_table, pc' = "place"
        PROVE  MergeInv'
    <3>1. \A h \in DOMAIN sm_table : h \in Nat
      BY <1>2, <2>1
    <3>2. \A h \in DOMAIN sm_table : h >= g + 1 => Unmerged(h)'
      BY <2>1, <2>4, <2>5, <3>1, <2>2 DEF MergeInv, Unmerged
    <3>3. \A h \in DOMAIN sm_table : ~ (h >= g + 1) => MergedAs(h)'
      BY <2>2, <2>4, <2>5, <3>1
    <3> QED
      BY <2>1, <2>4, <2>5, <3>2, <3>3 DEF MergeInv
  <2>6. \A h \in DOMAIN sm_table : h < g => MergedAs(h)
    BY <1>2, <2>1, <2>2, <2>4 DEF MergeInv
  <2>7. CASE pc' = "failed"
    BY <2>7 DEF MergeInv, O!Loops
  <2>8. CASE O!Ignore
    <3>1. UNCHANGED <<secs, sm_table>> /\ pc' = "place" /\ O!sh.type \notin O!Handled
      BY <2>1, <2>8 DEF O!Ignore
    <3>2. \A h \in DOMAIN sm_table : h < g => MergedAs(h)'
      BY <1>1, <2>1, <2>6, <3>1, MergedStays
    <3>3. Ignored(g)'
      BY <2>3, <2>4, <3>1 DEF Unmerged, Ignored
    <3>4. MergedAs(g)'
      BY <3>3 DEF MergedAs
    <3> QED
      BY <2>5, <3>1, <3>2, <3>4
  <2>9. CASE O!SkipOnce
    <3>1. /\ sm_table' = [sm_table EXCEPT ![g].link_once = TRUE] /\ UNCHANGED <<secs, pc>>
          /\ O!sh.type \in O!Handled /\ O!Same # {} /\ O!sh.name \in OnceNames
      BY <2>4, <2>9 DEF O!SkipOnce
    <3>2. /\ \A h \in DOMAIN sm_table : h # g => sm_table'[h] = sm_table[h]
          /\ DOMAIN sm_table' = DOMAIN sm_table
          /\ sm_table'[g].link_once /\ sm_table'[g].s = 0 /\ ~ sm_table'[g].new_section
      BY <1>2, <2>1, <2>2, <2>3, <2>4, <3>1 DEF Unmerged, Merged
    <3>3. ASSUME NEW h \in DOMAIN sm_table, h < g
          PROVE  MergedAs(h)'
      <4>1. h # g
        BY <2>2, <2>4, <3>3
      <4>2. sm_table'[h] = sm_table[h]
        BY <3>2, <4>1
      <4> QED
        BY <1>1, <2>1, <2>6, <3>1, <3>3, <4>2, MergedStays
    <3>4. PICK j \in O!Same : TRUE
      BY <3>1
    <3>5. j \in DOMAIN secs /\ secs[j].name = O!sh.name
      BY <3>4 DEF O!Same
    <3>6. PICK a \in DOMAIN secs[j].parts : TRUE
      <4>1. secs[j] \in LinkedSection
        BY <3>5, Elements DEF TypesInv, TableInv
      <4>2. secs[j].parts \in Seq(LinkedPart) /\ secs[j].parts # <<>>
        BY <3>5, <4>1 DEF PartsInv, LinkedSection
      <4>3. 1 \in DOMAIN secs[j].parts
        BY <4>2, FirstOf
      <4> QED
        BY <4>3
    <3>7. secs[j].parts[a].load # Len(loads)
      <4> SUFFICES ASSUME secs[j].parts[a].load = Len(loads)
                   PROVE  FALSE
        OBVIOUS
      <4> DEFINE q == secs[j].parts[a].sec
      <4>1. /\ q \in DOMAIN O!Current.secs /\ q < turn
            /\ O!Current.secs[q].name = O!sh.name /\ O!Current.secs[q].type \in O!Handled
        <5>1. Fits(j, a) /\ O!Current = O!ObjectOf(Len(loads))
          BY <2>1, <3>5, <3>6, CurrentIs DEF PartsInv, TypesInv
        <5> QED
          BY <2>1, <3>5, <5>1 DEF Fits, SectionOf
      <4>2. O!OnceAlike(O!Current, O!Current)
        BY <2>1, CurrentIs, ObjectShape DEF TypesInv, LoadedInv
      <4>3. q = turn
        BY <2>2, <2>3, <3>1, <4>1, <4>2 DEF O!OnceAlike
      <4> QED
        BY <2>2, <4>1, <4>3
    <3>8. Skipped(g)'
      BY <2>1, <2>3, <2>4, <3>1, <3>2, <3>5, <3>6, <3>7 DEF Skipped
    <3>9. MergedAs(g)'
      BY <3>8 DEF MergedAs
    <3> QED
      BY <2>1, <2>5, <3>1, <3>2, <3>3, <3>9
  <2>10. CASE \E x, s, new : Takes(x, s, new)
    <3>1. PICK x, s, new : Takes(x, s, new)
      BY <2>10
    <3>2. Took(x, s)
      BY <2>1, <3>1, TakesGives
    <3>3. PICK off : off = Offset(x)
      OBVIOUS
    <3>4. /\ sm_table' = [sm_table EXCEPT ![g] = [s |-> s, offset |-> off, new_section |-> new, link_once |-> FALSE]]
          /\ pc' = "place" /\ O!sh.type \in O!Handled /\ s \in Nat \ {0}
          /\ \A j \in DOMAIN secs : j # s => secs'[j] = secs[j]
          /\ s \in DOMAIN secs' /\ off \in Nat /\ x.type = O!sh.type /\ x.name = O!sh.name
      BY <2>1, <2>4, <3>1, <3>3 DEF Takes
    <3>5. /\ \A h \in DOMAIN sm_table : h # g => sm_table'[h] = sm_table[h]
          /\ DOMAIN sm_table' = DOMAIN sm_table
          /\ sm_table'[g].s = s /\ sm_table'[g].offset = off /\ sm_table'[g].link_once = FALSE
      BY <2>2, <2>4, <3>4
    <3>6. ASSUME NEW h \in DOMAIN sm_table, h < g
          PROVE  MergedAs(h)'
      <4>1. h # g
        BY <2>2, <2>4, <3>6
      <4>2. sm_table'[h] = sm_table[h] /\ h \in DOMAIN O!Current.secs
        BY <3>5, <4>1, <1>2, <2>1
      <4>3. ASSUME O!Current.secs[h].type = "rela", Taken(h)
            PROVE  sm_table[h].s # s
        <5>1. CASE sm_table[h].s = s
          <6>1. O!Current.secs[h].name = O!sh.name /\ O!sh.type = "rela"
            BY <3>2, <3>4, <4>3, <5>1 DEF Taken, Took
          <6>2. O!RelocationsFit(O!Current)
            BY <2>1, CurrentIs, ObjectShape DEF TypesInv, LoadedInv
          <6>3. h = turn
            BY <2>2, <2>3, <4>2, <4>3, <6>1, <6>2 DEF O!RelocationsFit
          <6> QED
            BY <2>4, <4>1, <6>3
        <5> QED
          BY <5>1
      <4>4. O!Current.secs[h].type = "rela" /\ Taken(h) =>
              Len(secs'[sm_table[h].s].rels) = Len(secs[sm_table[h].s].rels)
        BY <3>4, <4>3 DEF Taken
      <4> QED
        BY <1>1, <2>1, <2>6, <3>6, <4>2, <4>4, MergedStays
    <3>7. Taken(g)'
      <4>1. PICK c : c = NewNumber(x)
        OBVIOUS
      <4>2. PICK l : l = Len(loads)
        OBVIOUS
      <4>3. /\ c \in DOMAIN secs'[s].parts /\ secs'[s].parts[c].load = l /\ secs'[s].parts[c].sec = g
            /\ secs'[s].parts[c].off = off
            /\ secs'[s].name = O!sh.name /\ secs'[s].type = O!sh.type
        BY <2>4, <3>2, <3>3, <4>1, <4>2 DEF Took, NewPart
      <4>4. O!sh.type = "rela" => off + Len(O!sh.rels) = Len(secs'[s].rels)
        <5>1. O!sh.type = "rela" => off = Len(x.rels)
          BY <3>3 DEF Offset
        <5>2. Len(secs'[s].rels) = Len(x.rels) + Len(O!sh.rels)
          BY <3>2, Concats DEF Took
        <5> QED
          BY <5>1, <5>2
      <4>5. l = Len(loads')
        BY <2>1, <4>2
      <4>6. PartIs(s, c, l, g)'
        BY <3>4, <4>3 DEF PartIs
      <4> QED
        BY <2>3, <2>4, <3>4, <3>5, <4>3, <4>4, <4>5, <4>6 DEF Taken
    <3>8. MergedAs(g)'
      BY <3>7 DEF MergedAs
    <3> QED
      BY <2>5, <3>4, <3>5, <3>6, <3>8
  <2> QED
    BY <1>8, <2>7, <2>8, <2>9, <2>10, PlaceIs
<1> QED
  BY <1>3, <1>4, <1>5, <1>6, <1>7, <1>8, StepIs

-----------------------------------------------------------------------------
(* Which names are defined: members come because they are needed.          *)

SymbolOf(l, q) == O!ObjectOf(l).syms[q]

\* load l has got past symbol q
Through(l, q) == l # Len(loads) \/ pc \notin O!Loops \/ pc = "patch" \/ (pc = "symbols" /\ q < turn)

Known(name) ==
  \E e \in DOMAIN syms : syms[e].bind # "LOCAL" /\ syms[e].name = name /\ syms[e].sec # 0

\* a name that an object defines is defined
KnownInv ==
  pc # "failed" =>
    \A l \in DOMAIN loads : \A q \in DOMAIN O!ObjectOf(l).syms :
      Through(l, q) /\ SymbolOf(l, q).bind # "LOCAL" /\ SymbolOf(l, q).sec # 0 =>
        Known(SymbolOf(l, q).name)

LEMMA SymbolsShape ==
  ASSUME LoadedInv, NEW l \in DOMAIN loads
  PROVE  /\ O!ObjectOf(l).syms \in Seq(LinkedSymbol) /\ O!ObjectOf(l).secs \in Seq(ObjectSection)
         /\ \A q \in DOMAIN O!ObjectOf(l).syms :
              q \in Nat \ {0} /\ SymbolOf(l, q) \in LinkedSymbol /\ q <= Len(O!ObjectOf(l).syms)
<1>1. O!ObjectOf(l).syms \in Seq(LinkedSymbol) /\ O!ObjectOf(l).secs \in Seq(ObjectSection)
  BY LoadsAre, ObjectShape DEF LoadedInv, O!WellFormed, LinkedSymbol, ObjectSection
<1>2. \A q \in DOMAIN O!ObjectOf(l).syms : SymbolOf(l, q) \in LinkedSymbol
  BY <1>1, Elements DEF SymbolOf
<1> QED
  BY <1>1, <1>2

LEMMA KnownStays ==
  ASSUME TypesInv, O!Next, NEW name, Known(name)
  PROVE  Known(name)'
<1>1. PICK g \in DOMAIN syms : syms[g].bind # "LOCAL" /\ syms[g].name = name /\ syms[g].sec # 0
  BY DEF Known
<1>2. syms' = syms => Known(name)'
  BY <1>1 DEF Known
<1>3. CASE \E y, e : Adds(y, e)
  <2>1. PICK y, e : Adds(y, e)
    BY <1>3
  <2>2. Sets(y, e)
    BY <2>1 DEF Adds
  <2>3. g \in DOMAIN syms' /\ syms'[g].bind # "LOCAL" /\ syms'[g].name = name /\ syms'[g].sec # 0
    BY <1>1, <2>2 DEF Sets
  <2> QED
    BY <2>3 DEF Known
<1>4. O!AddSymbol => syms' = syms \/ \E y, e : Adds(y, e)
  BY AddsIs DEF O!AddSymbol, O!UseDefined, O!NotAdded
<1>5. ~ O!AddSymbol => syms' = syms
  BY DEF O!Next, O!LoadFile, O!OpenArchive, O!LoadMember, O!CloseArchive, O!ScanIndex, O!ScanAgain,
         O!AllAdded, O!Place, O!LinkInfo, O!SymbolsAdded, O!Patch, O!Return, O!Load, O!linked
<1> QED
  BY <1>2, <1>3, <1>4, <1>5

LEMMA SkippedKnown ==
  ASSUME TypesInv, PartsInv, KnownInv, pc = "symbols", NEW h \in DOMAIN O!Current.secs, Skipped(h),
         O!sym.sec = h, O!sym.bind # "LOCAL", turn <= Len(O!Current.syms)
  PROVE  Known(O!sym.name)
<1>1. PICK j \in DOMAIN secs : secs[j].name = O!Current.secs[h].name
        /\ \E a \in DOMAIN secs[j].parts : secs[j].parts[a].load # Len(loads)
  BY DEF Skipped
<1>2. PICK a \in DOMAIN secs[j].parts : secs[j].parts[a].load # Len(loads)
  BY <1>1
<1>3. PICK l, m : l = secs[j].parts[a].load /\ m = secs[j].parts[a].sec
  OBVIOUS
<1>4. /\ l \in DOMAIN loads /\ m \in DOMAIN O!ObjectOf(l).secs
      /\ O!ObjectOf(l).secs[m].name = O!Current.secs[h].name
      /\ O!ObjectOf(l).secs[m].type \in O!Handled /\ l # Len(loads)
  BY <1>1, <1>2, <1>3 DEF PartsInv, Fits, SectionOf
<1>5. O!Current \in O!ObjectsOf(program) /\ O!ObjectOf(l) \in O!ObjectsOf(program)
  BY <1>4, CurrentIs, LoadsAre DEF TypesInv, O!Loops
<1>6. O!OnceAlike(O!Current, O!ObjectOf(l))
  BY <1>5, ObjectShape DEF TypesInv, LoadedInv
<1>7. O!NamesIn(O!Current, h) = O!NamesIn(O!ObjectOf(l), m)
  BY <1>4, <1>6 DEF O!OnceAlike, Skipped
<1>8. O!sym.name \in O!NamesIn(O!Current, h)
  <2>1. turn \in DOMAIN O!Current.syms
    BY SymIs DEF TypesInv, O!Loops
  <2> QED
    BY <2>1 DEF O!NamesIn, O!Range, O!sym
<1>9. PICK z \in O!Range(O!ObjectOf(l).syms) : z.name = O!sym.name /\ z.bind # "LOCAL" /\ z.sec = m
  BY <1>7, <1>8 DEF O!NamesIn
<1>10. PICK q \in DOMAIN O!ObjectOf(l).syms : SymbolOf(l, q) = z
  BY <1>9 DEF O!Range, SymbolOf
<1>11. m # 0
  <2>1. O!ObjectOf(l).secs \in Seq(ObjectSection)
    BY <1>4, SymbolsShape DEF TypesInv
  <2> QED
    BY <1>4, <2>1
<1>12. Through(l, q)
  BY <1>4 DEF Through
<1> QED
  BY <1>4, <1>9, <1>10, <1>11, <1>12 DEF KnownInv

\* the symbol that is looked at is known when it was gone through
LEMMA SymKnown ==
  ASSUME TypesInv, PartsInv, MergeInv, KnownInv, O!Next, O!AddSymbol, O!sym.bind # "LOCAL", O!sym.sec # 0,
         NEW name, name = O!sym.name
  PROVE  Known(name)'
<1>1. pc = "symbols" /\ pc \in O!Loops /\ turn <= Len(O!Current.syms)
  BY DEF O!AddSymbol, O!Loops
<1>2. /\ O!sym \in LinkedSymbol /\ (O!sym.sec > 0 => O!sym.sec \in DOMAIN O!Current.secs)
      /\ O!sym.sec > 0 => O!Current.secs[O!sym.sec].type \in O!Handled
  BY <1>1, SymIs DEF TypesInv
<1>3. O!sym.sec > 0 => O!sym.sec \in DOMAIN sm_table /\ MergedAs(O!sym.sec)
  BY <1>1, <1>2 DEF MergeInv, TypesInv, LocalsInv
<1>4. CASE O!UseDefined
  <2>1. Skipped(O!sym.sec) /\ O!sym.sec > 0
    BY <1>3, <1>4 DEF O!UseDefined, MergedAs, Ignored, Taken
  <2>2. Known(O!sym.name)
    BY <1>1, <1>2, <2>1, SkippedKnown
  <2> QED
    BY <2>2, <1>4 DEF O!UseDefined, Known
<1>5. CASE O!NotAdded
  <2>1. O!sym.sec > 0 /\ ~ sm_table[O!sym.sec].link_once /\ sm_table[O!sym.sec].s = 0
    BY <1>5 DEF O!NotAdded
  <2>2. sm_table[O!sym.sec].s \in DOMAIN secs
    BY <1>2, <1>3, <2>1 DEF MergedAs, Ignored, Skipped, Taken
  <2>3. 0 \notin DOMAIN secs
    BY DEF TypesInv, TableInv
  <2> QED
    BY <2>1, <2>2, <2>3
<1>6. CASE O!AddPlain \/ O!AddMoved
  <2>1. PICK y, e : Adds(y, e)
    BY <1>6, AddsIs
  <2>2. O!sym.sec \in Int
    BY <1>2 DEF LinkedSymbol
  <2>3. y.name = O!sym.name /\ y.bind = O!sym.bind /\ y.sec # 0 /\ Sets(y, e)
    BY <2>1, <2>2 DEF Adds
  <2>4. e \in DOMAIN syms' /\ syms'[e].name = O!sym.name /\ syms'[e].bind # "LOCAL" /\ syms'[e].sec # 0
    BY <2>3 DEF Sets
  <2> QED
    BY <2>4 DEF Known
<1> QED
  BY <1>4, <1>5, <1>6 DEF O!AddSymbol

\* where a step takes the loader
LEMMA ThroughAfter ==
  ASSUME TypesInv, O!Next, pc # "failed", pc' # "failed",
         NEW l \in DOMAIN loads', NEW q \in DOMAIN O!ObjectOf(l)'.syms, Through(l, q)'
  PROVE  /\ l \in DOMAIN loads /\ O!ObjectOf(l)' = O!ObjectOf(l)
         /\ Through(l, q) \/ (O!AddSymbol /\ q = turn /\ l = Len(loads))
<1>3. CASE \E o : Begins(o)
  <2>1. PICK o : Begins(o)
    BY <1>3
  <2>2. loads' = Append(loads, [obj |-> o, from |-> file]) /\ pc' = "place" /\ pc \notin O!Loops
    BY <2>1 DEF Begins, O!Load
  <2>3. l # Len(loads')
    BY <2>2 DEF Through, O!Loops
  <2>4. l \in DOMAIN loads /\ O!ObjectOf(l)' = O!ObjectOf(l)
    BY <2>2, <2>3 DEF TypesInv, LoadedInv, O!ObjectOf
  <2> QED
    BY <2>2, <2>4 DEF Through
<1>4. CASE loads' = loads
  <2>1. l \in DOMAIN loads /\ O!ObjectOf(l)' = O!ObjectOf(l)
    BY <1>4 DEF O!ObjectOf
  <2>4. q \in Nat \ {0} /\ q <= Len(O!ObjectOf(l).syms)
    BY <2>1, SymbolsShape DEF TypesInv
  <2>2. CASE l # Len(loads)
    BY <2>1, <2>2 DEF Through
  <2>3. CASE l = Len(loads)
    <3>1. l = Len(loads') /\ (pc' \notin O!Loops \/ pc' = "patch" \/ (pc' = "symbols" /\ q < turn'))
      BY <1>4, <2>3 DEF Through
    <3>2. CASE O!AddSymbol
      <4>1. pc = "symbols" /\ pc' = "symbols" /\ turn' = turn + 1 /\ turn \in Nat
        BY <3>2 DEF O!AddSymbol, TypesInv, LoadedInv, O!Loops
      <4>2. q < turn \/ q = turn
        BY <2>4, <3>1, <4>1 DEF O!Loops
      <4> QED
        BY <2>1, <2>3, <3>2, <4>1, <4>2 DEF Through
    <3>3. CASE O!SymbolsAdded
      <4>1. pc = "symbols" /\ turn > Len(O!Current.syms) /\ turn \in Nat
        BY <3>3 DEF O!SymbolsAdded, TypesInv, LoadedInv, O!Loops
      <4>2. O!Current = O!ObjectOf(l)
        BY <2>3, <4>1, CurrentIs DEF TypesInv, O!Loops
      <4>3. O!ObjectOf(l).syms \in Seq(LinkedSymbol)
        BY <2>1, SymbolsShape DEF TypesInv
      <4>4. q < turn
        BY <2>1, <2>4, <4>1, <4>2, <4>3
      <4> QED
        BY <2>1, <4>1, <4>4 DEF Through
    <3>4. CASE O!Place \/ O!LinkInfo
      <4>1. (pc' = "place") \/ (pc' = "symbols" /\ turn' = 1)
        BY <3>4, TurnKinds DEF O!Place, O!LinkInfo, O!Ignore, O!SkipOnce, O!WrongType, O!AddSection,
              O!JoinSection, O!Concatenate
      <4> QED
        BY <2>4, <3>1, <4>1 DEF O!Loops
    <3>5. CASE O!Patch \/ O!Return
      BY <2>1, <3>5 DEF O!Patch, O!Return, Through
    <3>6. CASE Idles
      BY <2>1, <3>6 DEF Idles, Through
    <3> QED
      BY <1>3, <1>4, <3>2, <3>3, <3>4, <3>5, <3>6, StepIs DEF Begins
  <2> QED
    BY <2>2, <2>3
<1> QED
  BY <1>3, <1>4, StepIs, TurnKinds DEF Idles, O!Return

LEMMA KnownNext ==
  ASSUME TypesInv, PartsInv, MergeInv, KnownInv, O!Next, pc # "failed"
  PROVE  KnownInv'
<1> SUFFICES ASSUME pc' # "failed", NEW l \in DOMAIN loads', NEW q \in DOMAIN O!ObjectOf(l)'.syms,
                    Through(l, q)', SymbolOf(l, q)'.bind # "LOCAL", SymbolOf(l, q)'.sec # 0
             PROVE  Known(SymbolOf(l, q).name)'
  BY DEF KnownInv
<1>1. /\ l \in DOMAIN loads /\ O!ObjectOf(l)' = O!ObjectOf(l)
      /\ Through(l, q) \/ (O!AddSymbol /\ q = turn /\ l = Len(loads))
  BY ThroughAfter
<1>2. PICK name : name = SymbolOf(l, q).name
  OBVIOUS
<1>3. SymbolOf(l, q)' = SymbolOf(l, q) /\ q \in DOMAIN O!ObjectOf(l).syms
  BY <1>1 DEF SymbolOf
<1>4. CASE Through(l, q)
  BY <1>1, <1>2, <1>3, <1>4, KnownStays DEF KnownInv
<1>5. CASE O!AddSymbol /\ q = turn /\ l = Len(loads)
  <2>1. O!Current = O!ObjectOf(l)
    BY <1>5, CurrentIs DEF TypesInv, O!Loops, O!AddSymbol
  <2>2. O!sym = SymbolOf(l, q)
    BY <1>5, <2>1 DEF O!sym, SymbolOf
  <2> QED
    BY <1>2, <1>3, <1>5, <2>2, SymKnown
<1> QED
  BY <1>1, <1>4, <1>5

\* an undefined name is one that some object refers to
WantedInv ==
  \A e \in DOMAIN syms : syms[e].bind # "LOCAL" /\ syms[e].sec = 0 =>
    \E l \in DOMAIN loads : O!Refers(O!ObjectOf(l), syms[e].name)

LEMMA WantedNext ==
  ASSUME TypesInv, WantedInv, O!Next
  PROVE  WantedInv'
<1>1. Grows
  BY NextGrows
<1>2. ASSUME NEW l \in DOMAIN loads, NEW name, O!Refers(O!ObjectOf(l), name)
      PROVE  \E h \in DOMAIN loads' : O!Refers(O!ObjectOf(h)', name)
  BY <1>1, <1>2 DEF Grows, O!Refers
<1>3. CASE syms' = syms
  BY <1>2, <1>3 DEF WantedInv
<1>4. CASE O!AddSymbol /\ \E y, e : Adds(y, e)
  <2>1. PICK y, e : Adds(y, e)
    BY <1>4
  <2>2. Sets(y, e) /\ y.name = O!sym.name
    BY <2>1 DEF Adds
  <2>3. pc \in O!Loops /\ turn <= Len(O!Current.syms)
    BY <1>4 DEF O!AddSymbol, O!Loops
  <2>4. O!sym \in LinkedSymbol /\ turn \in DOMAIN O!Current.syms
    BY <2>3, SymIs DEF TypesInv
  <2>5. y.sec = 0 => O!sym.sec = 0
    BY <2>1, <2>4 DEF Adds, LinkedSymbol
  <2>6. O!sym \in O!Range(O!Current.syms)
    BY <2>4 DEF O!Range, O!sym
  <2>7. y.sec = 0 => O!Refers(O!Current, y.name)
    BY <2>2, <2>5, <2>6 DEF O!Refers
  <2>8. y.sec = 0 => \E h \in DOMAIN loads' : O!Refers(O!ObjectOf(h)', y.name)
    BY <2>3, <2>7, <1>2, CurrentIs DEF TypesInv
  <2>9. ASSUME NEW g \in DOMAIN syms', syms'[g].bind # "LOCAL", syms'[g].sec = 0
        PROVE  \E h \in DOMAIN loads' : O!Refers(O!ObjectOf(h)', syms'[g].name)
    <3>1. CASE g \in DOMAIN syms /\ syms'[g] = syms[g]
      <4>1. PICK l \in DOMAIN loads : O!Refers(O!ObjectOf(l), syms[g].name)
        BY <2>9, <3>1 DEF WantedInv
      <4> QED
        BY <1>2, <3>1, <4>1
    <3>2. CASE syms'[g] = y
      BY <2>8, <2>9, <3>2
    <3> QED
      BY <2>2, <3>1, <3>2 DEF Sets
  <2> QED
    BY <2>9 DEF WantedInv
<1>5. O!AddSymbol => syms' = syms \/ \E y, e : Adds(y, e)
  BY AddsIs DEF O!AddSymbol, O!UseDefined, O!NotAdded
<1>6. ~ O!AddSymbol => syms' = syms
  BY DEF O!Next, O!LoadFile, O!OpenArchive, O!LoadMember, O!CloseArchive, O!ScanIndex, O!ScanAgain,
         O!AllAdded, O!Place, O!LinkInfo, O!SymbolsAdded, O!Patch, O!Return, O!Load, O!linked
<1> QED
  BY <1>3, <1>4, <1>5, <1>6

\* what was undefined while the index was gone through, and which members came
IndexInv ==
  /\ pc = "index" /\ bound = 0 =>
       \A k \in DOMAIN program[file].index : k < i => ~ O!Undefined(syms, program[file].index[k].name)
  /\ pc \in O!Loops /\ O!UsesIndex(program[file]) => bound > 0
  /\ pc \in O!Loops \cup {"member"} /\ program[file].kind = "archive" /\ ~ O!UsesIndex(program[file]) =>
       \A k \in DOMAIN program[file].members : k < i =>
         \E l \in DOMAIN loads : O!ObjectOf(l) = program[file].members[k]

\* the last object loaded
LEMMA LoadAppends ==
  ASSUME LoadedInv, NEW o, O!Load(o)
  PROVE  Len(loads') \in DOMAIN loads' /\ (\E l \in DOMAIN loads' : O!ObjectOf(l)' = o)
         /\ loads'[Len(loads')] = [obj |-> o, from |-> file]
         /\ Len(loads') = Len(loads) + 1 /\ Len(loads) \in Nat
         /\ DOMAIN loads' = DOMAIN loads \cup {Len(loads')}
         /\ \A l \in DOMAIN loads : loads'[l] = loads[l] /\ l < Len(loads') /\ O!ObjectOf(l)' = O!ObjectOf(l)
<1> DEFINE v == [obj |-> o, from |-> file]
<1>1. loads' = Append(loads, v) /\ v.obj = o
  BY DEF O!Load
<1> HIDE DEF v
<1>2. loads \in Seq([obj : O!ObjectsOf(program), from : DOMAIN program])
  BY DEF LoadedInv
<1>3. /\ Len(loads') \in DOMAIN loads' /\ loads'[Len(loads')] = v
      /\ Len(loads') = Len(loads) + 1 /\ Len(loads) \in Nat
      /\ DOMAIN loads' = DOMAIN loads \cup {Len(loads')}
      /\ \A l \in DOMAIN loads : loads'[l] = loads[l] /\ l < Len(loads')
  BY <1>1, <1>2
<1>4. \E l \in DOMAIN loads' : loads'[l].obj = o
  BY <1>1, <1>3
<1>5. \A l \in DOMAIN loads : O!ObjectOf(l)' = O!ObjectOf(l)
  BY <1>3 DEF O!ObjectOf
<1>6. \E l \in DOMAIN loads' : O!ObjectOf(l)' = o
  BY <1>4 DEF O!ObjectOf
<1> QED
  BY <1>3, <1>5, <1>6 DEF v

LEMMA IndexNext ==
  ASSUME TypesInv, IndexInv, O!Next
  PROVE  IndexInv'
<1>1. Grows
  BY NextGrows
<1>2. ASSUME NEW o, \E l \in DOMAIN loads : O!ObjectOf(l) = o
      PROVE  \E l \in DOMAIN loads' : O!ObjectOf(l)' = o
  BY <1>1, <1>2 DEF Grows
<1>3. LoadedInv
  BY DEF TypesInv
<1>4. CASE O!Place \/ O!LinkInfo \/ O!AddSymbol \/ O!SymbolsAdded \/ O!Patch
  <2>1. /\ UNCHANGED <<program, file, i, bound, loads>>
        /\ pc \in O!Loops /\ pc' \in O!Loops \cup {"failed"}
    BY <1>4, TurnKinds
  <2> QED
    BY <1>2, <2>1 DEF IndexInv, O!Loops, O!UsesIndex
<1>5. CASE O!Return
  <2>1. /\ UNCHANGED <<program, bound, i, loads>> /\ pc \in O!Loops /\ pc' \notin O!Loops
        /\ pc' = "index" => O!UsesIndex(program[file]) /\ file' = file
        /\ pc' = "member" => ~ O!UsesIndex(program[file]) /\ file' = file
    BY <1>5 DEF O!Return, O!Loops, O!Input
  <2>2. pc' = "index" => bound' # 0
    BY <2>1 DEF IndexInv
  <2>3. pc' = "member" => O!UsesIndex(program[file])' = O!UsesIndex(program[file])
    BY <2>1 DEF O!UsesIndex
  <2>4. CASE pc' = "member"
    <3>1. program[file].kind = "archive" =>
            \A k \in DOMAIN program[file].members : k < i =>
               \E l \in DOMAIN loads : O!ObjectOf(l) = program[file].members[k]
      BY <2>1, <2>4 DEF IndexInv
    <3> QED
      BY <1>2, <2>1, <2>4, <3>1 DEF IndexInv, O!Loops
  <2> QED
    BY <2>1, <2>2, <2>4 DEF IndexInv
<1>6. CASE O!LoadFile
  <2>1. pc' = "place" /\ program' = program /\ file' = file /\ program[file].kind = "object"
    BY <1>6 DEF O!LoadFile, O!Load, O!Input
  <2> QED
    BY <2>1 DEF IndexInv, O!Loops, O!UsesIndex
<1>7. CASE O!OpenArchive
  <2>1. file \in DOMAIN program /\ program[file].kind = "archive"
    BY <1>3, <1>7, ProgramShape DEF O!OpenArchive, O!Input, LoadedInv
  <2>2. program[file].members \in Seq(O!Range(program[file].members))
        /\ program[file].index \in Seq(O!Range(program[file].index))
    BY <1>3, <2>1, ProgramShape DEF LoadedInv
  <2>3. \A k : k \in DOMAIN program[file].members \/ k \in DOMAIN program[file].index => ~ (k < 1)
    BY <2>2
  <2>4. program' = program /\ file' = file /\ i' = 1 /\ pc' \notin O!Loops
    BY <1>7 DEF O!OpenArchive, O!Loops
  <2> QED
    BY <2>3, <2>4 DEF IndexInv
<1>8. CASE O!LoadMember
  <2>1. /\ pc = "member" /\ pc' = "place" /\ program' = program /\ file' = file /\ i' = i + 1
        /\ O!Load(program[file].members[i])
    BY <1>8 DEF O!LoadMember, O!Load, O!Input
  <2>2. /\ program[file].kind = "archive" /\ ~ O!UsesIndex(program[file]) /\ file \in DOMAIN program
        /\ i \in Nat
    BY <1>3, <2>1 DEF LoadedInv
  <2>3. \A k \in DOMAIN program[file].members : k \in Nat
    BY <1>3, <2>2, ProgramShape DEF LoadedInv
  <2>4. \E l \in DOMAIN loads' : O!ObjectOf(l)' = program[file].members[i]
    BY <1>3, <2>1, LoadAppends
  <2>5. \A k \in DOMAIN program[file].members : k < i + 1 =>
          \E l \in DOMAIN loads' : O!ObjectOf(l)' = program[file].members[k]
    <3> SUFFICES ASSUME NEW k \in DOMAIN program[file].members, k < i + 1
                 PROVE  \E l \in DOMAIN loads' : O!ObjectOf(l)' = program[file].members[k]
      OBVIOUS
    <3>1. k < i \/ k = i
      BY <2>2, <2>3
    <3>2. k < i => \E l \in DOMAIN loads : O!ObjectOf(l) = program[file].members[k]
      BY <2>1, <2>2 DEF IndexInv
    <3> QED
      BY <1>2, <2>4, <3>1, <3>2
  <2>6. ~ O!UsesIndex(program[file])'
    BY <2>1, <2>2 DEF O!UsesIndex
  <2> QED
    BY <2>1, <2>5, <2>6 DEF IndexInv, O!Loops
<1>9. CASE O!CloseArchive \/ O!AllAdded
  BY <1>9 DEF IndexInv, O!CloseArchive, O!AllAdded, O!Loops
<1>10. CASE O!ScanAgain
  <2>1. pc = "index"
    BY <1>10 DEF O!ScanAgain
  <2>2. program[file].kind = "archive" /\ file \in DOMAIN program
    BY <1>3, <2>1 DEF LoadedInv
  <2>3. \A k \in DOMAIN program[file].index : ~ (k < 1)
    BY <1>3, <2>2, ProgramShape DEF LoadedInv
  <2> QED
    BY <1>10, <2>3 DEF IndexInv, O!ScanAgain, O!Loops
<1>11. CASE O!ScanIndex
  <2>1. /\ pc = "index" /\ program' = program /\ file' = file /\ i' = i + 1
    BY <1>11 DEF O!ScanIndex
  <2>2. O!UsesIndex(program[file]) /\ file \in DOMAIN program /\ program[file].kind = "archive" /\ i \in Nat
        /\ bound \in Nat
    BY <1>3, <2>1 DEF LoadedInv
  <2>3. O!UsesIndex(program[file])'
    BY <2>1, <2>2 DEF O!UsesIndex
  <2>4. CASE pc' = "place" /\ bound' = bound + 1
    BY <2>2, <2>3, <2>4 DEF IndexInv, O!Loops
  <2>5. CASE ~ O!Undefined(syms, program[file].index[i].name) /\ UNCHANGED <<pc, syms, bound>>
    <3>1. \A k \in DOMAIN program[file].index : k \in Nat
      BY <1>3, <2>2, ProgramShape DEF LoadedInv
    <3>2. bound = 0 => \A k \in DOMAIN program[file].index : k < i + 1 =>
            ~ O!Undefined(syms, program[file].index[k].name)
      BY <2>1, <2>2, <2>5, <3>1 DEF IndexInv
    <3> QED
      BY <2>1, <2>5, <3>2 DEF IndexInv, O!Loops, O!Undefined, O!find_elf_sym, O!Entry
  <2> QED
    BY <1>11, <2>4, <2>5 DEF O!ScanIndex, O!Load, O!Input, O!linked
<1> QED
  BY <1>4, <1>5, <1>6, <1>7, <1>8, <1>9, <1>10, <1>11 DEF O!Next

\* ObjectLoad!MembersNeeded and ObjectLoad!ArchiveExhausted while nothing failed
NeededInv ==
  KnownInv /\ WantedInv /\ IndexInv /\ O!MembersNeeded /\ O!ArchiveExhausted

\* load l came because it was needed
Needed(l) ==
  \E y \in O!Range(O!ObjectOf(l).syms) :
    /\ O!Defines(O!ObjectOf(l), y.name)
    /\ \E m \in 1 .. l - 1 : O!Refers(O!ObjectOf(m), y.name)
    /\ \A m \in 1 .. l - 1 : ~ O!Defines(O!ObjectOf(m), y.name)

\* a name that is undefined is not defined by an object gone through
LEMMA UndefinedIs ==
  ASSUME TypesInv, KnownInv, WantedInv, pc \notin O!Loops, pc # "failed",
         NEW name, O!Undefined(syms, name)
  PROVE  /\ \E m \in DOMAIN loads : O!Refers(O!ObjectOf(m), name)
         /\ \A m \in DOMAIN loads : ~ O!Defines(O!ObjectOf(m), name)
<1> DEFINE e == O!find_elf_sym(syms, name)
<1>1. /\ e \in DOMAIN syms /\ O!Entry(syms, name) = {e} /\ syms[e].sec = 0
      /\ syms[e].name = name /\ syms[e].bind # "LOCAL"
  BY FindIs DEF TypesInv, O!Undefined
<1>2. \E m \in DOMAIN loads : O!Refers(O!ObjectOf(m), name)
  BY <1>1 DEF WantedInv
<1>3. ~ Known(name)
  BY <1>1 DEF Known, O!Entry
<1>4. ASSUME NEW m \in DOMAIN loads, O!Defines(O!ObjectOf(m), name)
      PROVE  FALSE
  <2>1. PICK q \in DOMAIN O!ObjectOf(m).syms :
           SymbolOf(m, q).name = name /\ SymbolOf(m, q).bind # "LOCAL" /\ SymbolOf(m, q).sec # 0
    BY <1>4 DEF O!Defines, O!Range, SymbolOf
  <2>2. Through(m, q)
    BY DEF Through
  <2> QED
    BY <1>3, <2>1, <2>2 DEF KnownInv
<1> QED
  BY <1>2, <1>4

LEMMA NeededStays ==
  ASSUME TypesInv, O!Next, NEW l \in DOMAIN loads
  PROVE  Needed(l)' <=> Needed(l)
<1>1. \A m \in DOMAIN loads : O!ObjectOf(m)' = O!ObjectOf(m)
  BY NextGrows DEF Grows
<1>2. l \in Nat /\ \A m \in 1 .. l - 1 : m \in DOMAIN loads
  BY DEF TypesInv, LoadedInv
<1>3. \A m \in 1 .. l - 1 : O!ObjectOf(m)' = O!ObjectOf(m)
  BY <1>1, <1>2
<1> QED
  BY <1>1, <1>3 DEF Needed, O!Defines, O!Refers

\* load l came through the index of an archive
Asked(l) == O!UsesIndex(program[loads[l].from])

LEMMA NeededIs == O!MembersNeeded <=> \A l \in DOMAIN loads : Asked(l) => Needed(l)
BY DEF O!MembersNeeded, Needed, Asked

LEMMA NeededNext ==
  ASSUME TypesInv, KnownInv, WantedInv, O!MembersNeeded, O!Next
  PROVE  O!MembersNeeded'
<1>1. O!MembersNeeded' <=>
         \A l \in DOMAIN loads' : Asked(l)' => Needed(l)'
  BY DEF O!MembersNeeded, Needed, Asked
<1>2. program' = program
  BY DEF O!Next, O!LoadFile, O!OpenArchive, O!LoadMember, O!CloseArchive, O!ScanIndex,
         O!ScanAgain, O!AllAdded, O!Place, O!LinkInfo, O!AddSymbol, O!SymbolsAdded, O!Patch, O!Return
<1>3. ASSUME NEW l \in DOMAIN loads, Asked(l)
      PROVE  Needed(l)'
  BY <1>3, NeededStays, NeededIs
<1> DEFINE Came(o) == O!Load(o) /\ pc \notin O!Loops /\ pc # "failed" /\ file \in DOMAIN program
                      /\ (O!UsesIndex(program[file]) => \E name : O!Undefined(syms, name) /\ O!Defines(o, name))
<1>4. CASE loads' = loads
  BY <1>1, <1>2, <1>3, <1>4 DEF Asked, O!UsesIndex
<1>5. CASE \E o : Came(o)
  <2>1. PICK o : Came(o)
    BY <1>5
  <2>2. PICK z : z = Len(loads')
    OBVIOUS
  <2>3. /\ DOMAIN loads' = DOMAIN loads \cup {z} /\ loads'[z] = [obj |-> o, from |-> file]
        /\ \A l \in DOMAIN loads : loads'[l] = loads[l]
        /\ z = Len(loads) + 1 /\ Len(loads) \in Nat
    BY <2>1, <2>2, LoadAppends DEF TypesInv
  <2>4. ASSUME O!UsesIndex(program[file])
        PROVE  Needed(z)'
    <3>1. PICK name : O!Undefined(syms, name) /\ O!Defines(o, name)
      BY <2>1, <2>4
    <3>2. /\ \E m \in DOMAIN loads : O!Refers(O!ObjectOf(m), name)
          /\ \A m \in DOMAIN loads : ~ O!Defines(O!ObjectOf(m), name)
      BY <2>1, <3>1, UndefinedIs
    <3>3. DOMAIN loads = 1 .. z - 1
      BY <2>3 DEF TypesInv, LoadedInv
    <3>4. \A m \in DOMAIN loads : O!ObjectOf(m)' = O!ObjectOf(m)
      BY NextGrows DEF Grows
    <3>5. O!ObjectOf(z)' = o
      BY <2>3 DEF O!ObjectOf
    <3>6. \E m \in 1 .. z - 1 : O!Refers(O!ObjectOf(m)', name)
      BY <3>2, <3>3, <3>4
    <3>7. \A m \in 1 .. z - 1 : ~ O!Defines(O!ObjectOf(m)', name)
      BY <3>2, <3>3, <3>4
    <3>8. PICK y \in O!Range(o.syms) : y.name = name
      BY <3>1 DEF O!Defines
    <3> QED
      BY <3>1, <3>5, <3>6, <3>7, <3>8 DEF Needed, O!Defines, O!Refers
  <2>5. ASSUME NEW l \in DOMAIN loads', Asked(l)'
        PROVE  Needed(l)'
    <3>1. CASE l \in DOMAIN loads
      BY <1>2, <1>3, <2>3, <2>5, <3>1 DEF Asked, O!UsesIndex
    <3>2. CASE l = z
      BY <1>2, <2>3, <2>4, <2>5, <3>2 DEF Asked, O!UsesIndex
    <3> QED
      BY <2>3, <3>1, <3>2
  <2> QED
    BY <1>1, <2>5
<1>6. CASE O!LoadFile
  <2>1. file \in DOMAIN program /\ ~ O!UsesIndex(program[file]) /\ pc = "file"
    BY <1>6, ProgramShape DEF O!LoadFile, O!Input, TypesInv, LoadedInv, O!UsesIndex
  <2> QED
    BY <1>5, <1>6, <2>1 DEF O!LoadFile, O!Loops
<1>7. CASE O!LoadMember
  <2>1. file \in DOMAIN program /\ ~ O!UsesIndex(program[file]) /\ pc = "member"
    BY <1>7 DEF O!LoadMember, TypesInv, LoadedInv
  <2> QED
    BY <1>5, <1>7, <2>1 DEF O!LoadMember, O!Loops
<1>8. CASE O!ScanIndex
  <2>1. file \in DOMAIN program /\ program[file].kind = "archive" /\ i > 0 /\ i \in Nat /\ pc = "index"
    BY <1>8 DEF O!ScanIndex, TypesInv, LoadedInv
  <2>2. i \in DOMAIN program[file].index
    BY <1>8, <2>1, ProgramShape DEF O!ScanIndex, O!Input, TypesInv, LoadedInv
  <2> DEFINE e == program[file].index[i]
  <2>3. e \in O!Range(program[file].index)
    BY <2>2 DEF O!Range
  <2>4. O!IndexTrue(program[file])
    BY <2>1, ProgramShape DEF TypesInv, LoadedInv
  <2>5. O!Defines(program[file].members[e.member], e.name)
    BY <2>3, <2>4 DEF O!IndexTrue, O!Defines
  <2>6. CASE O!Undefined(syms, e.name)
    BY <1>5, <1>8, <2>1, <2>5, <2>6 DEF O!ScanIndex, O!Input, O!Loops
  <2>7. CASE ~ O!Undefined(syms, e.name)
    BY <1>4, <1>8, <2>7 DEF O!ScanIndex, O!Input
  <2> QED
    BY <2>6, <2>7
<1>9. O!LoadFile \/ O!LoadMember \/ O!ScanIndex \/ loads' = loads
  BY DEF O!Next, O!OpenArchive, O!CloseArchive, O!ScanAgain, O!AllAdded, O!Place, O!LinkInfo,
         O!AddSymbol, O!SymbolsAdded, O!Patch, O!Return
<1> QED
  BY <1>4, <1>6, <1>7, <1>8, <1>9

\* what an object that is there defines is not undefined
LEMMA DefinedIs ==
  ASSUME TypesInv, KnownInv, pc \notin O!Loops, pc # "failed", NEW m \in DOMAIN loads,
         NEW name, O!Defines(O!ObjectOf(m), name)
  PROVE  ~ O!Undefined(syms, name)
<1>1. PICK q \in DOMAIN O!ObjectOf(m).syms :
         SymbolOf(m, q).name = name /\ SymbolOf(m, q).bind # "LOCAL" /\ SymbolOf(m, q).sec # 0
  BY DEF O!Defines, O!Range, SymbolOf
<1>2. Through(m, q)
  BY DEF Through
<1>3. Known(name)
  BY <1>1, <1>2 DEF KnownInv
<1> QED
  BY <1>3, FindIs DEF TypesInv, O!Undefined, Known, O!Entry

LEMMA ExhaustedNext ==
  ASSUME TypesInv, KnownInv, IndexInv, O!ArchiveExhausted, O!Next
  PROVE  O!ArchiveExhausted'
<1> SUFFICES ASSUME pc' = "file", file' > 1, program'[file' - 1].kind = "archive",
                    NEW e \in O!Range(program'[file' - 1].index)
             PROVE  ~ O!Undefined(syms', e.name)
  BY DEF O!ArchiveExhausted, O!Undefined, O!find_elf_sym, O!Entry
<1>1. O!Return \/ O!CloseArchive \/ O!ScanAgain
  BY TurnKinds
  DEF O!Next, O!LoadFile, O!OpenArchive, O!LoadMember, O!ScanIndex, O!AllAdded, O!Load, O!Loops
<1>2. program' = program /\ syms' = syms /\ file' = file + 1
  BY <1>1 DEF O!Return, O!CloseArchive, O!ScanAgain, O!linked
<1>3. file \in Nat
  BY DEF TypesInv, LoadedInv
<1>4. program'[file' - 1] = program[file]
  BY <1>2, <1>3
<1>5. ~ O!Return
  BY <1>4 DEF O!Return, O!Input, O!UsesIndex
<1>6. file \in DOMAIN program /\ program[file].kind = "archive" /\ i \in Nat /\ pc \notin O!Loops
      /\ pc # "failed"
  BY <1>1, <1>5 DEF TypesInv, LoadedInv, O!CloseArchive, O!ScanAgain, O!Loops
<1>7. e \in O!Range(program[file].index)
  BY <1>4
<1>8. /\ program[file].members \in Seq(O!Range(program[file].members))
      /\ program[file].index \in Seq(O!Range(program[file].index))
      /\ O!IndexTrue(program[file])
  BY <1>6, ProgramShape DEF TypesInv, LoadedInv
<1>9. CASE O!CloseArchive
  <2>1. pc = "member" /\ i > Len(program[file].members)
    BY <1>9 DEF O!CloseArchive, O!Input
  <2>2. e.member \in DOMAIN program[file].members /\ O!Defines(program[file].members[e.member], e.name)
    BY <1>7, <1>8 DEF O!IndexTrue, O!Defines
  <2>3. e.member < i
    BY <1>6, <1>8, <2>1, <2>2
  <2>4. ~ O!UsesIndex(program[file])
    BY <2>1 DEF TypesInv, LoadedInv
  <2>5. PICK m \in DOMAIN loads : O!ObjectOf(m) = program[file].members[e.member]
    BY <1>6, <2>1, <2>2, <2>3, <2>4 DEF IndexInv
  <2> QED
    BY <1>2, <1>6, <2>2, <2>5, DefinedIs
<1>10. CASE O!ScanAgain
  <2>1. pc = "index" /\ bound = 0 /\ i > Len(program[file].index)
    BY <1>10 DEF O!ScanAgain, O!Input
  <2>2. PICK k \in DOMAIN program[file].index : e = program[file].index[k]
    BY <1>7 DEF O!Range
  <2>3. k < i
    BY <1>6, <1>8, <2>1, <2>2
  <2> QED
    BY <1>2, <2>1, <2>2, <2>3 DEF IndexInv
<1> QED
  BY <1>1, <1>5, <1>9, <1>10

LEMMA NotFailed == O!Next => pc # "failed"
BY DEF O!Next, O!LoadFile, O!OpenArchive, O!LoadMember, O!CloseArchive, O!ScanIndex,
       O!ScanAgain, O!AllAdded, O!Place, O!LinkInfo, O!AddSymbol, O!SymbolsAdded, O!Patch, O!Return

LEMMA NeededInvNext ==
  ASSUME TypesInv, PartsInv, MergeInv, NeededInv, O!Next
  PROVE  NeededInv'
<1>1. KnownInv'
  BY KnownNext, NotFailed DEF NeededInv
<1>2. WantedInv' /\ IndexInv' /\ O!MembersNeeded' /\ O!ArchiveExhausted'
  BY WantedNext, IndexNext, NeededNext, ExhaustedNext DEF NeededInv
<1> QED
  BY <1>1, <1>2 DEF NeededInv

LEMMA LoadFirst ==
  ASSUME O!Init
  PROVE  TypesInv /\ PartsInv /\ MergeInv /\ NeededInv
<1>1. /\ program \in Programs /\ file = 1 /\ pc = "file" /\ i = 0 /\ bound = 0
      /\ secs = <<>> /\ syms = <<>> /\ loads = <<>>
  BY DEF O!Init
<1>2. \A R : <<>> \in Seq(R)
  OBVIOUS
<1>3. DOMAIN secs = {} /\ DOMAIN syms = {} /\ DOMAIN loads = {}
  BY <1>1
<1>4. LoadedInv
  BY <1>1, <1>2 DEF LoadedInv, O!Loops
<1>5. TableInv
  BY <1>1, <1>2, <1>3 DEF TableInv
<1>6. LocalsInv /\ PartsInv /\ MergeInv
  BY <1>1, <1>3 DEF LocalsInv, PartsInv, MergeInv, O!Loops
<1>7. KnownInv /\ WantedInv /\ IndexInv
  BY <1>1, <1>3 DEF KnownInv, WantedInv, IndexInv, O!Loops
<1>8. O!MembersNeeded /\ O!ArchiveExhausted
  BY <1>1, <1>3 DEF O!MembersNeeded, O!ArchiveExhausted
<1> QED
  BY <1>4, <1>5, <1>6, <1>7, <1>8 DEF TypesInv, NeededInv

LEMMA LoadStutters ==
  ASSUME UNCHANGED O!vars
  PROVE  /\ TypesInv => TypesInv'
         /\ PartsInv => PartsInv'
         /\ MergeInv => MergeInv'
         /\ NeededInv => NeededInv'
<1>1. UNCHANGED <<program, file, pc, i, bound, secs, syms, errs, turn, sm_table, old_to_new_syms, once, loads>>
  BY DEF O!vars, O!linked, O!locals
<1>2. O!Current' = O!Current /\ \A l : O!ObjectOf(l)' = O!ObjectOf(l)
  BY <1>1 DEF O!Current, O!ObjectOf
<1>3. TypesInv => TypesInv'
  BY <1>1, <1>2 DEF TypesInv, LoadedInv, TableInv, LocalsInv
<1>4. PartsInv => PartsInv'
  BY <1>1, <1>2 DEF PartsInv, Fits, SectionOf
<1>5. MergeInv => MergeInv'
  BY <1>1, <1>2 DEF MergeInv, Unmerged, MergedAs, Ignored, Skipped, Taken, PartIs
<1>6. KnownInv => KnownInv'
  BY <1>1, <1>2 DEF KnownInv, Known, Through, SymbolOf
<1>7. WantedInv => WantedInv'
  BY <1>1, <1>2 DEF WantedInv
<1>8. IndexInv => IndexInv'
  BY <1>1, <1>2 DEF IndexInv
<1>9. O!MembersNeeded => O!MembersNeeded'
  BY <1>1, <1>2 DEF O!MembersNeeded
<1>10. O!ArchiveExhausted => O!ArchiveExhausted'
  BY <1>1, <1>2 DEF O!ArchiveExhausted
<1> QED
  BY <1>3, <1>4, <1>5, <1>6, <1>7, <1>8, <1>9, <1>10 DEF NeededInv

-----------------------------------------------------------------------------
(* The parts of a section lie one after the other.                         *)

Extent(j, a) ==
  IF secs[j].type = "rela" THEN Len(SectionOf(secs[j].parts[a].load, secs[j].parts[a].sec).rels)
  ELSE secs[j].parts[a].size
Stop(j, a) == secs[j].parts[a].off + Extent(j, a)
Total(j) == IF secs[j].type = "rela" THEN Len(secs[j].rels) ELSE secs[j].size

Tiled(j) ==
  /\ \A a \in DOMAIN secs[j].parts : Stop(j, a) <= Total(j)
  /\ \A a, b \in DOMAIN secs[j].parts : a < b => Stop(j, a) <= secs[j].parts[b].off
  /\ secs[j].type = "rela" =>
       \A k \in DOMAIN secs[j].rels : \E a \in DOMAIN secs[j].parts :
         secs[j].parts[a].off < k /\ k <= Stop(j, a)

\* no section of an object is there twice
Apart(j) ==
  \A a, b \in DOMAIN secs[j].parts :
    secs[j].parts[a].load = secs[j].parts[b].load /\ secs[j].parts[a].sec = secs[j].parts[b].sec => a = b

TiledInv == \A j \in DOMAIN secs : Tiled(j) /\ Apart(j)

LEMMA PartTyped ==
  ASSUME TypesInv, PartsInv, NEW j \in DOMAIN secs, NEW a \in DOMAIN secs[j].parts
  PROVE  /\ a \in Nat \ {0} /\ secs[j].parts[a] \in LinkedPart /\ secs[j] \in LinkedSection
         /\ secs[j].parts[a].off \in Nat /\ secs[j].parts[a].size \in Nat
         /\ secs[j].parts[a].load \in DOMAIN loads
         /\ SectionOf(secs[j].parts[a].load, secs[j].parts[a].sec) \in ObjectSection
         /\ Extent(j, a) \in Nat /\ Stop(j, a) \in Nat /\ Total(j) \in Nat
         /\ secs[j].rels \in Seq([at : Nat, sym : Nat]) /\ secs[j].parts \in Seq(LinkedPart)
<1>1. secs[j] \in LinkedSection
  BY Elements DEF TypesInv, TableInv
<1>2. secs[j].parts \in Seq(LinkedPart) /\ secs[j].rels \in Seq([at : Nat, sym : Nat]) /\ secs[j].size \in Nat
  BY <1>1 DEF LinkedSection
<1>3. secs[j].parts[a] \in LinkedPart /\ a \in Nat \ {0}
  BY <1>2, Elements
<1>4. secs[j].parts[a].load \in DOMAIN loads
      /\ secs[j].parts[a].sec \in DOMAIN O!ObjectOf(secs[j].parts[a].load).secs
  BY DEF PartsInv, Fits
<1>5. SectionOf(secs[j].parts[a].load, secs[j].parts[a].sec) \in ObjectSection
  <2>1. O!ObjectOf(secs[j].parts[a].load).secs \in Seq(ObjectSection)
    BY <1>4, SymbolsShape DEF TypesInv
  <2> QED
    BY <1>4, <2>1, Elements DEF SectionOf
<1>6. SectionOf(secs[j].parts[a].load, secs[j].parts[a].sec).rels \in Seq([at : Nat, sym : Nat])
  BY <1>5 DEF ObjectSection
<1>7. secs[j].parts[a].off \in Nat /\ secs[j].parts[a].size \in Nat
  BY <1>3 DEF LinkedPart
<1>8. Extent(j, a) \in Nat /\ Total(j) \in Nat
  BY <1>2, <1>6, <1>7 DEF Extent, Total
<1>9. Stop(j, a) \in Nat
  BY <1>7, <1>8 DEF Stop
<1> QED
  BY <1>1, <1>2, <1>3, <1>4, <1>5, <1>7, <1>8, <1>9

\* parts keep their extent
LEMMA ExtentStays ==
  ASSUME PartsInv, Grows, NEW j \in DOMAIN secs, NEW a \in DOMAIN secs[j].parts
  PROVE  Extent(j, a)' = Extent(j, a) /\ Stop(j, a)' = Stop(j, a)
<1>1. PICK p : p = secs[j].parts[a]
  OBVIOUS
<1>2. /\ secs'[j].type = secs[j].type /\ secs'[j].parts[a] = p
      /\ O!ObjectOf(p.load)' = O!ObjectOf(p.load)
  BY <1>1 DEF Grows, PartsInv, Fits
<1>3. SectionOf(p.load, p.sec)' = SectionOf(p.load, p.sec)
  BY <1>2 DEF SectionOf
<1>4. Extent(j, a)' = Extent(j, a)
  BY <1>1, <1>2, <1>3 DEF Extent
<1> QED
  BY <1>1, <1>2, <1>4 DEF Stop

LEMMA TiledStays ==
  ASSUME PartsInv, Grows, NEW j \in DOMAIN secs, Tiled(j), Apart(j), secs'[j].parts = secs[j].parts,
         secs'[j].size = secs[j].size, DOMAIN secs'[j].rels = DOMAIN secs[j].rels,
         Len(secs'[j].rels) = Len(secs[j].rels)
  PROVE  Tiled(j)' /\ Apart(j)'
<1>1. \A a \in DOMAIN secs[j].parts : Stop(j, a)' = Stop(j, a)
  BY ExtentStays
<1>2. secs'[j].type = secs[j].type
  BY DEF Grows
<1>3. Total(j)' = Total(j)
  BY <1>2 DEF Total
<1> QED
  BY <1>1, <1>2, <1>3 DEF Tiled, Apart

LEMMA LenOfDomain ==
  \A u, v \in Seq([at : Nat, sym : Nat]) : DOMAIN u = DOMAIN v => Len(u) = Len(v)
OBVIOUS

\* the section that took a part
LEMMA TiledTook ==
  ASSUME TypesInv, PartsInv, TiledInv, O!Next, pc = "place", turn <= Len(O!Current.secs),
         NEW x, NEW s, NEW new, Takes(x, s, new), loads' = loads
  PROVE  Tiled(s)' /\ Apart(s)'
<1>1. Took(x, s) /\ Grows
  BY TakesGives, NextGrows
<1>2. /\ x \in LinkedSection /\ Offset(x) \in Nat /\ x.type = O!sh.type
      /\ O!sh.type # "rela" => Offset(x) >= x.size
      /\ s \in DOMAIN secs \/ new
  BY DEF Takes
<1>3. O!sh \in ObjectSection /\ turn \in Nat \ {0}
  BY CurrentTyped DEF TypesInv, LoadedInv, O!Loops
<1>4. O!sh.size \in Nat /\ O!sh.rels \in Seq([at : Nat, sym : Nat])
  BY <1>3 DEF ObjectSection
<1>5. x.size \in Nat /\ x.rels \in Seq([at : Nat, sym : Nat])
  BY <1>2 DEF LinkedSection
<1>19. PICK m, g : m = Len(x.rels) /\ g = Len(O!sh.rels)
  OBVIOUS
<1>20. m \in Nat /\ g \in Nat /\ DOMAIN x.rels = 1 .. m
  BY <1>4, <1>5, <1>19, Counts
<1>21. DOMAIN secs'[s].rels = 1 .. m + g /\ Len(secs'[s].rels) = m + g
  <2>1. secs'[s].rels = x.rels \o O!sh.rels
    BY <1>1 DEF Took
  <2>2. Len(x.rels \o O!sh.rels) = m + g /\ x.rels \o O!sh.rels \in Seq([at : Nat, sym : Nat])
    BY <1>4, <1>5, <1>19, Concats
  <2>3. DOMAIN (x.rels \o O!sh.rels) = 1 .. m + g
    BY <2>2, Counts
  <2> QED
    BY <2>1, <2>2, <2>3
<1> DEFINE c == NewNumber(x)
           d == IF O!sh.type = "rela" THEN Len(O!sh.rels) ELSE O!sh.size
           w == IF O!sh.type = "rela" THEN Len(x.rels) ELSE x.size
<1>6. /\ secs'[s].type = O!sh.type /\ secs'[s].rels = x.rels \o O!sh.rels
      /\ secs'[s].size = IF O!sh.type = "rela" THEN 0 ELSE Offset(x) + O!sh.size
      /\ DOMAIN secs'[s].parts = DOMAIN x.parts \cup {c} /\ c \notin DOMAIN x.parts
      /\ secs'[s].parts[c] = NewPart(x)
      /\ \A a \in DOMAIN x.parts : secs'[s].parts[a] = x.parts[a] /\ a < c /\ a \in Nat
      /\ s \in DOMAIN secs => x = secs[s]
      /\ s \notin DOMAIN secs => DOMAIN x.parts = {} /\ x.rels = <<>>
      /\ c \in Nat
  <2>1. x.parts \in Seq(LinkedPart)
    BY <1>1 DEF Took
  <2>2. c \in Nat
    BY <2>1 DEF NewNumber
  <2> QED
    BY <1>1, <2>2 DEF Took
<1>7. Total(s)' = Offset(x) + d /\ w \in Nat /\ d \in Nat /\ w <= Offset(x)
  <2>2. O!sh.type = "rela" => Offset(x) = m
    BY <1>19 DEF Offset
  <2>4. CASE O!sh.type = "rela"
    <3>1. Total(s)' = m + g
      BY <1>6, <1>21, <2>4 DEF Total
    <3>2. d = g /\ w = m
      BY <1>19, <2>4
    <3> QED
      BY <1>20, <2>2, <2>4, <3>1, <3>2
  <2>5. CASE O!sh.type # "rela"
    BY <1>2, <1>4, <1>5, <1>6, <2>5 DEF Total
  <2> QED
    BY <2>4, <2>5
<1>8. secs'[s].parts[c].off = Offset(x) /\ secs'[s].parts[c].load = Len(loads) /\ secs'[s].parts[c].sec = turn
      /\ secs'[s].parts[c].size = O!sh.size
  BY <1>6 DEF NewPart
<1>9. Stop(s, c)' = Offset(x) + d
  <2>1. PICK l : l = Len(loads)
    OBVIOUS
  <2>2. PICK h : h = turn
    OBVIOUS
  <2>3. SectionOf(l, h)' = O!sh
    <3>1. Len(loads) \in DOMAIN loads /\ O!Current = O!ObjectOf(Len(loads))
      BY CurrentIs DEF TypesInv, O!Loops
    <3>2. O!ObjectOf(l)' = O!ObjectOf(l)
      BY <1>1, <2>1, <3>1 DEF Grows
    <3> QED
      BY <2>1, <2>2, <3>1, <3>2 DEF SectionOf, O!sh
  <2>4. secs'[s].parts[c].load = l /\ secs'[s].parts[c].sec = h
    BY <1>8, <2>1, <2>2
  <2> HIDE DEF c
  <2>5. PICK k : k = c
    OBVIOUS
  <2>6. Extent(s, k)' = d
    BY <1>6, <1>8, <2>3, <2>4, <2>5 DEF Extent
  <2> QED
    BY <1>8, <2>5, <2>6 DEF Stop
<1> HIDE DEF c, d, w
<1>10. PICK k : k = c
  OBVIOUS
<1>11. ASSUME NEW a \in DOMAIN x.parts
       PROVE  /\ s \in DOMAIN secs /\ a \in DOMAIN secs[s].parts /\ Stop(s, a)' = Stop(s, a) /\ Stop(s, a) <= w
              /\ Stop(s, a) \in Nat /\ secs'[s].parts[a] = secs[s].parts[a] /\ a < k /\ a \in Nat
  <2>1. s \in DOMAIN secs /\ a \in DOMAIN secs[s].parts /\ x = secs[s]
    BY <1>6
  <2>2. Stop(s, a) <= Total(s)
    BY <2>1 DEF TiledInv, Tiled
  <2>3. Total(s) = w
    BY <1>2, <2>1 DEF Total, w
  <2>4. Stop(s, a)' = Stop(s, a) /\ Stop(s, a) \in Nat
    BY <1>1, <2>1, ExtentStays, PartTyped
  <2> QED
    BY <1>6, <1>10, <2>1, <2>2, <2>3, <2>4
<1>12. \A a \in DOMAIN secs'[s].parts : Stop(s, a)' <= Total(s)'
  <2>1. \A a \in DOMAIN x.parts : Stop(s, a)' <= Total(s)'
    <3> SUFFICES ASSUME NEW a \in DOMAIN x.parts PROVE Stop(s, a)' <= Total(s)'
      OBVIOUS
    <3>1. PICK z \in Nat : z = Stop(s, a) /\ z <= w /\ Stop(s, a)' = z
      BY <1>11
    <3> QED
      BY <1>2, <1>7, <3>1
  <2>2. Stop(s, k)' <= Total(s)'
    BY <1>2, <1>7, <1>9, <1>10
  <2> QED
    BY <1>6, <1>10, <2>1, <2>2
<1>13. \A a, b \in DOMAIN secs'[s].parts : a < b => Stop(s, a)' <= secs'[s].parts[b].off
  <2> SUFFICES ASSUME NEW a \in DOMAIN secs'[s].parts, NEW b \in DOMAIN secs'[s].parts, a < b
               PROVE  Stop(s, a)' <= secs'[s].parts[b].off
    OBVIOUS
  <2>1. a \in DOMAIN x.parts
    <3>1. a # k
      <4>1. b \in DOMAIN x.parts => b < k /\ b \in Nat /\ k \in Nat
        BY <1>6, <1>10, <1>11
      <4>2. b \in DOMAIN x.parts \/ b = k
        BY <1>6, <1>10
      <4> QED
        BY <1>6, <1>10, <4>1, <4>2
    <3> QED
      BY <1>6, <1>10, <3>1
  <2>2. CASE b = k
    <3>1. PICK z \in Nat : z = Stop(s, a) /\ z <= w /\ Stop(s, a)' = z
      BY <1>11, <2>1
    <3>2. z <= Offset(x)
      BY <1>2, <1>7, <3>1
    <3> QED
      BY <1>8, <1>10, <2>2, <3>1, <3>2
  <2>3. CASE b \in DOMAIN x.parts
    <3>1. Stop(s, a) <= secs[s].parts[b].off
      BY <1>11, <2>1, <2>3 DEF TiledInv, Tiled
    <3> QED
      BY <1>11, <2>1, <2>3, <3>1
  <2> QED
    BY <1>6, <1>10, <2>2, <2>3
<1>14. ASSUME secs'[s].type = "rela", NEW q \in DOMAIN secs'[s].rels
       PROVE  \E a \in DOMAIN secs'[s].parts : secs'[s].parts[a].off < q /\ q <= Stop(s, a)'
  <2>2. q \in 1 .. m + g
    BY <1>14, <1>21
  <2>3. CASE q <= m
    <3>1. q \in DOMAIN x.rels /\ s \in DOMAIN secs /\ x = secs[s]
      BY <1>6, <1>20, <2>2, <2>3
    <3>2. secs[s].type = "rela"
      BY <1>2, <1>6, <1>14, <3>1
    <3>3. PICK a \in DOMAIN secs[s].parts : secs[s].parts[a].off < q /\ q <= Stop(s, a)
      BY <3>1, <3>2 DEF TiledInv, Tiled
    <3>4. a \in DOMAIN x.parts
      BY <3>1, <3>3
    <3> QED
      BY <1>6, <1>11, <3>3, <3>4
  <2>4. CASE q > m
    <3>1. Offset(x) = m /\ d = g
      BY <1>6, <1>14, <1>19 DEF Offset, d
    <3>2. Offset(x) < q /\ q <= Offset(x) + d
      BY <1>20, <2>2, <2>4, <3>1
    <3> QED
      BY <1>6, <1>8, <1>9, <1>10, <3>2
  <2> QED
    BY <1>20, <2>2, <2>3, <2>4
<1>15. Tiled(s)'
  BY <1>12, <1>13, <1>14 DEF Tiled
<1>16. \A a \in DOMAIN x.parts : ~ (secs'[s].parts[a].load = Len(loads) /\ secs'[s].parts[a].sec = turn)
  <2> SUFFICES ASSUME NEW a \in DOMAIN x.parts, secs'[s].parts[a].load = Len(loads)
               PROVE  secs'[s].parts[a].sec # turn
    OBVIOUS
  <2>1. s \in DOMAIN secs /\ a \in DOMAIN secs[s].parts /\ secs'[s].parts[a] = secs[s].parts[a]
    BY <1>11
  <2>2. Fits(s, a)
    BY <2>1 DEF PartsInv
  <2>3. secs[s].parts[a].sec < turn
    BY <2>1, <2>2 DEF Fits
  <2> QED
    BY <1>3, <2>1, <2>3
<1>17. \A a, b \in DOMAIN x.parts :
         /\ secs'[s].parts[a].load = secs'[s].parts[b].load
         /\ secs'[s].parts[a].sec = secs'[s].parts[b].sec
         => a = b
  BY <1>11 DEF TiledInv, Apart
<1>18. Apart(s)'
  BY <1>6, <1>8, <1>16, <1>17 DEF Apart
<1> QED
  BY <1>15, <1>18

\* what Patch leaves of a section
LEMMA PatchKeeps ==
  ASSUME TypesInv, O!Patch, NEW j \in DOMAIN secs
  PROVE  /\ secs'[j].name = secs[j].name /\ secs'[j].type = secs[j].type /\ secs'[j].size = secs[j].size
         /\ secs'[j].info = secs[j].info /\ secs'[j].parts = secs[j].parts
         /\ DOMAIN secs'[j].rels = DOMAIN secs[j].rels /\ Len(secs'[j].rels) = Len(secs[j].rels)
<1>1. CASE secs' = secs
  BY <1>1
<1>2. CASE Patches(sm_table[turn].s)
  <2>1. /\ secs' \in Seq(LinkedSection) /\ DOMAIN secs' = DOMAIN secs
        /\ secs'[j].name = secs[j].name /\ secs'[j].type = secs[j].type /\ secs'[j].size = secs[j].size
        /\ secs'[j].info = secs[j].info /\ secs'[j].parts = secs[j].parts
        /\ DOMAIN secs'[j].rels = DOMAIN secs[j].rels
    BY <1>2 DEF Patches
  <2>2. secs[j] \in LinkedSection /\ secs'[j] \in LinkedSection
    BY <2>1, Elements DEF TypesInv, TableInv
  <2>3. secs[j].rels \in Seq([at : Nat, sym : Nat]) /\ secs'[j].rels \in Seq([at : Nat, sym : Nat])
    BY <2>2 DEF LinkedSection
  <2>4. Len(secs'[j].rels) = Len(secs[j].rels)
    BY <2>1, <2>3, LenOfDomain
  <2> QED
    BY <2>1, <2>4
<1> QED
  BY <1>1, <1>2, PatchIs

LEMMA TiledNext ==
  ASSUME TypesInv, PartsInv, TiledInv, O!Next
  PROVE  TiledInv'
<1>1. Grows
  BY NextGrows
<1>2. ASSUME NEW j \in DOMAIN secs, secs'[j].parts = secs[j].parts,
             secs'[j].size = secs[j].size, secs'[j].rels = secs[j].rels
      PROVE  Tiled(j)' /\ Apart(j)'
  BY <1>1, <1>2, TiledStays DEF TiledInv
<1>3. CASE secs' = secs
  BY <1>2, <1>3 DEF TiledInv
<1>4. CASE O!Place /\ \E x, s, new : Takes(x, s, new)
  <2>1. PICK x, s, new : Takes(x, s, new)
    BY <1>4
  <2>2. loads' = loads /\ pc = "place" /\ turn <= Len(O!Current.secs)
    BY <1>4 DEF O!Place
  <2>3. Tiled(s)' /\ Apart(s)'
    BY <2>1, <2>2, TiledTook
  <2>4. \A j \in DOMAIN secs' : j # s => j \in DOMAIN secs /\ secs'[j] = secs[j]
    BY <2>1 DEF Takes
  <2> QED
    BY <1>2, <2>3, <2>4 DEF TiledInv
<1>5. CASE O!LinkInfo /\ SetsInfo
  BY <1>2, <1>5 DEF TiledInv, SetsInfo
<1>6. CASE O!Patch
  <2>1. DOMAIN secs' = DOMAIN secs
    BY <1>6, PatchIs DEF Patches
  <2>2. ASSUME NEW j \in DOMAIN secs PROVE Tiled(j)' /\ Apart(j)'
    <3>1. /\ secs'[j].size = secs[j].size /\ secs'[j].parts = secs[j].parts
          /\ DOMAIN secs'[j].rels = DOMAIN secs[j].rels /\ Len(secs'[j].rels) = Len(secs[j].rels)
      BY <1>6, PatchKeeps
    <3> QED
      BY <1>1, <3>1, TiledStays DEF TiledInv
  <2> QED
    BY <2>1, <2>2 DEF TiledInv
<1>7. ~ (O!Place \/ O!LinkInfo \/ O!Patch) => secs' = secs
  BY StepIs DEF Begins, Idles, O!Load, O!Return, O!SymbolsAdded, O!AddSymbol, O!linked
<1>8. O!Place => secs' = secs \/ \E x, s, new : Takes(x, s, new)
  BY PlaceIs DEF O!Ignore, O!SkipOnce
<1> QED
  BY <1>3, <1>4, <1>5, <1>6, <1>7, <1>8, SetsInfoIs

-----------------------------------------------------------------------------
(* What entries of the symbol table lie on, and what symbols became.       *)

\* entry e lies on symbol q of part a of its section
LiesOn(e, a, q) ==
  LET p == secs[e.sec].parts[a]
      y == O!ObjectOf(p.load).syms[q] IN
  /\ a \in DOMAIN secs[e.sec].parts /\ q \in DOMAIN O!ObjectOf(p.load).syms
  /\ y.name = e.name /\ y.sec = p.sec /\ e.off = p.off + y.off

\* ObjectLoad!Lies with numbers
LiesIn(e, l) ==
  \E a, q : LiesOn(e, a, q) /\ (l # 0 => secs[e.sec].parts[a].load = l)

LEMMA LiesInIs == \A e, l : O!Lies(e, l) <=> LiesIn(e, l)
<1> SUFFICES ASSUME NEW e, NEW l PROVE O!Lies(e, l) <=> LiesIn(e, l)
  OBVIOUS
<1>1. ASSUME LiesIn(e, l) PROVE O!Lies(e, l)
  <2>1. PICK a, q : LiesOn(e, a, q) /\ (l # 0 => secs[e.sec].parts[a].load = l)
    BY <1>1 DEF LiesIn
  <2> QED
    BY <2>1 DEF LiesOn, O!Lies, O!Range
<1>2. ASSUME O!Lies(e, l) PROVE LiesIn(e, l)
  BY <1>2 DEF LiesIn, LiesOn, O!Lies, O!Range
<1> QED
  BY <1>1, <1>2

LEMMA LiesStays ==
  ASSUME PartsInv, Grows, NEW e, NEW l, e.sec \in DOMAIN secs, LiesIn(e, l)
  PROVE  LiesIn(e, l)'
<1>1. PICK a, q : LiesOn(e, a, q) /\ (l # 0 => secs[e.sec].parts[a].load = l)
  BY DEF LiesIn
<1>2. PICK p : p = secs[e.sec].parts[a]
  OBVIOUS
<1>3. a \in DOMAIN secs[e.sec].parts /\ p.load \in DOMAIN loads
  BY <1>1, <1>2 DEF LiesOn, PartsInv, Fits
<1>4. /\ a \in DOMAIN secs'[e.sec].parts /\ secs'[e.sec].parts[a] = p
      /\ O!ObjectOf(p.load)' = O!ObjectOf(p.load)
  BY <1>2, <1>3 DEF Grows
<1>5. LiesOn(e, a, q)'
  BY <1>1, <1>2, <1>4 DEF LiesOn
<1> QED
  BY <1>1, <1>2, <1>4, <1>5 DEF LiesIn

LieOf(e) == syms[e].sec > 0 => syms[e].sec \in DOMAIN secs /\ LiesIn(syms[e], 0)
LieInv == \A e \in DOMAIN syms : LieOf(e)

\* entry number x is what symbol q of load l means
Means(x, l, q) ==
  /\ x \in DOMAIN syms /\ syms[x].name = SymbolOf(l, q).name
  /\ SymbolOf(l, q).bind = "LOCAL" <=> syms[x].bind = "LOCAL"
  /\ SymbolOf(l, q).bind = "LOCAL" /\ syms[x].sec > 0 =>
       syms[x].sec \in DOMAIN secs /\ LiesIn(syms[x], l)

LEMMA MeansIs ==
  ASSUME LieInv, NEW x, NEW l, NEW q, Means(x, l, q)
  PROVE  O!Denotes(x, l, q)
BY LiesInIs DEF LieInv, LieOf, Means, O!Denotes, SymbolOf

\* the entry of the symbol that is looked at lies on it
LEMMA AddsLies ==
  ASSUME TypesInv, PartsInv, MergeInv, O!AddSymbol, NEW y, NEW e, Adds(y, e), y.sec > 0
  PROVE  y.sec \in DOMAIN secs /\ LiesIn(y, 0) /\ LiesIn(y, Len(loads))
<1>1. pc = "symbols" /\ pc \in O!Loops /\ turn <= Len(O!Current.syms)
  BY DEF O!AddSymbol, O!Loops
<1>2. /\ O!sym \in LinkedSymbol /\ (O!sym.sec > 0 => O!sym.sec \in DOMAIN O!Current.secs)
      /\ turn \in DOMAIN O!Current.syms
  BY <1>1, SymIs DEF TypesInv
<1>3. O!sym.sec > 0
  BY <1>2 DEF Adds, LinkedSymbol
<1>4. PICK h : h = O!sym.sec
  OBVIOUS
<1>5. /\ h \in DOMAIN sm_table /\ ~ sm_table[h].link_once /\ sm_table[h].s # 0
      /\ y.sec = sm_table[h].s /\ y.off = O!sym.off + sm_table[h].offset /\ y.name = O!sym.name
  BY <1>3, <1>4 DEF Adds
<1>6. Taken(h)
  BY <1>1, <1>5 DEF MergeInv, MergedAs, Ignored, Skipped
<1>7. PICK a \in DOMAIN secs[y.sec].parts :
         PartIs(y.sec, a, Len(loads), h) /\ secs[y.sec].parts[a].off = sm_table[h].offset
  BY <1>5, <1>6 DEF Taken
<1>8. O!Current = O!ObjectOf(Len(loads)) /\ O!sym = O!Current.syms[turn]
  BY <1>1, CurrentIs DEF TypesInv, O!sym
<1>9. sm_table[h].offset \in Nat /\ O!sym.off \in Nat
  BY <1>1, <1>2, <1>5 DEF TypesInv, LocalsInv, Merged, LinkedSymbol
<1>10. LiesOn(y, a, turn)
  BY <1>2, <1>4, <1>5, <1>7, <1>8, <1>9 DEF LiesOn, PartIs
<1>11. secs[y.sec].parts[a].load = Len(loads)
  BY <1>7 DEF PartIs
<1> QED
  BY <1>5, <1>6, <1>10, <1>11 DEF LiesIn, Taken

LEMMA LieNext ==
  ASSUME TypesInv, PartsInv, MergeInv, LieInv, O!Next
  PROVE  LieInv'
<1>1. Grows
  BY NextGrows
<1>2. ASSUME NEW e, e.sec > 0, e.sec \in DOMAIN secs, LiesIn(e, 0)
      PROVE  e.sec \in DOMAIN secs' /\ LiesIn(e, 0)'
  BY <1>1, <1>2, LiesStays DEF Grows
<1>3. CASE syms' = syms
  BY <1>2, <1>3 DEF LieInv, LieOf
<1>4. CASE O!AddSymbol /\ \E y, e : Adds(y, e)
  <2>1. PICK y, e : Adds(y, e)
    BY <1>4
  <2>2. Sets(y, e)
    BY <2>1 DEF Adds
  <2>3. ASSUME NEW g \in DOMAIN syms'
        PROVE  LieOf(g)'
    <3>1. PICK z : z = syms'[g]
      OBVIOUS
    <3>2. z.sec > 0 /\ z.sec \in DOMAIN secs /\ LiesIn(z, 0) => LieOf(g)'
      BY <1>2, <3>1 DEF LieOf
    <3>3. CASE g \in DOMAIN syms /\ z = syms[g]
      BY <3>1, <3>2, <3>3 DEF LieInv, LieOf
    <3>4. CASE z = y
      <4>1. y.sec > 0 => y.sec \in DOMAIN secs /\ LiesIn(y, 0)
        BY <1>4, <2>1, AddsLies
      <4> QED
        BY <3>1, <3>2, <3>4, <4>1 DEF LieOf
    <3> QED
      BY <2>2, <3>1, <3>3, <3>4 DEF Sets
  <2> QED
    BY <2>3 DEF LieInv
<1>5. O!AddSymbol => syms' = syms \/ \E y, e : Adds(y, e)
  BY AddsIs DEF O!AddSymbol, O!UseDefined, O!NotAdded
<1>6. ~ O!AddSymbol => syms' = syms
  BY DEF O!Next, O!LoadFile, O!OpenArchive, O!LoadMember, O!CloseArchive, O!ScanIndex, O!ScanAgain,
         O!AllAdded, O!Place, O!LinkInfo, O!SymbolsAdded, O!Patch, O!Return, O!Load, O!linked
<1> QED
  BY <1>3, <1>4, <1>5, <1>6

LEMMA MeansStays ==
  ASSUME TypesInv, PartsInv, O!Next, NEW x, NEW l \in DOMAIN loads, NEW q, Means(x, l, q)
  PROVE  Means(x, l, q)'
<1>1. Grows
  BY NextGrows
<1>2. SymbolOf(l, q)' = SymbolOf(l, q)
  BY <1>1 DEF SymbolOf, Grows
<1>3. PICK z : z = syms[x]
  OBVIOUS
<1>4. SymbolOf(l, q).bind = "LOCAL" /\ z.sec > 0 => z.sec \in DOMAIN secs' /\ LiesIn(z, l)'
  BY <1>1, <1>3, LiesStays DEF Means, Grows
<1>5. x \in DOMAIN syms' /\ syms'[x] = z => Means(x, l, q)'
  BY <1>2, <1>3, <1>4 DEF Means
<1>6. CASE O!AddSymbol /\ \E y, e : Adds(y, e)
  <2>1. PICK y, e : Adds(y, e)
    BY <1>6
  <2>2. Sets(y, e)
    BY <2>1 DEF Adds
  <2>3. CASE x # e
    BY <1>3, <1>5, <2>2, <2>3 DEF Sets, Means
  <2>4. CASE x = e
    <3>1. x \in DOMAIN syms /\ x \in DOMAIN syms' /\ y.bind # "LOCAL" /\ syms'[x].bind # "LOCAL"
          /\ syms[x].name = y.name /\ syms'[x].name = y.name /\ syms[x].bind # "LOCAL"
      BY <2>2, <2>4 DEF Sets, Means
    <3> QED
      BY <1>2, <3>1 DEF Means
  <2> QED
    BY <2>3, <2>4
<1>7. O!AddSymbol => syms' = syms \/ \E y, e : Adds(y, e)
  BY AddsIs DEF O!AddSymbol, O!UseDefined, O!NotAdded
<1>8. ~ O!AddSymbol => syms' = syms
  BY DEF O!Next, O!LoadFile, O!OpenArchive, O!LoadMember, O!CloseArchive, O!ScanIndex, O!ScanAgain,
         O!AllAdded, O!Place, O!LinkInfo, O!SymbolsAdded, O!Patch, O!Return, O!Load, O!linked
<1> QED
  BY <1>3, <1>5, <1>6, <1>7, <1>8 DEF Means

\* symbol q of the object must have an entry
Placeable(q) ==
  LET y == O!Current.syms[q] IN
  y.sec <= 0 \/ sm_table[y.sec].s # 0 \/ (sm_table[y.sec].link_once /\ y.bind # "LOCAL")

\* the symbols of the object so far
MapOf(q) == old_to_new_syms[q] # 0 => Means(old_to_new_syms[q], Len(loads), q)
Filled(q) == (pc = "patch" \/ q < turn) /\ Placeable(q) => old_to_new_syms[q] # 0

MapInv ==
  /\ pc \in O!Loops => \A q \in DOMAIN old_to_new_syms : MapOf(q)
  /\ pc = "place" => once = FALSE
  /\ pc \in {"symbols", "patch"} /\ once => \E h \in DOMAIN sm_table : sm_table[h].link_once
  /\ pc \in {"symbols", "patch"} => \A q \in DOMAIN old_to_new_syms : Filled(q)

\* the entry that the symbol looked at gets
LEMMA EntryMeans ==
  ASSUME TypesInv, PartsInv, MergeInv, KnownInv, O!Next, O!AddSymbol, O!UseDefined, O!sym.bind # "LOCAL",
         NEW e, e = O!find_elf_sym(syms, O!sym.name), NEW l, l = Len(loads), NEW h, h = turn
  PROVE  e \in Nat \ {0} /\ Means(e, l, h)'
<1>1. pc = "symbols" /\ pc \in O!Loops /\ turn <= Len(O!Current.syms)
  BY DEF O!AddSymbol, O!Loops
<1>2. /\ O!sym \in LinkedSymbol /\ (O!sym.sec > 0 => O!sym.sec \in DOMAIN O!Current.secs)
  BY <1>1, SymIs DEF TypesInv
<1>3. O!sym.sec > 0 /\ sm_table[O!sym.sec].link_once
  BY DEF O!UseDefined
<1>4. Skipped(O!sym.sec)
  BY <1>1, <1>2, <1>3 DEF MergeInv, MergedAs, Ignored, Taken, TypesInv, LocalsInv
<1>5. Known(O!sym.name)
  BY <1>1, <1>2, <1>3, <1>4, SkippedKnown
<1>6. e \in DOMAIN syms /\ e # 0 /\ syms[e].name = O!sym.name /\ syms[e].bind # "LOCAL"
  BY <1>5, FindIs DEF TypesInv, Known, O!Entry
<1>7. O!sym = SymbolOf(l, h) /\ l \in DOMAIN loads
  BY <1>1, CurrentIs DEF TypesInv, O!sym, SymbolOf
<1>8. Means(e, l, h)
  BY <1>6, <1>7 DEF Means
<1>9. e \in Nat \ {0}
  BY <1>6 DEF TypesInv, TableInv
<1> QED
  BY <1>7, <1>8, <1>9, MeansStays

LEMMA AddsMeans ==
  ASSUME TypesInv, PartsInv, MergeInv, O!Next, O!AddSymbol, NEW y, NEW e, Adds(y, e),
         NEW l, l = Len(loads), NEW h, h = turn
  PROVE  e \in Nat \ {0} /\ Means(e, l, h)'
<1>1. pc = "symbols" /\ pc \in O!Loops /\ turn <= Len(O!Current.syms)
  BY DEF O!AddSymbol, O!Loops
<1>2. Grows /\ Sets(y, e)
  BY NextGrows DEF Adds
<1>3. O!sym = SymbolOf(l, h) /\ l \in DOMAIN loads
  BY <1>1, CurrentIs DEF TypesInv, O!sym, SymbolOf
<1>4. SymbolOf(l, h)' = SymbolOf(l, h)
  BY <1>2, <1>3 DEF Grows, SymbolOf
<1>5. PICK z : z = syms'[e]
  OBVIOUS
<1>6. y.name = SymbolOf(l, h).name /\ y.bind = SymbolOf(l, h).bind
  BY <1>3 DEF Adds
<1>7. /\ e \in DOMAIN syms' /\ e \in Nat \ {0} /\ z.name = y.name /\ (z.bind = "LOCAL" <=> y.bind = "LOCAL")
      /\ y.bind = "LOCAL" => z = y
  BY <1>2, <1>5 DEF Sets
<1>8. y.bind = "LOCAL" /\ z.sec > 0 => z.sec \in DOMAIN secs' /\ LiesIn(z, l)'
  <2> SUFFICES ASSUME y.bind = "LOCAL", z.sec > 0 PROVE z.sec \in DOMAIN secs' /\ LiesIn(z, l)'
    OBVIOUS
  <2>1. y.sec \in DOMAIN secs /\ LiesIn(y, l)
    BY <1>7, AddsLies
  <2> QED
    BY <1>2, <1>7, <2>1, LiesStays DEF Grows
<1> QED
  BY <1>4, <1>5, <1>6, <1>7, <1>8 DEF Means

LEMMA MapNext ==
  ASSUME TypesInv, PartsInv, MergeInv, KnownInv, MapInv, O!Next
  PROVE  MapInv'
<1>1. CASE \E o : Begins(o)
  <2>1. PICK o : Begins(o)
    BY <1>1
  <2>2. old_to_new_syms' = [q \in DOMAIN o.syms |-> 0] /\ pc' = "place" /\ once' = FALSE
    BY <2>1 DEF Begins, O!Load
  <2> QED
    BY <2>2 DEF MapInv, MapOf
<1>2. CASE pc' \notin O!Loops
  BY <1>2 DEF MapInv, O!Loops
<1>3. CASE pc \in O!Loops /\ loads' = loads /\ pc' \in O!Loops
  <2>1. PICK l : l = Len(loads)
    OBVIOUS
  <2>2. l = Len(loads') /\ l \in DOMAIN loads /\ O!Current' = O!Current /\ O!Current = O!ObjectOf(l)
    BY <1>3, <2>1, CurrentIs DEF O!Current, TypesInv
  <2>3. old_to_new_syms \in [DOMAIN O!Current.syms -> Nat] /\ sm_table \in [DOMAIN O!Current.secs -> Merged]
        /\ turn \in Nat
    BY <1>3 DEF TypesInv, LocalsInv, LoadedInv
  <2>4. \A q \in DOMAIN old_to_new_syms : q \in Nat \ {0} /\ q <= Len(O!Current.syms)
    BY <2>2, <2>3, SymbolsShape DEF TypesInv
  \* an entry that is there stays right
  <2>5. ASSUME NEW q \in DOMAIN old_to_new_syms, old_to_new_syms'[q] = old_to_new_syms[q]
        PROVE  MapOf(q)'
    <3>1. PICK x : x = old_to_new_syms[q]
      OBVIOUS
    <3>2. x # 0 => Means(x, l, q)
      BY <1>3, <2>1, <3>1 DEF MapInv, MapOf
    <3>3. x # 0 => Means(x, l, q)'
      BY <2>2, <3>2, MeansStays
    <3> QED
      BY <2>2, <2>5, <3>1, <3>3 DEF MapOf
  <2>6. CASE UNCHANGED <<old_to_new_syms, once>> /\ pc = "place" /\ pc' = "place"
    BY <1>3, <2>5, <2>6 DEF MapInv
  <2>7. CASE UNCHANGED <<old_to_new_syms, once, sm_table>> /\ O!LinkInfo
    <3>1. pc = "place" /\ pc' = "symbols" /\ turn' = 1
      BY <1>3, <2>7 DEF O!LinkInfo, O!Loops
    <3>2. \A q \in DOMAIN old_to_new_syms : Filled(q)'
      BY <2>4, <2>7, <3>1 DEF Filled
    <3> QED
      BY <2>5, <2>7, <3>1, <3>2 DEF MapInv
  <2>8. CASE UNCHANGED <<old_to_new_syms, once, sm_table>> /\ (O!SymbolsAdded \/ O!Patch)
    <3>1. pc \in {"symbols", "patch"} /\ pc' = "patch"
          /\ (pc = "symbols" => turn > Len(O!Current.syms))
      BY <1>3, <2>8 DEF O!SymbolsAdded, O!Patch, O!Loops
    <3>2. ASSUME NEW q \in DOMAIN old_to_new_syms, Placeable(q)
          PROVE  old_to_new_syms[q] # 0
      <4>1. pc = "symbols" => q < turn
        BY <2>2, <2>3, <2>4, <3>1, SymbolsShape DEF TypesInv
      <4> QED
        BY <3>1, <3>2, <4>1 DEF MapInv, Filled
    <3>3. \A q \in DOMAIN old_to_new_syms : Filled(q)'
      BY <2>2, <2>8, <3>2 DEF Filled, Placeable
    <3> QED
      BY <2>5, <2>8, <3>1, <3>3 DEF MapInv
  <2>9. CASE O!AddSymbol
    <3>1. pc = "symbols" /\ pc' = "symbols" /\ turn' = turn + 1 /\ sm_table' = sm_table
          /\ turn <= Len(O!Current.syms)
      BY <2>9 DEF O!AddSymbol
    <3>2. PICK h : h = turn
      OBVIOUS
    <3>3. O!sym \in LinkedSymbol /\ (O!sym.sec > 0 => O!sym.sec \in DOMAIN O!Current.secs)
          /\ h \in DOMAIN old_to_new_syms /\ O!sym = O!Current.syms[h]
      BY <1>3, <2>3, <3>1, <3>2, SymIs DEF TypesInv, O!sym
    <3>4. ASSUME NEW q \in DOMAIN old_to_new_syms, q # h, old_to_new_syms'[q] = old_to_new_syms[q]
          PROVE  Filled(q)'
      <4>1. q < turn + 1 => q < turn
        BY <2>3, <2>4, <3>2, <3>4
      <4>2. Filled(q)
        BY <3>1 DEF MapInv
      <4> QED
        BY <2>2, <3>1, <3>4, <4>1, <4>2 DEF Filled, Placeable
    \* it is enough to look at this symbol
    <3>5. ASSUME DOMAIN old_to_new_syms' = DOMAIN old_to_new_syms,
                 \A q \in DOMAIN old_to_new_syms : q # h => old_to_new_syms'[q] = old_to_new_syms[q],
                 MapOf(h)', Placeable(h) => old_to_new_syms'[h] # 0,
                 once' => once \/ \E g \in DOMAIN sm_table : sm_table[g].link_once
          PROVE  MapInv'
      <4>1. \A q \in DOMAIN old_to_new_syms : MapOf(q)'
        BY <2>5, <3>5
      <4>2. Filled(h)'
        BY <2>2, <3>1, <3>5 DEF Filled, Placeable
      <4>3. \A q \in DOMAIN old_to_new_syms : Filled(q)'
        BY <3>4, <3>5, <4>2
      <4>4. once' => \E g \in DOMAIN sm_table : sm_table[g].link_once
        BY <3>1, <3>5 DEF MapInv
      <4> QED
        BY <3>1, <3>5, <4>1, <4>3, <4>4 DEF MapInv
    <3>6. CASE O!NotAdded
      <4>1. old_to_new_syms' = old_to_new_syms /\ once' = FALSE /\ O!sym.sec > 0
            /\ ~ sm_table[O!sym.sec].link_once /\ sm_table[O!sym.sec].s = 0
        BY <3>6 DEF O!NotAdded
      <4>2. ~ Placeable(h)
        BY <3>3, <4>1 DEF Placeable, LinkedSymbol
      <4> QED
        BY <2>5, <3>3, <3>5, <4>1, <4>2
    <3>7. CASE O!UseDefined
      <4>1. O!sym.sec > 0 /\ sm_table[O!sym.sec].link_once
        BY <3>7 DEF O!UseDefined
      <4>2. O!sym.sec \in DOMAIN sm_table
        BY <2>3, <3>3, <4>1
      <4>3. CASE O!sym.bind = "LOCAL"
        <5>1. old_to_new_syms' = old_to_new_syms
          BY <3>7, <4>3 DEF O!UseDefined
        <5>2. sm_table[O!sym.sec].s = 0
          BY <1>3, <3>1, <4>1, <4>2 DEF MergeInv, MergedAs, Ignored, Skipped, Taken
        <5>3. ~ Placeable(h)
          BY <3>3, <4>1, <4>3, <5>2 DEF Placeable, LinkedSymbol
        <5> QED
          BY <2>5, <3>3, <3>5, <4>1, <4>2, <5>1, <5>3
      <4>4. CASE O!sym.bind # "LOCAL"
        <5>1. PICK e : e = O!find_elf_sym(syms, O!sym.name)
          OBVIOUS
        <5>2. old_to_new_syms' = [old_to_new_syms EXCEPT ![h] = e]
          BY <3>2, <3>7, <4>4, <5>1 DEF O!UseDefined
        <5>3. e \in Nat \ {0} /\ Means(e, l, h)'
          BY <2>1, <2>9, <3>2, <3>7, <4>4, <5>1, EntryMeans
        <5>4. old_to_new_syms'[h] = e /\ DOMAIN old_to_new_syms' = DOMAIN old_to_new_syms
              /\ \A q \in DOMAIN old_to_new_syms : q # h => old_to_new_syms'[q] = old_to_new_syms[q]
          BY <2>3, <3>3, <5>2
        <5>5. MapOf(h)'
          BY <2>2, <5>3, <5>4 DEF MapOf
        <5> QED
          BY <3>5, <4>1, <4>2, <5>3, <5>4, <5>5
      <4> QED
        BY <4>3, <4>4
    <3>8. CASE \E y, e : Adds(y, e)
      <4>1. PICK y, e : Adds(y, e)
        BY <3>8
      <4>2. e \in Nat \ {0} /\ Means(e, l, h)'
        BY <2>1, <2>9, <3>2, <4>1, AddsMeans
      <4>3. old_to_new_syms' = [old_to_new_syms EXCEPT ![h] = e]
        BY <3>2, <4>1 DEF Adds, Sets
      <4>4. old_to_new_syms'[h] = e /\ DOMAIN old_to_new_syms' = DOMAIN old_to_new_syms
            /\ \A q \in DOMAIN old_to_new_syms : q # h => old_to_new_syms'[q] = old_to_new_syms[q]
        BY <2>3, <3>3, <4>3
      <4>5. MapOf(h)'
        BY <2>2, <4>2, <4>4 DEF MapOf
      <4>6. once' = once \/ once' = FALSE
        BY <3>3, <4>1 DEF Adds, LinkedSymbol
      <4> QED
        BY <3>5, <4>2, <4>4, <4>5, <4>6
    <3> QED
      BY <2>9, <3>6, <3>7, <3>8, AddsIs DEF O!AddSymbol
  <2>10. O!Place => UNCHANGED <<old_to_new_syms, once>> /\ pc = "place" /\ (pc' = "place" \/ pc' = "failed")
    BY DEF O!Place, O!Ignore, O!SkipOnce, O!WrongType, O!AddSection, O!JoinSection, O!Concatenate
  <2>11. (O!LinkInfo \/ O!SymbolsAdded \/ O!Patch) => UNCHANGED <<old_to_new_syms, once, sm_table>>
    BY DEF O!LinkInfo, O!SymbolsAdded, O!Patch
  <2>12. O!Place \/ O!LinkInfo \/ O!SymbolsAdded \/ O!Patch \/ O!AddSymbol
    BY <1>3, StepIs DEF Begins, Idles, O!Return, O!Loops, O!UsesIndex
  <2> QED
    BY <1>3, <2>6, <2>7, <2>8, <2>9, <2>10, <2>11, <2>12 DEF O!Loops
<1>4. (O!Return \/ Idles) => pc' \notin O!Loops
  BY DEF O!Return, Idles, O!Loops
<1>5. (O!Place \/ O!LinkInfo \/ O!SymbolsAdded \/ O!Patch \/ O!AddSymbol) =>
        pc \in O!Loops /\ loads' = loads
  BY TurnKinds
<1> QED
  BY <1>1, <1>2, <1>3, <1>4, <1>5, StepIs

-----------------------------------------------------------------------------
(* Sections that were not left out are there, and relocation sections name *)
(* the section they are for.                                               *)

ThereInv ==
  pc # "failed" =>
    \A l \in DOMAIN loads : l # Len(loads) \/ pc \notin O!Loops =>
      \A h \in DOMAIN O!ObjectOf(l).secs :
        SectionOf(l, h).type \in O!Handled /\ SectionOf(l, h).name \notin OnceNames =>
          \E j, a : PartIs(j, a, l, h)

LEMMA PartStays ==
  ASSUME Grows, NEW j, NEW a, NEW l, NEW h, PartIs(j, a, l, h)
  PROVE  PartIs(j, a, l, h)'
BY DEF Grows, PartIs

LEMMA ThereNext ==
  ASSUME TypesInv, MergeInv, ThereInv, O!Next, pc # "failed"
  PROVE  ThereInv'
<1> SUFFICES ASSUME pc' # "failed", NEW l \in DOMAIN loads', l # Len(loads') \/ pc' \notin O!Loops,
                    NEW h \in DOMAIN O!ObjectOf(l)'.secs,
                    SectionOf(l, h)'.type \in O!Handled, SectionOf(l, h)'.name \notin OnceNames
             PROVE  \E j, a : PartIs(j, a, l, h)'
  BY DEF ThereInv, O!Handled
<1>1. Grows
  BY NextGrows
<1>2. ASSUME l \in DOMAIN loads, O!ObjectOf(l)' = O!ObjectOf(l), l # Len(loads) \/ pc \notin O!Loops
      PROVE  \E j, a : PartIs(j, a, l, h)'
  <2>1. SectionOf(l, h)' = SectionOf(l, h)
    BY <1>2 DEF SectionOf
  <2>2. PICK j, a : PartIs(j, a, l, h)
    BY <1>2, <2>1 DEF ThereInv
  <2> QED
    BY <1>1, <2>2, PartStays
<1>3. CASE \E o : Begins(o)
  <2>1. PICK o : Begins(o)
    BY <1>3
  <2>2. /\ DOMAIN loads' = DOMAIN loads \cup {Len(loads')} /\ pc' = "place" /\ pc \notin O!Loops
        /\ \A g \in DOMAIN loads : O!ObjectOf(g)' = O!ObjectOf(g)
    BY <2>1, LoadAppends DEF Begins, O!Load, TypesInv
  <2> QED
    BY <1>2, <2>2 DEF O!Loops
<1>4. CASE loads' = loads
  <2>1. l \in DOMAIN loads /\ O!ObjectOf(l)' = O!ObjectOf(l)
    BY <1>4 DEF O!ObjectOf
  <2>2. CASE l # Len(loads) \/ pc \notin O!Loops
    BY <1>2, <2>1, <2>2
  <2>3. CASE O!Return /\ l = Len(loads)
    <3>1. pc = "patch" /\ O!Current = O!ObjectOf(l) /\ pc \in O!Loops
      BY <2>3, CurrentIs DEF O!Return, TypesInv, O!Loops
    <3>2. h \in DOMAIN sm_table /\ O!Current.secs[h] = SectionOf(l, h) /\ SectionOf(l, h)' = SectionOf(l, h)
      BY <2>1, <3>1 DEF TypesInv, LocalsInv, SectionOf
    <3>3. MergedAs(h)
      BY <3>1, <3>2 DEF MergeInv
    <3>4. Taken(h)
      BY <3>2, <3>3 DEF MergedAs, Ignored, Skipped
    <3>5. PICK j, a : PartIs(j, a, l, h)
      BY <2>3, <3>4 DEF Taken
    <3> QED
      BY <1>1, <3>5, PartStays
  <2>4. O!Return \/ pc \notin O!Loops \/ pc' \in O!Loops
    BY StepIs, TurnKinds DEF Begins, Idles
  <2> QED
    BY <1>4, <2>2, <2>3, <2>4
<1>5. O!Return \/ Idles => loads' = loads
  BY DEF O!Return, Idles
<1> QED
  BY <1>3, <1>4, <1>5, StepIs, TurnKinds

\* during the place loop: section j is new, by section h of the object
New(j, h) == pc = "place" /\ h \in DOMAIN sm_table /\ sm_table[h].new_section /\ sm_table[h].s = j

\* the name of the section that the relocations are for
TargetName(l, h) == SectionOf(l, SectionOf(l, h).info).name

InfoOf(j) ==
  secs[j].type = "rela" =>
    /\ \A h : New(j, h) =>
         \A a \in DOMAIN secs[j].parts : secs[j].parts[a].load = Len(loads) /\ secs[j].parts[a].sec = h
    /\ (\A h : ~ New(j, h)) =>
         /\ secs[j].info \in DOMAIN secs
         /\ \A a \in DOMAIN secs[j].parts :
              TargetName(secs[j].parts[a].load, secs[j].parts[a].sec) = secs[secs[j].info].name

InfoInv == pc # "failed" => \A j \in DOMAIN secs : InfoOf(j)

LEMMA TargetStays ==
  ASSUME Grows, NEW l \in DOMAIN loads, NEW h
  PROVE  TargetName(l, h)' = TargetName(l, h)
<1>1. O!ObjectOf(l)' = O!ObjectOf(l)
  BY DEF Grows
<1> QED
  BY <1>1 DEF TargetName, SectionOf

LEMMA InfoStays ==
  ASSUME PartsInv, Grows, NEW j \in DOMAIN secs, InfoOf(j), secs'[j].parts = secs[j].parts,
         secs'[j].info = secs[j].info, \A h : New(j, h)' <=> New(j, h),
         loads' = loads \/ \A h : ~ New(j, h)
  PROVE  InfoOf(j)'
<1>1. secs'[j].type = secs[j].type
  BY DEF Grows
<1>2. \A a \in DOMAIN secs[j].parts :
        TargetName(secs[j].parts[a].load, secs[j].parts[a].sec)
          = secs[secs[j].info].name /\ secs[j].info \in DOMAIN secs
        => \E l, h : l = secs[j].parts[a].load /\ h = secs[j].parts[a].sec
                     /\ TargetName(l, h)' = secs'[secs[j].info].name
  <2> SUFFICES ASSUME NEW a \in DOMAIN secs[j].parts, secs[j].info \in DOMAIN secs,
                      TargetName(secs[j].parts[a].load, secs[j].parts[a].sec) = secs[secs[j].info].name
               PROVE  \E l, h : l = secs[j].parts[a].load /\ h = secs[j].parts[a].sec
                                /\ TargetName(l, h)' = secs'[secs[j].info].name
    OBVIOUS
  <2>1. PICK l, h : l = secs[j].parts[a].load /\ h = secs[j].parts[a].sec
    OBVIOUS
  <2>2. l \in DOMAIN loads
    BY <2>1 DEF PartsInv, Fits
  <2>3. TargetName(l, h)' = TargetName(l, h) /\ secs'[secs[j].info].name = secs[secs[j].info].name
    BY <2>2, TargetStays DEF Grows
  <2> QED
    BY <2>1, <2>3
<1>3. secs[j].type = "rela" /\ (\A h : ~ New(j, h)) => secs[j].info \in DOMAIN secs'
  BY DEF InfoOf, Grows
<1> QED
  BY <1>1, <1>2, <1>3 DEF InfoOf

\* the section looked at, as a section of its load
LEMMA ShIs ==
  ASSUME LoadedInv, pc \in O!Loops, turn <= Len(O!Current.secs), NEW l, l = Len(loads), NEW h, h = turn
  PROVE  SectionOf(l, h) = O!sh /\ l \in DOMAIN loads /\ h \in DOMAIN O!ObjectOf(l).secs
         /\ O!Current = O!ObjectOf(l)
<1>1. O!Current = O!ObjectOf(l) /\ l \in DOMAIN loads
  BY CurrentIs
<1>2. h \in DOMAIN O!Current.secs
  BY CurrentTyped
<1> QED
  BY <1>1, <1>2 DEF SectionOf, O!sh

\* relocation sections of one name are for sections of one name
LEMMA TargetsNamed ==
  ASSUME LoadedInv, NEW l \in DOMAIN loads, NEW g \in DOMAIN loads,
         NEW h \in DOMAIN O!ObjectOf(l).secs, NEW m \in DOMAIN O!ObjectOf(g).secs,
         SectionOf(l, h).type = "rela", SectionOf(g, m).type = "rela",
         SectionOf(l, h).name = SectionOf(g, m).name
  PROVE  TargetName(l, h) = TargetName(g, m)
<1>1. O!RelasNamed(O!ObjectOf(l), O!ObjectOf(g))
  BY LoadsAre, ObjectShape DEF LoadedInv
<1>2. SectionOf(l, h) \in O!Range(O!ObjectOf(l).secs) /\ SectionOf(g, m) \in O!Range(O!ObjectOf(g).secs)
  BY DEF SectionOf, O!Range
<1> QED
  BY <1>1, <1>2 DEF O!RelasNamed, TargetName, SectionOf

\* relocation sections of an object have names of their own
LEMMA RelaAlone ==
  ASSUME LoadedInv, NEW l \in DOMAIN loads,
         NEW h \in DOMAIN O!ObjectOf(l).secs, NEW m \in DOMAIN O!ObjectOf(l).secs,
         SectionOf(l, h).type = "rela", SectionOf(l, m).type = "rela",
         SectionOf(l, h).name = SectionOf(l, m).name
  PROVE  h = m
<1>1. O!RelocationsFit(O!ObjectOf(l))
  BY LoadsAre, ObjectShape DEF LoadedInv
<1> QED
  BY <1>1 DEF O!RelocationsFit, SectionOf

LEMMA InfoTook ==
  ASSUME TypesInv, PartsInv, MergeInv, InfoInv, O!Next, pc = "place", turn <= Len(O!Current.secs),
         NEW x, NEW s, NEW new, Takes(x, s, new), loads' = loads
  PROVE  InfoOf(s)'
<1>1. Took(x, s) /\ Grows
  BY TakesGives, NextGrows
<1>2. PICK l : l = Len(loads)
  OBVIOUS
<1>3. PICK g : g = turn
  OBVIOUS
<1>4. SectionOf(l, g) = O!sh /\ l \in DOMAIN loads /\ g \in DOMAIN O!ObjectOf(l).secs /\ O!Current = O!ObjectOf(l)
  BY <1>2, <1>3, ShIs DEF TypesInv, O!Loops
<1>5. PICK c : c = NewNumber(x)
  OBVIOUS
<1>6. /\ secs'[s].type = O!sh.type /\ secs'[s].info = x.info /\ secs'[s].name = O!sh.name
      /\ DOMAIN secs'[s].parts = DOMAIN x.parts \cup {c}
      /\ secs'[s].parts[c].load = l /\ secs'[s].parts[c].sec = g
      /\ \A a \in DOMAIN x.parts : secs'[s].parts[a] = x.parts[a]
      /\ s \in DOMAIN secs => x = secs[s]
      /\ s \notin DOMAIN secs => DOMAIN x.parts = {}
  BY <1>1, <1>2, <1>3, <1>5 DEF Took, NewPart
<1>7. /\ x.type = O!sh.type /\ x.name = O!sh.name
      /\ sm_table' = [sm_table EXCEPT ![g] =
                       [s |-> s, offset |-> Offset(x), new_section |-> new, link_once |-> FALSE]]
      /\ pc' = pc /\ s \in Nat \ {0}
      /\ (new = FALSE /\ s \in DOMAIN secs) \/ (new = TRUE /\ s \notin DOMAIN secs)
  BY <1>3 DEF Takes
<1>8. sm_table \in [DOMAIN O!Current.secs -> Merged] /\ g \in DOMAIN sm_table
  BY <1>4 DEF TypesInv, LocalsInv, O!Loops
<1>9. /\ sm_table'[g].s = s /\ sm_table'[g].new_section = new /\ DOMAIN sm_table' = DOMAIN sm_table
      /\ \A h \in DOMAIN sm_table : h # g => sm_table'[h] = sm_table[h]
  BY <1>7, <1>8
<1>10. ~ New(s, g)
  BY <1>3, <1>8 DEF New, MergeInv, Unmerged, O!Loops
<1>11. \A h : h # g => (New(s, h)' <=> New(s, h))
  BY <1>7, <1>9 DEF New
<1> SUFFICES ASSUME O!sh.type = "rela"
             PROVE  InfoOf(s)'
  BY <1>6 DEF InfoOf
<1>12. \A h : h # g => ~ New(s, h)
  <2> SUFFICES ASSUME NEW h, h # g, New(s, h) PROVE FALSE
    OBVIOUS
  <2>1. h \in DOMAIN sm_table /\ sm_table[h].s = s /\ sm_table[h].new_section /\ h \in DOMAIN O!ObjectOf(l).secs
    BY <1>4, <1>8 DEF New
  <2>2. Taken(h)
    BY <2>1 DEF MergeInv, MergedAs, Ignored, Skipped, Unmerged, O!Loops
  <2>3. x = secs[s] /\ secs[s].name = O!Current.secs[h].name /\ secs[s].type = O!Current.secs[h].type
    BY <1>6, <2>1, <2>2 DEF Taken
  <2>4. SectionOf(l, h).name = SectionOf(l, g).name /\ SectionOf(l, h).type = "rela"
    BY <1>4, <1>7, <2>3 DEF SectionOf
  <2> QED
    BY <1>4, <2>1, <2>4, RelaAlone DEF TypesInv
<1>13. CASE s \notin DOMAIN secs
  <2>1. New(s, g)'
    BY <1>7, <1>8, <1>9, <1>13 DEF New
  <2>2. \A h : New(s, h)' => h = g
    BY <1>11, <1>12
  <2>3. \A a \in DOMAIN secs'[s].parts : secs'[s].parts[a].load = l /\ secs'[s].parts[a].sec = g
    BY <1>6, <1>13
  <2>4. l = Len(loads')
    BY <1>2
  <2> QED
    BY <2>1, <2>2, <2>3, <2>4 DEF InfoOf
<1>14. CASE s \in DOMAIN secs
  <2>1. \A h : ~ New(s, h) /\ ~ New(s, h)'
    BY <1>7, <1>9, <1>10, <1>11, <1>12, <1>14 DEF New
  <2>2. x = secs[s] /\ secs[s].type = "rela" /\ InfoOf(s)
    BY <1>6, <1>7, <1>14 DEF InfoInv
  <2>3. secs[s].info \in DOMAIN secs /\ secs[s].info \in DOMAIN secs' /\ secs'[s].info = secs[s].info
        /\ secs'[secs[s].info].name = secs[secs[s].info].name
    BY <1>1, <1>6, <2>1, <2>2 DEF InfoOf, Grows
  <2>4. ASSUME NEW a \in DOMAIN secs[s].parts, NEW h, NEW m, h = secs[s].parts[a].load, m = secs[s].parts[a].sec
        PROVE  /\ TargetName(h, m) = secs[secs[s].info].name
               /\ TargetName(h, m)' = TargetName(h, m)
               /\ TargetName(l, g) = TargetName(h, m)
    <3>1. Fits(s, a)
      BY <1>14 DEF PartsInv
    <3>2. h \in DOMAIN loads /\ m \in DOMAIN O!ObjectOf(h).secs /\ SectionOf(h, m).name = secs[s].name
          /\ SectionOf(h, m).type = secs[s].type
      BY <2>4, <3>1 DEF Fits
    <3>3. TargetName(h, m) = secs[secs[s].info].name
      BY <2>1, <2>2, <2>4 DEF InfoOf
    <3>4. TargetName(l, g) = TargetName(h, m)
      BY <1>4, <1>7, <2>2, <3>2, TargetsNamed DEF TypesInv
    <3> QED
      BY <1>1, <3>2, <3>3, <3>4, TargetStays
  <2>5. 1 \in DOMAIN secs[s].parts
    <3>1. secs[s] \in LinkedSection
      BY <1>14, Elements DEF TypesInv, TableInv
    <3>2. secs[s].parts \in Seq(LinkedPart) /\ secs[s].parts # <<>>
      BY <1>14, <3>1 DEF PartsInv, LinkedSection
    <3> QED
      BY <3>2, FirstOf
  <2>6. TargetName(l, g)' = secs'[secs[s].info].name
    BY <1>1, <1>4, <2>3, <2>4, <2>5, TargetStays
  <2>7. ASSUME NEW a \in DOMAIN secs'[s].parts
        PROVE  \E h, m : h = secs'[s].parts[a].load /\ m = secs'[s].parts[a].sec
                         /\ TargetName(h, m)' = secs'[secs[s].info].name
    <3>1. CASE a = c
      BY <1>6, <2>6, <3>1
    <3>2. CASE a \in DOMAIN secs[s].parts
      BY <1>6, <2>2, <2>3, <2>4, <3>2
    <3> QED
      BY <1>6, <2>2, <3>1, <3>2
  <2> QED
    BY <2>1, <2>3, <2>7 DEF InfoOf
<1> QED
  BY <1>13, <1>14

LEMMA InfoNext ==
  ASSUME TypesInv, PartsInv, MergeInv, InfoInv, O!Next, pc # "failed"
  PROVE  InfoInv'
<1> SUFFICES ASSUME pc' # "failed" PROVE \A j \in DOMAIN secs' : InfoOf(j)'
  BY DEF InfoInv
<1>1. Grows
  BY NextGrows
<1>2. ASSUME NEW j \in DOMAIN secs, secs'[j].parts = secs[j].parts, secs'[j].info = secs[j].info,
             \A h : New(j, h)' <=> New(j, h), loads' = loads \/ \A h : ~ New(j, h)
      PROVE  InfoOf(j)'
  BY <1>1, <1>2, InfoStays DEF InfoInv
<1>3. ASSUME secs' = secs, pc # "place",
             pc' # "place" \/ \A h \in DOMAIN sm_table' : ~ sm_table'[h].new_section
      PROVE  \A j \in DOMAIN secs' : InfoOf(j)'
  <2>1. \A j, h : ~ New(j, h) /\ ~ New(j, h)'
    BY <1>3 DEF New
  <2> QED
    BY <1>2, <1>3, <2>1
<1>4. CASE \E o : Begins(o)
  <2>1. PICK o : Begins(o)
    BY <1>4
  <2>2. secs' = secs /\ pc # "place" /\ sm_table' = [h \in DOMAIN o.secs |-> O!NoMerge]
    BY <2>1 DEF Begins, O!Load, O!linked, O!Loops
  <2>3. \A h \in DOMAIN sm_table' : ~ sm_table'[h].new_section
    BY <2>2 DEF O!NoMerge
  <2> QED
    BY <1>3, <2>2, <2>3
<1>5. CASE Idles \/ O!Return \/ O!SymbolsAdded \/ O!AddSymbol
  <2>1. secs' = secs /\ pc # "place" /\ pc' # "place"
    BY <1>5 DEF Idles, O!Return, O!SymbolsAdded, O!AddSymbol, O!linked, O!Loops
  <2> QED
    BY <1>3, <2>1
<1>6. CASE O!Place
  <2>1. loads' = loads /\ pc = "place" /\ turn <= Len(O!Current.secs) /\ turn \in DOMAIN sm_table
    <3>1. pc \in O!Loops /\ turn <= Len(O!Current.secs)
      BY <1>6 DEF O!Place, O!Loops
    <3> QED
      BY <1>6, <3>1, CurrentTyped DEF O!Place, TypesInv, LocalsInv
  <2>2. CASE O!Ignore \/ O!SkipOnce
    <3>1. secs' = secs /\ pc' = pc /\ DOMAIN sm_table' = DOMAIN sm_table
          /\ \A h \in DOMAIN sm_table : sm_table'[h].new_section = sm_table[h].new_section
                                        /\ sm_table'[h].s = sm_table[h].s
      <4>1. sm_table \in [DOMAIN O!Current.secs -> Merged]
        BY <2>1 DEF TypesInv, LocalsInv, O!Loops
      <4>2. secs' = secs /\ pc' = pc /\ (sm_table' = sm_table \/ sm_table' = [sm_table EXCEPT ![turn].link_once = TRUE])
        BY <2>2 DEF O!Ignore, O!SkipOnce
      <4> QED
        BY <2>1, <4>1, <4>2 DEF Merged
    <3>2. \A j, h : New(j, h)' <=> New(j, h)
      BY <3>1 DEF New
    <3> QED
      BY <1>2, <2>1, <3>1, <3>2
  <2>3. CASE \E x, s, new : Takes(x, s, new)
    <3>1. PICK x, s, new : Takes(x, s, new)
      BY <2>3
    <3>2. InfoOf(s)'
      BY <2>1, <3>1, InfoTook
    <3>3. /\ DOMAIN secs' = DOMAIN secs \cup {s} /\ \A j \in DOMAIN secs : j # s => secs'[j] = secs[j]
          /\ sm_table' = [sm_table EXCEPT ![turn] =
                           [s |-> s, offset |-> Offset(x), new_section |-> new, link_once |-> FALSE]]
          /\ pc' = pc
      BY <3>1 DEF Takes
    <3>4. ~ sm_table[turn].new_section
      BY <2>1 DEF MergeInv, Unmerged, O!Loops, TypesInv, LoadedInv
    <3>5. sm_table'[turn].s = s /\ DOMAIN sm_table' = DOMAIN sm_table
          /\ \A h \in DOMAIN sm_table : h # turn => sm_table'[h] = sm_table[h]
      <4>1. sm_table \in [DOMAIN O!Current.secs -> Merged]
        BY <2>1 DEF TypesInv, LocalsInv, O!Loops
      <4> QED
        BY <2>1, <3>3, <4>1
    <3>6. \A j, h : j # s => (New(j, h)' <=> New(j, h))
      <4> SUFFICES ASSUME NEW j, NEW h, j # s PROVE New(j, h)' <=> New(j, h)
        OBVIOUS
      <4>1. CASE h = turn
        BY <3>4, <3>5, <4>1 DEF New
      <4>2. CASE h # turn
        BY <3>3, <3>5, <4>2 DEF New
      <4> QED
        BY <4>1, <4>2
    <3> QED
      BY <1>2, <2>1, <3>2, <3>3, <3>6
  <2> QED
    BY <1>6, <2>2, <2>3, PlaceIs
<1>7. CASE O!LinkInfo /\ SetsInfo
  <2>1. /\ loads' = loads /\ pc = "place" /\ pc' # "place" /\ pc \in O!Loops
        /\ turn > Len(O!Current.secs) /\ turn \in Nat
    BY <1>7 DEF O!LinkInfo, O!Loops, TypesInv, LoadedInv
  <2>2. sm_table \in [DOMAIN O!Current.secs -> Merged] /\ O!Current.secs \in Seq(ObjectSection)
    BY <2>1, CurrentTyped DEF TypesInv, LocalsInv
  <2>3. \A h \in DOMAIN sm_table : MergedAs(h)
    <3>1. \A h \in DOMAIN sm_table : ~ (h >= turn)
      BY <2>1, <2>2
    <3> QED
      BY <2>1, <3>1 DEF MergeInv
  <2>4. PICK l : l = Len(loads)
    OBVIOUS
  <2>5. l \in DOMAIN loads /\ O!Current = O!ObjectOf(l)
    BY <2>1, <2>4, CurrentIs DEF TypesInv
  <2>6. ASSUME NEW j \in DOMAIN secs, secs[j].type = "rela"
        PROVE  InfoOf(j)'
    <3>1. DOMAIN secs' = DOMAIN secs /\ secs'[j].parts = secs[j].parts /\ secs'[j].type = secs[j].type
      BY <1>7 DEF SetsInfo
    <3>2. \A h : New(j, h) <=> Fresh(j, h)
      <4> SUFFICES ASSUME NEW h, New(j, h) PROVE Fresh(j, h)
        BY <2>1 DEF New, Fresh
      <4>1. h \in DOMAIN sm_table /\ sm_table[h].new_section /\ sm_table[h].s = j
        BY DEF New
      <4>2. Taken(h)
        BY <2>3, <4>1 DEF MergedAs, Ignored, Skipped
      <4> QED
        BY <2>6, <4>1, <4>2 DEF Fresh, Taken
    <3>3. CASE \A h : ~ Fresh(j, h)
      <4>1. secs'[j].info = secs[j].info
        BY <1>7, <3>3 DEF SetsInfo
      <4>2. \A h : ~ New(j, h) /\ ~ New(j, h)'
        BY <2>1, <3>2, <3>3 DEF New
      <4> QED
        BY <1>2, <2>1, <3>1, <4>1, <4>2
    <3>4. CASE \E h : Fresh(j, h)
      <4>1. PICK h : Fresh(j, h) /\ secs'[j].info = sm_table[O!Current.secs[h].info].s
        BY <1>7, <3>4 DEF SetsInfo
      <4>2. PICK m : m = O!Current.secs[h].info
        OBVIOUS
      <4>3. h \in DOMAIN O!Current.secs /\ O!Current.secs[h].type = "rela"
        BY <2>2, <4>1 DEF Fresh
      <4>4. m \in DOMAIN sm_table /\ sm_table[m].s # 0
        BY <1>7, <2>1, <2>2, <4>1, <4>2, <4>3, RelaIs DEF SetsInfo, TypesInv
      <4>5. Taken(m)
        BY <2>3, <4>4 DEF MergedAs, Ignored, Skipped
      <4>6. PICK k : k = sm_table[m].s
        OBVIOUS
      <4>7. k \in DOMAIN secs /\ k \in DOMAIN secs' /\ secs'[k].name = O!Current.secs[m].name
            /\ secs'[j].info = k
        BY <1>1, <4>1, <4>2, <4>5, <4>6 DEF Taken, Grows
      <4>8. \A a \in DOMAIN secs[j].parts : secs[j].parts[a].load = l /\ secs[j].parts[a].sec = h
        BY <2>4, <2>6, <3>2, <4>1 DEF InfoInv, InfoOf
      <4>9. TargetName(l, h) = secs'[k].name
        BY <2>5, <4>2, <4>7 DEF TargetName, SectionOf
      <4>10. TargetName(l, h)' = TargetName(l, h)
        BY <1>1, <2>5, TargetStays
      <4>11. \A g : ~ New(j, g)'
        BY <2>1 DEF New
      <4> QED
        BY <3>1, <4>7, <4>8, <4>9, <4>10, <4>11 DEF InfoOf
    <3> QED
      BY <3>3, <3>4
  <2>7. ASSUME NEW j \in DOMAIN secs, secs[j].type # "rela"
        PROVE  InfoOf(j)'
    BY <1>7, <2>7 DEF InfoOf, SetsInfo
  <2> QED
    BY <1>7, <2>6, <2>7 DEF SetsInfo
<1>8. CASE O!Patch
  <2>1. pc # "place" /\ pc' # "place" /\ loads' = loads /\ DOMAIN secs' = DOMAIN secs
    BY <1>8, PatchIs DEF O!Patch, Patches
  <2>2. \A j, h : ~ New(j, h) /\ ~ New(j, h)'
    BY <2>1 DEF New
  <2>3. ASSUME NEW j \in DOMAIN secs PROVE InfoOf(j)'
    <3>1. secs'[j].parts = secs[j].parts /\ secs'[j].info = secs[j].info
      BY <1>8, PatchKeeps
    <3> QED
      BY <1>2, <2>1, <2>2, <3>1
  <2> QED
    BY <2>1, <2>3
<1> QED
  BY <1>4, <1>5, <1>6, <1>7, <1>8, StepIs

-----------------------------------------------------------------------------
(* The relocations of the linked sections: as they were in their object,   *)
(* until Patch got to them.                                                *)

Passed(l, h) == l # Len(loads) \/ pc \notin O!Loops \/ (pc = "patch" /\ h < turn)

\* relocation r is number q of section h of load l, moved
Moved(r, l, h, q) ==
  LET x == SectionOf(l, h) IN
  /\ \E s, b : PartIs(s, b, l, x.info) /\ r.at = secs[s].parts[b].off + x.rels[q].at
  /\ x.rels[q].sym \in DOMAIN O!ObjectOf(l).syms
  /\ Means(r.sym, l, x.rels[q].sym)

\* number q of part a of section j
RelocAt(j, a, q) == secs[j].rels[secs[j].parts[a].off + q]
RelocsIn(j, a) == SectionOf(secs[j].parts[a].load, secs[j].parts[a].sec).rels
RelocOf(j, a, q) ==
  LET p == secs[j].parts[a] IN
  IF Passed(p.load, p.sec) THEN Moved(RelocAt(j, a, q), p.load, p.sec, q)
  ELSE RelocAt(j, a, q) = RelocsIn(j, a)[q]

RelocsInv ==
  pc # "failed" =>
    \A j \in DOMAIN secs : secs[j].type = "rela" =>
      \A a \in DOMAIN secs[j].parts : \A q \in DOMAIN RelocsIn(j, a) : RelocOf(j, a, q)

\* where number q of a part is
LEMMA RelocPlace ==
  ASSUME TypesInv, PartsInv, TiledInv, NEW j \in DOMAIN secs, secs[j].type = "rela",
         NEW a \in DOMAIN secs[j].parts, NEW q \in DOMAIN RelocsIn(j, a)
  PROVE  /\ q \in Nat \ {0} /\ secs[j].parts[a].off + q \in DOMAIN secs[j].rels
         /\ secs[j].parts[a].off + q <= Stop(j, a) /\ secs[j].parts[a].off \in Nat
         /\ secs[j].parts[a].off + q \in Nat
<1>1. /\ secs[j].parts[a].off \in Nat /\ Extent(j, a) \in Nat /\ Stop(j, a) \in Nat /\ Total(j) \in Nat
      /\ secs[j].rels \in Seq([at : Nat, sym : Nat])
      /\ SectionOf(secs[j].parts[a].load, secs[j].parts[a].sec) \in ObjectSection
  BY PartTyped
<1>2. RelocsIn(j, a) \in Seq([at : Nat, sym : Nat])
  BY <1>1 DEF RelocsIn, ObjectSection
<1>3. q \in 1 .. Extent(j, a)
  BY <1>2, Counts DEF Extent, RelocsIn
<1>4. DOMAIN secs[j].rels = 1 .. Total(j)
  BY <1>1, Counts DEF Total
<1>5. Stop(j, a) <= Total(j) /\ Stop(j, a) = secs[j].parts[a].off + Extent(j, a)
  BY DEF TiledInv, Tiled, Stop
<1>6. PICK off, d, w, z : /\ off = secs[j].parts[a].off /\ d = Extent(j, a)
                          /\ w = Total(j) /\ z = Stop(j, a)
  OBVIOUS
<1>7. off \in Nat /\ d \in Nat /\ w \in Nat /\ z = off + d /\ z <= w /\ q \in 1 .. d
  BY <1>1, <1>3, <1>5, <1>6
<1>8. q \in Nat \ {0} /\ off + q \in 1 .. w /\ off + q <= z /\ off + q \in Nat
  BY <1>7
<1> QED
  BY <1>4, <1>6, <1>7, <1>8

LEMMA MovedStays ==
  ASSUME TypesInv, PartsInv, O!Next, NEW r, NEW l \in DOMAIN loads, NEW h, NEW q, Moved(r, l, h, q)
  PROVE  Moved(r, l, h, q)'
<1>1. Grows
  BY NextGrows
<1>2. PICK x : x = SectionOf(l, h)
  OBVIOUS
<1>3. SectionOf(l, h)' = x /\ O!ObjectOf(l)' = O!ObjectOf(l)
  BY <1>1, <1>2 DEF Grows, SectionOf
<1>4. PICK s, b : PartIs(s, b, l, x.info) /\ r.at = secs[s].parts[b].off + x.rels[q].at
  BY <1>2 DEF Moved
<1>5. PartIs(s, b, l, x.info)' /\ secs'[s].parts[b] = secs[s].parts[b]
  BY <1>1, <1>4, PartStays DEF PartIs, Grows
<1>6. Means(r.sym, l, x.rels[q].sym)'
  BY <1>2, MeansStays DEF Moved
<1> QED
  BY <1>2, <1>3, <1>4, <1>5, <1>6 DEF Moved

\* the relocations of a part that is there
LEMMA RelocsInStay ==
  ASSUME PartsInv, Grows, NEW j \in DOMAIN secs, NEW a \in DOMAIN secs[j].parts
  PROVE  RelocsIn(j, a)' = RelocsIn(j, a)
<1>1. PICK p : p = secs[j].parts[a]
  OBVIOUS
<1>2. secs'[j].parts[a] = p /\ O!ObjectOf(p.load)' = O!ObjectOf(p.load)
  BY <1>1 DEF Grows, PartsInv, Fits
<1> QED
  BY <1>1, <1>2 DEF RelocsIn, SectionOf

LEMMA RelocStays ==
  ASSUME TypesInv, PartsInv, TiledInv, O!Next, NEW j \in DOMAIN secs, NEW a \in DOMAIN secs[j].parts, NEW q,
         RelocOf(j, a, q), NEW p, p = secs[j].parts[a], Passed(p.load, p.sec)' <=> Passed(p.load, p.sec),
         RelocAt(j, a, q)' = RelocAt(j, a, q)
  PROVE  RelocOf(j, a, q)'
<1>1. Grows
  BY NextGrows
<1>2. secs'[j].parts[a] = p /\ p.load \in DOMAIN loads /\ RelocsIn(j, a)' = RelocsIn(j, a)
  BY <1>1, RelocsInStay DEF Grows, PartsInv, Fits
<1>3. PICK r : r = RelocAt(j, a, q)
  OBVIOUS
<1>4. CASE Passed(p.load, p.sec)
  <2>1. Moved(r, p.load, p.sec, q)
    BY <1>3, <1>4 DEF RelocOf
  <2>2. Moved(r, p.load, p.sec, q)'
    BY <1>2, <2>1, MovedStays
  <2> QED
    BY <1>2, <1>3, <1>4, <2>2 DEF RelocOf
<1>5. CASE ~ Passed(p.load, p.sec)
  BY <1>2, <1>3, <1>5 DEF RelocOf
<1> QED
  BY <1>4, <1>5

RelocsOk(j) ==
  secs[j].type = "rela" =>
    \A a \in DOMAIN secs[j].parts : \A q \in DOMAIN RelocsIn(j, a) : RelocOf(j, a, q)

LEMMA RelocsOkStays ==
  ASSUME TypesInv, PartsInv, TiledInv, O!Next, NEW j \in DOMAIN secs, RelocsOk(j),
         secs'[j].parts = secs[j].parts, secs'[j].rels = secs[j].rels,
         NEW M, M = DOMAIN loads,
         \A l \in M : \A h \in DOMAIN O!ObjectOf(l).secs : Passed(l, h)' <=> Passed(l, h)
  PROVE  RelocsOk(j)'
<1>1. Grows
  BY NextGrows
<1>2. SUFFICES ASSUME secs[j].type = "rela", NEW a, a \in DOMAIN secs'[j].parts,
                      NEW q, q \in DOMAIN RelocsIn(j, a)'
               PROVE  RelocOf(j, a, q)'
  BY <1>1 DEF Grows, RelocsOk
<1>3. a \in DOMAIN secs[j].parts /\ q \in DOMAIN RelocsIn(j, a)
  BY <1>1, <1>2, RelocsInStay
<1>4. PICK p : p = secs[j].parts[a]
  OBVIOUS
<1>5. RelocOf(j, a, q)
  BY <1>2, <1>3 DEF RelocsOk
<1>6. Passed(p.load, p.sec)' <=> Passed(p.load, p.sec)
  BY <1>3, <1>4 DEF PartsInv, Fits
<1>7. RelocAt(j, a, q)' = RelocAt(j, a, q)
  BY DEF RelocAt
<1> QED
  BY <1>3, <1>4, <1>5, <1>6, <1>7, RelocStays

\* a section that takes relocations: the old ones stay, the new ones are as in the object
LEMMA RelocsTook ==
  ASSUME TypesInv, PartsInv, TiledInv, RelocsInv, O!Next, pc = "place", turn <= Len(O!Current.secs),
         NEW x, NEW s, NEW new, Takes(x, s, new), loads' = loads
  PROVE  RelocsOk(s)'
<1>1. Grows /\ Took(x, s) /\ TiledInv' /\ PartsInv' /\ TypesInv'
  BY NextGrows, TakesGives, TiledNext, PartsNext, TypesNext
<1>2. PICK w : w = NewNumber(x)
  OBVIOUS
<1>3. PICK u, v : u = x.rels /\ v = O!sh.rels
  OBVIOUS
<1>4. u \in Seq([at : Nat, sym : Nat]) /\ v \in Seq([at : Nat, sym : Nat]) /\ secs'[s].rels = u \o v
      /\ secs'[s].type = O!sh.type /\ DOMAIN secs'[s].parts = DOMAIN x.parts \cup {w}
      /\ secs'[s].parts[w] = NewPart(x) /\ w \notin DOMAIN x.parts
      /\ (s \in DOMAIN secs => x = secs[s]) /\ (s \notin DOMAIN secs => DOMAIN x.parts = {})
      /\ \A a \in DOMAIN x.parts : secs'[s].parts[a] = x.parts[a]
  BY <1>1, <1>2, <1>3 DEF Took
<1>5. SUFFICES ASSUME O!sh.type = "rela", NEW a, a \in DOMAIN secs'[s].parts,
                      NEW q, q \in DOMAIN RelocsIn(s, a)'
               PROVE  RelocOf(s, a, q)'
  BY <1>4 DEF RelocsOk
<1>6. pc' = "place" /\ Offset(x) = Len(u)
  BY <1>3, <1>5 DEF Takes, Offset
<1>7. PICK l, h : l = Len(loads) /\ h = turn
  OBVIOUS
<1>8. CASE a = w
  <2>1. secs'[s].parts[a].load = l /\ secs'[s].parts[a].sec = h /\ secs'[s].parts[a].off = Len(u)
    BY <1>4, <1>6, <1>7, <1>8 DEF NewPart
  <2>2. SectionOf(l, h) = O!sh
    BY <1>7, ShIs DEF TypesInv, O!Loops
  <2>3. RelocsIn(s, a)' = v
    <3>1. SectionOf(l, h)' = SectionOf(l, h)
      BY DEF SectionOf, O!ObjectOf
    <3> QED
      BY <1>3, <2>1, <2>2, <3>1 DEF RelocsIn
  <2>4. ~ Passed(l, h)'
    BY <1>6, <1>7 DEF Passed, O!Loops
  <2>5. RelocAt(s, a, q)' = v[q]
    <3>1. RelocAt(s, a, q)' = (u \o v)[Len(u) + q]
      BY <1>4, <2>1 DEF RelocAt
    <3> QED
      BY <1>4, <1>5, <2>3, <3>1, Concats
  <2> QED
    BY <2>1, <2>3, <2>4, <2>5 DEF RelocOf
<1>9. CASE a # w
  <2>1. a \in DOMAIN x.parts /\ s \in DOMAIN secs /\ x = secs[s] /\ secs[s].type = "rela"
    BY <1>4, <1>5, <1>9 DEF Takes
  <2>2. q \in DOMAIN RelocsIn(s, a) /\ a \in DOMAIN secs[s].parts
    BY <1>1, <1>5, <2>1, RelocsInStay
  <2>3. RelocOf(s, a, q)
    BY <2>1, <2>2 DEF RelocsInv
  <2>4. PICK p : p = secs[s].parts[a]
    OBVIOUS
  <2>5. Passed(p.load, p.sec)' <=> Passed(p.load, p.sec)
    BY <1>6 DEF Passed, O!Loops
  <2>6. RelocAt(s, a, q)' = RelocAt(s, a, q)
    <3>1. PICK k : k = secs[s].parts[a].off + q
      OBVIOUS
    <3>2. k \in DOMAIN u
      BY <1>3, <2>1, <2>2, <3>1, RelocPlace
    <3>3. secs'[s].parts[a] = secs[s].parts[a]
      BY <1>4, <2>1
    <3>4. RelocAt(s, a, q)' = (u \o v)[k] /\ RelocAt(s, a, q) = u[k]
      BY <1>3, <1>4, <2>1, <3>1, <3>3 DEF RelocAt
    <3> QED
      BY <1>4, <3>2, <3>4, Concats
  <2> QED
    BY <2>1, <2>2, <2>3, <2>4, <2>5, <2>6, RelocStays
<1> QED
  BY <1>8, <1>9

\* ObjectLoad!OnceApart of everything that is linked
OnceIsApart == \A p \in Programs : \A o \in O!ObjectsOf(p) : O!OnceApart(o)

\* relocation q of the section that Patch looks at, as it becomes
LEMMA PatchMoves ==
  ASSUME OnceIsApart, TypesInv, PartsInv, MergeInv, MapInv, pc = "patch", turn <= Len(O!Current.secs),
         O!sh.type = "rela", NEW q \in DOMAIN O!sh.rels, NEW r, r = O!sh.rels[q],
         r.sym \in 0 .. Len(O!Current.syms), NewSym(r) # 0 \/ once,
         NEW l, l = Len(loads), NEW h, h = turn,
         NEW m, m = [at |-> r.at + sm_table[O!sh.info].offset, sym |-> NewSym(r)]
  PROVE  Moved(m, l, h, q)
<1>1. /\ pc \in O!Loops /\ O!Current.secs \in Seq(ObjectSection) /\ O!Current.syms \in Seq(LinkedSymbol)
      /\ h \in DOMAIN O!Current.secs /\ O!sh = O!Current.secs[h]
      /\ O!Current = O!ObjectOf(l) /\ SectionOf(l, h) = O!sh /\ O!Current \in O!ObjectsOf(program)
  <2>1. pc \in O!Loops
    BY DEF O!Loops
  <2> QED
    BY <2>1, CurrentTyped, CurrentIs, ShIs DEF TypesInv, O!sh
<1>2. /\ sm_table \in [DOMAIN O!Current.secs -> Merged] /\ old_to_new_syms \in [DOMAIN O!Current.syms -> Nat]
      /\ \A k \in DOMAIN O!Current.secs : MergedAs(k)
  BY <1>1 DEF TypesInv, LocalsInv, MergeInv
<1>3. O!OnceApart(O!Current)
  BY <1>1 DEF OnceIsApart, TypesInv, LoadedInv
<1>4. O!sh \in O!Range(O!Current.secs)
  BY <1>1 DEF O!Range
<1>5. PICK z : z = O!sh.info
  OBVIOUS
<1>6. z \in DOMAIN O!Current.secs /\ O!Current.secs[z].type \in O!Handled /\ O!Current.secs[z].name \notin OnceNames
  <2>1. z \in DOMAIN O!Current.secs /\ O!Current.secs[z].type \in {"bits", "nobits"}
    BY <1>1, <1>5, RelaIs DEF TypesInv
  <2>2. O!Current.secs[z].name \notin OnceNames
    BY <1>3, <1>4, <1>5 DEF O!OnceApart
  <2> QED
    BY <2>1, <2>2 DEF O!Handled
<1>7. \E s, b : PartIs(s, b, l, z) /\ m.at = secs[s].parts[b].off + O!sh.rels[q].at
  <2>1. Taken(z)
    BY <1>2, <1>6 DEF MergedAs, Ignored, Skipped
  <2>2. PICK s, b : PartIs(s, b, l, z) /\ secs[s].parts[b].off = sm_table[z].offset
    BY <2>1 DEF Taken
  <2>3. m.at = r.at + sm_table[z].offset
    BY <1>5
  <2>4. PICK x, y : x = r.at /\ y = sm_table[z].offset
    OBVIOUS
  <2>5. x \in Nat /\ y \in Nat
    <3>1. O!sh.rels \in Seq([at : Nat, sym : Nat])
      <4>1. O!sh \in ObjectSection
        BY <1>1, Elements
      <4> QED
        BY <4>1 DEF ObjectSection
    <3> QED
      BY <1>2, <1>6, <2>4, <3>1, RelElements DEF Merged
  <2>6. x + y = y + x
    BY <2>5
  <2> QED
    BY <2>2, <2>3, <2>4, <2>6
<1>8. r.sym \in DOMAIN O!Current.syms /\ NewSym(r) # 0
  <2>1. CASE NewSym(r) # 0
    <3>1. r.sym # 0
      BY <2>1 DEF NewSym
    <3> QED
      BY <1>1, <2>1, <3>1, Counts
  <2>2. CASE once
    <3>1. PICK k \in DOMAIN sm_table : sm_table[k].link_once
      BY <2>2 DEF MapInv
    <3>2. Skipped(k)
      BY <1>2, <3>1 DEF MergedAs, Ignored, Taken
    <3>3. \E x \in O!Range(O!Current.secs) : x.type \in O!Handled /\ x.name \in OnceNames
      BY <1>2, <3>1, <3>2 DEF Skipped, O!Range
    <3>4. r \in O!Range(O!sh.rels)
      BY DEF O!Range
    <3>5. PICK g : g = r.sym
      OBVIOUS
    <3>6. /\ g \in DOMAIN O!Current.syms
          /\ O!Current.syms[g].sec > 0 =>
               LET x == O!Current.secs[O!Current.syms[g].sec] IN
               x.type \in O!Handled /\ (x.name \in OnceNames => O!Current.syms[g].bind # "LOCAL")
      BY <1>3, <1>4, <3>3, <3>4, <3>5 DEF O!OnceApart
    <3>7. Placeable(g)
      <4>1. PICK k2 : k2 = O!Current.syms[g].sec
        OBVIOUS
      <4>2. k2 \in Int
        <5>1. O!Current.syms[g] \in LinkedSymbol
          BY <1>1, <3>6, Elements
        <5> QED
          BY <4>1, <5>1 DEF LinkedSymbol
      <4>3. CASE k2 > 0
        <5>1. k2 \in DOMAIN O!Current.secs
          <6>1. O!WellFormed(O!Current)
            BY <1>1, ObjectShape DEF TypesInv, LoadedInv
          <6>2. O!Current.syms[g] \in O!Range(O!Current.syms)
            BY <3>6 DEF O!Range
          <6>3. k2 <= Len(O!Current.secs)
            BY <4>1, <6>1, <6>2 DEF O!WellFormed
          <6> QED
            BY <1>1, <4>2, <4>3, <6>3, Counts
        <5>2. MergedAs(k2) /\ O!Current.secs[k2].type \in O!Handled
          BY <1>2, <3>6, <4>1, <4>3, <5>1
        <5>3. CASE Skipped(k2)
          BY <3>6, <4>1, <4>3, <5>3 DEF Skipped, Placeable
        <5>4. CASE Taken(k2)
          <6>1. sm_table[k2].s # 0
            BY <5>4, Counts DEF Taken, TypesInv, TableInv
          <6> QED
            BY <4>1, <6>1 DEF Placeable
        <5> QED
          BY <5>2, <5>3, <5>4 DEF MergedAs, Ignored
      <4>4. CASE ~ (k2 > 0)
        BY <4>1, <4>2, <4>4 DEF Placeable
      <4> QED
        BY <4>3, <4>4
    <3>8. old_to_new_syms[g] # 0
      BY <1>2, <3>6, <3>7 DEF MapInv, Filled
    <3>9. g # 0
      BY <1>1, <3>6, Counts
    <3> QED
      BY <3>5, <3>6, <3>8, <3>9 DEF NewSym
  <2> QED
    BY <2>1, <2>2
<1>9. Means(m.sym, l, r.sym)
  <2>1. r.sym # 0
    BY <1>8 DEF NewSym
  <2>2. m.sym = old_to_new_syms[r.sym] /\ old_to_new_syms[r.sym] # 0
    BY <1>8, <2>1 DEF NewSym
  <2> QED
    BY <1>1, <1>2, <1>8, <2>2 DEF MapInv, MapOf
<1> QED
  BY <1>1, <1>5, <1>7, <1>8, <1>9 DEF Moved

LEMMA RelocsPatched ==
  ASSUME OnceIsApart, TypesInv, PartsInv, MergeInv, TiledInv, MapInv, RelocsInv, O!Next, O!Patch,
         pc' # "failed", turn <= Len(O!Current.secs), NEW s, s = sm_table[turn].s, Patches(s),
         NEW j \in DOMAIN secs
  PROVE  RelocsOk(j)'
<1>1. Grows /\ pc = "patch" /\ pc \in O!Loops /\ loads' = loads /\ turn' = turn + 1 /\ turn \in Nat /\ pc' = pc
  BY NextGrows DEF O!Patch, O!Loops, TypesInv, LoadedInv, Patches
<1>2. PICK l, h, d, z : l = Len(loads) /\ h = turn /\ d = sm_table[turn].offset /\ z = O!sh
  OBVIOUS
<1>3. SectionOf(l, h) = z /\ l \in DOMAIN loads /\ O!Current = O!ObjectOf(l) /\ z.type = "rela"
      /\ h \in DOMAIN O!Current.secs /\ z = O!Current.secs[h]
  BY <1>1, <1>2, ShIs DEF TypesInv, Patches, O!sh
<1>4. Taken(h) /\ d \in Nat
  <2>1. sm_table \in [DOMAIN O!Current.secs -> Merged]
    BY <1>1 DEF TypesInv, LocalsInv
  <2>2. MergedAs(h)
    BY <1>1, <1>3, <2>1 DEF MergeInv
  <2>3. sm_table[h].s # 0
    BY <1>2, Counts DEF Patches, TypesInv, TableInv
  <2> QED
    BY <1>2, <1>3, <2>1, <2>2, <2>3 DEF MergedAs, Ignored, Skipped, Merged
<1>5. PICK c : PartIs(s, c, l, h) /\ secs[s].parts[c].off = d
  BY <1>2, <1>4 DEF Taken
<1>6. PICK w : w = Len(z.rels)
  OBVIOUS
<1>7. d + w = Len(secs[s].rels) /\ Extent(s, c) = w /\ secs[s].type = "rela" /\ Stop(s, c) = d + w
      /\ Total(s) = d + w /\ w \in Nat
  <2>1. d + w = Len(secs[s].rels) /\ secs[s].type = "rela"
    BY <1>2, <1>3, <1>4, <1>6 DEF Taken
  <2>2. Extent(s, c) = w
    BY <1>3, <1>5, <1>6, <2>1 DEF Extent, PartIs
  <2>3. Extent(s, c) \in Nat
    BY <1>5, PartTyped DEF PartIs
  <2> QED
    BY <1>5, <2>1, <2>2, <2>3 DEF Stop, Total
<1>8. SUFFICES ASSUME secs[j].type = "rela", NEW a, a \in DOMAIN secs[j].parts,
                      NEW q, q \in DOMAIN RelocsIn(j, a)
               PROVE  RelocOf(j, a, q)'
  <2>1. DOMAIN secs'[j].parts = DOMAIN secs[j].parts /\ secs'[j].type = secs[j].type
    BY PatchKeeps
  <2>2. \A a \in DOMAIN secs[j].parts : RelocsIn(j, a)' = RelocsIn(j, a)
    BY <1>1, RelocsInStay
  <2> QED
    BY <2>1, <2>2 DEF RelocsOk
<1>9. RelocOf(j, a, q)
  BY <1>1, <1>8 DEF RelocsInv
<1>10. PICK p, k : p = secs[j].parts[a] /\ k = p.off + q
  OBVIOUS
<1>11. /\ q \in Nat \ {0} /\ k \in DOMAIN secs[j].rels /\ k \in Nat /\ p.off \in Nat
       /\ k <= Stop(j, a) /\ secs'[j].parts[a] = p /\ RelocAt(j, a, q) = secs[j].rels[k]
       /\ RelocAt(j, a, q)' = secs'[j].rels[k]
       /\ p.load \in DOMAIN loads /\ p.sec \in DOMAIN O!ObjectOf(p.load).secs
       /\ SectionOf(p.load, p.sec).name = secs[j].name
  <2>1. secs'[j].parts[a] = p
    BY <1>1, <1>8, <1>10 DEF Grows
  <2> QED
    BY <1>8, <1>10, <2>1, RelocPlace DEF RelocAt, PartsInv, Fits
<1>12. CASE p.load = l /\ p.sec = h
  <2>1. j = s /\ a = c
    <3>1. secs[j].name = z.name /\ secs[s].name = z.name
      BY <1>2, <1>3, <1>4, <1>11, <1>12 DEF Taken
    <3>2. j = s
      BY <1>5, <3>1 DEF TypesInv, TableInv, PartIs
    <3>3. a \in DOMAIN secs[s].parts /\ c \in DOMAIN secs[s].parts
          /\ secs[s].parts[a].load = secs[s].parts[c].load /\ secs[s].parts[a].sec = secs[s].parts[c].sec
          /\ s \in DOMAIN secs
      BY <1>5, <1>8, <1>10, <1>12, <3>2 DEF PartIs
    <3> QED
      BY <3>2, <3>3 DEF TiledInv, Apart
  <2>2. p.off = d /\ k > d /\ RelocsIn(j, a) = z.rels
    <3>1. p.off = d
      BY <1>5, <1>10, <2>1
    <3> QED
      BY <1>3, <1>4, <1>10, <1>11, <1>12, <3>1 DEF RelocsIn
  <2>3. ~ Passed(l, h)
    BY <1>1, <1>2 DEF Passed
  <2>4. PICK r : r = z.rels[q]
    OBVIOUS
  <2>5. secs[s].rels[k] = r
    BY <1>9, <1>10, <1>11, <1>12, <2>1, <2>2, <2>3, <2>4 DEF RelocOf
  <2>6. /\ secs'[s].rels[k] = [at |-> r.at + sm_table[z.info].offset, sym |-> NewSym(r)]
        /\ r.sym \in 0 .. Len(O!Current.syms) /\ (NewSym(r) # 0 \/ once)
    BY <1>2, <1>11, <2>1, <2>2, <2>5 DEF Patches
  <2>7. PICK m : m = [at |-> r.at + sm_table[z.info].offset, sym |-> NewSym(r)]
    OBVIOUS
  <2>8. Moved(m, l, h, q)
    BY <1>1, <1>2, <1>3, <1>8, <2>2, <2>4, <2>6, <2>7, PatchMoves
  <2>9. Moved(m, l, h, q)'
    BY <1>3, <2>8, MovedStays
  <2>10. Passed(l, h)'
    BY <1>1, <1>2 DEF Passed
  <2>11. RelocAt(j, a, q)' = m
    BY <1>11, <2>1, <2>6, <2>7
  <2> QED
    BY <1>11, <1>12, <2>9, <2>10, <2>11 DEF RelocOf
<1>13. CASE ~ (p.load = l /\ p.sec = h)
  <2>1. p.sec \in Nat
    BY <1>8, <1>10, PartTyped DEF LinkedPart
  <2>2. Passed(p.load, p.sec)' <=> Passed(p.load, p.sec)
    BY <1>1, <1>2, <1>13, <2>1 DEF Passed
  <2>3. secs'[j].rels[k] = secs[j].rels[k]
    <3>1. CASE j # s
      BY <3>1 DEF Patches
    <3>2. CASE j = s
      <4>1. a # c
        BY <1>5, <1>10, <1>13, <3>2 DEF PartIs
      <4>2. a \in Nat /\ c \in Nat /\ Stop(s, a) \in Nat
        BY <1>5, <1>8, <3>2, PartTyped DEF PartIs
      <4>3. Tiled(s) /\ c \in DOMAIN secs[s].parts
        BY <1>5 DEF TiledInv, PartIs
      <4>4. PICK x : x = Stop(s, a)
        OBVIOUS
      <4>5. CASE a < c
        <5>1. x <= d
          BY <1>5, <1>8, <3>2, <4>3, <4>4, <4>5 DEF Tiled
        <5>2. k <= d
          BY <1>4, <1>11, <3>2, <4>2, <4>4, <5>1
        <5> QED
          BY <1>2, <1>11, <3>2, <5>2 DEF Patches
      <4>6. CASE c < a
        <5>1. d + w <= p.off /\ x <= d + w
          BY <1>5, <1>7, <1>8, <1>10, <3>2, <4>3, <4>4, <4>6 DEF Tiled
        <5>2. k <= x
          BY <1>11, <3>2, <4>4
        <5> QED
          BY <1>4, <1>7, <1>10, <1>11, <4>2, <4>4, <5>1, <5>2
      <4> QED
        BY <4>1, <4>2, <4>5, <4>6
    <3> QED
      BY <3>1, <3>2
  <2>4. RelocAt(j, a, q)' = RelocAt(j, a, q)
    BY <1>11, <2>3
  <2> QED
    BY <1>8, <1>9, <1>10, <2>2, <2>4, RelocStays
<1> QED
  BY <1>12, <1>13

LEMMA RelocsNext ==
  ASSUME OnceIsApart, TypesInv, PartsInv, MergeInv, TiledInv, MapInv, RelocsInv, O!Next, pc # "failed"
  PROVE  RelocsInv'
<1> SUFFICES ASSUME pc' # "failed" PROVE \A j \in DOMAIN secs' : RelocsOk(j)'
  BY DEF RelocsInv, RelocsOk
<1>1. \A j \in DOMAIN secs : RelocsOk(j)
  BY DEF RelocsInv, RelocsOk
<1>2. ASSUME NEW M, M = DOMAIN loads,
             \A l \in M : \A h \in DOMAIN O!ObjectOf(l).secs : Passed(l, h)' <=> Passed(l, h),
             NEW j \in DOMAIN secs, secs'[j].parts = secs[j].parts, secs'[j].rels = secs[j].rels
      PROVE  RelocsOk(j)'
  BY <1>1, <1>2, RelocsOkStays
<1>3. PICK M : M = DOMAIN loads
  OBVIOUS
<1>4. CASE \E o : Begins(o)
  <2>1. PICK o : Begins(o)
    BY <1>4
  <2>2. secs' = secs /\ pc \notin O!Loops /\ \A l \in M : l < Len(loads') /\ l \in Nat /\ Len(loads') \in Nat
    BY <1>3, <2>1, LoadAppends, Counts DEF Begins, O!Load, O!linked, TypesInv, LoadedInv
  <2>3. \A l \in M : l # Len(loads')
    BY <2>2
  <2>4. \A l \in M : \A h : Passed(l, h)' /\ Passed(l, h)
    BY <2>2, <2>3 DEF Passed
  <2> QED
    BY <1>2, <1>3, <2>2, <2>4
<1>5. CASE Idles
  <2>1. \A l \in M : \A h : Passed(l, h)' /\ Passed(l, h)
    BY <1>5 DEF Idles, Passed
  <2> QED
    BY <1>2, <1>3, <1>5, <2>1 DEF Idles
<1>6. CASE O!Return
  <2>1. pc = "patch" /\ turn > Len(O!Current.secs) /\ secs' = secs /\ pc' \notin O!Loops /\ turn \in Nat
        /\ pc \in O!Loops
    BY <1>6 DEF O!Return, O!linked, O!Loops, TypesInv, LoadedInv
  <2>2. \A h \in DOMAIN O!Current.secs : h < turn
    <3>1. O!Current.secs \in Seq(ObjectSection)
      BY <2>1, CurrentTyped DEF TypesInv
    <3>2. PICK m : m = Len(O!Current.secs)
      OBVIOUS
    <3>3. DOMAIN O!Current.secs = 1 .. m /\ m \in Nat
      BY <3>1, <3>2, Counts
    <3> QED
      BY <2>1, <3>2, <3>3
  <2>3. \A l \in M : \A h \in DOMAIN O!ObjectOf(l).secs : Passed(l, h)' /\ Passed(l, h)
    BY <2>1, <2>2, CurrentIs DEF Passed, TypesInv
  <2> QED
    BY <1>2, <1>3, <2>1, <2>3
<1>7. CASE O!SymbolsAdded \/ O!AddSymbol \/ (O!LinkInfo /\ SetsInfo)
          \/ (O!Place /\ (O!Ignore \/ O!SkipOnce))
  <2>1. /\ loads' = loads /\ pc \in O!Loops /\ pc' \in O!Loops /\ pc # "patch"
        /\ pc' = "patch" => turn' = 1
    BY <1>7 DEF O!SymbolsAdded, O!AddSymbol, O!LinkInfo, O!Place, O!Ignore, O!SkipOnce, O!Loops
  <2>2. \A l \in M : \A h \in DOMAIN O!ObjectOf(l).secs : h \in Nat \ {0}
    BY <1>3, SymbolsShape, Counts DEF TypesInv
  <2>3. \A l \in M : \A h \in DOMAIN O!ObjectOf(l).secs : Passed(l, h)' <=> Passed(l, h)
    BY <2>1, <2>2 DEF Passed
  <2>4. DOMAIN secs' = DOMAIN secs
        /\ \A j \in DOMAIN secs : secs'[j].parts = secs[j].parts /\ secs'[j].rels = secs[j].rels
    BY <1>7 DEF O!SymbolsAdded, O!AddSymbol, SetsInfo, O!Ignore, O!SkipOnce, O!linked
  <2> QED
    BY <1>2, <1>3, <2>3, <2>4
<1>8. CASE O!Place /\ \E x, s, new : Takes(x, s, new)
  <2>1. PICK x, s, new : Takes(x, s, new)
    BY <1>8
  <2>2. loads' = loads /\ pc = "place" /\ pc' = "place" /\ turn <= Len(O!Current.secs)
    BY <1>8, <2>1 DEF O!Place, Takes
  <2>3. RelocsOk(s)'
    BY <2>1, <2>2, RelocsTook
  <2>4. \A l \in M : \A h : Passed(l, h)' <=> Passed(l, h)
    BY <2>2 DEF Passed, O!Loops
  <2>5. DOMAIN secs' = DOMAIN secs \cup {s} /\ \A j \in DOMAIN secs : j # s => secs'[j] = secs[j]
    BY <2>1 DEF Takes
  <2> QED
    BY <1>2, <1>3, <2>3, <2>4, <2>5
<1>9. CASE O!Patch
  <2>1. pc = "patch" /\ turn <= Len(O!Current.secs) /\ loads' = loads /\ turn' = turn + 1 /\ turn \in Nat
        /\ pc \in O!Loops
    BY <1>9 DEF O!Patch, O!Loops, TypesInv, LoadedInv
  <2>2. CASE UNCHANGED <<secs, pc>> /\ ~ (sm_table[turn].s # 0 /\ O!sh.type = "rela")
    <3>1. PICK l, h : l = Len(loads) /\ h = turn
      OBVIOUS
    <3>2. SectionOf(l, h) = O!sh /\ h \in DOMAIN O!Current.secs /\ O!Current = O!ObjectOf(l)
          /\ O!sh = O!Current.secs[h]
      BY <2>1, <3>1, ShIs DEF TypesInv, O!sh
    <3>3. CASE O!sh.type # "rela"
      <4>1. ASSUME NEW j \in DOMAIN secs, secs[j].type = "rela", NEW a \in DOMAIN secs[j].parts,
                   NEW p, p = secs[j].parts[a]
            PROVE  Passed(p.load, p.sec)' <=> Passed(p.load, p.sec)
        <5>1. SectionOf(p.load, p.sec).type = "rela" /\ p.sec \in Nat
          BY <4>1, PartTyped DEF PartsInv, Fits, LinkedPart
        <5>2. ~ (p.load = l /\ p.sec = h)
          BY <3>2, <3>3, <5>1
        <5> QED
          BY <2>1, <2>2, <3>1, <5>1, <5>2 DEF Passed
      <4>2. ASSUME NEW j \in DOMAIN secs, secs[j].type = "rela", NEW a \in DOMAIN secs[j].parts,
                   NEW q \in DOMAIN RelocsIn(j, a)
            PROVE  RelocOf(j, a, q)'
        <5>1. PICK p : p = secs[j].parts[a]
          OBVIOUS
        <5>2. RelocAt(j, a, q)' = RelocAt(j, a, q)
          BY <2>2 DEF RelocAt
        <5> QED
          BY <1>1, <4>1, <4>2, <5>1, <5>2, RelocStays DEF RelocsOk
      <4>3. Grows
        BY NextGrows
      <4> QED
        BY <2>2, <4>2, <4>3, RelocsInStay DEF RelocsOk
    <3>4. CASE O!sh.type = "rela"
      <4>1. sm_table[h].s = 0 /\ sm_table \in [DOMAIN O!Current.secs -> Merged]
        BY <2>1, <2>2, <3>1, <3>4 DEF TypesInv, LocalsInv
      <4>2. MergedAs(h)
        BY <2>1, <3>2, <4>1 DEF MergeInv
      <4>3. O!Current.secs[h].name \notin OnceNames /\ O!Current.secs[h].type \in O!Handled
        BY <2>1, <3>2, <3>4, RelaIs DEF TypesInv, O!Handled
      <4>4. 0 \notin DOMAIN secs
        BY Counts DEF TypesInv, TableInv
      <4> QED
        BY <4>1, <4>2, <4>3, <4>4 DEF MergedAs, Ignored, Skipped, Taken
    <3> QED
      BY <3>3, <3>4
  <2>3. CASE Patches(sm_table[turn].s)
    <3>1. DOMAIN secs' = DOMAIN secs
      BY <2>3 DEF Patches
    <3> QED
      BY <1>9, <2>1, <2>3, <3>1, RelocsPatched
  <2> QED
    BY <1>9, <2>2, <2>3, PatchIs
<1> QED
  BY <1>4, <1>5, <1>6, <1>7, <1>8, <1>9, StepIs

-----------------------------------------------------------------------------
(* Between the loads: relocations and what the objects want are matched.   *)

Settled == pc \notin O!Loops /\ pc # "failed"
FollowInv == TypesInv /\ PartsInv /\ TiledInv /\ LieInv /\ ThereInv /\ InfoInv /\ RelocsInv

\* relocation q of part a of section j
IsReloc(j, a, q) ==
  /\ j \in DOMAIN secs /\ secs[j].type = "rela"
  /\ a \in DOMAIN secs[j].parts /\ q \in DOMAIN RelocsIn(j, a)
\* the section of the object it comes from, and what it was there
LoadOf(j, a) == secs[j].parts[a].load
SecOf(j, a) == secs[j].parts[a].sec
From(j, a) == SectionOf(LoadOf(j, a), SecOf(j, a))
Was(j, a, q) == RelocsIn(j, a)[q]
\* the number it has in the linked section, and where it belongs
NumberOf(j, a, q) == secs[j].parts[a].off + q
WantOf(j, a, q) ==
  [s |-> secs[j].info, at |-> RelocAt(j, a, q).at, load |-> LoadOf(j, a), sym |-> Was(j, a, q).sym]

LEMMA FromTyped ==
  ASSUME TypesInv, PartsInv, NEW j, NEW a, NEW q, IsReloc(j, a, q)
  PROVE  /\ LoadOf(j, a) \in DOMAIN loads /\ SecOf(j, a) \in DOMAIN O!ObjectOf(LoadOf(j, a)).secs
         /\ From(j, a) \in ObjectSection /\ From(j, a).type = "rela" /\ From(j, a).name = secs[j].name
         /\ O!ObjectOf(LoadOf(j, a)) \in O!ObjectsOf(program)
         /\ O!RelocationsFit(O!ObjectOf(LoadOf(j, a)))
         /\ Was(j, a, q) = From(j, a).rels[q] /\ q \in DOMAIN From(j, a).rels
         /\ Was(j, a, q) \in [at : Nat, sym : Nat]
         /\ From(j, a) \in O!Range(O!ObjectOf(LoadOf(j, a)).secs)
<1>1. Fits(j, a)
  BY DEF IsReloc, PartsInv
<1>2. /\ LoadOf(j, a) \in DOMAIN loads /\ SecOf(j, a) \in DOMAIN O!ObjectOf(LoadOf(j, a)).secs
      /\ From(j, a).type = "rela" /\ From(j, a).name = secs[j].name
  BY <1>1 DEF Fits, LoadOf, SecOf, From, IsReloc
<1>3. O!ObjectOf(LoadOf(j, a)) \in O!ObjectsOf(program) /\ program \in Programs
  BY <1>2, LoadsAre DEF TypesInv, LoadedInv
<1>4. O!RelocationsFit(O!ObjectOf(LoadOf(j, a)))
  BY <1>3, ObjectShape
<1>5. From(j, a) \in ObjectSection
  BY <1>2, SymbolsShape, Elements DEF TypesInv, From, SectionOf
<1>6. Was(j, a, q) = From(j, a).rels[q] /\ q \in DOMAIN From(j, a).rels
  BY DEF Was, RelocsIn, From, LoadOf, SecOf, IsReloc
<1>7. Was(j, a, q) \in [at : Nat, sym : Nat]
  <2>1. From(j, a).rels \in Seq([at : Nat, sym : Nat])
    BY <1>5 DEF ObjectSection
  <2>2. PICK w : w = From(j, a).rels
    OBVIOUS
  <2>3. w[q] \in [at : Nat, sym : Nat]
    BY <1>6, <2>1, <2>2, Elements
  <2> QED
    BY <1>6, <2>2, <2>3
<1>8. From(j, a) \in O!Range(O!ObjectOf(LoadOf(j, a)).secs)
  BY <1>2 DEF From, SectionOf, O!Range
<1> QED
  BY <1>2, <1>3, <1>4, <1>5, <1>6, <1>7, <1>8

\* a relocation lies in a part of the section it is for
LEMMA RelocLies ==
  ASSUME FollowInv, Settled, NEW j, NEW a, NEW q, IsReloc(j, a, q), NEW s, s = secs[j].info
  PROVE  /\ s \in DOMAIN secs /\ secs[s].type \in {"bits", "nobits"}
         /\ Was(j, a, q).sym \in DOMAIN O!ObjectOf(LoadOf(j, a)).syms
         /\ Means(RelocAt(j, a, q).sym, LoadOf(j, a), Was(j, a, q).sym)
         /\ \E b : /\ PartIs(s, b, LoadOf(j, a), From(j, a).info)
                   /\ RelocAt(j, a, q).at = secs[s].parts[b].off + Was(j, a, q).at
                   /\ Was(j, a, q).at < secs[s].parts[b].size
<1>1. PICK l, h : l = LoadOf(j, a) /\ h = SecOf(j, a)
  OBVIOUS
<1>2. /\ l \in DOMAIN loads /\ h \in DOMAIN O!ObjectOf(l).secs /\ From(j, a) = SectionOf(l, h)
      /\ From(j, a).type = "rela" /\ O!RelocationsFit(O!ObjectOf(l))
      /\ Was(j, a, q) = From(j, a).rels[q] /\ q \in DOMAIN From(j, a).rels
  BY <1>1, FromTyped DEF FollowInv, From
<1>3. /\ From(j, a).info \in DOMAIN O!ObjectOf(l).secs
      /\ SectionOf(l, From(j, a).info).type \in {"bits", "nobits"}
      /\ Was(j, a, q).at < SectionOf(l, From(j, a).info).size
  BY <1>2 DEF O!RelocationsFit, SectionOf
<1>4. Passed(l, h)
  BY DEF Settled, Passed
<1>5. Moved(RelocAt(j, a, q), l, h, q)
  BY <1>1, <1>4 DEF FollowInv, RelocsInv, RelocOf, IsReloc, Settled, LoadOf, SecOf
<1>6. PICK k, b : PartIs(k, b, l, From(j, a).info)
                  /\ RelocAt(j, a, q).at = secs[k].parts[b].off + Was(j, a, q).at
  BY <1>2, <1>5 DEF Moved
<1>7. /\ s \in DOMAIN secs /\ TargetName(l, h) = secs[s].name
  <2>1. InfoOf(j) /\ \A m : ~ New(j, m)
    BY DEF FollowInv, InfoInv, Settled, New, O!Loops, IsReloc
  <2> QED
    BY <1>1, <2>1 DEF InfoOf, IsReloc, LoadOf, SecOf
<1>8. k \in DOMAIN secs /\ b \in DOMAIN secs[k].parts /\ Fits(k, b) /\ secs[k].parts[b].load = l
      /\ secs[k].parts[b].sec = From(j, a).info
  BY <1>6 DEF PartIs, FollowInv, PartsInv
<1>9. /\ SectionOf(l, From(j, a).info).name = secs[k].name /\ SectionOf(l, From(j, a).info).type = secs[k].type
      /\ SectionOf(l, From(j, a).info).size = secs[k].parts[b].size
  BY <1>8 DEF Fits
<1>10. k = s
  BY <1>2, <1>7, <1>8, <1>9 DEF TargetName, FollowInv, TypesInv, TableInv
<1>11. /\ Was(j, a, q).sym \in DOMAIN O!ObjectOf(l).syms
       /\ Means(RelocAt(j, a, q).sym, l, Was(j, a, q).sym)
  BY <1>2, <1>5 DEF Moved
<1> QED
  BY <1>1, <1>3, <1>6, <1>7, <1>9, <1>10, <1>11

LEMMA RelocWanted ==
  ASSUME FollowInv, Settled, NEW j, NEW a, NEW q, IsReloc(j, a, q)
  PROVE  /\ secs[j].info \in DOMAIN secs \ O!Relas
         /\ WantOf(j, a, q) \in O!Wanted(secs[j].info)
<1>1. PICK s, l : s = secs[j].info /\ l = LoadOf(j, a)
  OBVIOUS
<1>2. s \in DOMAIN secs /\ secs[s].type \in {"bits", "nobits"}
  BY <1>1, RelocLies
<1>3. PICK b : /\ PartIs(s, b, l, From(j, a).info)
               /\ RelocAt(j, a, q).at = secs[s].parts[b].off + Was(j, a, q).at
  BY <1>1, RelocLies
<1>4. /\ From(j, a) \in O!Range(O!ObjectOf(l).secs) /\ From(j, a).type = "rela"
      /\ Was(j, a, q) \in O!Range(From(j, a).rels)
  BY <1>1, FromTyped DEF FollowInv, O!Range
<1>5. PICK p : p = secs[s].parts[b]
  OBVIOUS
<1>6. p \in O!Range(secs[s].parts) /\ p.load = l /\ p.sec = From(j, a).info
  BY <1>3, <1>5 DEF PartIs, O!Range
<1>7. Was(j, a, q) \in O!RelocsOf(O!ObjectOf(p.load), p.sec)
  BY <1>4, <1>6 DEF O!RelocsOf
<1>8. WantOf(j, a, q) =
        [s |-> s, at |-> p.off + Was(j, a, q).at, load |-> p.load, sym |-> Was(j, a, q).sym]
  BY <1>1, <1>3, <1>5, <1>6 DEF WantOf
<1>9. WantOf(j, a, q) \in O!Wanted(s)
  <2>1. PICK w, r : w = WantOf(j, a, q) /\ r = Was(j, a, q)
    OBVIOUS
  <2>2. w = [s |-> s, at |-> p.off + r.at, load |-> p.load, sym |-> r.sym]
    BY <1>8, <2>1
  <2>3. r \in O!RelocsOf(O!ObjectOf(p.load), p.sec)
    BY <1>7, <2>1
  <2>4. w \in O!Wanted(s)
    BY <1>6, <2>2, <2>3 DEF O!Wanted
  <2> QED
    BY <2>1, <2>4
<1> QED
  BY <1>1, <1>2, <1>9 DEF O!Relas

\* what is wanted is there
LEMMA WantedThere ==
  ASSUME FollowInv, Settled, NEW s \in DOMAIN secs \ O!Relas, NEW w \in O!Wanted(s)
  PROVE  \E j, a, q : IsReloc(j, a, q) /\ w = WantOf(j, a, q)
<1>1. PICK p \in O!Range(secs[s].parts) : \E r \in O!RelocsOf(O!ObjectOf(p.load), p.sec) :
        w = [s |-> s, at |-> p.off + r.at, load |-> p.load, sym |-> r.sym]
  BY DEF O!Wanted
<1>2. PICK r \in O!RelocsOf(O!ObjectOf(p.load), p.sec) :
        w = [s |-> s, at |-> p.off + r.at, load |-> p.load, sym |-> r.sym]
  BY <1>1
<1>3. PICK l : l = p.load
  OBVIOUS
<1>4. PICK b \in DOMAIN secs[s].parts : secs[s].parts[b] = p
  BY <1>1 DEF O!Range
<1>5. Fits(s, b)
  BY <1>4 DEF FollowInv, PartsInv
<1>6. l \in DOMAIN loads /\ p.sec \in DOMAIN O!ObjectOf(l).secs /\ SectionOf(l, p.sec).name = secs[s].name
  BY <1>3, <1>4, <1>5 DEF Fits
<1>7. PICK x \in O!Range(O!ObjectOf(l).secs) : x.type = "rela" /\ x.info = p.sec /\ r \in O!Range(x.rels)
  BY <1>2, <1>3 DEF O!RelocsOf
<1>8. PICK h \in DOMAIN O!ObjectOf(l).secs : SectionOf(l, h) = x
  BY <1>7 DEF O!Range, SectionOf
<1>9. PICK q \in DOMAIN x.rels : x.rels[q] = r
  BY <1>7 DEF O!Range
<1>10. x.name \notin OnceNames /\ x.type \in O!Handled
  <2>1. O!ObjectOf(l) \in O!ObjectsOf(program) /\ program \in Programs
    BY <1>6, LoadsAre DEF FollowInv, TypesInv, LoadedInv
  <2>2. O!RelocationsFit(O!ObjectOf(l))
    BY <2>1, ObjectShape
  <2> QED
    BY <1>7, <1>8, <2>2 DEF O!RelocationsFit, O!Handled, SectionOf
<1>11. PICK j, a : PartIs(j, a, l, h)
  BY <1>6, <1>8, <1>10 DEF FollowInv, ThereInv, Settled
<1>12. secs[j].type = "rela"
  <2>1. Fits(j, a)
    BY <1>11 DEF PartIs, FollowInv, PartsInv
  <2> QED
    BY <1>7, <1>8, <1>11, <2>1 DEF Fits, PartIs
<1>13. IsReloc(j, a, q) /\ LoadOf(j, a) = l /\ From(j, a) = x /\ Was(j, a, q) = r
  BY <1>8, <1>9, <1>11, <1>12 DEF IsReloc, RelocsIn, PartIs, LoadOf, SecOf, From, Was
<1>14. PICK k : k = secs[j].info
  OBVIOUS
<1>15. k \in DOMAIN secs
       /\ \E c : PartIs(k, c, l, p.sec) /\ RelocAt(j, a, q).at = secs[k].parts[c].off + r.at
  BY <1>7, <1>13, <1>14, RelocLies
<1>16. PICK c : PartIs(k, c, l, p.sec) /\ RelocAt(j, a, q).at = secs[k].parts[c].off + r.at
  BY <1>15
<1>17. k = s
  <2>1. Fits(k, c)
    BY <1>15, <1>16 DEF PartIs, FollowInv, PartsInv
  <2>2. secs[k].name = secs[s].name
    BY <1>6, <1>16, <2>1 DEF Fits, PartIs
  <2> QED
    BY <1>15, <2>2 DEF FollowInv, TypesInv, TableInv
<1>18. c = b
  <2>1. c \in DOMAIN secs[s].parts /\ secs[s].parts[c].load = l /\ secs[s].parts[c].sec = p.sec
    BY <1>16, <1>17 DEF PartIs
  <2>2. Apart(s)
    BY DEF FollowInv, TiledInv
  <2> QED
    BY <1>3, <1>4, <2>1, <2>2 DEF Apart
<1>19. w = WantOf(j, a, q)
  BY <1>2, <1>3, <1>4, <1>13, <1>14, <1>16, <1>17, <1>18 DEF WantOf
<1> QED
  BY <1>13, <1>19

\* parts that share a place are one
LEMMA PartAt ==
  ASSUME TypesInv, PartsInv, TiledInv, NEW s \in DOMAIN secs,
         NEW b \in DOMAIN secs[s].parts, NEW c \in DOMAIN secs[s].parts, NEW v \in Nat,
         secs[s].parts[b].off <= v, v < Stop(s, b), secs[s].parts[c].off <= v, v < Stop(s, c)
  PROVE  b = c
<1>1. b \in Nat /\ c \in Nat /\ Stop(s, b) \in Nat /\ Stop(s, c) \in Nat
      /\ secs[s].parts[b].off \in Nat /\ secs[s].parts[c].off \in Nat
  BY PartTyped
<1>2. Tiled(s)
  BY DEF TiledInv
<1>3. CASE b < c
  <2>1. Stop(s, b) <= secs[s].parts[c].off
    BY <1>2, <1>3 DEF Tiled
  <2>2. PICK x, y : x = Stop(s, b) /\ y = secs[s].parts[c].off
    OBVIOUS
  <2> QED
    BY <1>1, <2>1, <2>2
<1>4. CASE c < b
  <2>1. Stop(s, c) <= secs[s].parts[b].off
    BY <1>2, <1>4 DEF Tiled
  <2>2. PICK x, y : x = Stop(s, c) /\ y = secs[s].parts[b].off
    OBVIOUS
  <2> QED
    BY <1>1, <2>1, <2>2
<1> QED
  BY <1>1, <1>3, <1>4

\* no two relocations belong in one place for one symbol
LEMMA RelocOnce ==
  ASSUME FollowInv, Settled, NEW j, NEW a, NEW q, IsReloc(j, a, q),
         NEW k, NEW c, NEW m, IsReloc(k, c, m), WantOf(j, a, q) = WantOf(k, c, m)
  PROVE  j = k /\ a = c /\ q = m
<1>1. PICK s, v, l : s = secs[j].info /\ v = RelocAt(j, a, q).at /\ l = LoadOf(j, a)
  OBVIOUS
<1>2. s = secs[k].info /\ v = RelocAt(k, c, m).at /\ l = LoadOf(k, c) /\ Was(j, a, q).sym = Was(k, c, m).sym
  BY <1>1 DEF WantOf
<1>3. PICK b : PartIs(s, b, l, From(j, a).info) /\ v = secs[s].parts[b].off + Was(j, a, q).at
               /\ Was(j, a, q).at < secs[s].parts[b].size
  BY <1>1, RelocLies
<1>4. PICK d : PartIs(s, d, l, From(k, c).info) /\ v = secs[s].parts[d].off + Was(k, c, m).at
               /\ Was(k, c, m).at < secs[s].parts[d].size
  BY <1>2, RelocLies
<1>5. Was(j, a, q) \in [at : Nat, sym : Nat] /\ Was(k, c, m) \in [at : Nat, sym : Nat]
  BY FromTyped DEF FollowInv
<1>6. s \in DOMAIN secs /\ secs[s].type # "rela"
  BY <1>1, RelocLies
<1>7. /\ secs[s].parts[b].off \in Nat /\ secs[s].parts[b].size \in Nat
      /\ secs[s].parts[d].off \in Nat /\ secs[s].parts[d].size \in Nat
      /\ Stop(s, b) = secs[s].parts[b].off + secs[s].parts[b].size
      /\ Stop(s, d) = secs[s].parts[d].off + secs[s].parts[d].size
  BY <1>3, <1>4, <1>6, PartTyped DEF PartIs, FollowInv, Stop, Extent
<1>8. PICK e, f, y, z : e = secs[s].parts[b].off /\ f = secs[s].parts[b].size
                        /\ y = secs[s].parts[d].off /\ z = secs[s].parts[d].size
  OBVIOUS
<1>9. PICK g, h : g = Was(j, a, q).at /\ h = Was(k, c, m).at
  OBVIOUS
<1>10. e \in Nat /\ f \in Nat /\ y \in Nat /\ z \in Nat /\ g \in Nat /\ h \in Nat
       /\ v = e + g /\ g < f /\ v = y + h /\ h < z /\ Stop(s, b) = e + f /\ Stop(s, d) = y + z
  BY <1>3, <1>4, <1>5, <1>7, <1>8, <1>9
<1>11. v \in Nat /\ e <= v /\ v < e + f /\ y <= v /\ v < y + z
  BY <1>10
<1>12. b = d
  BY <1>3, <1>4, <1>6, <1>8, <1>10, <1>11, PartAt DEF PartIs, FollowInv
<1>13. g = h
  BY <1>8, <1>10, <1>12
<1>14. Was(j, a, q) = Was(k, c, m) /\ From(j, a).info = From(k, c).info
  <2>1. PICK r, x : r = Was(j, a, q) /\ x = Was(k, c, m)
    OBVIOUS
  <2>2. r \in [at : Nat, sym : Nat] /\ x \in [at : Nat, sym : Nat] /\ r.at = x.at /\ r.sym = x.sym
    BY <1>2, <1>5, <1>9, <1>13, <2>1
  <2>3. r = x
    BY <2>2
  <2>4. From(j, a).info = From(k, c).info
    BY <1>3, <1>4, <1>12 DEF PartIs
  <2> QED
    BY <2>1, <2>3, <2>4
<1>15. PICK n1, n2 : n1 = SecOf(j, a) /\ n2 = SecOf(k, c)
  OBVIOUS
<1>16. /\ n1 \in DOMAIN O!ObjectOf(l).secs /\ n2 \in DOMAIN O!ObjectOf(l).secs
       /\ From(j, a) = O!ObjectOf(l).secs[n1] /\ From(k, c) = O!ObjectOf(l).secs[n2]
       /\ From(j, a).type = "rela" /\ From(k, c).type = "rela"
       /\ Was(j, a, q) = From(j, a).rels[q] /\ Was(k, c, m) = From(k, c).rels[m]
       /\ q \in DOMAIN From(j, a).rels /\ m \in DOMAIN From(k, c).rels
       /\ From(j, a).name = secs[j].name /\ From(k, c).name = secs[k].name
       /\ O!RelocationsFit(O!ObjectOf(l))
  <2>1. TypesInv /\ PartsInv
    BY DEF FollowInv
  <2>2. /\ n1 \in DOMAIN O!ObjectOf(l).secs /\ From(j, a) = O!ObjectOf(l).secs[n1]
        /\ From(j, a).type = "rela" /\ Was(j, a, q) = From(j, a).rels[q]
        /\ q \in DOMAIN From(j, a).rels /\ From(j, a).name = secs[j].name
        /\ O!RelocationsFit(O!ObjectOf(l))
    BY <1>1, <1>15, <2>1, FromTyped DEF From, SectionOf
  <2>3. /\ n2 \in DOMAIN O!ObjectOf(l).secs /\ From(k, c) = O!ObjectOf(l).secs[n2]
        /\ From(k, c).type = "rela" /\ Was(k, c, m) = From(k, c).rels[m]
        /\ m \in DOMAIN From(k, c).rels /\ From(k, c).name = secs[k].name
    BY <1>2, <1>15, <2>1, FromTyped DEF From, SectionOf
  <2> QED
    BY <2>2, <2>3
<1>17. n1 = n2 /\ q = m
  <2>1. PICK o : o = O!ObjectOf(l)
    OBVIOUS
  <2>2. /\ o.secs[n1].info = o.secs[n2].info /\ o.secs[n1].rels[q] = o.secs[n2].rels[m]
        /\ n1 \in DOMAIN o.secs /\ n2 \in DOMAIN o.secs
        /\ o.secs[n1].type = "rela" /\ o.secs[n2].type = "rela"
        /\ q \in DOMAIN o.secs[n1].rels /\ m \in DOMAIN o.secs[n2].rels /\ O!RelocationsFit(o)
    BY <1>14, <1>16, <2>1
  <2> QED
    BY <2>2 DEF O!RelocationsFit
<1>18. j = k
  BY <1>16, <1>17 DEF IsReloc, FollowInv, TypesInv, TableInv
<1>19. a = c
  <2>1. Apart(j)
    BY DEF FollowInv, TiledInv, IsReloc
  <2> QED
    BY <1>1, <1>2, <1>15, <1>17, <1>18, <2>1 DEF Apart, IsReloc, LoadOf, SecOf
<1> QED
  BY <1>17, <1>18, <1>19

\* every place of a relocation is that of one relocation
LEMMA RelocPlaces ==
  ASSUME TypesInv, PartsInv, TiledInv
  PROVE  /\ \A x \in O!RelPlaces : \E j, a, q : IsReloc(j, a, q) /\ x = <<j, NumberOf(j, a, q)>>
         /\ \A j, a, q : IsReloc(j, a, q) => <<j, NumberOf(j, a, q)>> \in O!RelPlaces
         /\ \A j, a, q, c, m : IsReloc(j, a, q) /\ IsReloc(j, c, m) /\ NumberOf(j, a, q) = NumberOf(j, c, m)
              => a = c /\ q = m
<1>1. ASSUME NEW x \in O!RelPlaces
      PROVE  \E j, a, q : IsReloc(j, a, q) /\ x = <<j, NumberOf(j, a, q)>>
  <2>1. PICK j \in O!Relas : \E k \in DOMAIN secs[j].rels : x = <<j, k>>
    BY DEF O!RelPlaces
  <2>2. PICK k \in DOMAIN secs[j].rels : x = <<j, k>>
    BY <2>1
  <2>3. j \in DOMAIN secs /\ secs[j].type = "rela"
    BY <2>1 DEF O!Relas
  <2>4. PICK a \in DOMAIN secs[j].parts : secs[j].parts[a].off < k /\ k <= Stop(j, a)
    BY <2>3 DEF TiledInv, Tiled
  <2>5. /\ secs[j].parts[a].off \in Nat /\ Extent(j, a) \in Nat /\ secs[j].rels \in Seq([at : Nat, sym : Nat])
        /\ Extent(j, a) = Len(RelocsIn(j, a)) /\ RelocsIn(j, a) \in Seq([at : Nat, sym : Nat])
    <3>1. SectionOf(secs[j].parts[a].load, secs[j].parts[a].sec) \in ObjectSection
      BY <2>3, <2>4, PartTyped
    <3> QED
      BY <2>3, <2>4, <3>1, PartTyped DEF Extent, RelocsIn, ObjectSection
  <2>6. PICK u, w, q : u = secs[j].parts[a].off /\ w = Extent(j, a) /\ q = k - u
    OBVIOUS
  <2>7. k \in Nat
    BY <2>5, RelElements
  <2>8. q \in 1 .. w /\ u + q = k
    <3>1. u \in Nat /\ w \in Nat /\ u < k /\ k <= u + w
      BY <2>4, <2>5, <2>6 DEF Stop
    <3> QED
      BY <2>6, <2>7, <3>1
  <2>9. q \in DOMAIN RelocsIn(j, a)
    BY <2>5, <2>6, <2>8, Counts
  <2> QED
    BY <2>2, <2>3, <2>4, <2>6, <2>8, <2>9 DEF IsReloc, NumberOf
<1>2. ASSUME NEW j, NEW a, NEW q, IsReloc(j, a, q)
      PROVE  <<j, NumberOf(j, a, q)>> \in O!RelPlaces
  <2>1. NumberOf(j, a, q) \in DOMAIN secs[j].rels /\ j \in O!Relas
    BY <1>2, RelocPlace DEF IsReloc, NumberOf, O!Relas
  <2> QED
    BY <2>1 DEF O!RelPlaces
<1>3. ASSUME NEW j, NEW a, NEW q, NEW c, NEW m, IsReloc(j, a, q), IsReloc(j, c, m),
             NumberOf(j, a, q) = NumberOf(j, c, m)
      PROVE  a = c /\ q = m
  <2>1. PICK k, u, w : k = NumberOf(j, a, q) /\ u = secs[j].parts[a].off /\ w = secs[j].parts[c].off
    OBVIOUS
  <2>2. /\ q \in Nat \ {0} /\ m \in Nat \ {0} /\ u \in Nat /\ w \in Nat /\ k = u + q /\ k = w + m
        /\ k <= Stop(j, a) /\ k <= Stop(j, c) /\ Stop(j, a) \in Nat /\ Stop(j, c) \in Nat
    BY <1>3, <2>1, RelocPlace, PartTyped DEF IsReloc, NumberOf
  <2>3. PICK v, y, z : v = k - 1 /\ y = Stop(j, a) /\ z = Stop(j, c)
    OBVIOUS
  <2>4. v \in Nat /\ u <= v /\ v < y /\ w <= v /\ v < z
    BY <2>2, <2>3
  <2>5. a = c
    BY <1>3, <2>1, <2>3, <2>4, PartAt DEF IsReloc
  <2> QED
    BY <2>1, <2>2, <2>5
<1> QED
  BY <1>1, <1>2, <1>3

LEMMA SameCardinality == \A S : O!Cardinality(S) = Cardinality(S)
BY DEF O!Cardinality, Cardinality

LEMMA RelPlacesFinite ==
  ASSUME TypesInv
  PROVE  IsFiniteSet(O!RelPlaces)
<1>1. secs \in Seq(LinkedSection)
  BY DEF TypesInv, TableInv
<1>2. IsFiniteSet(O!Relas)
  <2>1. IsFiniteSet(DOMAIN secs)
    BY <1>1, Counts, FS_Interval
  <2>2. O!Relas \in SUBSET DOMAIN secs
    BY DEF O!Relas
  <2> QED
    BY <2>1, <2>2, FS_Subset
<1> DEFINE Places(j) == { <<j, k>> : k \in DOMAIN secs[j].rels }
           f == [j \in O!Relas |-> Places(j)]
           F == { Places(j) : j \in O!Relas }
<1>3. IsFiniteSet(F)
  <2>1. f \in Surjection(O!Relas, F)
    BY DEF Surjection
  <2> QED
    BY <1>2, <2>1, FS_Surjection
<1>4. ASSUME NEW j \in O!Relas PROVE IsFiniteSet(Places(j))
  <2>1. IsFiniteSet(DOMAIN secs[j].rels)
    <3>1. secs[j].rels \in Seq([at : Nat, sym : Nat])
      <4>1. secs[j] \in LinkedSection
        BY <1>1, Elements DEF O!Relas
      <4> QED
        BY <4>1 DEF LinkedSection
    <3>2. PICK w : w = secs[j].rels
      OBVIOUS
    <3>3. PICK m : m = Len(w)
      OBVIOUS
    <3>4. DOMAIN w = 1 .. m /\ m \in Int /\ 1 \in Int
      BY <3>1, <3>2, <3>3, Counts
    <3>5. IsFiniteSet(1 .. m)
      BY <3>4, FS_Interval
    <3> QED
      BY <3>2, <3>4, <3>5
  <2> DEFINE D == DOMAIN secs[j].rels
             g == [k \in D |-> <<j, k>>]
  <2>2. g \in Surjection(D, Places(j))
    BY DEF Surjection
  <2> QED
    BY <2>1, <2>2, FS_Surjection
<1>5. IsFiniteSet(UNION F)
  <2>1. \A T \in F : IsFiniteSet(T)
    BY <1>4
  <2> HIDE DEF F
  <2> QED
    BY <1>3, <2>1, FS_UNION
<1> QED
  BY <1>5 DEF O!RelPlaces

\* ObjectLoad!RelocsFollow
LEMMA Follow ==
  ASSUME FollowInv, Settled
  PROVE  O!RelocsFollow
<1> DEFINE all == UNION { O!Wanted(s) : s \in DOMAIN secs \ O!Relas }
           Stands(x, w) == \E j, a, q : IsReloc(j, a, q) /\ x = <<j, NumberOf(j, a, q)>> /\ w = WantOf(j, a, q)
<1>1. \A w \in all : \E x \in O!RelPlaces : Stands(x, w)
  <2> SUFFICES ASSUME NEW w \in all PROVE \E x \in O!RelPlaces : Stands(x, w)
    OBVIOUS
  <2>1. PICK s \in DOMAIN secs \ O!Relas : w \in O!Wanted(s)
    OBVIOUS
  <2>2. PICK j, a, q : IsReloc(j, a, q) /\ w = WantOf(j, a, q)
    BY <2>1, WantedThere
  <2>3. <<j, NumberOf(j, a, q)>> \in O!RelPlaces
    BY <2>2, RelocPlaces DEF FollowInv
  <2> QED
    BY <2>2, <2>3
<1>2. \A x \in O!RelPlaces : \E w \in all : Stands(x, w)
  <2> SUFFICES ASSUME NEW x \in O!RelPlaces PROVE \E w \in all : Stands(x, w)
    OBVIOUS
  <2>1. PICK j, a, q : IsReloc(j, a, q) /\ x = <<j, NumberOf(j, a, q)>>
    BY RelocPlaces DEF FollowInv
  <2>2. WantOf(j, a, q) \in all
    BY <2>1, RelocWanted
  <2> QED
    BY <2>1, <2>2
<1>3. ASSUME NEW x, NEW y, NEW w, Stands(x, w), Stands(y, w) PROVE x = y
  <2>1. PICK j, a, q : IsReloc(j, a, q) /\ x = <<j, NumberOf(j, a, q)>> /\ w = WantOf(j, a, q)
    BY <1>3
  <2>2. PICK k, c, m : IsReloc(k, c, m) /\ y = <<k, NumberOf(k, c, m)>> /\ w = WantOf(k, c, m)
    BY <1>3
  <2>3. WantOf(j, a, q) = WantOf(k, c, m) /\ IsReloc(j, a, q) /\ IsReloc(k, c, m)
    BY <2>1, <2>2
  <2>4. j = k /\ a = c /\ q = m
    BY <2>3, RelocOnce
  <2> QED
    BY <2>1, <2>2, <2>4
<1>4. ASSUME NEW x, NEW v, NEW w, Stands(x, v), Stands(x, w) PROVE v = w
  <2>1. PICK j, a, q : IsReloc(j, a, q) /\ x = <<j, NumberOf(j, a, q)>> /\ v = WantOf(j, a, q)
    BY <1>4
  <2>2. PICK k, c, m : IsReloc(k, c, m) /\ x = <<k, NumberOf(k, c, m)>> /\ w = WantOf(k, c, m)
    BY <1>4
  <2>3. j = k /\ NumberOf(j, a, q) = NumberOf(j, c, m)
    BY <2>1, <2>2
  <2>4. a = c /\ q = m
    BY <2>1, <2>2, <2>3, RelocPlaces DEF FollowInv
  <2> QED
    BY <2>1, <2>2, <2>3, <2>4
<1>5. ASSUME NEW x, NEW w, Stands(x, w)
      PROVE  /\ secs[x[1]].info = w.s /\ secs[x[1]].rels[x[2]].at = w.at
             /\ O!Denotes(secs[x[1]].rels[x[2]].sym, w.load, w.sym)
  <2>1. PICK j, a, q : IsReloc(j, a, q) /\ x = <<j, NumberOf(j, a, q)>> /\ w = WantOf(j, a, q)
    BY <1>5
  <2>2. PICK r : r = RelocAt(j, a, q)
    OBVIOUS
  <2>3. x[1] = j /\ secs[x[1]].rels[x[2]] = r
    BY <2>1, <2>2 DEF NumberOf, RelocAt
  <2>4. w.s = secs[j].info /\ w.at = r.at /\ w.load = LoadOf(j, a) /\ w.sym = Was(j, a, q).sym
    BY <2>1, <2>2 DEF WantOf
  <2>5. PICK s : s = secs[j].info
    OBVIOUS
  <2>6. Means(r.sym, w.load, w.sym)
    BY <2>1, <2>2, <2>4, <2>5, RelocLies
  <2>7. O!Denotes(r.sym, w.load, w.sym)
    BY <2>6, MeansIs DEF FollowInv
  <2> QED
    BY <2>3, <2>4, <2>7
<1> DEFINE f == [x \in O!RelPlaces |-> CHOOSE w \in all : Stands(x, w)]
<1>6. Cardinality(O!RelPlaces) = Cardinality(all)
  <2> HIDE DEF Stands, all
  <2>1. \A x \in O!RelPlaces : f[x] \in all /\ Stands(x, f[x])
    BY <1>2
  <2>2. f \in [O!RelPlaces -> all]
    BY <2>1
  <2> HIDE DEF f
  <2>3. f \in Injection(O!RelPlaces, all)
    BY <1>3, <2>1, <2>2 DEF Injection, IsInjective
  <2>4. f \in Surjection(O!RelPlaces, all)
    <3>1. \A w \in all : \E x \in O!RelPlaces : f[x] = w
      BY <1>1, <1>4, <2>1
    <3> QED
      BY <2>2, <3>1 DEF Surjection
  <2>5. ExistsBijection(O!RelPlaces, all)
    BY <2>3, <2>4 DEF ExistsBijection, Bijection
  <2> QED
    BY <2>5, RelPlacesFinite, FS_Bijection DEF FollowInv
<1> HIDE DEF Stands
<1>7. \A w \in all : \E x \in O!RelPlaces :
        /\ secs[x[1]].info = w.s /\ secs[x[1]].rels[x[2]].at = w.at
        /\ O!Denotes(secs[x[1]].rels[x[2]].sym, w.load, w.sym)
  BY <1>1, <1>5
<1>8. O!Cardinality(O!RelPlaces) = O!Cardinality(all)
  BY <1>6, SameCardinality
<1> QED
  BY <1>7, <1>8 DEF O!RelocsFollow

-----------------------------------------------------------------------------
(* While objects are loaded, the state is one of ObjectLoad's.             *)

LoaderInv ==
  TypesInv /\ PartsInv /\ MergeInv /\ NeededInv /\ TiledInv /\ LieInv /\ MapInv /\ ThereInv /\ InfoInv

LEMMA LoaderNext ==
  ASSUME LoaderInv, O!Next
  PROVE  LoaderInv'
<1>1. pc # "failed" /\ KnownInv
  BY NotFailed DEF LoaderInv, NeededInv
<1>2. TypesInv' /\ PartsInv' /\ MergeInv' /\ NeededInv'
  BY TypesNext, PartsNext, MergeNext, NeededInvNext DEF LoaderInv
<1>3. TiledInv' /\ LieInv' /\ MapInv' /\ ThereInv' /\ InfoInv'
  BY <1>1, TiledNext, LieNext, MapNext, ThereNext, InfoNext DEF LoaderInv
<1> QED
  BY <1>2, <1>3 DEF LoaderInv

LEMMA LoaderFirst ==
  ASSUME O!Init
  PROVE  LoaderInv /\ RelocsInv
<1>1. pc = "file" /\ secs = <<>> /\ syms = <<>> /\ loads = <<>>
  BY DEF O!Init
<1>2. DOMAIN secs = {} /\ DOMAIN syms = {} /\ DOMAIN loads = {}
  BY <1>1
<1>3. TiledInv /\ LieInv /\ MapInv /\ ThereInv /\ InfoInv /\ RelocsInv
  BY <1>1, <1>2 DEF TiledInv, LieInv, MapInv, ThereInv, InfoInv, RelocsInv, O!Loops
<1> QED
  BY <1>3, LoadFirst DEF LoaderInv

LEMMA LoaderStutters ==
  ASSUME UNCHANGED O!vars
  PROVE  /\ LoaderInv => LoaderInv'
         /\ RelocsInv => RelocsInv'
<1>1. UNCHANGED <<program, file, pc, i, bound, secs, syms, errs, turn, sm_table, old_to_new_syms, once, loads>>
  BY DEF O!vars, O!linked, O!locals
<1>2. O!Current' = O!Current /\ \A l : O!ObjectOf(l)' = O!ObjectOf(l)
  BY <1>1 DEF O!Current, O!ObjectOf
<1>3. TiledInv => TiledInv'
  BY <1>1, <1>2 DEF TiledInv, Tiled, Apart, Stop, Extent, Total, SectionOf
<1>4. \A x, a, q : LiesOn(x, a, q)' <=> LiesOn(x, a, q)
  BY <1>1, <1>2 DEF LiesOn
<1>5. \A x, l : LiesIn(x, l)' <=> LiesIn(x, l)
  BY <1>1, <1>4 DEF LiesIn
<1>6. \A x, l, q : Means(x, l, q)' <=> Means(x, l, q)
  BY <1>1, <1>2, <1>5 DEF Means, SymbolOf
<1>7. LieInv => LieInv'
  BY <1>1, <1>5 DEF LieInv, LieOf
<1>8. MapInv => MapInv'
  BY <1>1, <1>2, <1>6 DEF MapInv, MapOf, Filled, Placeable
<1>9. ThereInv => ThereInv'
  BY <1>1, <1>2 DEF ThereInv, PartIs, SectionOf
<1>10. InfoInv => InfoInv'
  BY <1>1, <1>2 DEF InfoInv, InfoOf, New, TargetName, SectionOf
<1>11. RelocsInv => RelocsInv'
  <2>1. \A l, h : SectionOf(l, h)' = SectionOf(l, h)
    BY <1>2 DEF SectionOf
  <2>2. \A r, l, h, q : Moved(r, l, h, q)' <=> Moved(r, l, h, q)
    BY <1>1, <1>2, <1>6, <2>1 DEF Moved, PartIs
  <2>3. \A l, h : Passed(l, h)' <=> Passed(l, h)
    BY <1>1 DEF Passed
  <2>4. \A j, a : RelocsIn(j, a)' = RelocsIn(j, a)
    BY <1>1, <2>1 DEF RelocsIn
  <2>5. \A j, a, q : RelocAt(j, a, q)' = RelocAt(j, a, q)
    BY <1>1 DEF RelocAt
  <2>6. \A j, a, q : RelocOf(j, a, q)' <=> RelocOf(j, a, q)
    BY <1>1, <2>2, <2>3, <2>4, <2>5 DEF RelocOf
  <2> QED
    BY <1>1, <2>4, <2>6 DEF RelocsInv
<1> QED
  BY <1>3, <1>7, <1>8, <1>9, <1>10, <1>11, LoadStutters DEF LoaderInv

LoadInv == part = "load" => LoaderInv
RelocatedInv == part = "load" => RelocsInv

\* what a step of the linker is for the loader
LEMMA LoadStep ==
  ASSUME [PartNext]_allVars, part' = "load"
  PROVE  part = "load" /\ (O!Next \/ UNCHANGED O!vars)
<1>1. CASE Loading
  BY <1>1 DEF Loading
<1>2. CASE Importing \/ Laying \/ Driving
  BY <1>2 DEF Importing, Laying, Driving
<1>3. CASE UNCHANGED allVars
  BY <1>3 DEF allVars, loadOnly, O!vars, O!linked, O!locals
<1> QED
  BY <1>1, <1>2, <1>3 DEF PartNext

LEMMA LoadAlways == PartSpec => []LoadInv
<1>1. PartInit => LoadInv
  BY LoaderFirst DEF PartInit, LoadInv
<1>2. LoadInv /\ [PartNext]_allVars => LoadInv'
  <2> SUFFICES ASSUME LoadInv, [PartNext]_allVars, part' = "load" PROVE LoaderInv'
    BY DEF LoadInv
  <2>1. LoaderInv /\ (O!Next \/ UNCHANGED O!vars)
    BY LoadStep DEF LoadInv
  <2> QED
    BY <2>1, LoaderNext, LoaderStutters
<1> QED
  BY <1>1, <1>2, PTL DEF PartSpec

(* MembersAsNeeded: a member comes through the index of an archive only if *)
(* it defines a name that an object before it needs and none defines, and  *)
(* when the archive is done no undefined name is left that its index has   *)
(* (tcc_load_alacarte).                                                    *)
THEOREM MembersAlwaysNeeded == PartSpec => []MembersAsNeeded
<1>1. LoadInv => MembersAsNeeded
  BY DEF LoadInv, LoaderInv, NeededInv, MembersAsNeeded
<1> QED
  BY <1>1, LoadAlways, PTL

LEMMA RelocatedAlways ==
  ASSUME OnceIsApart
  PROVE  PartSpec => []RelocatedInv
<1>1. PartInit => RelocatedInv
  BY LoaderFirst DEF PartInit, RelocatedInv
<1>2. LoadInv /\ RelocatedInv /\ [PartNext]_allVars => RelocatedInv'
  <2> SUFFICES ASSUME LoadInv, RelocatedInv, [PartNext]_allVars, part' = "load" PROVE RelocsInv'
    BY DEF RelocatedInv
  <2>1. LoaderInv /\ RelocsInv /\ (O!Next \/ UNCHANGED O!vars)
    BY LoadStep DEF LoadInv, RelocatedInv
  <2>2. CASE O!Next
    BY <2>1, <2>2, RelocsNext, NotFailed DEF LoaderInv
  <2> QED
    BY <2>1, <2>2, LoaderStutters
<1> QED
  BY <1>1, <1>2, LoadAlways, PTL DEF PartSpec

(* RelocsFollow: between the loads every relocation of the objects is in   *)
(* the linked sections once, moved with the content it is in, and names    *)
(* the entry of the symbol it was for, and there are no others             *)
(* (tcc_load_object_file), unless objects with a link-once section refer   *)
(* to what only they know in it: RelocsFollow then fails.                  *)
THEOREM RelocationsAlwaysFollow ==
  ASSUME OnceIsApart
  PROVE  PartSpec => []RelocsFollow
<1>1. LoadInv /\ RelocatedInv => RelocsFollow
  <2> SUFFICES ASSUME LoadInv, RelocatedInv, part = "load" PROVE O!RelocsFollow
    BY DEF RelocsFollow
  <2>1. FollowInv
    BY DEF FollowInv, LoadInv, LoaderInv, RelocatedInv
  <2>2. CASE Settled
    BY <2>1, <2>2, Follow
  <2>3. CASE ~ Settled
    BY <2>3 DEF Settled, O!RelocsFollow
  <2> QED
    BY <2>2, <2>3
<1> QED
  BY <1>1, LoadAlways, RelocatedAlways, PTL
=============================================================================
