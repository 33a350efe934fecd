----------------------------- MODULE ObjectLoad -----------------------------
(***************************************************************************)
(* Loading object files and archives: tcc_load_object_file,                *)
(* tcc_load_alacarte and tcc_load_archive of tccelf.c.  Sections of one    *)
(* name are concatenated, symbols renumbered, relocations moved along; an  *)
(* archive gives the members that define what is undefined.                *)
(*                                                                         *)
(* An object is [secs, syms], both numbered from 1:                        *)
(*   section  [name, type, size, align, info, rels]; of type "rela", info  *)
(*            is the section its relocations [at, sym] are for; "other"    *)
(*            stands for all types the loader does not handle              *)
(*   symbol   [name, bind, sec, off]; sec 0 is SHN_UNDEF, -1 SHN_ABS       *)
(* Visibility, common symbols and the precedence of data over .bss are in  *)
(* ElfSymtab; here a symbol is undefined, weak or global.                  *)
(***************************************************************************)
EXTENDS Integers, FiniteSets, Sequences, SequencesExt

CONSTANTS
  Programs,   \* what is linked: sequences of objects and archives
  OnceNames,  \* names of sections that start with .gnu.linkonce
  MaxLoads    \* bound: objects loaded

-----------------------------------------------------------------------------
(* What compilers, assemblers and ar write.                                *)

Handled == {"bits", "nobits", "rela"}

ObjectsOf(p) ==
  { p[f].obj : f \in { g \in DOMAIN p : p[g].kind = "object" } }
  \cup UNION { Range(p[f].members) : f \in { g \in DOMAIN p : p[g].kind = "archive" } }

\* a global or weak name is undefined, a number, or in a section with content
WellFormed(o) ==
  /\ o.secs \in Seq([name : STRING, type : STRING, size : Nat, align : Nat \ {0},
                     info : Nat, rels : Seq([at : Nat, sym : Nat])])
  /\ o.syms \in Seq([name : STRING, bind : STRING, sec : Int, off : Nat])
  /\ \A y \in Range(o.syms) :
       /\ y.sec <= Len(o.secs)
       /\ y.bind # "LOCAL" /\ y.sec > 0 => o.secs[y.sec].type \in Handled

\* relocations are for places inside of a section with content, and no two
\* are the same; the section they are in has a name of its own
RelocationsFit(o) ==
  \A n \in DOMAIN o.secs : o.secs[n].type = "rela" =>
    LET x == o.secs[n] IN
    /\ x.name \notin OnceNames
    /\ x.info \in DOMAIN o.secs /\ o.secs[x.info].type \in {"bits", "nobits"}
    /\ \A k \in DOMAIN x.rels : x.rels[k].at < o.secs[x.info].size
    /\ \A m \in DOMAIN o.secs : o.secs[m].type = "rela" =>
         /\ o.secs[m].name = x.name => m = n
         /\ o.secs[m].info = x.info =>
              \A k \in DOMAIN x.rels, q \in DOMAIN o.secs[m].rels :
                o.secs[m].rels[q] = x.rels[k] => m = n /\ q = k

\* the name of a relocation section tells the name of what it is for
RelasNamed(a, b) ==
  \A x \in Range(a.secs), z \in Range(b.secs) :
    x.type = "rela" /\ z.type = "rela" /\ x.name = z.name =>
      a.secs[x.info].name = b.secs[z.info].name

\* global and weak names in section n
NamesIn(o, n) == { y.name : y \in { z \in Range(o.syms) : z.bind # "LOCAL" /\ z.sec = n } }

\* a link-once section occurs once in an object and has the same names in all
OnceAlike(a, b) ==
  \A n \in DOMAIN a.secs, m \in DOMAIN b.secs :
    /\ a.secs[n].type \in Handled /\ b.secs[m].type \in Handled
    /\ a.secs[n].name = b.secs[m].name /\ a.secs[n].name \in OnceNames
    => NamesIn(a, n) = NamesIn(b, m) /\ (a = b => n = m)

\* the index of an archive tells what members define
IndexTrue(f) ==
  \A e \in Range(f.index) :
    /\ e.member \in DOMAIN f.members
    /\ \E y \in Range(f.members[e.member].syms) :
         y.name = e.name /\ y.bind # "LOCAL" /\ y.sec > 0

Assumptions ==
  \A p \in Programs :
    /\ p \in Seq(Range(p))
    /\ \A f \in Range(p) :
         \/ f.kind = "object"
         \/ /\ f.kind = "archive" /\ f.whole \in BOOLEAN /\ f.indexed \in BOOLEAN
            /\ f.members \in Seq(Range(f.members)) /\ f.index \in Seq(Range(f.index))
            /\ IndexTrue(f)
    /\ \A a \in ObjectsOf(p) : WellFormed(a) /\ RelocationsFit(a)
    /\ \A a, b \in ObjectsOf(p) : RelasNamed(a, b) /\ OnceAlike(a, b)

\* No relocation is in a link-once section; and where such a section is, none
\* is for a name that only the object knows in it.
OnceApart(o) ==
  \A x \in Range(o.secs) : x.type = "rela" =>
    /\ o.secs[x.info].name \notin OnceNames
    /\ (\E z \in Range(o.secs) : z.type \in Handled /\ z.name \in OnceNames) =>
         \A r \in Range(x.rels) :
           /\ r.sym \in DOMAIN o.syms
           /\ o.syms[r.sym].sec > 0 =>
                LET z == o.secs[o.syms[r.sym].sec] IN
                z.type \in Handled /\ (z.name \in OnceNames => o.syms[r.sym].bind # "LOCAL")

-----------------------------------------------------------------------------

VARIABLES
  program,  \* what is linked
  file,     \* the input that is added
  pc,       \* "file", "member", "index"; "place", "symbols", "patch"; "done", "failed"
  i,        \* the member or index entry that is next
  bound,    \* members loaded in this turn through the index
  secs,     \* s1->sections: [name, type, size, info, rels, parts]
  syms,     \* symtab_section: [name, bind, sec, off]
  errs,     \* names reported as defined twice
  turn,             \* tcc_load_object_file: i, what its loop looks at
  sm_table,         \* for each section of the object [s, offset, new_section, link_once]
  old_to_new_syms,  \* for each symbol of the object its entry, or 0
  once,             \* sm->link_once, for the section of the last symbol looked at
  loads     \* history: the objects loaded, and the input they came from

linked == <<secs, syms, errs>>
locals == <<turn, sm_table, old_to_new_syms, once>>
vars == <<program, file, pc, i, bound, linked, locals, loads>>

-----------------------------------------------------------------------------
(* tcc_load_object_file: a step is a turn of one of its loops.  The object *)
(* is the last of loads; after an error what was taken over stays.         *)

Loops == {"place", "symbols", "patch"}

Current == loads[Len(loads)].obj
sh == Current.secs[turn]
sym == Current.syms[turn]

NoMerge == [s |-> 0, offset |-> 0, new_section |-> FALSE, link_once |-> FALSE]

Load(o) ==
  /\ Len(loads) < MaxLoads
  /\ loads' = Append(loads, [obj |-> o, from |-> file])
  /\ pc' = "place" /\ turn' = 1
  /\ sm_table' = [n \in DOMAIN o.secs |-> NoMerge]
  /\ old_to_new_syms' = [n \in DOMAIN o.syms |-> 0]
  /\ once' = FALSE
  /\ UNCHANGED linked

Least(S) == CHOOSE x \in S : \A y \in S : x <= y

AlignUp(n, a) == ((n + a - 1) \div a) * a

Same == { j \in DOMAIN secs : secs[j].name = sh.name }

\* ignore section types we do not handle
Ignore ==
  /\ sh.type \notin Handled
  /\ UNCHANGED <<secs, sm_table, pc>>

\* a link-once section that is there already is not added again
SkipOnce ==
  /\ sh.type \in Handled /\ Same # {} /\ sh.name \in OnceNames
  /\ sm_table' = [sm_table EXCEPT ![turn].link_once = TRUE]
  /\ UNCHANGED <<secs, pc>>

\* invalid section type
WrongType ==
  /\ sh.type \in Handled /\ Same # {} /\ sh.name \notin OnceNames
  /\ sh.type # secs[Least(Same)].type
  /\ pc' = "failed"
  /\ UNCHANGED <<secs, sm_table>>

\* parts is history: which section of which load the content came from
NewSection == [name |-> sh.name, type |-> sh.type, size |-> 0, info |-> 0,
               rels |-> <<>>, parts |-> <<>>]

\* concatenate the section to section x at index s of table
Concatenate(table, x, s, new) ==
  LET offset == IF sh.type = "rela" THEN Len(x.rels) ELSE AlignUp(x.size, sh.align)
      part == [load |-> Len(loads), sec |-> turn, off |-> offset, size |-> sh.size]
  IN /\ secs' = [table EXCEPT ![s] =
                  [x EXCEPT !.size = IF sh.type = "rela" THEN 0 ELSE offset + sh.size,
                            !.rels = @ \o sh.rels,
                            !.parts = Append(@, part)]]
     /\ sm_table' = [sm_table EXCEPT ![turn] =
                      [s |-> s, offset |-> offset, new_section |-> new, link_once |-> FALSE]]
     /\ UNCHANGED pc

AddSection ==
  /\ sh.type \in Handled /\ Same = {}
  /\ Concatenate(Append(secs, NewSection), NewSection, Len(secs) + 1, TRUE)

JoinSection ==
  /\ sh.type \in Handled /\ Same # {} /\ sh.name \notin OnceNames
  /\ sh.type = secs[Least(Same)].type
  /\ Concatenate(secs, secs[Least(Same)], Least(Same), FALSE)

Place ==
  /\ pc = "place" /\ turn <= Len(Current.secs)
  /\ Ignore \/ SkipOnce \/ WrongType \/ AddSection \/ JoinSection
  /\ turn' = turn + 1
  /\ UNCHANGED <<program, file, i, bound, syms, errs, old_to_new_syms, once, loads>>

\* the second short pass: sh_info of new relocation sections; a null pointer
\* if the section they are for was not taken over
LinkInfo ==
  /\ pc = "place" /\ turn > Len(Current.secs)
  /\ LET fresh(j) == { n \in DOMAIN sm_table : sm_table[n].new_section /\ sm_table[n].s = j
                                                /\ Current.secs[n].type = "rela" }
         info(n) == sm_table[Current.secs[n].info].s
     IN /\ pc' = IF \E j \in DOMAIN secs : \E n \in fresh(j) : info(n) = 0
                 THEN "failed" ELSE "symbols"
        /\ secs' = [j \in DOMAIN secs |->
                     IF fresh(j) = {} THEN secs[j]
                     ELSE [secs[j] EXCEPT !.info = info(CHOOSE n \in fresh(j) : TRUE)]]
  /\ turn' = 1
  /\ UNCHANGED <<program, file, i, bound, syms, errs, sm_table, old_to_new_syms, once, loads>>

Entry(table, name) ==
  { j \in DOMAIN table : table[j].bind # "LOCAL" /\ table[j].name = name }

find_elf_sym(table, name) ==
  IF Entry(table, name) = {} THEN 0 ELSE Least(Entry(table, name))

Undefined(table, name) ==
  find_elf_sym(table, name) # 0 /\ table[find_elf_sym(table, name)].sec = 0

\* ElfSymtab!Resolve without visibility and precedence of sections
Overrides(old, new) ==
  old.sec = 0 \/ (new.sec # 0 /\ new.bind = "GLOBAL" /\ old.bind = "WEAK")
Clashes(old, new) ==
  old # new /\ old.sec # 0 /\ new.sec # 0 /\ {old.bind, new.bind} = {"GLOBAL"}

\* set_elf_sym: a new entry, or what becomes of the one there is
SetElfSym(y) ==
  LET e == find_elf_sym(syms, y.name) IN
  \/ /\ ~ (y.bind # "LOCAL" /\ e # 0)
     /\ syms' = Append(syms, y)
     /\ old_to_new_syms' = [old_to_new_syms EXCEPT ![turn] = Len(syms) + 1]
     /\ UNCHANGED errs
  \/ /\ y.bind # "LOCAL" /\ e # 0
     /\ syms' = [syms EXCEPT ![e] = IF Overrides(@, y) THEN y ELSE @]
     /\ old_to_new_syms' = [old_to_new_syms EXCEPT ![turn] = e]
     /\ errs' = IF Clashes(syms[e], y) THEN errs \cup {y.name} ELSE errs

\* a symbol that lies in no section
AddPlain ==
  /\ sym.sec <= 0
  /\ SetElfSym(sym)
  /\ UNCHANGED once

\* in a link once section we use the already defined symbol
UseDefined ==
  /\ sym.sec > 0 /\ sm_table[sym.sec].link_once
  /\ once' = TRUE
  /\ old_to_new_syms' =
       IF sym.bind = "LOCAL" THEN old_to_new_syms
       ELSE [old_to_new_syms EXCEPT ![turn] = find_elf_sym(syms, sym.name)]
  /\ UNCHANGED <<syms, errs>>

\* if no corresponding section was added, no need to add the symbol
NotAdded ==
  /\ sym.sec > 0 /\ ~ sm_table[sym.sec].link_once /\ sm_table[sym.sec].s = 0
  /\ once' = FALSE
  /\ UNCHANGED <<syms, errs, old_to_new_syms>>

\* mistake: the value stays relative to the object's own section
AddUnmoved ==
  /\ sym.sec > 0 /\ ~ sm_table[sym.sec].link_once /\ sm_table[sym.sec].s # 0
  /\ once' = FALSE
  /\ SetElfSym([sym EXCEPT !.sec = sm_table[sym.sec].s])

\* the value of the symbol moves with the section it lies in
AddMoved ==
  /\ sym.sec > 0 /\ ~ sm_table[sym.sec].link_once /\ sm_table[sym.sec].s # 0
  /\ once' = FALSE
  /\ SetElfSym([sym EXCEPT !.sec = sm_table[sym.sec].s, !.off = @ + sm_table[sym.sec].offset])

AddSymbol ==
  /\ pc = "symbols" /\ turn <= Len(Current.syms)
  /\ AddPlain \/ UseDefined \/ NotAdded \/ AddMoved
  /\ turn' = turn + 1
  /\ UNCHANGED <<program, file, pc, i, bound, secs, sm_table, loads>>

SymbolsAdded ==
  /\ pc = "symbols" /\ turn > Len(Current.syms)
  /\ pc' = "patch" /\ turn' = 1
  /\ UNCHANGED <<program, file, i, bound, linked, sm_table, old_to_new_syms, once, loads>>

\* The relocations of a section, from its first to the last of the linked
\* section.  An index without symbol is accepted after a link-once section.
Patch ==
  /\ pc = "patch" /\ turn <= Len(Current.secs)
  /\ LET x == sm_table[turn]
         new(r) == IF r.sym = 0 THEN 0 ELSE old_to_new_syms[r.sym]
         valid(r) == r.sym \in 0 .. Len(Current.syms) /\ (new(r) # 0 \/ once)
         moved(r) == [at |-> r.at + sm_table[sh.info].offset, sym |-> new(r)]
         mine == x.offset + 1 .. Len(secs[x.s].rels)
         invalid == { k \in mine : ~ valid(secs[x.s].rels[k]) }
     IN \/ /\ ~ (x.s # 0 /\ sh.type = "rela")
           /\ UNCHANGED <<secs, pc>>
        \/ /\ x.s # 0 /\ sh.type = "rela" /\ invalid # {}
           /\ pc' = "failed" /\ UNCHANGED secs
        \/ /\ x.s # 0 /\ sh.type = "rela" /\ invalid = {}
           /\ secs' = [secs EXCEPT ![x.s].rels =
                         [k \in DOMAIN @ |-> IF k \in mine THEN moved(@[k]) ELSE @[k]]]
           /\ UNCHANGED pc
  /\ turn' = turn + 1
  /\ UNCHANGED <<program, file, i, bound, syms, errs, sm_table, old_to_new_syms, once, loads>>

-----------------------------------------------------------------------------
(* The files of the command line; archives by their members or their index *)

Input == program[file]

\* an index is used, also an empty one, unless all is to be loaded
UsesIndex(f) == f.kind = "archive" /\ ~ f.whole /\ f.indexed

\* what goes on after an object was loaded
Return ==
  /\ pc = "patch" /\ turn > Len(Current.secs)
  /\ pc' = IF Input.kind = "object" THEN "file" ELSE IF UsesIndex(Input) THEN "index" ELSE "member"
  /\ file' = IF Input.kind = "object" THEN file + 1 ELSE file
  /\ turn' = 0 /\ sm_table' = <<>> /\ old_to_new_syms' = <<>> /\ once' = FALSE
  /\ UNCHANGED <<program, i, bound, linked, loads>>

LoadFile ==
  /\ pc = "file" /\ file <= Len(program) /\ Input.kind = "object"
  /\ Load(Input.obj)
  /\ UNCHANGED <<program, file, i, bound>>

\* tcc_load_archive
OpenArchive ==
  /\ pc = "file" /\ file <= Len(program) /\ Input.kind = "archive"
  /\ pc' = IF UsesIndex(Input) THEN "index" ELSE "member"
  /\ i' = 1 /\ bound' = 0
  /\ UNCHANGED <<program, file, linked, locals, loads>>

LoadMember ==
  /\ pc = "member" /\ i <= Len(Input.members)
  /\ Load(Input.members[i])
  /\ i' = i + 1
  /\ UNCHANGED <<program, file, bound>>

CloseArchive ==
  /\ pc = "member" /\ i > Len(Input.members)
  /\ pc' = "file" /\ file' = file + 1
  /\ UNCHANGED <<program, i, bound, linked, locals, loads>>

\* mistake: looks only whether the table knows the name
ScanIndexKnown ==
  /\ pc = "index" /\ i <= Len(Input.index)
  /\ \/ /\ find_elf_sym(syms, Input.index[i].name) # 0
        /\ Load(Input.members[Input.index[i].member])
        /\ bound' = bound + 1
     \/ /\ find_elf_sym(syms, Input.index[i].name) = 0
        /\ UNCHANGED <<pc, linked, locals, loads, bound>>
  /\ i' = i + 1
  /\ UNCHANGED <<program, file>>

\* tcc_load_alacarte: load the member if the name is undefined
ScanIndex ==
  /\ pc = "index" /\ i <= Len(Input.index)
  /\ \/ /\ Undefined(syms, Input.index[i].name)
        /\ Load(Input.members[Input.index[i].member])
        /\ bound' = bound + 1
     \/ /\ ~ Undefined(syms, Input.index[i].name)
        /\ UNCHANGED <<pc, linked, locals, loads, bound>>
  /\ i' = i + 1
  /\ UNCHANGED <<program, file>>

\* again, as long as members are loaded
ScanAgain ==
  /\ pc = "index" /\ i > Len(Input.index)
  /\ \/ bound # 0 /\ i' = 1 /\ bound' = 0 /\ UNCHANGED <<pc, file>>
     \/ bound = 0 /\ pc' = "file" /\ file' = file + 1 /\ UNCHANGED <<i, bound>>
  /\ UNCHANGED <<program, linked, locals, loads>>

AllAdded ==
  /\ pc = "file" /\ file > Len(program)
  /\ pc' = "done"
  /\ UNCHANGED <<program, file, i, bound, linked, locals, loads>>

Init ==
  /\ program \in Programs
  /\ file = 1 /\ pc = "file" /\ i = 0 /\ bound = 0
  /\ secs = <<>> /\ syms = <<>> /\ errs = {} /\ loads = <<>>
  /\ turn = 0 /\ sm_table = <<>> /\ old_to_new_syms = <<>> /\ once = FALSE

Next ==
  \/ LoadFile \/ OpenArchive \/ LoadMember \/ CloseArchive
  \/ ScanIndex \/ ScanAgain \/ AllAdded
  \/ Place \/ LinkInfo \/ AddSymbol \/ SymbolsAdded \/ Patch \/ Return

Spec == Init /\ [][Next]_vars
FairSpec == Spec /\ WF_vars(Next)

-----------------------------------------------------------------------------

ObjectOf(l) == loads[l].obj

\* entry e lies on a symbol of its name in an object whose content is there,
\* of load l if l # 0
Lies(e, l) ==
  \E p \in Range(secs[e.sec].parts) : \E y \in Range(ObjectOf(p.load).syms) :
    /\ y.name = e.name /\ y.sec = p.sec /\ e.off = p.off + y.off
    /\ l # 0 => p.load = l

\* entry number n is what symbol q of load l means
Denotes(n, l, q) ==
  LET y == ObjectOf(l).syms[q] IN
  /\ n \in DOMAIN syms
  /\ syms[n].name = y.name
  /\ syms[n].sec > 0 => Lies(syms[n], IF y.bind = "LOCAL" THEN l ELSE 0)
  /\ (y.bind = "LOCAL") = (syms[n].bind = "LOCAL")

RelocsOf(o, n) ==
  UNION { Range(x.rels) : x \in { z \in Range(o.secs) : z.type = "rela" /\ z.info = n } }

\* where the relocations of the content of section s belong
Wanted(s) ==
  UNION { { [s |-> s, at |-> p.off + r.at, load |-> p.load, sym |-> r.sym] :
              r \in RelocsOf(ObjectOf(p.load), p.sec) } : p \in Range(secs[s].parts) }

Relas == { j \in DOMAIN secs : secs[j].type = "rela" }
RelPlaces == UNION { { <<j, k>> : k \in DOMAIN secs[j].rels } : j \in Relas }

\* Every relocation of the objects is there exactly once, moved with the
\* content it is in, for the symbol it was for; and there are no others
\* (tcc_load_object_file: "It is very important to get correct relocations").
RelocsFollow ==
  pc \notin Loops \cup {"failed"} =>
    LET rel(x) == secs[x[1]].rels[x[2]]
        fits(x, w) == secs[x[1]].info = w.s /\ rel(x).at = w.at
                      /\ Denotes(rel(x).sym, w.load, w.sym)
        all == UNION { Wanted(s) : s \in DOMAIN secs \ Relas }
    IN /\ \A w \in all : \E x \in RelPlaces : fits(x, w)
       /\ Cardinality(RelPlaces) = Cardinality(all)

Defines(o, name) == \E y \in Range(o.syms) : y.name = name /\ y.bind # "LOCAL" /\ y.sec # 0
Refers(o, name) == \E y \in Range(o.syms) : y.name = name /\ y.sec = 0

\* A member comes through the index only if it defines a name some object
\* before it needs and none before it defines; so none comes twice
\* (tcc_load_alacarte: "load only the objects which resolve undefined
\* symbols").
MembersNeeded ==
  \A l \in DOMAIN loads :
    UsesIndex(program[loads[l].from]) =>
      \E y \in Range(ObjectOf(l).syms) :
        /\ Defines(ObjectOf(l), y.name)
        /\ \E m \in 1 .. l - 1 : Refers(ObjectOf(m), y.name)
        /\ \A m \in 1 .. l - 1 : ~ Defines(ObjectOf(m), y.name)

\* After an archive was searched, what is undefined it does not define, the
\* members that came last included.
ArchiveExhausted ==
  pc = "file" /\ file > 1 /\ program[file - 1].kind = "archive" =>
    \A e \in Range(program[file - 1].index) : ~ Undefined(syms, e.name)

\* Loading ends, also for members that need each other.
LoadEnds == <>(pc \in {"done", "failed"})
=============================================================================
