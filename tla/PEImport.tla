----------------------------- MODULE PEImport ------------------------------
(***************************************************************************)
(* How tccpe.c binds undefined symbols to the exports of DLLs: pe_putimport *)
(* and the table of exports, pe_find_import, pe_add_import, the loop of    *)
(* pe_check_symbols, pe_build_imports, and relocate_syms.                  *)
(*                                                                         *)
(* An import address table slot is filled in by the system with the        *)
(* address of the export.  A symbol that is called gets a thunk in .text,  *)
(* `jmp *IAT.name', whose helper symbol IAT.name is bound to the slot; a   *)
(* data symbol is bound to the slot itself.  A name is a sequence of the   *)
(* pieces that the lookup takes apart.                                     *)
(***************************************************************************)
EXTENDS Integers, Sequences

CONSTANTS
  Dlls,               \* indexes in loaded_dlls
  Exportable,         \* names DLLs and .def files may list
  Ordinals,           \* ordinals they may list; 0 is none
  Referable,          \* undefined symbols the objects may have
  LeadingUnderscore,  \* -fleading-underscore
  TextSize,           \* bytes of .text before the first thunk
  MaxExports,         \* bound: names given by DLLs, counting repetitions
  MaxRefs             \* bound: undefined symbols

Types == {"FUNC", "OBJECT", "NOTYPE"}

\* dllimport: ST_PE_IMPORT; stdcall: ST_PE_STDCALL; called: .text has a
\* PC-relative relocation for it
Symbol == [name : Seq(STRING), type : Types, weak : BOOLEAN,
           dllimport : BOOLEAN, stdcall : BOOLEAN, called : BOOLEAN]
Export == [name : Exportable, dll : Dlls, ord : Ordinals]

Assumptions ==
  /\ Referable \subseteq Symbol /\ \A r \in Referable : Len(r.name) > 0
  /\ Dlls \subseteq Nat \ {0} /\ 0 \in Ordinals
  /\ TextSize \in Nat /\ MaxExports \in Nat /\ MaxRefs \in Nat
  /\ LeadingUnderscore \in BOOLEAN

VARIABLES
  listed,   \* history: what pe_putimport was called with
  exports,  \* dynsymtab: name, DLL and ordinal of each export
  symtab,   \* the undefined symbols, then the helpers IAT.*
  at,       \* what each of them was bound to
  rels,     \* the PC-relative relocations of .text: symbol and type
  nrefs,    \* sym_end: the symbols before the first helper
  i,        \* sym_index
  imports,  \* pe->imp_info: for each DLL the exports imported from it
  iat,      \* import_symbol.iat_index of an export, 0 for none
  thk,      \* import_symbol.thk_offset
  thunks,   \* the helper symbol each thunk jumps through
  failed,   \* the symbols reported undefined
  pc

linkVars == <<imports, iat, thk, thunks>>
vars == <<listed, exports, symtab, at, rels, nrefs, i, linkVars, failed, pc>>

Unbound == <<"undef">>
InText(offset) == <<"text", offset>>
Slot(p, n) == <<"slot", p, n>>

Init ==
  /\ listed = << >> /\ exports = << >>
  /\ symtab = << >> /\ at = << >> /\ rels = {} /\ nrefs = 0
  /\ i = 1
  /\ imports = << >>
  /\ iat = [e \in 1 .. MaxExports |-> 0]
  /\ thk = [e \in 1 .. MaxExports |-> 0]
  /\ thunks = << >>
  /\ failed = {}
  /\ pc = "load"

-----------------------------------------------------------------------------
(* Loading. *)

\* find_elf_sym on the table of exports
ExportNamed(name) ==
  LET found == {e \in DOMAIN exports : exports[e].name = name}
  IN IF found = {} THEN 0 ELSE CHOOSE e \in found : TRUE

\* mistake: an ordinal can be replaced
ReplaceableAlways(x) == TRUE
Replaceable(x) == x.ord = 0

\* pe_putimport: a name without an ordinal is put as an undefined symbol,
\* which set_elf_sym lets the next one replace; with an ordinal it stays
Putimport(dll, name, ordinal) ==
  /\ pc = "load"
  /\ Len(listed) < MaxExports
  /\ LET x == [name |-> name, dll |-> dll, ord |-> ordinal]
         e == ExportNamed(name)
     IN /\ listed' = Append(listed, x)
        /\ exports' = IF e = 0 THEN Append(exports, x)
                      ELSE IF Replaceable(exports[e]) THEN [exports EXCEPT ![e] = x]
                      ELSE exports
  /\ UNCHANGED <<symtab, at, rels, nrefs, i, linkVars, failed, pc>>

\* R_X86_64_PC32 and R_386_PC32
PC32 == 2

Refer(r) ==
  /\ pc = "load"
  /\ Len(symtab) < MaxRefs
  /\ \A s \in DOMAIN symtab : symtab[s].name # r.name
  /\ symtab' = Append(symtab, r)
  /\ at' = Append(at, Unbound)
  /\ rels' = IF r.called
             THEN rels \cup {[sym |-> Len(symtab) + 1, type |-> PC32]} ELSE rels
  /\ UNCHANGED <<listed, exports, nrefs, i, linkVars, failed, pc>>

StartCheck ==
  /\ pc = "load"
  /\ nrefs' = Len(symtab)
  /\ pc' = "check"
  /\ UNCHANGED <<listed, exports, symtab, at, rels, i, linkVars, failed>>

-----------------------------------------------------------------------------
(* pe_find_import. *)

Starts(s, prefix) == Len(s) >= Len(prefix) /\ SubSeq(s, 1, Len(prefix)) = prefix
Mingw2 == <<"_", "_", "imp", "_">>
Mingw3 == <<"_", "imp", "_", "_">>

\* pe_export_name
ExportName(s) ==
  IF LeadingUnderscore /\ Head(s.name) = "_" /\ ~ s.stdcall
  THEN Tail(s.name) ELSE s.name

\* what is looked up: a name, and whether the symbol is a pointer to it
FirstTry(s) == {[name |-> ExportName(s), pointer |-> FALSE]}

SecondTry(s) ==
  LET n == ExportName(s) IN
  IF s.stdcall
  THEN IF Head(n) = "_" /\ n[Len(n)] = "@"
       THEN {[name |-> SubSeq(n, 2, Len(n) - 1), pointer |-> FALSE]} ELSE {}
  ELSE IF n = << >> \/ Head(n) # "_"
  THEN {[name |-> <<"_">> \o n, pointer |-> FALSE]}
  ELSE IF Starts(n, Mingw2) \/ Starts(n, Mingw3)
  THEN {[name |-> SubSeq(n, 5, Len(n)), pointer |-> TRUE]}
  ELSE {}

\* data needs dllimport, or to be the pointer already
Finds(s, try) ==
  /\ ExportNamed(try.name) # 0
  /\ s.type = "OBJECT" => s.dllimport \/ try.pointer

Tries(s) ==
  LET first == {t \in FirstTry(s) : Finds(s, t)}
  IN IF first # {} THEN first ELSE {t \in SecondTry(s) : Finds(s, t)}

FindImport(s) ==
  IF Tries(s) = {} THEN 0 ELSE ExportNamed((CHOOSE t \in Tries(s) : TRUE).name)

-----------------------------------------------------------------------------
(* pe_check_symbols. *)

\* pe_isafunc compares a relocation's two words of r_info, symbol and type,
\* with ELF32_R_INFO(sym_index, R_386_PC32), a number of one word
RInfo(r) == <<r.sym, r.type>>
Info32(s, type) == <<0, 256 * s + type>>
IsAFunc(s) == \E r \in rels : RInfo(r) = Info32(s, PC32)

\* "symbols from assembler have no type, find out which"
TypeOf(s) ==
  IF symtab[s].type # "NOTYPE" THEN symtab[s].type
  ELSE IF IsAFunc(s) THEN "FUNC" ELSE "OBJECT"

\* mistake: the first DLL found is taken
AddImportOneDll(e) ==
  IF imports = << >> THEN <<[dll |-> exports[e].dll, syms |-> <<e>>]>>
  ELSE [imports EXCEPT ![1].syms = Append(@, e)]

\* mistake: an export that was imported before is not found again
AddImportTwice(e) ==
  LET dll == exports[e].dll
      ps == {p \in DOMAIN imports : imports[p].dll = dll}
  IN IF ps = {} THEN Append(imports, [dll |-> dll, syms |-> <<e>>])
     ELSE [p \in DOMAIN imports |->
             IF p \in ps THEN [imports[p] EXCEPT !.syms = Append(@, e)] ELSE imports[p]]

AddImport(e) ==
  LET dll == exports[e].dll
      ps == {p \in DOMAIN imports : imports[p].dll = dll}
  IN IF ps = {} THEN Append(imports, [dll |-> dll, syms |-> <<e>>])
     ELSE [p \in DOMAIN imports |->
             IF p \in ps /\ \A n \in DOMAIN imports[p].syms : imports[p].syms[n] # e
             THEN [imports[p] EXCEPT !.syms = Append(@, e)]
             ELSE imports[p]]

\* mistake: the helper symbols are visited too
VisitAll == pc = "check" /\ i <= Len(symtab) /\ i' = i + 1 /\ UNCHANGED <<listed, exports, rels, nrefs, pc>>

Visit == pc = "check" /\ i <= nrefs /\ i' = i + 1 /\ UNCHANGED <<listed, exports, rels, nrefs, pc>>

\* a function called for the first time: a thunk and its helper symbol
NewThunk ==
  /\ Visit
  /\ LET e == FindImport(symtab[i])
         offset == TextSize + 8 * Len(thunks)
         helper == [symtab[i] EXCEPT !.name = <<"IAT.">> \o @, !.type = "OBJECT",
                                     !.weak = FALSE, !.dllimport = FALSE,
                                     !.stdcall = FALSE]
     IN /\ e # 0 /\ TypeOf(i) = "FUNC" /\ thk[e] = 0
        /\ imports' = AddImport(e)
        /\ symtab' = Append(symtab, helper)
        /\ at' = Append([at EXCEPT ![i] = InText(offset)], Unbound)
        /\ iat' = [iat EXCEPT ![e] = Len(symtab) + 1]
        /\ thk' = [thk EXCEPT ![e] = offset]
        /\ thunks' = Append(thunks, Len(symtab) + 1)
  /\ UNCHANGED failed

\* "got aliased symbol, like stricmp and _stricmp"
SharedThunk ==
  /\ Visit
  /\ LET e == FindImport(symtab[i])
     IN /\ e # 0 /\ TypeOf(i) = "FUNC" /\ thk[e] # 0
        /\ at' = [at EXCEPT ![i] = InText(thk[e])]
  /\ UNCHANGED <<symtab, linkVars, failed>>

\* "data, ptr to that should be"
Pointer ==
  /\ Visit
  /\ LET e == FindImport(symtab[i])
     IN /\ e # 0 /\ TypeOf(i) = "OBJECT" /\ iat[e] = 0
        /\ imports' = AddImport(e)
        /\ iat' = [iat EXCEPT ![e] = i]
  /\ UNCHANGED <<symtab, at, thk, thunks, failed>>

\* "STB_WEAK undefined symbols are accepted"
NotFound ==
  /\ Visit
  /\ LET e == FindImport(symtab[i])
     IN e # 0 => TypeOf(i) = "OBJECT" /\ iat[e] # 0
  /\ failed' = IF symtab[i].weak THEN failed ELSE failed \cup {i}
  /\ UNCHANGED <<symtab, at, linkVars>>

EndCheck ==
  /\ pc = "check" /\ i > nrefs
  /\ pc' = IF failed = {} THEN "build" ELSE "failed"
  /\ UNCHANGED <<listed, exports, symtab, at, rels, nrefs, i, linkVars, failed>>

-----------------------------------------------------------------------------
Slots == UNION {{Slot(p, n) : n \in DOMAIN imports[p].syms} : p \in DOMAIN imports}
Import(slot) == imports[slot[2]].syms[slot[3]]

\* pe_build_imports: a slot for each import, DLL by DLL
BuildImports ==
  /\ pc = "build"
  /\ pc' = "relocate"
  /\ at' = [s \in DOMAIN at |->
              LET slots == {x \in Slots : iat[Import(x)] = s}
              IN IF slots = {} THEN at[s] ELSE CHOOSE x \in slots : TRUE]
  /\ UNCHANGED <<listed, exports, symtab, rels, nrefs, i, linkVars, failed>>

\* relocate_syms: "only weak symbols are accepted to be undefined"
RelocateSyms ==
  /\ pc = "relocate"
  /\ failed' = {s \in DOMAIN symtab : at[s] = Unbound /\ ~ symtab[s].weak}
  /\ pc' = IF failed' = {} THEN "done" ELSE "failed"
  /\ UNCHANGED <<listed, exports, symtab, at, rels, nrefs, i, linkVars>>

Linking ==
  \/ NewThunk \/ SharedThunk \/ Pointer \/ NotFound
  \/ EndCheck \/ BuildImports \/ RelocateSyms

Next ==
  \/ \E d \in Dlls, n \in Exportable, o \in Ordinals : Putimport(d, n, o)
  \/ \E r \in Referable : Refer(r)
  \/ StartCheck
  \/ Linking

Spec == Init /\ [][Next]_vars
FairSpec == Spec /\ WF_vars(Linking)

-----------------------------------------------------------------------------
Holds(slot, e) ==
  slot \in Slots /\ Import(slot) = e /\ imports[slot[2]].dll = exports[e].dll

\* the code or pointer symbol s was bound to leads to export e
Reaches(s, e) ==
  IF TypeOf(s) = "FUNC"
  THEN \E t \in DOMAIN thunks :
         at[s] = InText(TextSize + 8 * (t - 1)) /\ Holds(at[thunks[t]], e)
  ELSE Holds(at[s], e)

\* In a program that links, every reference to an export reaches that
\* export, by its own slot or by a thunk through it; only a weak one may
\* be null instead (pe_check_symbols, pe_build_imports, relocate_syms).
RefsReachExport ==
  pc = "done" =>
    \A s \in 1 .. nrefs :
      LET e == FindImport(symtab[s]) IN
      \/ e # 0 /\ Reaches(s, e)
      \/ symtab[s].weak /\ at[s] = Unbound

\* Export e is called by one name and its pointer taken by another, or its
\* pointer is taken by two: one import_symbol cannot serve both.
Contested(e) ==
  \E s, t \in 1 .. nrefs :
    /\ s # t
    /\ FindImport(symtab[s]) = e /\ FindImport(symtab[t]) = e
    /\ TypeOf(t) = "OBJECT"

\* Whatever a link fails for is a symbol of the program that no DLL exports,
\* or whose export is contested: aliases of one function share its thunk, and
\* the helpers appended while the loop runs are never looked up as imports.
OnlyMissingFail ==
  pc = "failed" =>
    \A s \in failed :
      LET e == FindImport(symtab[s]) IN s \in 1 .. nrefs /\ (e = 0 \/ Contested(e))

\* pe_build_imports finds a symbol to bind to every slot, a different one
\* for each, and each export in one slot only (pe_add_import).
SlotsOwned ==
  pc = "build" =>
    \A x, y \in Slots :
      /\ iat[Import(x)] # 0
      /\ x # y => Import(x) # Import(y) /\ iat[Import(x)] # iat[Import(y)]

\* A name comes from the first DLL that listed it with an ordinal, else
\* from the last that listed it (pe_putimport, set_elf_sym).
ExportOwner ==
  \A e \in DOMAIN exports :
    \E l \in DOMAIN listed :
      /\ exports[e] = listed[l]
      /\ \A m \in DOMAIN listed :
           /\ listed[m].name = exports[e].name
           /\ IF exports[e].ord # 0 THEN m < l ELSE m > l
           => listed[m].ord = 0 /\ exports[e].ord # 0

\* The link comes to an end, although its loop appends to the table it
\* goes through.
LinkEnds == pc = "check" ~> pc \in {"failed", "done"}

\* What the assembler calls is bound to code, not to the slot ("symbols
\* from assembler have no type, find out which").
AsmCallsReachCode ==
  pc = "done" =>
    \A s \in 1 .. nrefs :
      /\ symtab[s].type = "NOTYPE" /\ symtab[s].called
      /\ FindImport(symtab[s]) # 0
      => at[s][1] = "text"
=============================================================================
