---------------------------- MODULE MC_ElfSymtab ----------------------------
(* ElfSymtab on small instances, and as an implementation of SymbolTable. *)
EXTENDS ElfSymtab, TLC

CONSTANTS NoEntry, a, b, c, d, u

T(bind, sect, vis, aset, pay) ==
  [bind |-> bind, sect |-> sect, vis |-> vis, aset |-> aset, pay |-> pay]

\* names in two buckets and, when the table doubles, in up to four
SpreadHash == [n \in Names |->
  CASE n = a -> 4 [] n = b -> 6 [] n = c -> 1 [] n = d -> 5 [] OTHER -> 0]

None == {}
Undefined(bind) == T(bind, "UNDEF", "DEFAULT", FALSE, 0)
Defined(bind, pay) == T(bind, "DATA", "DEFAULT", FALSE, pay)

\* locals of loaders, which the chains leave out, and globals of files, for
\* the run about chains
OneLocal == { Defined("LOCAL", 1) }
OneDefinition == { Defined("GLOBAL", 1) }

\* what the front end emits and patches, for the run about merging
References == { Undefined("LOCAL"), Undefined("GLOBAL"), Defined("LOCAL", 1) }
LaterDefinitions == { Undefined("WEAK"), Defined("WEAK", 1), Defined("GLOBAL", 2) }
Library == { Undefined("GLOBAL"), Defined("GLOBAL", 1) }

\* what loaders hand in, for the runs about resolution
RefsOnly == { Undefined("GLOBAL"), Undefined("WEAK") }

Everything ==
  { T(x, s, v, FALSE, 1) : x \in {"GLOBAL", "WEAK"}, s \in Sects \ {"UNDEF"},
                           v \in {"DEFAULT", "HIDDEN", "PROTECTED"} }
  \cup { Defined(x, 2) : x \in {"GLOBAL", "WEAK"} }
  \cup { T(x, "UNDEF", v, FALSE, 0) : x \in {"GLOBAL", "WEAK"},
                                      v \in {"DEFAULT", "HIDDEN"} }
  \cup { T("GLOBAL", s, "DEFAULT", TRUE, 1) : s \in {"ABS", "DATA"} }

ASSUME NoEntryAssumption == NoEntry \notin ElfSym

\* the map the table stands for
Table == [n \in Names |-> IF HasEntry(n) THEN Entry(n) ELSE NoEntry]

\* an entry declared more than once: t is the last declaration, the visibility
\* and the flag may come from others
Declared == Handed \cup Emitted \cup Patched
Mixed(t, v, f) == [t EXCEPT !.vis = v.vis, !.aset = f.aset]
FileSyms == {Named(n, Mixed(t, v, f)) : n \in Names, t \in Declared, v \in Declared, f \in Declared}

\* the symbols set_elf_sym can be called with
Callable == {ToGlobal(s) : s \in FileSyms}

Abs == INSTANCE SymbolTable WITH Syms <- Callable, table <- Table

\* The table with its hash, its rebuilds and its merge loop implements the
\* map: each step is one resolution or leaves the map alone.
ImplementsSymbolTable == Abs!TSpec
=============================================================================
