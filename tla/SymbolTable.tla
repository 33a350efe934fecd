---------------------------- MODULE SymbolTable ----------------------------
(***************************************************************************)
(* What the ELF symbol table promises the linker: a map from names to at   *)
(* most one symbol, changed by one operation that resolves a symbol        *)
(* against the one of the same name.  How two symbols resolve is a         *)
(* parameter, and so is when they are reported as defined twice.           *)
(***************************************************************************)
CONSTANTS Names, Syms, NoEntry, Resolve(_, _), DefinedTwice(_, _)

VARIABLES table, errs

tvars == <<table, errs>>

TInit ==
  /\ table = [n \in Names |-> NoEntry]
  /\ errs = {}

Add(s) ==
  /\ table[s.name] = NoEntry
  /\ table' = [table EXCEPT ![s.name] = s]
  /\ UNCHANGED errs

Combine(s) ==
  /\ table[s.name] # NoEntry
  /\ table' = [table EXCEPT ![s.name] = Resolve(@, s)]
  /\ errs' = IF DefinedTwice(table[s.name], s) THEN errs \cup {s.name} ELSE errs

TNext == \E s \in Syms : Add(s) \/ Combine(s)

TSpec == TInit /\ [][TNext]_tvars
=============================================================================
