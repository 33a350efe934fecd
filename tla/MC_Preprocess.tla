--------------------------- MODULE MC_Preprocess ---------------------------
(***************************************************************************)
(* Three parts of the preprocessor that share no state within a file: the  *)
(* define stack, the include cache with conditionals, and macro expansion  *)
(* with a fixed set of macros.  A behaviour is about one of them.          *)
(***************************************************************************)
EXTENDS Preprocess, MacroTexts

CONSTANTS
  Parts,  \* of "include", "expand", "define": what a run explores
  X, BuiltIn,  \* macros
  main, h, g, A, B,  \* MC_Include
  MacroSets  \* MacroExpansion

VARIABLES macros, source, state, expanded  \* MacroExpansion

expandVars == <<macros, source, state, expanded>>
allVars == <<part, vars, includeVars, expandVars>>

R == INSTANCE MC_Include
H == INSTANCE HeaderTexts
E == INSTANCE MacroExpansion WITH
       Paste <- JoinedWord, OneInt <- OneIntWord, Files <- MacroUses, text <- expanded

IncludedHeaders == H!Headers
IncludingUnits == H!TwoUnits

ExpandIdle == macros = 0 /\ source = 0 /\ state = 0 /\ expanded = 0

PartInit ==
  /\ part \in Parts
  /\ \/ part = "define" /\ Init /\ IncludeIdle /\ ExpandIdle
     \/ part = "include" /\ DefineIdle /\ I!Init /\ ExpandIdle
     \/ part = "expand" /\ DefineIdle /\ IncludeIdle /\ E!Init

PartNext ==
  /\ UNCHANGED part
  /\ \/ part = "define" /\ Next /\ UNCHANGED <<includeVars, expandVars>>
     \/ part = "include" /\ I!Next /\ UNCHANGED <<vars, expandVars>>
     \/ part = "expand" /\ E!Next /\ UNCHANGED <<vars, includeVars>>

PartSpec == PartInit /\ [][PartNext]_allVars

-----------------------------------------------------------------------------
(* The properties of the parts that need recursive operators; the others   *)
(* are in Preprocess, and MacrosAsMeant and NoDangling in Defines.          *)

\* SameAsUncached of MC_Include: the cache changes nothing.
IncludeAsUncached == part = "include" => R!SameAsUncached

\* GuardsSound of MC_Include: a guard in the cache guards the whole file.
IncludeGuards == part = "include" => R!GuardsSound

\* MacroExpansion!TextAsMeant: what the parser gets is the replacement the
\* standard gives.
TextAsMeant == part = "expand" => E!TextAsMeant

\* MacroExpansion!StackBalanced: no token string stays on macro_stack.
StackBalanced == part = "expand" => E!StackBalanced
=============================================================================
