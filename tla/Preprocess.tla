----------------------------- MODULE Preprocess -----------------------------
(***************************************************************************)
(* Two parts of the preprocessor: what names mean as macros, and the       *)
(* stacks of included files and conditionals.                              *)
(***************************************************************************)
EXTENDS Defines, Integers

CONSTANTS Files, Macros, NoMacro, Programs, Units, MaxDepth, MaxIfs  \* Include

VARIABLES
  part,  \* what a behaviour is about: "define", "include", or something else
  text, unit, stack, ifs, defs, cache, bof, endif, depth, out, pc  \* Include

includeVars == <<text, unit, stack, ifs, defs, cache, bof, endif, depth, out, pc>>

I == INSTANCE Include

ASSUME DefinesAssumption == Assumptions
ASSUME IncludeAssumption == I!Assumptions

\* no definition, and no name to say anything about
DefineIdle ==
  /\ define_stack = <<>> /\ sym_define = [n \in Names |-> 0] /\ define_start = 0
  /\ phase = "none" /\ files = 0 /\ options = 0 /\ meant = 0 /\ kept = 0 /\ unclear = Names
IncludeIdle ==
  /\ text = 0 /\ unit = 0 /\ stack = 0 /\ ifs = 0 /\ defs = 0 /\ cache = 0
  /\ bof = 0 /\ endif = 0 /\ depth = 0 /\ out = 0 /\ pc = 0

-----------------------------------------------------------------------------
(* The properties of the parts; MacrosAsMeant and NoDangling are Defines'. *)

\* Include!LiveText: text comes through only where conditionals let it.
IncludedText == part = "include" => I!LiveText

\* Include!ConditionalsKept: an included file cannot close conditionals of
\* the file that includes it.
IncludeConditionals == part = "include" => I!ConditionalsKept
=============================================================================
