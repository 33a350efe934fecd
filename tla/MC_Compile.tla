----------------------------- MODULE MC_Compile -----------------------------
(***************************************************************************)
(* Five parts of the compiler: those of Compile, the jumps of a function,  *)
(* and the values of an expression.  A behaviour is about one of them.     *)
(***************************************************************************)
EXTENDS Compile, MC_CodeFlow

CONSTANTS
  Parts,  \* of "scopes", "fields", "flow", "values", "squeeze": what a run explores
  CharWidth, IntWidth, LongWidth, Functions, Frames, Answers   \* MC_Operands

VARIABLES
  function, frame, text, cpu, calls, answers  \* MC_Operands

valueVars == <<function, frame, text, cpu, calls, answers>>
allVars == <<part, vars, valueVars, squeezeVars, scopeVars, fieldVars>>

\* char c1; int i1, i2; unsigned u1; long long l1; int *p; char *q; int i3; char c3;
Variables == <<"char", "int", "int", "uint", "llong", "pint", "pchar", "int", "char">>
V == INSTANCE MC_Operands WITH CharBits <- CharWidth, IntBits <- IntWidth, LongBits <- LongWidth
T == INSTANCE ExpressionTexts WITH CharBits <- CharWidth, IntBits <- IntWidth, LongBits <- LongWidth

ASSUME ValuesAssumption == V!Assumptions

RegularExpressions == T!RegularExpressions
Misvalued == T!Misvalued
VariousFrames == T!VariousFrames

\* char, int; bit-fields of width zero, and of widths that fill, straddle
\* and exceed what is left; one aligned by itself, one packed
Field(type, bits) ==
  [type |-> type, bits |-> bits, aligned |-> 0, packed |-> FALSE, anon |-> bits = 0]
FieldKinds ==
  { Field("byte", -1), Field("int", -1), Field("short", 0), Field("int", 0), Field("byte", 5),
    Field("short", 9), Field("int", 3), Field("int", 20), Field("llong", 40),
    [Field("int", 7) EXCEPT !.aligned = 2], [Field("int", 12) EXCEPT !.packed = TRUE] }

\* both layouts, structs and unions, #pragma pack and attributes
Style(pcc, union, pack) ==
  [pcc |-> pcc, union |-> union, packed |-> FALSE, aligned |-> 0, pack |-> pack]
AllStyles ==
  {Style(p, FALSE, n) : p \in BOOLEAN, n \in {0, 2}} \cup {Style(p, TRUE, 0) : p \in BOOLEAN}
    \cup {[Style(TRUE, FALSE, 0) EXCEPT !.packed = TRUE],
          [Style(TRUE, FALSE, 2) EXCEPT !.packed = TRUE, !.aligned = 8]}

FlowIdle == body = 0 /\ code = 0 /\ at = 0 /\ rest = 0
ValuesIdle ==
  function = 0 /\ frame = 0 /\ text = 0 /\ cpu = 0 /\ calls = 0 /\ answers = 0

PartInit ==
  /\ part \in Parts
  /\ \/ part = "flow" /\ Init /\ ValuesIdle /\ SqueezeIdle /\ ScopesIdle /\ FieldsIdle
     \/ part = "values" /\ FlowIdle /\ V!Init /\ SqueezeIdle /\ ScopesIdle /\ FieldsIdle
     \/ part = "squeeze" /\ FlowIdle /\ ValuesIdle /\ S!Init /\ ScopesIdle /\ FieldsIdle
     \/ part = "scopes" /\ FlowIdle /\ ValuesIdle /\ SqueezeIdle /\ I!Init /\ FieldsIdle
     \/ part = "fields" /\ FlowIdle /\ ValuesIdle /\ SqueezeIdle /\ ScopesIdle /\ F!Init

Flow ==
  part = "flow" /\ Next /\ UNCHANGED <<part, valueVars, squeezeVars, scopeVars, fieldVars>>
Valuing ==
  part = "values" /\ V!Next /\ UNCHANGED <<part, vars, squeezeVars, scopeVars, fieldVars>>
Squeezing ==
  part = "squeeze" /\ S!Next /\ UNCHANGED <<part, vars, valueVars, scopeVars, fieldVars>>
Scoping ==
  part = "scopes" /\ I!Next /\ UNCHANGED <<part, vars, valueVars, squeezeVars, fieldVars>>
Laying ==
  part = "fields" /\ F!Next /\ UNCHANGED <<part, vars, valueVars, squeezeVars, scopeVars>>

PartNext == Flow \/ Valuing \/ Squeezing \/ Scoping \/ Laying
PartSpec == PartInit /\ [][PartNext]_allVars /\ WF_allVars(Squeezing)

-----------------------------------------------------------------------------
(* The properties of these parts; the others are Compile's.                *)

\* JumpsLand of MC_CodeFlow: no emitted jump stays without a target.
FlowLands == part = "flow" => JumpsLand

\* SameEvent of MC_CodeFlow: the code does what the function says.
FlowAsMeant == part = "flow" => SameEvent

\* ValuesAsMeant of MC_Operands: what a function computes, stores and passes
\* to calls is what its expression means.
ValuesHold == part = "values" => V!ValuesAsMeant

\* All of them: the code does what its source says.
CodeAsMeant == FlowAsMeant /\ ValuesHold /\ NamesAsMeant /\ HelpersGlobal /\ FieldsSound
=============================================================================
