------------------------------ MODULE Compile -------------------------------
(***************************************************************************)
(* Three parts of the compiler: the identifiers and scopes of a file, what *)
(* becomes of the relocations of an initializer, and the fields of a       *)
(* struct.                                                                 *)
(***************************************************************************)
EXTENDS Integers

CONSTANTS
  Names, Locals, Helpers, NoName, ReuseKept, MaxSyms, MaxOpen,  \* SymStack
  Offsets, MaxNew, MaxOld,                                      \* RelocSqueeze
  Kinds, Styles, LooseZero, MaxFields                           \* StructLayout

VARIABLES
  part,  \* what a behaviour is about: "scopes", "squeeze", "fields", or something else
  given, rel, old, a, i, addr, r, dest, pc,                                             \* RelocSqueeze
  syms, global_stack, local_stack, sym_identifier, local_scope, open, refused, scopes,  \* SymStack
  how, fields, c, bit_pos, offset, maxalign, prevbt, prev_bit_size, size, align, stage  \* StructLayout

squeezeVars == <<given, rel, old, a, i, addr, r, dest, pc>>
scopeVars ==
  <<syms, global_stack, local_stack, sym_identifier, local_scope, open, refused, scopes>>
fieldVars ==
  <<how, fields, c, bit_pos, offset, maxalign, prevbt, prev_bit_size, size, align, stage>>

S == INSTANCE RelocSqueeze
I == INSTANCE SymStack
F == INSTANCE StructLayout

ASSUME SqueezeAssumption == S!Assumptions
ASSUME ScopesAssumption == I!Assumptions
ASSUME FieldsAssumption == F!Assumptions

SqueezeIdle ==
  /\ given = 0 /\ rel = 0 /\ old = 0 /\ a = 0 /\ i = 0 /\ addr = 0
  /\ r = 0 /\ dest = 0 /\ pc = "none"

ScopesIdle ==
  /\ syms = 0 /\ global_stack = 0 /\ local_stack = 0 /\ sym_identifier = 0
  /\ local_scope = 0 /\ open = 0 /\ refused = FALSE /\ scopes = 0
FieldsIdle ==
  /\ how = 0 /\ fields = 0 /\ c = 0 /\ bit_pos = 0 /\ offset = 0 /\ maxalign = 0
  /\ prevbt = 0 /\ prev_bit_size = 0 /\ size = 0 /\ align = 0 /\ stage = "none"

-----------------------------------------------------------------------------
\* SymStack!ScopesAsMeant: a name means its innermost declaration.
NamesAsMeant == part = "scopes" => I!ScopesAsMeant

\* SymStack!SymbolsLive: no name and no value leads to a symbol given back.
SymbolsLive == part = "scopes" => I!SymbolsLive

\* SymStack!HelpersGlobal: what the code generator calls is no variable.
HelpersGlobal == part = "scopes" => I!HelpersGlobal

\* RelocSqueeze!PlacesKept: no place loses its relocation.
SqueezeKeepsPlaces == part = "squeeze" => S!PlacesKept

\* RelocSqueeze!ReducesMostlyOrdered: one relocation for each place, the
\* last, if the initializer was mostly in order.
SqueezeReduces == part = "squeeze" => S!ReducesMostlyOrdered

\* RelocSqueeze!SqueezeEnds: the loops end.
SqueezeStops == part = "squeeze" => S!SqueezeEnds

\* StructLayout!LayoutSound: fields are apart, where the layout says, and
\* bit-fields can be accessed there.
FieldsSound == part = "fields" => F!LayoutSound
=============================================================================
