---------------------------- MODULE StructLayout ----------------------------
(***************************************************************************)
(* struct_layout of tccgen.c: the places of the fields of a struct or      *)
(* union, with bit-fields as GCC (pcc) or as MSVC lays them out, packing   *)
(* and alignment, and the type by which each bit-field is then accessed.   *)
(* The loop over the fields takes a step for each of them.                 *)
(***************************************************************************)
EXTENDS Integers, Sequences, FiniteSetsExt, Functions

CONSTANTS
  Kinds,      \* declarations: [type, bits (-1: no bit-field), aligned, packed, anon]
  Styles,     \* [pcc, union, packed, aligned, pack]
  LooseZero,  \* may a zero width follow what is no bit-field of its type? (MS)
  MaxFields   \* bound: fields of the struct

VARIABLES
  how,            \* how this struct is laid out
  fields,         \* [kind, type, first, c, pos, auxtype]
  c, bit_pos, offset, maxalign, prevbt, prev_bit_size,
  size, align,    \* of the struct
  stage

loopVars == <<c, bit_pos, offset, maxalign, prevbt, prev_bit_size>>
vars == <<how, fields, loopVars, size, align, stage>>

Types == {"byte", "short", "int", "llong"}
type_size(t) == [byte |-> 1, short |-> 2, int |-> 4, llong |-> 8][t]

\* struct_decl: "width of '%s' exceeds its type"
Assumptions ==
  /\ LooseZero \in BOOLEAN /\ MaxFields \in Nat
  /\ Kinds \subseteq [type : Types, bits : -1 .. 64, aligned : Nat, packed : BOOLEAN, anon : BOOLEAN]
  /\ \A k \in Kinds : k.bits <= 8 * type_size(k.type)
  /\ Styles \subseteq [pcc : BOOLEAN, union : BOOLEAN, packed : BOOLEAN, aligned : Nat, pack : Nat]

UpTo(n, al) == ((n + al - 1) \div al) * al
DownTo(n, al) == (n \div al) * al
Bytes(bits) == (bits + 7) \div 8

-----------------------------------------------------------------------------
(* Alignment and packing of a field.  "in pcc mode, packing does not       *)
(* affect zero-width bitfields".                                           *)

Unaffected(k) == how.pcc /\ k.bits = 0
AttributePacked(k) == how.pcc /\ (k.packed \/ how.packed)
Packed(k) == ~ Unaffected(k) /\ (AttributePacked(k) \/ how.pack # 0)

Natural(k) == IF AttributePacked(k) THEN 1 ELSE type_size(k.type)
Individual(k) ==
  IF how.pcc /\ ~ Unaffected(k) /\ how.pack # 0 /\ how.pack < k.aligned THEN 0 ELSE k.aligned

AlignOf(k) ==
  CASE Individual(k) # 0 -> Individual(k)
    [] Individual(k) = 0 /\ Unaffected(k) -> type_size(k.type)
    [] OTHER -> IF how.pack # 0 /\ how.pack < Natural(k) THEN how.pack ELSE Natural(k)

-----------------------------------------------------------------------------
(* The fields.                                                             *)

\* a field of type t at offset o; al is what it adds to the alignment
Placed(k, t, o, pos, al) ==
  /\ fields' = Append(fields, [kind |-> k, type |-> t, first |-> 8 * o + pos,
                               c |-> o, pos |-> pos, auxtype |-> "own"])
  /\ offset' = o
  /\ maxalign' = Max({maxalign, al})
  /\ UNCHANGED <<how, size, align, stage>>

Reading(k) == stage = "fields" /\ Len(fields) < MaxFields /\ k \in Kinds

UnionField(k) ==
  /\ Reading(k) /\ how.union
  /\ Placed(k, k.type, 0, 0, AlignOf(k))
  /\ c' = Max({c, IF how.pcc /\ k.bits >= 0 THEN Bytes(k.bits) ELSE type_size(k.type)})
  /\ UNCHANGED <<bit_pos, prevbt, prev_bit_size>>

PlainField(k) ==
  /\ Reading(k) /\ ~ how.union /\ k.bits < 0
  /\ LET o == UpTo(IF how.pcc THEN c + Bytes(bit_pos) ELSE c, AlignOf(k))
     IN Placed(k, k.type, o, 0, AlignOf(k)) /\ c' = o + type_size(k.type)
  /\ bit_pos' = 0 /\ prevbt' = "struct" /\ prev_bit_size' = 0

\* mistake: the bits of the fields before are forgotten
NewFieldEarly(k) ==
  \/ k.bits = 0
  \/ k.aligned # 0
  \/ ~ Packed(k) /\ bit_pos + k.bits > 8 * type_size(k.type)

\* "a bit-field is placed adjacent to the preceding bit-fields, except if
\* - it has zero-width - an individual alignment was given - it would
\* overflow its base type container and there is no packing"
NewField(k) ==
  LET a8 == 8 * AlignOf(k)
  IN \/ k.bits = 0
     \/ k.aligned # 0
     \/ /\ ~ Packed(k)
        /\ (((8 * c + bit_pos) % a8) + k.bits + a8 - 1) \div a8 > type_size(k.type) \div AlignOf(k)

PccField(k) ==
  /\ Reading(k) /\ ~ how.union /\ k.bits >= 0 /\ how.pcc
  /\ LET al == AlignOf(k)
         from == IF NewField(k) THEN UpTo(c + Bytes(bit_pos), al) ELSE c
         bit == IF NewField(k) THEN 0 ELSE bit_pos
         o == from + DownTo(bit, 8 * al) \div 8
     IN /\ Placed(k, IF k.type = "llong" /\ k.bits <= 32 THEN "int" ELSE k.type,
                  o, bit % (8 * al), IF k.anon THEN 1 ELSE al)
        /\ c' = o
        /\ bit_pos' = (bit % (8 * al)) + k.bits
  /\ UNCHANGED <<prevbt, prev_bit_size>>

\* a run of bit-fields of one type takes at least the bits of that type
MsField(k) ==
  /\ Reading(k) /\ ~ how.union /\ k.bits >= 0 /\ ~ how.pcc
  /\ LooseZero \/ k.bits # 0 \/ (k.type = prevbt /\ prev_bit_size # 0)
  /\ LET new == bit_pos + k.bits > 8 * type_size(k.type) \/ (k.bits > 0 <=> k.type # prevbt)
         o == IF new THEN UpTo(c, AlignOf(k)) ELSE offset
         pos == IF new THEN 0 ELSE bit_pos
     IN /\ Placed(k, k.type, o, pos, IF k.bits = 0 /\ prevbt # k.type THEN 1 ELSE AlignOf(k))
        /\ c' = CASE new /\ (k.bits # 0 \/ prev_bit_size # 0) -> o + type_size(k.type)
                  [] new /\ k.bits = 0 /\ prev_bit_size = 0 -> o
                  [] OTHER -> c
        /\ bit_pos' = pos + k.bits
  /\ prevbt' = k.type /\ prev_bit_size' = k.bits

\* "store size and alignment"
EndStruct ==
  /\ stage = "fields" /\ fields # << >>
  /\ stage' = "sized"
  /\ LET given == Max({how.aligned, 1})
         a == IF how.pack # 0 /\ how.pack < maxalign /\ ~ how.pcc
              THEN Max({how.pack, given}) ELSE Max({given, maxalign})
     IN size' = UpTo(IF how.pcc THEN c + Bytes(bit_pos) ELSE c, a)
  /\ align' = Max({how.aligned, maxalign})
  /\ UNCHANGED <<how, fields, loopVars>>

-----------------------------------------------------------------------------
(* "check whether we can access bitfields by their type", or by another.   *)

Smallest(bytes) ==
  CASE bytes > 4 -> "llong" [] bytes \in {3, 4} -> "int" [] bytes = 2 -> "short" [] OTHER -> "byte"

\* the place and type for an alignment, then those for the alignment of that
\* type; the fourth turn of the loop changes nothing
Container(f) ==
  LET Aligned(al) ==
        LET at == DownTo(f.first \div 8, al)
        IN [at |-> at, type |-> Smallest(Bytes(f.first - 8 * at + f.kind.bits))]
      Turn(try) == Aligned(type_size(try.type))
  IN Turn(Turn(Turn(Turn(Aligned(1)))))

Contains(at, t, f) == f.first - 8 * at + f.kind.bits <= 8 * type_size(t) /\ at + type_size(t) <= size

Accessed(f) ==
  LET try == Container(f)
  IN CASE f.kind.bits <= 0 \/ Contains(f.c, f.type, f) -> f
       [] f.kind.bits > 0 /\ ~ Contains(f.c, f.type, f) /\ Contains(try.at, try.type, f) ->
            [f EXCEPT !.c = try.at, !.pos = f.first - 8 * try.at,
                      !.auxtype = IF type_size(try.type) = type_size(f.type) THEN "own" ELSE try.type]
       [] OTHER -> [f EXCEPT !.auxtype = "bytes"]

ChooseAccess ==
  /\ stage = "sized"
  /\ stage' = "done"
  /\ fields' = [i \in DOMAIN fields |-> Accessed(fields[i])]
  /\ UNCHANGED <<how, loopVars, size, align>>

Init ==
  /\ how \in Styles
  /\ fields = << >>
  /\ c = 0 /\ bit_pos = 0 /\ offset = 0 /\ maxalign = 1
  /\ prevbt = "struct" /\ prev_bit_size = 0
  /\ size = 0 /\ align = 0 /\ stage = "fields"

Next ==
  \/ \E k \in Kinds : UnionField(k) \/ PlainField(k) \/ PccField(k) \/ MsField(k)
  \/ EndStruct
  \/ ChooseAccess

Spec == Init /\ [][Next]_vars

-----------------------------------------------------------------------------
\* a bit-field that takes the whole width is none
Width(f) == IF f.kind.bits >= 0 THEN f.kind.bits ELSE 8 * type_size(f.kind.type)
End(f) == f.first + Width(f)

\* Fields of a struct follow each other, no two share a bit, and all lie in
\* the struct, however packing, alignments and zero widths mix.
FieldsApart ==
  stage = "done" =>
    /\ \A f \in Range(fields) : End(f) <= 8 * size
    /\ ~ how.union => \A i, j \in DOMAIN fields : i < j => End(fields[i]) <= fields[j].first

\* "PCC (GCC) compatible": GCC counts bits, from the end p of the field
\* before; so each field is where GCC puts it if it is where GCC puts it
\* behind that one.
GccFirst(p, k) ==
  LET unit == 8 * type_size(k.type)
  IN CASE k.bits <= 0 \/ k.aligned # 0 -> UpTo(p, 8 * AlignOf(k))
       [] k.bits > 0 /\ k.aligned = 0 /\ ~ Packed(k)
          /\ p \div unit # (p + k.bits - 1) \div unit -> UpTo(p, unit)
       [] OTHER -> p
PccCompatible ==
  how.pcc /\ ~ how.union =>
    \A i \in DOMAIN fields :
      fields[i].first = GccFirst(IF i = 1 THEN 0 ELSE End(fields[i - 1]), fields[i].kind)

\* "a bit-field run always uses at least as many bits as the underlying
\* type": in MS layout the unit of a bit-field is in the struct and the next
\* field that is none comes after it.
RunsWhole ==
  stage = "done" /\ ~ how.pcc /\ ~ how.union =>
    \A i \in DOMAIN fields :
      LET f == fields[i]
          end == f.first - f.pos + 8 * type_size(f.kind.type)
      IN f.kind.bits > 0 =>
           /\ end <= 8 * size
           /\ \A j \in DOMAIN fields :
                i < j /\ fields[j].kind.bits < 0 => end <= fields[j].first

\* Bit-fields are accessed where they were laid out, by a type that holds
\* all their bits and ends within the struct, so that a store cannot touch
\* what lies behind it.
AccessWithin ==
  stage = "done" =>
    \A f \in Range(fields) :
      f.kind.bits > 0 =>
        /\ 8 * f.c + f.pos = f.first
        /\ f.pos < 64
        /\ f.auxtype # "bytes" =>
             Contains(f.c, IF f.auxtype = "own" THEN f.type ELSE f.auxtype, f)

LayoutSound == FieldsApart /\ PccCompatible /\ RunsWhole /\ AccessWithin
=============================================================================
