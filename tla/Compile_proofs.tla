--------------------------- MODULE Compile_proofs ---------------------------
(* Proofs about Compile: squeeze_multi_relocs, for relocations of any      *)
(* number, at any offsets, in any order; what SymStack_proofs shows of     *)
(* identifiers and scopes; and struct_layout, for fields of any number and *)
(* kinds, in any style.                                                    *)
EXTENDS Compile, Sequences, FiniteSetTheorems, TLAPS

N == Len(given)
Reloc == [offset : Offsets, id : Nat]
New == old + 1 .. N          \* the relocations of the object
Given == {given[j] : j \in New}
Now == {rel[j] : j \in New}
At(j) == rel[j].offset

SqueezeTypes ==
  /\ pc \in {"called", "next", "insert", "squeeze", "done"}
  /\ old \in Nat /\ given \in Seq(Reloc) /\ rel \in Seq(Reloc) /\ old <= N
  /\ \A j \in 1 .. N : given[j].id = j
  /\ pc # "done" => Len(rel) = N
  /\ pc \in {"next", "insert", "squeeze"} => old + 1 < N
  /\ pc = "next" => a \in old + 2 .. N + 1
  /\ pc = "insert" => a \in old + 2 .. N /\ i \in old .. a - 1
  /\ pc = "squeeze" => dest \in old + 1 .. N /\ r \in dest .. N + 1

-----------------------------------------------------------------------------
(* The sort exchanges relocations of the object; the squeezing loop writes *)
(* only over what it has read, so the places of what it has kept and what  *)
(* is to come are all places there were.                                   *)
KeepInv ==
  /\ SqueezeTypes
  /\ \A j \in 1 .. old : rel[j] = given[j]
  /\ pc \in {"called", "next", "insert"} => Now = Given
  /\ pc = "squeeze" =>
       /\ Now \subseteq Given
       /\ \A x \in Given : \E j \in (old + 1 .. dest) \cup (r .. N) : At(j) = x.offset
  /\ S!PlacesKept

LEMMA KeepInit == S!Init => KeepInv
<1> SUFFICES ASSUME S!Init PROVE KeepInv
  OBVIOUS
<1>1. PICK m \in 0 .. MaxNew : \E o \in [1 .. old + m -> Offsets] :
        given = [j \in 1 .. old + m |-> [offset |-> o[j], id |-> j]]
  BY DEF S!Init
<1>2. PICK o \in [1 .. old + m -> Offsets] :
        given = [j \in 1 .. old + m |-> [offset |-> o[j], id |-> j]]
  BY <1>1
<1>3. old \in Nat /\ m \in Nat /\ rel = given /\ pc = "called"
  BY SqueezeAssumption DEF S!Init, S!Assumptions
<1>4. given \in Seq(Reloc) /\ N = old + m /\ \A j \in 1 .. N : given[j].id = j
  <2>1. \A j \in 1 .. old + m : [offset |-> o[j], id |-> j] \in Reloc
    BY <1>3 DEF Reloc
  <2>2. old + m \in Nat
    BY <1>3
  <2>3. given \in [1 .. old + m -> Reloc]
    BY <1>2, <2>1
  <2>4. given \in Seq(Reloc) /\ N = old + m
    BY <2>2, <2>3 DEF N
  <2> QED
    BY <1>2, <2>4
<1>5. SqueezeTypes
  BY <1>3, <1>4 DEF SqueezeTypes, N
<1>6. S!PlacesKept
  <2>1. DOMAIN given = 1 .. N
    BY <1>4 DEF N
  <2> QED
    BY <1>3, <1>4 DEF S!PlacesKept
<1> QED
  BY <1>3, <1>5, <1>6 DEF KeepInv, Now, Given

LEMMA KeepStart == KeepInv /\ S!Start => KeepInv'
<1> SUFFICES ASSUME KeepInv, S!Start PROVE KeepInv'
  OBVIOUS
<1>1. /\ pc = "called" /\ UNCHANGED <<given, rel, old>>
      /\ \/ old + 1 >= Len(rel) /\ pc' = "done"
         \/ ~ (old + 1 >= Len(rel)) /\ pc' = "next" /\ a' = old + 2
  BY DEF S!Start
<1>2. SqueezeTypes /\ Now = Given /\ \A j \in 1 .. old : rel[j] = given[j]
  BY <1>1 DEF KeepInv
<1>3. old \in Nat /\ N \in Nat /\ Len(rel) = N
  BY <1>1, <1>2 DEF SqueezeTypes, N
<1>4. SqueezeTypes'
  BY <1>1, <1>2, <1>3 DEF SqueezeTypes, N
<1>5. S!PlacesKept'
  <2>1. rel' = rel /\ given' = given /\ old' = old
    BY <1>1
  <2>2. S!New(rel') = New /\ S!New(given) = New
    BY <1>3, <2>1 DEF S!New, New, N
  <2>3. /\ \A j \in New : \E m \in New : rel'[j] = given[m]
        /\ \A j \in New : \E m \in New : rel'[m] = given[j]
    BY <1>2, <2>1 DEF Now, Given
  <2>4. /\ {rel'[j].offset : j \in S!New(rel')} = {given[j].offset : j \in S!New(given)}
        /\ \A j \in S!New(rel') : \E m \in S!New(given) : rel'[j] = given[m]
    BY <2>2, <2>3
  <2> QED
    BY <1>2, <2>1, <2>4 DEF S!PlacesKept, S!New
<1>6. UNCHANGED <<Now, Given>>
  BY <1>1 DEF Now, Given, New, N
<1> QED
  BY <1>1, <1>2, <1>4, <1>5, <1>6 DEF KeepInv

LEMMA KeepNextInsertion == KeepInv /\ S!NextInsertion => KeepInv'
<1> SUFFICES ASSUME KeepInv, S!NextInsertion PROVE KeepInv'
  OBVIOUS
<1>1. /\ pc = "next" /\ UNCHANGED <<given, rel, old, a>>
      /\ \/ a <= Len(rel) /\ i' = a - 1 /\ pc' = "insert"
         \/ ~ (a <= Len(rel)) /\ r' = old + 1 /\ dest' = old + 1 /\ pc' = "squeeze"
  BY DEF S!NextInsertion
<1>2. SqueezeTypes /\ Now = Given /\ \A j \in 1 .. old : rel[j] = given[j]
  BY <1>1 DEF KeepInv
<1>3. old \in Nat /\ N \in Nat /\ Len(rel) = N /\ a \in old + 2 .. N + 1 /\ old + 1 < N
  BY <1>1, <1>2 DEF SqueezeTypes, N
<1>4. SqueezeTypes'
  BY <1>1, <1>2, <1>3 DEF SqueezeTypes, N
<1>5. UNCHANGED <<Now, Given, New, N>>
  BY <1>1 DEF Now, Given, New, N
<1>6. S!PlacesKept'
  BY <1>1, <1>2 DEF S!PlacesKept
<1>7. pc' = "squeeze" => \A x \in Given : \E j \in (old + 1 .. dest') \cup (r' .. N) : At(j) = x.offset
  <2>1. SUFFICES ASSUME pc' = "squeeze", NEW x \in Given
                 PROVE  \E j \in (old + 1 .. dest') \cup (r' .. N) : At(j) = x.offset
    OBVIOUS
  <2>2. r' = old + 1
    BY <1>1, <2>1
  <2>3. PICK j \in New : rel[j] = x
    BY <1>2 DEF Now
  <2> QED
    BY <2>2, <2>3 DEF New, At
<1> QED
  BY <1>1, <1>2, <1>4, <1>5, <1>6, <1>7 DEF KeepInv, At

LEMMA KeepSwap == KeepInv /\ S!Swap => KeepInv'
<1> SUFFICES ASSUME KeepInv, S!Swap PROVE KeepInv'
  OBVIOUS
<1>1. /\ pc = "insert" /\ pc' = pc /\ UNCHANGED <<given, old, a>> /\ i > old /\ i' = i - 1
      /\ rel' = [rel EXCEPT ![a] = rel[i], ![i] = rel[a]]
  BY DEF S!Swap
<1>2. SqueezeTypes /\ Now = Given /\ \A j \in 1 .. old : rel[j] = given[j]
  BY <1>1 DEF KeepInv
<1>3. /\ old \in Nat /\ N \in Nat /\ Len(rel) = N /\ a \in old + 2 .. N /\ i \in old + 1 .. a - 1
      /\ rel \in Seq(Reloc)
  BY <1>1, <1>2 DEF SqueezeTypes, N
<1>4. a \in New /\ i \in New /\ a # i /\ DOMAIN rel = 1 .. N /\ New \subseteq 1 .. N
  BY <1>3 DEF New
<1>5. /\ rel' \in Seq(Reloc) /\ Len(rel') = N /\ rel'[a] = rel[i] /\ rel'[i] = rel[a]
      /\ \A j \in 1 .. N : j # a /\ j # i => rel'[j] = rel[j]
  <2>1. rel[a] \in Reloc /\ rel[i] \in Reloc
    BY <1>3, <1>4
  <2> QED
    BY <1>1, <1>3, <1>4, <2>1
<1>6. SqueezeTypes'
  BY <1>1, <1>2, <1>3, <1>5 DEF SqueezeTypes, N
<1>7. Now' = Given'
  <2>1. New' = New /\ Given' = Given
    BY <1>1 DEF New, Given, N
  <2>2. \A j \in New : \E m \in New : rel'[j] = rel[m]
    BY <1>4, <1>5
  <2>3. \A j \in New : \E m \in New : rel'[m] = rel[j]
    BY <1>4, <1>5
  <2> QED
    BY <1>2, <2>1, <2>2, <2>3 DEF Now
<1>8. \A j \in 1 .. old : rel'[j] = given[j]
  BY <1>2, <1>3, <1>5
<1> QED
  BY <1>1, <1>6, <1>7, <1>8 DEF KeepInv, S!PlacesKept

LEMMA KeepInserted == KeepInv /\ S!Inserted => KeepInv'
<1> SUFFICES ASSUME KeepInv, S!Inserted PROVE KeepInv'
  OBVIOUS
<1>1. pc = "insert" /\ pc' = "next" /\ UNCHANGED <<given, rel, old>> /\ a' = a + 1
  BY DEF S!Inserted
<1>2. SqueezeTypes /\ Now = Given /\ \A j \in 1 .. old : rel[j] = given[j]
  BY <1>1 DEF KeepInv
<1>3. N \in Nat /\ old \in Nat
  BY <1>2 DEF SqueezeTypes, N
<1>4. SqueezeTypes'
  BY <1>1, <1>2, <1>3 DEF SqueezeTypes, N
<1>5. UNCHANGED <<Now, Given>>
  BY <1>1 DEF Now, Given, New, N
<1> QED
  BY <1>1, <1>2, <1>4, <1>5 DEF KeepInv, S!PlacesKept

\* where the loop writes, and what it has there then
Target == IF At(dest) # At(r) THEN dest + 1 ELSE dest

LEMMA SqueezeStep ==
  ASSUME SqueezeTypes, S!Squeeze
  PROVE  /\ pc = "squeeze" /\ pc' = pc /\ UNCHANGED <<given, old>> /\ r' = r + 1 /\ dest' = Target
         /\ old \in Nat /\ N \in Nat /\ dest \in old + 1 .. N /\ r \in dest .. N
         /\ Target \in dest .. r /\ Target \in Nat
         /\ rel \in Seq(Reloc) /\ rel' \in Seq(Reloc) /\ Len(rel) = N /\ Len(rel') = N
         /\ rel'[Target] = rel[r] /\ \A j \in 1 .. N : j # Target => rel'[j] = rel[j]
         /\ DOMAIN rel = 1 .. N
<1>1. /\ pc = "squeeze" /\ pc' = pc /\ UNCHANGED <<given, old>> /\ r' = r + 1 /\ dest' = Target
      /\ rel' = [rel EXCEPT ![Target] = rel[r]] /\ r <= Len(rel)
  BY DEF S!Squeeze, Target, At
<1>2. /\ old \in Nat /\ N \in Nat /\ dest \in old + 1 .. N /\ r \in dest .. N
      /\ rel \in Seq(Reloc) /\ Len(rel) = N
  BY <1>1 DEF SqueezeTypes, N
<1>3. Target \in dest .. r /\ Target \in Nat
  BY <1>2 DEF Target
<1>4. rel[r] \in Reloc /\ Target \in 1 .. N /\ r \in 1 .. N
  BY <1>2, <1>3
<1>5. DOMAIN rel = 1 .. N
  BY <1>2
<1>6. /\ rel' \in Seq(Reloc) /\ Len(rel') = N
      /\ rel'[Target] = rel[r] /\ \A j \in 1 .. N : j # Target => rel'[j] = rel[j]
  <2> PICK d : d = Target
    OBVIOUS
  <2>1. rel' = [rel EXCEPT ![d] = rel[r]]
    BY <1>1
  <2> QED
    BY <1>2, <1>4, <1>5, <2>1
<1> QED
  BY <1>1, <1>2, <1>3, <1>5, <1>6

LEMMA KeepSqueeze == KeepInv /\ S!Squeeze => KeepInv'
<1> SUFFICES ASSUME KeepInv, S!Squeeze PROVE KeepInv'
  OBVIOUS
<1> PICK d : d = Target
  OBVIOUS
<1>1. /\ pc = "squeeze" /\ pc' = pc /\ UNCHANGED <<given, old>> /\ r' = r + 1 /\ dest' = d
      /\ old \in Nat /\ N \in Nat /\ dest \in old + 1 .. N /\ r \in dest .. N
      /\ d \in dest .. r /\ d \in Nat
      /\ rel \in Seq(Reloc) /\ rel' \in Seq(Reloc) /\ Len(rel) = N /\ Len(rel') = N
      /\ rel'[d] = rel[r] /\ \A j \in 1 .. N : j # d => rel'[j] = rel[j]
      /\ DOMAIN rel = 1 .. N
  BY SqueezeStep DEF KeepInv
<1>2. /\ SqueezeTypes /\ Now \subseteq Given
      /\ \A x \in Given : \E j \in (old + 1 .. dest) \cup (r .. N) : At(j) = x.offset
      /\ \A j \in 1 .. old : rel[j] = given[j]
  BY <1>1 DEF KeepInv
<1>3. N' = N /\ Given' = Given /\ New' = New
  BY <1>1 DEF N, Given, New
<1>4. dest' \in old + 1 .. N /\ r' \in dest' .. N + 1
  BY <1>1
<1>5. SqueezeTypes'
  BY <1>1, <1>2, <1>3, <1>4 DEF SqueezeTypes
<1>6. Now' \subseteq Given'
  <2>1. \A j \in New : \E m \in New : rel'[j] = rel[m]
    BY <1>1 DEF New
  <2> QED
    BY <1>2, <1>3, <2>1 DEF Now
<1>7. ASSUME NEW x \in Given
      PROVE  \E j \in (old + 1 .. d) \cup (r + 1 .. N) : rel'[j].offset = x.offset
  <2>1. PICK j \in (old + 1 .. dest) \cup (r .. N) : At(j) = x.offset
    BY <1>2
  <2>2. CASE j = r
    BY <1>1, <2>1, <2>2 DEF At
  <2>3. CASE j = d
    <3>1. CASE j = dest
      <4>1. At(dest) = At(r)
        BY <1>1, <2>3, <3>1 DEF Target
      <4> QED
        BY <1>1, <2>1, <3>1, <4>1 DEF At
    <3>2. CASE j # dest
      <4>1. j = r
        BY <1>1, <2>1, <2>3, <3>2
      <4> QED
        BY <2>2, <4>1
    <3> QED
      BY <3>1, <3>2
  <2>4. CASE j # r /\ j # d
    <3>1. j \in 1 .. N /\ j \in (old + 1 .. d) \cup (r + 1 .. N)
      BY <1>1, <2>1, <2>4
    <3> QED
      BY <1>1, <2>1, <2>4, <3>1 DEF At
  <2> QED
    BY <2>2, <2>3, <2>4
<1>8. \A x \in Given' : \E j \in (old' + 1 .. dest') \cup (r' .. N') : At(j)' = x.offset
  BY <1>1, <1>3, <1>7 DEF At
<1>9. \A j \in 1 .. old : rel'[j] = given[j]
  BY <1>1, <1>2
<1> QED
  BY <1>1, <1>3, <1>5, <1>6, <1>8, <1>9 DEF KeepInv, S!PlacesKept

LEMMA KeepSqueezed == KeepInv /\ S!Squeezed => KeepInv'
<1> SUFFICES ASSUME KeepInv, S!Squeezed PROVE KeepInv'
  OBVIOUS
<1>1. /\ pc = "squeeze" /\ pc' = "done" /\ UNCHANGED <<given, old>> /\ r > Len(rel)
      /\ rel' = SubSeq(rel, 1, dest)
  BY DEF S!Squeezed
<1>2. /\ SqueezeTypes /\ Now \subseteq Given
      /\ \A x \in Given : \E j \in (old + 1 .. dest) \cup (r .. N) : At(j) = x.offset
      /\ \A j \in 1 .. old : rel[j] = given[j]
  BY <1>1 DEF KeepInv
<1>3. /\ old \in Nat /\ N \in Nat /\ dest \in old + 1 .. N /\ r = N + 1
      /\ rel \in Seq(Reloc) /\ Len(rel) = N
  <2>1. /\ old \in Nat /\ given \in Seq(Reloc) /\ rel \in Seq(Reloc) /\ Len(rel) = N
        /\ dest \in old + 1 .. N /\ r \in dest .. N + 1 /\ r > N
    BY <1>1, <1>2 DEF SqueezeTypes
  <2>2. N \in Nat
    BY <2>1 DEF N
  <2>3. r \in Int
    BY <2>1, <2>2
  <2>4. r = N + 1
    BY <2>1, <2>2, <2>3
  <2> QED
    BY <2>1, <2>2, <2>4
<1>4. /\ rel' \in Seq(Reloc) /\ Len(rel') = dest /\ \A j \in 1 .. dest : rel'[j] = rel[j]
  BY <1>1, <1>3
<1>5. SqueezeTypes'
  BY <1>1, <1>2, <1>4 DEF SqueezeTypes, N
<1>6. \A j \in 1 .. old : rel'[j] = given[j]
  BY <1>2, <1>3, <1>4
<1>7. \A j \in old + 1 .. dest : \E m \in New : rel'[j] = given[m]
  <2>1. SUFFICES ASSUME NEW j \in old + 1 .. dest PROVE \E m \in New : rel'[j] = given[m]
    OBVIOUS
  <2>2. j \in New /\ rel'[j] = rel[j]
    BY <1>3, <1>4 DEF New
  <2> QED
    BY <1>2, <2>2 DEF Now, Given
<1>8. \A m \in New : \E j \in old + 1 .. dest : rel'[j].offset = given[m].offset
  <2>1. SUFFICES ASSUME NEW m \in New
                 PROVE  \E j \in old + 1 .. dest : rel'[j].offset = given[m].offset
    OBVIOUS
  <2>2. PICK j \in (old + 1 .. dest) \cup (r .. N) : At(j) = given[m].offset
    BY <1>2 DEF Given
  <2>3. j \in old + 1 .. dest
    BY <1>3, <2>2
  <2> QED
    BY <1>3, <1>4, <2>2, <2>3 DEF At
<1>9. S!PlacesKept'
  <2>1. S!New(rel') = old + 1 .. dest /\ S!New(given) = New
    BY <1>4 DEF S!New, New, N
  <2>2. /\ {rel'[j].offset : j \in S!New(rel')} = {given[j].offset : j \in S!New(given)}
        /\ \A j \in S!New(rel') : \E m \in S!New(given) : rel'[j] = given[m]
    BY <1>7, <1>8, <2>1
  <2> QED
    BY <1>1, <1>6, <2>2 DEF S!PlacesKept, S!New
<1> QED
  BY <1>1, <1>5, <1>6, <1>9 DEF KeepInv

LEMMA KeepNext == KeepInv /\ [S!Next]_squeezeVars => KeepInv'
<1> SUFFICES ASSUME KeepInv, [S!Next]_squeezeVars PROVE KeepInv'
  OBVIOUS
<1>1. CASE UNCHANGED squeezeVars
  <2>1. UNCHANGED <<given, rel, old, a, i, addr, r, dest, pc>>
    BY <1>1 DEF squeezeVars
  <2>2. UNCHANGED <<N, Now, Given, New>> /\ \A j : At(j)' = At(j)
    BY <2>1 DEF N, Now, Given, New, At
  <2>3. SqueezeTypes'
    BY <2>1, <2>2 DEF KeepInv, SqueezeTypes
  <2>4. S!PlacesKept'
    <3>1. S!PlacesKept
      BY DEF KeepInv
    <3>2. S!PlacesKept' = S!PlacesKept
      BY <2>1 DEF S!PlacesKept, S!New
    <3> QED
      BY <3>1, <3>2
  <2> QED
    BY <2>1, <2>2, <2>3, <2>4 DEF KeepInv
<1>2. CASE S!Next
  BY <1>2, KeepStart, KeepNextInsertion, KeepSwap, KeepInserted, KeepSqueeze, KeepSqueezed DEF S!Next
<1> QED
  BY <1>1, <1>2

(* SqueezeKeepsPlaces: squeeze_multi_relocs touches no relocation that is  *)
(* not of the object, and every place of the object that was relocated     *)
(* still is in the end, by a relocation that was put, in whatever order    *)
(* they were put.                                                          *)
THEOREM NoPlaceIsLost == S!Spec => []SqueezeKeepsPlaces
<1>1. [S!Next]_(S!vars) => [S!Next]_squeezeVars
  BY DEF S!vars, squeezeVars
<1>2. KeepInv => SqueezeKeepsPlaces
  BY DEF KeepInv, SqueezeKeepsPlaces
<1> QED
  BY <1>1, <1>2, KeepInit, KeepNext, PTL DEF S!Spec

-----------------------------------------------------------------------------
(* The swap puts the relocation read last where it belongs, but only once: *)
(* a second swap would take the wrong one.  With at most one relocation    *)
(* put too early for each there is no second; so what is behind a stays    *)
(* sorted, by offset and then by the order of putting.                     *)

Before(x, y) == x.offset < y.offset \/ (x.offset = y.offset /\ x.id < y.id)
Ordered(from, to) == \A j, m \in from .. to : j < m => Before(rel[j], rel[m])

\* the first relocations of the object, sorted; the others as they were put
Sorted(to) ==
  /\ Ordered(old + 1, to)
  /\ \A j \in old + 1 .. to : \E m \in old + 1 .. to : rel[j] = given[m]
  /\ \A m \in old + 1 .. to : \E j \in old + 1 .. to : rel[j] = given[m]
  /\ \A j \in to + 1 .. N : rel[j] = given[j]

Inserting ==
  /\ addr = given[a].offset
  /\ \/ i = a - 1 /\ Sorted(a - 1)
     \/ i = a - 2 /\ Sorted(a) /\ (i > old => At(i) <= addr)

\* what was kept comes before what is to come, and covers what was read
Squeezing ==
  /\ \A j, m \in old + 1 .. dest : j < m => At(j) < At(m)
  /\ Ordered(r, N)
  /\ \A j \in old + 1 .. dest, m \in r .. N : j = m \/ Before(rel[j], rel[m])
  /\ \A x \in New :
       \/ \E j \in r .. N : rel[j] = given[x]
       \/ \E j \in old + 1 .. dest : At(j) = given[x].offset /\ x <= rel[j].id

ReduceInv ==
  S!MostlyInOrder =>
    /\ pc = "called" => rel = given
    /\ pc = "next" => Sorted(a - 1)
    /\ pc = "insert" => Inserting
    /\ pc = "squeeze" => Squeezing
    /\ pc = "done" => S!Reduced

LEMMA RelocNumbers ==
  ASSUME SqueezeTypes
  PROVE  /\ old \in Nat /\ N \in Nat /\ DOMAIN given = 1 .. N /\ New \subseteq 1 .. N
         /\ \A j \in 1 .. N : given[j] \in Reloc /\ given[j].offset \in Nat /\ given[j].id = j
         /\ \A j \in 1 .. Len(rel) : rel[j] \in Reloc /\ At(j) \in Nat /\ rel[j].id \in Nat
<1>1. old \in Nat /\ given \in Seq(Reloc) /\ rel \in Seq(Reloc)
  BY DEF SqueezeTypes
<1>2. \A x \in Reloc : x.offset \in Nat /\ x.id \in Nat
  BY SqueezeAssumption DEF Reloc, S!Assumptions
<1>3. N \in Nat /\ DOMAIN given = 1 .. N /\ New \subseteq 1 .. N
  BY <1>1 DEF N, New
<1>4. \A j \in 1 .. N : given[j] \in Reloc
  BY <1>1, <1>3
<1>5. \A j \in 1 .. Len(rel) : rel[j] \in Reloc
  BY <1>1
<1> QED
  BY <1>1, <1>2, <1>3, <1>4, <1>5 DEF SqueezeTypes, At

LEMMA OneBehind ==
  ASSUME SqueezeTypes, S!MostlyInOrder, NEW m \in New, NEW x \in New, NEW y \in New,
         x < m, given[x].offset > given[m].offset, y < m, given[y].offset > given[m].offset
  PROVE  x = y
<1> DEFINE T == {j \in S!New(given) : j < m /\ given[j].offset > given[m].offset}
<1>1. New = S!New(given) /\ old \in Nat /\ N \in Nat
  BY RelocNumbers DEF S!New, New, N
<1>2. Cardinality(T) <= 1
  <2>1. m \in S!New(given)
    BY <1>1
  <2>2. S!Cardinality(T) <= 1
    BY <2>1 DEF S!MostlyInOrder
  <2>3. S!Cardinality(T) = Cardinality(T)
    BY DEF S!Cardinality, Cardinality
  <2> QED
    BY <2>2, <2>3
<1>3. IsFiniteSet(S!New(given))
  <2>1. old + 1 \in Int /\ N \in Int
    BY <1>1
  <2> QED
    BY <1>1, <2>1, FS_Interval DEF New
<1>4. IsFiniteSet(T)
  BY <1>3, FS_Subset
<1>5. {x, y} \subseteq T
  BY <1>1
<1> HIDE DEF T
<1>6. Cardinality({x, y}) <= Cardinality(T) /\ Cardinality({x, y}) \in Nat /\ Cardinality(T) \in Nat
  BY <1>4, <1>5, FS_Subset, FS_CardinalityType
<1>7. ASSUME x # y PROVE Cardinality({x, y}) = 2
  <2>1. Cardinality({x}) = 1 /\ IsFiniteSet({x})
    BY FS_Singleton
  <2>2. {x} \cup {y} = {x, y} /\ y \notin {x}
    BY <1>7
  <2>3. Cardinality({x} \cup {y}) = Cardinality({x}) + 1
    BY <2>1, <2>2, FS_AddElement
  <2> QED
    BY <2>1, <2>2, <2>3
<1> QED
  BY <1>2, <1>6, <1>7

\* what ReduceInv says, once for each step
LEMMA ReduceInit == S!Init => ReduceInv
BY DEF S!Init, ReduceInv

LEMMA ReduceStart == KeepInv /\ ReduceInv /\ S!Start => ReduceInv'
<1> SUFFICES ASSUME KeepInv, ReduceInv, S!Start, S!MostlyInOrder' PROVE ReduceInv'
  BY DEF ReduceInv
<1>1. /\ pc = "called" /\ UNCHANGED <<given, rel, old>>
      /\ \/ old + 1 >= Len(rel) /\ pc' = "done"
         \/ ~ (old + 1 >= Len(rel)) /\ pc' = "next" /\ a' = old + 2
  BY DEF S!Start
<1>2. S!MostlyInOrder
  BY <1>1 DEF S!MostlyInOrder, S!New
<1>3. rel = given /\ SqueezeTypes
  BY <1>1, <1>2 DEF ReduceInv, KeepInv
<1>4. old \in Nat /\ N \in Nat /\ Len(rel) = N
  BY <1>3, RelocNumbers DEF N
<1>5. CASE old + 1 >= Len(rel)
  <2>1. \A j, m \in old + 1 .. N : j = m
    BY <1>4, <1>5
  <2>2. S!New(rel') = old + 1 .. N /\ S!New(given) = old + 1 .. N
    BY <1>1, <1>4 DEF S!New, N
  <2>3. /\ \A j, m \in S!New(rel') : j < m => rel'[j].offset < rel'[m].offset
        /\ \A j \in S!New(rel') : \A m \in S!New(given) :
             given[m].offset = rel'[j].offset => given[m].id <= rel'[j].id
    <3>1. \A j, m \in old + 1 .. N : ~ (j < m)
      BY <1>4, <2>1
    <3>2. \A j \in old + 1 .. N : given[j].id <= rel'[j].id
      BY <1>1, <1>3, <1>4 DEF SqueezeTypes
    <3> QED
      BY <2>1, <2>2, <3>1, <3>2
  <2>4. S!Reduced'
    BY <1>1, <2>3 DEF S!Reduced, S!New
  <2> QED
    BY <1>1, <1>4, <1>5, <2>4 DEF ReduceInv
<1>6. CASE ~ (old + 1 >= Len(rel))
  <2>1. Sorted(old + 1)
    BY <1>3, <1>4 DEF Sorted, Ordered
  <2>2. pc' = "next" /\ a' - 1 = old + 1
    BY <1>1, <1>4, <1>6
  <2>3. Sorted(a - 1)'
    <3>1. /\ \A j, m \in old + 1 .. old + 1 : j < m => Before(rel[j], rel[m])
          /\ rel[old + 1] = given[old + 1]
          /\ \A j \in old + 1 + 1 .. N : rel[j] = given[j]
      BY <1>3, <1>4, <1>6, <2>1 DEF Sorted, Ordered
    <3>2. old' = old /\ rel' = rel /\ given' = given /\ N' = N
      BY <1>1 DEF N
    <3>3. \A j, m \in old' + 1 .. a' - 1 : j < m => Before(rel'[j], rel'[m])
      BY <2>2, <3>1, <3>2
    <3>4. /\ \A j \in old' + 1 .. a' - 1 : \E m \in old' + 1 .. a' - 1 : rel'[j] = given'[m]
          /\ \A m \in old' + 1 .. a' - 1 : \E j \in old' + 1 .. a' - 1 : rel'[j] = given'[m]
      <4>1. old + 1 \in old' + 1 .. a' - 1 /\ \A j \in old' + 1 .. a' - 1 : j = old + 1
        BY <1>3, <1>4, <2>2, <3>2
      <4> QED
        BY <3>1, <3>2, <4>1
    <3>5. \A j \in a' - 1 + 1 .. N' : rel'[j] = given'[j]
      BY <2>2, <3>1, <3>2
    <3> QED
      BY <3>3, <3>4, <3>5 DEF Sorted, Ordered
  <2> QED
    BY <2>2, <2>3 DEF ReduceInv
<1> QED
  BY <1>5, <1>6

LEMMA ReduceNextInsertion == KeepInv /\ ReduceInv /\ S!NextInsertion => ReduceInv'
<1> SUFFICES ASSUME KeepInv, ReduceInv, S!NextInsertion, S!MostlyInOrder' PROVE ReduceInv'
  BY DEF ReduceInv
<1>1. /\ pc = "next" /\ UNCHANGED <<given, rel, old, a>>
      /\ \/ a <= Len(rel) /\ i' = a - 1 /\ addr' = rel[a].offset /\ pc' = "insert"
         \/ ~ (a <= Len(rel)) /\ r' = old + 1 /\ dest' = old + 1 /\ pc' = "squeeze"
  BY DEF S!NextInsertion
<1>2. S!MostlyInOrder
  BY <1>1 DEF S!MostlyInOrder, S!New
<1>3. Sorted(a - 1) /\ SqueezeTypes
  BY <1>1, <1>2 DEF ReduceInv, KeepInv
<1>4. old \in Nat /\ N \in Nat /\ Len(rel) = N /\ a \in old + 2 .. N + 1 /\ old + 1 < N
  BY <1>1, <1>3, RelocNumbers DEF SqueezeTypes
<1>5. CASE a <= Len(rel)
  <2>1. rel[a] = given[a]
    BY <1>3, <1>4, <1>5 DEF Sorted
  <2>2. addr' = given[a].offset /\ i' = a - 1 /\ pc' = "insert"
    BY <1>1, <1>5, <2>1
  <2>3. Inserting'
    BY <1>1, <1>3, <2>2 DEF Inserting, Sorted, Ordered, N
  <2> QED
    BY <2>2, <2>3 DEF ReduceInv
<1>6. CASE ~ (a <= Len(rel))
  <2>1. Sorted(N) /\ r' = old + 1 /\ dest' = old + 1 /\ pc' = "squeeze"
    BY <1>1, <1>3, <1>4, <1>6
  <2>2. \A j, m \in old + 1 .. old + 1 : ~ (j < m)
    BY <1>4
  <2>3. \A j \in old + 1 .. old + 1, m \in old + 1 .. N : j = m \/ Before(rel[j], rel[m])
    BY <1>4, <2>1 DEF Sorted, Ordered
  <2>4. \A x \in New : \E j \in old + 1 .. N : rel[j] = given[x]
    BY <2>1 DEF Sorted, New
  <2>5. Ordered(old + 1, N)
    BY <2>1 DEF Sorted
  <2>6. Squeezing'
    BY <1>1, <2>1, <2>2, <2>3, <2>4, <2>5 DEF Squeezing, Ordered, New, N, At
  <2> QED
    BY <2>1, <2>6 DEF ReduceInv
<1> QED
  BY <1>5, <1>6

LEMMA ReduceSwap == KeepInv /\ ReduceInv /\ S!Swap => ReduceInv'
<1> SUFFICES ASSUME KeepInv, ReduceInv, S!Swap, S!MostlyInOrder' PROVE ReduceInv'
  BY DEF ReduceInv
<1>1. /\ pc = "insert" /\ pc' = pc /\ UNCHANGED <<given, old, a, addr>> /\ i > old /\ i' = i - 1
      /\ rel[i].offset > addr
      /\ rel' = [rel EXCEPT ![a] = rel[i], ![i] = rel[a]]
  BY DEF S!Swap
<1>2. S!MostlyInOrder
  BY <1>1 DEF S!MostlyInOrder, S!New
<1>3. Inserting /\ SqueezeTypes
  BY <1>1, <1>2 DEF ReduceInv, KeepInv
<1>4. /\ old \in Nat /\ N \in Nat /\ Len(rel) = N /\ a \in old + 2 .. N /\ i \in old + 1 .. a - 1
      /\ rel \in Seq(Reloc)
      /\ \A j \in 1 .. N : At(j) \in Nat /\ rel[j].id \in Nat
      /\ \A j \in 1 .. N : given[j].offset \in Nat /\ given[j].id = j
  BY <1>1, <1>3, RelocNumbers DEF SqueezeTypes
<1>5. i = a - 1 /\ Sorted(a - 1) /\ addr = given[a].offset /\ addr \in Nat
  <2>1. addr = given[a].offset /\ addr \in Nat /\ At(i) > addr /\ At(i) \in Nat
    BY <1>1, <1>3, <1>4 DEF Inserting, At
  <2>2. ~ (At(i) <= addr)
    BY <2>1
  <2> QED
    BY <1>1, <1>3, <2>1, <2>2 DEF Inserting
<1> DEFINE P == old + 1 .. a - 1
<1>6. /\ \A j, m \in P : j < m => Before(rel[j], rel[m])
      /\ \A j \in P : \E m \in P : rel[j] = given[m]
      /\ \A m \in P : \E j \in P : rel[j] = given[m]
      /\ \A j \in a .. N : rel[j] = given[j]
  <2>1. /\ \A j, m \in P : j < m => Before(rel[j], rel[m])
        /\ \A j \in P : \E m \in P : rel[j] = given[m]
        /\ \A m \in P : \E j \in P : rel[j] = given[m]
        /\ \A j \in a - 1 + 1 .. N : rel[j] = given[j]
    BY <1>5 DEF Sorted, Ordered
  <2>2. a - 1 + 1 = a
    BY <1>4
  <2> QED
    BY <2>1, <2>2
<1>60. /\ rel[a] = given[a] /\ a - 1 \in P /\ a - 1 < a /\ P \subseteq 1 .. N /\ P \subseteq old + 1 .. a
       /\ \A j \in P : j < a /\ (j # a - 1 => j < a - 1) /\ j \in Int
       /\ \A j \in old + 1 .. a : j \in P \/ j = a
  BY <1>4, <1>6
<1>61. \A j \in old + 1 .. a - 2 : j \in P /\ j # a - 1 /\ j < a - 1
  BY <1>4
<1> HIDE DEF P
<1>7. /\ rel'[a] = rel[a - 1] /\ rel'[a - 1] = given[a]
      /\ \A j \in 1 .. N : j # a /\ j # a - 1 => rel'[j] = rel[j]
  BY <1>1, <1>4, <1>5, <1>60
<1>8. PICK y \in P : rel[a - 1] = given[y]
  BY <1>6, <1>60
<1>9. ASSUME NEW j \in old + 1 .. a - 2
      PROVE  /\ At(j) <= addr /\ Before(rel[j], rel[a - 1]) /\ Before(rel[j], given[a])
             /\ rel'[j] = rel[j]
  <2>1. PICK x \in P : rel[j] = given[x]
    BY <1>6, <1>61
  <2>2. Before(rel[j], rel[a - 1])
    BY <1>6, <1>60, <1>61
  <2>3. At(j) <= addr
    <3>0. At(j) \in Nat /\ addr \in Nat
      <4>1. j \in 1 .. N
        BY <1>60, <1>61
      <4> QED
        BY <1>4, <1>5, <4>1
    <3>1. SUFFICES ASSUME At(j) > addr PROVE FALSE
      BY <3>0
    <3>2. x \in New /\ y \in New /\ a \in New /\ x < a /\ y < a
      BY <1>4 DEF New, P
    <3>3. given[x].offset > given[a].offset /\ given[y].offset > given[a].offset
      BY <1>1, <1>5, <1>8, <2>1, <3>1 DEF At
    <3>4. x = y
      BY <1>2, <1>3, <3>2, <3>3, OneBehind
    <3>5. given[x].offset \in Nat /\ given[x].id \in Nat
      BY <1>4, <1>60, <2>1
    <3> QED
      BY <1>8, <2>1, <2>2, <3>4, <3>5 DEF Before
  <2>4. rel[j].id < given[a].id
    BY <1>4, <1>60, <2>1
  <2>5. Before(rel[j], given[a])
    <3>1. At(j) \in Nat
      BY <1>4, <1>60, <1>61
    <3> QED
      BY <1>5, <2>3, <2>4, <3>1 DEF Before, At
  <2>6. rel'[j] = rel[j]
    BY <1>7, <1>60, <1>61
  <2> QED
    BY <2>2, <2>3, <2>5, <2>6
<1>10. Before(given[a], rel[a - 1])
  BY <1>1, <1>5 DEF Before
<1>11. \A j, m \in old + 1 .. a : j < m => Before(rel'[j], rel'[m])
  <2>1. SUFFICES ASSUME NEW j \in old + 1 .. a, NEW m \in old + 1 .. a, j < m
                 PROVE  Before(rel'[j], rel'[m])
    OBVIOUS
  <2>2. CASE m = a /\ j = a - 1
    BY <1>7, <1>10, <2>2
  <2>3. CASE m = a /\ j # a - 1
    <3>1. j \in old + 1 .. a - 2
      BY <1>4, <2>1, <2>3
    <3> QED
      BY <1>7, <1>9, <2>3, <3>1
  <2>4. CASE m = a - 1
    <3>1. j \in old + 1 .. a - 2
      BY <1>4, <2>1, <2>4
    <3> QED
      BY <1>7, <1>9, <2>4, <3>1
  <2>5. CASE m # a /\ m # a - 1
    <3>1. j \in old + 1 .. a - 2 /\ m \in old + 1 .. a - 2
      BY <1>4, <2>1, <2>5
    <3>2. Before(rel[j], rel[m])
      BY <1>6, <1>61, <2>1, <3>1
    <3> QED
      BY <1>9, <3>1, <3>2
  <2> QED
    BY <2>2, <2>3, <2>4, <2>5
<1>12. \A j \in old + 1 .. a : \E m \in old + 1 .. a : rel'[j] = given[m]
  <2>1. SUFFICES ASSUME NEW j \in old + 1 .. a
                 PROVE  \E m \in old + 1 .. a : rel'[j] = given[m]
    OBVIOUS
  <2>2. a \in old + 1 .. a
    BY <1>4
  <2>3. CASE j = a
    BY <1>7, <1>8, <1>60, <2>3
  <2>4. CASE j = a - 1
    BY <1>7, <2>2, <2>4
  <2>5. CASE j # a /\ j # a - 1
    BY <1>6, <1>7, <1>60, <2>5
  <2> QED
    BY <2>3, <2>4, <2>5
<1>13. \A m \in old + 1 .. a : \E j \in old + 1 .. a : rel'[j] = given[m]
  <2>1. SUFFICES ASSUME NEW m \in old + 1 .. a
                 PROVE  \E j \in old + 1 .. a : rel'[j] = given[m]
    OBVIOUS
  <2>2. a \in old + 1 .. a
    BY <1>4
  <2>3. CASE m = a
    BY <1>7, <1>60, <2>3
  <2>4. CASE m # a
    <3>1. PICK j \in P : rel[j] = given[m]
      BY <1>6, <1>60, <2>4
    <3>2. CASE j = a - 1
      BY <1>7, <2>2, <3>1, <3>2
    <3>3. CASE j # a - 1
      <4>1. j # a /\ rel'[j] = rel[j]
        BY <1>4, <1>7, <1>60, <3>3
      <4> QED
        BY <1>60, <3>1, <4>1
    <3> QED
      BY <3>2, <3>3
  <2> QED
    BY <2>3, <2>4
<1>14. \A j \in a + 1 .. N : rel'[j] = given[j]
  <2>1. SUFFICES ASSUME NEW j \in a + 1 .. N PROVE rel'[j] = given[j]
    OBVIOUS
  <2>2. j \in a .. N /\ j \in 1 .. N /\ j # a /\ j # a - 1
    BY <1>4
  <2> QED
    BY <1>6, <1>7, <2>2
<1>15. a - 2 > old => rel'[a - 2].offset <= addr
  <2>1. a - 2 > old => a - 2 \in old + 1 .. a - 2
    BY <1>4
  <2> QED
    BY <1>9, <2>1 DEF At
<1>16. Inserting'
  <2>1. Sorted(a)'
    <3>1. UNCHANGED <<old, a, given>>
      BY <1>1
    <3> QED
      BY <1>11, <1>12, <1>13, <1>14, <3>1 DEF Sorted, Ordered, N
  <2>2. i' = a - 2 /\ a' = a
    BY <1>1, <1>4, <1>5
  <2> QED
    BY <1>1, <1>5, <1>15, <2>1, <2>2 DEF Inserting, At
<1> QED
  BY <1>1, <1>16 DEF ReduceInv

LEMMA ReduceInserted == KeepInv /\ ReduceInv /\ S!Inserted => ReduceInv'
<1> SUFFICES ASSUME KeepInv, ReduceInv, S!Inserted, S!MostlyInOrder' PROVE ReduceInv'
  BY DEF ReduceInv
<1>1. /\ pc = "insert" /\ pc' = "next" /\ UNCHANGED <<given, rel, old>> /\ a' = a + 1
      /\ ~ (i > old /\ rel[i].offset > addr)
  BY DEF S!Inserted
<1>2. S!MostlyInOrder
  BY <1>1 DEF S!MostlyInOrder, S!New
<1>3. Inserting /\ SqueezeTypes
  BY <1>1, <1>2 DEF ReduceInv, KeepInv
<1>4. /\ old \in Nat /\ N \in Nat /\ Len(rel) = N /\ a \in old + 2 .. N /\ i \in old .. a - 1
      /\ \A j \in 1 .. N : At(j) \in Nat
      /\ \A j \in 1 .. N : given[j].offset \in Nat /\ given[j].id = j
  BY <1>1, <1>3, RelocNumbers DEF SqueezeTypes
<1>5. Sorted(a)
  <2>1. SUFFICES ASSUME i = a - 1, Sorted(a - 1), addr = given[a].offset PROVE Sorted(a)
    BY <1>3 DEF Inserting
  <2>2. /\ \A j, m \in old + 1 .. a - 1 : j < m => Before(rel[j], rel[m])
        /\ \A j \in old + 1 .. a - 1 : \E m \in old + 1 .. a - 1 : rel[j] = given[m]
        /\ \A m \in old + 1 .. a - 1 : \E j \in old + 1 .. a - 1 : rel[j] = given[m]
        /\ \A j \in a - 1 + 1 .. N : rel[j] = given[j]
    BY <2>1 DEF Sorted, Ordered
  <2>3. rel[a] = given[a] /\ a \in old + 1 .. a /\ \A j \in a + 1 .. N : rel[j] = given[j]
    BY <1>4, <2>2
  <2>4. At(a - 1) <= addr /\ addr \in Nat /\ a - 1 \in old + 1 .. a - 1
    BY <1>1, <1>4, <2>1 DEF At
  <2>5. ASSUME NEW j \in old + 1 .. a - 1 PROVE Before(rel[j], rel[a])
    <3>1. PICK m \in old + 1 .. a - 1 : rel[j] = given[m]
      BY <2>2
    <3>2. rel[j].id < rel[a].id
      BY <1>4, <2>3, <3>1
    <3>3. At(j) \in Nat /\ At(a - 1) \in Nat
      BY <1>4
    <3>4. j = a - 1 \/ Before(rel[j], rel[a - 1])
      BY <1>4, <2>2, <2>4
    <3>5. At(j) <= addr
      BY <2>4, <3>3, <3>4 DEF Before, At
    <3> QED
      BY <2>1, <2>3, <2>4, <3>2, <3>3, <3>5 DEF Before, At
  <2>6. \A j \in old + 1 .. a : j \in old + 1 .. a - 1 \/ j = a
    BY <1>4
  <2>7. ASSUME NEW j \in old + 1 .. a, NEW m \in old + 1 .. a, j < m
        PROVE  Before(rel[j], rel[m])
    <3>1. j \in old + 1 .. a - 1
      BY <1>4, <2>7
    <3> QED
      BY <2>2, <2>5, <2>6, <2>7, <3>1
  <2>10. \A j \in old + 1 .. a - 1 : j \in old + 1 .. a
    BY <1>4
  <2>8. \A j \in old + 1 .. a : \E m \in old + 1 .. a : rel[j] = given[m]
    BY <2>2, <2>3, <2>6, <2>10
  <2>9. \A m \in old + 1 .. a : \E j \in old + 1 .. a : rel[j] = given[m]
    BY <2>2, <2>3, <2>6, <2>10
  <2> QED
    BY <2>3, <2>7, <2>8, <2>9 DEF Sorted, Ordered
<1>6. a' - 1 = a
  BY <1>1, <1>4
<1>7. Sorted(a - 1)'
  BY <1>1, <1>5, <1>6 DEF Sorted, Ordered, N
<1> QED
  BY <1>1, <1>7 DEF ReduceInv

LEMMA ReduceSqueeze == KeepInv /\ ReduceInv /\ S!Squeeze => ReduceInv'
<1> SUFFICES ASSUME KeepInv, ReduceInv, S!Squeeze, S!MostlyInOrder' PROVE ReduceInv'
  BY DEF ReduceInv
<1> PICK d : d = Target
  OBVIOUS
<1>1. /\ pc = "squeeze" /\ pc' = pc /\ UNCHANGED <<given, old>> /\ r' = r + 1 /\ dest' = d
      /\ old \in Nat /\ N \in Nat /\ dest \in old + 1 .. N /\ r \in dest .. N
      /\ d \in dest .. r /\ d \in Nat
      /\ Len(rel) = N /\ rel'[d] = rel[r] /\ \A j \in 1 .. N : j # d => rel'[j] = rel[j]
  BY SqueezeStep DEF KeepInv
<1>2. S!MostlyInOrder
  BY <1>1 DEF S!MostlyInOrder, S!New
<1>3. /\ \A j, m \in old + 1 .. dest : j < m => At(j) < At(m)
      /\ \A j, m \in r .. N : j < m => Before(rel[j], rel[m])
      /\ \A j \in old + 1 .. dest, m \in r .. N : j = m \/ Before(rel[j], rel[m])
      /\ \A x \in New :
           \/ \E j \in r .. N : rel[j] = given[x]
           \/ \E j \in old + 1 .. dest : At(j) = given[x].offset /\ x <= rel[j].id
  BY <1>1, <1>2 DEF ReduceInv, Squeezing, Ordered
<1>4. /\ \A j \in 1 .. N : At(j) \in Nat /\ rel[j].id \in Nat
      /\ \A j \in New : j \in Nat /\ given[j].id = j
  BY <1>1, RelocNumbers DEF KeepInv
<1>5. \/ d = dest /\ At(dest) = At(r)
      \/ d = dest + 1 /\ At(dest) < At(r)
  <2>1. CASE At(dest) = At(r)
    BY <2>1 DEF Target
  <2>2. CASE At(dest) # At(r)
    <3>1. Before(rel[dest], rel[r])
      BY <1>1, <1>3, <2>2
    <3> QED
      BY <2>2, <3>1 DEF Target, Before, At
  <2> QED
    BY <2>1, <2>2
<1>6. ASSUME NEW j \in old + 1 .. d, j # d
      PROVE  j \in old + 1 .. dest /\ rel'[j] = rel[j] /\ At(j) < At(r) /\ j \in 1 .. N
  <2>1. j \in old + 1 .. dest /\ j \in 1 .. N /\ rel'[j] = rel[j]
    BY <1>1, <1>5, <1>6
  <2>2. At(j) < At(r)
    <3>1. dest \in old + 1 .. dest /\ dest \in 1 .. N /\ r \in 1 .. N
      BY <1>1
    <3>2. CASE d = dest
      <4>1. j < dest
        BY <1>1, <1>6, <3>2
      <4> QED
        BY <1>3, <1>5, <2>1, <3>1, <3>2, <4>1
    <3>3. CASE d = dest + 1
      <4>1. j = dest \/ At(j) < At(dest)
        BY <1>1, <1>3, <2>1, <3>1
      <4>2. At(dest) < At(r)
        BY <1>1, <1>5, <3>3
      <4> QED
        BY <1>4, <2>1, <3>1, <4>1, <4>2
    <3> QED
      BY <1>5, <3>2, <3>3
  <2> QED
    BY <2>1, <2>2
<1>7. ASSUME NEW j \in old + 1 .. d, NEW m \in old + 1 .. d, j < m
      PROVE  rel'[j].offset < rel'[m].offset
  <2>1. j # d
    BY <1>1, <1>7
  <2>2. CASE m = d
    BY <1>1, <1>6, <2>1, <2>2 DEF At
  <2>3. CASE m # d
    BY <1>3, <1>6, <1>7, <2>1, <2>3 DEF At
  <2> QED
    BY <2>2, <2>3
<1>8. ASSUME NEW j \in r + 1 .. N
      PROVE  rel'[j] = rel[j] /\ j \in r .. N /\ Before(rel[r], rel[j]) /\ r \in r .. N
  BY <1>1, <1>3, <1>8
<1>9. \A j, m \in r + 1 .. N : j < m => Before(rel'[j], rel'[m])
  BY <1>3, <1>8
<1>10. ASSUME NEW j \in old + 1 .. d, NEW m \in r + 1 .. N PROVE Before(rel'[j], rel'[m])
  <2>1. CASE j = d
    BY <1>1, <1>8, <2>1
  <2>2. CASE j # d
    <3>1. j # m
      BY <1>1
    <3> QED
      BY <1>3, <1>6, <1>8, <2>2, <3>1
  <2> QED
    BY <2>1, <2>2
<1>11. ASSUME NEW x \in New
       PROVE  \/ \E j \in r + 1 .. N : rel'[j] = given[x]
              \/ \E j \in old + 1 .. d : rel'[j].offset = given[x].offset /\ x <= rel'[j].id
  <2>1. d \in old + 1 .. d /\ r \in r .. N
    BY <1>1
  <2>2. ASSUME NEW j \in r .. N, rel[j] = given[x]
        PROVE  \/ \E k \in r + 1 .. N : rel'[k] = given[x]
               \/ \E k \in old + 1 .. d : rel'[k].offset = given[x].offset /\ x <= rel'[k].id
    <3>1. CASE j = r
      <4>1. rel'[d] = given[x] /\ x <= given[x].id
        BY <1>1, <1>4, <2>2, <3>1
      <4> QED
        BY <2>1, <4>1
    <3>2. CASE j # r
      <4>1. j \in r + 1 .. N
        BY <1>1, <3>2
      <4> QED
        BY <1>8, <2>2, <4>1
    <3> QED
      BY <3>1, <3>2
  <2>3. ASSUME NEW j \in old + 1 .. dest, At(j) = given[x].offset, x <= rel[j].id
        PROVE  \E k \in old + 1 .. d : rel'[k].offset = given[x].offset /\ x <= rel'[k].id
    <3>1. j \in old + 1 .. d /\ j \in 1 .. N /\ r \in 1 .. N
      BY <1>1
    <3>2. CASE j = d
      <4>1. j = dest /\ At(j) = At(r)
        BY <1>1, <1>5, <3>2
      <4>2. rel[j].id <= rel[r].id
        <5>1. j = r \/ Before(rel[j], rel[r])
          BY <1>3, <2>1, <2>3
        <5> QED
          BY <1>4, <3>1, <4>1, <5>1 DEF Before, At
      <4>3. rel'[d].offset = given[x].offset /\ x <= rel'[d].id
        <5>1. x \in Nat /\ rel[j].id \in Nat /\ rel[r].id \in Nat
          BY <1>4, <3>1
        <5> QED
          BY <1>1, <2>3, <4>1, <4>2, <5>1 DEF At
      <4> QED
        BY <2>1, <4>3
    <3>3. CASE j # d
      BY <1>6, <2>3, <3>1, <3>3 DEF At
    <3> QED
      BY <3>2, <3>3
  <2> QED
    BY <1>3, <2>2, <2>3
<1>12. Squeezing'
  <2>1. N' = N /\ New' = New
    BY <1>1 DEF N, New
  <2> QED
    BY <1>1, <1>7, <1>9, <1>10, <1>11, <2>1 DEF Squeezing, Ordered, At
<1> QED
  BY <1>1, <1>12 DEF ReduceInv

LEMMA ReduceSqueezed == KeepInv /\ ReduceInv /\ S!Squeezed => ReduceInv'
<1> SUFFICES ASSUME KeepInv, ReduceInv, S!Squeezed, S!MostlyInOrder' PROVE ReduceInv'
  BY DEF ReduceInv
<1>1. /\ pc = "squeeze" /\ pc' = "done" /\ UNCHANGED <<given, old>> /\ r > Len(rel)
      /\ rel' = SubSeq(rel, 1, dest)
  BY DEF S!Squeezed
<1>2. S!MostlyInOrder
  BY <1>1 DEF S!MostlyInOrder, S!New
<1>3. Squeezing /\ SqueezeTypes
  BY <1>1, <1>2 DEF ReduceInv, KeepInv
<1>4. /\ old \in Nat /\ N \in Nat /\ dest \in old + 1 .. N /\ r = N + 1
      /\ rel \in Seq(Reloc) /\ Len(rel) = N
      /\ \A j \in 1 .. N : At(j) \in Nat /\ rel[j].id \in Nat
      /\ \A m \in New : given[m].id = m /\ m \in Nat
  <2>1. /\ old \in Nat /\ N \in Nat /\ rel \in Seq(Reloc) /\ Len(rel) = N
        /\ dest \in old + 1 .. N /\ r \in dest .. N + 1 /\ r > N
    BY <1>1, <1>3, RelocNumbers DEF SqueezeTypes
  <2> QED
    BY <1>3, <2>1, RelocNumbers
<1>5. /\ Len(rel') = dest /\ \A j \in 1 .. dest : rel'[j] = rel[j]
  BY <1>1, <1>4
<1>6. S!New(rel') = old + 1 .. dest /\ S!New(given) = New
  BY <1>5 DEF S!New, New, N
<1>7. \A j \in old + 1 .. dest : rel'[j] = rel[j] /\ j \in 1 .. N
  BY <1>4, <1>5
<1>8. \A j, m \in old + 1 .. dest : j < m => rel'[j].offset < rel'[m].offset
  BY <1>3, <1>7 DEF Squeezing, At
<1>9. ASSUME NEW j \in old + 1 .. dest, NEW m \in New, given[m].offset = rel'[j].offset
      PROVE  given[m].id <= rel'[j].id
  <2>1. PICK k \in old + 1 .. dest : At(k) = given[m].offset /\ m <= rel[k].id
    <3>1. \A k \in r .. N : FALSE
      BY <1>4
    <3> QED
      BY <1>3, <3>1 DEF Squeezing
  <2>2. k = j
    <3>1. At(k) = At(j)
      BY <1>7, <1>9, <2>1 DEF At
    <3>2. ~ (k < j) /\ ~ (j < k)
      BY <1>3, <1>4, <1>7, <3>1 DEF Squeezing
    <3> QED
      BY <3>2
  <2> QED
    BY <1>4, <1>7, <2>1, <2>2
<1>10. S!Reduced'
  BY <1>1, <1>6, <1>8, <1>9 DEF S!Reduced, S!New
<1> QED
  BY <1>1, <1>10 DEF ReduceInv

LEMMA ReduceNext == KeepInv /\ ReduceInv /\ [S!Next]_squeezeVars => ReduceInv'
<1> SUFFICES ASSUME KeepInv, ReduceInv, [S!Next]_squeezeVars PROVE ReduceInv'
  OBVIOUS
<1>1. CASE UNCHANGED squeezeVars
  <2>1. UNCHANGED <<given, rel, old, a, i, addr, r, dest, pc>>
    BY <1>1 DEF squeezeVars
  <2>2. S!MostlyInOrder' = S!MostlyInOrder /\ S!Reduced' = S!Reduced
    BY <2>1 DEF S!MostlyInOrder, S!Reduced, S!New
  <2>3. Inserting' = Inserting /\ Sorted(a - 1)' = Sorted(a - 1)
    BY <2>1 DEF Inserting, Sorted, Ordered, N, At
  <2>4. Squeezing' = Squeezing
    BY <2>1 DEF Squeezing, Ordered, New, N, At
  <2> QED
    BY <2>1, <2>2, <2>3, <2>4 DEF ReduceInv
<1>2. CASE S!Next
  BY <1>2, ReduceStart, ReduceNextInsertion, ReduceSwap, ReduceInserted, ReduceSqueeze,
     ReduceSqueezed DEF S!Next
<1> QED
  BY <1>1, <1>2

(* SqueezeReduces: where each relocation was put after at most one that    *)
(* belongs behind it, squeeze_multi_relocs leaves the object's relocations *)
(* sorted, one for each place, and of those to one place the one put last. *)
THEOREM MostlyOrderedIsReduced == S!Spec => []SqueezeReduces
<1>1. [S!Next]_(S!vars) => [S!Next]_squeezeVars
  BY DEF S!vars, squeezeVars
<1>2. ReduceInv => SqueezeReduces
  BY DEF ReduceInv, SqueezeReduces, S!ReducesMostlyOrdered
<1> QED
  BY <1>1, <1>2, KeepInit, KeepNext, ReduceInit, ReduceNext, PTL DEF S!Spec

-----------------------------------------------------------------------------
(* Identifiers and scopes: I and PP are two instances of one module, and   *)
(* their definitions agree.                                                *)
PP == INSTANCE SymStack_proofs

LEMMA SameFree == I!Free = PP!Free /\ I!Made = PP!Made /\ I!Void = PP!Void
<1>1. I!Free = PP!Free
  BY DEF I!Free, PP!Free, I!Live, PP!Live, I!Range, PP!Range
<1> QED
  BY <1>1 DEF I!Made, PP!Made, I!Void, PP!Void

LEMMA SameStop ==
  /\ \A n : I!sym_find(n) = PP!sym_find(n) /\ I!Chain(n) = PP!Chain(n)
  /\ \A n : I!Stop(n) = PP!Stop(n) /\ I!asm_label_find(n) = PP!asm_label_find(n)
<1>1. \A n : I!sym_find(n) = PP!sym_find(n)
  BY DEF I!sym_find, PP!sym_find
<1>2. \A n : I!Chain(n) = PP!Chain(n)
  BY <1>1 DEF I!Chain, PP!Chain
<1>3. \A n : I!Stop(n) = PP!Stop(n)
  BY <1>2 DEF I!Stop, PP!Stop, I!Min, PP!Min
<1> QED
  BY <1>1, <1>2, <1>3 DEF I!asm_label_find, PP!asm_label_find

LEMMA SamePop ==
  /\ \A s : I!Unlink(s) = PP!Unlink(s)
  /\ \A s : I!Above(s) = PP!Above(s)
  /\ \A s : I!Range(s) = PP!Range(s)
  /\ \A s, keep : I!sym_pop(s, keep) => PP!sym_pop(s, keep)
<1>1. \A s : I!Unlink(s) = PP!Unlink(s)
  BY DEF I!Unlink, PP!Unlink, I!Min, PP!Min
<1>2. \A s : I!Above(s) = PP!Above(s)
  BY DEF I!Above, PP!Above
<1>3. \A s : I!Range(s) = PP!Range(s)
  BY DEF I!Range, PP!Range
<1>4. \A s : I!Erased(s) = PP!Erased(s)
  BY SameFree DEF I!Erased, PP!Erased
<1>5. \A s, keep : I!sym_pop(s, keep) => PP!sym_pop(s, keep)
  <2> SUFFICES ASSUME NEW s, NEW keep, I!sym_pop(s, keep) PROVE PP!sym_pop(s, keep)
    OBVIOUS
  <2>1. I!Erased(I!Range(I!Above(s))) = PP!Erased(PP!Range(PP!Above(s)))
    BY <1>2, <1>3, <1>4
  <2>2. I!Unlink(I!Above(s)) = PP!Unlink(PP!Above(s))
    BY <1>1, <1>2
  <2> QED
    BY <2>1, <2>2 DEF I!sym_pop, PP!sym_pop
<1> QED
  BY <1>1, <1>2, <1>3, <1>5

LEMMA SamePush ==
  /\ \A n, scope, auto : I!Push(n, scope, auto) => PP!Push(n, scope, auto)
  /\ \A n : I!NewGlobal(n) => PP!NewGlobal(n)
  /\ \A k, n : I!Declared(k, n) => PP!Declared(k, n)
  /\ \A kinds : I!In(kinds) <=> PP!In(kinds)
<1>1. \A n, scope, auto : I!Push(n, scope, auto) => PP!Push(n, scope, auto)
  BY SameFree, SameStop DEF I!Push, PP!Push
<1>2. \A n : I!global_identifier_push(n) => PP!global_identifier_push(n)
  BY SameFree, SameStop DEF I!global_identifier_push, PP!global_identifier_push
<1>3. \A k, n : I!Declared(k, n) => PP!Declared(k, n)
  BY SameFree DEF I!Declared, PP!Declared
<1>4. \A n : I!Kept(n) <=> PP!Kept(n)
  BY SameStop DEF I!Kept, PP!Kept, I!Range, PP!Range
<1>5. \A kinds : I!In(kinds) <=> PP!In(kinds)
  BY DEF I!In, PP!In, I!Last, PP!Last
<1> QED
  BY <1>1, <1>2, <1>3, <1>4, <1>5 DEF I!NewGlobal, PP!NewGlobal

LEMMA SameEnter ==
  /\ \A kind, is_expr : I!Construct(kind, is_expr) = PP!Construct(kind, is_expr)
  /\ \A s, levels : I!Enter(s, levels) => PP!Enter(s, levels)
  /\ I!NoDecls = PP!NoDecls
<1>1. I!NoDecls = PP!NoDecls
  BY DEF I!NoDecls, PP!NoDecls
<1>2. \A kind, is_expr : I!Construct(kind, is_expr) = PP!Construct(kind, is_expr)
  BY DEF I!Construct, PP!Construct
<1> QED
  BY <1>1, <1>2 DEF I!Enter, PP!Enter, I!stacks, PP!stacks

LEMMA SameScopeInit == I!Init => PP!Init
BY SameEnter, SameFree DEF I!Init, PP!Init

LEMMA SameScopeNext == [I!Next]_(I!vars) => [PP!Next]_(PP!vars)
<1>1. I!DeclareFile => PP!DeclareFile
  BY SamePush, SameStop DEF I!DeclareFile, PP!DeclareFile
<1>2. I!DeclareLocal => PP!DeclareLocal
  BY SamePush, SameStop
  DEF I!DeclareLocal, PP!DeclareLocal, I!stacks, PP!stacks, I!Last, PP!Last
<1>3. I!DeclareExtern => PP!DeclareExtern
  BY SamePush, SameStop DEF I!DeclareExtern, PP!DeclareExtern
<1>4. I!CallUndeclared => PP!CallUndeclared
  BY SamePush, SameStop DEF I!CallUndeclared, PP!CallUndeclared
<1>5. I!AsmLabel => PP!AsmLabel
  BY SamePush, SameStop DEF I!AsmLabel, PP!AsmLabel
<1>6. I!BeginFunction => PP!BeginFunction
  BY SameFree, SameEnter DEF I!BeginFunction, PP!BeginFunction
<1>7. I!BeginBody => PP!BeginBody
  BY SamePush, SameEnter DEF I!BeginBody, PP!BeginBody, I!stacks, PP!stacks
<1>8. I!BeginBlock => PP!BeginBlock
  BY SamePush, SameEnter DEF I!BeginBlock, PP!BeginBlock, I!Last, PP!Last
<1>9. I!BeginFor => PP!BeginFor
  BY SamePush, SameEnter DEF I!BeginFor, PP!BeginFor
<1>10. I!ForBody => PP!ForBody
  BY SamePush, SameEnter DEF I!ForBody, PP!ForBody
<1>11. I!EndScope => PP!EndScope
  <2>1. I!Last(open) = PP!Last(open) /\ I!Front(open) = PP!Front(open) /\ I!Front(scopes) = PP!Front(scopes)
    BY DEF I!Last, PP!Last, I!Front, PP!Front
  <2>2. \A s : I!Range(I!Above(s)) = PP!Range(PP!Above(s))
    BY SamePop
  <2> QED
    BY <2>1, <2>2, SamePush, SamePop DEF I!EndScope, PP!EndScope
<1>12. I!EndFunction => PP!EndFunction
  BY SamePush, SamePop DEF I!EndFunction, PP!EndFunction, I!Front, PP!Front
<1>13. I!EndFile => PP!EndFile
  BY SamePop, SameEnter
  DEF I!EndFile, PP!EndFile, I!Erased, PP!Erased, I!Void, PP!Void, I!Range, PP!Range
<1> QED
  BY <1>1, <1>2, <1>3, <1>4, <1>5, <1>6, <1>7, <1>8, <1>9, <1>10, <1>11, <1>12, <1>13
  DEF I!Next, PP!Next, I!vars, PP!vars, I!stacks, PP!stacks

LEMMA SameScopeProperties ==
  /\ PP!ScopesAsMeant => I!ScopesAsMeant
  /\ PP!SymbolsLive => I!SymbolsLive
<1>1. \A n, m : I!Innermost(n, m) = PP!Innermost(n, m)
  BY DEF I!Innermost, PP!Innermost, I!Max, PP!Max
<1>2. PP!ScopesAsMeant => I!ScopesAsMeant
  BY <1>1, SameStop DEF I!ScopesAsMeant, PP!ScopesAsMeant
<1>3. PP!SymbolsLive => I!SymbolsLive
  BY SameStop
  DEF I!SymbolsLive, PP!SymbolsLive, I!Live, PP!Live, I!Range, PP!Range,
      I!IsInjective, PP!IsInjective
<1> QED
  BY <1>2, <1>3

LEMMA SameScopeAssumptions == PP!Assumptions
BY ScopesAssumption DEF I!Assumptions, PP!Assumptions

(* NamesAsMeant: through declarations, blocks, loops, statement expressions *)
(* and functions, a name means its innermost declaration (sym_push,         *)
(* global_identifier_push, sym_pop), if no name that a finished statement   *)
(* expression declared becomes a global identifier.                         *)
THEOREM NamesAlwaysAsMeant ==
  ASSUME ~ ReuseKept
  PROVE  I!Spec => []NamesAsMeant
<1>1. PP!Spec => []PP!ScopesAsMeant
  BY SameScopeAssumptions, PP!ScopesAlwaysAsMeant
<1>2. PP!ScopesAsMeant => NamesAsMeant
  BY SameScopeProperties DEF NamesAsMeant
<1> QED
  BY <1>1, <1>2, SameScopeInit, SameScopeNext, PTL DEF I!Spec, PP!Spec

(* SymbolsLive: no name and no value leads to a symbol that sym_pop has    *)
(* given back, under the same condition.                                   *)
THEOREM SymbolsAlwaysLive ==
  ASSUME ~ ReuseKept
  PROVE  I!Spec => []SymbolsLive
<1>1. PP!Spec => []PP!SymbolsLive
  BY SameScopeAssumptions, PP!SymbolsAlwaysLive
<1>2. PP!SymbolsLive => SymbolsLive
  BY SameScopeProperties DEF SymbolsLive
<1> QED
  BY <1>1, <1>2, SameScopeInit, SameScopeNext, PTL DEF I!Spec, PP!Spec

-----------------------------------------------------------------------------
(* Arithmetic of places: multiples of an alignment, bytes and bits.        *)

LEMMA DivIs ==
  ASSUME NEW n \in Nat, NEW al \in Nat \ {0}
  PROVE  \E q \in Nat, m \in 0 .. al - 1 : q = n \div al /\ m = n % al /\ n = al * q + m
<1> PICK q, m : q = n \div al /\ m = n % al
  OBVIOUS
<1>1. q \in Int /\ m \in 0 .. al - 1 /\ n = al * q + m
  OBVIOUS
<1>2. q <= -1 => al * q <= al * (-1)
  BY <1>1
<1>3. q \in Nat
  BY <1>1, <1>2
<1> QED
  BY <1>1, <1>3

\* UpTo gives a multiple of al, the first that is not below n
LEMMA UpToIs ==
  ASSUME NEW n \in Nat, NEW al \in Nat \ {0}
  PROVE  /\ F!UpTo(n, al) \in Nat /\ n <= F!UpTo(n, al) /\ F!UpTo(n, al) < n + al
         /\ \E q \in Nat : F!UpTo(n, al) = q * al /\ n <= q * al /\ q * al < n + al
<1> PICK k : k = n + al - 1
  OBVIOUS
<1>1. k \in Nat
  OBVIOUS
<1>2. PICK q \in Nat, m \in 0 .. al - 1 : q = k \div al /\ m = k % al /\ k = al * q + m
  BY <1>1, DivIs
<1> PICK x : x = q * al
  OBVIOUS
<1>3. x \in Nat /\ al * q = x
  BY <1>2
<1>4. n <= x /\ x < n + al
  BY <1>2, <1>3
<1>5. F!UpTo(n, al) = x
  BY <1>2 DEF F!UpTo
<1> QED
  BY <1>2, <1>3, <1>4, <1>5

LEMMA OneMultiple ==
  ASSUME NEW n \in Nat, NEW al \in Nat \ {0}, NEW q \in Nat, NEW p \in Nat,
         n <= q * al, q * al < n + al, n <= p * al, p * al < n + al
  PROVE  q = p
<1>1. ASSUME NEW x \in Nat, NEW y \in Nat, x < y PROVE x * al + al <= y * al
  <2>1. PICK d \in Nat : y = x + 1 + d
    <3>1. y - x - 1 \in Nat /\ y = x + 1 + (y - x - 1)
      BY <1>1
    <3> QED
      BY <3>1
  <2>2. y * al = x * al + al + d * al /\ d * al \in Nat /\ x * al \in Nat
    BY <2>1
  <2> QED
    BY <2>2
<1>2. q * al \in Nat /\ p * al \in Nat
  OBVIOUS
<1>3. ~ (q < p) /\ ~ (p < q)
  BY <1>1, <1>2
<1> QED
  BY <1>3

LEMMA BytesIs ==
  ASSUME NEW b \in Nat
  PROVE  F!Bytes(b) \in Nat /\ b <= 8 * F!Bytes(b) /\ 8 * F!Bytes(b) <= b + 7
BY DEF F!Bytes

\* bytes aligned are bits aligned
LEMMA UpToBits ==
  ASSUME NEW x \in Nat, NEW b \in Nat, NEW al \in Nat \ {0}
  PROVE  8 * F!UpTo(x + F!Bytes(b), al) = F!UpTo(8 * x + b, 8 * al)
<1> PICK n : n = x + F!Bytes(b)
  OBVIOUS
<1>1. n \in Nat /\ 8 * x + b <= 8 * n /\ 8 * n <= 8 * x + b + 7
  <2>1. F!Bytes(b) \in Nat /\ b <= 8 * F!Bytes(b) /\ 8 * F!Bytes(b) <= b + 7
    BY BytesIs
  <2> QED
    BY <2>1
<1>2. PICK q \in Nat : F!UpTo(n, al) = q * al /\ n <= q * al /\ q * al < n + al
  BY <1>1, UpToIs
<1> PICK w : w = 8 * x + b
  OBVIOUS
<1> PICK A : A = 8 * al
  OBVIOUS
<1>3. w \in Nat /\ A \in Nat \ {0}
  OBVIOUS
<1>4. PICK p \in Nat : F!UpTo(w, A) = p * A /\ w <= p * A /\ p * A < w + A
  BY <1>3, UpToIs
<1>5. q * A = 8 * (q * al) /\ q * al \in Nat
  OBVIOUS
<1>6. w <= q * A /\ q * A < w + A
  BY <1>1, <1>2, <1>3, <1>5
<1>7. q = p
  BY <1>3, <1>4, <1>6, OneMultiple
<1> QED
  BY <1>2, <1>4, <1>5, <1>7

\* where a bit-field goes that is not to be moved
LEMMA DownToBits ==
  ASSUME NEW b \in Nat, NEW al \in Nat \ {0}
  PROVE  \E z \in Nat, m \in 0 .. 8 * al - 1 :
           F!DownTo(b, 8 * al) \div 8 = z /\ b % (8 * al) = m /\ 8 * z + m = b
<1> PICK A : A = 8 * al
  OBVIOUS
<1>1. A \in Nat \ {0}
  OBVIOUS
<1>2. PICK q \in Nat, m \in 0 .. A - 1 : q = b \div A /\ m = b % A /\ b = A * q + m
  BY <1>1, DivIs
<1> PICK z : z = q * al
  OBVIOUS
<1>3. z \in Nat /\ q * A = 8 * z /\ A * q = 8 * z
  <2>1. z \in Nat
    BY <1>2
  <2>2. q * A = 8 * (q * al) /\ q * al \in Nat
    BY <1>2
  <2>3. A * q = q * A
    BY <1>1, <1>2
  <2> QED
    BY <2>1, <2>2, <2>3
<1>4. F!DownTo(b, A) = 8 * z
  BY <1>2, <1>3 DEF F!DownTo
<1>5. F!DownTo(b, A) \div 8 = z
  BY <1>3, <1>4
<1>6. b % (8 * al) = m /\ m \in 0 .. 8 * al - 1
  BY <1>2
<1>7. F!DownTo(b, 8 * al) \div 8 = z
  BY <1>5
<1>8. 8 * z + m = b
  BY <1>2, <1>3
<1> QED
  BY <1>3, <1>6, <1>7, <1>8

-----------------------------------------------------------------------------
(* Sizes and alignments.                                                   *)

LEMMA SizeOf ==
  ASSUME NEW t \in F!Types
  PROVE  F!type_size(t) \in {1, 2, 4, 8}
BY DEF F!Types, F!type_size

LEMMA KindIs ==
  ASSUME NEW k \in Kinds
  PROVE  /\ k.type \in F!Types /\ F!type_size(k.type) \in {1, 2, 4, 8}
         /\ k.bits \in -1 .. 64 /\ k.bits <= 8 * F!type_size(k.type) /\ k.aligned \in Nat
BY FieldsAssumption, SizeOf DEF F!Assumptions

LEMMA MaxIs ==
  ASSUME NEW x \in Int, NEW y \in Int
  PROVE  F!Max({x, y}) \in {x, y} /\ x <= F!Max({x, y}) /\ y <= F!Max({x, y})
<1>1. \E m \in {x, y} : \A z \in {x, y} : m >= z
  <2>1. CASE x >= y
    BY <2>1
  <2>2. CASE ~ (x >= y)
    BY <2>2
  <2> QED
    BY <2>1, <2>2
<1>2. F!Max({x, y}) \in {x, y} /\ \A z \in {x, y} : F!Max({x, y}) >= z
  BY <1>1 DEF F!Max
<1> QED
  BY <1>2

LEMMA AlignIs ==
  ASSUME how \in Styles, NEW k \in Kinds
  PROVE  /\ F!AlignOf(k) \in Nat \ {0}
         /\ k.bits > 0 /\ k.aligned = 0 => F!AlignOf(k) <= F!type_size(k.type)
         /\ k.bits > 0 /\ k.aligned = 0 /\ ~ F!Packed(k) => F!AlignOf(k) = F!type_size(k.type)
<1>1. /\ F!type_size(k.type) \in {1, 2, 4, 8} /\ k.aligned \in Nat /\ how.pack \in Nat
      /\ k.bits \in -1 .. 64
  BY KindIs, FieldsAssumption DEF F!Assumptions
<1>2. F!Natural(k) \in Nat \ {0} /\ F!Natural(k) <= F!type_size(k.type)
  BY <1>1 DEF F!Natural
<1>3. F!Individual(k) \in Nat /\ (k.aligned = 0 => F!Individual(k) = 0)
  BY <1>1 DEF F!Individual
<1>4. /\ F!Individual(k) # 0 => F!AlignOf(k) = F!Individual(k)
      /\ F!Individual(k) = 0 /\ F!Unaffected(k) => F!AlignOf(k) = F!type_size(k.type)
      /\ F!Individual(k) = 0 /\ ~ F!Unaffected(k) =>
           F!AlignOf(k) = IF how.pack # 0 /\ how.pack < F!Natural(k) THEN how.pack ELSE F!Natural(k)
  BY DEF F!AlignOf
<1>5. F!AlignOf(k) \in Nat \ {0}
  BY <1>1, <1>2, <1>3, <1>4
<1>6. k.bits > 0 => ~ F!Unaffected(k)
  BY <1>1 DEF F!Unaffected
<1>7. k.bits > 0 /\ k.aligned = 0 => F!AlignOf(k) <= F!type_size(k.type)
  BY <1>1, <1>2, <1>3, <1>4, <1>6
<1>8. k.bits > 0 /\ ~ F!Packed(k) => how.pack = 0 /\ F!Natural(k) = F!type_size(k.type)
  BY <1>6 DEF F!Packed, F!Natural
<1> QED
  BY <1>2, <1>3, <1>4, <1>5, <1>6, <1>7, <1>8

\* m bits of a unit are used: n more fit unless the last is in the next unit
BitUnits == {8, 16, 32, 64}
Overflows(p, n, u) == ((p % u) + n + u - 1) \div u > 1
Crosses(p, n, u) == p \div u # (p + n - 1) \div u
LEMMA UnitIs ==
  ASSUME NEW u \in BitUnits, NEW p \in Nat, NEW n \in 1 .. u
  PROVE  Overflows(p, n, u) <=> Crosses(p, n, u)
<1>1. PICK q \in Nat, m \in 0 .. u - 1 : q = p \div u /\ m = p % u /\ p = u * q + m
  <2>1. u \in Nat \ {0}
    BY DEF BitUnits
  <2> QED
    BY <2>1, DivIs
<1>2. CASE m + n <= u
  <2>1. (m + n + u - 1) \div u = 1
    <3>1. CASE u = 8
      BY <1>1, <1>2, <3>1
    <3>2. CASE u = 16
      BY <1>1, <1>2, <3>2
    <3>3. CASE u = 32
      BY <1>1, <1>2, <3>3
    <3>4. CASE u = 64
      BY <1>1, <1>2, <3>4
    <3> QED
      BY <3>1, <3>2, <3>3, <3>4 DEF BitUnits
  <2>2. (p + n - 1) \div u = q
    <3>1. CASE u = 8
      BY <1>1, <1>2, <3>1
    <3>2. CASE u = 16
      BY <1>1, <1>2, <3>2
    <3>3. CASE u = 32
      BY <1>1, <1>2, <3>3
    <3>4. CASE u = 64
      BY <1>1, <1>2, <3>4
    <3> QED
      BY <3>1, <3>2, <3>3, <3>4 DEF BitUnits
  <2> QED
    BY <1>1, <2>1, <2>2 DEF Overflows, Crosses
<1>3. CASE m + n > u
  <2>1. (m + n + u - 1) \div u = 2
    <3>1. CASE u = 8
      BY <1>1, <1>3, <3>1
    <3>2. CASE u = 16
      BY <1>1, <1>3, <3>2
    <3>3. CASE u = 32
      BY <1>1, <1>3, <3>3
    <3>4. CASE u = 64
      BY <1>1, <1>3, <3>4
    <3> QED
      BY <3>1, <3>2, <3>3, <3>4 DEF BitUnits
  <2>2. (p + n - 1) \div u = q + 1
    <3>1. CASE u = 8
      BY <1>1, <1>3, <3>1
    <3>2. CASE u = 16
      BY <1>1, <1>3, <3>2
    <3>3. CASE u = 32
      BY <1>1, <1>3, <3>3
    <3>4. CASE u = 64
      BY <1>1, <1>3, <3>4
    <3> QED
      BY <3>1, <3>2, <3>3, <3>4 DEF BitUnits
  <2> QED
    BY <1>1, <2>1, <2>2 DEF Overflows, Crosses
<1>4. u \in Int
  BY DEF BitUnits
<1> QED
  BY <1>1, <1>2, <1>3, <1>4

\* "it would overflow its base type container": the first and the last bit
\* would be in different units
LEMMA NewIs ==
  ASSUME how \in Styles, c \in Nat, bit_pos \in Nat,
         NEW k \in Kinds, k.bits > 0, k.aligned = 0, ~ F!Packed(k)
  PROVE  LET p == 8 * c + bit_pos
             unit == 8 * F!type_size(k.type)
         IN F!NewField(k) <=> p \div unit # (p + k.bits - 1) \div unit
<1> PICK p : p = 8 * c + bit_pos
  OBVIOUS
<1> PICK n : n = k.bits
  OBVIOUS
<1> PICK s : s = F!type_size(k.type)
  OBVIOUS
<1>1. p \in Nat /\ n \in 1 .. 64 /\ n <= 8 * s /\ s \in {1, 2, 4, 8}
  BY KindIs
<1>2. F!AlignOf(k) = s
  BY AlignIs
<1>3. F!NewField(k) <=> ((p % (8 * s)) + n + 8 * s - 1) \div (8 * s) > s \div s
  BY <1>1, <1>2 DEF F!NewField
<1>4. 8 * s \in {8, 16, 32, 64} /\ s \div s = 1
  BY <1>1
<1> PICK u : u = 8 * s
  OBVIOUS
<1>5. F!NewField(k) <=> Overflows(p, n, u)
  BY <1>3, <1>4 DEF Overflows
<1>6. Overflows(p, n, u) <=> Crosses(p, n, u)
  <2>1. u \in BitUnits
    BY <1>4 DEF BitUnits
  <2>2. u \in Int /\ n <= u
    BY <1>1
  <2>3. n \in 1 .. u
    BY <1>1, <2>2
  <2>4. p \in Nat
    BY <1>1
  <2> QED
    BY <2>1, <2>3, <2>4, UnitIs
<1> QED
  BY <1>5, <1>6, Zenon DEF Crosses
-----------------------------------------------------------------------------
(* The fields of a struct.                                                 *)

FieldRec ==
  [kind : Kinds, type : F!Types, first : Nat, c : Nat, pos : Nat, auxtype : {"own"}]

LayTypes ==
  /\ how \in Styles /\ stage \in {"fields", "sized"}
  /\ c \in Nat /\ bit_pos \in Nat /\ offset \in Nat /\ size \in Nat
  /\ maxalign \in Nat \ {0}
  /\ prevbt \in F!Types \cup {"struct"}
  /\ fields \in Seq(FieldRec)

\* the first bit that is free; bit_pos counts from the unit of a bit-field,
\* which in MS layout starts at offset and ends at c
Reach ==
  IF prevbt = "struct" \/ how.union THEN 8 * c + bit_pos ELSE 8 * offset + bit_pos

\* which variable the place of the next field starts from
LoopInv ==
  /\ how.pcc => prevbt = "struct"
  /\ how.union => bit_pos = 0 /\ prevbt = "struct"
  /\ ~ how.pcc /\ prevbt = "struct" => bit_pos = 0
  /\ prevbt # "struct" =>
       c = offset + F!type_size(prevbt) /\ bit_pos <= 8 * F!type_size(prevbt)

\* a field lies where its own place says, before what is free
FieldAt(f) == f.first = 8 * f.c + f.pos /\ (f.kind.bits > 0 => f.pos < 64)
PlacesInv == \A x \in 1 .. Len(fields) : FieldAt(fields[x]) /\ F!End(fields[x]) <= Reach
OrderInv ==
  ~ how.union =>
    \A x, y \in 1 .. Len(fields) : x < y => F!End(fields[x]) <= fields[y].first

\* GCC's position is the end of the field before
LastEnd == IF Len(fields) = 0 THEN 0 ELSE F!End(fields[Len(fields)])
GccInv == (how.pcc /\ ~ how.union => Reach = LastEnd) /\ F!PccCompatible

\* in MS layout the unit of a bit-field holds it, ends by c, and before the
\* fields after it that are none
UnitEnd(f) == 8 * f.c + 8 * F!type_size(f.kind.type)
Whole(f, e) ==
  f.kind.bits > 0 =>
    /\ f.type = f.kind.type /\ f.pos + f.kind.bits <= 8 * F!type_size(f.kind.type)
    /\ UnitEnd(f) <= 8 * e
UnitInv ==
  ~ how.pcc /\ ~ how.union =>
    /\ \A x \in 1 .. Len(fields) : Whole(fields[x], c)
    /\ \A x, y \in 1 .. Len(fields) :
         x < y /\ fields[x].kind.bits > 0 /\ fields[y].kind.bits < 0 =>
           UnitEnd(fields[x]) <= fields[y].first

SizedInv == stage = "sized" => Reach <= 8 * size /\ c <= size

LayInv ==
  IF stage = "done" THEN F!LayoutSound
  ELSE LayTypes /\ LoopInv /\ PlacesInv /\ OrderInv /\ GccInv /\ UnitInv /\ SizedInv

\* what Placed leaves: the fields before, and the one that is new
NewRec(k, t, o, pos) ==
  [kind |-> k, type |-> t, first |-> 8 * o + pos, c |-> o, pos |-> pos, auxtype |-> "own"]

LEMMA WidthIs ==
  ASSUME NEW f \in FieldRec
  PROVE  /\ F!Width(f) \in Nat /\ F!Width(f) <= 8 * F!type_size(f.kind.type)
         /\ f.kind.bits >= 0 => F!Width(f) = f.kind.bits
         /\ f.kind.bits < 0 => F!Width(f) = 8 * F!type_size(f.kind.type)
         /\ F!End(f) = f.first + F!Width(f) /\ F!End(f) \in Nat
<1>1. f.kind \in Kinds /\ f.first \in Nat
  BY DEF FieldRec
<1>2. /\ F!type_size(f.kind.type) \in {1, 2, 4, 8}
      /\ f.kind.bits \in -1 .. 64 /\ f.kind.bits <= 8 * F!type_size(f.kind.type)
  BY <1>1, KindIs
<1>3. /\ F!Width(f) \in Nat /\ F!Width(f) <= 8 * F!type_size(f.kind.type)
      /\ f.kind.bits >= 0 => F!Width(f) = f.kind.bits
      /\ f.kind.bits < 0 => F!Width(f) = 8 * F!type_size(f.kind.type)
  BY <1>2 DEF F!Width
<1>4. F!End(f) = f.first + F!Width(f)
  BY DEF F!End
<1> QED
  BY <1>1, <1>3, <1>4

LEMMA PlacedIs ==
  ASSUME LayTypes, stage = "fields", NEW k \in Kinds, NEW t \in F!Types, NEW o \in Nat,
         NEW pos \in Nat, NEW al \in Nat \ {0}, F!Placed(k, t, o, pos, al)
  PROVE  /\ fields' \in Seq(FieldRec) /\ Len(fields) \in Nat /\ Len(fields') = Len(fields) + 1
         /\ \A x \in 1 .. Len(fields) : fields'[x] = fields[x] /\ fields[x] \in FieldRec
         /\ fields'[Len(fields) + 1] = NewRec(k, t, o, pos)
         /\ NewRec(k, t, o, pos) \in FieldRec
         /\ offset' = o /\ maxalign' \in Nat \ {0}
         /\ how' = how /\ size' = size /\ stage' = "fields"
<1>1. NewRec(k, t, o, pos) \in FieldRec
  BY DEF NewRec, FieldRec
<1>2. fields' = Append(fields, NewRec(k, t, o, pos))
  BY DEF F!Placed, NewRec
<1>3. maxalign' \in Nat \ {0}
  <2>1. maxalign' = F!Max({maxalign, al}) /\ maxalign \in Nat \ {0}
    BY DEF F!Placed, LayTypes
  <2>2. maxalign \in Int /\ al \in Int
    BY <2>1
  <2>3. F!Max({maxalign, al}) \in {maxalign, al}
    BY <2>2, MaxIs
  <2> QED
    BY <2>1, <2>3
<1>4. offset' = o /\ how' = how /\ size' = size /\ stage' = "fields"
  BY DEF F!Placed
<1>5. fields \in Seq(FieldRec)
  BY DEF LayTypes
<1> HIDE DEF NewRec, FieldRec
<1> QED
  BY <1>1, <1>2, <1>3, <1>4, <1>5

\* a new field whose place is free: what is left to show of each case
LEMMA PlacesStep ==
  ASSUME LayTypes, LayTypes', PlacesInv, OrderInv, stage = "fields", how' = how, Reach \in Nat,
         Reach' \in Nat, Reach <= Reach',
         NEW f \in FieldRec, FieldAt(f), F!End(f) <= Reach', ~ how.union => Reach <= f.first,
         Len(fields') = Len(fields) + 1, fields'[Len(fields) + 1] = f,
         \A x \in 1 .. Len(fields) : fields'[x] = fields[x] /\ fields[x] \in FieldRec
  PROVE  PlacesInv' /\ OrderInv'
<1>1. Len(fields) \in Nat
  BY DEF LayTypes
<1> PICK m : m = Len(fields)
  OBVIOUS
<1>2. m \in Nat /\ Len(fields') = m + 1 /\ fields'[m + 1] = f
  BY <1>1
<1>3. \A x \in 1 .. m : F!End(fields[x]) <= Reach /\ FieldAt(fields[x]) /\ F!End(fields[x]) \in Nat
  BY WidthIs DEF PlacesInv
<1>4. f.first \in Nat /\ F!End(f) \in Nat
  BY WidthIs DEF FieldRec
<1>5. \A x \in 1 .. m + 1 : FieldAt(fields'[x]) /\ F!End(fields'[x]) <= Reach'
  <2> TAKE x \in 1 .. m + 1
  <2>1. CASE x = m + 1
    BY <1>2, <2>1
  <2>2. CASE x \in 1 .. m
    BY <1>3, <2>2
  <2> QED
    BY <1>2, <2>1, <2>2
<1>6. PlacesInv'
  BY <1>2, <1>5 DEF PlacesInv, FieldAt, F!End, F!Width, F!type_size
<1>7. ASSUME ~ how.union, NEW x \in 1 .. m + 1, NEW y \in 1 .. m + 1, x < y
      PROVE  F!End(fields'[x]) <= fields'[y].first
  <2>1. x \in 1 .. m
    BY <1>2, <1>7
  <2>2. CASE y = m + 1
    BY <1>2, <1>3, <1>4, <1>7, <2>1, <2>2
  <2>3. CASE y \in 1 .. m
    BY <1>7, <2>1, <2>3 DEF OrderInv
  <2> QED
    BY <1>2, <2>2, <2>3
<1>8. OrderInv'
  BY <1>2, <1>7 DEF OrderInv, F!End, F!Width, F!type_size
<1> QED
  BY <1>6, <1>8

\* GCC's place for a field depends on how, which stays
LEMMA GccFirstStays ==
  ASSUME how' = how, NEW p, NEW k
  PROVE  F!GccFirst(p, k)' = F!GccFirst(p, k)
<1>1. F!AlignOf(k)' = F!AlignOf(k) /\ F!Packed(k)' = F!Packed(k)
  BY DEF F!AlignOf, F!Packed, F!Unaffected, F!AttributePacked, F!Natural, F!Individual, F!type_size
<1> QED
  BY <1>1 DEF F!GccFirst, F!UpTo, F!type_size

LEMMA GccStep ==
  ASSUME LayTypes, LayTypes', GccInv, how' = how,
         NEW f \in FieldRec,
         how.pcc /\ ~ how.union =>
           Reach' = F!End(f) /\ f.first = F!GccFirst(Reach, f.kind),
         Len(fields') = Len(fields) + 1, fields'[Len(fields) + 1] = f,
         \A x \in 1 .. Len(fields) : fields'[x] = fields[x] /\ fields[x] \in FieldRec
  PROVE  GccInv'
<1> PICK m : m = Len(fields)
  OBVIOUS
<1>1. m \in Nat /\ Len(fields') = m + 1 /\ fields'[m + 1] = f
      /\ DOMAIN fields = 1 .. m /\ DOMAIN fields' = 1 .. m + 1
  BY DEF LayTypes
<1>2. SUFFICES ASSUME how.pcc /\ ~ how.union PROVE GccInv'
  BY DEF GccInv, F!PccCompatible
<1>3. \A g : F!End(g)' = F!End(g)
  BY DEF F!End, F!Width, F!type_size
<1>4. Reach' = LastEnd'
  <2>1. LastEnd' = F!End(f)
    BY <1>1, <1>3 DEF LastEnd
  <2> QED
    BY <1>2, <2>1
<1>5. Reach = LastEnd
  BY <1>2 DEF GccInv
<1>6. \A x \in 1 .. m : fields[x].first =
        F!GccFirst(IF x = 1 THEN 0 ELSE F!End(fields[x - 1]), fields[x].kind)
  BY <1>1, <1>2 DEF GccInv, F!PccCompatible
<1>7. ASSUME NEW x \in 1 .. m + 1
      PROVE  fields'[x].first =
               F!GccFirst(IF x = 1 THEN 0 ELSE F!End(fields'[x - 1]), fields'[x].kind)
  <2>1. CASE x \in 1 .. m
    <3>1. fields'[x] = fields[x]
      BY <1>1, <2>1
    <3>2. x # 1 => fields'[x - 1] = fields[x - 1]
      BY <1>1, <2>1
    <3> QED
      BY <1>6, <2>1, <3>1, <3>2
  <2>2. CASE x = m + 1
    <3>1. x # 1 => fields'[x - 1] = fields[m]
      <4>1. ASSUME x # 1 PROVE m \in 1 .. m /\ x - 1 = m
        BY <1>1, <2>2, <4>1
      <4> QED
        BY <1>1, <4>1
    <3>2. Reach = IF x = 1 THEN 0 ELSE F!End(fields'[x - 1])
      BY <1>1, <1>5, <2>2, <3>1 DEF LastEnd
    <3> QED
      BY <1>1, <1>2, <2>2, <3>2
  <2> QED
    BY <1>1, <2>1, <2>2
<1>8. F!PccCompatible'
  <2>1. \A x \in 1 .. m + 1 :
          (fields[x].first =
             F!GccFirst(IF x = 1 THEN 0 ELSE F!End(fields[x - 1]), fields[x].kind))'
    <3>1. \A p, k : F!GccFirst(p, k)' = F!GccFirst(p, k)
      BY GccFirstStays
    <3> QED
      BY <1>7, <3>1 DEF F!End, F!Width, F!type_size
  <2> QED
    BY <1>1, <2>1 DEF F!PccCompatible
<1> QED
  BY <1>4, <1>8 DEF GccInv

LEMMA UnitStep ==
  ASSUME LayTypes, LayTypes', UnitInv, how' = how, c <= c',
         NEW f \in FieldRec,
         ~ how.pcc /\ ~ how.union /\ f.kind.bits > 0 =>
           /\ f.type = f.kind.type /\ f.pos + f.kind.bits <= 8 * F!type_size(f.kind.type)
           /\ UnitEnd(f) <= 8 * c',
         ~ how.pcc /\ ~ how.union /\ f.kind.bits < 0 => 8 * c <= f.first,
         Len(fields') = Len(fields) + 1, fields'[Len(fields) + 1] = f,
         \A x \in 1 .. Len(fields) : fields'[x] = fields[x] /\ fields[x] \in FieldRec
  PROVE  UnitInv'
<1> PICK m : m = Len(fields)
  OBVIOUS
<1>1. m \in Nat /\ Len(fields') = m + 1 /\ fields'[m + 1] = f /\ c \in Nat /\ c' \in Nat
  BY DEF LayTypes
<1>2. SUFFICES ASSUME ~ how.pcc /\ ~ how.union PROVE UnitInv'
  BY DEF UnitInv
<1>3. \A g \in FieldRec : UnitEnd(g) \in Nat /\ g.first \in Nat /\ g.kind.bits \in Int
  <2> TAKE g \in FieldRec
  <2>1. g.kind \in Kinds /\ g.c \in Nat /\ g.first \in Nat
    BY DEF FieldRec
  <2>2. F!type_size(g.kind.type) \in {1, 2, 4, 8} /\ g.kind.bits \in -1 .. 64
    BY <2>1, KindIs
  <2>3. UnitEnd(g) \in Nat
    BY <2>1, <2>2 DEF UnitEnd
  <2>4. g.kind.bits \in Int
    <3>1. \A n \in -1 .. 64 : n \in Int
      OBVIOUS
    <3> QED
      BY <2>2, <3>1, Zenon
  <2> QED
    BY <2>1, <2>3, <2>4, Zenon
<1>4. \A x \in 1 .. m : fields[x] \in FieldRec /\ fields'[x] = fields[x] /\ Whole(fields[x], c)
  BY <1>2 DEF UnitInv
<1>5. ASSUME NEW g \in FieldRec, Whole(g, c) PROVE Whole(g, c')
  <2>1. UnitEnd(g) <= 8 * c => UnitEnd(g) <= 8 * c'
    BY <1>1, <1>3, <1>5
  <2> QED
    BY <1>5, <2>1 DEF Whole
<1>6. Whole(f, c')
  BY <1>2 DEF Whole
<1>7. \A x \in 1 .. m + 1 : Whole(fields'[x], c')
  <2> TAKE x \in 1 .. m + 1
  <2>1. x \in 1 .. m \/ x = m + 1
    BY <1>1
  <2> QED
    BY <1>1, <1>4, <1>5, <1>6, <2>1
<1>8. ASSUME NEW x \in 1 .. m + 1, NEW y \in 1 .. m + 1, x < y,
             fields'[x].kind.bits > 0, fields'[y].kind.bits < 0
      PROVE  UnitEnd(fields'[x]) <= fields'[y].first
  <2>1. x \in 1 .. m /\ fields'[x] = fields[x]
    BY <1>1, <1>4, <1>8
  <2>2. CASE y \in 1 .. m
    BY <1>2, <1>4, <1>8, <2>1, <2>2 DEF UnitInv
  <2>3. CASE y = m + 1
    <3>1. UnitEnd(fields[x]) <= 8 * c
      BY <1>4, <1>8, <2>1 DEF Whole
    <3>2. 8 * c <= f.first
      BY <1>1, <1>2, <1>8, <2>3
    <3>3. UnitEnd(fields[x]) \in Nat /\ f.first \in Nat
      BY <1>3, <1>4, <2>1
    <3>4. UnitEnd(fields[x]) <= f.first
      BY <1>1, <3>1, <3>2, <3>3
    <3> QED
      BY <1>1, <2>1, <2>3, <3>4
  <2> QED
    BY <1>1, <2>2, <2>3
<1> QED
  BY <1>1, <1>7, <1>8 DEF UnitInv, Whole, UnitEnd, F!type_size

LEMMA ReachIs ==
  ASSUME LayTypes PROVE Reach \in Nat
BY DEF LayTypes, Reach

LEMMA ReachStays ==
  ASSUME LayTypes' PROVE Reach' \in Nat
<1>1. c' \in Nat /\ bit_pos' \in Nat /\ offset' \in Nat
  BY DEF LayTypes
<1>2. 8 * c' + bit_pos' \in Nat /\ 8 * offset' + bit_pos' \in Nat
  <2>1. \A x, y \in Nat : 8 * x + y \in Nat
    OBVIOUS
  <2> QED
    BY <1>1, <2>1
<1> QED
  BY <1>2 DEF Reach

\* what an action that adds the field f has to show
LEMMA FieldStep ==
  ASSUME LayInv, stage = "fields", LayTypes', LoopInv', stage' = "fields", how' = how, c <= c',
         NEW f \in FieldRec, FieldAt(f), Reach <= Reach', F!End(f) <= Reach',
         ~ how.union => Reach <= f.first,
         how.pcc /\ ~ how.union => Reach' = F!End(f) /\ f.first = F!GccFirst(Reach, f.kind),
         ~ how.pcc /\ ~ how.union /\ f.kind.bits > 0 =>
           /\ f.type = f.kind.type /\ f.pos + f.kind.bits <= 8 * F!type_size(f.kind.type)
           /\ UnitEnd(f) <= 8 * c',
         ~ how.pcc /\ ~ how.union /\ f.kind.bits < 0 => 8 * c <= f.first,
         Len(fields') = Len(fields) + 1, fields'[Len(fields) + 1] = f,
         \A x \in 1 .. Len(fields) : fields'[x] = fields[x] /\ fields[x] \in FieldRec
  PROVE  LayInv'
<1>1. LayTypes /\ PlacesInv /\ OrderInv /\ GccInv /\ UnitInv
  BY DEF LayInv
<1>2. Reach \in Nat /\ Reach' \in Nat
  BY <1>1, ReachIs, ReachStays
<1>3. PlacesInv' /\ OrderInv'
  BY <1>1, <1>2, PlacesStep
<1>4. GccInv'
  BY <1>1, GccStep
<1>5. UnitInv'
  BY <1>1, UnitStep
<1>6. SizedInv'
  BY DEF SizedInv
<1> QED
  BY <1>3, <1>4, <1>5, <1>6 DEF LayInv

\* the whole bytes from which a field that starts anew is placed
From == IF how.pcc THEN c + F!Bytes(bit_pos) ELSE c
LEMMA FromIs ==
  ASSUME LayTypes, LoopInv, ~ how.union, NEW al \in Nat \ {0}
  PROVE  /\ F!UpTo(From, al) \in Nat /\ c <= F!UpTo(From, al)
         /\ Reach \in Nat /\ Reach <= 8 * F!UpTo(From, al)
         /\ how.pcc => 8 * F!UpTo(From, al) = F!UpTo(Reach, 8 * al)
<1>1. c \in Nat /\ bit_pos \in Nat /\ offset \in Nat /\ prevbt \in F!Types \cup {"struct"}
  BY DEF LayTypes
<1>2. F!Bytes(bit_pos) \in Nat /\ bit_pos <= 8 * F!Bytes(bit_pos)
  BY <1>1, BytesIs
<1>3. From \in Nat /\ c <= From
  BY <1>1, <1>2 DEF From
<1>4. F!UpTo(From, al) \in Nat /\ From <= F!UpTo(From, al)
  BY <1>3, UpToIs
<1>5. Reach \in Nat
  BY <1>1 DEF Reach
<1>6. Reach <= 8 * From
  <2>1. CASE prevbt = "struct"
    BY <1>1, <1>2, <2>1 DEF Reach, From, LoopInv
  <2>2. CASE prevbt # "struct"
    <3>1. ~ how.pcc /\ c = offset + F!type_size(prevbt) /\ bit_pos <= 8 * F!type_size(prevbt)
      BY <2>2 DEF LoopInv
    <3>2. F!type_size(prevbt) \in {1, 2, 4, 8}
      BY <1>1, <2>2, SizeOf
    <3>3. Reach = 8 * offset + bit_pos
      BY <2>2 DEF Reach
    <3> QED
      BY <1>1, <3>1, <3>2, <3>3 DEF From
  <2> QED
    BY <2>1, <2>2
<1>7. ASSUME how.pcc PROVE 8 * F!UpTo(From, al) = F!UpTo(Reach, 8 * al)
  <2>1. Reach = 8 * c + bit_pos
    BY <1>7 DEF Reach, LoopInv
  <2>2. From = c + F!Bytes(bit_pos)
    BY <1>7 DEF From
  <2> QED
    BY <1>1, <2>1, <2>2, UpToBits
<1> QED
  <2>1. \A u \in Nat : From <= u => c <= u /\ Reach <= 8 * u
    BY <1>1, <1>3, <1>5, <1>6
  <2> QED
    BY <1>4, <1>5, <1>7, <2>1

LEMMA PlainStep ==
  ASSUME LayInv, stage = "fields", NEW k \in Kinds, F!PlainField(k)
  PROVE  LayInv'
<1>1. LayTypes /\ LoopInv
  BY DEF LayInv
<1>2. ~ how.union /\ k.bits < 0 /\ how \in Styles
  BY <1>1 DEF F!PlainField, LayTypes
<1> PICK al, s : al = F!AlignOf(k) /\ s = F!type_size(k.type)
  OBVIOUS
<1> PICK o : o = F!UpTo(From, al)
  OBVIOUS
<1>3. al \in Nat \ {0} /\ s \in {1, 2, 4, 8} /\ k.type \in F!Types /\ k.bits \in Int
  <2>1. \A n \in -1 .. 64 : n \in Int
    OBVIOUS
  <2> QED
    BY <1>2, <2>1, AlignIs, KindIs, Zenon
<1>4. /\ o \in Nat /\ c <= o /\ Reach \in Nat /\ Reach <= 8 * o
      /\ how.pcc => 8 * o = F!UpTo(Reach, 8 * al)
  BY <1>1, <1>2, <1>3, FromIs
<1>5. /\ F!Placed(k, k.type, o, 0, al) /\ c' = o + s
      /\ bit_pos' = 0 /\ prevbt' = "struct"
  BY DEF F!PlainField, From
<1> PICK f : f = NewRec(k, k.type, o, 0)
  OBVIOUS
<1>6. /\ fields' \in Seq(FieldRec) /\ Len(fields') = Len(fields) + 1
      /\ \A x \in 1 .. Len(fields) : fields'[x] = fields[x] /\ fields[x] \in FieldRec
      /\ fields'[Len(fields) + 1] = f /\ f \in FieldRec
      /\ offset' = o /\ maxalign' \in Nat \ {0} /\ how' = how /\ size' = size /\ stage' = "fields"
  BY <1>1, <1>3, <1>4, <1>5, PlacedIs
<1>7. f.kind = k /\ f.first = 8 * o /\ f.c = o /\ f.pos = 0
  BY <1>4 DEF NewRec
<1>8. c' \in Nat /\ c <= c' /\ c \in Nat /\ size \in Nat
  BY <1>1, <1>3, <1>4, <1>5 DEF LayTypes
<1>9. LayTypes'
  BY <1>2, <1>4, <1>5, <1>6, <1>8 DEF LayTypes
<1>10. LoopInv'
  BY <1>2, <1>5, <1>6 DEF LoopInv
<1>11. F!End(f) = 8 * o + 8 * s
  BY <1>2, <1>3, <1>6, <1>7, WidthIs
<1>12. Reach' = 8 * o + 8 * s
  BY <1>3, <1>4, <1>5 DEF Reach
<1>13. how.pcc => f.first = F!GccFirst(Reach, k)
  BY <1>2, <1>3, <1>4, <1>7 DEF F!GccFirst
<1>14. FieldAt(f)
  BY <1>4, <1>7 DEF FieldAt
<1>15. Reach <= Reach' /\ Reach <= f.first /\ 8 * c <= f.first /\ F!End(f) <= Reach'
  BY <1>3, <1>4, <1>7, <1>8, <1>11, <1>12
<1>16. ~ (k.bits > 0)
  BY <1>2, <1>3
<1> QED
  BY <1>6, <1>7, <1>8, <1>9, <1>10, <1>11, <1>12, <1>13, <1>14, <1>15, <1>16, FieldStep

LEMMA KindBits ==
  ASSUME NEW k \in Kinds
  PROVE  k.bits \in Int /\ k.bits <= 64 /\ (k.bits >= 0 => k.bits \in Nat) /\ (k.bits < 0 => k.bits = -1)
<1>1. \A n \in -1 .. 64 : n \in Int /\ n <= 64 /\ (n >= 0 => n \in Nat) /\ (n < 0 => n = -1)
  OBVIOUS
<1>2. k.bits \in -1 .. 64
  BY KindIs
<1> QED
  BY <1>1, <1>2, Zenon

LEMMA UnionStep ==
  ASSUME LayInv, stage = "fields", NEW k \in Kinds, F!UnionField(k)
  PROVE  LayInv'
<1>1. LayTypes /\ LoopInv
  BY DEF LayInv
<1>2. how.union /\ how \in Styles /\ bit_pos = 0 /\ prevbt = "struct"
  BY <1>1 DEF F!UnionField, LayTypes, LoopInv
<1> PICK al, s : al = F!AlignOf(k) /\ s = F!type_size(k.type)
  OBVIOUS
<1>3. /\ al \in Nat \ {0} /\ s \in {1, 2, 4, 8} /\ k.type \in F!Types
      /\ k.bits \in Int /\ (k.bits >= 0 => k.bits \in Nat) /\ k.bits <= 8 * s
  BY <1>2, AlignIs, KindIs, KindBits
<1> PICK room : room = IF how.pcc /\ k.bits >= 0 THEN F!Bytes(k.bits) ELSE s
  OBVIOUS
<1>4. /\ F!Placed(k, k.type, 0, 0, al) /\ c' = F!Max({c, room})
      /\ bit_pos' = 0 /\ prevbt' = "struct"
  BY <1>2 DEF F!UnionField
<1> PICK f : f = NewRec(k, k.type, 0, 0)
  OBVIOUS
<1>5. /\ fields' \in Seq(FieldRec) /\ Len(fields') = Len(fields) + 1
      /\ \A x \in 1 .. Len(fields) : fields'[x] = fields[x] /\ fields[x] \in FieldRec
      /\ fields'[Len(fields) + 1] = f /\ f \in FieldRec
      /\ offset' = 0 /\ maxalign' \in Nat \ {0} /\ how' = how /\ size' = size /\ stage' = "fields"
  BY <1>1, <1>3, <1>4, PlacedIs
<1>6. f.kind = k /\ f.first = 0 /\ f.c = 0 /\ f.pos = 0
  BY DEF NewRec
<1>7. room \in Nat /\ F!Width(f) <= 8 * room
  <2>1. CASE how.pcc /\ k.bits >= 0
    <3>1. F!Bytes(k.bits) \in Nat /\ k.bits <= 8 * F!Bytes(k.bits)
      BY <1>3, <2>1, BytesIs
    <3>2. F!Width(f) = k.bits
      BY <1>5, <1>6, <2>1, WidthIs
    <3> QED
      BY <2>1, <3>1, <3>2
  <2>2. CASE ~ (how.pcc /\ k.bits >= 0)
    BY <1>3, <1>5, <1>6, <2>2, WidthIs
  <2> QED
    BY <2>1, <2>2
<1>8. c \in Nat /\ c' \in Nat /\ c <= c' /\ room <= c'
  <2>1. c \in Nat
    BY <1>1 DEF LayTypes
  <2>2. c \in Int /\ room \in Int
    BY <1>7, <2>1
  <2>3. c' \in {c, room} /\ c <= c' /\ room <= c'
    BY <1>4, <2>2, MaxIs
  <2> QED
    BY <1>7, <2>1, <2>3
<1>9. LayTypes'
  BY <1>1, <1>2, <1>4, <1>5, <1>8 DEF LayTypes
<1>10. LoopInv'
  BY <1>4, <1>5 DEF LoopInv
<1>11. F!End(f) \in Nat /\ F!End(f) <= 8 * c'
  BY <1>5, <1>6, <1>7, <1>8, WidthIs
<1>12. Reach = 8 * c /\ Reach' = 8 * c'
  BY <1>2, <1>4, <1>8 DEF Reach
<1>13. FieldAt(f)
  BY <1>6 DEF FieldAt
<1>14. Reach <= Reach' /\ F!End(f) <= Reach'
  <2>1. \A x, y \in Nat : x <= y => 8 * x <= 8 * y
    OBVIOUS
  <2> QED
    BY <1>8, <1>11, <1>12, <2>1
<1> QED
  BY <1>2, <1>5, <1>8, <1>9, <1>10, <1>13, <1>14, FieldStep

LEMMA PccStep ==
  ASSUME LayInv, stage = "fields", NEW k \in Kinds, F!PccField(k)
  PROVE  LayInv'
<1>1. LayTypes /\ LoopInv
  BY DEF LayInv
<1>2. /\ ~ how.union /\ how.pcc /\ k.bits >= 0 /\ how \in Styles /\ prevbt = "struct"
      /\ c \in Nat /\ bit_pos \in Nat
  BY <1>1 DEF F!PccField, LayTypes, LoopInv
<1> PICK al, s : al = F!AlignOf(k) /\ s = F!type_size(k.type)
  OBVIOUS
<1>3. al \in Nat \ {0} /\ s \in {1, 2, 4, 8} /\ k.type \in F!Types /\ k.bits \in Nat
  BY <1>2, AlignIs, KindIs, KindBits
<1> PICK from, bit : /\ from = IF F!NewField(k) THEN F!UpTo(From, al) ELSE c
                     /\ bit = IF F!NewField(k) THEN 0 ELSE bit_pos
  OBVIOUS
<1>4. F!UpTo(From, al) \in Nat /\ c <= F!UpTo(From, al) /\ Reach \in Nat
      /\ Reach <= 8 * F!UpTo(From, al) /\ 8 * F!UpTo(From, al) = F!UpTo(Reach, 8 * al)
  BY <1>1, <1>2, <1>3, FromIs
<1>5. Reach = 8 * c + bit_pos
  BY <1>2 DEF Reach
<1>6. from \in Nat /\ bit \in Nat /\ c <= from /\ Reach <= 8 * from + bit
  <2>1. CASE F!NewField(k)
    BY <1>2, <1>4, <2>1
  <2>2. CASE ~ F!NewField(k)
    BY <1>2, <1>5, <2>2
  <2> QED
    BY <2>1, <2>2
<1>7. PICK z \in Nat, pos \in 0 .. 8 * al - 1 :
        F!DownTo(bit, 8 * al) \div 8 = z /\ bit % (8 * al) = pos /\ 8 * z + pos = bit
  BY <1>3, <1>6, DownToBits
<1> PICK o : o = from + z
  OBVIOUS
<1>8. o \in Nat /\ pos \in Nat /\ c <= o /\ 8 * o + pos = 8 * from + bit
  <2>1. pos \in Nat
    BY <1>3, <1>7
  <2> QED
    BY <1>2, <1>6, <1>7, <2>1
<1> PICK t : t = IF k.type = "llong" /\ k.bits <= 32 THEN "int" ELSE k.type
  OBVIOUS
<1> PICK own : own = IF k.anon THEN 1 ELSE al
  OBVIOUS
<1>9. t \in F!Types /\ own \in Nat \ {0}
  BY <1>3 DEF F!Types
<1>10. /\ F!Placed(k, t, o, pos, own) /\ c' = o
       /\ bit_pos' = pos + k.bits /\ prevbt' = "struct"
  BY <1>2, <1>7 DEF F!PccField, From
<1> PICK f : f = NewRec(k, t, o, pos)
  OBVIOUS
<1>11. /\ fields' \in Seq(FieldRec) /\ Len(fields') = Len(fields) + 1
       /\ \A x \in 1 .. Len(fields) : fields'[x] = fields[x] /\ fields[x] \in FieldRec
       /\ fields'[Len(fields) + 1] = f /\ f \in FieldRec
       /\ offset' = o /\ maxalign' \in Nat \ {0} /\ how' = how /\ size' = size /\ stage' = "fields"
  <2>1. F!Placed(k, t, o, pos, own)
    BY <1>10
  <2>2. o \in Nat /\ pos \in Nat
    BY <1>8
  <2> QED
    BY <1>1, <1>9, <2>1, <2>2, PlacedIs
<1>12. f.kind = k /\ f.first = 8 * o + pos /\ f.c = o /\ f.pos = pos
  BY DEF NewRec
<1>13. LayTypes'
  <2>1. bit_pos' \in Nat
    BY <1>3, <1>8, <1>10
  <2> QED
    BY <1>1, <1>2, <1>8, <1>10, <1>11, <2>1 DEF LayTypes
<1>14. LoopInv'
  BY <1>2, <1>10, <1>11 DEF LoopInv
<1>15. F!End(f) = 8 * o + pos + k.bits
  BY <1>2, <1>11, <1>12, WidthIs
<1>16. Reach' = 8 * o + pos + k.bits
  BY <1>3, <1>8, <1>10 DEF Reach
<1>17. FieldAt(f)
  <2>1. ASSUME k.bits > 0 PROVE pos < 64
    <3>1. CASE k.aligned # 0
      <4>1. bit = 0
        BY <3>1 DEF F!NewField
      <4>2. \A x, y \in Nat : 8 * x + y = 0 => y < 64
        OBVIOUS
      <4> QED
        BY <1>7, <1>8, <4>1, <4>2
    <3>2. CASE k.aligned = 0
      <4>1. al <= s
        BY <1>2, <2>1, <3>2, AlignIs
      <4> QED
        BY <1>3, <1>7, <4>1
    <3> QED
      BY <3>1, <3>2
  <2> QED
    BY <1>8, <1>12, <2>1 DEF FieldAt
<1>18. f.first = F!GccFirst(Reach, k)
  <2>1. F!NewField(k) => f.first = F!UpTo(Reach, 8 * al)
    BY <1>4, <1>6, <1>8, <1>12
  <2>2. ~ F!NewField(k) => f.first = Reach
    BY <1>5, <1>8, <1>12
  <2>3. CASE k.bits = 0 \/ k.aligned # 0
    <3>1. F!NewField(k)
      BY <2>3 DEF F!NewField
    <3>2. F!GccFirst(Reach, k) = F!UpTo(Reach, 8 * al)
      BY <1>3, <2>3 DEF F!GccFirst
    <3> QED
      BY <2>1, <3>1, <3>2
  <2>4. CASE k.bits > 0 /\ k.aligned = 0 /\ F!Packed(k)
    <3>1. ~ F!NewField(k)
      BY <1>3, <2>4 DEF F!NewField
    <3>2. F!GccFirst(Reach, k) = Reach
      BY <1>3, <2>4 DEF F!GccFirst
    <3> QED
      BY <2>2, <3>1, <3>2
  <2>5. CASE k.bits > 0 /\ k.aligned = 0 /\ ~ F!Packed(k)
    <3>1. al = s
      BY <1>2, <2>5, AlignIs
    <3>2. F!NewField(k) <=> Reach \div (8 * s) # (Reach + k.bits - 1) \div (8 * s)
      BY <1>2, <1>5, <2>5, NewIs
    <3>3. F!GccFirst(Reach, k) = IF Reach \div (8 * s) # (Reach + k.bits - 1) \div (8 * s)
                                 THEN F!UpTo(Reach, 8 * s) ELSE Reach
      BY <1>3, <2>5 DEF F!GccFirst
    <3> QED
      BY <2>1, <2>2, <3>1, <3>2, <3>3
  <2> QED
    BY <1>3, <2>3, <2>4, <2>5
<1>19. Reach <= Reach' /\ Reach <= f.first /\ F!End(f) <= Reach' /\ c <= c'
  BY <1>3, <1>4, <1>6, <1>8, <1>10, <1>12, <1>15, <1>16
<1> QED
  BY <1>2, <1>11, <1>12, <1>13, <1>14, <1>15, <1>16, <1>17, <1>18, <1>19, FieldStep

\* In MS layout a field of zero width follows a bit-field of its type, so
\* each field either starts a unit at offset, or goes on in the one there.
LEMMA MsStep ==
  ASSUME ~ LooseZero, LayInv, stage = "fields", NEW k \in Kinds, F!MsField(k)
  PROVE  LayInv'
<1>1. LayTypes /\ LoopInv
  BY DEF LayInv
<1>2. /\ ~ how.union /\ ~ how.pcc /\ k.bits >= 0 /\ how \in Styles
      /\ c \in Nat /\ bit_pos \in Nat /\ offset \in Nat
      /\ k.bits # 0 \/ (k.type = prevbt /\ prev_bit_size # 0)
  BY <1>1 DEF F!MsField, LayTypes
<1> PICK al, s : al = F!AlignOf(k) /\ s = F!type_size(k.type)
  OBVIOUS
<1>3. /\ al \in Nat \ {0} /\ s \in {1, 2, 4, 8} /\ k.type \in F!Types
      /\ k.bits \in Nat /\ k.bits <= 8 * s
  BY <1>2, AlignIs, KindIs, KindBits
<1>4. "struct" \notin F!Types
  BY DEF F!Types
<1> PICK new : new = (bit_pos + k.bits > 8 * s \/ (k.bits > 0 <=> k.type # prevbt))
  OBVIOUS
<1> PICK o, pos : o = (IF new THEN F!UpTo(c, al) ELSE offset) /\ pos = IF new THEN 0 ELSE bit_pos
  OBVIOUS
<1> PICK own : own = IF k.bits = 0 /\ prevbt # k.type THEN 1 ELSE al
  OBVIOUS
<1>5. /\ F!Placed(k, k.type, o, pos, own)
      /\ c' = CASE new /\ (k.bits # 0 \/ prev_bit_size # 0) -> o + s
                [] new /\ k.bits = 0 /\ prev_bit_size = 0 -> o
                [] OTHER -> c
      /\ bit_pos' = pos + k.bits /\ prevbt' = k.type
  BY DEF F!MsField
<1>6. own \in Nat \ {0} /\ k.type \in F!Types
  BY <1>3
<1>7. o \in Nat /\ pos \in Nat /\ c' = o + s /\ c <= o + s /\ pos + k.bits <= 8 * s
      /\ Reach \in Nat /\ Reach <= 8 * o + pos
  <2>1. Reach \in Nat
    BY <1>1, ReachIs
  <2>2. CASE new
    <3>1. o = F!UpTo(From, al) /\ pos = 0
      BY <1>2, <2>2 DEF From
    <3>2. o \in Nat /\ c <= o /\ Reach <= 8 * o
      BY <1>1, <1>2, <1>3, <3>1, FromIs
    <3>3. c' = o + s
      BY <1>2, <1>5, <2>2
    <3> QED
      BY <1>2, <1>3, <2>1, <3>1, <3>2, <3>3
  <2>3. CASE ~ new
    <3>1. o = offset /\ pos = bit_pos /\ c' = c
      BY <1>5, <2>3
    <3>2. k.bits > 0 /\ k.type = prevbt
      <4>1. ~ (k.bits > 0 <=> k.type # prevbt)
        BY <2>3, Zenon
      <4>2. (k.bits > 0 /\ k.type = prevbt) \/ (~ (k.bits > 0) /\ k.type # prevbt)
        BY <4>1, Zenon
      <4>3. ~ (k.bits > 0) => k.bits = 0
        BY <1>3
      <4> QED
        BY <1>2, <4>2, <4>3, Zenon
    <3>3. bit_pos + k.bits <= 8 * s
      <4>1. ~ (bit_pos + k.bits > 8 * s)
        BY <2>3, Zenon
      <4> QED
        BY <1>2, <1>3, <4>1
    <3>4. prevbt # "struct"
      BY <1>3, <1>4, <3>2
    <3>5. c = offset + s
      BY <1>1, <3>2, <3>4 DEF LoopInv
    <3>6. Reach = 8 * offset + bit_pos
      BY <1>2, <3>4 DEF Reach
    <3> QED
      BY <1>2, <1>3, <2>1, <3>1, <3>3, <3>5, <3>6
  <2> QED
    BY <2>2, <2>3
<1> PICK f : f = NewRec(k, k.type, o, pos)
  OBVIOUS
<1>8. /\ fields' \in Seq(FieldRec) /\ Len(fields') = Len(fields) + 1
      /\ \A x \in 1 .. Len(fields) : fields'[x] = fields[x] /\ fields[x] \in FieldRec
      /\ fields'[Len(fields) + 1] = f /\ f \in FieldRec
      /\ offset' = o /\ maxalign' \in Nat \ {0} /\ how' = how /\ size' = size /\ stage' = "fields"
  <2>1. F!Placed(k, k.type, o, pos, own)
    BY <1>5
  <2>2. o \in Nat /\ pos \in Nat
    BY <1>7
  <2> QED
    BY <1>1, <1>6, <2>1, <2>2, PlacedIs
<1>9. f.kind = k /\ f.type = k.type /\ f.first = 8 * o + pos /\ f.c = o /\ f.pos = pos
  BY DEF NewRec
<1>10. bit_pos' \in Nat /\ c' \in Nat
  BY <1>3, <1>5, <1>7
<1>11. LayTypes'
  BY <1>1, <1>2, <1>3, <1>5, <1>7, <1>8, <1>10 DEF LayTypes
<1>12. LoopInv'
  <2>1. prevbt' # "struct"
    BY <1>3, <1>4, <1>5
  <2>2. c' = offset' + F!type_size(prevbt') /\ bit_pos' <= 8 * F!type_size(prevbt')
    BY <1>5, <1>7, <1>8
  <2> QED
    BY <1>2, <1>8, <2>1, <2>2 DEF LoopInv, F!type_size
<1>13. F!End(f) = 8 * o + pos + k.bits
  BY <1>2, <1>8, <1>9, WidthIs
<1>14. Reach' = 8 * o + pos + k.bits
  <2>1. Reach' = 8 * o + (pos + k.bits)
    BY <1>2, <1>3, <1>4, <1>5, <1>8 DEF Reach
  <2> QED
    BY <1>3, <1>7, <2>1
<1>15. FieldAt(f)
  BY <1>3, <1>7, <1>9 DEF FieldAt
<1>16. UnitEnd(f) <= 8 * c'
  BY <1>3, <1>7, <1>9 DEF UnitEnd
<1>17. Reach <= Reach' /\ Reach <= f.first /\ F!End(f) <= Reach' /\ c <= c'
  BY <1>3, <1>7, <1>9, <1>13, <1>14
<1>18. ~ (k.bits < 0)
  BY <1>3
<1> QED
  BY <1>2, <1>7, <1>8, <1>9, <1>11, <1>12, <1>15, <1>16, <1>17, <1>18, FieldStep

-----------------------------------------------------------------------------
(* The end: the size, and how each bit-field is accessed.                  *)

LEMMA PlacesStay ==
  ASSUME LayInv, stage # "done", UNCHANGED <<how, fields, F!loopVars>>
  PROVE  LoopInv' /\ PlacesInv' /\ OrderInv' /\ GccInv' /\ UnitInv' /\ Reach' = Reach
<1>1. LoopInv /\ PlacesInv /\ OrderInv /\ GccInv /\ UnitInv
  BY DEF LayInv
<1>2. /\ how' = how /\ fields' = fields /\ c' = c /\ bit_pos' = bit_pos
      /\ offset' = offset /\ maxalign' = maxalign /\ prevbt' = prevbt
  BY DEF F!loopVars
<1>3. Reach' = Reach
  BY <1>2 DEF Reach
<1>4. LoopInv'
  BY <1>1, <1>2 DEF LoopInv, F!type_size
<1>5. PlacesInv'
  BY <1>1, <1>2, <1>3 DEF PlacesInv, FieldAt, F!End, F!Width, F!type_size
<1>6. OrderInv'
  BY <1>1, <1>2 DEF OrderInv, F!End, F!Width, F!type_size
<1>7. GccInv'
  <2>1. \A p, k : F!GccFirst(p, k)' = F!GccFirst(p, k)
    BY <1>2, GccFirstStays
  <2>2. F!PccCompatible'
    BY <1>1, <1>2, <2>1 DEF GccInv, F!PccCompatible, F!End, F!Width, F!type_size
  <2> QED
    BY <1>1, <1>2, <1>3, <2>2 DEF GccInv, LastEnd, F!End, F!Width, F!type_size
<1>8. UnitInv'
  BY <1>1, <1>2 DEF UnitInv, Whole, UnitEnd, F!type_size
<1> QED
  BY <1>3, <1>4, <1>5, <1>6, <1>7, <1>8

LEMMA EndStep ==
  ASSUME LayInv, F!EndStruct
  PROVE  LayInv'
<1>1. /\ stage = "fields" /\ stage' = "sized" /\ how' = how /\ fields' = fields
      /\ c' = c /\ bit_pos' = bit_pos
      /\ offset' = offset /\ maxalign' = maxalign /\ prevbt' = prevbt
      /\ UNCHANGED <<how, fields, F!loopVars>>
  BY DEF F!EndStruct, F!loopVars
<1>2. LayTypes /\ LoopInv
  BY <1>1 DEF LayInv
<1>3. how \in Styles /\ maxalign \in Nat \ {0} /\ c \in Nat /\ bit_pos \in Nat
  BY <1>2 DEF LayTypes
<1>4. how.aligned \in Nat /\ how.pack \in Nat
  BY <1>3, FieldsAssumption DEF F!Assumptions
<1> PICK least : least = F!Max({how.aligned, 1})
  OBVIOUS
<1>5. least \in Nat \ {0}
  <2>1. how.aligned \in Int /\ 1 \in Int
    BY <1>4
  <2>2. least \in {how.aligned, 1} /\ 1 <= least
    BY <2>1, MaxIs
  <2> QED
    BY <1>4, <2>2
<1> PICK al : al = IF how.pack # 0 /\ how.pack < maxalign /\ ~ how.pcc
                   THEN F!Max({how.pack, least}) ELSE F!Max({least, maxalign})
  OBVIOUS
<1>6. al \in Nat \ {0}
  <2>1. \A x \in Nat : x \in Int
    OBVIOUS
  <2>2. \A x, y \in Nat : F!Max({x, y}) \in {x, y} /\ y <= F!Max({x, y}) /\ x <= F!Max({x, y})
    BY <2>1, MaxIs
  <2>3. \A x \in Nat, y \in Nat \ {0} :
          F!Max({x, y}) \in Nat \ {0} /\ F!Max({y, x}) \in Nat \ {0}
    BY <2>2
  <2> QED
    BY <1>3, <1>4, <1>5, <2>3
<1>7. size' = F!UpTo(From, al)
  BY DEF F!EndStruct, From
<1>8. From \in Nat /\ c <= From
  <2>1. F!Bytes(bit_pos) \in Nat
    BY <1>3, BytesIs
  <2> QED
    BY <1>3, <2>1 DEF From
<1>9. size' \in Nat /\ c <= size'
  <2>1. F!UpTo(From, al) \in Nat /\ From <= F!UpTo(From, al)
    BY <1>6, <1>8, UpToIs
  <2> QED
    BY <1>3, <1>7, <1>8, <2>1
<1>10. Reach <= 8 * size'
  <2>1. CASE ~ how.union
    BY <1>2, <1>6, <1>7, <2>1, FromIs
  <2>2. CASE how.union
    <3>1. Reach = 8 * c
      BY <1>2, <1>3, <2>2 DEF Reach, LoopInv
    <3>2. \A x, y \in Nat : x <= y => 8 * x <= 8 * y
      OBVIOUS
    <3> QED
      BY <1>3, <1>9, <3>1, <3>2
  <2> QED
    BY <2>1, <2>2
<1>11. LoopInv' /\ PlacesInv' /\ OrderInv' /\ GccInv' /\ UnitInv' /\ Reach' = Reach
  BY <1>1, PlacesStay
<1>12. LayTypes'
  BY <1>1, <1>2, <1>9 DEF LayTypes
<1>13. SizedInv'
  BY <1>1, <1>9, <1>10, <1>11 DEF SizedInv
<1> QED
  BY <1>1, <1>11, <1>12, <1>13 DEF LayInv

LEMMA SmallestIs ==
  ASSUME NEW n
  PROVE  F!Smallest(n) \in F!Types
BY DEF F!Smallest, F!Types

LEMMA ContainerIs ==
  ASSUME NEW f \in FieldRec
  PROVE  F!Container(f).at \in Nat /\ F!Container(f).type \in F!Types
<1> DEFINE Aligned(al) ==
             LET at == F!DownTo(f.first \div 8, al)
             IN [at |-> at, type |-> F!Smallest(F!Bytes(f.first - 8 * at + f.kind.bits))]
           Turn(try) == Aligned(F!type_size(try.type))
<1>1. f.first \in Nat
  BY DEF FieldRec
<1>2. f.first \div 8 \in Nat
  BY <1>1
<1>3. ASSUME NEW al \in Nat \ {0} PROVE Aligned(al).at \in Nat /\ Aligned(al).type \in F!Types
  <2>1. F!DownTo(f.first \div 8, al) \in Nat
    <3> PICK n : n = f.first \div 8
      OBVIOUS
    <3>1. PICK q \in Nat, m \in 0 .. al - 1 : q = n \div al /\ m = n % al /\ n = al * q + m
      BY <1>2, DivIs
    <3>2. F!DownTo(n, al) = q * al
      BY <3>1 DEF F!DownTo
    <3>3. q * al \in Nat
      <4>1. \A x, y \in Nat : x * y \in Nat
        OBVIOUS
      <4> QED
        BY <3>1, <4>1
    <3> QED
      BY <3>2, <3>3
  <2> QED
    BY <2>1, SmallestIs
<1>4. ASSUME NEW try, try.type \in F!Types
      PROVE  Turn(try).at \in Nat /\ Turn(try).type \in F!Types
  <2>1. F!type_size(try.type) \in Nat \ {0}
    BY <1>4, SizeOf
  <2> QED
    BY <1>3, <2>1
<1>5. F!Container(f) = Turn(Turn(Turn(Turn(Aligned(1)))))
  BY DEF F!Container
<1> HIDE DEF Aligned, Turn
<1>6. Aligned(1).type \in F!Types
  BY <1>3
<1>7. Turn(Aligned(1)).type \in F!Types
  BY <1>4, <1>6
<1>8. Turn(Turn(Aligned(1))).type \in F!Types
  BY <1>4, <1>7
<1>9. Turn(Turn(Turn(Aligned(1)))).type \in F!Types
  BY <1>4, <1>8
<1> QED
  BY <1>4, <1>5, <1>9

\* a bit-field is accessed where it is, within the struct
Within(g) ==
  g.kind.bits > 0 =>
    /\ 8 * g.c + g.pos = g.first
    /\ g.pos < 64
    /\ g.auxtype # "bytes" =>
         F!Contains(g.c, IF g.auxtype = "own" THEN g.type ELSE g.auxtype, g)

LEMMA AccessedIs ==
  ASSUME NEW f \in FieldRec, FieldAt(f)
  PROVE  /\ F!Accessed(f).first = f.first /\ F!Accessed(f).kind = f.kind
         /\ Within(F!Accessed(f))
         /\ F!Contains(f.c, f.type, f) => F!Accessed(f) = f
<1> PICK try : try = F!Container(f)
  OBVIOUS
<1> PICK g : g = F!Accessed(f)
  OBVIOUS
<1>1. try.at \in Nat /\ try.type \in F!Types
  BY ContainerIs
<1>2. f.kind \in Kinds /\ f.type \in F!Types /\ f.first \in Nat /\ f.c \in Nat /\ f.pos \in Nat
      /\ f.auxtype = "own"
  BY DEF FieldRec
<1>3. f.kind.bits \in Int
  BY <1>2, KindBits
<1>4. "own" \notin F!Types /\ "bytes" \notin F!Types
  BY DEF F!Types
<1>5. f.kind.bits > 0 => 8 * f.c + f.pos = f.first /\ f.pos < 64
  BY DEF FieldAt
<1>6. CASE f.kind.bits <= 0 \/ F!Contains(f.c, f.type, f)
  <2>1. g = f
    BY <1>3, <1>6 DEF F!Accessed
  <2>2. Within(f)
    BY <1>2, <1>3, <1>5, <1>6 DEF Within
  <2> QED
    BY <2>1, <2>2
<1>7. CASE f.kind.bits > 0 /\ ~ F!Contains(f.c, f.type, f) /\ F!Contains(try.at, try.type, f)
  <2> PICK u : u = IF F!type_size(try.type) = F!type_size(f.type) THEN "own" ELSE try.type
    OBVIOUS
  <2>1. g = [f EXCEPT !.c = try.at, !.pos = f.first - 8 * try.at, !.auxtype = u]
    BY <1>3, <1>7 DEF F!Accessed
  <2>2. /\ g.kind = f.kind /\ g.first = f.first /\ g.type = f.type
        /\ g.c = try.at /\ g.pos = f.first - 8 * try.at /\ g.auxtype = u
    BY <2>1 DEF FieldRec
  <2>3. 8 * g.c + g.pos = g.first
    BY <1>1, <1>2, <2>2
  <2>4. /\ f.first - 8 * try.at + f.kind.bits <= 8 * F!type_size(try.type)
        /\ try.at + F!type_size(try.type) <= size
    BY <1>7 DEF F!Contains
  <2>5. g.pos < 64
    <3>1. F!type_size(try.type) \in {1, 2, 4, 8}
      BY <1>1, SizeOf
    <3> QED
      BY <1>1, <1>2, <1>3, <1>7, <2>2, <2>4, <3>1
  <2>6. F!type_size(IF g.auxtype = "own" THEN g.type ELSE g.auxtype) = F!type_size(try.type)
    BY <1>1, <1>4, <2>2
  <2>7. F!Contains(g.c, IF g.auxtype = "own" THEN g.type ELSE g.auxtype, g)
    BY <2>2, <2>4, <2>6 DEF F!Contains
  <2> QED
    BY <1>7, <2>2, <2>3, <2>5, <2>7 DEF Within
<1>8. CASE f.kind.bits > 0 /\ ~ F!Contains(f.c, f.type, f) /\ ~ F!Contains(try.at, try.type, f)
  <2>1. g = [f EXCEPT !.auxtype = "bytes"]
    BY <1>3, <1>8 DEF F!Accessed
  <2>2. /\ g.kind = f.kind /\ g.first = f.first /\ g.c = f.c /\ g.pos = f.pos
        /\ g.auxtype = "bytes"
    BY <2>1 DEF FieldRec
  <2>3. Within(g)
    BY <1>5, <2>2 DEF Within
  <2> QED
    BY <1>8, <2>2, <2>3
<1>9. f.kind.bits > 0 \/ f.kind.bits <= 0
  BY <1>3
<1> QED
  BY <1>6, <1>7, <1>8, <1>9

LEMMA ChooseStep ==
  ASSUME LayInv, F!ChooseAccess
  PROVE  LayInv'
<1>1. /\ stage = "sized" /\ stage' = "done" /\ how' = how /\ size' = size
      /\ c' = c /\ fields' = [x \in DOMAIN fields |-> F!Accessed(fields[x])]
  BY DEF F!ChooseAccess, F!loopVars
<1>2. LayTypes /\ PlacesInv /\ OrderInv /\ GccInv /\ UnitInv /\ SizedInv
  BY <1>1 DEF LayInv
<1> PICK m : m = Len(fields)
  OBVIOUS
<1>3. /\ m \in Nat /\ DOMAIN fields = 1 .. m /\ DOMAIN fields' = 1 .. m
      /\ c \in Nat /\ size \in Nat /\ Reach \in Nat
      /\ \A x \in 1 .. m : fields[x] \in FieldRec
  BY <1>1, <1>2, ReachIs DEF LayTypes
<1>4. Reach <= 8 * size /\ c <= size
  BY <1>1, <1>2 DEF SizedInv
<1>5. \A x \in 1 .. m : FieldAt(fields[x]) /\ F!End(fields[x]) <= Reach /\ F!End(fields[x]) \in Nat
  BY <1>2, <1>3, WidthIs DEF PlacesInv
<1>6. \A x \in 1 .. m :
        /\ fields'[x].first = fields[x].first /\ fields'[x].kind = fields[x].kind
        /\ Within(fields'[x])
        /\ F!Contains(fields[x].c, fields[x].type, fields[x]) => fields'[x] = fields[x]
  <2> TAKE x \in 1 .. m
  <2>1. fields'[x] = F!Accessed(fields[x])
    BY <1>1, <1>3
  <2> QED
    BY <1>3, <1>5, <2>1, AccessedIs
<1>7. \A x \in 1 .. m : F!End(fields'[x]) = F!End(fields[x])
  BY <1>6 DEF F!End, F!Width
<1>8. F!FieldsApart'
  <2>1. \A x \in 1 .. m : F!End(fields'[x]) <= 8 * size
    <3>1. \A n \in Nat : n <= Reach => n <= 8 * size
      BY <1>3, <1>4
    <3> QED
      BY <1>5, <1>7, <3>1
  <2>2. ASSUME ~ how.union, NEW x \in 1 .. m, NEW y \in 1 .. m, x < y
        PROVE  F!End(fields'[x]) <= fields'[y].first
    BY <1>2, <1>6, <1>7, <2>2 DEF OrderInv
  <2>3. \A f \in F!Range(fields') : F!End(f) <= 8 * size
    BY <1>3, <2>1 DEF F!Range
  <2> QED
    BY <1>1, <1>3, <2>2, <2>3 DEF F!FieldsApart, F!Range, F!End, F!Width, F!type_size
<1>9. F!PccCompatible'
  <2>1. \A p, k : F!GccFirst(p, k)' = F!GccFirst(p, k)
    BY <1>1, GccFirstStays
  <2>2. ASSUME how.pcc, ~ how.union, NEW x \in 1 .. m
        PROVE  fields'[x].first =
                 F!GccFirst(IF x = 1 THEN 0 ELSE F!End(fields'[x - 1]), fields'[x].kind)
    <3>1. fields[x].first =
            F!GccFirst(IF x = 1 THEN 0 ELSE F!End(fields[x - 1]), fields[x].kind)
      BY <1>2, <1>3, <2>2 DEF GccInv, F!PccCompatible
    <3>2. x # 1 => F!End(fields'[x - 1]) = F!End(fields[x - 1])
      BY <1>3, <1>7
    <3> QED
      BY <1>6, <3>1, <3>2
  <2> QED
    BY <1>1, <1>3, <2>1, <2>2 DEF F!PccCompatible, F!End, F!Width, F!type_size
<1>10. F!RunsWhole'
  <2>1. ASSUME ~ how.pcc, ~ how.union, NEW x \in 1 .. m, fields[x].kind.bits > 0
        PROVE  /\ fields'[x] = fields[x]
               /\ UnitEnd(fields[x]) = fields[x].first - fields[x].pos
                                         + 8 * F!type_size(fields[x].kind.type)
               /\ UnitEnd(fields[x]) <= 8 * size
    <3> PICK f : f = fields[x]
      OBVIOUS
    <3>1. f \in FieldRec /\ FieldAt(f) /\ Whole(f, c) /\ f.kind.bits > 0
      BY <1>2, <1>3, <1>5, <2>1 DEF UnitInv
    <3>2. f.c \in Nat /\ f.pos \in Nat /\ f.first = 8 * f.c + f.pos /\ f.kind \in Kinds
      BY <3>1 DEF FieldAt, FieldRec
    <3> PICK s : s = F!type_size(f.kind.type)
      OBVIOUS
    <3>3. s \in Nat /\ f.kind.bits \in Int
      <4>1. s \in {1, 2, 4, 8}
        BY <3>2, KindIs
      <4> QED
        BY <3>2, <4>1, KindBits
    <3>4. UnitEnd(f) = 8 * f.c + 8 * s /\ f.type = f.kind.type
          /\ f.pos + f.kind.bits <= 8 * s /\ 8 * f.c + 8 * s <= 8 * c
      BY <3>1 DEF Whole, UnitEnd
    <3>5. f.c + s <= size /\ UnitEnd(f) <= 8 * size
      BY <1>3, <1>4, <3>2, <3>3, <3>4
    <3>6. f.first - 8 * f.c + f.kind.bits <= 8 * s
      BY <3>2, <3>3, <3>4
    <3>7. F!Contains(f.c, f.type, f)
      BY <3>4, <3>5, <3>6 DEF F!Contains
    <3>8. UnitEnd(f) = f.first - f.pos + 8 * s
      BY <3>2, <3>3, <3>4
    <3> QED
      BY <1>6, <3>5, <3>7, <3>8
  <2>2. ASSUME ~ how.pcc, ~ how.union, NEW x \in 1 .. m, fields'[x].kind.bits > 0
        PROVE  LET end == fields'[x].first - fields'[x].pos + 8 * F!type_size(fields'[x].kind.type)
               IN /\ end <= 8 * size
                  /\ \A y \in 1 .. m : x < y /\ fields'[y].kind.bits < 0 => end <= fields'[y].first
    <3>1. fields[x].kind.bits > 0
      BY <1>6, <2>2
    <3>2. /\ fields'[x] = fields[x]
          /\ UnitEnd(fields[x]) = fields[x].first - fields[x].pos
                                    + 8 * F!type_size(fields[x].kind.type)
          /\ UnitEnd(fields[x]) <= 8 * size
      BY <2>1, <2>2, <3>1
    <3>3. \A y \in 1 .. m : x < y /\ fields[y].kind.bits < 0 => UnitEnd(fields[x]) <= fields[y].first
      BY <1>2, <2>2, <3>1 DEF UnitInv
    <3> QED
      BY <1>6, <3>2, <3>3
  <2> QED
    BY <1>1, <1>3, <2>2 DEF F!RunsWhole, F!type_size
<1>11. F!AccessWithin'
  <2>1. \A f \in F!Range(fields') : Within(f)
    BY <1>3, <1>6 DEF F!Range
  <2> QED
    BY <1>1, <2>1 DEF F!AccessWithin, F!Range, Within, F!Contains, F!type_size
<1> QED
  BY <1>1, <1>8, <1>9, <1>10, <1>11 DEF LayInv, F!LayoutSound

(* FieldsSound: struct_layout gives fields of whatever kinds, in whatever  *)
(* order and style, places that are apart and in the struct, in GCC's      *)
(* layout those of GCC, in MS layout whole units, and accesses bit-fields  *)
(* there, if in MS layout a zero width only follows a bit-field of its     *)
(* type.                                                                   *)
THEOREM FieldsAlwaysSound ==
  ASSUME ~ LooseZero
  PROVE  F!Spec => []FieldsSound
<1>1. F!Init => LayInv
  <2>1. SUFFICES ASSUME F!Init PROVE LayInv
    OBVIOUS
  <2>2. /\ how \in Styles /\ fields = << >> /\ c = 0 /\ bit_pos = 0 /\ offset = 0
        /\ maxalign = 1 /\ prevbt = "struct" /\ size = 0 /\ stage = "fields"
    BY <2>1 DEF F!Init
  <2>3. LayTypes
    BY <2>2 DEF LayTypes
  <2>4. Reach = 0
    BY <2>2 DEF Reach
  <2>5. Len(fields) = 0 /\ DOMAIN fields = {}
    BY <2>2
  <2>6. LoopInv /\ PlacesInv /\ OrderInv /\ UnitInv /\ SizedInv
    BY <2>2, <2>5 DEF LoopInv, PlacesInv, OrderInv, UnitInv, SizedInv
  <2>7. GccInv
    BY <2>4, <2>5 DEF GccInv, LastEnd, F!PccCompatible
  <2> QED
    BY <2>2, <2>3, <2>6, <2>7 DEF LayInv
<1>2. LayInv /\ [F!Next]_F!vars => LayInv'
  <2>1. SUFFICES ASSUME LayInv, [F!Next]_F!vars PROVE LayInv'
    OBVIOUS
  <2>2. ASSUME NEW k \in Kinds, F!UnionField(k) PROVE LayInv'
    BY <2>1, <2>2, UnionStep DEF F!UnionField, F!Reading
  <2>3. ASSUME NEW k \in Kinds, F!PlainField(k) PROVE LayInv'
    BY <2>1, <2>3, PlainStep DEF F!PlainField, F!Reading
  <2>4. ASSUME NEW k \in Kinds, F!PccField(k) PROVE LayInv'
    BY <2>1, <2>4, PccStep DEF F!PccField, F!Reading
  <2>5. ASSUME NEW k \in Kinds, F!MsField(k) PROVE LayInv'
    BY <2>1, <2>5, MsStep DEF F!MsField, F!Reading
  <2>6. CASE F!EndStruct
    BY <2>1, <2>6, EndStep
  <2>7. CASE F!ChooseAccess
    BY <2>1, <2>7, ChooseStep
  <2>8. CASE UNCHANGED F!vars
    <3>1. /\ UNCHANGED <<how, fields, F!loopVars>>
          /\ how' = how /\ fields' = fields /\ c' = c /\ bit_pos' = bit_pos /\ offset' = offset
          /\ maxalign' = maxalign /\ prevbt' = prevbt /\ size' = size /\ stage' = stage
      BY <2>8 DEF F!vars, F!loopVars
    <3>2. CASE stage # "done"
      <4>1. LoopInv' /\ PlacesInv' /\ OrderInv' /\ GccInv' /\ UnitInv' /\ Reach' = Reach
        BY <2>1, <3>1, <3>2, PlacesStay
      <4>2. LayTypes /\ SizedInv
        BY <2>1, <3>2 DEF LayInv
      <4>3. LayTypes'
        BY <3>1, <4>2 DEF LayTypes
      <4>4. SizedInv'
        BY <3>1, <4>1, <4>2 DEF SizedInv
      <4> QED
        BY <3>1, <3>2, <4>1, <4>3, <4>4 DEF LayInv
    <3>3. CASE stage = "done"
      <4>1. F!FieldsApart /\ F!PccCompatible /\ F!RunsWhole /\ F!AccessWithin
        BY <2>1, <3>3 DEF LayInv, F!LayoutSound
      <4>2. F!FieldsApart'
        BY <3>1, <4>1 DEF F!FieldsApart, F!End, F!Width, F!type_size, F!Range
      <4>3. F!PccCompatible'
        <5>1. \A p, k : F!GccFirst(p, k)' = F!GccFirst(p, k)
          BY <3>1, GccFirstStays
        <5> QED
          BY <3>1, <4>1, <5>1 DEF F!PccCompatible, F!End, F!Width, F!type_size
      <4>4. F!RunsWhole'
        BY <3>1, <4>1 DEF F!RunsWhole, F!type_size
      <4>5. F!AccessWithin'
        BY <3>1, <4>1 DEF F!AccessWithin, F!Contains, F!type_size, F!Range
      <4> QED
        BY <3>1, <3>3, <4>2, <4>3, <4>4, <4>5 DEF LayInv, F!LayoutSound
    <3> QED
      BY <3>2, <3>3
  <2> QED
    BY <2>1, <2>2, <2>3, <2>4, <2>5, <2>6, <2>7, <2>8 DEF F!Next
<1>3. LayInv => FieldsSound
  <2>1. SUFFICES ASSUME LayInv, stage # "done" PROVE F!LayoutSound
    BY DEF LayInv, FieldsSound
  <2>2. F!PccCompatible
    BY <2>1 DEF LayInv, GccInv
  <2> QED
    BY <2>1, <2>2 DEF F!LayoutSound, F!FieldsApart, F!RunsWhole, F!AccessWithin
<1> QED
  BY <1>1, <1>2, <1>3, PTL DEF F!Spec
=============================================================================
