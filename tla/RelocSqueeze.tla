---------------------------- MODULE RelocSqueeze ----------------------------
(***************************************************************************)
(* squeeze_multi_relocs of tccelf.c, called by the initializer parser when *)
(* a static object is done: of the relocations it added, those to one      *)
(* place are to be reduced to the last.  Each turn of a loop is a step.    *)
(***************************************************************************)
EXTENDS Integers, Sequences, FiniteSets

CONSTANTS
  Offsets,  \* values of r_offset
  MaxNew,   \* bound: relocations of the object
  MaxOld    \* bound: relocations the section has before

Assumptions == Offsets \subseteq Nat /\ MaxNew \in Nat /\ MaxOld \in Nat

VARIABLES
  given,  \* history: the relocations at the call, [offset, id]
  rel,    \* the relocations of the section
  old,    \* oldrelocoffset: those before the object's
  a,      \* the relocation the insertion sort moves
  i,      \* where it looks
  addr,   \* its offset
  r,      \* the relocation read by the squeezing loop
  dest,   \* where that loop writes
  pc

vars == <<given, rel, old, a, i, addr, r, dest, pc>>

Init ==
  /\ old \in 0 .. MaxOld
  /\ \E m \in 0 .. MaxNew : \E o \in [1 .. old + m -> Offsets] :
       given = [j \in 1 .. old + m |-> [offset |-> o[j], id |-> j]]
  /\ rel = given
  /\ a = 0 /\ i = 0 /\ addr = 0 /\ r = 0 /\ dest = 0
  /\ pc = "called"

Start ==
  /\ pc = "called"
  /\ IF old + 1 >= Len(rel)
     THEN pc' = "done" /\ UNCHANGED a
     ELSE pc' = "next" /\ a' = old + 2
  /\ UNCHANGED <<given, rel, old, i, addr, r, dest>>

NextInsertion ==
  /\ pc = "next"
  /\ IF a <= Len(rel)
     THEN i' = a - 1 /\ addr' = rel[a].offset /\ pc' = "insert"
          /\ UNCHANGED <<r, dest>>
     ELSE r' = old + 1 /\ dest' = old + 1 /\ pc' = "squeeze"
          /\ UNCHANGED <<i, addr>>
  /\ UNCHANGED <<given, rel, old, a>>

\* mistake: down to the start of the section
SwapAnywhere ==
  /\ pc = "insert" /\ i > 0 /\ rel[i].offset > addr
  /\ rel' = [rel EXCEPT ![a] = rel[i], ![i] = rel[a]]
  /\ i' = i - 1
  /\ UNCHANGED <<given, old, a, addr, r, dest, pc>>

\* mistake: a sort that is not stable
SwapEqual ==
  /\ pc = "insert" /\ i > old /\ rel[i].offset >= addr
  /\ rel' = [rel EXCEPT ![a] = rel[i], ![i] = rel[a]]
  /\ i' = i - 1
  /\ UNCHANGED <<given, old, a, addr, r, dest, pc>>

\* the relocations at a and i change places
Swap ==
  /\ pc = "insert"
  /\ i > old /\ rel[i].offset > addr
  /\ rel' = [rel EXCEPT ![a] = rel[i], ![i] = rel[a]]
  /\ i' = i - 1
  /\ UNCHANGED <<given, old, a, addr, r, dest, pc>>

Inserted ==
  /\ pc = "insert"
  /\ ~ (i > old /\ rel[i].offset > addr)
  /\ a' = a + 1
  /\ pc' = "next"
  /\ UNCHANGED <<given, rel, old, i, addr, r, dest>>

\* mistake: the loop does not go on after a repeated place
SqueezeStuck ==
  /\ pc = "squeeze" /\ r <= Len(rel)
  /\ LET d == IF rel[dest].offset # rel[r].offset THEN dest + 1 ELSE dest
     IN dest' = d /\ rel' = [rel EXCEPT ![d] = rel[r]]
  /\ r' = IF dest' = dest THEN r ELSE r + 1
  /\ UNCHANGED <<given, old, a, i, addr, pc>>

Squeeze ==
  /\ pc = "squeeze" /\ r <= Len(rel)
  /\ LET d == IF rel[dest].offset # rel[r].offset THEN dest + 1 ELSE dest
     IN dest' = d /\ rel' = [rel EXCEPT ![d] = rel[r]]
  /\ r' = r + 1
  /\ UNCHANGED <<given, old, a, i, addr, pc>>

Squeezed ==
  /\ pc = "squeeze" /\ r > Len(rel)
  /\ rel' = SubSeq(rel, 1, dest)
  /\ pc' = "done"
  /\ UNCHANGED <<given, old, a, i, addr, r, dest>>

Next == Start \/ NextInsertion \/ Swap \/ Inserted \/ Squeeze \/ Squeezed

Spec == Init /\ [][Next]_vars
FairSpec == Spec /\ WF_vars(Next)

-----------------------------------------------------------------------------
New(s) == old + 1 .. Len(s)

\* Sorting and squeezing touch nothing but the object's relocations, at every
\* moment; and no place loses its relocation: each offset the object had
\* relocated has one in the end, and each relocation is one that was put.
PlacesKept ==
  /\ \A j \in 1 .. old : rel[j] = given[j]
  /\ pc = "done" =>
       /\ {rel[j].offset : j \in New(rel)} = {given[j].offset : j \in New(given)}
       /\ \A j \in New(rel) : \E m \in New(given) : rel[j] = given[m]

\* sorted, one relocation for each offset, the last one put
Reduced ==
  /\ \A j, m \in New(rel) : j < m => rel[j].offset < rel[m].offset
  /\ \A j \in New(rel) : \A m \in New(given) :
       given[m].offset = rel[j].offset => given[m].id <= rel[j].id

\* each relocation was put after at most one that belongs behind it
MostlyInOrder ==
  \A m \in New(given) :
    Cardinality({j \in New(given) : j < m /\ given[j].offset > given[m].offset}) <= 1

\* Initializers that are in order but for single steps back are reduced as
\* the comment on the function says ("they will be mostly in order").
ReducesMostlyOrdered == pc = "done" /\ MostlyInOrder => Reduced

\* The loops end, for any initializer.
SqueezeEnds == <>(pc = "done")

\* "Remove relocations [...] that are to the same place, retaining the last
\* of them.  As side effect the relocations are sorted": for all of them.
ReducesAll == pc = "done" => Reduced
=============================================================================
