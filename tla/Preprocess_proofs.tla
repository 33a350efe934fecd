-------------------------- MODULE Preprocess_proofs --------------------------
(* Proofs about Preprocess: what names mean as macros, for any names,      *)
(* bodies, bounds and number of files; and the stacks of included files    *)
(* and of conditionals, for any programs.                                  *)
EXTENDS Preprocess, FiniteSetTheorems, WellFoundedInduction, TLAPS

-----------------------------------------------------------------------------
(* The define stack.                                                       *)

Entries == [v : Names, d : Bodies \cup {NoBody}, boundary : BOOLEAN]
Meanings == Bodies \cup {NoBody, Undefined}

\* what pop_macro makes of an entry
Value(j) == IF define_stack[j].d = NoBody THEN Undefined ELSE define_stack[j].d

\* the entries that outlive the file, and those of n among them
base == IF phase = "options" THEN Len(define_stack) ELSE define_start
Of(n) == { j \in 1 .. base : define_stack[j].v = n }

Newest(j, S) == \A m \in S : m <= j

(***************************************************************************)
(* The inductive invariant.                                                *)
(***************************************************************************)
TypeInv ==
  /\ define_stack \in Seq(Entries)
  /\ sym_define \in [Names -> Nat]
  /\ define_start \in Nat /\ define_start <= Len(define_stack)
  /\ phase \in {"options", "file"}
  /\ meant \in [Names -> Meanings] /\ options \in [Names -> Meanings]
  /\ kept \in [Names -> Seq(Meanings)]
  /\ phase = "options" => options = meant

\* only built-ins are in force without a body
BodyInv ==
  \A n \in Names \ Builtins :
    /\ sym_define[n] # 0 => define_stack[sym_define[n]].d # NoBody
    /\ \A j \in Of(n) : define_stack[j].d # NoBody

\* what the options say of n is in the newest entry that outlives the file,
\* and no older one is in force or marked
OptionOf(n) ==
  /\ Of(n) = {} => options[n] = Undefined
  /\ \A j \in Of(n) :
       /\ Newest(j, Of(n)) => options[n] = define_stack[j].d
       /\ j = sym_define[n] \/ j \in Marked(n) => Newest(j, Of(n))
  /\ phase = "options" /\ Of(n) # {} => sym_define[n] # 0

\* the marks are what push_macro kept, in order; the latest definition is
\* not older than any of them
Marks(n, ms) ==
  /\ ms \in Seq(Nat) /\ Len(ms) = Len(kept[n])
  /\ \A k \in 1 .. Len(ms) : ms[k] \in Marked(n) /\ kept[n][k] = Value(ms[k])
  /\ \A k, m \in 1 .. Len(ms) : k < m => ms[k] < ms[m]
  /\ \A j \in Marked(n) : \E k \in 1 .. Len(ms) : ms[k] = j
MarksOf(n) ==
  /\ \E ms \in Seq(Nat) : Marks(n, ms)
  /\ sym_define[n] # 0 => Newest(sym_define[n], Marked(n))
  /\ phase = "options" => kept[n] = << >>

IInv ==
  /\ TypeInv /\ NoDangling /\ BodyInv
  /\ \A n \in Names \ unclear : OptionOf(n) /\ MarksOf(n) /\ Meaning(n) = meant[n]

-----------------------------------------------------------------------------
(* A bounded set of numbers that is not empty has a greatest element: the  *)
(* least of the distances to the bound exists.                             *)
LEMMA NewestExists ==
  ASSUME NEW b \in Nat, NEW T \in SUBSET (1 .. b), T # {}
  PROVE  \E x \in T : Newest(x, T)
<1> DEFINE R == OpToRel(<, Nat)
           U == { b - t : t \in T }
<1>1. IsWellFoundedOn(R, Nat)
  BY NatLessThanWellFounded
<1>2. \A x, y \in Nat : x < y => <<x, y>> \in R
  BY DEF OpToRel
<1>3. U \subseteq Nat
  OBVIOUS
<1>4. U # {}
  <2>1. PICK t \in T : TRUE
    OBVIOUS
  <2>2. b - t \in U
    BY <2>1
  <2> QED
    BY <2>2
<1>5. \A t \in T : b - t \in U
  OBVIOUS
<1> HIDE DEF R
<1>6. PICK x \in U : \A y \in U : ~ (<<y, x>> \in R)
  <2> HIDE DEF U
  <2> QED
    BY <1>1, <1>3, <1>4, WFMin
<1>7. PICK t \in T : x = b - t
  OBVIOUS
<1>8. \A y \in T : ~ (b - y < b - t)
  BY <1>2, <1>3, <1>5, <1>6, <1>7
<1> QED
  BY <1>8 DEF Newest

LEMMA UnmarkedIsEntry ==
  ASSUME NEW n \in Names, NEW body \in Bodies \cup {NoBody}
  PROVE  [v |-> n, d |-> body, boundary |-> FALSE] \in Entries
<1>1. FALSE \in BOOLEAN
  BY Zenon
<1> QED
  BY <1>1 DEF Entries

(* The built-ins are on the stack, each once.                                *)
LEMMA InitPlaces ==
  ASSUME Assumptions, Init
  PROVE  /\ define_stack \in Seq(Entries)
         /\ \A j \in DOMAIN define_stack : define_stack[j].v \in Builtins
         /\ \A j \in DOMAIN define_stack :
              define_stack[j].d = NoBody /\ define_stack[j].boundary = FALSE
         /\ \A j, m \in DOMAIN define_stack : j # m => define_stack[j].v # define_stack[m].v
         /\ \A n \in Builtins : \E j \in DOMAIN define_stack : define_stack[j].v = n
<1> DEFINE c == Cardinality(Builtins)
           E == { [v |-> n, d |-> NoBody, boundary |-> FALSE] : n \in Builtins }
           f == [j \in 1 .. c |-> define_stack[j].v]
<1>1. c \in Nat /\ IsFiniteSet(Builtins)
  BY FS_CardinalityType DEF Assumptions
<1>2. define_stack \in [1 .. c -> E]
  BY Zenon DEF Init
<1>3. \A j, m \in DOMAIN define_stack : j # m => define_stack[j].v # define_stack[m].v
  BY DEF Init
<1> HIDE DEF c
<1>4. DOMAIN define_stack = 1 .. c
  BY <1>2
<1>5. \A j \in 1 .. c : define_stack[j] \in E
  BY <1>2
<1>6. E \subseteq Entries
  <2> SUFFICES ASSUME NEW n \in Builtins
               PROVE  [v |-> n, d |-> NoBody, boundary |-> FALSE] \in Entries
    OBVIOUS
  <2>1. n \in Names
    BY DEF Assumptions
  <2> QED
    BY <2>1, UnmarkedIsEntry
<1>7. define_stack \in Seq(Entries)
  <2>1. define_stack \in [1 .. c -> Entries]
    BY <1>2, <1>5, <1>6
  <2> HIDE DEF E
  <2>2. c \in Nat
    BY <1>1
  <2> QED
    BY <2>1, <2>2
<1>8. \A j \in 1 .. c : /\ define_stack[j].v \in Builtins
                         /\ define_stack[j].d = NoBody /\ define_stack[j].boundary = FALSE
  BY <1>5
<1>9. f \in Injection(1 .. c, Builtins)
  BY <1>3, <1>4, <1>8 DEF Injection, IsInjective
<1>10. IsFiniteSet(1 .. c) /\ Cardinality(1 .. c) = c
  BY <1>1, FS_Interval
<1>11. f \in Surjection(1 .. c, Builtins)
  BY <1>1, <1>9, <1>10, FS_Injection DEF c
<1>12. \A n \in Builtins : \E j \in 1 .. c : f[j] = n
  BY <1>11 DEF Surjection
<1> QED
  BY <1>3, <1>4, <1>7, <1>8, <1>12

LEMMA InitIInv ==
  ASSUME Assumptions, Init
  PROVE  IInv
<1>1. /\ define_stack \in Seq(Entries)
      /\ \A j \in DOMAIN define_stack : define_stack[j].v \in Builtins
      /\ \A j \in DOMAIN define_stack :
           define_stack[j].d = NoBody /\ define_stack[j].boundary = FALSE
      /\ \A j, m \in DOMAIN define_stack : j # m => define_stack[j].v # define_stack[m].v
      /\ \A n \in Builtins : \E j \in DOMAIN define_stack : define_stack[j].v = n
  BY InitPlaces
<1>2. DOMAIN define_stack = 1 .. Len(define_stack) /\ Len(define_stack) \in Nat
  BY <1>1
<1>3. sym_define = [n \in Names |->
        IF n \in Builtins THEN CHOOSE j \in DOMAIN define_stack : define_stack[j].v = n ELSE 0]
  BY DEF Init
<1>4. \A n \in Builtins : /\ n \in Names
                          /\ sym_define[n] \in DOMAIN define_stack
                          /\ define_stack[sym_define[n]].v = n
  BY <1>1, <1>3 DEF Assumptions
<1>5. \A n \in Names \ Builtins : sym_define[n] = 0
  BY <1>3
<1>6. /\ phase = "options" /\ define_start = 0 /\ kept = [n \in Names |-> << >>] /\ meant = options
      /\ options = [n \in Names |-> IF n \in Builtins THEN NoBody ELSE Undefined]
  BY DEF Init
<1>7. TypeInv
  <2>1. sym_define \in [Names -> Nat]
    <3>1. sym_define = [n \in Names |-> sym_define[n]]
      BY <1>3
    <3>2. \A n \in Names : sym_define[n] \in Nat
      BY <1>2, <1>4, <1>5
    <3> QED
      BY <3>1, <3>2
  <2>2. options \in [Names -> Meanings]
    BY <1>6 DEF Meanings
  <2>3. kept \in [Names -> Seq(Meanings)]
    BY <1>6
  <2> QED
    BY <1>1, <1>2, <1>6, <2>1, <2>2, <2>3 DEF TypeInv
<1>8. NoDangling
  BY <1>4, <1>5 DEF NoDangling
<1>9. \A n \in Names \ Builtins : Of(n) = {}
  BY <1>1, <1>2, <1>6 DEF Of, base
<1>10. BodyInv
  BY <1>5, <1>9 DEF BodyInv
<1>11. \A n \in Names : Marked(n) = {}
  BY <1>1 DEF Marked
<1>12. \A n \in Names : OptionOf(n) /\ Meaning(n) = meant[n]
  <2> TAKE n \in Names
  <2>1. CASE n \in Builtins
    <3>1. Of(n) = {sym_define[n]} /\ sym_define[n] # 0 /\ sym_define[n] \in Nat
      BY <1>1, <1>2, <1>4, <1>6, <2>1 DEF Of, base
    <3>2. define_stack[sym_define[n]].d = NoBody /\ options[n] = NoBody /\ meant[n] = NoBody
      BY <1>1, <1>4, <1>6, <2>1
    <3> QED
      BY <3>1, <3>2 DEF OptionOf, Meaning, Newest
  <2>2. CASE n \notin Builtins
    BY <1>5, <1>6, <1>9, <2>2 DEF OptionOf, Meaning
  <2> QED
    BY <2>1, <2>2
<1>13. \A n \in Names : MarksOf(n)
  <2> TAKE n \in Names
  <2>1. Marks(n, << >>)
    BY <1>6, <1>11 DEF Marks
  <2>2. << >> \in Seq(Nat) /\ kept[n] = << >>
    BY <1>6
  <2> QED
    BY <1>11, <2>1, <2>2 DEF MarksOf, Newest
<1> QED
  BY <1>7, <1>8, <1>10, <1>12, <1>13 DEF IInv

-----------------------------------------------------------------------------
(* What is said of one name stays true while entries and the tables change *)
(* for other names.                                                        *)
LEMMA OtherName ==
  ASSUME TypeInv, TypeInv', NoDangling, NEW n \in Names,
         OptionOf(n), MarksOf(n), Meaning(n) = meant[n],
         phase' = phase, define_start' = define_start,
         sym_define'[n] = sym_define[n], meant'[n] = meant[n],
         options'[n] = options[n], kept'[n] = kept[n],
         Len(define_stack) <= Len(define_stack'),
         \A j \in 1 .. Len(define_stack) :
           /\ define_stack'[j].v = define_stack[j].v /\ define_stack'[j].d = define_stack[j].d
           /\ define_stack[j].v = n => define_stack'[j].boundary = define_stack[j].boundary,
         \A j \in 1 .. Len(define_stack') : j > Len(define_stack) => define_stack'[j].v # n
  PROVE  (OptionOf(n) /\ MarksOf(n) /\ Meaning(n) = meant[n])'
<1>1. /\ DOMAIN define_stack = 1 .. Len(define_stack) /\ Len(define_stack) \in Nat
      /\ DOMAIN define_stack' = 1 .. Len(define_stack') /\ Len(define_stack') \in Nat
      /\ define_start \in 0 .. Len(define_stack)
  BY DEF TypeInv
<1>2. Of(n)' = Of(n)
  BY <1>1 DEF Of, base
<1>3. Marked(n)' = Marked(n)
  BY <1>1 DEF Marked
<1>4. \A j \in 1 .. Len(define_stack) : Value(j)' = Value(j)
  BY DEF Value
<1>5. Of(n) \subseteq 1 .. Len(define_stack) /\ Marked(n) \subseteq 1 .. Len(define_stack)
  BY <1>1 DEF Of, base, Marked
<1>6. OptionOf(n)'
  BY <1>2, <1>3, <1>5 DEF OptionOf, Newest
<1>7. MarksOf(n)'
  <2>1. PICK ms \in Seq(Nat) : Marks(n, ms)
    BY DEF MarksOf
  <2>2. Marks(n, ms)'
    BY <1>3, <1>4, <1>5, <2>1 DEF Marks
  <2>3. sym_define'[n] # 0 => Newest(sym_define'[n], Marked(n)')
    BY <1>3 DEF MarksOf
  <2> QED
    BY <2>1, <2>2, <2>3 DEF MarksOf
<1>8. Meaning(n)' = Meaning(n)
  BY <1>1 DEF Meaning, NoDangling
<1> QED
  BY <1>6, <1>7, <1>8

LEMMA PushFacts ==
  ASSUME TypeInv, NEW n \in Names, NEW body \in Bodies \cup {NoBody}
  PROVE  /\ Push(define_stack, n, body) \in Seq(Entries)
         /\ Len(Push(define_stack, n, body)) = Len(define_stack) + 1
         /\ \A j \in 1 .. Len(define_stack) : Push(define_stack, n, body)[j] = define_stack[j]
         /\ Push(define_stack, n, body)[Len(define_stack) + 1] =
              [v |-> n, d |-> body, boundary |-> FALSE]
<1>1. [v |-> n, d |-> body, boundary |-> FALSE] \in Entries
  BY UnmarkedIsEntry
<1> QED
  BY <1>1 DEF Push, TypeInv

(* A definition, by an option or in a file.                                *)
LEMMA DefineKeeps ==
  ASSUME Assumptions, IInv, NEW n \in Names \ Builtins, NEW body \in Bodies,
         define_push(n, body), phase' = phase, define_start' = define_start,
         kept' = kept, unclear' = unclear,
         options' = IF phase = "options" THEN meant' ELSE options
  PROVE  IInv'
<1> DEFINE top == Len(define_stack) + 1
<1>1. /\ define_stack' = Push(define_stack, n, body)
      /\ sym_define' = [sym_define EXCEPT ![n] = top]
      /\ meant' = [meant EXCEPT ![n] = body]
  BY DEF define_push
<1>2. /\ define_stack' \in Seq(Entries) /\ Len(define_stack') = top
      /\ \A j \in 1 .. Len(define_stack) : define_stack'[j] = define_stack[j]
      /\ define_stack'[top] = [v |-> n, d |-> body, boundary |-> FALSE]
  BY <1>1, PushFacts DEF IInv
<1>3. /\ Len(define_stack) \in Nat /\ DOMAIN define_stack = 1 .. Len(define_stack)
      /\ DOMAIN define_stack' = 1 .. top /\ body # NoBody
  BY <1>2 DEF IInv, TypeInv, Assumptions
<1>4. TypeInv'
  BY <1>1, <1>2, <1>3 DEF IInv, TypeInv, Meanings
<1>5. NoDangling'
  BY <1>1, <1>2, <1>3 DEF IInv, TypeInv, NoDangling
<1>6. \A m \in Names : /\ phase = "options" => Of(m)' = Of(m) \cup IF m = n THEN {top} ELSE {}
                       /\ phase # "options" => Of(m)' = Of(m)
                       /\ Of(m) \subseteq 1 .. Len(define_stack)
  BY <1>2, <1>3 DEF Of, base, IInv, TypeInv
<1>7. BodyInv'
  <2>1. BodyInv /\ NoDangling /\ sym_define \in [Names -> Nat]
    BY DEF IInv, TypeInv
  <2>2. \A m \in Names : sym_define'[m] = IF m = n THEN top ELSE sym_define[m]
    BY <1>1, <2>1
  <2>3. \A m \in Names : sym_define[m] # 0 => sym_define[m] \in 1 .. Len(define_stack)
    BY <1>3, <2>1 DEF NoDangling
  <2>4. define_stack'[top].d # NoBody
    BY <1>2, <1>3
  <2>5. ASSUME NEW m \in Names \ Builtins, sym_define'[m] # 0
        PROVE  define_stack'[sym_define'[m]].d # NoBody
    BY <1>2, <2>1, <2>2, <2>3, <2>4, <2>5 DEF BodyInv
  <2>6. ASSUME NEW m \in Names \ Builtins, NEW j \in Of(m)'
        PROVE  define_stack'[j].d # NoBody
    <3>1. j = top \/ (j \in Of(m) /\ j \in 1 .. Len(define_stack))
      BY <1>6
    <3> QED
      BY <1>2, <2>1, <2>4, <3>1 DEF BodyInv
  <2> QED
    BY <2>5, <2>6 DEF BodyInv
<1>8. ASSUME NEW m \in Names \ unclear
      PROVE  (OptionOf(m) /\ MarksOf(m) /\ Meaning(m) = meant[m])'
  <2>1. OptionOf(m) /\ MarksOf(m) /\ Meaning(m) = meant[m] /\ TypeInv /\ NoDangling
    BY <1>8 DEF IInv
  <2>2. CASE m # n
    <3>1. sym_define'[m] = sym_define[m] /\ meant'[m] = meant[m] /\ options'[m] = options[m]
      BY <1>1, <2>2 DEF IInv, TypeInv
    <3>2. \A j \in 1 .. Len(define_stack') : j > Len(define_stack) => define_stack'[j].v # m
      BY <1>2, <1>3, <2>2
    <3> QED
      BY <1>2, <1>3, <1>4, <2>1, <3>1, <3>2, OtherName
  <2>3. CASE m = n
    <3>1. sym_define'[n] = top /\ meant'[n] = body /\ define_stack'[top].d = body
      BY <1>1, <1>2 DEF IInv, TypeInv
    <3>2. Meaning(n)' = meant'[n]
      BY <1>3, <3>1 DEF Meaning
    <3>3. Marked(n)' = Marked(n) /\ Marked(n) \subseteq 1 .. Len(define_stack)
      BY <1>2, <1>3 DEF Marked
    <3>4. \A j \in 1 .. Len(define_stack) : Value(j)' = Value(j)
      BY <1>2 DEF Value
    <3>5. MarksOf(n)'
      <4>1. PICK ms \in Seq(Nat) : Marks(n, ms)
        BY <2>1, <2>3 DEF MarksOf
      <4>2. Marks(n, ms)'
        BY <3>3, <3>4, <4>1 DEF Marks
      <4>3. Newest(sym_define'[n], Marked(n)')
        BY <1>3, <3>1, <3>3 DEF Newest
      <4> QED
        BY <2>1, <2>3, <4>2, <4>3 DEF MarksOf
    <3>6. CASE phase = "options"
      <4>1. options'[n] = body /\ Of(n)' = Of(n) \cup {top}
        BY <1>6, <3>1, <3>6
      <4>2. Marked(n) = {}
        BY <2>1, <2>3, <3>6 DEF MarksOf, Marks
      <4>3. \A j \in Of(n)' : Newest(j, Of(n)') => j = top
        BY <1>3, <1>6, <4>1 DEF Newest
      <4>4. Newest(top, Of(n)')
        BY <1>3, <1>6, <4>1 DEF Newest
      <4>5. sym_define'[n] # 0 /\ Of(n)' # {}
        BY <1>3, <3>1, <4>1
      <4>6. ASSUME NEW j \in Of(n)'
            PROVE  /\ Newest(j, Of(n)') => options'[n] = define_stack'[j].d
                   /\ j = sym_define'[n] \/ j \in Marked(n)' => Newest(j, Of(n)')
        BY <3>1, <3>3, <4>1, <4>2, <4>3, <4>4, <4>6
      <4>7. OptionOf(n)'
        BY <4>5, <4>6 DEF OptionOf
      <4> QED
        BY <2>3, <3>2, <3>5, <4>7
    <3>7. CASE phase # "options"
      <4>1. options'[n] = options[n] /\ Of(n)' = Of(n)
        BY <1>6, <3>7
      <4>2. OptionOf(n)'
        BY <1>2, <1>3, <1>6, <2>1, <2>3, <3>1, <3>3, <3>7, <4>1 DEF OptionOf, Newest
      <4> QED
        BY <2>3, <3>2, <3>5, <4>2
    <3> QED
      BY <3>6, <3>7
  <2> QED
    BY <2>2, <2>3
<1> QED
  BY <1>4, <1>5, <1>7, <1>8 DEF IInv

(* #undef, or -U of a name that is no macro: the stack is not touched.     *)
LEMMA UndefKeeps ==
  ASSUME Assumptions, IInv, NEW n \in Names,
         define_undef(n), phase' = phase, define_start' = define_start,
         kept' = kept, unclear \subseteq unclear',
         options' = IF phase = "options" THEN meant' ELSE options,
         phase = "options" /\ sym_define[n] # 0 => n \in unclear'
  PROVE  IInv'
<1>1. /\ define_stack' = define_stack /\ sym_define' = [sym_define EXCEPT ![n] = 0]
      /\ meant' = [meant EXCEPT ![n] = Undefined]
  BY DEF define_undef
<1>2. TypeInv'
  BY <1>1 DEF IInv, TypeInv, Meanings
<1>3. NoDangling'
  BY <1>1 DEF IInv, TypeInv, NoDangling
<1>4. \A m \in Names : Of(m)' = Of(m) /\ Marked(m)' = Marked(m)
  BY <1>1 DEF Of, base, Marked
<1>5. BodyInv'
  BY <1>1, <1>4 DEF IInv, TypeInv, BodyInv
<1>6. ASSUME NEW m \in Names \ unclear'
      PROVE  (OptionOf(m) /\ MarksOf(m) /\ Meaning(m) = meant[m])'
  <2>1. OptionOf(m) /\ MarksOf(m) /\ Meaning(m) = meant[m] /\ TypeInv /\ NoDangling
    BY <1>6 DEF IInv
  <2>2. CASE m # n \/ phase = "options"
    <3>1. sym_define'[m] = sym_define[m] /\ meant'[m] = meant[m]
      BY <1>1, <1>6, <2>1, <2>2 DEF TypeInv, Meaning
    <3>2. options'[m] = options[m]
      BY <2>1, <3>1 DEF TypeInv
    <3> QED
      BY <1>1, <1>2, <2>1, <3>1, <3>2, OtherName DEF TypeInv
  <2>3. CASE m = n /\ phase # "options"
    <3>1. sym_define'[n] = 0 /\ meant'[n] = Undefined /\ options' = options
      BY <1>1, <2>1, <2>3 DEF TypeInv
    <3>2. Meaning(n)' = meant'[n]
      BY <3>1 DEF Meaning
    <3>3. OptionOf(n)'
      BY <1>1, <1>4, <2>1, <2>3, <3>1 DEF OptionOf, Newest, Of
    <3>4. MarksOf(n)'
      <4>1. PICK ms \in Seq(Nat) : Marks(n, ms)
        BY <2>1, <2>3 DEF MarksOf
      <4>2. Marks(n, ms)'
        BY <1>1, <1>4, <4>1 DEF Marks, Value
      <4> QED
        BY <2>3, <3>1, <4>1, <4>2 DEF MarksOf
    <3> QED
      BY <2>3, <3>2, <3>3, <3>4
  <2> QED
    BY <2>2, <2>3
<1> QED
  BY <1>2, <1>3, <1>5, <1>6 DEF IInv

LEMMA DefineOptionStep ==
  ASSUME Assumptions, IInv, DefineOption
  PROVE  IInv'
<1>1. PICK n \in Names \ Builtins, body \in Bodies : define_push(n, body) /\ options' = meant'
  BY DEF DefineOption
<1> QED
  BY <1>1, DefineKeeps DEF DefineOption

LEMMA DefineStep ==
  ASSUME Assumptions, IInv, Define
  PROVE  IInv'
<1>1. PICK n \in Names \ Builtins, body \in Bodies : define_push(n, body)
  BY DEF Define
<1> QED
  BY <1>1, DefineKeeps DEF Define

LEMMA UndefineOptionStep ==
  ASSUME Assumptions, IInv, UndefineOption
  PROVE  IInv'
<1>1. PICK n \in Names \ Builtins :
        /\ define_undef(n) /\ options' = meant'
        /\ unclear' = IF sym_define[n] # 0 THEN unclear \cup {n} ELSE unclear
  BY DEF UndefineOption
<1> QED
  BY <1>1, UndefKeeps DEF UndefineOption

LEMMA UndefStep ==
  ASSUME Assumptions, IInv, Undef
  PROVE  IInv'
<1>1. PICK n \in Names : define_undef(n)
  BY DEF Undef
<1> QED
  BY <1>1, UndefKeeps DEF Undef

LEMMA BeginFileStep ==
  ASSUME Assumptions, IInv, BeginFile
  PROVE  IInv'
<1>1. /\ phase = "options" /\ phase' = "file" /\ define_start' = Len(define_stack)
      /\ define_stack' = define_stack /\ sym_define' = sym_define
      /\ options' = options /\ meant' = meant /\ unclear' = unclear
      /\ kept' = [n \in Names |-> << >>]
  BY DEF BeginFile, tables
<1>2. TypeInv'
  <2>1. Len(define_stack) \in Nat
    BY DEF IInv, TypeInv
  <2> QED
    BY <1>1, <2>1 DEF IInv, TypeInv
<1>3. \A n \in Names : Of(n)' = Of(n) /\ Marked(n)' = Marked(n)
  BY <1>1 DEF Of, base, Marked
<1>4. NoDangling' /\ BodyInv'
  BY <1>1, <1>3 DEF IInv, NoDangling, BodyInv
<1>5. ASSUME NEW n \in Names \ unclear
      PROVE  (OptionOf(n) /\ MarksOf(n) /\ Meaning(n) = meant[n])'
  <2>1. OptionOf(n) /\ MarksOf(n) /\ Meaning(n) = meant[n]
    BY <1>5 DEF IInv
  <2>2. kept'[n] = kept[n]
    BY <1>1, <2>1 DEF MarksOf
  <2>3. MarksOf(n)'
    <3>1. PICK ms \in Seq(Nat) : Marks(n, ms)
      BY <2>1 DEF MarksOf
    <3>2. Marks(n, ms)'
      BY <1>1, <1>3, <2>2, <3>1 DEF Marks, Value
    <3> QED
      BY <1>1, <1>3, <2>1, <3>2 DEF MarksOf
  <2>4. OptionOf(n)'
    BY <1>1, <1>3, <2>1 DEF OptionOf
  <2> QED
    BY <1>1, <2>1, <2>3, <2>4 DEF Meaning
<1> QED
  BY <1>1, <1>2, <1>4, <1>5 DEF IInv

-----------------------------------------------------------------------------
(* push_macro and pop_macro change the mark of one entry.                  *)
LEMMA MarkChanged ==
  ASSUME NEW t \in Entries
  PROVE  /\ [t EXCEPT !.boundary = TRUE] \in Entries
         /\ [t EXCEPT !.boundary = TRUE].v = t.v /\ [t EXCEPT !.boundary = TRUE].d = t.d
         /\ [t EXCEPT !.boundary = TRUE].boundary
         /\ [t EXCEPT !.boundary = FALSE] \in Entries
         /\ [t EXCEPT !.boundary = FALSE].v = t.v /\ [t EXCEPT !.boundary = FALSE].d = t.d
         /\ ~ [t EXCEPT !.boundary = FALSE].boundary
<1>1. TRUE \in BOOLEAN /\ FALSE \in BOOLEAN
  BY Zenon
<1> QED
  BY <1>1 DEF Entries

LEMMA EntryReplaced ==
  ASSUME NEW entries \in Seq(Entries), NEW s \in 1 .. Len(entries), NEW e \in Entries,
         e.v = entries[s].v, e.d = entries[s].d, NEW new, new = [entries EXCEPT ![s] = e]
  PROVE  /\ new \in Seq(Entries) /\ Len(new) = Len(entries) /\ new[s] = e
         /\ \A j \in 1 .. Len(entries) :
              /\ new[j].v = entries[j].v /\ new[j].d = entries[j].d
              /\ j # s => new[j] = entries[j]
OBVIOUS

(* A mark newer than all others, for the meaning that is kept.             *)
LEMMA AnotherMark ==
  ASSUME NEW n \in Names, NEW ms \in Seq(Nat), Marks(n, ms), NEW s \in Nat, NEW w,
         kept[n] \in Seq(Meanings), w \in Meanings,
         Marked(n)' = Marked(n) \cup {s}, \A j \in Marked(n) : j < s,
         \A j \in Marked(n) : Value(j)' = Value(j),
         kept'[n] = Append(kept[n], w), Value(s)' = w
  PROVE  Append(ms, s) \in Seq(Nat) /\ Marks(n, Append(ms, s))'
<1> DEFINE more == Append(ms, s)
           K == Len(ms)
<1>1. K \in Nat /\ K = Len(kept[n])
  BY DEF Marks
<1>2. /\ more \in Seq(Nat) /\ Len(more) = K + 1 /\ more[K + 1] = s
      /\ \A k \in 1 .. K : more[k] = ms[k]
  OBVIOUS
<1>3. /\ Len(kept'[n]) = K + 1 /\ kept'[n][K + 1] = w
      /\ \A k \in 1 .. K : kept'[n][k] = kept[n][k]
  BY <1>1
<1> HIDE DEF more, K
<1>4. \A k \in 1 .. K : ms[k] \in Marked(n) /\ kept[n][k] = Value(ms[k])
  BY DEF Marks, K
<1>5. \A k, m \in 1 .. K : k < m => ms[k] < ms[m]
  BY DEF Marks, K
<1>6. \A j \in Marked(n) : \E k \in 1 .. K : ms[k] = j
  BY DEF Marks, K
<1>7. \A k \in 1 .. K + 1 : more[k] \in Marked(n)' /\ kept'[n][k] = Value(more[k])'
  <2> TAKE k \in 1 .. K + 1
  <2>1. CASE k \in 1 .. K
    BY <1>2, <1>3, <1>4, <2>1
  <2>2. CASE k = K + 1
    BY <1>2, <1>3, <2>2
  <2> QED
    BY <1>1, <2>1, <2>2
<1>8. ASSUME NEW k \in 1 .. K + 1, NEW m \in 1 .. K + 1, k < m
      PROVE  more[k] < more[m]
  <2>1. k \in 1 .. K /\ more[k] = ms[k] /\ ms[k] \in Marked(n)
    BY <1>1, <1>2, <1>4, <1>8
  <2>2. CASE m \in 1 .. K
    BY <1>2, <1>5, <1>8, <2>1, <2>2
  <2>3. CASE m = K + 1
    BY <1>2, <2>1, <2>3
  <2> QED
    BY <1>1, <2>2, <2>3
<1>9. ASSUME NEW j \in Marked(n)'
      PROVE  \E k \in 1 .. K + 1 : more[k] = j
  <2>1. CASE j \in Marked(n)
    <3>1. PICK k \in 1 .. K : ms[k] = j
      BY <1>6, <2>1
    <3>2. k \in 1 .. K + 1 /\ more[k] = j
      BY <1>1, <1>2, <3>1
    <3> QED
      BY <3>2
  <2>2. CASE j = s
    <3>1. K + 1 \in 1 .. K + 1 /\ more[K + 1] = j
      BY <1>1, <1>2, <2>2
    <3> QED
      BY <3>1
  <2> QED
    BY <1>9, <2>1, <2>2
<1>10. Marks(n, more)'
  BY <1>2, <1>3, <1>7, <1>8, <1>9 DEF Marks
<1> QED
  BY <1>2, <1>10 DEF more

(* #pragma push_macro: at most one entry is added, one is marked.          *)
LEMMA PushMacroStep ==
  ASSUME Assumptions, IInv, PushMacro
  PROVE  IInv'
<1>1. PICK n \in Names :
        LET entries == IF define_find(n) # 0 THEN define_stack ELSE Push(define_stack, n, NoBody)
            s == IF define_find(n) # 0 THEN define_find(n) ELSE Len(entries)
            once == ~ entries[s].boundary /\ ~ (n \in Builtins /\ define_find(n) # 0)
        IN /\ define_stack' = [entries EXCEPT ![s].boundary = TRUE]
           /\ sym_define' = [sym_define EXCEPT ![n] = IF entries[s].d = NoBody THEN 0 ELSE s]
           /\ kept' = [kept EXCEPT ![n] = Append(@, meant[n])]
           /\ unclear' = IF once THEN unclear ELSE unclear \cup {n}
  BY Zenon DEF PushMacro
<1> DEFINE L == Len(define_stack)
           entries == IF sym_define[n] # 0 THEN define_stack ELSE Push(define_stack, n, NoBody)
           place == IF sym_define[n] # 0 THEN sym_define[n] ELSE Len(entries)
<1>2. /\ phase = "file" /\ phase' = "file" /\ define_start' = define_start
      /\ options' = options /\ meant' = meant
  BY DEF PushMacro
<1>3. TypeInv /\ NoDangling /\ BodyInv /\ L \in Nat /\ DOMAIN define_stack = 1 .. L
  BY DEF IInv, TypeInv
<1>4. PICK s \in Nat :
        /\ s = place
        /\ entries \in Seq(Entries) /\ Len(entries) \in Nat /\ L <= Len(entries)
        /\ s \in 1 .. Len(entries) /\ entries[s].v = n
        /\ \A j \in 1 .. L : entries[j] = define_stack[j]
        /\ sym_define[n] # 0 => Len(entries) = L /\ s = sym_define[n]
        /\ sym_define[n] = 0 => Len(entries) = L + 1 /\ s = L + 1 /\ entries[s].d = NoBody
  <2>1. CASE sym_define[n] # 0
    <3>1. entries = define_stack /\ place = sym_define[n]
      BY <2>1
    <3>2. sym_define[n] \in 1 .. L /\ define_stack[sym_define[n]].v = n
      BY <1>3, <2>1 DEF NoDangling
    <3>3. /\ define_stack \in Seq(Entries) /\ Len(define_stack) \in Nat /\ L <= Len(define_stack)
          /\ Len(define_stack) = L /\ sym_define[n] \in Nat
      BY <1>3 DEF TypeInv
    <3> HIDE DEF entries, place, L
    <3> QED
      BY <2>1, <3>1, <3>2, <3>3, Zenon
  <2>2. CASE sym_define[n] = 0
    <3>1. entries = Push(define_stack, n, NoBody) /\ place = Len(entries)
      BY <2>2
    <3> HIDE DEF entries, place
    <3>2. /\ entries \in Seq(Entries) /\ Len(entries) = L + 1
          /\ \A j \in 1 .. L : entries[j] = define_stack[j]
          /\ entries[L + 1] = [v |-> n, d |-> NoBody, boundary |-> FALSE]
      BY <1>3, <3>1, PushFacts
    <3> QED
      BY <1>3, <2>2, <3>1, <3>2
  <2> QED
    BY <2>1, <2>2
<1>5. /\ define_stack' = [entries EXCEPT ![s].boundary = TRUE]
      /\ sym_define' = [sym_define EXCEPT ![n] = IF entries[s].d = NoBody THEN 0 ELSE s]
      /\ kept' = [kept EXCEPT ![n] = Append(@, meant[n])]
      /\ unclear \subseteq unclear'
      /\ n \notin unclear' =>
           n \notin unclear /\ ~ entries[s].boundary /\ ~ (n \in Builtins /\ sym_define[n] # 0)
  BY <1>1, <1>4 DEF define_find
<1> HIDE DEF entries, place
<1>6. /\ define_stack' \in Seq(Entries) /\ Len(define_stack') = Len(entries)
      /\ \A j \in 1 .. Len(entries) :
           /\ define_stack'[j].v = entries[j].v /\ define_stack'[j].d = entries[j].d
           /\ j # s => define_stack'[j].boundary = entries[j].boundary
      /\ define_stack'[s].boundary
  <2> DEFINE e == [entries[s] EXCEPT !.boundary = TRUE]
  <2>1. entries \in Seq(Entries) /\ s \in 1 .. Len(entries) /\ entries[s] \in Entries
    BY <1>4
  <2>2. e \in Entries /\ e.v = entries[s].v /\ e.d = entries[s].d /\ e.boundary
    BY <2>1, MarkChanged
  <2>3. define_stack' = [entries EXCEPT ![s] = e]
    BY <1>5
  <2> HIDE DEF e
  <2> QED
    BY <2>1, <2>2, <2>3, EntryReplaced
<1>7. TypeInv'
  <2>1. meant[n] \in Meanings /\ kept[n] \in Seq(Meanings)
    BY <1>3 DEF TypeInv
  <2>2. Append(kept[n], meant[n]) \in Seq(Meanings)
    BY <2>1
  <2>3. kept' \in [Names -> Seq(Meanings)]
    BY <1>5, <1>3, <2>2 DEF TypeInv
  <2>4. s \in Nat
    BY <1>4
  <2>5. sym_define' \in [Names -> Nat]
    BY <1>5, <1>3, <2>4 DEF TypeInv
  <2>6. define_start <= Len(define_stack')
    BY <1>3, <1>4, <1>6 DEF TypeInv
  <2> QED
    BY <1>2, <1>3, <1>6, <2>3, <2>5, <2>6 DEF TypeInv
<1>8. NoDangling'
  <2> SUFFICES ASSUME NEW m \in Names, sym_define'[m] # 0
               PROVE  sym_define'[m] \in DOMAIN define_stack' /\ define_stack'[sym_define'[m]].v = m
    BY DEF NoDangling
  <2>1. DOMAIN define_stack' = 1 .. Len(entries)
    BY <1>6
  <2>2. CASE m = n
    <3>1. sym_define'[m] = s
      BY <1>5, <1>3, <2>2 DEF TypeInv
    <3> QED
      BY <1>4, <1>6, <2>1, <2>2, <3>1
  <2>3. CASE m # n
    <3>1. sym_define'[m] = sym_define[m]
      BY <1>5, <1>3, <2>3 DEF TypeInv
    <3>2. sym_define[m] \in 1 .. L /\ define_stack[sym_define[m]].v = m
      BY <1>3, <3>1 DEF NoDangling
    <3>3. define_stack'[sym_define[m]].v = entries[sym_define[m]].v
      BY <1>3, <1>4, <1>6, <3>2
    <3> QED
      BY <1>3, <1>4, <2>1, <3>1, <3>2, <3>3
  <2> QED
    BY <2>2, <2>3
<1>9. \A m \in Names : Of(m)' = Of(m) /\ Of(m) \subseteq 1 .. define_start /\ Of(m) \subseteq 1 .. L
  BY <1>2, <1>3, <1>4, <1>6 DEF Of, base, TypeInv
<1>10. BodyInv'
  <2> SUFFICES ASSUME NEW m \in Names \ Builtins
               PROVE  /\ sym_define'[m] # 0 => define_stack'[sym_define'[m]].d # NoBody
                      /\ \A j \in Of(m)' : define_stack'[j].d # NoBody
    BY DEF BodyInv
  <2>1. \A j \in 1 .. L : define_stack'[j].d = define_stack[j].d
    BY <1>3, <1>4, <1>6
  <2>2. \A j \in Of(m)' : define_stack'[j].d # NoBody
    BY <1>3, <1>9, <2>1 DEF BodyInv
  <2>3. CASE m = n
    <3>1. sym_define'[m] # 0 => sym_define'[m] = s /\ entries[s].d # NoBody
      BY <1>3, <1>5, <2>3 DEF TypeInv
    <3>2. define_stack'[s].d = entries[s].d
      BY <1>4, <1>6
    <3> QED
      BY <2>2, <3>1, <3>2
  <2>4. CASE m # n
    <3>1. sym_define'[m] = sym_define[m]
      BY <1>5, <1>3, <2>4 DEF TypeInv
    <3>2. sym_define[m] # 0 => sym_define[m] \in 1 .. L /\ define_stack[sym_define[m]].d # NoBody
      BY <1>3 DEF NoDangling, BodyInv
    <3> QED
      BY <2>1, <2>2, <3>1, <3>2
  <2> QED
    BY <2>3, <2>4
<1>11. ASSUME NEW m \in Names \ unclear'
       PROVE  (OptionOf(m) /\ MarksOf(m) /\ Meaning(m) = meant[m])'
  <2>1. m \notin unclear /\ OptionOf(m) /\ MarksOf(m) /\ Meaning(m) = meant[m]
    BY <1>5, <1>11 DEF IInv
  <2>2. CASE m # n
    <3>1. sym_define'[m] = sym_define[m] /\ kept'[m] = kept[m]
      BY <1>5, <1>3, <2>2 DEF TypeInv
    <3>2. L <= Len(define_stack')
      BY <1>3, <1>4, <1>6
    <3>3. \A j \in 1 .. L :
            /\ define_stack'[j].v = define_stack[j].v /\ define_stack'[j].d = define_stack[j].d
            /\ define_stack[j].v = m => define_stack'[j].boundary = define_stack[j].boundary
      BY <1>3, <1>4, <1>6, <2>2
    <3>4. \A j \in 1 .. Len(define_stack') : j > L => define_stack'[j].v # m
      BY <1>3, <1>4, <1>6, <2>2
    <3> QED
      BY <1>2, <1>3, <1>7, <2>1, <3>1, <3>2, <3>3, <3>4, OtherName
  <2>3. CASE m = n
    <3>1. ~ entries[s].boundary /\ (sym_define[n] # 0 => n \notin Builtins)
      BY <1>5, <1>11, <2>3
    <3>2. sym_define'[n] = sym_define[n]
      BY <1>5, <1>3, <1>4, <2>3, <3>1 DEF BodyInv, TypeInv
    <3>3. Marked(n)' = Marked(n) \cup {s} /\ s \notin Marked(n) /\ Marked(n) \subseteq 1 .. L
      <4>1. Marked(n) = { j \in 1 .. L : define_stack[j].v = n /\ define_stack[j].boundary }
        BY <1>3 DEF Marked
      <4>2. Marked(n)' = { j \in 1 .. Len(entries) : define_stack'[j].v = n /\ define_stack'[j].boundary }
        BY <1>6 DEF Marked
      <4>3. \A j \in 1 .. Len(entries) : j \in Marked(n)' <=> j \in Marked(n) \/ j = s
        BY <1>3, <1>4, <1>6, <4>1, <4>2
      <4> QED
        BY <1>3, <1>4, <3>1, <4>1, <4>2, <4>3
    <3>4. \A j \in Marked(n) : j < s
      BY <1>3, <1>4, <2>1, <2>3, <3>3 DEF MarksOf, Newest
    <3>5. \A j \in Marked(n) : Value(j)' = Value(j)
      BY <1>3, <1>4, <1>6, <3>3 DEF Value
    <3>6. Value(s)' = meant[n] /\ Meaning(n)' = Meaning(n)
      <4>1. define_stack'[s].d = entries[s].d
        BY <1>4, <1>6
      <4>2. CASE sym_define[n] # 0
        <5>1. s = sym_define[n] /\ entries[s] = define_stack[s]
          BY <1>3, <1>4, <4>2 DEF NoDangling
        <5>2. define_stack[s].d # NoBody
          BY <1>3, <3>1, <4>2, <5>1 DEF BodyInv
        <5> QED
          BY <2>1, <2>3, <3>2, <4>1, <4>2, <5>1, <5>2 DEF Value, Meaning
      <4>3. CASE sym_define[n] = 0
        <5>1. entries[s].d = NoBody
          BY <1>4, <4>3
        <5> QED
          BY <2>1, <2>3, <3>2, <4>1, <4>3, <5>1 DEF Value, Meaning
      <4> QED
        BY <4>2, <4>3
    <3>7. MarksOf(n)'
      <4>1. PICK ms \in Seq(Nat) : Marks(n, ms)
        BY <2>1, <2>3 DEF MarksOf
      <4>2. kept'[n] = Append(kept[n], meant[n]) /\ kept[n] \in Seq(Meanings) /\ meant[n] \in Meanings
        BY <1>5, <1>3 DEF TypeInv
      <4>3. s \in Nat
        BY <1>4
      <4>4. Append(ms, s) \in Seq(Nat) /\ Marks(n, Append(ms, s))'
        BY <3>3, <3>4, <3>5, <3>6, <4>1, <4>2, <4>3, AnotherMark
      <4>5. sym_define'[n] # 0 => Newest(sym_define'[n], Marked(n)')
        BY <1>4, <2>1, <2>3, <3>2, <3>3 DEF MarksOf, Newest
      <4> QED
        BY <1>2, <4>4, <4>5 DEF MarksOf
    <3>8. OptionOf(n)'
      <4>1. \A j \in Of(n) : j = s => j = sym_define[n]
        BY <1>3, <1>4, <1>9
      <4>2. \A j \in Of(n) : define_stack'[j].d = define_stack[j].d
        BY <1>3, <1>4, <1>6, <1>9
      <4> QED
        BY <1>2, <1>9, <2>1, <2>3, <3>2, <3>3, <4>1, <4>2 DEF OptionOf
    <3> QED
      BY <1>2, <2>1, <2>3, <3>6, <3>7, <3>8
  <2> QED
    BY <2>2, <2>3
<1> QED
  BY <1>7, <1>8, <1>10, <1>11 DEF IInv

-----------------------------------------------------------------------------
(* The newest mark is taken off again.                                     *)
LEMMA MarkTaken ==
  ASSUME NEW n \in Names, NEW ms \in Seq(Nat), Marks(n, ms), NEW s \in Marked(n),
         Newest(s, Marked(n)), kept[n] \in Seq(Meanings),
         Marked(n)' = Marked(n) \ {s}, \A j \in Marked(n) : Value(j)' = Value(j),
         kept'[n] = Front(kept[n])
  PROVE  /\ kept[n] # << >> /\ Last(kept[n]) = Value(s) /\ Last(kept[n]) \in Meanings
         /\ \E less \in Seq(Nat) : Marks(n, less)'
<1> DEFINE K == Len(ms)
           less == SubSeq(ms, 1, K - 1)
<1>1. K \in Nat /\ K = Len(kept[n])
  BY DEF Marks
<1>2. \A k \in 1 .. K : ms[k] \in Marked(n) /\ kept[n][k] = Value(ms[k])
  BY DEF Marks
<1>3. \A k, m \in 1 .. K : k < m => ms[k] < ms[m]
  BY DEF Marks
<1>4. \A j \in Marked(n) : \E k \in 1 .. K : ms[k] = j
  BY DEF Marks
<1>5. \A k \in 1 .. K : ms[k] \in Nat
  OBVIOUS
<1>6. PICK p \in 1 .. K : ms[p] = s
  BY <1>4
<1>7. K \in 1 .. K /\ ms[K] = s
  <2>1. K \in 1 .. K
    BY <1>1, <1>6
  <2>2. ms[K] <= s
    BY <1>2, <2>1 DEF Newest
  <2>3. p < K => s < ms[K]
    BY <1>3, <1>6, <2>1
  <2>4. s \in Nat /\ ms[K] \in Nat
    BY <1>5, <1>6, <2>1
  <2>5. ~ (p < K)
    BY <2>2, <2>3, <2>4
  <2> QED
    BY <1>1, <1>6, <2>1, <2>5
<1>8. less \in Seq(Nat) /\ Len(less) = K - 1 /\ \A k \in 1 .. K - 1 : less[k] = ms[k]
  BY <1>1, <1>7
<1>9. kept'[n] = SubSeq(kept[n], 1, K - 1)
  BY <1>1 DEF Front
<1>10. Len(kept'[n]) = K - 1 /\ \A k \in 1 .. K - 1 : kept'[n][k] = kept[n][k]
  BY <1>1, <1>7, <1>9
<1> HIDE DEF less, K
<1>11. ASSUME NEW k \in 1 .. K - 1
       PROVE  less[k] \in Marked(n)' /\ kept'[n][k] = Value(less[k])'
  <2>1. k \in 1 .. K /\ k < K /\ less[k] = ms[k] /\ ms[k] \in Marked(n) /\ kept'[n][k] = Value(ms[k])
    BY <1>1, <1>2, <1>8, <1>10
  <2>2. ms[k] < ms[K] /\ ms[k] \in Nat
    BY <1>3, <1>5, <1>7, <2>1
  <2>3. ms[k] # s
    BY <1>5, <1>7, <2>2
  <2> QED
    BY <2>1, <2>3
<1>12. ASSUME NEW k \in 1 .. K - 1, NEW m \in 1 .. K - 1, k < m
       PROVE  less[k] < less[m]
  <2>1. k \in 1 .. K /\ m \in 1 .. K
    BY <1>1
  <2>2. ms[k] < ms[m]
    BY <1>3, <1>12, <2>1
  <2> QED
    BY <1>8, <2>2
<1>13. ASSUME NEW j \in Marked(n)'
       PROVE  \E k \in 1 .. K - 1 : less[k] = j
  <2>1. PICK k \in 1 .. K : ms[k] = j
    BY <1>4
  <2>2. k # K
    BY <1>7, <2>1
  <2>3. k \in 1 .. K - 1 /\ less[k] = j
    BY <1>1, <1>8, <2>1, <2>2
  <2> QED
    BY <2>3
<1>14. Marks(n, less)'
  BY <1>8, <1>10, <1>11, <1>12, <1>13 DEF Marks
<1>15. kept[n] # << >> /\ Last(kept[n]) = Value(s) /\ Last(kept[n]) \in Meanings
  BY <1>1, <1>2, <1>7 DEF Last
<1> QED
  BY <1>8, <1>14, <1>15

(* #pragma pop_macro                                                       *)
LEMMA PopMacroStep ==
  ASSUME Assumptions, IInv, PopMacro
  PROVE  IInv'
<1> DEFINE L == Len(define_stack)
<1>1. PICK n \in Names : PopDoes(n) /\ PopMeant(n)
  BY DEF PopMacro
<1>2. /\ phase = "file" /\ phase' = "file" /\ define_start' = define_start
      /\ options' = options /\ unclear' = unclear
  BY DEF PopMacro
<1>3. TypeInv /\ NoDangling /\ BodyInv /\ L \in Nat /\ DOMAIN define_stack = 1 .. L
  BY DEF IInv, TypeInv
<1>4. /\ \A m \in Names \ {n} : kept'[m] = kept[m] /\ meant'[m] = meant[m]
      /\ kept' \in [Names -> Seq(Meanings)] /\ meant' \in [Names -> Meanings]
  <2>1. kept \in [Names -> Seq(Meanings)] /\ meant \in [Names -> Meanings]
    BY <1>3 DEF TypeInv
  <2>2. CASE kept[n] = << >>
    BY <1>1, <2>1, <2>2 DEF PopMeant
  <2>3. CASE kept[n] # << >>
    <3>1. kept' = [kept EXCEPT ![n] = Front(kept[n])] /\ meant' = [meant EXCEPT ![n] = Last(kept[n])]
      BY <1>1, <2>3 DEF PopMeant
    <3>2. kept[n] \in Seq(Meanings) /\ Len(kept[n]) \in Nat \ {0}
      BY <2>1, <2>3
    <3>3. Front(kept[n]) \in Seq(Meanings) /\ Last(kept[n]) \in Meanings
      BY <3>2 DEF Front, Last
    <3> QED
      BY <2>1, <3>1, <3>3
  <2> QED
    BY <2>2, <2>3
<1>5. CASE Marked(n) = {}
  <2>1. define_stack' = define_stack /\ sym_define' = sym_define
    BY <1>1, <1>5 DEF PopDoes, tables
  <2>2. TypeInv'
    BY <1>2, <1>3, <1>4, <2>1 DEF TypeInv
  <2>3. NoDangling' /\ BodyInv'
    BY <1>2, <1>3, <2>1 DEF NoDangling, BodyInv, Of, base
  <2>4. ASSUME NEW m \in Names \ unclear
        PROVE  (OptionOf(m) /\ MarksOf(m) /\ Meaning(m) = meant[m])'
    <3>1. OptionOf(m) /\ MarksOf(m) /\ Meaning(m) = meant[m]
      BY <2>4 DEF IInv
    <3>2. kept'[m] = kept[m] /\ meant'[m] = meant[m]
      <4>1. CASE m = n
        <5>1. PICK ms \in Seq(Nat) : Marks(n, ms)
          BY <3>1, <4>1 DEF MarksOf
        <5>2. Len(kept[n]) = 0 /\ kept[n] \in Seq(Meanings)
          BY <1>3, <1>5, <5>1 DEF Marks, TypeInv
        <5>3. kept[n] = << >>
          BY <5>2
        <5> QED
          BY <1>1, <4>1, <5>3 DEF PopMeant
      <4>2. CASE m # n
        BY <1>4, <4>2
      <4> QED
        BY <4>1, <4>2
    <3> QED
      BY <1>2, <1>3, <2>1, <2>2, <3>1, <3>2, OtherName
  <2> QED
    BY <1>2, <2>2, <2>3, <2>4 DEF IInv
<1>6. CASE Marked(n) # {}
  <2>1. Marked(n) \subseteq 1 .. L
    BY <1>3 DEF Marked
  <2>2. \E j \in Marked(n) : \A m \in Marked(n) : m <= j
    BY <1>3, <1>6, <2>1, NewestExists DEF Newest
  <2>3. PICK s \in 1 .. L :
          /\ s \in Marked(n) /\ Newest(s, Marked(n))
          /\ define_stack' = [define_stack EXCEPT ![s].boundary = FALSE]
          /\ sym_define' = [sym_define EXCEPT ![n] = IF define_stack[s].d = NoBody THEN 0 ELSE s]
    <3> DEFINE last == CHOOSE j \in Marked(n) : \A m \in Marked(n) : m <= j
    <3>1. last \in Marked(n) /\ \A m \in Marked(n) : m <= last
      BY <2>2
    <3>2. /\ define_stack' = [define_stack EXCEPT ![last].boundary = FALSE]
          /\ sym_define' = [sym_define EXCEPT ![n] = IF define_stack[last].d = NoBody THEN 0 ELSE last]
      BY <1>1, <1>6 DEF PopDoes
    <3>3. Newest(last, Marked(n)) /\ last \in 1 .. L
      BY <2>1, <3>1 DEF Newest
    <3> HIDE DEF last
    <3> QED
      BY <3>1, <3>2, <3>3
  <2>4. /\ define_stack' \in Seq(Entries) /\ Len(define_stack') = L
        /\ \A j \in 1 .. L :
             /\ define_stack'[j].v = define_stack[j].v /\ define_stack'[j].d = define_stack[j].d
             /\ j # s => define_stack'[j].boundary = define_stack[j].boundary
        /\ ~ define_stack'[s].boundary
    <3> DEFINE e == [define_stack[s] EXCEPT !.boundary = FALSE]
    <3>1. define_stack \in Seq(Entries) /\ define_stack[s] \in Entries
      BY <1>3, <2>3 DEF TypeInv
    <3>2. e \in Entries /\ e.v = define_stack[s].v /\ e.d = define_stack[s].d /\ ~ e.boundary
      BY <3>1, MarkChanged
    <3>3. define_stack' = [define_stack EXCEPT ![s] = e]
      BY <2>3
    <3> HIDE DEF e
    <3> QED
      BY <3>1, <3>2, <3>3, EntryReplaced
  <2>5. TypeInv'
    <3>1. sym_define' \in [Names -> Nat]
      BY <1>3, <2>3 DEF TypeInv
    <3> QED
      BY <1>2, <1>3, <1>4, <2>4, <3>1 DEF TypeInv
  <2>6. define_stack[s].v = n
    BY <2>3 DEF Marked
  <2>7. \A m \in Names : sym_define'[m] = IF m # n THEN sym_define[m]
                                          ELSE IF define_stack[s].d = NoBody THEN 0 ELSE s
    BY <1>3, <2>3 DEF TypeInv
  <2>8. NoDangling'
    <3>1. DOMAIN define_stack' = 1 .. L
      BY <2>4
    <3>2. ASSUME NEW m \in Names, sym_define'[m] # 0
          PROVE  sym_define'[m] \in 1 .. L /\ define_stack[sym_define'[m]].v = m
      BY <1>3, <2>3, <2>6, <2>7, <3>2 DEF NoDangling
    <3> QED
      BY <2>4, <3>1, <3>2 DEF NoDangling
  <2>9. \A m \in Names : Of(m)' = Of(m) /\ Of(m) \subseteq 1 .. L
    BY <1>2, <1>3, <2>4 DEF Of, base, TypeInv
  <2>10. BodyInv'
    <3> SUFFICES ASSUME NEW m \in Names \ Builtins
                 PROVE  /\ sym_define'[m] # 0 => define_stack'[sym_define'[m]].d # NoBody
                        /\ \A j \in Of(m)' : define_stack'[j].d # NoBody
      BY DEF BodyInv
    <3>1. \A j \in Of(m)' : define_stack'[j].d # NoBody
      BY <1>3, <2>4, <2>9 DEF BodyInv
    <3>2. sym_define'[m] # 0 => sym_define'[m] \in 1 .. L /\ define_stack[sym_define'[m]].d # NoBody
      BY <1>3, <2>3, <2>7 DEF NoDangling, BodyInv
    <3> QED
      BY <2>4, <3>1, <3>2
  <2>11. ASSUME NEW m \in Names \ unclear
         PROVE  (OptionOf(m) /\ MarksOf(m) /\ Meaning(m) = meant[m])'
    <3>1. OptionOf(m) /\ MarksOf(m) /\ Meaning(m) = meant[m]
      BY <2>11 DEF IInv
    <3>2. CASE m # n
      <4>1. sym_define'[m] = sym_define[m] /\ kept'[m] = kept[m] /\ meant'[m] = meant[m]
        BY <1>4, <2>7, <3>2
      <4>2. \A j \in 1 .. L : define_stack[j].v = m => define_stack'[j].boundary = define_stack[j].boundary
        BY <2>4, <2>6, <3>2
      <4>3. \A j \in 1 .. Len(define_stack') : j > L => define_stack'[j].v # m
        BY <1>3, <2>4
      <4> QED
        BY <1>2, <1>3, <2>4, <2>5, <3>1, <4>1, <4>2, <4>3, OtherName
    <3>3. CASE m = n
      <4>1. \A j \in Marked(n) : Value(j)' = Value(j)
        BY <2>1, <2>4 DEF Value
      <4>2. Marked(n)' = Marked(n) \ {s}
        <5>1. Marked(n) = { j \in 1 .. L : define_stack[j].v = n /\ define_stack[j].boundary }
          BY <1>3 DEF Marked
        <5>2. Marked(n)' = { j \in 1 .. L : define_stack'[j].v = n /\ define_stack'[j].boundary }
          BY <2>4 DEF Marked
        <5> QED
          BY <2>4, <5>1, <5>2
      <4>3. PICK ms \in Seq(Nat) : Marks(n, ms)
        BY <3>1, <3>3 DEF MarksOf
      <4>4. kept[n] # << >>
        <5>1. PICK k \in 1 .. Len(ms) : ms[k] = s
          BY <2>3, <4>3 DEF Marks
        <5>2. Len(ms) = Len(kept[n]) /\ Len(ms) \in Nat
          BY <4>3 DEF Marks
        <5> QED
          BY <5>1, <5>2
      <4>5. kept'[n] = Front(kept[n]) /\ meant'[n] = Last(kept[n]) /\ kept[n] \in Seq(Meanings)
        BY <1>1, <1>3, <4>4 DEF PopMeant, TypeInv
      <4>6. meant'[n] = Value(s) /\ \E less \in Seq(Nat) : Marks(n, less)'
        BY <2>3, <4>1, <4>2, <4>3, <4>5, MarkTaken
      <4>7. Meaning(n)' = meant'[n]
        BY <2>4, <2>7, <4>6, <2>3 DEF Meaning, Value
      <4>8. MarksOf(n)'
        <5>1. sym_define'[n] # 0 => Newest(sym_define'[n], Marked(n)')
          BY <2>3, <2>7, <4>2 DEF Newest
        <5> QED
          BY <1>2, <4>6, <5>1 DEF MarksOf
      <4>9. OptionOf(n)'
        <5>1. \A j \in Of(n) : define_stack'[j].d = define_stack[j].d
          BY <2>4, <2>9
        <5>2. \A j \in Of(n) : j = sym_define'[n] \/ j \in Marked(n)' => j \in Marked(n)
          BY <1>3, <2>3, <2>7, <2>9, <4>2
        <5> QED
          BY <1>2, <2>9, <3>1, <3>3, <5>1, <5>2 DEF OptionOf
      <4> QED
        BY <3>3, <4>7, <4>8, <4>9
    <3> QED
      BY <3>2, <3>3
  <2> QED
    BY <1>2, <2>5, <2>8, <2>10, <2>11 DEF IInv
<1> QED
  BY <1>5, <1>6

-----------------------------------------------------------------------------
(* The end of a file, free_defines: what is in force afterwards is among   *)
(* the entries that stay, and is the newest of its name.                   *)
LEMMA FreeDefines ==
  ASSUME IInv, phase = "file", free_defines(define_start)
  PROVE  /\ define_stack' \in Seq(Entries) /\ Len(define_stack') = define_start
         /\ \A j \in 1 .. define_start : define_stack'[j] = define_stack[j]
         /\ sym_define' \in [Names -> Nat]
         /\ \A n \in Names :
              /\ sym_define'[n] = 0 => Of(n) = {}
              /\ sym_define'[n] # 0 => sym_define'[n] \in Of(n)
              /\ sym_define'[n] # 0 /\ OptionOf(n) => Newest(sym_define'[n], Of(n))
<1> DEFINE b == define_start
           below(n) == { j \in 1 .. b : define_stack[j].v = n }
           newest(n) == CHOOSE j \in below(n) : \A m \in below(n) : m <= j
           kept_one(n) == IF n \in Freed(b) THEN 0 ELSE sym_define[n]
<1>1. /\ TypeInv /\ NoDangling /\ DOMAIN define_stack = 1 .. Len(define_stack)
      /\ Len(define_stack) \in Nat /\ b \in 0 .. Len(define_stack)
  BY DEF IInv, TypeInv
<1>2. \A n : Of(n) = below(n)
  BY DEF Of, base
<1>3. define_stack' = SubSeq(define_stack, 1, b)
  BY DEF free_defines
<1>4. /\ define_stack' \in Seq(Entries) /\ Len(define_stack') = b
      /\ \A j \in 1 .. b : define_stack'[j] = define_stack[j]
  BY <1>1, <1>3 DEF TypeInv
<1>5. sym_define' = [n \in Names |->
        IF kept_one(n) = 0 /\ below(n) # {} THEN newest(n) ELSE kept_one(n)]
  BY Zenon DEF free_defines
<1>6. ASSUME NEW n \in Names
      PROVE  /\ sym_define'[n] \in Nat
             /\ sym_define'[n] = 0 => Of(n) = {}
             /\ sym_define'[n] # 0 => sym_define'[n] \in Of(n)
             /\ sym_define'[n] # 0 /\ OptionOf(n) => Newest(sym_define'[n], Of(n))
  <2>1. Of(n) = below(n) /\ Of(n) \subseteq 1 .. b
    BY <1>2
  <2>2. CASE kept_one(n) = 0 /\ Of(n) # {}
    <3>1. \E j \in below(n) : \A m \in below(n) : m <= j
      <4>1. below(n) \in SUBSET (1 .. b) /\ below(n) # {} /\ b \in Nat
        BY <1>1, <2>1, <2>2
      <4> HIDE DEF below, b
      <4> QED
        BY <4>1, NewestExists DEF Newest
    <3>2. newest(n) \in Of(n) /\ \A m \in Of(n) : m <= newest(n)
      BY <2>1, <3>1
    <3>3. sym_define'[n] = newest(n)
      BY <1>5, <2>1, <2>2
    <3> HIDE DEF newest
    <3>4. newest(n) \in Nat \ {0}
      BY <1>1, <2>1, <3>2
    <3> QED
      BY <3>2, <3>3, <3>4 DEF Newest
  <2>3. CASE ~ (kept_one(n) = 0 /\ Of(n) # {})
    <3>1. sym_define'[n] = kept_one(n) /\ sym_define[n] \in Nat
      BY <1>1, <1>5, <2>1, <2>3 DEF TypeInv
    <3>2. kept_one(n) # 0 => kept_one(n) = sym_define[n] /\ n \notin Freed(b)
      OBVIOUS
    <3> HIDE DEF kept_one
    <3>3. ASSUME kept_one(n) # 0
          PROVE  sym_define[n] \in Of(n)
      <4>1. sym_define[n] \in 1 .. Len(define_stack) /\ define_stack[sym_define[n]].v = n
        BY <1>1, <3>2, <3>3 DEF NoDangling
      <4>2. sym_define[n] \notin b + 1 .. Len(define_stack)
        BY <3>2, <3>3, <4>1 DEF Freed
      <4> QED
        BY <1>1, <1>2, <4>1, <4>2
    <3>4. kept_one(n) \in Nat
      BY <3>1, <3>2
    <3> QED
      BY <2>3, <3>1, <3>2, <3>3, <3>4 DEF OptionOf
  <2> QED
    BY <2>2, <2>3
<1>7. sym_define' \in [Names -> Nat]
  <2>1. sym_define' = [n \in Names |-> sym_define'[n]]
    BY <1>5
  <2> QED
    BY <1>6, <2>1
<1> QED
  BY <1>4, <1>6, <1>7

LEMMA EndFileStep ==
  ASSUME Assumptions, IInv, EndFile
  PROVE  IInv'
<1>1. /\ phase = "file" /\ phase' = "options" /\ define_start' = define_start
      /\ meant' = options /\ options' = options /\ kept' = [n \in Names |-> << >>]
      /\ unclear' = unclear \cup { define_stack'[j].v : j \in
                                   { m \in DOMAIN define_stack' : define_stack'[m].boundary } }
  BY DEF EndFile
<1>2. /\ define_stack' \in Seq(Entries) /\ Len(define_stack') = define_start
      /\ \A j \in 1 .. define_start : define_stack'[j] = define_stack[j]
      /\ sym_define' \in [Names -> Nat]
      /\ \A n \in Names :
           /\ sym_define'[n] = 0 => Of(n) = {}
           /\ sym_define'[n] # 0 => sym_define'[n] \in Of(n)
           /\ sym_define'[n] # 0 /\ OptionOf(n) => Newest(sym_define'[n], Of(n))
  BY FreeDefines DEF EndFile
<1>3. TypeInv /\ BodyInv /\ define_start \in Nat /\ DOMAIN define_stack' = 1 .. define_start
  BY <1>2 DEF IInv, TypeInv
<1>4. TypeInv'
  <2>1. kept' \in [Names -> Seq(Meanings)]
    BY <1>1
  <2> QED
    BY <1>1, <1>2, <1>3, <2>1 DEF TypeInv
<1>5. ASSUME NEW n \in Names PROVE Of(n)' = Of(n) /\ Of(n) \subseteq 1 .. define_start
  <2>1. base = define_start /\ base' = define_start
    BY <1>1, <1>2, <1>3 DEF base
  <2>2. \A j \in 1 .. define_start : define_stack'[j].v = define_stack[j].v
    BY <1>2
  <2>3. /\ Of(n) = { j \in 1 .. define_start : define_stack[j].v = n }
        /\ Of(n)' = { j \in 1 .. define_start : define_stack'[j].v = n }
    BY <2>1 DEF Of
  <2>4. \A j : j \in Of(n) <=> j \in Of(n)'
    BY <2>2, <2>3
  <2> QED
    BY <2>3, <2>4
<1>6. \A n \in Names : sym_define'[n] # 0 => define_stack'[sym_define'[n]].v = n
  BY <1>1, <1>2, <1>3 DEF Of, base
<1>7. NoDangling'
  BY <1>2, <1>3, <1>5, <1>6 DEF NoDangling
<1>8. BodyInv'
  <2> SUFFICES ASSUME NEW n \in Names \ Builtins
               PROVE  /\ sym_define'[n] # 0 => define_stack'[sym_define'[n]].d # NoBody
                      /\ \A j \in Of(n)' : define_stack'[j].d # NoBody
    BY DEF BodyInv
  <2>1. \A j \in Of(n) : define_stack'[j].d # NoBody
    BY <1>2, <1>3, <1>5 DEF BodyInv
  <2> QED
    BY <1>2, <1>5, <2>1
<1>9. ASSUME NEW n \in Names \ unclear'
      PROVE  (OptionOf(n) /\ MarksOf(n) /\ Meaning(n) = meant[n])'
  <2>1. n \notin unclear /\ OptionOf(n)
    BY <1>1, <1>9 DEF IInv
  <2>2. Marked(n)' = {}
    <3>1. \A j \in DOMAIN define_stack' : define_stack'[j].boundary => define_stack'[j].v \in unclear'
      BY <1>1
    <3>2. Marked(n)' = { j \in DOMAIN define_stack' : define_stack'[j].v = n /\ define_stack'[j].boundary }
      BY DEF Marked
    <3> QED
      BY <1>9, <3>1, <3>2
  <2>3. \A j \in Of(n) : define_stack'[j] = define_stack[j]
    BY <1>2, <1>5
  <2>4. OptionOf(n)'
    <3>1. \A j \in Of(n) : j = sym_define'[n] => Newest(j, Of(n))
      BY <1>2, <1>3, <1>5, <2>1
    <3>2. Of(n) # {} => sym_define'[n] # 0
      BY <1>2
    <3> QED
      BY <1>1, <1>5, <2>1, <2>2, <2>3, <3>1, <3>2 DEF OptionOf
  <2>5. MarksOf(n)'
    <3>1. kept'[n] = << >> /\ << >> \in Seq(Nat)
      BY <1>1
    <3>2. Marks(n, << >>)'
      BY <2>2, <3>1 DEF Marks
    <3> QED
      BY <2>2, <3>1, <3>2 DEF MarksOf, Newest
  <2>6. Meaning(n)' = meant'[n]
    <3>1. CASE sym_define'[n] = 0
      BY <1>1, <1>2, <2>1, <3>1 DEF Meaning, OptionOf
    <3>2. CASE sym_define'[n] # 0
      <4>1. sym_define'[n] \in Of(n) /\ Newest(sym_define'[n], Of(n))
        BY <1>2, <2>1, <3>2
      <4>2. options[n] = define_stack[sym_define'[n]].d
        BY <2>1, <4>1 DEF OptionOf
      <4> QED
        BY <1>1, <2>3, <3>2, <4>1, <4>2 DEF Meaning
    <3> QED
      BY <3>1, <3>2
  <2> QED
    BY <2>4, <2>5, <2>6
<1> QED
  BY <1>4, <1>7, <1>8, <1>9 DEF IInv

-----------------------------------------------------------------------------

LEMMA StutterStep ==
  ASSUME IInv, UNCHANGED vars
  PROVE  IInv'
<1>1. UNCHANGED <<define_stack, sym_define, define_start, phase, options, meant, kept, unclear>>
  BY DEF vars, tables, history
<1>2. TypeInv' /\ NoDangling' /\ BodyInv'
  BY <1>1 DEF IInv, TypeInv, NoDangling, BodyInv, Of, base
<1>3. \A n \in Names \ unclear : (OptionOf(n) /\ Meaning(n) = meant[n])'
  BY <1>1 DEF IInv, OptionOf, Of, base, Marked, Meaning
<1>4. ASSUME NEW n \in Names \ unclear
      PROVE  MarksOf(n)'
  <2>1. MarksOf(n) /\ Marked(n)' = Marked(n)
    BY <1>1, <1>4 DEF IInv, Marked
  <2>2. PICK ms \in Seq(Nat) : Marks(n, ms)
    BY <2>1 DEF MarksOf
  <2>3. Marks(n, ms)'
    BY <1>1, <2>1, <2>2 DEF Marks, Value
  <2> QED
    BY <1>1, <2>1, <2>3 DEF MarksOf
<1> QED
  BY <1>1, <1>2, <1>3, <1>4 DEF IInv

LEMMA NextIInv ==
  ASSUME Assumptions, IInv, [Next]_vars
  PROVE  IInv'
<1>1. CASE DefineOption
  BY <1>1, DefineOptionStep
<1>2. CASE UndefineOption
  BY <1>2, UndefineOptionStep
<1>3. CASE BeginFile
  BY <1>3, BeginFileStep
<1>4. CASE Define
  BY <1>4, DefineStep
<1>5. CASE Undef
  BY <1>5, UndefStep
<1>6. CASE PushMacro
  BY <1>6, PushMacroStep
<1>7. CASE PopMacro
  BY <1>7, PopMacroStep
<1>8. CASE EndFile
  BY <1>8, EndFileStep
<1>9. CASE UNCHANGED vars
  BY <1>9, StutterStep
<1> QED
  BY <1>1, <1>2, <1>3, <1>4, <1>5, <1>6, <1>7, <1>8, <1>9 DEF Next

LEMMA SpecIInv == ASSUME Assumptions PROVE Spec => []IInv
<1>1. Init => IInv
  BY InitIInv
<1>2. IInv /\ [Next]_vars => IInv'
  BY NextIInv
<1> QED
  BY <1>1, <1>2, PTL DEF Spec

-----------------------------------------------------------------------------

(* No identifier ever refers to an entry that free_defines freed, or to    *)
(* the entry of another macro, whatever was pushed, popped and undefined.  *)
THEOREM NeverDangling == ASSUME Assumptions PROVE Spec => []NoDangling
<1>1. IInv => NoDangling
  BY DEF IInv
<1> QED
  BY <1>1, SpecIInv, PTL

(* A macro means what options and directives say, through any nesting of   *)
(* push_macro and pop_macro and any number of files, unless it is unclear. *)
THEOREM MacrosAlwaysAsMeant == ASSUME Assumptions PROVE Spec => []MacrosAsMeant
<1>1. IInv => MacrosAsMeant
  BY DEF IInv, MacrosAsMeant
<1> QED
  BY <1>1, SpecIInv, PTL

-----------------------------------------------------------------------------
(* Include: the inductive invariant behind IncludedText and                *)
(* IncludeConditionals.                                                    *)

Args == Files \cup Macros \cup {NoMacro}
Frame == [file : Files, name : Files, pos : Nat \ {0}, base : Nat, guard : Args, saved : Args]
Reading == pc \in {"scan", "skip"}

IncludeTypes ==
  /\ text \in [Files -> Seq(I!Line)]
  /\ unit \in 1 .. Len(Units)
  /\ stack \in Seq(Frame) /\ Len(stack) # 0
  /\ ifs \in Seq(0 .. 3) /\ depth \in Nat

\* the conditionals of each open file lie above those of the files around it
BasesInv ==
  /\ Len(stack) <= MaxDepth + 1 /\ Len(ifs) <= MaxIfs
  /\ Reading => \A j \in 1 .. Len(stack) : stack[j].base <= Len(ifs)
  /\ \A j, k \in 1 .. Len(stack) : j <= k => stack[j].base <= stack[k].base

\* every branch that is open is true, but for the innermost while skipping
LiveIfs(m) == \A j \in 1 .. m : ifs[j] \in {1, 3}
BranchInv ==
  /\ pc = "scan" => LiveIfs(Len(ifs))
  /\ pc = "skip" => Len(ifs) # 0 /\ LiveIfs(Len(ifs) - 1)

IncludeInv == IncludeTypes /\ BasesInv /\ BranchInv

LEMMA IncludeSizes == MaxDepth \in Nat /\ MaxIfs \in Nat /\ Units \in Seq(Files) /\ Len(Units) # 0
BY IncludeAssumption DEF I!Assumptions

(* The line that is read is one of a file. *)
LEMMA LineIs ==
  ASSUME IncludeTypes, ~ I!AtEOF
  PROVE  I!line \in I!Line
<1>1. I!file \in Frame
  BY DEF IncludeTypes, I!file
<1>2. text[I!file.file] \in Seq(I!Line) /\ I!file.pos \in Nat \ {0}
  BY <1>1 DEF IncludeTypes, Frame
<1> QED
  BY <1>2 DEF I!AtEOF, I!line

(* Reading past a line changes what is noted of the file, not its base. *)
LEMMA PastKeeps ==
  ASSUME IncludeTypes, NEW f \in Frame, f.base = I!file.base
  PROVE  /\ I!Past(f) \in Seq(Frame) /\ Len(I!Past(f)) = Len(stack)
         /\ \A j \in 1 .. Len(stack) : I!Past(f)[j].base = stack[j].base
<1> DEFINE past == [f EXCEPT !.pos = @ + 1]
<1>1. past \in Frame /\ past.base = f.base
  BY DEF Frame
<1>2. /\ stack \in Seq(Frame) /\ Len(stack) \in Nat \ {0} /\ DOMAIN stack = 1 .. Len(stack)
      /\ Len(stack) \in 1 .. Len(stack)
  BY DEF IncludeTypes
<1> HIDE DEF past
<1>3. I!Past(f) = [stack EXCEPT ![Len(stack)] = past]
  BY DEF I!Past, past
<1>4. f.base = stack[Len(stack)].base
  BY DEF I!file
<1>5. I!Past(f) \in Seq(Frame) /\ Len(I!Past(f)) = Len(stack)
  BY <1>1, <1>2, <1>3
<1>6. \A j \in 1 .. Len(stack) : I!Past(f)[j] = IF j = Len(stack) THEN past ELSE stack[j]
  BY <1>2, <1>3
<1> QED
  BY <1>1, <1>4, <1>5, <1>6

LEMMA Bases == \A f \in Frame : f.base \in Nat
BY DEF Frame

LEMMA FileIs ==
  ASSUME IncludeTypes
  PROVE  /\ I!file \in Frame /\ I!file.base \in Nat /\ I!file = stack[Len(stack)]
         /\ \A j \in 1 .. Len(stack) : stack[j].base \in Nat
<1>1. stack \in Seq(Frame) /\ Len(stack) \in 1 .. Len(stack)
  BY DEF IncludeTypes
<1>2. \A j \in 1 .. Len(stack) : stack[j] \in Frame
  BY <1>1
<1> QED
  BY <1>1, <1>2, Bases DEF I!file

(* A step that reads on in the file.  The new conditional stack has to be  *)
(* live, as far as it must be.                                             *)
LEMMA ReadOn ==
  ASSUME IncludeInv, Reading, NEW f \in Frame, f.base = I!file.base, stack' = I!Past(f),
         UNCHANGED <<text, unit>>, depth' \in Nat,
         ifs' \in Seq(0 .. 3), I!file.base <= Len(ifs'), Len(ifs') <= MaxIfs,
         pc' \in {"scan", "skip"}, BranchInv'
  PROVE  IncludeInv'
<1>1. /\ stack' \in Seq(Frame) /\ Len(stack') = Len(stack)
      /\ \A j \in 1 .. Len(stack) : stack'[j].base = stack[j].base
  BY PastKeeps DEF IncludeInv
<1>2. IncludeTypes'
  BY <1>1 DEF IncludeInv, IncludeTypes
<1>3. \A j \in 1 .. Len(stack) : stack[j].base <= I!file.base /\ stack[j].base \in Nat
  BY FileIs DEF IncludeInv, IncludeTypes, BasesInv
<1>4. Len(ifs') \in Nat /\ I!file.base \in Nat
  BY FileIs DEF IncludeInv
<1>5. BasesInv'
  BY <1>1, <1>3, <1>4 DEF IncludeInv, BasesInv
<1> QED
  BY <1>2, <1>5 DEF IncludeInv

(* ... and one that leaves the conditionals alone. *)
LEMMA ReadOnly ==
  ASSUME IncludeInv, Reading, NEW f \in Frame, f.base = I!file.base, stack' = I!Past(f),
         UNCHANGED <<text, unit, ifs, pc>>, depth' \in Nat
  PROVE  IncludeInv'
<1>1. /\ ifs' \in Seq(0 .. 3) /\ I!file.base <= Len(ifs') /\ Len(ifs') <= MaxIfs
      /\ pc' \in {"scan", "skip"}
  BY DEF IncludeInv, IncludeTypes, BasesInv, Reading, I!file
<1>2. BranchInv'
  BY DEF IncludeInv, BranchInv, LiveIfs
<1> QED
  BY <1>1, <1>2, ReadOn

LEMMA FailStep ==
  ASSUME IncludeInv, NEW why \in {"error", "too deep", "too many", "done"}, I!Fail(why)
  PROVE  IncludeInv'
BY DEF IncludeInv, IncludeTypes, BasesInv, BranchInv, Reading, I!Fail

LEMMA PlainStep ==
  ASSUME IncludeInv,
         I!Blank \/ I!Text \/ I!Define \/ I!Once \/ I!LineDirective \/ I!IncludeSkipped \/ I!Skip
  PROVE  IncludeInv'
<1> DEFINE f == I!file
           named == [f EXCEPT !.name = I!line.arg]
<1>1. IncludeTypes /\ f \in Frame
  BY FileIs DEF IncludeInv
<1>2. CASE I!LineDirective
  <2>1. Reading /\ I!line \in I!Line /\ I!line.op \in {"include", "line"}
    BY <1>1, <1>2, LineIs DEF I!LineDirective, I!Scans, Reading
  <2>2. named \in Frame /\ named.base = f.base
    BY <1>1, <2>1 DEF I!Line, Frame
  <2>3. stack' = I!Past(named) /\ UNCHANGED <<text, unit, ifs, pc, depth>>
    BY <1>2 DEF I!LineDirective
  <2> HIDE DEF named
  <2> QED
    BY <1>1, <2>1, <2>2, <2>3, ReadOnly DEF IncludeTypes
<1>3. CASE I!Skip
  <2>1. Reading /\ stack' = I!Past(f) /\ UNCHANGED <<text, unit, ifs, pc>>
    BY <1>3 DEF I!Skip, Reading
  <2>2. depth' \in Nat
    BY <1>1, <1>3 DEF I!Skip, IncludeTypes, I!Conditions
  <2> HIDE DEF f
  <2> QED
    BY <1>1, <2>1, <2>2, ReadOnly DEF f
<1>4. CASE I!Blank \/ I!Text \/ I!Define \/ I!Once \/ I!IncludeSkipped
  <2>1. Reading /\ stack' = I!Past(f) /\ UNCHANGED <<text, unit, ifs, pc, depth>>
    BY <1>4 DEF I!Blank, I!Text, I!Define, I!Once, I!IncludeSkipped, I!Scans, Reading
  <2> HIDE DEF f
  <2> QED
    BY <1>1, <2>1, ReadOnly DEF f, IncludeTypes
<1> QED
  BY <1>2, <1>3, <1>4

(* An included file begins above all conditionals that are open. *)
LEMMA OpenStep ==
  ASSUME IncludeInv, I!IncludeOpened
  PROVE  IncludeInv'
<1> DEFINE past == I!Past(I!file)
           new == I!Open(I!line.arg)
<1>1. /\ IncludeTypes /\ BasesInv /\ Reading /\ I!line \in I!Line /\ I!line.op = "include"
      /\ I!file \in Frame /\ Len(stack) <= MaxDepth
  BY LineIs, FileIs DEF IncludeInv, I!IncludeOpened, I!Scans, Reading, I!Deepen
<1>2. /\ past \in Seq(Frame) /\ Len(past) = Len(stack)
      /\ \A j \in 1 .. Len(stack) : past[j].base = stack[j].base
  BY <1>1, PastKeeps
<1>3. new \in Frame /\ new.base = Len(ifs)
  BY <1>1 DEF I!Open, I!Line, Frame, Args, IncludeTypes
<1>4. stack' = Append(past, new) /\ UNCHANGED <<text, unit, ifs, depth, pc>>
  BY DEF I!IncludeOpened
<1> HIDE DEF past, new
<1>5. /\ stack' \in Seq(Frame) /\ Len(stack') = Len(stack) + 1 /\ stack'[Len(stack) + 1] = new
      /\ \A j \in 1 .. Len(stack) : stack'[j].base = stack[j].base
  BY <1>2, <1>3, <1>4
<1>6. IncludeTypes'
  BY <1>1, <1>4, <1>5 DEF IncludeTypes
<1>7. \A j \in 1 .. Len(stack) : stack[j].base \in Nat /\ stack[j].base <= Len(ifs)
  BY <1>1, FileIs DEF BasesInv
<1>8. BasesInv'
  <2>1. Len(stack) \in Nat /\ Len(ifs) \in Nat /\ MaxDepth \in Nat
    BY <1>1, IncludeSizes DEF IncludeTypes
  <2>2. \A j \in 1 .. Len(stack') :
          \/ j = Len(stack) + 1 /\ stack'[j].base = Len(ifs)
          \/ j \in 1 .. Len(stack) /\ stack'[j].base = stack[j].base
    BY <1>3, <1>5, <2>1
  <2> QED
    BY <1>1, <1>3, <1>4, <1>5, <1>7, <2>1, <2>2 DEF BasesInv
<1>9. BranchInv'
  BY <1>4 DEF IncludeInv, BranchInv, LiveIfs
<1> QED
  BY <1>6, <1>8, <1>9 DEF IncludeInv

(* A conditional begins: only a true one is scanned. *)
LEMMA IfStep ==
  ASSUME IncludeInv, I!If
  PROVE  IncludeInv'
<1> DEFINE f == IF bof /\ I!line.op = "ifndef" THEN [I!file EXCEPT !.guard = I!line.arg] ELSE I!file
           taken == (I!line.arg \in defs) = (I!line.op = "ifdef")
           truth == IF taken THEN 1 ELSE 0
<1>1. /\ IncludeTypes /\ BasesInv /\ pc = "scan" /\ Reading /\ I!line \in I!Line
      /\ I!file \in Frame /\ I!file.base \in Nat /\ I!file.base <= Len(ifs) /\ Len(ifs) < MaxIfs
  BY LineIs, FileIs DEF IncludeInv, I!If, I!Scans, Reading, BasesInv, IncludeTypes
<1>2. f \in Frame /\ f.base = I!file.base
  BY <1>1 DEF I!Line, Frame, Args
<1>3. /\ stack' = I!Past(f) /\ ifs' = Append(ifs, truth) /\ UNCHANGED <<text, unit>>
      /\ pc' = (IF taken THEN "scan" ELSE "skip") /\ depth' = 0
  BY DEF I!If, I!Go
<1>4. truth \in 0 .. 3 /\ (taken => truth = 1)
  OBVIOUS
<1> HIDE DEF f, taken, truth
<1>5. /\ ifs \in Seq(0 .. 3) /\ ifs' \in Seq(0 .. 3) /\ Len(ifs') = Len(ifs) + 1 /\ ifs'[Len(ifs) + 1] = truth
      /\ \A j \in 1 .. Len(ifs) : ifs'[j] = ifs[j]
  BY <1>1, <1>3, <1>4 DEF IncludeTypes
<1>6. LiveIfs(Len(ifs))
  BY <1>1 DEF IncludeInv, BranchInv
<1>7. BranchInv'
  BY <1>3, <1>4, <1>5, <1>6 DEF BranchInv, LiveIfs
<1>8. I!file.base <= Len(ifs') /\ Len(ifs') <= MaxIfs
  BY <1>1, <1>5, IncludeSizes
<1> QED
  BY <1>1, <1>2, <1>3, <1>5, <1>7, <1>8, ReadOn

(* #else and #elif change the innermost conditional: the next branch is    *)
(* read only if none before it was.                                        *)
LEMMA BranchStep ==
  ASSUME IncludeInv, I!Else \/ I!Elif
  PROVE  IncludeInv'
<1>1. CASE I!Fail("error")
  BY <1>1, FailStep
<1>2. CASE ~ I!Fail("error")
  <2> DEFINE f == I!NoGuardAt(Len(ifs))
             taken == IF I!Else THEN I!Top = 0 ELSE I!Top = 0 /\ I!line.arg \in defs
             top == IF I!Else THEN (IF I!Top = 1 THEN 2 ELSE 3) ELSE (IF taken THEN 1 ELSE I!Top)
  <2>1. /\ IncludeTypes /\ BasesInv /\ Reading /\ I!file \in Frame /\ I!file.base \in Nat
        /\ I!file.base <= Len(ifs) /\ Len(ifs) <= MaxIfs
    BY FileIs DEF IncludeInv, I!Else, I!Elif, I!Obeys, Reading, BasesInv, IncludeTypes
  <2>2. ifs # << >> /\ ~ (I!Top >= 2)
    BY <1>2 DEF I!Else, I!Elif
  <2>3. /\ ifs \in Seq(0 .. 3) /\ Len(ifs) \in Nat \ {0} /\ DOMAIN ifs = 1 .. Len(ifs)
        /\ I!Top \in {0, 1} /\ I!Top = ifs[Len(ifs)]
    BY <2>1, <2>2 DEF IncludeTypes, I!Top
  <2>4. f \in Frame /\ f.base = I!file.base
    BY <2>1 DEF I!NoGuardAt, Frame, Args
  <2>5. /\ stack' = I!Past(f) /\ UNCHANGED <<text, unit>>
        /\ pc' = (IF taken THEN "scan" ELSE "skip") /\ depth' = 0
        /\ ifs' = [ifs EXCEPT ![Len(ifs)] = top]
    BY <1>2, <2>2, <2>3 DEF I!Else, I!Elif, I!Go
  <2>6. top \in 0 .. 3 /\ (taken => top \in {1, 3})
    BY <2>3
  <2>10. pc' = "scan" => top \in {1, 3}
    BY <2>5, <2>6
  <2> HIDE DEF f, taken, top
  <2>7. /\ ifs' \in Seq(0 .. 3) /\ Len(ifs') = Len(ifs) /\ ifs'[Len(ifs)] = top
        /\ \A j \in 1 .. Len(ifs) - 1 : ifs'[j] = ifs[j]
    <3>1. top \in 0 .. 3 /\ ifs' = [ifs EXCEPT ![Len(ifs)] = top]
      BY <2>5, <2>6
    <3>2. ifs' \in Seq(0 .. 3) /\ Len(ifs') = Len(ifs)
      BY <2>3, <3>1
    <3>3. \A j \in 1 .. Len(ifs) : ifs'[j] = IF j = Len(ifs) THEN top ELSE ifs[j]
      BY <2>3, <3>1
    <3>4. Len(ifs) \in 1 .. Len(ifs)
      BY <2>3
    <3>5. ifs'[Len(ifs)] = top
      BY <3>3, <3>4
    <3>6. ASSUME NEW j \in 1 .. Len(ifs) - 1 PROVE ifs'[j] = ifs[j]
      <4>1. \A m \in Nat : \A k \in 1 .. m - 1 : k \in 1 .. m /\ k # m
        OBVIOUS
      <4>2. Len(ifs) \in Nat
        BY <2>3
      <4>3. j \in 1 .. Len(ifs) /\ j # Len(ifs)
        BY <4>1, <4>2
      <4> QED
        BY <3>3, <4>3
    <3> QED
      BY <3>2, <3>5, <3>6
  <2>8. LiveIfs(Len(ifs) - 1)
    BY <2>1, <2>3 DEF IncludeInv, BranchInv, Reading, LiveIfs
  <2>9. BranchInv'
    BY <2>3, <2>7, <2>8, <2>10 DEF BranchInv, LiveIfs
  <2> QED
    BY <2>1, <2>4, <2>5, <2>7, <2>9, ReadOn
<1> QED
  BY <1>1, <1>2

(* #endif closes a conditional of this file; all below it were true. *)
LEMMA EndifStep ==
  ASSUME IncludeInv, I!Endif
  PROVE  IncludeInv'
<1>1. CASE I!Unmatched
  BY <1>1, FailStep DEF I!Endif
<1>2. CASE ~ I!Unmatched
  <2> DEFINE level == Len(ifs) - 1
             guards == I!file.guard # NoMacro /\ level = I!file.base
             f == IF guards THEN [I!file EXCEPT !.saved = I!file.guard, !.guard = NoMacro] ELSE I!file
  <2>1. /\ IncludeTypes /\ BasesInv /\ Reading /\ I!file \in Frame /\ I!file.base \in Nat
        /\ Len(ifs) > I!file.base /\ Len(ifs) <= MaxIfs
    BY <1>2, FileIs DEF IncludeInv, I!Endif, I!Obeys, Reading, BasesInv, I!Unmatched, IncludeTypes
  <2>2. f \in Frame /\ f.base = I!file.base
    BY <2>1 DEF Frame, Args
  <2>3. /\ stack' = I!Past(f) /\ UNCHANGED <<text, unit>> /\ pc' = "scan" /\ depth' = 0
        /\ ifs' = SubSeq(ifs, 1, level)
    BY <1>2 DEF I!Endif, I!Go
  <2> HIDE DEF f
  <2>4. ifs \in Seq(0 .. 3) /\ Len(ifs) \in Nat \ {0} /\ level \in 0 .. Len(ifs)
    BY <2>1 DEF IncludeTypes
  <2> HIDE DEF level
  <2>5. ifs' \in Seq(0 .. 3) /\ Len(ifs') = level /\ \A j \in 1 .. level : ifs'[j] = ifs[j]
    BY <2>3, <2>4
  <2>6. LiveIfs(level)
    BY <2>1, <2>4 DEF IncludeInv, BranchInv, Reading, LiveIfs, level
  <2>7. BranchInv'
    BY <2>3, <2>5, <2>6 DEF BranchInv, LiveIfs
  <2>8. I!file.base <= Len(ifs') /\ Len(ifs') <= MaxIfs
    BY <2>1, <2>4, <2>5, IncludeSizes DEF level
  <2> QED
    BY <2>1, <2>2, <2>3, <2>5, <2>7, <2>8, ReadOn
<1> QED
  BY <1>1, <1>2

(* An included file ends as it began: nothing of the others has changed. *)
LEMMA PopStep ==
  ASSUME IncludeInv, I!Pop
  PROVE  IncludeInv'
<1>1. IncludeTypes /\ BasesInv /\ pc = "scan" /\ Len(stack) > 1
  BY DEF IncludeInv, I!Pop
<1>2. stack' = SubSeq(stack, 1, Len(stack) - 1) /\ UNCHANGED <<text, unit, ifs, depth, pc>>
  BY DEF I!Pop
<1>3. /\ stack' \in Seq(Frame) /\ Len(stack') = Len(stack) - 1
      /\ \A j \in 1 .. Len(stack) - 1 : stack'[j] = stack[j]
  BY <1>1, <1>2 DEF IncludeTypes
<1>4. Len(stack) \in Nat /\ MaxDepth \in Nat
  BY <1>1, IncludeSizes DEF IncludeTypes
<1>5. IncludeTypes' /\ BasesInv'
  BY <1>1, <1>2, <1>3, <1>4 DEF IncludeTypes, BasesInv, Reading
<1>6. BranchInv'
  BY <1>2 DEF IncludeInv, BranchInv, LiveIfs
<1> QED
  BY <1>5, <1>6 DEF IncludeInv

LEMMA NextUnitStep ==
  ASSUME IncludeInv, I!NextUnit
  PROVE  IncludeInv'
<1>1. CASE unit = Len(Units)
  BY <1>1, FailStep DEF I!NextUnit
<1>2. CASE unit # Len(Units)
  <2> DEFINE f == [I!Open(Units[unit + 1]) EXCEPT !.base = 0]
  <2>1. /\ stack' = <<f>> /\ ifs' = << >> /\ unit' = unit + 1 /\ pc' = pc /\ pc = "scan"
        /\ UNCHANGED <<text, depth>>
    BY <1>2 DEF I!NextUnit
  <2>2. IncludeTypes /\ unit + 1 \in 1 .. Len(Units)
    BY <1>2, IncludeSizes DEF IncludeInv, IncludeTypes
  <2>3. f \in Frame /\ f.base = 0
    BY <2>2, IncludeSizes DEF I!Open, Frame, Args
  <2> HIDE DEF f
  <2>4. /\ stack' \in Seq(Frame) /\ Len(stack') = 1 /\ stack'[1] = f
        /\ ifs' \in Seq(0 .. 3) /\ Len(ifs') = 0
    BY <2>1, <2>3
  <2>5. IncludeTypes'
    BY <2>1, <2>2, <2>4 DEF IncludeTypes
  <2>6. BasesInv' /\ BranchInv'
    BY <2>1, <2>3, <2>4, IncludeSizes DEF BasesInv, BranchInv, LiveIfs, Reading
  <2> QED
    BY <2>5, <2>6 DEF IncludeInv
<1> QED
  BY <1>1, <1>2

LEMMA IncludeInit == I!Init => IncludeInv
<1> SUFFICES ASSUME I!Init PROVE IncludeInv
  OBVIOUS
<1> DEFINE f == I!Open(Units[1])
<1>1. stack = <<f>> /\ ifs = << >> /\ unit = 1 /\ pc = "scan" /\ depth = 0
  BY DEF I!Init
<1>2. text \in [Files -> Seq(I!Line)]
  BY IncludeAssumption DEF I!Init, I!Assumptions
<1>3. f \in Frame /\ f.base = 0
  BY <1>1, IncludeSizes DEF I!Open, Frame, Args
<1> HIDE DEF f
<1>4. /\ stack \in Seq(Frame) /\ Len(stack) = 1 /\ stack[1] = f
      /\ ifs \in Seq(0 .. 3) /\ Len(ifs) = 0
  BY <1>1, <1>3
<1> QED
  BY <1>1, <1>2, <1>3, <1>4, IncludeSizes
    DEF IncludeInv, IncludeTypes, BasesInv, BranchInv, LiveIfs, Reading

LEMMA IncludeNext == IncludeInv /\ [I!Next]_(I!vars) => IncludeInv'
<1> SUFFICES ASSUME IncludeInv, [I!Next]_(I!vars) PROVE IncludeInv'
  OBVIOUS
<1>1. CASE UNCHANGED I!vars
  BY <1>1 DEF I!vars, IncludeInv, IncludeTypes, BasesInv, BranchInv, LiveIfs, Reading
<1>2. CASE I!Blank \/ I!Text \/ I!Define \/ I!Once \/ I!LineDirective \/ I!IncludeSkipped \/ I!Skip
  BY <1>2, PlainStep
<1>3. CASE I!IncludeTooDeep \/ I!IfTooMany \/ I!EOFInConditional
  BY <1>3, FailStep DEF I!IncludeTooDeep, I!IfTooMany, I!EOFInConditional
<1>4. CASE I!IncludeOpened \/ I!If
  BY <1>4, OpenStep, IfStep
<1>5. CASE I!Else \/ I!Elif \/ I!Endif
  BY <1>5, BranchStep, EndifStep
<1>6. CASE I!Pop \/ I!NextUnit
  BY <1>6, PopStep, NextUnitStep
<1> QED
  BY <1>1, <1>2, <1>3, <1>4, <1>5, <1>6 DEF I!Next

LEMMA IncludeAlways == I!Spec => []IncludeInv
BY IncludeInit, IncludeNext, PTL DEF I!Spec

(* IncludedText: text is read only where every conditional around it, of   *)
(* this file and of those that include it, is in a branch that is true     *)
(* (preprocess, preprocess_skip).                                          *)
THEOREM TextAlwaysLive == I!Spec => []IncludedText
<1>1. IncludeInv => IncludedText
  BY DEF IncludeInv, IncludeTypes, BranchInv, LiveIfs, IncludedText, I!LiveText
<1> QED
  BY <1>1, IncludeAlways, PTL

(* IncludeConditionals: an included file never closes a conditional of a   *)
(* file around it, and neither stack outgrows its array (preprocess,       *)
(* INCLUDE_STACK_SIZE, IFDEF_STACK_SIZE).                                  *)
THEOREM ConditionalsAlwaysKept == I!Spec => []IncludeConditionals
<1>1. IncludeInv => IncludeConditionals
  BY DEF IncludeInv, IncludeTypes, BasesInv, Reading, IncludeConditionals, I!ConditionalsKept
<1> QED
  BY <1>1, IncludeAlways, PTL
=============================================================================
