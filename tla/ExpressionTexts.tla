-------------------------- MODULE ExpressionTexts --------------------------
(***************************************************************************)
(* The functions for which MC_Operands compares Expressions with           *)
(* OperandsRef, and the values of their variables.                         *)
(***************************************************************************)
EXTENDS OperandsRef, FiniteSets, Functions

\* for Variables = char c1, int i1, i2, unsigned u1, long long l1, int *p,
\* char *q, int i3, char c3; the pointers point to the last two
FramesWith(c1, i1, i2, u1, l1, i3, c3) == <<c1, i1, i2, u1, l1, 8, 9, i3, c3>>

Num(n) == [k |-> "num", t |-> "int", n |-> n]
Var(n) == [k |-> "var", n |-> n]
Deref(e) == [k |-> "deref", e |-> e]
Cast(t, e) == [k |-> "cast", t |-> t, e |-> e]
Unary(k, e) == [k |-> k, e |-> e]
Bin(op, x, y) == [k |-> "bin", op |-> op, x |-> x, y |-> y]
And2(x, y) == [k |-> "and", es |-> <<x, y>>]
Or2(x, y) == [k |-> "or", es |-> <<x, y>>]
Cond(e, x, y) == [k |-> "cond", e |-> e, x |-> x, y |-> y]
Comma(x, y) == [k |-> "comma", x |-> x, y |-> y]
Assign(x, y) == [k |-> "assign", x |-> x, y |-> y]
Update(op, x, y) == [k |-> "update", op |-> op, x |-> x, y |-> y]
Step(k, n, e) == [k |-> k, n |-> n, e |-> e]
CallOf(id, t, ps, es) == [k |-> "call", id |-> id, t |-> t, ps |-> ps, es |-> es]

C1 == Var(1)
I1 == Var(2)
I2 == Var(3)
U1 == Var(4)
L1 == Var(5)
AtI == Deref(Var(6))
AtC == Deref(Var(7))

Atoms == {C1, I1, I2, U1, L1, AtI, AtC} \cup { Num(n) : n \in {-1, 0, 1, 2, 4, 5} }
Operators == {"+", "-", "*", "/", "%", "&", "|", "^", "shl", "sar", "==", "!=", "<", ">", "<=", ">="}

\* values that are in the flags, in a chain, in memory or in a register
Values ==
  {Bin("<", I1, I2), Bin("<", U1, I1), Bin("<=", L1, I1), And2(I1, I2),
   And2(Num(0), CallOf(1, "int", <<>>, <<>>)), Or2(Bin("<", I1, I2), CallOf(1, "int", <<>>, <<>>)),
   Or2(Num(0), And2(AtI, C1)), Unary("not", I1), Unary("not", Bin("==", L1, I2)), Unary("not", And2(I1, U1)),
   Cond(I1, I2, U1), Cond(Bin("<", I1, I2), L1, C1), Cond(Num(1), AtI, CallOf(1, "int", <<>>, <<>>)),
   Cond(Num(0), CallOf(1, "int", <<>>, <<>>), C1), Cond(And2(I1, I2), AtI, Num(5)),
   Cond(AtI, Bin("<", I1, U1), Or2(I1, I2)), Deref(Cond(I1, Var(6), Var(6))),
   Bin("/", I1, I2), Bin("%", L1, I2), Bin("/", U1, AtI), Bin("shl", I1, AtC), Bin("sar", L1, I2),
   Unary("neg", C1), Unary("bnot", U1), Unary("plus", AtC), Unary("neg", AtI),
   Cast("char", Bin("+", I1, I2)), Cast("llong", AtI), Cast("uint", C1), Cast("char", L1), Cast("int", L1),
   Cast("ullong", I1), Cast("llong", U1),
   Comma(Assign(I2, Num(3)), Bin("-", I2, I1)), Assign(C1, Bin("+", I1, I2)), Assign(C1, I1), Assign(I2, L1),
   Assign(L1, AtC), Assign(AtI, Bin("/", L1, I1)), Assign(AtC, L1),
   Update("+", AtI, I1), Update("/", C1, I2), Update("shl", U1, Bin("<", I1, I2)), Update("-", L1, AtI),
   Step("post", 1, C1), Step("pre", -1, AtI), Step("post", -1, U1), Step("pre", 1, AtC), Step("post", 1, L1),
   CallOf(1, "int", <<>>, <<>>), CallOf(2, "char", <<"int", "char">>, <<U1, AtI>>),
   CallOf(3, "llong", <<>>, <<C1, L1, I1>>)}

Inside(e) ==
  CASE e.k \in {"num", "var"} -> {}
    [] e.k \in {"deref", "cast", "neg", "bnot", "plus", "not", "pre", "post"} -> {e.e}
    [] e.k \in {"bin", "comma", "assign", "update"} -> {e.x, e.y}
    [] e.k \in {"and", "or", "call"} -> Range(e.es)
    [] e.k = "cond" -> {e.e, e.x, e.y}

\* what an expression reads and writes; the pointers stay where they point
RECURSIVE Reads(_)
RECURSIVE Writes(_)
Denoted(e) == IF e.k = "var" THEN e.n ELSE IF TypeOf(e) = "int" THEN 8 ELSE 9
Reads(e) ==
  UNION { Reads(x) : x \in Inside(e) } \cup (IF e.k \in {"var", "deref"} THEN {Denoted(e)} ELSE {})
Writes(e) ==
  UNION { Writes(x) : x \in Inside(e) }
  \cup (CASE e.k \in {"assign", "update"} -> {Denoted(e.x)} [] e.k \in {"pre", "post"} -> {Denoted(e.e)}
          [] OTHER -> {})

\* C does not say which of x and y is evaluated first
Independent(x, y) ==
  /\ Writes(x) \cap (Reads(y) \cup Writes(y)) = {}
  /\ Writes(y) \cap Reads(x) = {}

\* The upper half of the register that holds e is known to be clear.
RECURSIVE Clear(_)
Clear(e) ==
  CASE e.k \in {"cast", "assign", "update", "cond", "bin", "plus", "neg", "pre", "post"} ->
         \A x \in Inside(e) : Clear(x) /\ ~ Bits(TypeOf(x)) = LongBits
    [] e.k = "comma" -> Clear(e.y)
    [] e.k = "call" -> FALSE
    [] OTHER -> TRUE

\* The conversion to char that an assignment owes is still to be done.
RECURSIVE Delayed(_)
Delayed(e) ==
  \/ e.k \in {"assign", "update", "pre"} /\ TypeOf(e) = "char"
  \/ e.k = "comma" /\ Delayed(e.y)

\* No order of evaluation is left open, unsigned int is not made from
\* what may have more bits, and an assignment to char is no condition
\* of ?: and no argument without a parameter.
RECURSIVE Regular(_)
Regular(e) ==
  /\ \A x \in Inside(e) : Regular(x)
  /\ e.k \in {"bin", "assign", "update"} => Independent(e.x, e.y)
  /\ e.k = "call" => \A i \in DOMAIN e.es : \A j \in 1 .. i - 1 : Independent(e.es[j], e.es[i])
  /\ TypeOf(e) = "uint" => e.k \in {"var", "deref"} \/ Clear(e)
  /\ e.k = "call" => \A i \in DOMAIN e.es : e.ps # <<>> /\ e.ps[i] = "uint" => Clear(e.es[i])
  /\ e.k = "cond" => ~ Delayed(e.e)
  /\ e.k = "call" /\ e.ps = <<>> => \A i \in DOMAIN e.es : ~ Delayed(e.es[i])

Returning(t, E) == { [e |-> e, t |-> t] : e \in { x \in E : Regular(x) } }

-----------------------------------------------------------------------------
(* Functions *)

Simple == { Bin(op, x, y) : op \in Operators, x \in Atoms, y \in Atoms }
Pairs == { Bin(op, x, y) : op \in {"+", "-", "/", "shl", "<"}, x \in Values, y \in Values }

\* where a value can be used
Hole == Var(0)
Contexts ==
  { Unary(k, Hole) : k \in {"neg", "bnot", "not", "plus"} }
  \cup { Cast(t, Hole) : t \in {"char", "int", "uint", "llong", "ullong"} }
  \cup {Cond(Hole, Num(1), I1), Cond(I1, Hole, L1), Cond(I1, U1, Hole), And2(Hole, AtI), And2(I1, Hole),
        Or2(Hole, Num(0)), Or2(I1, Hole), Comma(Hole, C1), Comma(I2, Hole), Assign(L1, Hole), Assign(C1, Hole),
        Assign(AtI, Hole), Update("+", AtI, Hole), Update("/", C1, Hole), Update("sar", L1, Hole),
        CallOf(4, "int", <<>>, <<Hole>>), CallOf(5, "char", <<"int", "llong">>, <<Hole, I2>>),
        CallOf(6, "llong", <<"llong", "uint">>, <<AtC, Hole>>), Bin("-", Hole, AtI), Bin("/", AtI, Hole),
        Bin("shl", Num(1), Hole), Bin("<", L1, Hole), Bin("&", Hole, Num(3))}

\* v in place of the hole of a context
Filled(context, v) ==
  [f \in DOMAIN context |->
     CASE f \in {"e", "x", "y"} -> IF context[f] = Hole THEN v ELSE context[f]
       [] f = "es" -> [i \in DOMAIN context.es |-> IF context.es[i] = Hole THEN v ELSE context.es[i]]
       [] OTHER -> context[f]]
\* the values used in two contexts
Chosen ==
  {Bin("<", I1, I2), And2(I1, I2), Or2(Bin("<", I1, I2), CallOf(1, "int", <<>>, <<>>)), Unary("neg", C1),
   Cond(Bin("<", I1, I2), L1, C1), Bin("/", U1, AtI), Bin("shl", I1, AtC), Assign(C1, Bin("+", I1, I2)),
   Update("-", L1, AtI), Step("post", 1, C1), CallOf(3, "llong", <<>>, <<C1, L1, I1>>)}
Once == { Filled(c, v) : c \in Contexts, v \in Values }
Twice == { Filled(c, Filled(d, v)) : v \in Chosen, d \in Contexts, c \in Contexts }

RegularExpressions ==
  {Returning("int", Simple), Returning("llong", Simple), Returning("int", Values), Returning("char", Values),
   Returning("llong", Pairs), Returning("llong", Once), Returning("llong", Twice)}

VariousFrames ==
  { FramesWith(1, 3, -2, 9, -100, 5, -2), FramesWith(-2, 0, 0, 15, 27, -8, 1),
    FramesWith(0, -8, 7, 0, 16, 1, 0) }

\* What Regular leaves out.
\*   long long l; unsigned u; char c; int i, j;
\*   (long long) (unsigned) (l + 1)      (c = i + j) ? 1 : 2      f(c = i + j)
Misvalued ==
  { { [e |-> e, t |-> "llong"] }
    : e \in {Cast("llong", Cast("uint", Bin("+", L1, Num(1)))),
             Cond(Assign(C1, Bin("+", I1, I2)), Num(1), Num(2)),
             CallOf(1, "int", <<>>, <<Assign(C1, Bin("+", I1, I2))>>)} }
=============================================================================
