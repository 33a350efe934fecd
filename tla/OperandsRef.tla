---------------------------- MODULE OperandsRef ----------------------------
(***************************************************************************)
(* What the expressions that Expressions compiles mean in C.  Values are   *)
(* integers in the range of their type.  An evaluation starts from the     *)
(* values m.mem of the variables and the values m.rets that calls will     *)
(* return, and collects the calls.  m.ok becomes FALSE where C defines     *)
(* nothing: signed overflow, division by zero, shifts by more than the     *)
(* width.  Operands are evaluated from left to right.                      *)
(***************************************************************************)
EXTENDS Integers, Sequences

CONSTANTS CharBits, IntBits, LongBits, Variables

Bits(t) == CASE t = "char" -> CharBits [] t \in {"int", "uint"} -> IntBits [] OTHER -> LongBits
IsUnsigned(t) == t \in {"uint", "ullong", "pchar", "pint", "pllong"}
Least(t) == IF IsUnsigned(t) THEN 0 ELSE -(2 ^ (Bits(t) - 1))
Greatest(t) == Least(t) + 2 ^ Bits(t) - 1
To(t, n) == ((n - Least(t)) % 2 ^ Bits(t)) + Least(t)

Rank(t) == CASE t \in {"char", "int"} -> 0 [] t = "uint" -> 1 [] t = "llong" -> 2 [] t = "ullong" -> 3
Common(t1, t2) ==
  LET r == IF Rank(t1) > Rank(t2) THEN Rank(t1) ELSE Rank(t2)
  IN <<"int", "uint", "llong", "ullong">>[r + 1]
Promoted(t) == IF t = "char" THEN "int" ELSE t
Target == [pchar |-> "char", pint |-> "int", pllong |-> "llong"]

Relations == {"==", "!=", "<", ">=", "<=", ">"}
Shifts == {"shl", "sar"}

RECURSIVE TypeOf(_)
TypeOf(e) ==
  CASE e.k \in {"num", "cast", "call"} -> e.t
    [] e.k = "var" -> Variables[e.n]
    [] e.k = "deref" -> Target[TypeOf(e.e)]
    [] e.k \in {"neg", "bnot", "plus"} -> Promoted(TypeOf(e.e))
    [] e.k \in {"not", "and", "or"} -> "int"
    [] e.k = "bin" -> IF e.op \in Relations THEN "int"
                      ELSE IF e.op \in Shifts THEN Promoted(TypeOf(e.x))
                      ELSE Common(TypeOf(e.x), TypeOf(e.y))
    [] e.k = "cond" -> IF TypeOf(e.x) \in DOMAIN Target THEN TypeOf(e.x) ELSE Common(TypeOf(e.x), TypeOf(e.y))
    [] e.k = "comma" -> TypeOf(e.y)
    [] e.k \in {"assign", "update"} -> TypeOf(e.x)
    [] e.k \in {"pre", "post"} -> TypeOf(e.e)

Truth(b) == IF b THEN 1 ELSE 0
Size(n) == IF n < 0 THEN -n ELSE n
Quotient(x, y) == IF (x < 0) = (y < 0) THEN Size(x) \div Size(y) ELSE -(Size(x) \div Size(y))

\* bitwise operations, on patterns of w bits
Conjunction[w \in 0 .. LongBits] ==
  [x \in 0 .. 2 ^ w - 1, y \in 0 .. 2 ^ w - 1 |->
     IF w = 0 THEN 0 ELSE 2 * Conjunction[w - 1][x \div 2, y \div 2] + (x % 2) * (y % 2)]

\* the result in the type t of the operands, if C defines it
Result(op, x, y, t) ==
  LET p(n) == n % 2 ^ Bits(t)
      and == Conjunction[Bits(t)][p(x), p(y)]
  IN CASE op = "+" -> x + y [] op = "-" -> x - y [] op = "*" -> x * y
       [] op = "/" -> Quotient(x, y) [] op = "%" -> x - y * Quotient(x, y)
       [] op = "&" -> To(t, and) [] op = "|" -> To(t, p(x) + p(y) - and)
       [] op = "^" -> To(t, p(x) + p(y) - 2 * and)
       [] op = "shl" -> To(t, x * 2 ^ y) [] op = "sar" -> x \div 2 ^ y
       [] op = "==" -> Truth(x = y) [] op = "!=" -> Truth(x # y) [] op = "<" -> Truth(x < y)
       [] op = ">" -> Truth(x > y) [] op = "<=" -> Truth(x <= y) [] op = ">=" -> Truth(x >= y)

Allowed(op, x, y, t) ==
  CASE op \in {"/", "%"} -> y # 0 /\ Quotient(x, y) \in Least(t) .. Greatest(t)
    [] op \in Shifts -> y \in 0 .. Bits(t) - 1
    [] op \in {"+", "-", "*"} -> IsUnsigned(t) \/ Result(op, x, y, t) \in Least(t) .. Greatest(t)
    [] OTHER -> TRUE

\* x op y, of types t1 and t2, after the usual conversions
Operate(op, x, t1, y, t2, m) ==
  LET t == IF op \in Shifts THEN Promoted(t1) ELSE Common(t1, t2)
      b == IF op \in Shifts THEN y ELSE To(t, y)
  IN IF Allowed(op, To(t, x), b, t)
     THEN [m EXCEPT !.v = IF op \in Relations THEN Result(op, To(t, x), b, t)
                          ELSE To(t, Result(op, To(t, x), b, t))]
     ELSE [m EXCEPT !.ok = FALSE, !.v = 0]

RECURSIVE Eval(_, _)
RECURSIVE Locate(_, _)
RECURSIVE Decide(_, _, _)
RECURSIVE Arguments(_, _, _, _)

\* the variable an lvalue denotes
Locate(e, m) == IF e.k = "var" THEN [m EXCEPT !.v = e.n] ELSE Eval(e.e, m)

Read(m) == [m EXCEPT !.v = m.mem[m.v]]
Write(n, v, t, m) == [m EXCEPT !.mem[n] = To(t, v), !.v = To(t, v)]
With(t, m) == [m EXCEPT !.v = To(t, m.v)]

Decide(e, i, m) ==
  LET d == Eval(e.es[i], m)
      stop == (d.v # 0) = (e.k = "or")
  IN IF stop \/ i = Len(e.es) THEN [d EXCEPT !.v = Truth(d.v # 0)] ELSE Decide(e, i + 1, d)

\* the arguments, each converted to its parameter or promoted; then the call
Arguments(e, i, vs, m) ==
  LET d == Eval(e.es[i], m)
      t == IF e.ps = <<>> THEN Promoted(TypeOf(e.es[i])) ELSE e.ps[i]
  IN IF i > Len(e.es)
     THEN [m EXCEPT !.calls = Append(@, <<e.id, vs>>),
                    !.rets = IF @ = <<>> THEN @ ELSE Tail(@),
                    !.v = IF m.rets = <<>> THEN 0 ELSE To(e.t, Head(m.rets))]
     ELSE Arguments(e, i + 1, Append(vs, To(t, d.v)), d)

Eval(e, m) ==
  CASE e.k = "num" -> [m EXCEPT !.v = To(e.t, e.n)]
    [] e.k \in {"var", "deref"} -> Read(Locate(e, m))
    [] e.k = "cast" -> With(e.t, Eval(e.e, m))
    [] e.k = "neg" -> LET d == Eval(e.e, m) IN Operate("-", 0, "int", d.v, TypeOf(e.e), d)
    [] e.k = "bnot" -> LET d == Eval(e.e, m) IN Operate("^", -1, "int", d.v, TypeOf(e.e), d)
    [] e.k = "plus" -> Eval(e.e, m)
    [] e.k = "not" -> LET d == Eval(e.e, m) IN [d EXCEPT !.v = Truth(d.v = 0)]
    [] e.k = "bin" -> LET d == Eval(e.x, m) f == Eval(e.y, d)
                      IN Operate(e.op, d.v, TypeOf(e.x), f.v, TypeOf(e.y), f)
    [] e.k \in {"and", "or"} -> Decide(e, 1, m)
    [] e.k = "cond" -> LET d == Eval(e.e, m) IN With(TypeOf(e), Eval(IF d.v # 0 THEN e.x ELSE e.y, d))
    [] e.k = "comma" -> Eval(e.y, Eval(e.x, m))
    [] e.k = "assign" -> LET d == Locate(e.x, m) f == Eval(e.y, d)
                         IN Write(d.v, f.v, TypeOf(e.x), f)
    [] e.k = "update" -> LET d == Locate(e.x, m)
                             f == Eval(e.y, d)
                             g == Operate(e.op, f.mem[d.v], TypeOf(e.x), f.v, TypeOf(e.y), f)
                         IN Write(d.v, g.v, TypeOf(e.x), g)
    [] e.k \in {"pre", "post"} ->
         LET d == Locate(e.e, m)
             g == Operate("+", d.mem[d.v], TypeOf(e.e), e.n, "int", d)
             w == Write(d.v, g.v, TypeOf(e.e), g)
         IN IF e.k = "pre" THEN w ELSE [w EXCEPT !.v = d.mem[d.v]]
    [] e.k = "call" -> Arguments(e, 1, <<>>, m)

\* a function that returns e as type t
Run(e, t, mem, rets) ==
  With(t, Eval(e, [v |-> 0, mem |-> mem, rets |-> rets, calls |-> <<>>, ok |-> TRUE]))

=============================================================================
