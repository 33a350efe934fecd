---------------------------- MODULE Expressions ----------------------------
(***************************************************************************)
(* Integer expressions of C, as tccgen.c compiles them on the value stack  *)
(* of Operands: gen_op with the simplifications of gen_opic, the machine   *)
(* operations of gen_opi, conversions (some delayed), assignments, the     *)
(* conditional operators and calls.                                        *)
(*                                                                         *)
(* Expressions are records with a kind k; see Expr.                        *)
(***************************************************************************)
EXTENDS Operands

\* the C function called f, with argument x (see the end)
RECURSIVE Do(_, _, _)

-----------------------------------------------------------------------------
(* gen_opic: operations on constants are done, or made simpler. *)

AllOnes(n, t) == n = 2 ^ LongBits - 1 \/ (n = 2 ^ IntBits - 1 /\ ~ Wide(t))
Adjusted(n, t) == CASE Wide(t) -> n [] t = "uint" -> Zx(n, IntBits) [] OTHER -> Sx(n, IntBits)
Literal(v) == Adjusted(v.n, v.t)
Zero(v) == IsConst(v) /\ Literal(v) = 0
IsPower(n) == \E i \in 0 .. LongBits - 1 : n = 2 ^ i
Log(n) == CHOOSE i \in 0 .. LongBits - 1 : n = 2 ^ i

\* 64 bits are used for all types; only the count of a shift depends on it
Fold(op, a, b, t) ==
  LET x == Signed(a, LongBits)
      y == Signed(b, LongBits)
  IN CASE op = "/" -> Zx(Quotient(x, y), LongBits)
       [] op = "%" -> Zx(x - y * Quotient(x, y), LongBits)
       [] op = "udiv" -> a \div b
       [] op = "umod" -> a % b
       [] op \in Relations -> IF Holds(op, a, b, LongBits) THEN 1 ELSE 0
       [] op \in Shifts -> Alu(op, a, b % Bits(t), LongBits)
       [] OTHER -> Alu(op, a, b, LongBits)

Folded(op, c) ==
  Drop(SetBelow([Below(c) EXCEPT !.n = Adjusted(Fold(op, Literal(Below(c)), Literal(Top(c)), Below(c).t),
                                                Below(c).t)], c))

\* 0 << x, -1 >> x
FirstRemains(op, v) ==
  /\ IsConst(v)
  /\ \/ op \in Shifts /\ Literal(v) = 0
     \/ op = "sar" /\ Literal(v) = 2 ^ LongBits - 1

\* x & 0, x * 0, x | -1, x % 1
SecondRemains(op, v) ==
  /\ IsConst(v)
  /\ \/ op \in {"&", "*"} /\ Literal(v) = 0
     \/ op = "|" /\ AllOnes(Literal(v), v.t)
     \/ op \in {"%", "umod"} /\ Literal(v) = 1

\* x * 1, x - 0, x & -1
Useless(op, v) ==
  /\ IsConst(v)
  /\ \/ op \in {"*", "/", "udiv"} /\ Literal(v) = 1
     \/ op \in {"+", "-", "|", "^"} \cup Shifts /\ Literal(v) = 0
     \/ op = "&" /\ AllOnes(Literal(v), v.t)

ByPower(op, v) == IsConst(v) /\ op \in {"*", "udiv"} /\ IsPower(Literal(v))

-----------------------------------------------------------------------------
(* gen_opi and gen_opl: machine operations. *)

Imm(n) == [kind |-> "imm", n |-> n]
By(r) == [kind |-> "reg", n |-> r]

\* cmp and the operations of two operands; imul has no immediate form
Alu8(op, ll, c) ==
  LET bits == IF ll THEN LongBits ELSE IntBits
      emit(r, by, d) ==
        IF op \in Relations THEN Emit([op |-> "cmp", bits |-> bits, l |-> r, by |-> by], d)
        ELSE Emit([op |-> "alu", f |-> op, bits |-> bits, to |-> r, by |-> by], d)
      result(d) == IF op \in Relations THEN SetTop(Value(Top(d).t, "cmp", op), d) ELSE d
      short(d) == emit(Below(d).r, Imm(Top(d).n), d)
      both(d) == emit(Below(d).r, By(Top(d).r), d)
      immediate == IsConst(Top(c)) /\ op # "*" /\ (ll => Sx(Top(c).n, IntBits) = Top(c).n)
  IN result(Drop(IF immediate
                 THEN short(Vswap(Gv(AnyReg, Vswap(c))))
                 ELSE both(Gv2(AnyReg, AnyReg, c))))

Shift(op, ll, c) ==
  LET bits == IF ll THEN LongBits ELSE IntBits
      emit(by, d) == Emit([op |-> "alu", f |-> op, bits |-> bits, to |-> Below(d).r, by |-> by], d)
  IN Drop(IF IsConst(Top(c)) THEN emit(Imm(Top(c).n % bits), Vswap(Gv(AnyReg, Vswap(c))))
          ELSE emit(By("rcx"), Gv2(AnyReg, {"rcx"}, c)))

\* rdx is part of the dividend and gets the remainder
Divide(op, ll, c) ==
  LET bits == IF ll THEN LongBits ELSE IntBits
      uu == op \in {"udiv", "umod"}
      divide(fr, d) ==
        Emit([op |-> "div", signed |-> ~ uu, bits |-> bits, by |-> fr],
             Emit([op |-> IF uu THEN "zero" ELSE "sign", bits |-> bits], SaveReg("rdx", Drop(d))))
      result(d) == SetTop([Top(d) EXCEPT !.r = IF op \in {"%", "umod"} THEN "rdx" ELSE "rax"], d)
      loaded(d) == result(divide(Top(d).r, d))
  IN loaded(Gv2({"rax"}, {"rcx"}, c))

GenOpi(op, c) ==
  CASE op \in Shifts -> Shift(op, Wide(Below(c).t), c)
    [] op \in Divisions -> Divide(op, Wide(Below(c).t), c)
    [] op \notin Shifts \cup Divisions -> Alu8(op, Wide(Below(c).t), c)

\* both constant, or the constant second for the rest
GenOpic(op, c) ==
  LET power(d) == SetTop([Top(d) EXCEPT !.n = Log(Literal(Top(d)))], d)
      simpler(d) ==
        CASE FirstRemains(op, Below(d)) -> Drop(d)
          [] SecondRemains(op, Top(d)) ->
               Drop(Vswap(IF Literal(Top(d)) = 1 /\ op # "|" THEN SetTop([Top(d) EXCEPT !.n = 0], d) ELSE d))
          [] Useless(op, Top(d)) -> Drop(d)
          [] ByPower(op, Top(d)) /\ ~ Useless(op, Top(d)) ->
               Do("gen_opi", IF op = "*" THEN "shl" ELSE "shr", power(d))
          [] OTHER -> Do("gen_opi", op, d)
  IN CASE IsConst(Below(c)) /\ IsConst(Top(c)) ->
            IF op \in Divisions /\ Zero(Top(c)) THEN Do("gen_opi", op, c) ELSE Folded(op, c)
       [] IsConst(Below(c)) /\ ~ IsConst(Top(c)) /\ op \in {"+", "&", "^", "|", "*"} -> simpler(Vswap(c))
       [] OTHER -> simpler(c)

-----------------------------------------------------------------------------
(* gen_cast *)

\* force_charshort_cast to signed char: two shifts
ForceChar(c) ==
  LET bits == (IF Wide(Top(c).t) THEN LongBits ELSE IntBits) - CharBits
      signed(d) == Retype(SignedOf(Top(d).t), d)
  IN Do("gen_op", "sar", Vsetc(IntConst(bits), signed(Do("gen_op", "shl", Vsetc(IntConst(bits), c)))))

CastConst(n, from, to) ==
  LET wide == CASE from = "uint" -> Zx(n, IntBits) [] Wide(from) -> n [] OTHER -> Sx(n, IntBits)
  IN CASE Wide(to) -> wide [] to = "uint" -> Zx(wide, IntBits) [] OTHER -> Sx(wide, Bits(to))

\* nothing is emitted for a conversion to int or unsigned int
GenCast(t, c) ==
  LET due(d) == IF Top(d).must THEN ForceChar(SetTop([Top(d) EXCEPT !.must = FALSE], d)) ELSE d
      extended(from, d) == IF from = "uint" THEN d ELSE Emit([op |-> "movslq", to |-> d.r], d)
      converted(d) ==
        CASE Top(d).t = t -> d
          [] Top(d).t # t /\ IsConst(Top(d)) ->
               SetTop([Top(d) EXCEPT !.n = CastConst(@, Top(d).t, t)], d)
          [] Top(d).t # t /\ ~ IsConst(Top(d)) /\ Wide(t) /\ ~ Wide(Top(d).t) ->
               extended(Top(d).t, Gv(AnyReg, d))
          [] Top(d).t # t /\ ~ IsConst(Top(d)) /\ t = "char" -> ForceChar(d)
          [] OTHER -> d
  IN Retype(t, converted(due(c)))

\* gen_op
GenOp(op, c) ==
  LET t == OperationType(op, Below(c).t, Top(c).t)
      uop == IF Unsigned(t) THEN UnsignedOp(op) ELSE op
      both(d) == Do("gen_cast", IF op \in Shifts THEN "int" ELSE t, Vswap(Do("gen_cast", t, Vswap(d))))
      typed(d) == Retype(IF op \in Relations THEN "int" ELSE t, d)
      rvalue(d) == IF Top(d).lv THEN Gv(AnyReg, d) ELSE d
  IN rvalue(typed(GenOpic(uop, both(c))))

-----------------------------------------------------------------------------
(* vstore, inc, indir *)

Vstore(c) ==
  LET to == Below(c).t
      delayed == Top(c).t \in {"int", "uint"} /\ to = "char"
      address(d) ==
        IF Below(d).r = "llocal"
        THEN SetBelow([Value(Below(d).t, d.r, 0) EXCEPT !.lv = TRUE],
                      Emit(Read(d.r, Cell(Below(d).n), "pchar"), d))
        ELSE d
      \* get_reg only for an address that was saved
      free(d) == IF Below(d).r = "llocal" THEN GetReg(AnyReg, d) ELSE d
      store(d) == Store(Top(d).r, Below(d), d)
      result(d) == SetTop([Top(d) EXCEPT !.must = delayed], d)
  IN result(Drop(Vswap(store(address(free(Gv(AnyReg,
       IF delayed THEN Retype(to, c) ELSE Do("gen_cast", to, c))))))))

\* inc: with post the old value stays below the lvalue
Inc(post, n, c) ==
  LET store(d) == Do("vstore", 0, Do("gen_op", "+", Vsetc(IntConst(n), d)))
  IN IF post THEN Vpop(store(Vrotb3(Vrotb3(GvDup(Vdup(c)))))) ELSE store(Vdup(c))

Indir(c) ==
  LET value(d) == IF Top(d).lv THEN Gv(AnyReg, d) ELSE d
      place(d) == SetTop([Top(d) EXCEPT !.t = Pointers[@], !.lv = TRUE,
                                        !.w = LvalueType(Pointers[Top(d).t])], d)
  IN place(value(c))

-----------------------------------------------------------------------------
(* gvtst and gtst, as in CodeFlow but for values of any kind. *)

Gtst(inv, t, c) ==
  LET v == Top(c) IN
  Drop(CASE Suppressed(c) -> [c EXCEPT !.t = t]
         [] ~ Suppressed(c) /\ v.r = "cmp" ->
              Oad("jcc", IF inv THEN Opposite(v.n) ELSE v.n, t, c)
         [] ~ Suppressed(c) /\ v.r # "cmp" /\ (v.r = "jmpi") = inv ->
              IF v.n = 0 THEN [c EXCEPT !.t = t] ELSE Joined(v.n, t, c)
         [] OTHER -> Gsym(v.n, Gjmp(t, c)))

Gvtst(inv, t, c) ==
  LET test(d) == IF IsConst(Top(d)) THEN Drop(IF (Top(d).n # 0) # inv THEN Gjmp(t, d) ELSE [d EXCEPT !.t = t])
                 ELSE Gtst(inv, t, d)
  IN test(IF InFlags(Top(c)) THEN c ELSE Do("gen_op", "!=", Vsetc(IntConst(0), c)))

-----------------------------------------------------------------------------
(* Expressions *)

RECURSIVE Shortcut(_, _, _, _)
RECURSIVE Skipped(_, _, _)
RECURSIVE Arguments(_, _, _)
RECURSIVE PassArguments(_, _)

Not(c) ==
  LET jumps(d) == Vsetc(Value("int", "jmp", d.t), d) IN
  CASE IsConst(Top(c)) -> SetTop(IntConst(IF Top(c).n = 0 THEN 1 ELSE 0), c)
    [] Top(c).r = "cmp" -> SetTop([Top(c) EXCEPT !.n = Opposite(@)], c)
    [] OTHER -> jumps(Do("gvtst", <<TRUE, 0>>, SaveRegs(1, c)))

\* operands after a constant that decides: parsed, not evaluated
Skipped(es, i, c) == IF i > Len(es) THEN c ELSE Skipped(es, i + 1, Vpop(Do("expr", es[i], c)))

\* expr_land and expr_lor, from the value of operand i on
Shortcut(e, i, t, c) ==
  LET and == e.k = "and"
      end(u, d) == Vsetc(IF u = 0 THEN IntConst(IF and THEN 1 ELSE 0)
                         ELSE Value("int", IF and THEN "jmpi" ELSE "jmp", u), d)
      onward(u, d) ==
        IF i < Len(e.es) THEN Shortcut(e, i + 1, u, Do("expr", e.es[i + 1], d)) ELSE end(u, d)
      decided(d) == SetTop(IntConst(IF and THEN 0 ELSE 1), Gsym(t, Unmute(Skipped(e.es, i + 1, Mute(d)))))
      tested(d) == onward(d.t, d)
  IN CASE IsConst(Top(c)) /\ (Top(c).n # 0) = and -> onward(t, Vpop(c))
       [] IsConst(Top(c)) /\ (Top(c).n # 0) # and -> decided(c)
       [] OTHER -> tested(Do("gvtst", <<and, t>>, IF t = 0 THEN SaveRegs(1, c) ELSE c))

CondType(t1, t2) == IF IsPointer(t1) THEN t1 ELSE Common(t1, t2)

\* expr_cond with a constant condition: the other operand is muted
CondKnown(e, n, c) ==
  LET first(sv, d) == Do("gen_cast", CondType(sv.t, Top(d).t), SetTop(sv, d))
      second(sv, d) == Do("gen_cast", CondType(sv.t, Top(d).t), d)
      true(d) == first(Top(d), Unmute(Do("expr", e.y, Mute(Drop(d)))))
      false(d) == second(Top(d), Do("expr", e.y, Unmute(Drop(d))))
  IN IF n # 0 THEN true(Do("expr", e.x, c)) ELSE false(Do("expr", e.x, Mute(c)))

\* Otherwise the code of the second operand loads it to a register; the value
\* sv of the first is loaded after it, where u lands, and moved to that one.
CondTested(e, c) ==
  LET class(t) == IF t \in {"llong", "ullong"} THEN {"rax"} ELSE AnyReg
      moved(r, t, over, d) == Gsym(over, SetTop(Value(t, r, 0), MoveReg(r, d.r, d)))
      first(u, sv, t, r, d) == moved(r, t, d.t, Gv(class(t), Do("gen_cast", t, SetTop(sv, Gsym(u, d)))))
      loaded(u, sv, t, d) == first(u, sv, t, d.r, Gjmp(0, d))
      second(u, sv, t, d) == loaded(u, sv, t, Gv(class(t), Do("gen_cast", t, d)))
      typed(u, sv, d) == second(u, sv, CondType(sv.t, Top(d).t), d)
      other(sv, d) == typed(d.t, sv, Do("expr", e.y, Gsym(c.t, d)))
      operand(d) == other(Top(d), Gjmp(0, Drop(d)))
  IN operand(Do("expr", e.x, c))

ExprCond(e, c) ==
  LET choose(d) == IF IsConst(Top(d)) THEN CondKnown(e, Top(d).n, Drop(d))
                   ELSE CondTested(e, Do("gvtst", <<TRUE, 0>>, SaveRegs(1, Gv(AnyReg, d))))
  IN choose(Do("expr", e.e, c))

-----------------------------------------------------------------------------
(* Calls: the arguments are taken from the stack from the last to the      *)
(* first and wait in registers that get_reg never gives out.               *)

ArgRegs == <<"r10", "r11", "r8", "r9">>
Promoted(t) == IF t = "char" THEN "int" ELSE t

\* parameters ps = <<>>: no prototype, nothing is converted
Arguments(e, i, c) ==
  LET param(d) == IF e.ps = <<>> THEN d ELSE Do("gen_cast", e.ps[i], d)
  IN IF i > Len(e.es) THEN c ELSE Arguments(e, i + 1, param(Do("expr", e.es[i], c)))

PassArguments(n, c) ==
  LET pass(d) == Drop(Emit([op |-> "copy", to |-> ArgRegs[n], from |-> d.r], d))
  IN IF n = 0 THEN c ELSE PassArguments(n - 1, pass(Gv(AnyReg, c)))

GfuncCall(e, n, c) ==
  LET types == [i \in 1 .. n |-> Promoted(c.vs[Len(c.vs) - n + i].t)]
      first(d) == IF n > 0 THEN Emit([op |-> "copy", to |-> "rcx", from |-> "r10"], d) ELSE d
      second(d) == IF n > 1 THEN Emit([op |-> "copy", to |-> "rdx", from |-> "r11"], d) ELSE d
      call(d) == Emit([op |-> "call", id |-> e.id, t |-> e.t, args |-> types], d)
      clean(d) == IF e.t = "char" THEN Emit([op |-> "movsbl"], d) ELSE d
  IN Vsetc(Value(e.t, "rax", 0), Drop(clean(call(second(first(SaveRegs(0, PassArguments(n, c))))))))

-----------------------------------------------------------------------------
(* unary and the binary operators *)

Expr(e, c) ==
  CASE e.k = "num" -> Vsetc(Value(e.t, "const", e.n % 2 ^ LongBits), c)
    [] e.k = "var" -> Vsetc(Lvalue(Variables[e.n], "local", e.n), c)
    [] e.k = "deref" -> Indir(Do("expr", e.e, c))
    [] e.k = "cast" -> Do("gen_cast", e.t, Do("expr", e.e, c))
    [] e.k = "neg" -> Do("gen_op", "-", Vswap(Vsetc(IntConst(0), Do("expr", e.e, c))))
    [] e.k = "bnot" -> Do("gen_op", "^", Vsetc(IntConst(-1), Do("expr", e.e, c)))
    [] e.k = "plus" -> Do("gen_op", "+", Vsetc(IntConst(0), Do("expr", e.e, c)))
    [] e.k = "not" -> Not(Do("expr", e.e, c))
    [] e.k = "bin" -> Do("gen_op", e.op, Do("expr", e.y, Do("expr", e.x, c)))
    [] e.k \in {"and", "or"} -> Shortcut(e, 1, 0, Do("expr", e.es[1], c))
    [] e.k = "cond" -> ExprCond(e, c)
    [] e.k = "comma" -> Do("expr", e.y, Vpop(Do("expr", e.x, c)))
    [] e.k = "assign" -> Do("vstore", 0, Do("expr", e.y, Do("expr", e.x, c)))
    [] e.k = "update" -> Do("vstore", 0, Do("gen_op", e.op, Do("expr", e.y, Vdup(Do("expr", e.x, c)))))
    [] e.k \in {"pre", "post"} -> Inc(e.k = "post", e.n, Do("expr", e.e, c))
    [] e.k = "call" -> GfuncCall(e, Len(e.es), Arguments(e, 1, Vsetc(Value("func", "sym", e.id), c)))

\* `return e;' in a function of type t
Return(e, t, c) ==
  Emit([op |-> "ret"], Gv({"rax"}, Do("gen_cast", t, Do("expr", e, c))))

Do(f, x, c) ==
  CASE f = "gen_op" -> GenOp(x, c)
    [] f = "gen_opi" -> GenOpi(x, c)
    [] f = "gen_cast" -> GenCast(x, c)
    [] f = "vstore" -> Vstore(c)
    [] f = "gvtst" -> Gvtst(x[1], x[2], c)
    [] f = "expr" -> Expr(x, c)
    [] f = "return" -> Return(x.e, x.t, c)

\* the code of a function f.t f() { return f.e; }
Compile(f) ==
  Do("return", f, [code |-> <<>>, dead |-> FALSE, mute |-> 0, t |-> 0,
                   vs |-> <<>>, r |-> "rax", loc |-> Len(Variables)]).code

=============================================================================
