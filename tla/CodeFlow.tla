------------------------------ MODULE CodeFlow ------------------------------
(***************************************************************************)
(* How tccgen.c and x86_64-gen.c turn the control flow of a function into  *)
(* jumps: block, the conditional operators, gvtst, gtst and the chains of  *)
(* jumps that wait for their target, gcase, labels, and the suppression of *)
(* code that cannot be reached (nocode_wanted).                            *)
(*                                                                         *)
(* The compiler is one pass, so each of its functions is an operator from  *)
(* the state it finds to the state it leaves.  The state is a record c,    *)
(* with the fields of CodeBuffer and:                                      *)
(*   v       vtop: [r |-> "const" | "cmp" | "jmp" | "jmpi" | "reg", n]      *)
(*   rsym    chain of the jumps of return                                  *)
(*   bsym, csym  chains of break and continue                              *)
(*   labels  for each label [r |-> "none" | "forward" | "defined", jnext]   *)
(*   sw      cur_switch: cases [v1, v2, sym] and the address of default    *)
(*   scope   local_scope                                                   *)
(*                                                                         *)
(* Statements and expressions are records with a kind k.  Calls and        *)
(* comparisons stand for all expressions with effects: each has an id by   *)
(* which CodeFlowRef and the emitted code agree on what they do.           *)
(***************************************************************************)
EXTENDS CodeBuffer, SequencesExt

CONSTANTS
  IntBits,   \* width of int in switch
  LongBits,  \* width of long long, and of the constants of case
  Labels     \* identifiers used as labels

ASSUME WidthAssumption == IntBits \in Nat \ {0} /\ LongBits \in Nat /\ LongBits > IntBits

-----------------------------------------------------------------------------
(* Integers of the types a switch can have. *)

Signed(n, bits) == ((n + 2 ^ (bits - 1)) % 2 ^ bits) - 2 ^ (bits - 1)

ToType(n, type) ==
  CASE type = "int"    -> Signed(n, IntBits)
    [] type = "uint"   -> n % 2 ^ IntBits
    [] type = "llong"  -> Signed(n, LongBits)
    [] type = "ullong" -> n % 2 ^ LongBits

-----------------------------------------------------------------------------
(* Values: gv, vpop, gtst, gvtst. *)

Const(n) == [r |-> "const", n |-> n]
Cmp(when) == [r |-> "cmp", n |-> when]
Jmp(t) == [r |-> "jmp", n |-> t]
Jmpi(t) == [r |-> "jmpi", n |-> t]
Reg == [r |-> "reg", n |-> 0]

SetV(v, c) == [c EXCEPT !.v = v]

\* what the value of a jump list is where the jumps go
Taken(v) == IF v.r = "jmp" THEN 1 ELSE 0

\* load into a register; for a jump list `mov, jmp over, mov'
Gv(c) ==
  LET mov(n) == [op |-> "mov", n |-> n]
      over(d) == [op |-> "jmp", when |-> TRUE, to |-> Ind(d) + 2]
  IN CASE c.v.r = "reg" -> c
       [] c.v.r = "const" -> SetV(Reg, Emit(mov(c.v.n), c))
       [] c.v.r = "cmp" -> SetV(Reg, Emit([op |-> "setcc", when |-> c.v.n], c))
       [] c.v.r \in {"jmp", "jmpi"} ->
            LET d == Emit(mov(1 - Taken(c.v)), c)
                e == Gsym(c.v.n, Emit(over(d), d))
            IN SetV(Reg, Emit(mov(Taken(c.v)), e))

Vpop(c) == IF c.v.r \in {"jmp", "jmpi"} THEN Gsym(c.v.n, c) ELSE c

\* Jump if the value is # 0, or with inv if it is 0; the jump joins t.
Gtst(inv, t, c) ==
  LET v == c.v IN
  CASE Suppressed(c) -> [c EXCEPT !.t = t]
    [] ~ Suppressed(c) /\ v.r = "cmp" -> Oad("jcc", v.n # inv, t, c)
    [] ~ Suppressed(c) /\ v.r # "cmp" /\ (v.r = "jmpi") = inv ->
         IF v.n = 0 THEN [c EXCEPT !.t = t]
         ELSE Joined(v.n, t, c)
    [] OTHER -> Gsym(v.n, Gjmp(t, c))

Gvtst(inv, t, c) ==
  CASE c.v.r = "const" -> IF (c.v.n # 0) # inv THEN Gjmp(t, c) ELSE [c EXCEPT !.t = t]
    [] c.v.r = "reg" -> Gtst(inv, t, SetV(Cmp(TRUE), Emit([op |-> "cmp0"], c)))
    [] OTHER -> Gtst(inv, t, c)

-----------------------------------------------------------------------------
(* Expressions: unary !, expr_land, expr_lor, expr_cond. *)

RECURSIVE Expr(_, _)
RECURSIVE Shortcut(_, _, _, _)
RECURSIVE Skipped(_, _, _)

\* operands after a constant that decides: parsed, not evaluated
Skipped(es, i, c) == IF i > Len(es) THEN c ELSE Skipped(es, i + 1, Vpop(Expr(es[i], c)))

\* expr_land (and) and expr_lor, from the value of operand i on; t collects
\* the jumps of the operands that decide
Shortcut(e, i, t, c) ==
  LET and == e.k = "and"
      onward(u, d) ==
        IF i < Len(e.es) THEN Shortcut(e, i + 1, u, Expr(e.es[i + 1], d))
        ELSE SetV(CASE u = 0 -> Const(IF and THEN 1 ELSE 0)
                    [] u # 0 /\ and -> Jmpi(u)
                    [] OTHER -> Jmp(u), d)
      tested == Gvtst(and, t, c)
  IN CASE c.v.r = "const" /\ (c.v.n # 0) = and -> onward(t, c)
       [] c.v.r = "const" /\ (c.v.n # 0) # and ->
            SetV(Const(IF and THEN 0 ELSE 1),
                 Gsym(t, Unmute(Skipped(e.es, i + 1, Mute(c)))))
       [] OTHER -> onward(tested.t, tested)

\* expr_cond with a constant condition: the other operand is muted
CondKnown(e, n, c) ==
  LET keep(x) == SetV(x.v, Unmute(Expr(e.y, Mute(x)))) IN
  IF n # 0 THEN keep(Expr(e.x, c)) ELSE Expr(e.y, Unmute(Expr(e.x, Mute(c))))

\* otherwise, after the test: the first operand's value is loaded after the
\* code of the second, so that both end in the same register
CondTested(e, c) ==
  LET join(x, j, k) == Gsym(k.t, Gv(SetV(x.v, Gsym(j.t, k))))
      second(x, j) == join(x, j, Gjmp(0, Gv(Expr(e.y, Gsym(c.t, j)))))
      first(x) == second(x, Gjmp(0, x))
  IN first(Expr(e.x, c))

ExprCond(e, c) ==
  LET choose(d) == IF d.v.r = "const" THEN CondKnown(e, d.v.n, d)
                   ELSE CondTested(e, Gvtst(TRUE, 0, Gv(d)))
  IN choose(Expr(e.e, c))

Not(c) ==
  LET d == Gvtst(TRUE, 0, c) IN
  CASE c.v.r = "const" -> SetV(Const(IF c.v.n = 0 THEN 1 ELSE 0), c)
    [] c.v.r = "cmp" -> SetV(Cmp(~ c.v.n), c)
    [] OTHER -> SetV(Jmp(d.t), d)

Expr(e, c) ==
  CASE e.k = "const" -> SetV(Const(e.n), c)
    [] e.k \in {"call", "act"} -> SetV(Reg, Emit([op |-> e.k, id |-> e.id], c))
    [] e.k = "cmp" -> SetV(Cmp(TRUE), Emit([op |-> "cmp", id |-> e.id], c))
    [] e.k = "not" -> Not(Expr(e.e, c))
    [] e.k \in {"and", "or"} -> Shortcut(e, 1, 0, Expr(e.es[1], c))
    [] e.k = "cond" -> ExprCond(e, c)

-----------------------------------------------------------------------------
(* gcase: the comparisons that find the case of a value in a register. *)

RECURSIVE Gcase(_, _, _)
RECURSIVE Linear(_, _, _)

Compare(rel, n, type, c) ==
  LET const == IF type \in {"llong", "ullong"} THEN n ELSE Signed(n, IntBits)
  IN Emit([op |-> "cmpv", rel |-> rel, n |-> const, type |-> type], c)

JumpIf(a, c) == Emit([op |-> "jcc", when |-> TRUE, to |-> a], c)

\* v1 <= x <= v2
InCase(p, type, c) ==
  LET c1 == Oad("jcc", FALSE, 0, Compare("LE", p.v2, type, c))
  IN Gsym(c1.t, JumpIf(p.sym, Compare("GE", p.v1, type, c1)))

Linear(cs, type, c) ==
  IF cs = <<>> THEN c
  ELSE LET p == Head(cs) IN
       Linear(Tail(cs), type,
              IF p.v1 = p.v2 THEN JumpIf(p.sym, Compare("EQ", p.v2, type, c))
              ELSE InCase(p, type, c))

\* to the default, or out of the switch
NoCase(c) ==
  IF c.sw.def # 0 THEN GjmpAddr(c.sw.def, c)
  ELSE LET d == Gjmp(c.bsym, c) IN [d EXCEPT !.bsym = d.t]

Gcase(cs, type, c) ==
  IF Len(cs) <= 4 THEN Linear(cs, type, c)
  ELSE LET p == cs[Len(cs) \div 2 + 1]
           c1 == Oad("jcc", FALSE, 0, Compare("LE", p.v2, type, c))
           c2 == JumpIf(p.sym, Compare("GE", p.v1, type, c1))
           c3 == NoCase(Gcase(SubSeq(cs, 1, Len(cs) \div 2), type, c2))
       IN Gcase(SubSeq(cs, Len(cs) \div 2 + 2, Len(cs)), type, Gsym(c1.t, c3))

-----------------------------------------------------------------------------
(* Statements: block.  closes says whether the token after the statement   *)
(* is the closing brace.                                                    *)

RECURSIVE Block(_, _, _)
RECURSIVE Stmts(_, _)

Live(c) == [c EXCEPT !.dead = FALSE]
Dead(c) == [c EXCEPT !.dead = TRUE]
Known(v) == IF v.r = "const" THEN IF v.n # 0 THEN 1 ELSE 0 ELSE -1

Condition(e, c) == Gvtst(TRUE, 0, Expr(e, c))

Stmts(ss, c) ==
  IF ss = <<>> THEN c ELSE Stmts(Tail(ss), Block(Head(ss), Len(ss) = 1, c))

DeadIf(b, c) == IF b THEN Dead(c) ELSE c
RestoreIf(b, saved, c) == IF b THEN [c EXCEPT !.dead = saved] ELSE c

\* the statement after else; cond is the value of the condition if it is
\* known, exit the chain of its jumps, and c.t the jump over the statement
Else(s, closes, cond, exit, saved, c) ==
  RestoreIf(cond # 0, saved,
            Gsym(c.t, Block(s.t, closes, DeadIf(cond = 1, Gsym(exit, c)))))

If(s, closes, c) ==
  LET after(cond, exit, d) ==
        IF s.k = "if" THEN Gsym(exit, d) ELSE Else(s, closes, cond, exit, c.dead, Gjmp(0, d))
      then(cond, d) ==
        after(cond, d.t,
              RestoreIf(cond # 1, c.dead, Block(s.s, closes /\ s.k = "if", DeadIf(cond = 0, d))))
      test(d) == then(Known(d.v), IF Known(d.v) = 1 THEN [d EXCEPT !.t = 0] ELSE Gvtst(TRUE, 0, d))
  IN test(Expr(s.e, c))

\* the body of a loop with its own chains, from the chain of the exit
Body(s, closes, exit, c) ==
  LET d == Block(s, closes, [c EXCEPT !.bsym = exit, !.csym = 0])
  IN [d EXCEPT !.dead = c.dead]

\* the jump back to the top, the exits and the continues
CloseLoop(top, outer, c) ==
  LET d == GsymAddr(c.csym, top, Gsym(c.bsym, GjmpAddr(top, c)))
  IN [d EXCEPT !.bsym = outer.bsym, !.csym = outer.csym, !.scope = outer.scope]

Deeper(c) == [c EXCEPT !.scope = @ + 1]

While(s, closes, c) ==
  LET loop(d) == CloseLoop(Ind(c), c, Body(s.s, closes, d.t, Deeper(d)))
  IN loop(Condition(s.e, Live(c)))

\* the increment is compiled before the body and jumped over
For(s, closes, c) ==
  LET start == Deeper(Live(c))
      step(d, j) == CloseLoop(Ind(j), c, Body(s.s, closes, d.t,
                              Gsym(j.t, GjmpAddr(Ind(c), Vpop(Expr(s.inc, j))))))
      loop(d) == IF s.inc.k = "none" THEN CloseLoop(Ind(c), c, Body(s.s, closes, d.t, d))
                 ELSE step(d, Gjmp(0, d))
  IN loop(IF s.e.k = "none" THEN [start EXCEPT !.t = 0] ELSE Condition(s.e, start))

\* nocode_wanted is restored after the condition only
Do(s, c) ==
  LET leave(exit, d) == [Gsym(exit, Live(GsymAddr(d.t, Ind(c), d)))
                           EXCEPT !.bsym = c.bsym, !.csym = c.csym]
      test(d) == leave(d.bsym, Gvtst(FALSE, 0, Expr(s.e, Gsym(d.csym, d))))
  IN test(Block(s.s, FALSE, [Live(c) EXCEPT !.bsym = 0, !.csym = 0]))

\* Cases are sorted by their first value; two that share a value are an
\* error, so programs here have none.
Switch(s, closes, c) ==
  LET sorted(cases) == SortSeq(cases, LAMBDA p, q : p.v1 < q.v1)
      leave(d) == [Gsym(d.bsym, IF d.sw.def # 0 THEN GjmpAddr(d.sw.def, d) ELSE d)
                     EXCEPT !.bsym = c.bsym, !.sw = c.sw]
      find(first, d) ==
        leave(Gcase(sorted(d.sw.cases), s.type, Gsym(first, [d EXCEPT !.bsym = d.t])))
      ended(d) == Gjmp(d.bsym, [d EXCEPT !.dead = c.dead])
      body(d) == find(d.t, ended(Block(s.s, closes,
                              [d EXCEPT !.bsym = 0, !.sw = [cases |-> <<>>, def |-> 0]])))
  IN body(Gjmp(0, Emit([op |-> "sw", id |-> s.id, type |-> s.type], c)))

Goto(l, c) ==
  LET lab == c.labels[l]
      d == Gjmp(lab.jnext, c)
  IN IF lab.r = "defined" THEN GjmpAddr(lab.jnext, c)
     ELSE [d EXCEPT !.labels[l] = [r |-> "forward", jnext |-> d.t]]

Define(l, c) ==
  [Gsym(IF c.labels[l].r = "forward" THEN c.labels[l].jnext ELSE 0, c)
     EXCEPT !.labels[l] = [r |-> "defined", jnext |-> Ind(c)]]

Case(s, c) ==
  [c EXCEPT !.sw.cases = Append(@, [v1 |-> Signed(s.lo, LongBits),
                                    v2 |-> Signed(s.hi, LongBits), sym |-> Ind(c)])]

\* mistake: the last statement of any block counts as the last of the function
ReturnAnywhere(closes, c) ==
  LET d == Gjmp(c.rsym, c) IN
  IF closes THEN Dead(c) ELSE Dead([d EXCEPT !.rsym = d.t])

\* `jump unless last stmt in top-level block'
Return(closes, c) ==
  LET d == Gjmp(c.rsym, c) IN
  IF closes /\ c.scope = 1 THEN Dead(c) ELSE Dead([d EXCEPT !.rsym = d.t])

Block(s, closes, c) ==
  CASE s.k = "expr" -> Vpop(Expr(s.e, c))
    [] s.k = "set" -> Emit([op |-> "set", id |-> s.id], Gv(Expr(s.e, c)))
    [] s.k \in {"if", "ifelse"} -> If(s, closes, c)
    [] s.k = "while" -> While(s, closes, c)
    [] s.k = "for" -> For(s, closes, c)
    [] s.k = "do" -> Do(s, c)
    [] s.k = "block" -> [Stmts(s.ss, Deeper(c)) EXCEPT !.scope = c.scope]
    [] s.k = "switch" -> Switch(s, closes, c)
    [] s.k = "case" -> Block(s.s, closes, Live(Case(s, Live(c))))
    [] s.k = "default" -> Block(s.s, closes, Live([c EXCEPT !.sw.def = Ind(c)]))
    [] s.k = "label" -> Block(s.s, closes, Live(Define(s.l, c)))
    [] s.k = "goto" -> Goto(s.l, c)
    [] s.k = "return" -> Return(closes, c)
    [] s.k = "break" -> LET d == Gjmp(c.bsym, c) IN Dead([d EXCEPT !.bsym = d.t])
    [] s.k = "continue" -> LET d == Gjmp(c.csym, c) IN [d EXCEPT !.csym = d.t]

\* gen_function
Compile(body) ==
  LET start == [code |-> <<>>, dead |-> FALSE, mute |-> 0, v |-> Reg, t |-> 0,
                rsym |-> 0, bsym |-> 0, csym |-> 0,
                labels |-> [l \in Labels |-> [r |-> "none", jnext |-> 0]],
                sw |-> [cases |-> <<>>, def |-> 0], scope |-> 0]
      close(c) == Append(Gsym(c.rsym, c).code, [op |-> "end"])
  IN close(Live(Block([k |-> "block", ss |-> body], FALSE, start)))

=============================================================================
