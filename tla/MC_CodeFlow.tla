---------------------------- MODULE MC_CodeFlow ----------------------------
(***************************************************************************)
(* The code CodeFlow emits for a function, executed side by side with the  *)
(* function as CodeFlowRef reads it: from event to event, with every       *)
(* outcome the calls and comparisons can have.                             *)
(***************************************************************************)
EXTENDS CodeFlow, FiniteSets

CONSTANTS
  Programs,  \* the functions compiled: sets of bodies, which are sequences of statements
  Fuel       \* bound: steps without an event before a run counts as endless

VARIABLES
  body,   \* the function
  code,   \* what it was compiled to
  at,     \* the processor: address, flag, register
  rest    \* CodeFlowRef: the rest of the run

vars == <<body, code, at, rest>>

C == INSTANCE CodeFlowRef

-----------------------------------------------------------------------------
(* The processor. *)

Silent == {"jmp", "jcc", "mov", "setcc", "cmp0", "cmpv"}

Truth(b) == IF b THEN 1 ELSE 0

\* the comparison of a switch: in int, or unsigned if the value is; long long
\* always compares signed
Holds(rel, x, n, type) ==
  LET to == IF type = "ullong" THEN "llong" ELSE type
      a == ToType(x, to)
      b == ToType(n, to)
  IN CASE rel = "EQ" -> a = b [] rel = "LE" -> a <= b [] rel = "GE" -> a >= b

Execute(p, m) ==
  LET i == p[m.pc] IN
  CASE i.op = "jmp" -> [m EXCEPT !.pc = i.to]
    [] i.op = "jcc" -> [m EXCEPT !.pc = IF m.flag = Truth(i.when) THEN i.to ELSE @ + 1]
    [] i.op = "mov" -> [m EXCEPT !.pc = @ + 1, !.reg = i.n]
    [] i.op = "setcc" -> [m EXCEPT !.pc = @ + 1, !.reg = Truth(m.flag = Truth(i.when))]
    [] i.op = "cmp0" -> [m EXCEPT !.pc = @ + 1, !.flag = Truth(m.reg # 0)]
    [] i.op = "cmpv" -> [m EXCEPT !.pc = @ + 1, !.flag = Truth(Holds(i.rel, m.reg, i.n, i.type))]

\* what the processor does to the outside; a stray jump is an event of its own
EventOf(p, m) ==
  IF m.pc \notin DOMAIN p THEN <<"stray">>
  ELSE LET i == p[m.pc] IN
       CASE i.op \in {"call", "cmp", "act"} -> <<i.op, i.id>>
         [] i.op = "set" -> <<"set", i.id, m.reg>>
         [] i.op = "sw" -> <<"sw", i.id, i.type>>
         [] i.op = "end" -> <<"end">>
         [] OTHER -> <<"none">>

\* what a call leaves in flags and registers it does not set
Junk == 9

RECURSIVE RunTo(_, _, _)
RunTo(p, m, fuel) ==
  IF fuel = 0 \/ EventOf(p, m) # <<"none">> THEN m ELSE RunTo(p, Execute(p, m), fuel - 1)

-----------------------------------------------------------------------------

Outcomes(event) ==
  CASE event[1] \in {"call", "cmp"} -> {0, 1}
    [] event[1] = "sw" ->
         {ToType(n, event[3]) : n \in 0 .. 2 ^ (IF event[3] \in {"int", "uint"} THEN IntBits ELSE LongBits) - 1}
    [] OTHER -> {1}

Init ==
  /\ \E P \in Programs : body \in P
  /\ code = <<>>
  /\ at = [pc |-> 1, flag |-> Junk, reg |-> Junk]
  /\ rest = body

Build ==
  /\ code = <<>>
  /\ \E p \in {Compile(body)} :
       /\ code' = p
       /\ at' = RunTo(p, at, Fuel)
  /\ rest' = C!Run(body, body, Fuel)
  /\ UNCHANGED body

event == EventOf(code, at)

Resume(o) ==
  LET op == code[at.pc].op IN
  [pc |-> at.pc + 1,
   flag |-> IF op = "cmp" THEN o ELSE Junk,
   reg |-> IF op \in {"call", "sw"} THEN o ELSE Junk]

Proceed ==
  /\ code # <<>>
  /\ event \notin {<<"end">>, <<"none">>, <<"stray">>}
  /\ event = C!Event(rest)
  /\ \E o \in Outcomes(event) :
       /\ at' = RunTo(code, Resume(o), Fuel)
       /\ rest' = C!Run(C!After(rest, o), body, Fuel)
  /\ UNCHANGED <<body, code>>

Next == Build \/ Proceed

Spec == Init /\ [][Next]_vars

-----------------------------------------------------------------------------

\* The code of a function has no jump that waits for its target, in what can
\* be executed or not (gsym_addr, label_pop): all chains were patched.
JumpsLand == \A a \in DOMAIN code : code[a].op \in {"jmp", "jcc"} => code[a].to \in DOMAIN code

\* At every event of the code the function, read as C, has the same event:
\* the same call, comparison or assigned value, the end of the function, or
\* a loop without events.
SameEvent == code # <<>> => event = C!Event(rest)

-----------------------------------------------------------------------------
(* Functions.  Leaves get ids from where they stand, so that no two parts  *)
(* of a function look alike.                                               *)

True == [k |-> "const", n |-> 1]
False == [k |-> "const", n |-> 0]
None == [k |-> "none"]
Call(i) == [k |-> "call", id |-> i]
CmpOf(i) == [k |-> "cmp", id |-> i]
NotE(e) == [k |-> "not", e |-> e]
Choose(e, s, t) == [k |-> "ifelse", e |-> e, s |-> s, t |-> t]
Act(i) == [k |-> "expr", e |-> [k |-> "act", id |-> i]]
Seq2(s, t) == [k |-> "block", ss |-> <<s, t>>]
IfS(e, s) == [k |-> "if", e |-> e, s |-> s]
WhileS(e, s) == [k |-> "while", e |-> e, s |-> s]
DoS(s, e) == [k |-> "do", s |-> s, e |-> e]
ForS(e, inc, s) == [k |-> "for", e |-> e, inc |-> inc, s |-> s]
LabelS(l, s) == [k |-> "label", l |-> l, s |-> s]
GotoS(l) == [k |-> "goto", l |-> l]
Break == [k |-> "break"]
Continue == [k |-> "continue"]
Return0 == [k |-> "return"]
CondE(e, x, y) == [k |-> "cond", e |-> e, x |-> x, y |-> y]

\* conditions
Atoms(i) == {True, False, Call(i), CmpOf(i), NotE(Call(i))}
Pairs(X, Y) == { [k |-> op, es |-> <<x, y>>] : op \in {"and", "or"}, x \in X, y \in Y }
Mixed(i) == {True, False, CmpOf(i)}
Deep ==
  Pairs(Atoms(1), Atoms(2))
  \cup { NotE(e) : e \in Pairs(Atoms(1), Atoms(2)) }
  \cup Pairs(Pairs(Mixed(1), Mixed(2)) \cup { NotE(e) : e \in Pairs(Mixed(1), Mixed(2)) },
             Pairs(Mixed(3), Mixed(4)) \cup Mixed(3))
  \cup { [k |-> op, es |-> <<x, y, z>>] : op \in {"and", "or"}, x \in Mixed(1), y \in Mixed(2), z \in Mixed(3) }
  \cup { CondE(x, y, z) : x \in Atoms(1) \cup Pairs(Mixed(1), Mixed(2)), y \in Mixed(3) \cup Pairs(Mixed(3), Mixed(4)), z \in Mixed(5) }
  \cup Pairs({ CondE(x, y, z) : x \in Mixed(1), y \in Mixed(2), z \in Mixed(3) }, Mixed(4))

\* every context a condition of E can have
Conditions(E) ==
  { { <<IfS(e, Act(11)), Act(13)>> : e \in E },
    { <<Choose(e, Act(11), Act(12)), Act(13)>> : e \in E },
    { <<WhileS(e, Act(11)), Act(13)>> : e \in E },
    { <<DoS(Act(11), e), Act(13)>> : e \in E },
    { <<ForS(e, e, Act(11)), Act(13)>> : e \in E },
    { <<[k |-> "set", id |-> 11, e |-> e], Act(13)>> : e \in E },
    { <<[k |-> "expr", e |-> e], Act(13)>> : e \in E } }

-----------------------------------------------------------------------------
\* statements of a loop body
Leaves(i) == {Act(i), Break, Continue, Return0, GotoS("A")}
Inner(i) ==
  Leaves(i)
  \cup { IfS(e, x) : e \in Mixed(i), x \in Leaves(i + 1) }
  \cup { Choose(e, x, y) : e \in Mixed(i), x \in Leaves(i + 1), y \in Leaves(i + 2) }

Loops(s, i) ==
  { WhileS(Call(i), s), WhileS(True, s), ForS(None, None, s),
    ForS(CmpOf(i), [k |-> "act", id |-> i + 1], s), DoS(s, Call(i)), DoS(s, False) }

\* does the compiler take the end of s to be out of reach?
RECURSIVE EndsDead(_)
EndsDead(s) ==
  CASE s.k \in {"break", "return"} -> TRUE
    [] s.k = "block" -> EndsDead(s.ss[Len(s.ss)])
    [] s.k \in {"if", "ifelse"} /\ s.e = True -> EndsDead(s.s)
    [] s.k = "ifelse" /\ s.e = False -> EndsDead(s.t)
    [] OTHER -> FALSE

RECURSIVE Continues(_)
Continues(s) ==
  CASE s.k = "continue" -> TRUE
    [] s.k = "block" -> \E j \in DOMAIN s.ss : Continues(s.ss[j])
    [] s.k = "if" -> Continues(s.s)
    [] s.k = "ifelse" -> Continues(s.s) \/ Continues(s.t)
    [] OTHER -> FALSE

\* `do' loops whose condition can be reached only through continue
LostCondition(s) == s.k = "do" /\ EndsDead(s.s) /\ Continues(s.s)

Around(s) ==
  { <<LabelS("A", Act(1)), s, Act(2)>>, <<s, Act(1), LabelS("A", Act(2))>> }

OneLoop ==
  UNION { Loops(Seq2(x, y), 20) : x \in Inner(10),
                                  y \in Leaves(15) \cup {LabelS("A", Act(15))} }

TwoLoops ==
  UNION { Loops(Seq2(l, IfS(CmpOf(35), z)), 30) :
            l \in UNION { Loops(Seq2(IfS(CmpOf(10), x), Act(15)), 20) : x \in Leaves(12) },
            z \in Leaves(36) }

LoopFunctions(LoopSet) ==
  UNION { IF l.s.ss[2].k = "label" THEN {<<l, Act(2)>>, <<Return0, l, Act(2)>>} ELSE Around(l)
          : l \in { m \in LoopSet : ~ LostCondition(m) } }
  \cup { <<LabelS("A", Act(1)), IfS(Call(2), Return0), x>> : x \in {Return0, IfS(Call(3), Return0)} }

-----------------------------------------------------------------------------
\* Cases: each value of the sequence D is outside (0), begins a case (1) or
\* is in the case of the value before (2).
Layouts == { f \in [1 .. 8 -> 0 .. 2] : \A j \in 1 .. 8 : f[j] = 2 => j > 1 /\ f[j - 1] # 0 }

CaseS(lo, hi, s) == [k |-> "case", lo |-> lo, hi |-> hi, s |-> s]
LastIn(f, j) == CHOOSE h \in j .. 8 : (\A m \in j + 1 .. h : f[m] = 2) /\ (h = 8 \/ f[h + 1] # 2)

\* every second case falls through to the next
CaseList(D, f) ==
  LET starts == { j \in 1 .. 8 : f[j] = 1 }
      one(j) == IF j % 2 = 0 THEN <<CaseS(D[j], D[LastIn(f, j)], Act(j))>>
                ELSE <<CaseS(D[j], D[LastIn(f, j)], Act(j)), Break>>
  IN FlattenSeq([j \in 1 .. 8 |-> IF j \in starts THEN one(j) ELSE <<>>])

SwitchOn(type, ss) ==
  [k |-> "switch", id |-> 20, type |-> type, s |-> [k |-> "block", ss |-> ss]]
DefaultS(s) == [k |-> "default", s |-> s]

Switches(type, D, LayoutSet) ==
  UNION { { <<SwitchOn(type, <<Act(10)>> \o CaseList(D, f)), Act(12)>>,
            <<SwitchOn(type, <<DefaultS(Act(11))>> \o Reverse(CaseList(D, f))), Act(12)>> }
          : f \in LayoutSet }

NotAcross(j) == { f \in Layouts : f[j] # 2 }
Several == { f \in Layouts : Cardinality({ j \in 1 .. 8 : f[j] = 1 }) > 3 }
SwitchFunctions ==
  {Switches("int", [j \in 1 .. 8 |-> j - 5], Layouts),
   Switches("uint", [j \in 1 .. 8 |-> j - 1], Several),
   Switches("llong", <<-8, -7, -4, -1, 0, 1, 5, 7>>, Several),
   Switches("ullong", <<0, 1, 5, 7, 8, 11, 14, 15>>, Several \cap NotAcross(5))}

\* switches in loops, and with a label that is reached from outside
SwitchIn(x, y, z) ==
  SwitchOn("int", <<CaseS(0, 0, x), CaseS(1, 2, y), DefaultS(z), Act(14)>>)
MixedFunctions ==
  UNION { { <<LabelS("A", Act(1)), l, Act(2)>>
              : l \in Loops(Seq2(SwitchIn(x, y, IfS(Call(12), z)), Act(15)), 30) }
          : x \in Leaves(10), y \in Leaves(11), z \in Leaves(13) }
  \cup { <<Act(1), SwitchIn(x, LabelS("A", y), [SwitchOn("int", <<CaseS(1, 1, z)>>) EXCEPT !.id = 21]),
           IfS(Call(2), GotoS("A"))>>
         : x \in {Act(10), Break, Return0}, y \in {Act(11), Break, Return0},
           z \in Leaves(13) \ {Continue} }

\* All of the above: labels and cases stand in statement lists, the code
\* before the condition of `do' is in reach, case constants are in range.
RegularFunctions ==
  {LoopFunctions(OneLoop), LoopFunctions(TwoLoops), MixedFunctions}
    \cup Conditions(Deep) \cup SwitchFunctions

\* What RegularFunctions leaves out.
\*   do { ... continue; break; } while (f());
\*   if (f()) goto A; return; if (f()) { A: f(); } f();
\*   if (f()) goto A; if (0) { A: f(); } else return; f();
UnreachedStart ==
  { { <<l, Act(2)>> : l \in { DoS(Seq2(IfS(Call(1), Continue), Break), Call(3)) } },
    { <<IfS(Call(1), GotoS("A")), Return0, IfS(Call(2), LabelS("A", Act(3))), Act(4)>>,
      <<IfS(Call(1), GotoS("A")), Choose(False, LabelS("A", Act(3)), Return0), Act(4)>> } }
=============================================================================
