---------------------------- MODULE CodeFlowRef ----------------------------
(***************************************************************************)
(* What the functions that CodeFlow compiles mean in C, without jumps or   *)
(* addresses: the rest of the run is a sequence of statements still to be  *)
(* executed, and the first one is rewritten until it is an event, that is  *)
(* a call or comparison whose outcome the environment chooses.             *)
(*                                                                         *)
(* Two statements that no program contains mark what encloses the          *)
(* statements before them: [k |-> "again", s] ends the body of a loop and  *)
(* runs it again as s, [k |-> "exit"] ends the body of a switch.           *)
(***************************************************************************)
EXTENDS Integers, Sequences

CONSTANT ToType(_, _)   \* conversion of an integer to the type of a switch

Then(s, rest) == <<s>> \o rest
Empty == [k |-> "block", ss |-> <<>>]
Choose(e, s, t) == [k |-> "ifelse", e |-> e, s |-> s, t |-> t]
Again(s) == [k |-> "again", s |-> s]
Exit == [k |-> "exit"]
AndThen(es) == IF Len(es) = 2 THEN es[2] ELSE [k |-> "and", es |-> Tail(es)]
OrElse(es) == IF Len(es) = 2 THEN es[2] ELSE [k |-> "or", es |-> Tail(es)]

\* the statement executed after the body of a loop
Repeat(loop) ==
  CASE loop.k = "while" -> loop
    [] loop.k = "do" -> Choose(loop.e, loop, Empty)
    [] loop.k = "for" /\ loop.inc.k = "none" -> loop
    [] OTHER -> [k |-> "block", ss |-> <<[k |-> "expr", e |-> loop.inc], loop>>]

InLoop(loop, rest) == Then(loop.s, Then(Again(Repeat(loop)), rest))

\* Where a jump into s continues, as a set of at most one rest.
RECURSIVE Inside(_, _, _)
Inside(s, sel, rest) ==
  CASE s.k = "label" /\ sel = <<"label", s.l>> -> {Then(s.s, rest)}
    [] s.k = "case" /\ sel[1] = "case" /\
         sel[2] \in ToType(s.lo, sel[3]) .. ToType(s.hi, sel[3]) -> {Then(s.s, rest)}
    [] s.k = "default" /\ sel = <<"default">> -> {Then(s.s, rest)}
    [] s.k = "block" ->
         UNION { Inside(s.ss[i], sel, SubSeq(s.ss, i + 1, Len(s.ss)) \o rest)
                 : i \in DOMAIN s.ss }
    [] s.k = "ifelse" -> Inside(s.s, sel, rest) \cup Inside(s.t, sel, rest)
    [] s.k \in {"if", "label", "case", "default"} -> Inside(s.s, sel, rest)
    [] s.k \in {"while", "do", "for"} -> Inside(s.s, sel, Then(Again(Repeat(s)), rest))
    [] s.k = "switch" /\ sel[1] = "label" -> Inside(s.s, sel, Then(Exit, rest))
    [] OTHER -> {}

RECURSIVE AfterBreak(_)
AfterBreak(rest) ==
  IF Head(rest).k \in {"again", "exit"} THEN Tail(rest) ELSE AfterBreak(Tail(rest))

RECURSIVE AtAgain(_)
AtAgain(rest) == IF Head(rest).k = "again" THEN rest ELSE AtAgain(Tail(rest))

\* the case of value x, or default, or the end of the switch
Selected(sw, x, rest) ==
  LET to == Then(Exit, rest)
      case == Inside(sw.s, <<"case", x, sw.type>>, to)
      default == Inside(sw.s, <<"default">>, to)
  IN CHOOSE r \in IF case # {} THEN case ELSE IF default # {} THEN default ELSE {rest} : TRUE

-----------------------------------------------------------------------------

Event(rest) ==
  IF rest = <<>> THEN <<"end">>
  ELSE LET s == Head(rest) IN
       CASE s.k = "ifelse" /\ s.e.k \in {"call", "cmp", "act"} -> <<s.e.k, s.e.id>>
         [] s.k = "value" -> <<"set", s.id, s.n>>
         [] s.k = "switch" -> <<"sw", s.id, s.type>>
         [] OTHER -> <<"none">>

\* the rest of the run after its first event with outcome o
After(rest, o) ==
  LET s == Head(rest) IN
  CASE s.k = "ifelse" -> Then(IF o # 0 THEN s.s ELSE s.t, Tail(rest))
    [] s.k = "switch" -> Selected(s, o, Tail(rest))
    [] OTHER -> Tail(rest)

\* one step that is not an event, in the function `body'
Rewrite(rest, body) ==
  LET s == Head(rest)
      k == Tail(rest)
  IN CASE s.k = "block" -> s.ss \o k
       [] s.k \in {"label", "case", "default", "again"} -> Then(s.s, k)
       [] s.k = "exit" -> k
       [] s.k = "expr" -> Then(Choose(s.e, Empty, Empty), k)
       [] s.k = "set" -> Then(Choose(s.e, [k |-> "value", id |-> s.id, n |-> 1],
                                          [k |-> "value", id |-> s.id, n |-> 0]), k)
       [] s.k = "if" -> Then(Choose(s.e, s.s, Empty), k)
       [] s.k = "while" -> Then(Choose(s.e, [k |-> "enter", s |-> s], Empty), k)
       [] s.k = "for" -> Then(IF s.e.k = "none" THEN [k |-> "enter", s |-> s]
                              ELSE Choose(s.e, [k |-> "enter", s |-> s], Empty), k)
       [] s.k \in {"do", "enter"} -> InLoop(IF s.k = "do" THEN s ELSE s.s, k)
       [] s.k = "return" -> <<>>
       [] s.k = "break" -> AfterBreak(k)
       [] s.k = "continue" -> AtAgain(k)
       [] s.k = "goto" -> CHOOSE r \in Inside([k |-> "block", ss |-> body], <<"label", s.l>>, <<>>) : TRUE
       [] s.k = "ifelse" ->
            LET e == s.e IN
            Then(CASE e.k = "const" -> IF e.n # 0 THEN s.s ELSE s.t
                   [] e.k = "not" -> Choose(e.e, s.t, s.s)
                   [] e.k = "and" -> Choose(e.es[1], Choose(AndThen(e.es), s.s, s.t), s.t)
                   [] e.k = "or" -> Choose(e.es[1], s.s, Choose(OrElse(e.es), s.s, s.t))
                   [] e.k = "cond" -> Choose(e.e, Choose(e.x, s.s, s.t), Choose(e.y, s.s, s.t)), k)

\* the rest at its next event; with no fuel left it is taken to loop forever
RECURSIVE Run(_, _, _)
Run(rest, body, fuel) ==
  IF fuel = 0 \/ Event(rest) # <<"none">> THEN rest
  ELSE Run(Rewrite(rest, body), body, fuel - 1)

=============================================================================
