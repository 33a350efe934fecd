----------------------------- MODULE IncludeRef -----------------------------
(***************************************************************************)
(* What preprocessing a file must give, with no cache: every #include is   *)
(* opened and read, except those of a file that said #pragma once in the   *)
(* same unit.  A reference for Include, by recursion over the lines.       *)
(***************************************************************************)
EXTENDS Integers, Sequences

CONSTANT MaxDepth

\* conds: for each open conditional of the file, is its branch true, was
\* one, and was there an #else
AllTrue(conds) == \A i \in DOMAIN conds : conds[i].live
Replace(conds, c) == Append(SubSeq(conds, 1, Len(conds) - 1), c)

\* The text of file f from line i.  st: defs, out, once, ok.
RECURSIVE Read(_, _, _, _, _, _)
Read(text, f, i, conds, st, depth) ==
  IF ~ st.ok THEN st
  ELSE IF i > Len(text[f]) THEN [st EXCEPT !.ok = conds = << >>]
  ELSE
  LET l == text[f][i]
      live == AllTrue(conds)
      last == conds[Len(conds)]
      Rest(c, s) == Read(text, f, i + 1, c, s, depth)
      Wrong == [st EXCEPT !.ok = FALSE]
      Branch(true) == Replace(conds, [live |-> true /\ ~ last.was,
                                      was |-> last.was \/ true, else |-> FALSE])
  IN
  CASE l.op \in {"ifdef", "ifndef"} ->
         LET true == live /\ ((l.arg \in st.defs) = (l.op = "ifdef"))
         IN Rest(Append(conds, [live |-> true, was |-> true \/ ~ live, else |-> FALSE]), st)
    [] l.op \in {"elif", "else"} ->
         \* a group skipped as a whole is only checked for its nesting
         IF conds = << >> \/ (last.else /\ AllTrue(SubSeq(conds, 1, Len(conds) - 1)))
         THEN Wrong
         ELSE IF l.op = "elif"
              THEN Rest(Branch(l.arg \in st.defs), st)
              ELSE Rest(Replace(conds, [live |-> ~ last.was, was |-> TRUE, else |-> TRUE]), st)
    [] l.op = "endif" ->
         IF conds = << >> THEN Wrong ELSE Rest(SubSeq(conds, 1, Len(conds) - 1), st)
    [] OTHER ->
         IF ~ live THEN Rest(conds, st)
         ELSE CASE l.op = "text" -> Rest(conds, [st EXCEPT !.out = Append(@, <<f, i>>)])
                [] l.op = "define" -> Rest(conds, [st EXCEPT !.defs = @ \cup {l.arg}])
                [] l.op = "undef" -> Rest(conds, [st EXCEPT !.defs = @ \ {l.arg}])
                [] l.op = "once" -> Rest(conds, [st EXCEPT !.once = @ \cup {f}])
                [] l.op = "include" ->
                     IF depth > MaxDepth THEN Wrong
                     ELSE IF l.arg \in st.once THEN Rest(conds, st)
                     ELSE Rest(conds, Read(text, l.arg, 1, << >>, st, depth + 1))
                [] OTHER -> Rest(conds, st)

\* a unit of its own, with these macros defined
Unit(text, f, defs) ==
  Read(text, f, 1, << >>, [defs |-> defs, out |-> << >>, once |-> {}, ok |-> TRUE], 1)
=============================================================================
