------------------------------ MODULE MacroRef ------------------------------
(***************************************************************************)
(* Macro replacement as the C standard means it, after D. Prosser's        *)
(* algorithm: every token carries a hide set, the macros whose replacement *)
(* it came from, and is never replaced by one of them.  No levels, marks   *)
(* or state.  MacroExpansion is compared with this module.                 *)
(*                                                                         *)
(* A token is [t, hide]; a macro is as in MacroExpansion.                  *)
(***************************************************************************)
EXTENDS Naturals, Sequences, FiniteSets, SequencesExt

CONSTANT Paste(_, _)

Plain(toks) == [i \in DOMAIN toks |-> [t |-> toks[i], hide |-> {}]]
Spelled(ts) == [i \in DOMAIN ts |-> ts[i].t]
Error == [t |-> "error", hide |-> {}]
\* two tokens joined that make none: the standard leaves open what happens
Undefined == [t |-> "undefined", hide |-> {}]

\* a list of tokens, or what is wrong with it
Checked(ts) ==
  LET has(x) == \E i \in DOMAIN ts : ts[i].t = x.t IN
  IF has(Undefined) THEN <<Undefined>> ELSE IF has(Error) THEN <<Error>> ELSE ts

\* nesting of parentheses after the first i tokens of ts
Depth(ts, i) ==
  Cardinality({j \in 1 .. i : ts[j].t = "("}) - Cardinality({j \in 1 .. i : ts[j].t = ")"})

\* where the call that starts at ts[2] ends, 0 if nowhere
CallEnd(ts) ==
  LET ends == { i \in 2 .. Len(ts) : Depth(ts, i) = 0 } IN
  IF ends = {} THEN 0 ELSE CHOOSE i \in ends : \A j \in ends : i <= j

\* the positions of `(', of the commas that separate arguments and of `)'
RECURSIVE Separators(_, _, _, _)
Separators(ts, i, end, most) ==
  IF i = end THEN <<end>>
  ELSE IF ts[i].t = "," /\ Depth(ts, i) = 1 /\ most > 1
  THEN <<i>> \o Separators(ts, i + 1, end, most - 1)
  ELSE Separators(ts, i + 1, end, most)

\* the arguments of a call of macro s that starts at ts[2] and ends at end
Actuals(s, ts, end) ==
  LET n == Len(s.params)
      most == IF s.va THEN n ELSE end
      sep == <<2>> \o Separators(ts, 3, end, most)
      all == [j \in 1 .. Len(sep) - 1 |-> SubSeq(ts, sep[j] + 1, sep[j + 1] - 1)]
  IN IF n = 0 /\ all = <<<<>>>> THEN <<>>
     ELSE IF s.va /\ Len(all) = n - 1 THEN Append(all, <<>>) ELSE all

Empty == [t |-> "", hide |-> {}]   \* an empty argument next to ##

Glue(a, b) ==
  IF a = Empty THEN b ELSE IF b = Empty THEN a
  ELSE IF Paste(a.t, b.t) = "" THEN Undefined
  ELSE [t |-> Paste(a.t, b.t), hide |-> a.hide \cap b.hide]

\* all ## of a list of tokens, from left to right
RECURSIVE Pasted(_)
Pasted(ts) ==
  IF \E i \in DOMAIN ts : ts[i].t = "##" THEN
    LET i == CHOOSE j \in DOMAIN ts : ts[j].t = "##" /\ \A k \in 1 .. j - 1 : ts[k].t # "##"
    IN Pasted(SubSeq(ts, 1, i - 2) \o <<Glue(ts[i - 1], ts[i + 1])>> \o SubSeq(ts, i + 2, Len(ts)))
  ELSE SelectSeq(ts, LAMBDA x : x # Empty)

RECURSIVE Expand(_, _)

\* the body with the arguments put in for the parameters
Filled(s, actuals, defs) ==
  LET b == s.body
      isPar(i) == i \in DOMAIN b /\ b[i] \in Range(s.params)
      arg(i) == actuals[CHOOSE j \in DOMAIN s.params : s.params[j] = b[i]]
      join(i) == i \in DOMAIN b /\ b[i] = "##"
      rest(i) == isPar(i) /\ s.va /\ b[i] = Last(s.params)
      \* GNU: `, ## rest'
      gnu(i) == i > 2 /\ rest(i) /\ join(i - 1) /\ b[i - 2] = ","
      text(i) ==
        CASE gnu(i) -> Expand(arg(i), defs)
          [] gnu(i + 1) -> <<>>
          [] gnu(i + 2) /\ arg(i + 2) = <<>> -> <<>>
          [] isPar(i) /\ ~ gnu(i) /\ (join(i - 1) \/ join(i + 1)) ->
               IF arg(i) = <<>> THEN <<Empty>> ELSE arg(i)
          [] isPar(i) /\ ~ gnu(i) /\ ~ join(i - 1) /\ ~ join(i + 1) -> Expand(arg(i), defs)
          [] OTHER -> Plain(<<b[i]>>)
  IN Checked(Pasted(FlattenSeq([i \in DOMAIN b |-> text(i)])))

Hidden(ts, names) == [i \in DOMAIN ts |-> [ts[i] EXCEPT !.hide = @ \cup names]]

Expand(ts, defs) ==
  IF ts = <<>> THEN <<>>
  ELSE
  LET x == Head(ts)
      s == defs[x.t]
      end == CallEnd(ts)
      actuals == Actuals(s, ts, end)
      filled == Filled(s, actuals, defs)
  IN CASE x.t \notin DOMAIN defs \/ x.t \in x.hide -> <<x>> \o Expand(Tail(ts), defs)
       [] x.t \in DOMAIN defs /\ x.t \notin x.hide /\ ~ s.fn ->
            Expand(Hidden(Filled(s, <<>>, defs), x.hide \cup {x.t}) \o Tail(ts), defs)
       [] x.t \in DOMAIN defs /\ x.t \notin x.hide /\ s.fn ->
            IF Len(ts) = 1 \/ ts[2].t # "(" THEN <<x>> \o Expand(Tail(ts), defs)
            ELSE IF end = 0 \/ Len(actuals) # Len(s.params) THEN <<Error>>
            ELSE IF filled \in {<<Error>>, <<Undefined>>} THEN filled
            ELSE Expand(Hidden(filled, (x.hide \cap ts[end].hide) \cup {x.t})
                          \o SubSeq(ts, end + 1, Len(ts)), defs)

Preprocessed(defs, file) == Spelled(Checked(Expand(Plain(file), defs)))
=============================================================================
