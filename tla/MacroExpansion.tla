--------------------------- MODULE MacroExpansion ---------------------------
(***************************************************************************)
(* Macro substitution in tccpp.c: next, macro_subst, macro_subst_tok,      *)
(* macro_arg_subst, macro_twosharps, paste_tokens, next_argstream.         *)
(*                                                                         *)
(* The functions call each other on token strings and share a state m:     *)
(*   levels  macro_stack: what is left of each token string being read,    *)
(*           the innermost last; empty when tokens come from the file      *)
(*   file    what is left of the file                                      *)
(*   nested  *nested_list: the macros being replaced, the innermost last;  *)
(*           "" (v = 0) for one whose replacement has been read to its end *)
(*   tok     the token last read                                           *)
(*   error   a message was given by tcc_error, which ends the compilation  *)
(* macro_subst writes to a token string; here it returns it in m.out.      *)
(*                                                                         *)
(* Tokens are strings.  White space is left out, also inside arguments,    *)
(* where macro_arg_subst would count it.  A macro is a record              *)
(* [fn, params, va, body]; va is set if the last parameter takes the rest  *)
(* of the arguments.                                                       *)
(***************************************************************************)
EXTENDS Naturals, Sequences, SequencesExt

CONSTANTS
  Paste(_, _),  \* the token two tokens make, or "" if they make none
  OneInt(_),    \* a token that takes one int of a token string, no value
  MacroSets,    \* what can be defined: functions from names to macros
  Files         \* what is read with these definitions: sequences of tokens

VARIABLES
  macros,  \* the define stack
  source,  \* history: the file as a whole
  state,   \* the state m between two calls of next
  text     \* what next returned so far

vars == <<macros, source, state, text>>

\* tokens the tokenizer never makes of a file
NOSUBST == "TOK_NOSUBST"   \* the next identifier is not a macro any more
PLCHLDR == "TOK_PLCHLDR"   \* an empty argument
PPJOIN == "##"
EndOfArg == "-1"           \* after the last token of an argument
EOF == "TOK_EOF"

Fail(m) == [m EXCEPT !.error = TRUE]
Out(t, m) == [m EXCEPT !.out = Append(@, t)]

-----------------------------------------------------------------------------
(* macro_stack and nested_list *)

Begin(toks, m) == [m EXCEPT !.levels = Append(@, toks)]
End(m) == [m EXCEPT !.levels = Front(@)]
Top(m) == Last(m.levels)

\* mistake: the end of a macro that was read through is not noted
LeaveScopeNot(m) == m

\* the innermost replacement that had not ended has ended
LeaveScope(m) ==
  LET open == { i \in DOMAIN m.nested : m.nested[i] # "" } IN
  IF open = {} THEN m
  ELSE [m EXCEPT !.nested[CHOOSE i \in open : \A j \in open : j <= i] = ""]

\* leave the levels that are read to their end
RECURSIVE Unwind(_)
Unwind(m) ==
  IF m.levels # <<>> /\ Top(m) = <<>> THEN Unwind(LeaveScope(End(m))) ELSE m

\* next_nomacro
Read(m) ==
  IF m.levels # <<>> THEN
       [m EXCEPT !.tok = Head(Top(m)), !.levels[Len(m.levels)] = Tail(@)]
  ELSE IF m.file # <<>> THEN [m EXCEPT !.tok = Head(m.file), !.file = Tail(@)]
  ELSE [m EXCEPT !.tok = EOF]

\* next_argstream without ws_str: the next token of an argument
ReadArg(m) == Read(Unwind(m))

\* next_argstream with ws_str: leaves ended levels until a token is in
\* sight; a level that holds only placeholders counts as ended
RECURSIVE Peek(_)
Peek(m) ==
  IF m.levels = <<>> THEN [m EXCEPT !.tok = IF m.file = <<>> THEN EOF ELSE Head(m.file)]
  ELSE LET seen == SelectSeq(Top(m), LAMBDA t : t # PLCHLDR)
       IN IF seen = <<>> THEN Peek(LeaveScope(End(m))) ELSE [m EXCEPT !.tok = Head(seen)]

RECURSIVE Eat(_)
Eat(m) == LET d == Read(m) IN IF d.tok = PLCHLDR THEN Eat(d) ELSE d

-----------------------------------------------------------------------------
(* macro_twosharps, paste_tokens *)

\* what two tokens become: the tokens put out, and the one in hand
Joined(t, u) ==
  IF t = PLCHLDR THEN <<u>>
  ELSE IF u = PLCHLDR THEN <<t>>
  ELSE IF Paste(t, u) = "" THEN <<t, u>> ELSE <<Paste(t, u)>>

RECURSIVE SkipMarks(_)
SkipMarks(s) == IF s # <<>> /\ Head(s) = NOSUBST THEN SkipMarks(Tail(s)) ELSE s

\* with t in hand and `rest' behind it; the marks just before t start at
\* position `marks' of out, or marks is -1
RECURSIVE Paster(_, _, _, _)
Paster(out, marks, t, rest) ==
  IF rest # <<>> /\ Head(rest) = PPJOIN THEN
    LET kept == IF marks >= 0 THEN SubSeq(out, 1, marks) ELSE out
        after == SkipMarks(Tail(rest))
    IN IF after = <<>> THEN Append(kept, t)
       ELSE LET j == Joined(t, Head(after))
            IN Paster(kept \o Front(j), marks, Last(j), Tail(after))
  ELSE LET more == Append(out, t)
           marks2 == IF t # NOSUBST THEN -1 ELSE IF marks < 0 THEN Len(out) ELSE marks
       IN IF rest = <<>> THEN more ELSE Paster(more, marks2, Head(rest), Tail(rest))

Twosharps(s) == IF Contains(s, PPJOIN) THEN Paster(<<>>, -1, Head(s), Tail(s)) ELSE s

-----------------------------------------------------------------------------
(* The functions that call each other; `defs' is the define stack.         *)

RECURSIVE Subst(_, _, _, _)

\* macro_subst on an argument, for a token string of its own
Expanded(raw, defs, m) ==
  Subst(Append(raw, EndOfArg), FALSE, defs, [m EXCEPT !.out = <<>>])

\* One argument up to the `,' or `)' that ends it, in m.out; m.tok is its
\* first token on entry and the token that ended it on return.
RECURSIVE Argument(_, _, _)
Argument(depth, va, m) ==
  IF m.tok \in {EOF, EndOfArg} \/ (depth = 0 /\ (m.tok = ")" \/ (m.tok = "," /\ ~ va)))
  THEN IF depth > 0 THEN Fail(m) ELSE m
  ELSE Argument(CASE m.tok = "(" -> depth + 1 [] m.tok = ")" -> depth - 1 [] OTHER -> depth,
                va, ReadArg(Out(m.tok, m)))

\* The arguments of the call whose `(' was read: a function from the
\* parameters to [raw, va] in m.args.
RECURSIVE Arguments(_, _, _)
Arguments(s, i, m) ==
  LET n == Len(s.params)
      va(j) == s.va /\ j = n
      one == Argument(0, va(i), [m EXCEPT !.out = <<>>])
      with(d, raw) == [d EXCEPT !.args = Append(@, [raw |-> raw, va |-> va(i)])]
      next == with(one, one.out)
  IN CASE m.error -> m
       [] ~ m.error /\ i = 1 /\ n = 0 /\ m.tok = ")" -> m
       [] ~ m.error /\ i > n -> Fail(m)
       [] ~ m.error /\ i \in 1 .. n /\ one.error -> one
       [] ~ m.error /\ i \in 1 .. n /\ ~ one.error /\ one.tok = "," ->
            Arguments(s, i + 1, ReadArg(next))
       [] ~ m.error /\ i \in 1 .. n /\ ~ one.error /\ one.tok = ")" ->
            IF i = n THEN next
            ELSE IF i + 1 = n /\ s.va THEN [next EXCEPT !.args = Append(@, [raw |-> <<>>, va |-> TRUE])]
            ELSE Fail(next)
       [] OTHER -> Fail(one)

\* macro_arg_subst, into m.out.  t1 and t0 are the two tokens of the body
\* before this one.
RECURSIVE ArgSubst(_, _, _, _, _, _)
ArgSubst(body, t0, t1, params, defs, m) ==
  IF body = <<>> \/ m.error THEN m
  ELSE
  LET t == Head(body)
      more == Tail(body)
      a == m.args[CHOOSE j \in DOMAIN params : params[j] = t]
      comma == t1 = PPJOIN /\ t0 = "," /\ a.va
      plain == t1 = PPJOIN \/ (more # <<>> /\ Head(more) = PPJOIN)
      filled(toks) == m.out \o IF toks = <<>> THEN <<PLCHLDR>> ELSE toks
      \* after `, ##' the length is compared with what it was with the ##, so
      \* that one token in its place is taken for nothing at all
      rest(toks) == toks \o IF Len(toks) = 1 /\ OneInt(Head(toks)) THEN <<PLCHLDR>> ELSE <<>>
      full(d) == [m EXCEPT !.error = d.error,
                           !.out = IF plain THEN Front(@) \o rest(d.out) ELSE filled(d.out)]
  IN ArgSubst(more, t1, t, params, defs,
       CASE t \notin Range(params) -> Out(t, m)
         [] t \in Range(params) /\ plain /\ ~ comma -> [m EXCEPT !.out = filled(a.raw)]
         [] t \in Range(params) /\ plain /\ comma /\ a.raw = <<>> ->
              [m EXCEPT !.out = SubSeq(@, 1, Len(@) - 2)]
         [] OTHER -> full(Expanded(a.raw, defs, m)))

\* replace the macro s, from its body with the arguments in place
Replace(name, body, defs, m) ==
  LET d == Subst(Twosharps(body), FALSE, defs, [m EXCEPT !.nested = Append(@, name)])
  IN [d EXCEPT !.nested = Front(@)]

\* macro_subst_tok for the macro m.tok, the token just read
SubstTok(defs, m) ==
  LET name == m.tok
      s == defs[name]
      replaced(d) == IF d.error THEN d ELSE Replace(name, d.out, defs, [d EXCEPT !.out = m.out])
      filled(d) == IF d.error THEN d
                   ELSE replaced(ArgSubst(s.body, "", "", s.params, defs, [d EXCEPT !.out = <<>>]))
      called(d) == IF d.tok # "(" THEN Out(name, d)
                   ELSE filled(Arguments(s, 1, ReadArg([Eat(d) EXCEPT !.args = <<>>])))
  IN IF s.fn THEN called(Peek(m)) ELSE Replace(name, s.body, defs, m)

\* mistake: the rest of the string stays on macro_stack
SubstNoEnd(toks, nosubst, defs, m) ==
  IF toks = <<>> \/ Head(toks) = EndOfArg \/ m.error THEN m
  ELSE LET t == Head(toks)
           more == Tail(toks)
           after(d) == IF d.error \/ Len(d.levels) <= Len(m.levels) THEN d
                       ELSE Subst(Top(d), FALSE, defs, d)
       IN CASE t \in DOMAIN defs /\ ~ nosubst /\ t \in Range(m.nested) ->
                 Subst(more, FALSE, defs, Out(t, Out(NOSUBST, m)))
            [] t \in DOMAIN defs /\ ~ nosubst /\ t \notin Range(m.nested) ->
                 after(SubstTok(defs, Begin(more, [m EXCEPT !.tok = t])))
            [] OTHER -> Subst(more, ~ nosubst /\ t = NOSUBST, defs, Out(t, m))

\* macro_subst.  A macro is replaced with the rest of the string as the
\* innermost level, so that it can take its arguments from there and, when
\* the string ends, from the levels around it; the string is then finished.
Subst(toks, nosubst, defs, m) ==
  IF toks = <<>> \/ Head(toks) = EndOfArg \/ m.error THEN m
  ELSE LET t == Head(toks)
           more == Tail(toks)
           after(d) == IF d.error \/ Len(d.levels) <= Len(m.levels) THEN d
                       ELSE Subst(Top(d), FALSE, defs, End(d))
       IN CASE t \in DOMAIN defs /\ ~ nosubst /\ t \in Range(m.nested) ->
                 Subst(more, FALSE, defs, Out(t, Out(NOSUBST, m)))
            [] t \in DOMAIN defs /\ ~ nosubst /\ t \notin Range(m.nested) ->
                 after(SubstTok(defs, Begin(more, [m EXCEPT !.tok = t])))
            [] OTHER -> Subst(more, ~ nosubst /\ t = NOSUBST, defs, Out(t, m))

-----------------------------------------------------------------------------
(* next: what the parser gets, token by token. *)

Fresh(file) ==
  [levels |-> <<>>, file |-> file, nested |-> <<>>, tok |-> "", out |-> <<>>,
   args |-> <<>>, error |-> FALSE]

IsMarker(t) == t \in {NOSUBST, PLCHLDR}

\* the next token of the file and, in out, the tokens it is replaced by
Substituted(defs, m) ==
  LET seen(d) == [d EXCEPT !.out = SelectSeq(@, LAMBDA t : ~ IsMarker(t))]
      next(d) == IF d.tok \in DOMAIN defs THEN seen(SubstTok(defs, d))
                 ELSE [d EXCEPT !.out = <<d.tok>>]
  IN next(Read([m EXCEPT !.out = <<>>, !.nested = <<>>]))

Init ==
  /\ macros \in MacroSets
  /\ source \in Files
  /\ state = Fresh(source)
  /\ text = <<>>

Next ==
  /\ ~ state.error /\ state.file # <<>>
  /\ state' = Substituted(macros, state)
  /\ text' = text \o state'.out
  /\ UNCHANGED <<macros, source>>

Spec == Init /\ [][Next]_vars

Ended == state.error \/ state.file = <<>>

-----------------------------------------------------------------------------

Ref == INSTANCE MacroRef

\* What the parser gets is what the standard says the file is replaced by,
\* whatever macros take their arguments from and wherever their names come
\* up again; and a call is in error exactly if the standard says so.
TextAsMeant ==
  Ended =>
    LET meant == Ref!Preprocessed(macros, source) IN
    \/ meant = IF state.error THEN <<"error">> ELSE text
    \/ meant = <<Ref!Undefined.t>>

\* Between two tokens of the file no token string is left on macro_stack
\* and no macro on nested_list, however far the last replacement read ahead
\* (begin_macro and end_macro, next_argstream).
StackBalanced == ~ state.error => state.levels = <<>> /\ state.nested = <<>>
=============================================================================
