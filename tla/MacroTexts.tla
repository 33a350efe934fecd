----------------------------- MODULE MacroTexts -----------------------------
(* Small macros f and g, one at least a function, and texts that use them. *)
EXTENDS Naturals, Sequences

\* a name or number, and what comes after it in one token
JoinedWord(t, u) ==
  IF u \in {"f", "g", "1"} /\ (t \in {"f", "g", "ff"} \/ (t = "1" /\ u = "1")) THEN t \o u ELSE ""

\* a number keeps its text in the token string, TOK_PPNUM
OneIntWord(t) == t \notin {"1", "11"}

Function(params, body) == [fn |-> TRUE, params |-> params, va |-> FALSE, body |-> body]
Variadic(body) == [fn |-> TRUE, params |-> <<"x">>, va |-> TRUE, body |-> body]
Object(body) == [fn |-> FALSE, params |-> <<>>, va |-> FALSE, body |-> body]

Word == {"f", "g"}
ShortBodies(P) == {<<>>} \cup { <<a>> : a \in P } \cup { <<a, b>> : a, b \in P }
BodiesOf(P) ==
  ShortBodies(P)
  \cup { <<a, "(", b, ")">> : a \in Word, b \in P }
  \cup { <<a, "(", b, ")", c>> : a \in Word, b \in P, c \in P }
  \cup { <<a, "(">> : a \in Word }
WithJoin ==
  { <<"x", "##", "1">>, <<"f", "##", "x">>, <<"x", "f", "##", "1", "x">>, <<"x", "##", "x">> }
OfTwo ==
  { <<"x", "y">>, <<"y", "##", "x">>, <<"f", "##", "y">>, <<"x", "##", "f", "y">>, <<"g", "(", "x", ",", "y", ")">>,
    <<"f", "(", "y", ",", "x", ")">>, <<"g", "(", "y", ")", "x">> }
RestBodies == { <<"f", ",", "##", "x">>, <<"g", "(", "1", ",", "##", "x", ")">> }

MacroUses ==
  LET P == {"f", "g", "1"} IN
  { <<a>> : a \in Word } \cup { <<a, b>> : a, b \in Word }
  \cup { <<a, "(", b, ")">> : a \in Word, b \in P }
  \cup { <<a, "(", b, ")", "(", "1", ")">> : a \in Word, b \in P }
  \cup { <<a, "(", b, "(", "1", ")", ")", "(", "f", ")">> : a \in Word, b \in Word }
  \cup { <<a, "(", ")", b, "1", ")">> : a, b \in Word }
  \cup { <<a, "(", "f", b, ",", "g", ")">> : a \in Word, b \in {"g", ",", "("} }
  \cup { <<"f", "(", "1", ",", "g", ")">>, <<"f", "(", "(", "1", ",", ")", ",", ")", "(", "1", ")">>, <<"f", ")", "g", "(">> }

FunctionLike ==
  { Function(<<"x">>, b) : b \in BodiesOf({"x", "f", "g"}) \cup WithJoin }
  \cup { Function(<<"x", "y">>, b) : b \in OfTwo }
ObjectLike == { Object(b) : b \in BodiesOf({"f", "g"}) }
\* functions that treat an empty argument in a way of its own
NoneOrRest == { Variadic(b) : b \in RestBodies } \cup { Function(<<>>, b) : b \in BodiesOf({"g"}) }
PairOf(a, b) == [n \in Word |-> IF n = "f" THEN a ELSE b]

\* functions that pass their argument on, and one that pastes something
\* behind its last: what they make of an empty argument or of the rest is
\* not what the standard says (Relays)
Relaying == { s \in FunctionLike :
                \/ s.body = <<"y", "##", "x">>
                \/ Len(s.body) >= 4 /\ SubSeq(s.body, 2, 4) = <<"(", "x", ")">> }

PairsOfMacros ==
  { PairOf(a, b) : a \in FunctionLike, b \in FunctionLike \cup ObjectLike }
  \cup { PairOf(a, b) : a \in NoneOrRest, b \in ObjectLike \cup (FunctionLike \ Relaying) }

\* an empty argument that goes on to a function without parameters, and to
\* one that takes the rest; and a rest that goes on to be pasted
Relays ==
  { PairOf(Function(<<"x">>, <<"g", "(", "x", ")">>), b) :
      b \in {Function(<<>>, <<"1">>), Variadic(<<"f", ",", "##", "x">>)} }
  \cup { PairOf(Variadic(<<"g", "(", "1", ",", "##", "x", ")">>), Function(<<"x", "y">>, <<"y", "##", "x">>)) }
=============================================================================
