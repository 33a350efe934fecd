---------------------------- MODULE ImportNames ----------------------------
(* Names of exports and references with the decorations the lookup of a    *)
(* name knows about.                                                       *)
EXTENDS Sequences

Ref(name, type) ==
  [name |-> name, type |-> type, weak |-> FALSE, dllimport |-> FALSE,
   stdcall |-> FALSE, called |-> type = "FUNC"]

\* functions and data by plain, underscored, stdcall and __imp_ names
Plain == <<"foo">>
Underscored == <<"_", "foo">>
Other == <<"bar">>
Names == {Plain, Underscored, Other}

Refs ==
  { Ref(Plain, "FUNC"), Ref(Underscored, "FUNC"), Ref(Other, "NOTYPE"),
    [Ref(Other, "OBJECT") EXCEPT !.dllimport = TRUE],
    Ref(Other, "OBJECT"),
    [Ref(<<"_", "foo", "@">>, "FUNC") EXCEPT !.stdcall = TRUE],
    Ref(<<"_", "_", "imp", "_">> \o Plain, "OBJECT"),
    [Ref(<<"_", "imp", "_", "_">> \o Other, "OBJECT") EXCEPT !.weak = TRUE],
    [Ref(<<"baz">>, "FUNC") EXCEPT !.weak = TRUE] }

\* a call from assembly
AsmRefs == { [Ref(Plain, "NOTYPE") EXCEPT !.called = TRUE] }
=============================================================================
