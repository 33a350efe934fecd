---------------------------- MODULE HeaderTexts ----------------------------
(* The headers and the units that Include is checked on.                   *)
EXTENDS Integers, Sequences

CONSTANTS main, h, g, A, B, NoMacro

L(op, arg) == [op |-> op, arg |-> arg, edge |-> FALSE]
T == L("text", NoMacro)
Inc(f) == L("include", f)

\* all texts of at most n lines made of these lines
Texts(lines, n) == UNION {[1 .. i -> lines] : i \in 0 .. n}

ByFile(m, x, y) == [f \in {main, h, g} |-> CASE f = main -> m [] f = h -> x [] f = g -> y]

\* every header of up to five lines about one macro, included twice in a
\* unit and again in a second one that defines the macro before
OneMacro ==
  { L("ifndef", A), L("ifdef", A), L("define", A), L("undef", A), L("else", NoMacro),
    L("endif", NoMacro), L("once", NoMacro), T }
Twice == <<T, Inc(h), Inc(h), T>>
DefinedBefore == <<L("define", A), Inc(h), T, Inc(h)>>
OneHeader == {ByFile(Twice, x, DefinedBefore) : x \in Texts(OneMacro, 5)}
TwoUnits == <<main, g>>

\* headers about two macros, with #elif, that include a guarded header or
\* themselves
TwoMacros ==
  { L("ifndef", A), L("elif", B), L("define", A), L("endif", NoMacro),
    Inc(h), Inc(g), T, L("blank", NoMacro) }
Guarded == <<L("ifndef", B), L("define", B), L("line", g), T, L("endif", NoMacro), L("blank", NoMacro)>>
NestedHeaders == {ByFile(Twice, x, Guarded) : x \in Texts(TwoMacros, 5)}
OneUnit == <<main>>

Headers == {OneHeader, NestedHeaders}

\* guarded text that names itself as another file
RenamedHeader ==
  {{ ByFile(<<Inc(h), Inc(g), T>>,
           <<L("ifndef", A), L("define", A), L("line", g), L("endif", NoMacro)>>,
           <<T>>) }}

\* a header that includes another before its second half, one without
\* tokens, or one with tokens when a new buffer begins right after it
Second == <<L("ifndef", A), L("define", A), L("endif", NoMacro)>>
EmptyHeader ==
  {{ ByFile(<<Inc(h), Inc(h)>>, <<T, Inc(g)>> \o Second, <<L("blank", NoMacro)>>),
     ByFile(<<Inc(h), Inc(h)>>, <<T, [Inc(g) EXCEPT !.edge = TRUE]>> \o Second, <<T>>) }}

BorrowedGuards == RenamedHeader \cup EmptyHeader
=============================================================================
