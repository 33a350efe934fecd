----------------------------- MODULE MC_Include -----------------------------
(* Include on small programs, against the preprocessor without a cache.    *)
EXTENDS Include, FiniteSets

CONSTANTS main, h, g, A, B

Ref == INSTANCE IncludeRef
H == INSTANCE HeaderTexts

BorrowedGuards == H!BorrowedGuards
OneUnit == H!OneUnit

\* The cache changes nothing (preprocess, search_cached_include): a unit
\* gives the text, or fails, exactly as if every include were opened.
SameAsUncached ==
  /\ pc = "done" =>
       \A u \in DOMAIN Units :
         LET r == Ref!Unit(text, Units[u], {}) IN r.ok /\ out[u] = r.out
  /\ pc = "error" => ~ Ref!Unit(text, Units[unit], {}).ok

\* A guard in the cache guards the whole file: read with that macro
\* defined, the file has no text, no error and defines nothing - for
\* whatever else is defined when it is next included.
GuardsSound ==
  \A f \in Files : cache[f].macro # NoMacro =>
    \A d \in SUBSET Macros :
      LET before == d \cup {cache[f].macro}
          r == Ref!Unit(text, f, before)
      IN r.ok /\ r.out = << >> /\ r.defs = before
=============================================================================
