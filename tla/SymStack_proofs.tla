--------------------------- MODULE SymStack_proofs ---------------------------
(* Proofs about SymStack: for any names, any number of symbols and any     *)
(* nesting, as long as no name of a finished statement expression becomes  *)
(* a global identifier (ReuseKept).                                        *)
EXTENDS SymStack, FiniteSetTheorems, SequenceTheorems, WellFoundedInduction, TLAPS

Top == Len(local_stack)
J == Len(open)
Index == 1 .. MaxSyms
Sym == [v : Names \cup {NoName}, sym_scope : Nat, prev_tok : 0 .. MaxSyms, auto : BOOLEAN]
Kinds == {"params", "block", "header", "for"}
Open == [kind : Kinds, s : Nat, scope : Nat, is_expr : BOOLEAN, vals : SUBSET Index]

\* where the symbols of an open construct begin, those of a function's
\* parameters included
Base(j) == IF j = 1 THEN 0 ELSE open[j].s
\* local_scope inside the first m - 1 constructs
Level(m) == IF m = 1 THEN 0 ELSE IF m <= J THEN open[m].scope ELSE local_scope

\* x is the declaration of n that is innermost in the first m scopes of s
Inner(x, s, n, m) ==
  \/ x = 0 /\ \A k \in 1 .. m : s[k][n] = 0
  \/ x # 0 /\ \E k \in 1 .. m : s[k][n] = x /\ \A l \in k + 1 .. m : s[l][n] = 0

(***************************************************************************)
(* The inductive invariant.                                                *)
(***************************************************************************)
TypeInv ==
  /\ syms \in [Index -> Sym]
  /\ global_stack \in Seq(Index) /\ local_stack \in Seq(Index)
  /\ sym_identifier \in [Names -> 0 .. MaxSyms]
  /\ open \in Seq(Open) /\ local_scope \in Nat
  /\ scopes \in Seq([Names -> 0 .. MaxSyms]) /\ Len(scopes) = J + 1
  /\ refused = FALSE

OpenInv ==
  /\ local_stack = << >> <=> J = 0
  /\ \A j \in 1 .. J : open[j].s <= Top /\ (j > 1 => open[j].s # 0)
  /\ \A j, k \in 1 .. J : j <= k => open[j].s <= open[k].s
  /\ \A j \in 1 .. J : open[j].kind = "params" => J = 1 /\ local_scope = 1
  /\ J = 0 => local_scope = 0

\* a symbol is in one place only
StackInv ==
  /\ \A p, q \in 1 .. Len(global_stack) : global_stack[p] = global_stack[q] => p = q
  /\ \A p, q \in 1 .. Top : local_stack[p] = local_stack[q] => p = q
  /\ \A p \in 1 .. Len(global_stack), q \in 1 .. Top : global_stack[p] # local_stack[q]

\* declarations of different scopes have different sym_scope, or 0
LevelInv ==
  /\ \A k, m \in 1 .. J + 1 : k < m => Level(k) < Level(m)
  /\ \A m \in 1 .. J + 1, n \in Names :
       scopes[m][n] # 0 => syms[scopes[m][n]].sym_scope \in {0, Level(m)}

\* where the declarations of each scope are
WhereInv ==
  /\ \A m \in 1 .. J + 1, n \in Names : scopes[m][n] # 0 => syms[scopes[m][n]].v = n
  /\ \A n \in Names : scopes[1][n] # 0 =>
       \E p \in 1 .. Len(global_stack) : global_stack[p] = scopes[1][n]
  /\ \A m \in 2 .. J + 1, n \in Names : scopes[m][n] # 0 =>
       \E p \in 1 .. Top : /\ local_stack[p] = scopes[m][n] /\ Base(m - 1) < p
                           /\ m <= J => p <= open[m].s
  /\ \A p \in 1 .. Len(global_stack) : \E n \in Names :
       scopes[1][n] = global_stack[p] /\ syms[global_stack[p]].prev_tok = 0

MeantInv ==
  \A n \in Names :
    /\ Inner(sym_identifier[n], scopes, n, J + 1)
    /\ \A m \in 1 .. J + 1 :
         scopes[m][n] # 0 => Inner(syms[scopes[m][n]].prev_tok, scopes, n, m - 1)

\* what sym_pop will find of a name when it closes a construct: the symbol
\* lowest on the stack leads to what is declared further out
Named(p, n) == syms[local_stack[p]].v = n
Lowest(p, b, n) == p \in b + 1 .. Top /\ Named(p, n) /\ \A q \in b + 1 .. p - 1 : ~ Named(q, n)
PopInv ==
  \A j \in 1 .. J, n \in Names :
    \/ /\ \A p \in Base(j) + 1 .. Top : ~ Named(p, n)
       /\ \A m \in j + 1 .. J + 1 : scopes[m][n] = 0
    \/ \E p \in 1 .. Top :
         Lowest(p, Base(j), n) /\ Inner(syms[local_stack[p]].prev_tok, scopes, n, j)

\* values refer to symbols below the construct that is parsed while they wait
ValsInv ==
  \A j \in 1 .. J : \A k \in open[j].vals :
    \E p \in 1 .. Top : local_stack[p] = k /\ (j < J => p <= open[j + 1].s)

IInv ==
  /\ TypeInv /\ OpenInv /\ StackInv /\ LevelInv /\ WhereInv /\ MeantInv /\ PopInv /\ ValsInv

-----------------------------------------------------------------------------
(* The innermost declaration.                                              *)
LEMMA Smallest ==
  ASSUME NEW X, X \subseteq Nat, X # {}
  PROVE  \E m \in X : \A k \in X : m <= k
<1> DEFINE R == {ss \in Nat \X Nat : ss[1] < ss[2]}
<1>1. IsWellFoundedOn(R, Nat)
  BY NatLessThanWellFounded DEF OpToRel
<1>2. PICK m \in X : \A k \in X : ~ (<<k, m>> \in R)
  <2> HIDE DEF R
  <2> QED
    BY <1>1, WFMin
<1>3. \A k \in X : ~ (k < m)
  BY <1>2
<1> QED
  BY <1>2, <1>3

LEMMA MinIs ==
  ASSUME NEW X, X \subseteq Nat, X # {}
  PROVE  Min(X) \in X /\ \A k \in X : Min(X) <= k
BY Smallest DEF Min

LEMMA InnerOnly ==
  ASSUME NEW s, NEW n, NEW m \in Nat, NEW x, NEW y, Inner(x, s, n, m), Inner(y, s, n, m)
  PROVE  x = y
<1>1. CASE x = 0 \/ y = 0
  BY <1>1 DEF Inner
<1>2. CASE x # 0 /\ y # 0
  <2>1. PICK k \in 1 .. m : s[k][n] = x /\ \A l \in k + 1 .. m : s[l][n] = 0
    BY <1>2 DEF Inner
  <2>2. PICK h \in 1 .. m : s[h][n] = y /\ \A l \in h + 1 .. m : s[l][n] = 0
    BY <1>2 DEF Inner
  <2>3. ~ (k < h) /\ ~ (h < k)
    BY <1>2, <2>1, <2>2
  <2> QED
    BY <2>1, <2>2, <2>3
<1> QED
  BY <1>1, <1>2

LEMMA InnerSame ==
  ASSUME NEW s, NEW z, NEW n, NEW m \in Nat, NEW x, Inner(x, s, n, m),
         \A k \in 1 .. m : z[k][n] = s[k][n]
  PROVE  Inner(x, z, n, m)
BY DEF Inner

LEMMA InnerNone ==
  ASSUME NEW s, NEW n, NEW m \in Nat, NEW j \in 0 .. m, NEW x,
         \A l \in j + 1 .. m : s[l][n] = 0
  PROVE  Inner(x, s, n, m) <=> Inner(x, s, n, j)
<1>1. ASSUME Inner(x, s, n, m) PROVE Inner(x, s, n, j)
  <2>1. CASE x = 0
    BY <1>1, <2>1 DEF Inner
  <2>2. CASE x # 0
    <3>1. PICK k \in 1 .. m : s[k][n] = x /\ \A l \in k + 1 .. m : s[l][n] = 0
      BY <1>1, <2>2 DEF Inner
    <3>2. k \in 1 .. j
      BY <2>2, <3>1
    <3> QED
      BY <2>2, <3>1, <3>2 DEF Inner
  <2> QED
    BY <2>1, <2>2
<1>2. ASSUME Inner(x, s, n, j) PROVE Inner(x, s, n, m)
  <2>1. CASE x = 0
    BY <1>2, <2>1 DEF Inner
  <2>2. CASE x # 0
    <3>1. PICK k \in 1 .. j : s[k][n] = x /\ \A l \in k + 1 .. j : s[l][n] = 0
      BY <1>2, <2>2 DEF Inner
    <3>2. k \in 1 .. m /\ \A l \in k + 1 .. m : s[l][n] = 0
      BY <3>1
    <3> QED
      BY <2>2, <3>1, <3>2 DEF Inner
  <2> QED
    BY <2>1, <2>2
<1> QED
  BY <1>1, <1>2

LEMMA InnerHere ==
  ASSUME NEW s, NEW n, NEW m \in Nat \ {0}, s[m][n] # 0
  PROVE  Inner(s[m][n], s, n, m)
<1>1. m \in 1 .. m /\ \A l \in m + 1 .. m : s[l][n] = 0
  OBVIOUS
<1> QED
  BY <1>1 DEF Inner

\* a declaration of the file, where there was none
LEMMA InnerFile ==
  ASSUME NEW s, NEW z, NEW n, NEW m \in Nat \ {0}, NEW x, NEW g, Inner(x, s, n, m),
         s[1][n] = 0, z[1][n] = g, g # 0, \A k \in 2 .. m : z[k][n] = s[k][n]
  PROVE  Inner(IF x = 0 THEN g ELSE x, z, n, m)
<1>1. CASE x = 0
  <2>1. 1 \in 1 .. m /\ \A l \in 1 + 1 .. m : z[l][n] = 0
    BY <1>1 DEF Inner
  <2> QED
    BY <1>1, <2>1 DEF Inner
<1>2. CASE x # 0
  <2>1. PICK k \in 1 .. m : s[k][n] = x /\ \A l \in k + 1 .. m : s[l][n] = 0
    BY <1>2 DEF Inner
  <2>2. k \in 2 .. m
    BY <1>2, <2>1
  <2>3. z[k][n] = x /\ \A l \in k + 1 .. m : z[l][n] = 0
    BY <2>1, <2>2
  <2> QED
    BY <1>2, <2>2, <2>3 DEF Inner
<1> QED
  BY <1>1, <1>2

LEMMA InnermostIs ==
  ASSUME NEW n \in Names, NEW m \in Nat
  PROVE  Inner(Innermost(n, m), scopes, n, m)
<1> DEFINE declared == {k \in 1 .. m : scopes[k][n] # 0}
<1>1. CASE declared = {}
  BY <1>1 DEF Innermost, Inner
<1>2. CASE declared # {}
  <2> DEFINE D == {j \in 0 .. m : m - j \in declared}
  <2>1. D \subseteq Nat /\ D # {}
    <3>1. PICK k \in declared : TRUE
      BY <1>2
    <3>2. m - k \in D
      BY <3>1
    <3> QED
      BY <3>2
  <2>2. PICK j \in D : \A k \in D : j <= k
    <3> HIDE DEF D
    <3> QED
      BY <2>1, Smallest
  <2>3. m - j \in declared /\ \A k \in declared : m - j >= k
    <3>1. \A k \in declared : m - k \in D
      OBVIOUS
    <3> QED
      BY <2>2, <3>1
  <2>4. Max(declared) \in declared /\ \A k \in declared : Max(declared) >= k
    <3> HIDE DEF declared
    <3> QED
      BY <2>3 DEF Max
  <2>5. Innermost(n, m) = scopes[Max(declared)][n]
    BY <1>2 DEF Innermost
  <2> PICK k : k = Max(declared)
    OBVIOUS
  <2>6. k \in declared /\ \A l \in declared : k >= l
    <3> HIDE DEF declared
    <3> QED
      BY <2>4
  <2>7. k \in 1 .. m /\ scopes[k][n] # 0
    BY <2>6
  <2>8. ASSUME NEW l \in k + 1 .. m PROVE scopes[l][n] = 0
    <3>1. l \in 1 .. m /\ ~ (k >= l)
      BY <2>7
    <3>2. l \notin declared
      BY <2>6, <3>1
    <3> QED
      BY <3>1, <3>2
  <2> QED
    BY <2>5, <2>7, <2>8 DEF Inner
<1> QED
  BY <1>1, <1>2

-----------------------------------------------------------------------------
(* The chain of a name.                                                    *)

\* what Chain(n) is to be, for its first places
Walks(n, m) ==
  {c \in [0 .. m -> 0 .. MaxSyms] :
     \A j \in 0 .. m :
       c[j] = IF j = 0 THEN sym_find(n) ELSE IF c[j - 1] = 0 THEN 0 ELSE syms[c[j - 1]].prev_tok}

LEMMA WalkExists ==
  ASSUME Assumptions, TypeInv, NEW n \in Names
  PROVE  Walks(n, MaxSyms) # {}
<1>1. MaxSyms \in Nat /\ sym_find(n) \in 0 .. MaxSyms
      /\ \A k \in Index : syms[k].prev_tok \in 0 .. MaxSyms
  BY DEF Assumptions, TypeInv, sym_find, Sym
<1> DEFINE X == {m \in 0 .. MaxSyms : Walks(n, m) = {}}
<1> SUFFICES ASSUME X # {} PROVE FALSE
  BY <1>1
<1>2. PICK m \in X : \A k \in X : m <= k
  <2>1. X \subseteq Nat
    OBVIOUS
  <2> HIDE DEF X
  <2> QED
    BY <2>1, Smallest
<1>3. m \in 0 .. MaxSyms /\ Walks(n, m) = {}
  BY <1>2
<1>4. m # 0
  <2>1. [k \in 0 .. 0 |-> sym_find(n)] \in Walks(n, 0)
    BY <1>1 DEF Walks
  <2> QED
    BY <1>3, <2>1
<1>5. PICK g \in [0 .. m - 1 -> 0 .. MaxSyms] :
        \A j \in 0 .. m - 1 :
          g[j] = IF j = 0 THEN sym_find(n) ELSE IF g[j - 1] = 0 THEN 0 ELSE syms[g[j - 1]].prev_tok
  <2>1. m - 1 \in 0 .. MaxSyms /\ ~ (m <= m - 1)
    BY <1>1, <1>3, <1>4
  <2>2. Walks(n, m - 1) # {}
    BY <1>2, <2>1
  <2> QED
    BY <2>2 DEF Walks
<1> PICK last \in 0 .. MaxSyms : last = IF g[m - 1] = 0 THEN 0 ELSE syms[g[m - 1]].prev_tok
  <2>1. g[m - 1] \in 0 .. MaxSyms
    BY <1>3, <1>4, <1>5
  <2> QED
    BY <1>1, <2>1 DEF Index
<1> DEFINE h == [k \in 0 .. m |-> IF k = m THEN last ELSE g[k]]
<1>6. h \in [0 .. m -> 0 .. MaxSyms]
  BY <1>3, <1>4, <1>5
<1>7. ASSUME NEW j \in 0 .. m
      PROVE  h[j] = IF j = 0 THEN sym_find(n) ELSE IF h[j - 1] = 0 THEN 0 ELSE syms[h[j - 1]].prev_tok
  <2>1. CASE j = m
    <3>1. h[j] = last /\ h[j - 1] = g[m - 1]
      BY <1>3, <1>4, <2>1
    <3> QED
      BY <1>4, <2>1, <3>1
  <2>2. CASE j # m
    <3>1. j \in 0 .. m - 1 /\ h[j] = g[j] /\ (j # 0 => h[j - 1] = g[j - 1])
      BY <1>3, <1>4, <2>2
    <3> QED
      BY <1>5, <3>1
  <2> QED
    BY <2>1, <2>2
<1> HIDE DEF h
<1>8. h \in Walks(n, m)
  BY <1>6, <1>7 DEF Walks
<1> QED
  BY <1>3, <1>8

LEMMA ChainIs ==
  ASSUME Assumptions, TypeInv, NEW n \in Names
  PROVE  /\ Chain(n) \in [0 .. MaxSyms -> 0 .. MaxSyms] /\ Chain(n)[0] = sym_find(n)
         /\ \A j \in 1 .. MaxSyms :
              Chain(n)[j] = IF Chain(n)[j - 1] = 0 THEN 0 ELSE syms[Chain(n)[j - 1]].prev_tok
<1> PICK c : c = Chain(n)
  OBVIOUS
<1>0. MaxSyms \in Nat
  BY DEF Assumptions
<1>1. PICK g \in [0 .. MaxSyms -> 0 .. MaxSyms] :
        \A j \in 0 .. MaxSyms :
          g[j] = IF j = 0 THEN sym_find(n) ELSE IF g[j - 1] = 0 THEN 0 ELSE syms[g[j - 1]].prev_tok
  <2>1. Walks(n, MaxSyms) # {}
    BY WalkExists
  <2> QED
    BY <2>1 DEF Walks
<1>2. g = [j \in 0 .. MaxSyms |->
             IF j = 0 THEN sym_find(n) ELSE IF g[j - 1] = 0 THEN 0 ELSE syms[g[j - 1]].prev_tok]
  <2>1. g = [j \in 0 .. MaxSyms |-> g[j]]
    OBVIOUS
  <2>2. [j \in 0 .. MaxSyms |-> g[j]] =
          [j \in 0 .. MaxSyms |->
             IF j = 0 THEN sym_find(n) ELSE IF g[j - 1] = 0 THEN 0 ELSE syms[g[j - 1]].prev_tok]
    BY <1>1, Zenon
  <2> QED
    BY <2>1, <2>2
<1>3. c = [j \in 0 .. MaxSyms |->
             IF j = 0 THEN sym_find(n) ELSE IF c[j - 1] = 0 THEN 0 ELSE syms[c[j - 1]].prev_tok]
  BY <1>2 DEF Chain
<1>9. /\ g[0] = sym_find(n) /\ c[0] = sym_find(n)
      /\ \A j \in 1 .. MaxSyms :
           /\ g[j] = IF g[j - 1] = 0 THEN 0 ELSE syms[g[j - 1]].prev_tok
           /\ c[j] = IF c[j - 1] = 0 THEN 0 ELSE syms[c[j - 1]].prev_tok
  <2>1. /\ 0 \in 0 .. MaxSyms
        /\ \A j \in 1 .. MaxSyms : j \in 0 .. MaxSyms /\ j # 0
    BY <1>0
  <2>2. /\ g[0] = sym_find(n)
        /\ \A j \in 1 .. MaxSyms : g[j] = IF g[j - 1] = 0 THEN 0 ELSE syms[g[j - 1]].prev_tok
    BY <1>2, <2>1
  <2>3. /\ c[0] = sym_find(n)
        /\ \A j \in 1 .. MaxSyms : c[j] = IF c[j - 1] = 0 THEN 0 ELSE syms[c[j - 1]].prev_tok
    BY <1>3, <2>1
  <2> QED
    BY <2>2, <2>3
<1> DEFINE X == {m \in 0 .. MaxSyms : c[m] # g[m]}
<1>4. X = {}
  <2> SUFFICES ASSUME X # {} PROVE FALSE
    OBVIOUS
  <2>1. PICK m \in X : \A k \in X : m <= k
    <3>1. X \subseteq Nat
      OBVIOUS
    <3> HIDE DEF X
    <3> QED
      BY <3>1, Smallest
  <2>2. m \in 0 .. MaxSyms /\ c[m] # g[m]
    BY <2>1
  <2>3. m # 0
    BY <1>9, <2>2
  <2>4. m - 1 \in 0 .. MaxSyms /\ ~ (m <= m - 1)
    BY <1>0, <2>2, <2>3
  <2>5. c[m - 1] = g[m - 1]
    BY <2>1, <2>4
  <2>6. m \in 1 .. MaxSyms
    BY <1>0, <2>2, <2>3
  <2> QED
    BY <1>9, <2>2, <2>5, <2>6
<1>5. c = g
  <2>1. \A m \in 0 .. MaxSyms : c[m] = g[m]
    BY <1>4
  <2> QED
    BY <1>2, <1>3, <2>1
<1>6. c \in [0 .. MaxSyms -> 0 .. MaxSyms] /\ c[0] = sym_find(n)
  BY <1>0, <1>1, <1>5 DEF Walks
<1>7. \A j \in 1 .. MaxSyms : c[j] = IF c[j - 1] = 0 THEN 0 ELSE syms[c[j - 1]].prev_tok
  BY <1>9
<1> QED
  BY <1>6, <1>7

LEMMA OpenIs ==
  ASSUME TypeInv
  PROVE  J \in Nat /\ Top \in Nat /\ \A j \in 1 .. J : open[j] \in Open /\ open[j].s \in Nat
<1>1. J \in Nat /\ Top \in Nat
  BY DEF TypeInv, J, Top
<1>2. \A j \in 1 .. J : open[j] \in Open
  BY DEF TypeInv, J
<1> QED
  BY <1>1, <1>2 DEF Open

LEMMA TypesOf ==
  ASSUME TypeInv
  PROVE  /\ \A k \in 1 .. Top : local_stack[k] \in Index
         /\ \A k \in 1 .. Len(global_stack) : global_stack[k] \in Index
         /\ \A m \in 1 .. J + 1, x \in Names : scopes[m][x] \in Index \cup {0}
         /\ \A x \in Names : sym_identifier[x] \in 0 .. MaxSyms
<1>1. \A k \in 1 .. Top : local_stack[k] \in Index
  BY DEF TypeInv, Top
<1>2. \A k \in 1 .. Len(global_stack) : global_stack[k] \in Index
  BY DEF TypeInv
<1>3. \A m \in 1 .. J + 1, x \in Names : scopes[m][x] \in Index \cup {0}
  <2>1. \A m \in 1 .. J + 1 : scopes[m] \in [Names -> 0 .. MaxSyms]
    BY DEF TypeInv
  <2> QED
    BY <2>1 DEF Index
<1> QED
  BY <1>1, <1>2, <1>3 DEF TypeInv

\* no symbol is a declaration in two scopes
LEMMA DeclaredOnce ==
  ASSUME Assumptions, IInv, NEW n \in Names, NEW k \in 1 .. J + 1, NEW m \in 1 .. J + 1, k < m,
         scopes[k][n] # 0
  PROVE  scopes[k][n] # scopes[m][n]
<1> SUFFICES ASSUME scopes[k][n] = scopes[m][n] PROVE FALSE
  OBVIOUS
<1>0. J \in Nat /\ \A j \in 1 .. J : open[j].s \in Nat
  BY OpenIs DEF IInv
<1>1. PICK q \in 1 .. Top : /\ local_stack[q] = scopes[m][n] /\ Base(m - 1) < q
                            /\ m <= J => q <= open[m].s
  <2>1. m \in 2 .. J + 1
    BY <1>0
  <2> QED
    BY <2>1 DEF IInv, WhereInv
<1>2. CASE k = 1
  <2>1. PICK p \in 1 .. Len(global_stack) : global_stack[p] = scopes[1][n]
    BY <1>2 DEF IInv, WhereInv
  <2> QED
    BY <1>1, <1>2, <2>1 DEF IInv, StackInv
<1>3. CASE k # 1
  <2>1. k \in 2 .. J + 1 /\ k <= J
    BY <1>0, <1>3
  <2>2. PICK p \in 1 .. Top : local_stack[p] = scopes[k][n] /\ (k <= J => p <= open[k].s)
    BY <2>1 DEF IInv, WhereInv
  <2>3. p = q
    BY <1>1, <2>2 DEF IInv, StackInv
  <2>4. Base(m - 1) = open[m - 1].s /\ open[k].s <= open[m - 1].s /\ m - 1 \in 1 .. J
    <3>1. m - 1 \in 1 .. J /\ k \in 1 .. J /\ k <= m - 1 /\ m - 1 # 1
      BY <1>0, <2>1
    <3> QED
      BY <3>1 DEF IInv, OpenInv, Base
  <2>5. open[k].s \in Nat /\ open[m - 1].s \in Nat
    BY <1>0, <2>1, <2>4
  <2> QED
    BY <1>1, <2>1, <2>2, <2>3, <2>4, <2>5
<1> QED
  BY <1>2, <1>3

\* the chain goes from scope to scope outwards
LEMMA ChainOut ==
  ASSUME Assumptions, IInv, NEW n \in Names, NEW j \in 0 .. MaxSyms, Chain(n)[j] # 0
  PROVE  \E k \in 1 .. J + 1 :
           /\ Chain(n)[j] = scopes[k][n]
           /\ \A h \in 0 .. j - 1 : \E l \in k + 1 .. J + 1 : Chain(n)[h] = scopes[l][n]
<1> DEFINE C == Chain(n)
           Out(i, k) == C[i] = scopes[k][n] /\ \A h \in 0 .. i - 1 : \E l \in k + 1 .. J + 1 : C[h] = scopes[l][n]
           X == {i \in 0 .. MaxSyms : C[i] # 0 /\ \A k \in 1 .. J + 1 : ~ Out(i, k)}
<1>0. /\ MaxSyms \in Nat /\ J \in Nat
      /\ C[0] = sym_find(n) /\ Inner(sym_find(n), scopes, n, J + 1)
      /\ \A i \in 1 .. MaxSyms : C[i] = IF C[i - 1] = 0 THEN 0 ELSE syms[C[i - 1]].prev_tok
  <2>1. TypeInv /\ MaxSyms \in Nat /\ J \in Nat
    BY OpenIs DEF IInv, Assumptions
  <2>2. Inner(sym_find(n), scopes, n, J + 1)
    BY DEF IInv, MeantInv, sym_find
  <2> QED
    BY <2>1, <2>2, ChainIs
<1> HIDE DEF C
<1>1. X = {}
  <2> SUFFICES ASSUME X # {} PROVE FALSE
    OBVIOUS
  <2>1. PICK i \in X : \A k \in X : i <= k
    <3>1. X \subseteq Nat
      OBVIOUS
    <3> HIDE DEF X
    <3> QED
      BY <3>1, Smallest
  <2>2. i \in 0 .. MaxSyms /\ C[i] # 0 /\ \A k \in 1 .. J + 1 : ~ Out(i, k)
    BY <2>1
  <2>3. CASE i = 0
    <3>1. PICK k \in 1 .. J + 1 : scopes[k][n] = C[0]
      BY <1>0, <2>2, <2>3 DEF Inner
    <3>2. Out(0, k)
      BY <3>1
    <3> QED
      BY <2>2, <2>3, <3>2
  <2>4. CASE i # 0
    <3>1. i - 1 \in 0 .. MaxSyms /\ ~ (i <= i - 1) /\ i \in 1 .. MaxSyms
      BY <1>0, <2>2, <2>4
    <3>2. C[i - 1] # 0 /\ C[i] = syms[C[i - 1]].prev_tok
      BY <1>0, <2>2, <3>1
    <3>3. PICK k \in 1 .. J + 1 : Out(i - 1, k)
      BY <2>1, <3>1, <3>2
    <3>4. Inner(C[i], scopes, n, k - 1)
      BY <3>2, <3>3 DEF IInv, MeantInv
    <3>5. PICK m \in 1 .. k - 1 : scopes[m][n] = C[i]
      BY <2>2, <3>4 DEF Inner
    <3>6. \A h \in 0 .. i - 1 : \E l \in m + 1 .. J + 1 : C[h] = scopes[l][n]
      <4>1. SUFFICES ASSUME NEW h \in 0 .. i - 1
                     PROVE  \E l \in m + 1 .. J + 1 : C[h] = scopes[l][n]
        OBVIOUS
      <4>2. CASE h = i - 1
        <5>1. k \in m + 1 .. J + 1 /\ C[h] = scopes[k][n]
          BY <1>0, <3>3, <3>5, <4>2
        <5> QED
          BY <5>1
      <4>3. CASE h # i - 1
        <5>1. h \in 0 .. i - 1 - 1
          BY <3>1, <4>1, <4>3
        <5>2. PICK l \in k + 1 .. J + 1 : C[h] = scopes[l][n]
          BY <3>3, <5>1
        <5>3. l \in m + 1 .. J + 1
          BY <1>0, <3>5, <5>2
        <5> QED
          BY <5>2, <5>3
      <4> QED
        BY <4>2, <4>3
    <3>7. m \in 1 .. J + 1
      BY <1>0, <3>5
    <3> QED
      BY <2>2, <3>5, <3>6, <3>7
  <2> QED
    BY <2>3, <2>4
<1>2. C[j] # 0
  BY DEF C
<1>3. \E k \in 1 .. J + 1 : Out(j, k)
  BY <1>1, <1>2
<1> QED
  BY <1>3 DEF C

\* so it ends before it could visit every symbol
LEMMA ChainEnds ==
  ASSUME Assumptions, IInv, NEW n \in Names
  PROVE  \E j \in 0 .. MaxSyms : Chain(n)[j] = 0
<1> SUFFICES ASSUME \A j \in 0 .. MaxSyms : Chain(n)[j] # 0 PROVE FALSE
  OBVIOUS
<1>1. MaxSyms \in Nat /\ Chain(n) \in [0 .. MaxSyms -> 1 .. MaxSyms]
  <2>1. MaxSyms \in Nat /\ Chain(n) \in [0 .. MaxSyms -> 0 .. MaxSyms]
    BY ChainIs DEF Assumptions, IInv
  <2> QED
    BY <2>1
<1>2. /\ IsFiniteSet(0 .. MaxSyms) /\ Cardinality(0 .. MaxSyms) = MaxSyms + 1
      /\ IsFiniteSet(1 .. MaxSyms) /\ Cardinality(1 .. MaxSyms) = MaxSyms
  <2>1. 0 \in Int /\ 1 \in Int /\ MaxSyms \in Int
    BY <1>1
  <2>2. /\ IsFiniteSet(0 .. MaxSyms)
        /\ Cardinality(0 .. MaxSyms) = IF 0 > MaxSyms THEN 0 ELSE MaxSyms - 0 + 1
    BY <2>1, FS_Interval
  <2>3. /\ IsFiniteSet(1 .. MaxSyms)
        /\ Cardinality(1 .. MaxSyms) = IF 1 > MaxSyms THEN 0 ELSE MaxSyms - 1 + 1
    BY <2>1, FS_Interval
  <2> QED
    BY <1>1, <2>2, <2>3
<1>3. PICK x \in 0 .. MaxSyms, y \in 0 .. MaxSyms : x # y /\ Chain(n)[x] = Chain(n)[y]
  <2>1. Cardinality(1 .. MaxSyms) < Cardinality(0 .. MaxSyms)
    BY <1>1, <1>2
  <2> QED
    BY <1>1, <1>2, <2>1, FS_PigeonHole
<1>4. ASSUME NEW p \in 0 .. MaxSyms, NEW q \in 0 .. MaxSyms, p < q
      PROVE  Chain(n)[p] # Chain(n)[q]
  <2>1. PICK k \in 1 .. J + 1 :
           /\ Chain(n)[q] = scopes[k][n]
           /\ \A h \in 0 .. q - 1 : \E l \in k + 1 .. J + 1 : Chain(n)[h] = scopes[l][n]
    BY ChainOut
  <2>2. p \in 0 .. q - 1
    BY <1>1, <1>4
  <2>3. PICK l \in k + 1 .. J + 1 : Chain(n)[p] = scopes[l][n]
    BY <2>1, <2>2
  <2>4. J \in Nat
    BY DEF IInv, TypeInv, J
  <2>5. l \in 1 .. J + 1 /\ k < l
    BY <2>3, <2>4
  <2>6. scopes[k][n] # 0
    BY <2>1
  <2> QED
    BY <2>1, <2>3, <2>5, <2>6, DeclaredOnce
<1>5. x < y \/ y < x
  BY <1>1, <1>3
<1> QED
  BY <1>3, <1>4, <1>5

-----------------------------------------------------------------------------
(* Declarations.                                                           *)

LEMMA MadeFact ==
  ASSUME Assumptions, IInv, Free # {}
  PROVE  /\ Made \in Index /\ Made # 0
         /\ \A p \in 1 .. Len(global_stack) : global_stack[p] # Made
         /\ \A p \in 1 .. Top : local_stack[p] # Made
         /\ \A m \in 1 .. J + 1, n \in Names : scopes[m][n] # Made
<1>1. Made \in Free
  <2>1. Free \subseteq Nat
    BY DEF Free, Assumptions
  <2>2. \E k \in Free : \A m \in Free : k <= m
    BY <2>1, Smallest
  <2> QED
    BY <2>2 DEF Made
<1>2. Made \in Index /\ Made # 0 /\ Made \notin Live
  BY <1>1 DEF Free, Index, Assumptions
<1>3. /\ \A p \in 1 .. Len(global_stack) : global_stack[p] \in Live
      /\ \A p \in 1 .. Top : local_stack[p] \in Live
  <2>1. /\ DOMAIN global_stack = 1 .. Len(global_stack)
        /\ DOMAIN local_stack = 1 .. Top
    BY DEF IInv, TypeInv, Top
  <2> QED
    BY <2>1 DEF Live, Range
<1>4. \A m \in 1 .. J + 1, n \in Names : scopes[m][n] # 0 => scopes[m][n] \in Live
  <2> SUFFICES ASSUME NEW m \in 1 .. J + 1, NEW n \in Names, scopes[m][n] # 0
               PROVE  scopes[m][n] \in Live
    OBVIOUS
  <2>1. CASE m = 1
    BY <1>3, <2>1 DEF IInv, WhereInv
  <2>2. CASE m # 1
    <3>1. m \in 2 .. J + 1
      BY <2>2, OpenIs DEF IInv
    <3> QED
      BY <1>3, <3>1 DEF IInv, WhereInv
  <2> QED
    BY <2>1, <2>2
<1> QED
  BY <1>2, <1>3, <1>4

\* a declaration in the innermost scope of a function
LEMMA LocalAdded ==
  ASSUME Assumptions, IInv, J # 0, NEW n \in Names, NEW scope \in {0, local_scope},
         NEW auto \in BOOLEAN, scopes[J + 1][n] = 0, Push(n, scope, auto),
         Declared(J + 1, n), UNCHANGED <<local_scope, open, refused>>
  PROVE  IInv'
<1>1. /\ J \in Nat /\ Top \in Nat /\ local_scope \in Nat /\ scope \in Nat
      /\ \A j \in 1 .. J : open[j] \in Open /\ open[j].s \in Nat
  <2>1. TypeInv
    BY DEF IInv
  <2>2. local_scope \in Nat
    BY <2>1 DEF TypeInv
  <2> QED
    BY <2>1, <2>2, OpenIs
<1> PICK new : new = Made
  OBVIOUS
<1>2. /\ new \in Index /\ new # 0
      /\ \A p \in 1 .. Len(global_stack) : global_stack[p] # new
      /\ \A p \in 1 .. Top : local_stack[p] # new
      /\ \A m \in 1 .. J + 1, x \in Names : scopes[m][x] # new
  BY MadeFact DEF Push
<1>3. /\ syms' = [syms EXCEPT ![new] = [v |-> n, sym_scope |-> scope, prev_tok |-> sym_identifier[n], auto |-> auto]]
      /\ sym_identifier' = [sym_identifier EXCEPT ![n] = new]
      /\ local_stack' = Append(local_stack, new) /\ global_stack' = global_stack
      /\ scopes' = [scopes EXCEPT ![J + 1][n] = new]
      /\ local_scope' = local_scope /\ open' = open /\ refused' = refused
  BY DEF Push, sym_find, Declared, IInv, OpenInv
<1>4. /\ J' = J /\ Top' = Top + 1 /\ local_stack'[Top + 1] = new
      /\ \A p \in 1 .. Top : local_stack'[p] = local_stack[p]
  BY <1>2, <1>3 DEF J, Top, IInv, TypeInv
<1>5. /\ \A k \in Index : k # new => syms'[k] = syms[k]
      /\ syms'[new] = [v |-> n, sym_scope |-> scope, prev_tok |-> sym_identifier[n], auto |-> auto]
      /\ sym_identifier'[n] = new
      /\ \A x \in Names : x # n => sym_identifier'[x] = sym_identifier[x]
  BY <1>2, <1>3 DEF IInv, TypeInv
<1>6. /\ scopes'[J + 1][n] = new
      /\ \A m \in 1 .. J + 1, x \in Names : m # J + 1 \/ x # n => scopes'[m][x] = scopes[m][x]
      /\ scopes' \in Seq([Names -> 0 .. MaxSyms]) /\ Len(scopes') = J + 1
  <2>1. scopes \in Seq([Names -> 0 .. MaxSyms]) /\ Len(scopes) = J + 1 /\ new \in 0 .. MaxSyms
    BY <1>2 DEF IInv, TypeInv, Index
  <2> QED
    BY <1>1, <1>3, <2>1
<1>7. \A m \in 1 .. J + 1 : Level(m)' = Level(m)
  BY <1>3, <1>4 DEF Level
<1>8. \A j \in 1 .. J : Base(j)' = Base(j) /\ Base(j) \in 0 .. Top
  <2>1. \A j \in 1 .. J : Base(j) \in 0 .. Top
    BY <1>1 DEF Base, IInv, OpenInv
  <2> QED
    BY <1>3, <2>1 DEF Base
<1>9. /\ \A k \in 1 .. Top : local_stack[k] \in Index
      /\ \A k \in 1 .. Len(global_stack) : global_stack[k] \in Index
      /\ \A m \in 1 .. J + 1, x \in Names : scopes[m][x] \in Index \cup {0}
      /\ \A x \in Names : sym_identifier[x] \in 0 .. MaxSyms
  BY TypesOf DEF IInv
<1>10. /\ \A m \in 1 .. J + 1, x \in Names : scopes[m][x] # 0 => syms'[scopes[m][x]] = syms[scopes[m][x]]
       /\ \A p \in 1 .. Top : syms'[local_stack[p]] = syms[local_stack[p]]
       /\ \A p \in 1 .. Len(global_stack) : syms'[global_stack[p]] = syms[global_stack[p]]
  BY <1>2, <1>5, <1>9
<1>11. TypeInv'
  <2>1. syms' \in [Index -> Sym]
    <3>1. [v |-> n, sym_scope |-> scope, prev_tok |-> sym_identifier[n], auto |-> auto] \in Sym
      BY <1>1, <1>9 DEF Sym
    <3> QED
      BY <1>3, <3>1 DEF IInv, TypeInv
  <2>2. local_stack' \in Seq(Index) /\ sym_identifier' \in [Names -> 0 .. MaxSyms]
    BY <1>2, <1>3 DEF IInv, TypeInv, Index
  <2> QED
    BY <1>3, <1>4, <1>6, <2>1, <2>2 DEF IInv, TypeInv
<1>12. OpenInv'
  <2>1. local_stack' # << >>
    BY <1>1, <1>4 DEF Top
  <2> QED
    BY <1>1, <1>3, <1>4, <2>1 DEF IInv, OpenInv
<1>13. StackInv'
  <2>1. ASSUME NEW p \in 1 .. Top + 1, NEW q \in 1 .. Top + 1, local_stack'[p] = local_stack'[q]
        PROVE  p = q
    <3>1. (p \in 1 .. Top \/ p = Top + 1) /\ (q \in 1 .. Top \/ q = Top + 1)
      BY <1>1
    <3> QED
      BY <1>2, <1>4, <2>1, <3>1 DEF IInv, StackInv
  <2>2. ASSUME NEW p \in 1 .. Len(global_stack), NEW q \in 1 .. Top + 1
        PROVE  global_stack[p] # local_stack'[q]
    <3>1. q \in 1 .. Top \/ q = Top + 1
      BY <1>1
    <3> QED
      BY <1>2, <1>4, <3>1 DEF IInv, StackInv
  <2>3. \A p, q \in 1 .. Len(global_stack) : global_stack[p] = global_stack[q] => p = q
    BY DEF IInv, StackInv
  <2> QED
    BY <1>3, <1>4, <2>1, <2>2, <2>3 DEF StackInv
<1>14. LevelInv'
  <2>1. \A k, m \in 1 .. J + 1 : k < m => Level(k)' < Level(m)'
    BY <1>7 DEF IInv, LevelInv
  <2>2. ASSUME NEW m \in 1 .. J + 1, NEW x \in Names, scopes'[m][x] # 0
        PROVE  syms'[scopes'[m][x]].sym_scope \in {0, Level(m)'}
    <3>1. CASE m = J + 1 /\ x = n
      <4>1. Level(m) = local_scope
        BY <1>1, <3>1 DEF Level
      <4> QED
        BY <1>5, <1>6, <1>7, <3>1, <4>1
    <3>2. CASE ~ (m = J + 1 /\ x = n)
      <4>1. scopes'[m][x] = scopes[m][x]
        BY <1>6, <3>2
      <4>2. syms[scopes[m][x]].sym_scope \in {0, Level(m)}
        BY <2>2, <4>1 DEF IInv, LevelInv
      <4> QED
        BY <1>7, <1>10, <2>2, <4>1, <4>2
    <3> QED
      BY <3>1, <3>2
  <2> QED
    BY <1>4, <2>1, <2>2 DEF LevelInv
<1>15. WhereInv'
  <2>1. ASSUME NEW m \in 1 .. J + 1, NEW x \in Names, scopes'[m][x] # 0
        PROVE  syms'[scopes'[m][x]].v = x
    <3>1. CASE m = J + 1 /\ x = n
      BY <1>5, <1>6, <3>1
    <3>2. CASE ~ (m = J + 1 /\ x = n)
      <4>1. scopes'[m][x] = scopes[m][x]
        BY <1>6, <3>2
      <4>2. syms[scopes[m][x]].v = x
        BY <2>1, <4>1 DEF IInv, WhereInv
      <4> QED
        BY <1>10, <2>1, <4>1, <4>2
    <3> QED
      BY <3>1, <3>2
  <2>2. \A x \in Names : scopes'[1][x] = scopes[1][x]
    BY <1>1, <1>6
  <2>3. ASSUME NEW m \in 2 .. J + 1, NEW x \in Names, scopes'[m][x] # 0
        PROVE  \E p \in 1 .. Top + 1 : /\ local_stack'[p] = scopes'[m][x] /\ Base(m - 1)' < p
                                       /\ m <= J => p <= open[m].s
    <3>1. m \in 1 .. J + 1 /\ m - 1 \in 1 .. J
      BY <1>1
    <3>2. CASE m = J + 1 /\ x = n
      <4>1. Top + 1 \in 1 .. Top + 1 /\ Base(m - 1)' < Top + 1
        BY <1>1, <1>8, <3>1
      <4> QED
        BY <1>1, <1>4, <1>6, <3>2, <4>1
    <3>3. CASE ~ (m = J + 1 /\ x = n)
      <4>3. scopes'[m][x] = scopes[m][x]
        BY <1>6, <3>1, <3>3
      <4>1. PICK p \in 1 .. Top : /\ local_stack[p] = scopes[m][x] /\ Base(m - 1) < p
                                  /\ m <= J => p <= open[m].s
        BY <2>3, <4>3 DEF IInv, WhereInv
      <4>2. p \in 1 .. Top + 1
        BY <1>1
      <4> QED
        BY <1>4, <1>8, <3>1, <4>1, <4>2, <4>3
    <3> QED
      BY <3>2, <3>3
  <2>4. \A p \in 1 .. Len(global_stack) : \E x \in Names :
          scopes'[1][x] = global_stack[p] /\ syms'[global_stack[p]].prev_tok = 0
    BY <1>10, <2>2 DEF IInv, WhereInv
  <2>5. \A x \in Names : scopes'[1][x] # 0 =>
          \E p \in 1 .. Len(global_stack) : global_stack[p] = scopes'[1][x]
    BY <2>2 DEF IInv, WhereInv
  <2>6. open' = open /\ global_stack' = global_stack /\ J' = J /\ Top' = Top + 1
    BY <1>3, <1>4
  <2>7. \A m \in 2 .. J + 1 : Base(m - 1)' = Base(m - 1)
    <3>1. \A m \in 2 .. J + 1 : m - 1 \in 1 .. J
      BY <1>1
    <3> QED
      BY <1>8, <3>1
  <2> QED
    BY <2>1, <2>3, <2>4, <2>5, <2>6, <2>7 DEF WhereInv
<1>16. MeantInv'
  <2>1. ASSUME NEW x \in Names, NEW m \in 0 .. J + 1, NEW y, Inner(y, scopes, x, m), m # J + 1 \/ x # n
        PROVE  Inner(y, scopes', x, m)
    <3>1. \A k \in 1 .. m : scopes'[k][x] = scopes[k][x]
      BY <1>1, <1>6, <2>1
    <3> QED
      BY <2>1, <3>1, InnerSame
  <2>2. ASSUME NEW x \in Names, NEW m \in 1 .. J + 1, scopes'[m][x] # 0
        PROVE  Inner(syms'[scopes'[m][x]].prev_tok, scopes', x, m - 1)
    <3>1. CASE m = J + 1 /\ x = n
      <4>1. Inner(sym_identifier[n], scopes, n, J + 1)
        BY DEF IInv, MeantInv
      <4>2. \A l \in J + 1 .. J + 1 : scopes[l][n] = 0
        BY <1>1
      <4>3. Inner(sym_identifier[n], scopes, n, J)
        BY <1>1, <4>1, <4>2, InnerNone
      <4> QED
        BY <1>1, <1>5, <1>6, <2>1, <3>1, <4>3
    <3>2. CASE ~ (m = J + 1 /\ x = n)
      <4>1. Inner(syms[scopes[m][x]].prev_tok, scopes, x, m - 1)
        BY <1>6, <2>2, <3>2 DEF IInv, MeantInv
      <4>2. m - 1 \in 0 .. J + 1 /\ m - 1 # J + 1
        BY <1>1
      <4> QED
        BY <1>6, <1>10, <2>1, <2>2, <3>2, <4>1, <4>2
    <3> QED
      BY <3>1, <3>2
  <2>3. ASSUME NEW x \in Names PROVE Inner(sym_identifier'[x], scopes', x, J + 1)
    <3>1. CASE x = n
      <4>1. scopes'[J + 1][n] # 0
        BY <1>2, <1>6
      <4> QED
        BY <1>1, <1>5, <1>6, <3>1, <4>1, InnerHere
    <3>2. CASE x # n
      <4>1. Inner(sym_identifier[x], scopes, x, J + 1) /\ J + 1 \in 0 .. J + 1
        BY <1>1 DEF IInv, MeantInv
      <4> QED
        BY <1>5, <2>1, <3>2, <4>1
    <3> QED
      BY <3>1, <3>2
  <2> QED
    BY <1>4, <2>2, <2>3 DEF MeantInv
<1>17. PopInv'
  <2> SUFFICES ASSUME NEW j \in 1 .. J, NEW x \in Names
               PROVE  \/ /\ \A p \in Base(j) + 1 .. Top + 1 : ~ Named(p, x)'
                         /\ \A m \in j + 1 .. J + 1 : scopes'[m][x] = 0
                      \/ \E p \in 1 .. Top + 1 :
                           /\ p \in Base(j) + 1 .. Top + 1 /\ Named(p, x)'
                           /\ \A q \in Base(j) + 1 .. p - 1 : ~ Named(q, x)'
                           /\ Inner(syms'[local_stack'[p]].prev_tok, scopes', x, j)
    BY <1>4, <1>8 DEF PopInv, Lowest
  <2>1. \A p \in 1 .. Top : Named(p, x)' <=> Named(p, x)
    BY <1>4, <1>10 DEF Named
  <2> PICK t : t = Top + 1
    OBVIOUS
  <2>2. Named(t, x)' <=> x = n
    BY <1>4, <1>5 DEF Named
  <2>3. ASSUME NEW y, Inner(y, scopes, x, j) PROVE Inner(y, scopes', x, j)
    <3>1. j \in Nat /\ \A k \in 1 .. j : scopes'[k][x] = scopes[k][x]
      BY <1>1, <1>6
    <3> QED
      BY <2>3, <3>1, InnerSame
  <2>4. Base(j) \in 0 .. Top
    BY <1>8
  <2>5. CASE \E p \in 1 .. Top : Lowest(p, Base(j), x) /\ Inner(syms[local_stack[p]].prev_tok, scopes, x, j)
    <3>1. PICK p \in 1 .. Top : Lowest(p, Base(j), x) /\ Inner(syms[local_stack[p]].prev_tok, scopes, x, j)
      BY <2>5
    <3>2. p \in 1 .. Top + 1 /\ p \in Base(j) + 1 .. Top + 1 /\ Named(p, x)'
      BY <1>1, <2>1, <2>4, <3>1 DEF Lowest
    <3>3. \A q \in Base(j) + 1 .. p - 1 : q \in 1 .. Top
      BY <1>1, <2>4, <3>1 DEF Lowest
    <3>4. \A q \in Base(j) + 1 .. p - 1 : ~ Named(q, x)'
      BY <2>1, <3>1, <3>3 DEF Lowest
    <3>5. Inner(syms'[local_stack'[p]].prev_tok, scopes', x, j)
      BY <1>4, <1>10, <2>3, <3>1
    <3> QED
      BY <3>2, <3>4, <3>5
  <2>6. CASE /\ \A p \in Base(j) + 1 .. Top : ~ Named(p, x)
             /\ \A m \in j + 1 .. J + 1 : scopes[m][x] = 0
    <3>1. \A p \in Base(j) + 1 .. Top : ~ Named(p, x)'
      <4>1. \A p \in Base(j) + 1 .. Top : p \in 1 .. Top
        BY <1>1, <2>4
      <4> QED
        BY <2>1, <2>6, <4>1
    <3>2. CASE x = n
      <4>1. t \in 1 .. Top + 1 /\ t \in Base(j) + 1 .. Top + 1 /\ t - 1 = Top
        BY <1>1, <2>4
      <4>2. Inner(sym_identifier[n], scopes, n, J + 1)
        BY DEF IInv, MeantInv
      <4>3. Inner(sym_identifier[n], scopes, n, j)
        <5>1. j \in 0 .. J + 1 /\ J + 1 \in Nat
          BY <1>1
        <5> QED
          BY <2>6, <3>2, <4>2, <5>1, InnerNone
      <4>4. Inner(syms'[local_stack'[t]].prev_tok, scopes', x, j)
        BY <1>4, <1>5, <2>3, <3>2, <4>3
      <4>5. \A q \in Base(j) + 1 .. t - 1 : ~ Named(q, x)'
        BY <3>1, <4>1
      <4> QED
        BY <2>2, <3>2, <4>1, <4>4, <4>5
    <3>3. CASE x # n
      <4>1. ASSUME NEW p \in Base(j) + 1 .. Top + 1 PROVE ~ Named(p, x)'
        <5>1. p \in Base(j) + 1 .. Top \/ p = t
          BY <1>1, <2>4
        <5> QED
          BY <2>2, <3>1, <3>3, <5>1
      <4>2. \A m \in j + 1 .. J + 1 : scopes'[m][x] = 0
        <5>1. \A m \in j + 1 .. J + 1 : m \in 1 .. J + 1
          BY <1>1
        <5> QED
          BY <1>6, <2>6, <3>3, <5>1
      <4> QED
        BY <4>1, <4>2
    <3> QED
      BY <3>2, <3>3
  <2> QED
    BY <2>5, <2>6 DEF IInv, PopInv
<1>18. ValsInv'
  <2> SUFFICES ASSUME NEW j \in 1 .. J, NEW k \in open[j].vals
               PROVE  \E p \in 1 .. Top + 1 : local_stack'[p] = k /\ (j < J => p <= open[j + 1].s)
    <3>1. J' = J /\ open' = open /\ Top' = Top + 1
      BY <1>3, <1>4
    <3> QED
      BY <3>1 DEF ValsInv
  <2>1. PICK p \in 1 .. Top : local_stack[p] = k /\ (j < J => p <= open[j + 1].s)
    BY DEF IInv, ValsInv
  <2>2. p \in 1 .. Top + 1
    BY <1>1
  <2> QED
    BY <1>4, <2>1, <2>2
<1> QED
  BY <1>11, <1>12, <1>13, <1>14, <1>15, <1>16, <1>17, <1>18 DEF IInv

\* a declaration of the file, below those of the function's scopes: it goes to
\* the end of the chain, and symbols of the name that are still on the local
\* stack are declarations
LEMMA GlobalAdded ==
  ASSUME Assumptions, IInv, Free # {}, NEW n \in Names, scopes[1][n] = 0,
         NEW auto \in BOOLEAN,
         syms' \in [Index -> Sym],
         syms'[Made] = [v |-> n, sym_scope |-> 0, prev_tok |-> 0, auto |-> auto],
         \A k \in Index : k # Made =>
           /\ syms'[k].v = syms[k].v /\ syms'[k].sym_scope = syms[k].sym_scope
           /\ syms[k].v # n => syms'[k].prev_tok = syms[k].prev_tok,
         \A m \in 1 .. J + 1 : scopes[m][n] # 0 =>
           syms'[scopes[m][n]].prev_tok =
             IF syms[scopes[m][n]].prev_tok = 0 THEN Made ELSE syms[scopes[m][n]].prev_tok,
         sym_identifier' = [sym_identifier EXCEPT ![n] = IF sym_identifier[n] = 0 THEN Made ELSE @],
         \A p \in 1 .. Top : Named(p, n) => \E m \in 1 .. J + 1 : scopes[m][n] = local_stack[p],
         global_stack' = Append(global_stack, Made), local_stack' = local_stack,
         Declared(1, n), UNCHANGED <<local_scope, open, refused>>
  PROVE  IInv'
<1>1. /\ J \in Nat /\ Top \in Nat /\ Len(global_stack) \in Nat
      /\ \A j \in 1 .. J : open[j] \in Open /\ open[j].s \in Nat
  <2>1. TypeInv
    BY DEF IInv
  <2>2. Len(global_stack) \in Nat
    BY <2>1 DEF TypeInv
  <2> QED
    BY <2>1, <2>2, OpenIs
<1> PICK new : new = Made
  OBVIOUS
<1>2. /\ new \in Index /\ new # 0
      /\ \A p \in 1 .. Len(global_stack) : global_stack[p] # new
      /\ \A p \in 1 .. Top : local_stack[p] # new
      /\ \A m \in 1 .. J + 1, x \in Names : scopes[m][x] # new
  BY MadeFact
<1>3. /\ J' = J /\ Top' = Top /\ open' = open /\ local_scope' = local_scope /\ refused' = refused
      /\ local_stack' = local_stack /\ scopes' = [scopes EXCEPT ![1][n] = new]
  BY DEF J, Top, Declared
<1>4. /\ Len(global_stack') = Len(global_stack) + 1 /\ global_stack'[Len(global_stack) + 1] = new
      /\ \A p \in 1 .. Len(global_stack) : global_stack'[p] = global_stack[p]
      /\ global_stack' \in Seq(Index)
  BY <1>2 DEF IInv, TypeInv
<1>5. /\ syms'[new] = [v |-> n, sym_scope |-> 0, prev_tok |-> 0, auto |-> auto]
      /\ \A k \in Index : k # new =>
           /\ syms'[k].v = syms[k].v /\ syms'[k].sym_scope = syms[k].sym_scope
           /\ syms[k].v # n => syms'[k].prev_tok = syms[k].prev_tok
      /\ \A m \in 1 .. J + 1 : scopes[m][n] # 0 =>
           syms'[scopes[m][n]].prev_tok =
             IF syms[scopes[m][n]].prev_tok = 0 THEN new ELSE syms[scopes[m][n]].prev_tok
  OBVIOUS
<1>6. /\ scopes'[1][n] = new
      /\ \A m \in 1 .. J + 1, x \in Names : m # 1 \/ x # n => scopes'[m][x] = scopes[m][x]
      /\ scopes' \in Seq([Names -> 0 .. MaxSyms]) /\ Len(scopes') = J + 1
  <2>1. scopes \in Seq([Names -> 0 .. MaxSyms]) /\ Len(scopes) = J + 1 /\ new \in 0 .. MaxSyms
    BY <1>2 DEF IInv, TypeInv, Index
  <2> QED
    BY <1>1, <1>3, <2>1
<1>7. /\ sym_identifier' \in [Names -> 0 .. MaxSyms]
      /\ sym_identifier'[n] = IF sym_identifier[n] = 0 THEN new ELSE sym_identifier[n]
      /\ \A x \in Names : x # n => sym_identifier'[x] = sym_identifier[x]
  <2>1. sym_identifier \in [Names -> 0 .. MaxSyms] /\ new \in 0 .. MaxSyms
    BY <1>2 DEF IInv, TypeInv, Index
  <2> QED
    BY <2>1
<1>8. \A j \in 1 .. J : Base(j)' = Base(j) /\ Base(j) \in 0 .. Top
  <2>1. \A j \in 1 .. J : Base(j) \in 0 .. Top
    BY <1>1 DEF Base, IInv, OpenInv
  <2> QED
    BY <1>3, <2>1 DEF Base
<1>9. /\ \A k \in 1 .. Top : local_stack[k] \in Index
      /\ \A k \in 1 .. Len(global_stack) : global_stack[k] \in Index
      /\ \A m \in 1 .. J + 1, x \in Names : scopes[m][x] \in Index \cup {0}
  BY TypesOf DEF IInv
<1>10. /\ \A m \in 1 .. J + 1, x \in Names : scopes[m][x] # 0 =>
            /\ syms[scopes[m][x]].v = x
            /\ syms'[scopes[m][x]].v = syms[scopes[m][x]].v
            /\ syms'[scopes[m][x]].sym_scope = syms[scopes[m][x]].sym_scope
            /\ x # n => syms'[scopes[m][x]].prev_tok = syms[scopes[m][x]].prev_tok
       /\ \A p \in 1 .. Top :
            /\ syms'[local_stack[p]].v = syms[local_stack[p]].v
            /\ ~ Named(p, n) => syms'[local_stack[p]].prev_tok = syms[local_stack[p]].prev_tok
  <2>1. \A m \in 1 .. J + 1, x \in Names : scopes[m][x] # 0 => syms[scopes[m][x]].v = x
    BY DEF IInv, WhereInv
  <2>2. \A p \in 1 .. Top : ~ Named(p, n) => syms[local_stack[p]].v # n
    BY DEF Named
  <2> QED
    BY <1>2, <1>5, <1>9, <2>1, <2>2
<1>11. TypeInv'
  <2>1. /\ local_stack \in Seq(Index) /\ open \in Seq(Open) /\ local_scope \in Nat /\ refused = FALSE
    BY DEF IInv, TypeInv
  <2> QED
    BY <1>3, <1>4, <1>6, <1>7, <2>1 DEF TypeInv
<1>12. OpenInv'
  <2>1. OpenInv
    BY DEF IInv
  <2> QED
    BY <1>3, <2>1 DEF OpenInv
<1>13. StackInv'
  <2>1. ASSUME NEW p \in 1 .. Len(global_stack) + 1, NEW q \in 1 .. Len(global_stack) + 1,
               global_stack'[p] = global_stack'[q]
        PROVE  p = q
    <3>1. /\ p \in 1 .. Len(global_stack) \/ p = Len(global_stack) + 1
          /\ q \in 1 .. Len(global_stack) \/ q = Len(global_stack) + 1
      BY <1>1
    <3> QED
      BY <1>2, <1>4, <2>1, <3>1 DEF IInv, StackInv
  <2>2. ASSUME NEW p \in 1 .. Len(global_stack) + 1, NEW q \in 1 .. Top
        PROVE  global_stack'[p] # local_stack[q]
    <3>1. p \in 1 .. Len(global_stack) \/ p = Len(global_stack) + 1
      BY <1>1
    <3> QED
      BY <1>2, <1>4, <3>1 DEF IInv, StackInv
  <2>3. \A p, q \in 1 .. Top : local_stack[p] = local_stack[q] => p = q
    BY DEF IInv, StackInv
  <2> QED
    BY <1>3, <1>4, <2>1, <2>2, <2>3 DEF StackInv
<1>14. LevelInv'
  <2>1. \A m \in 1 .. J + 1 : Level(m)' = Level(m)
    BY <1>3 DEF Level
  <2>2. \A k, m \in 1 .. J + 1 : k < m => Level(k)' < Level(m)'
    BY <2>1 DEF IInv, LevelInv
  <2>3. ASSUME NEW m \in 1 .. J + 1, NEW x \in Names, scopes'[m][x] # 0
        PROVE  syms'[scopes'[m][x]].sym_scope \in {0, Level(m)'}
    <3>1. CASE m = 1 /\ x = n
      BY <1>5, <1>6, <3>1
    <3>2. CASE ~ (m = 1 /\ x = n)
      <4>1. scopes'[m][x] = scopes[m][x]
        BY <1>6, <3>2
      <4>2. syms[scopes[m][x]].sym_scope \in {0, Level(m)}
        BY <2>3, <4>1 DEF IInv, LevelInv
      <4> QED
        BY <1>10, <2>1, <2>3, <4>1, <4>2
    <3> QED
      BY <3>1, <3>2
  <2> QED
    BY <1>3, <2>2, <2>3 DEF LevelInv
<1>15. WhereInv'
  <2>1. ASSUME NEW m \in 1 .. J + 1, NEW x \in Names, scopes'[m][x] # 0
        PROVE  syms'[scopes'[m][x]].v = x
    <3>1. CASE m = 1 /\ x = n
      BY <1>5, <1>6, <3>1
    <3>2. CASE ~ (m = 1 /\ x = n)
      <4>1. scopes'[m][x] = scopes[m][x]
        BY <1>6, <3>2
      <4> QED
        BY <1>10, <2>1, <4>1
    <3> QED
      BY <3>1, <3>2
  <2>2. ASSUME NEW x \in Names, scopes'[1][x] # 0
        PROVE  \E p \in 1 .. Len(global_stack) + 1 : global_stack'[p] = scopes'[1][x]
    <3>1. CASE x = n
      BY <1>1, <1>4, <1>6, <3>1
    <3>2. CASE x # n
      <4>1. scopes'[1][x] = scopes[1][x]
        BY <1>1, <1>6, <3>2
      <4>2. PICK p \in 1 .. Len(global_stack) : global_stack[p] = scopes[1][x]
        BY <2>2, <4>1 DEF IInv, WhereInv
      <4>3. p \in 1 .. Len(global_stack) + 1
        BY <1>1
      <4> QED
        BY <1>4, <4>1, <4>2, <4>3
    <3> QED
      BY <3>1, <3>2
  <2>3. \A m \in 2 .. J + 1, x \in Names : scopes'[m][x] # 0 =>
          \E p \in 1 .. Top : /\ local_stack[p] = scopes'[m][x] /\ Base(m - 1)' < p
                              /\ m <= J => p <= open[m].s
    <3> SUFFICES ASSUME NEW m \in 2 .. J + 1, NEW x \in Names, scopes'[m][x] # 0
                 PROVE  \E p \in 1 .. Top : /\ local_stack[p] = scopes'[m][x] /\ Base(m - 1)' < p
                                            /\ m <= J => p <= open[m].s
      OBVIOUS
    <3>1. m \in 1 .. J + 1 /\ m - 1 \in 1 .. J /\ m # 1
      BY <1>1
    <3>2. scopes'[m][x] = scopes[m][x] /\ Base(m - 1)' = Base(m - 1)
      BY <1>6, <1>8, <3>1
    <3> QED
      BY <3>2 DEF IInv, WhereInv
  <2>4. ASSUME NEW p \in 1 .. Len(global_stack) + 1
        PROVE  \E x \in Names : scopes'[1][x] = global_stack'[p] /\ syms'[global_stack'[p]].prev_tok = 0
    <3>1. CASE p = Len(global_stack) + 1
      BY <1>4, <1>5, <1>6, <3>1
    <3>2. CASE p # Len(global_stack) + 1
      <4>1. p \in 1 .. Len(global_stack)
        BY <1>1, <3>2
      <4>2. PICK x \in Names : scopes[1][x] = global_stack[p] /\ syms[global_stack[p]].prev_tok = 0
        BY <4>1 DEF IInv, WhereInv
      <4>3. scopes[1][x] # 0
        BY <1>9, <4>1, <4>2 DEF Index
      <4>4. x # n /\ 1 \in 1 .. J + 1
        BY <1>1, <4>3
      <4>5. scopes'[1][x] = scopes[1][x] /\ syms'[scopes[1][x]].prev_tok = syms[scopes[1][x]].prev_tok
        BY <1>6, <1>10, <4>3, <4>4
      <4> QED
        BY <1>4, <4>1, <4>2, <4>5
    <3> QED
      BY <3>1, <3>2
  <2>5. open' = open /\ J' = J /\ Top' = Top
    BY <1>3
  <2>6. \A m \in 1 .. J' + 1, x \in Names : scopes'[m][x] # 0 => syms'[scopes'[m][x]].v = x
    BY <2>1, <2>5
  <2>7. \A x \in Names : scopes'[1][x] # 0 =>
          \E p \in 1 .. Len(global_stack') : global_stack'[p] = scopes'[1][x]
    BY <1>4, <2>2
  <2>8. \A m \in 2 .. J' + 1, x \in Names : scopes'[m][x] # 0 =>
          \E p \in 1 .. Top' : /\ local_stack'[p] = scopes'[m][x] /\ Base(m - 1)' < p
                               /\ m <= J' => p <= open'[m].s
    BY <1>3, <2>3, <2>5
  <2>9. \A p \in 1 .. Len(global_stack') : \E x \in Names :
          scopes'[1][x] = global_stack'[p] /\ syms'[global_stack'[p]].prev_tok = 0
    BY <1>4, <2>4
  <2> QED
    BY <2>6, <2>7, <2>8, <2>9 DEF WhereInv
<1>16. ASSUME NEW x \in Names, NEW m \in 0 .. J + 1, NEW y, Inner(y, scopes, x, m),
              x = n => m # 0
       PROVE  Inner(IF x = n /\ y = 0 THEN new ELSE y, scopes', x, m)
  <2>1. CASE x = n
    <3>1. m \in Nat \ {0} /\ \A k \in 2 .. m : scopes'[k][n] = scopes[k][n]
      BY <1>1, <1>6, <1>16, <2>1
    <3> QED
      <4>1. Inner(y, scopes, n, m) /\ scopes'[1][n] = new
        BY <1>6, <1>16, <2>1
      <4>2. Inner(IF y = 0 THEN new ELSE y, scopes', n, m)
        BY <1>2, <3>1, <4>1, InnerFile
      <4> QED
        BY <2>1, <4>2
  <2>2. CASE x # n
    <3>1. \A k \in 1 .. m : scopes'[k][x] = scopes[k][x]
      BY <1>1, <1>6, <2>2
    <3> QED
      BY <1>16, <2>2, <3>1, InnerSame
  <2> QED
    BY <2>1, <2>2
<1>17. MeantInv'
  <2>1. ASSUME NEW x \in Names PROVE Inner(sym_identifier'[x], scopes', x, J + 1)
    <3>1. Inner(sym_identifier[x], scopes, x, J + 1) /\ J + 1 \in 0 .. J + 1 /\ J + 1 # 0
      BY <1>1 DEF IInv, MeantInv
    <3>2. Inner(IF x = n /\ sym_identifier[x] = 0 THEN new ELSE sym_identifier[x], scopes', x, J + 1)
      BY <1>16, <3>1
    <3>3. sym_identifier'[x] = IF x = n /\ sym_identifier[x] = 0 THEN new ELSE sym_identifier[x]
      BY <1>7
    <3> QED
      BY <3>2, <3>3
  <2>2. ASSUME NEW x \in Names, NEW m \in 1 .. J + 1, scopes'[m][x] # 0
        PROVE  Inner(syms'[scopes'[m][x]].prev_tok, scopes', x, m - 1)
    <3>1. CASE m = 1 /\ x = n
      <4>1. syms'[scopes'[m][x]].prev_tok = 0
        BY <1>5, <1>6, <3>1
      <4> QED
        BY <3>1, <4>1 DEF Inner
    <3>2. CASE ~ (m = 1 /\ x = n)
      <4>1. scopes'[m][x] = scopes[m][x] /\ m - 1 \in 0 .. J + 1 /\ (x = n => m - 1 # 0)
        BY <1>1, <1>6, <3>2
      <4> PICK y : y = syms[scopes[m][x]].prev_tok
        OBVIOUS
      <4>2. Inner(y, scopes, x, m - 1)
        BY <2>2, <4>1 DEF IInv, MeantInv
      <4>3. Inner(IF x = n /\ y = 0 THEN new ELSE y, scopes', x, m - 1)
        BY <1>16, <4>1, <4>2
      <4>4. syms'[scopes[m][x]].prev_tok = IF x = n /\ y = 0 THEN new ELSE y
        <5>1. CASE x = n
          BY <1>5, <2>2, <4>1, <5>1
        <5>2. CASE x # n
          BY <1>10, <2>2, <4>1, <5>2
        <5> QED
          BY <5>1, <5>2
      <4> QED
        BY <4>1, <4>3, <4>4
    <3> QED
      BY <3>1, <3>2
  <2> QED
    BY <1>3, <2>1, <2>2 DEF MeantInv
<1>18. PopInv'
  <2> SUFFICES ASSUME NEW j \in 1 .. J, NEW x \in Names
               PROVE  \/ /\ \A p \in Base(j) + 1 .. Top : ~ Named(p, x)'
                         /\ \A m \in j + 1 .. J + 1 : scopes'[m][x] = 0
                      \/ \E p \in 1 .. Top :
                           /\ p \in Base(j) + 1 .. Top /\ Named(p, x)'
                           /\ \A q \in Base(j) + 1 .. p - 1 : ~ Named(q, x)'
                           /\ Inner(syms'[local_stack'[p]].prev_tok, scopes', x, j)
    BY <1>3, <1>8 DEF PopInv, Lowest
  <2>1. \A p \in 1 .. Top : Named(p, x)' <=> Named(p, x)
    BY <1>3, <1>10 DEF Named
  <2>2. Base(j) \in 0 .. Top
    BY <1>8
  <2>3. CASE /\ \A p \in Base(j) + 1 .. Top : ~ Named(p, x)
             /\ \A m \in j + 1 .. J + 1 : scopes[m][x] = 0
    <3>1. \A p \in Base(j) + 1 .. Top : p \in 1 .. Top
      BY <1>1, <2>2
    <3>2. \A m \in j + 1 .. J + 1 : m \in 1 .. J + 1 /\ m # 1
      BY <1>1
    <3> QED
      BY <1>6, <2>1, <2>3, <3>1, <3>2
  <2>4. CASE \E p \in 1 .. Top : Lowest(p, Base(j), x) /\ Inner(syms[local_stack[p]].prev_tok, scopes, x, j)
    <3>1. PICK p \in 1 .. Top : Lowest(p, Base(j), x) /\ Inner(syms[local_stack[p]].prev_tok, scopes, x, j)
      BY <2>4
    <3>2. p \in Base(j) + 1 .. Top /\ Named(p, x) /\ Named(p, x)'
      BY <2>1, <3>1 DEF Lowest
    <3>3. \A q \in Base(j) + 1 .. p - 1 : q \in 1 .. Top
      BY <1>1, <2>2, <3>1
    <3>4. \A q \in Base(j) + 1 .. p - 1 : ~ Named(q, x)'
      BY <2>1, <3>1, <3>3 DEF Lowest
    <3> PICK y : y = syms[local_stack[p]].prev_tok
      OBVIOUS
    <3>5. Inner(IF x = n /\ y = 0 THEN new ELSE y, scopes', x, j)
      <4>1. j \in 0 .. J + 1 /\ j # 0
        BY <1>1
      <4> QED
        BY <1>16, <3>1, <4>1
    <3>6. syms'[local_stack[p]].prev_tok = IF x = n /\ y = 0 THEN new ELSE y
      <4>1. CASE x = n
        <5>1. PICK m \in 1 .. J + 1 : scopes[m][n] = local_stack[p]
          BY <3>2, <4>1
        <5>2. scopes[m][n] # 0
          BY <1>9, <5>1 DEF Index
        <5> QED
          BY <1>5, <4>1, <5>1, <5>2
      <4>2. CASE x # n
        <5>1. ~ Named(p, n)
          BY <3>2, <4>2 DEF Named
        <5> QED
          BY <1>10, <4>2, <5>1
      <4> QED
        BY <4>1, <4>2
    <3>7. Inner(syms'[local_stack'[p]].prev_tok, scopes', x, j)
      BY <1>3, <3>5, <3>6
    <3> QED
      BY <3>2, <3>4, <3>7
  <2> QED
    BY <2>3, <2>4 DEF IInv, PopInv
<1>19. ValsInv'
  <2>1. ValsInv
    BY DEF IInv
  <2> QED
    BY <1>3, <2>1 DEF ValsInv
<1> QED
  BY <1>11, <1>12, <1>13, <1>14, <1>15, <1>17, <1>18, <1>19 DEF IInv

LEMMA OpenCount ==
  ASSUME TypeInv
  PROVE  open = << >> <=> J = 0
BY DEF TypeInv, J

LEMMA StepDeclareLocal ==
  ASSUME Assumptions, IInv, DeclareLocal
  PROVE  IInv'
<1>1. TypeInv
  BY DEF IInv
<1>2. J \in Nat /\ J # 0 /\ Len(scopes) = J + 1 /\ local_scope \in Nat
  BY <1>1, OpenIs, OpenCount DEF DeclareLocal, In, TypeInv
<1>3. PICK n \in Locals, static \in BOOLEAN :
        /\ scopes[J + 1][n] = 0
        /\ IF sym_find(n) # 0 /\ syms[sym_find(n)].sym_scope = local_scope
           THEN refused' = TRUE /\ UNCHANGED <<syms, stacks, sym_identifier, scopes>>
           ELSE /\ Push(n, IF static THEN 0 ELSE local_scope, TRUE)
                /\ Declared(J + 1, n) /\ UNCHANGED refused
  BY <1>2 DEF DeclareLocal, Last
<1>4. n \in Names
  BY DEF Assumptions
<1>5. ~ (sym_find(n) # 0 /\ syms[sym_find(n)].sym_scope = local_scope)
  <2> SUFFICES ASSUME sym_find(n) # 0 PROVE syms[sym_find(n)].sym_scope # local_scope
    OBVIOUS
  <2>1. PICK k \in 1 .. J + 1 : scopes[k][n] = sym_find(n)
    BY <1>4 DEF IInv, MeantInv, Inner, sym_find
  <2>2. k < J + 1 /\ 1 \in 1 .. J + 1 /\ J + 1 \in 1 .. J + 1 /\ 1 < J + 1
    BY <1>2, <1>3, <2>1
  <2>3. Level(k) < Level(J + 1) /\ Level(1) < Level(J + 1)
    BY <2>2 DEF IInv, LevelInv
  <2>4. Level(J + 1) = local_scope /\ Level(1) = 0
    BY <1>2 DEF Level
  <2>5. syms[sym_find(n)].sym_scope \in {0, Level(k)}
    BY <1>4, <2>1 DEF IInv, LevelInv
  <2>6. Level(k) \in Nat
    BY <1>1, <1>2, <2>2, OpenIs DEF Level, Open
  <2> QED
    BY <1>2, <2>3, <2>4, <2>5, <2>6
<1>6. /\ Push(n, IF static THEN 0 ELSE local_scope, TRUE)
      /\ Declared(J + 1, n) /\ UNCHANGED <<local_scope, open, refused>>
  BY <1>3, <1>5 DEF DeclareLocal
<1> PICK scope : scope = IF static THEN 0 ELSE local_scope
  OBVIOUS
<1>7. scope \in {0, local_scope} /\ Push(n, scope, TRUE)
  BY <1>6
<1> QED
  BY <1>2, <1>3, <1>4, <1>6, <1>7, LocalAdded

LEMMA NoneFound ==
  ASSUME Assumptions, IInv, NEW n \in Names, sym_find(n) = 0
  PROVE  \A m \in 1 .. J + 1 : scopes[m][n] = 0
<1>1. TypeInv
  BY DEF IInv
<1>2. Inner(0, scopes, n, J + 1)
  BY DEF IInv, MeantInv, sym_find
<1>3. \A m \in 1 .. J + 1 : scopes[m][n] \in Index \cup {0}
  BY <1>1, TypesOf
<1>4. CASE \A k \in 1 .. J + 1 : scopes[k][n] = 0
  BY <1>4
<1> QED
  BY <1>2, <1>4 DEF Inner

LEMMA StepDeclareExtern ==
  ASSUME Assumptions, IInv, DeclareExtern
  PROVE  IInv'
<1>1. TypeInv
  BY DEF IInv
<1>2. J \in Nat /\ J # 0 /\ Len(scopes) = J + 1
  BY <1>1, OpenIs, OpenCount DEF DeclareExtern, In, TypeInv
<1>3. PICK n \in Names : sym_find(n) = 0 /\ Push(n, 0, FALSE) /\ Declared(J + 1, n)
  BY <1>2 DEF DeclareExtern
<1>4. scopes[J + 1][n] = 0
  BY <1>2, <1>3, NoneFound
<1>5. UNCHANGED <<local_scope, open, refused>>
  BY DEF DeclareExtern
<1> QED
  BY <1>2, <1>3, <1>4, <1>5, LocalAdded

LEMMA StepDeclareFile ==
  ASSUME Assumptions, IInv, DeclareFile
  PROVE  IInv'
<1>1. TypeInv
  BY DEF IInv
<1>2. J = 0 /\ local_stack = << >> /\ local_scope = 0 /\ Top = 0
  BY <1>1, OpenCount DEF DeclareFile, IInv, OpenInv, Top
<1>3. PICK n \in Names : sym_find(n) = 0 /\ Push(n, local_scope, FALSE) /\ Declared(1, n)
  BY DEF DeclareFile
<1> PICK new : new = Made
  OBVIOUS
<1>4. /\ Free # {} /\ global_stack' = Append(global_stack, new) /\ local_stack' = local_stack
      /\ syms' = [syms EXCEPT ![new] = [v |-> n, sym_scope |-> 0, prev_tok |-> 0, auto |-> FALSE]]
      /\ sym_identifier[n] = 0 /\ sym_identifier' = [sym_identifier EXCEPT ![n] = new]
      /\ UNCHANGED <<local_scope, open, refused>>
  BY <1>2, <1>3 DEF Push, DeclareFile, sym_find
<1>5. \A m \in 1 .. J + 1 : scopes[m][n] = 0
  BY <1>3, NoneFound
<1>6. new \in Index
  BY <1>4, MadeFact
<1>7. /\ syms' \in [Index -> Sym]
      /\ syms'[new] = [v |-> n, sym_scope |-> 0, prev_tok |-> 0, auto |-> FALSE]
      /\ \A k \in Index : k # new => syms'[k] = syms[k]
  <2>1. [v |-> n, sym_scope |-> 0, prev_tok |-> 0, auto |-> FALSE] \in Sym
    BY DEF Sym, Assumptions
  <2> QED
    BY <1>1, <1>4, <1>6, <2>1 DEF TypeInv
<1>8. sym_identifier' = [sym_identifier EXCEPT ![n] = IF sym_identifier[n] = 0 THEN new ELSE @]
  BY <1>4
<1>9. scopes[1][n] = 0 /\ \A p \in 1 .. Top : FALSE
  BY <1>2, <1>5
<1>10. /\ \A k \in Index : k # new =>
            /\ syms'[k].v = syms[k].v /\ syms'[k].sym_scope = syms[k].sym_scope
            /\ syms[k].v # n => syms'[k].prev_tok = syms[k].prev_tok
       /\ \A m \in 1 .. J + 1 : scopes[m][n] # 0 =>
            syms'[scopes[m][n]].prev_tok =
              IF syms[scopes[m][n]].prev_tok = 0 THEN new ELSE syms[scopes[m][n]].prev_tok
  BY <1>5, <1>7
<1> PICK auto : auto = FALSE
  OBVIOUS
<1>11. /\ auto \in BOOLEAN /\ Free # {} /\ scopes[1][n] = 0
       /\ syms' \in [Index -> Sym]
       /\ syms'[Made] = [v |-> n, sym_scope |-> 0, prev_tok |-> 0, auto |-> auto]
       /\ global_stack' = Append(global_stack, Made) /\ local_stack' = local_stack
       /\ Declared(1, n) /\ UNCHANGED <<local_scope, open, refused>>
  BY <1>3, <1>4, <1>7, <1>9
<1>12. /\ \A k \in Index : k # Made =>
            /\ syms'[k].v = syms[k].v /\ syms'[k].sym_scope = syms[k].sym_scope
            /\ syms[k].v # n => syms'[k].prev_tok = syms[k].prev_tok
       /\ \A m \in 1 .. J + 1 : scopes[m][n] # 0 =>
            syms'[scopes[m][n]].prev_tok =
              IF syms[scopes[m][n]].prev_tok = 0 THEN Made ELSE syms[scopes[m][n]].prev_tok
       /\ sym_identifier' =
            [sym_identifier EXCEPT ![n] = IF sym_identifier[n] = 0 THEN Made ELSE @]
       /\ \A p \in 1 .. Top : Named(p, n) => \E m \in 1 .. J + 1 : scopes[m][n] = local_stack[p]
  BY <1>8, <1>9, <1>10
<1> QED
  BY <1>11, <1>12, GlobalAdded

\* where the search for a symbol without scope ends if there is none
LEMMA StopIs ==
  ASSUME Assumptions, IInv, NEW n \in Names, asm_label_find(n) = 0
  PROVE  /\ Stop(n) \in 0 .. MaxSyms
         /\ Stop(n) = 0 => sym_find(n) = 0
         /\ Stop(n) # 0 =>
              /\ sym_find(n) # 0
              /\ \E k \in 2 .. J + 1 : /\ Chain(n)[Stop(n) - 1] = scopes[k][n] /\ scopes[k][n] # 0
                                       /\ syms[scopes[k][n]].prev_tok = 0
<1> DEFINE X == {j \in 0 .. MaxSyms : Chain(n)[j] = 0 \/ syms[Chain(n)[j]].sym_scope = 0}
<1> PICK c : c = Chain(n)
  OBVIOUS
<1>1. TypeInv /\ J \in Nat
  BY OpenIs DEF IInv
<1>2. /\ c \in [0 .. MaxSyms -> 0 .. MaxSyms] /\ c[0] = sym_find(n)
      /\ \A j \in 1 .. MaxSyms : c[j] = IF c[j - 1] = 0 THEN 0 ELSE syms[c[j - 1]].prev_tok
  BY <1>1, ChainIs
<1> PICK s : s = Stop(n)
  OBVIOUS
<1>3. s \in X /\ \A k \in X : s <= k
  <2>1. X \subseteq Nat /\ X # {}
    BY ChainEnds
  <2>2. s = Min(X)
    BY DEF Stop
  <2> HIDE DEF X
  <2> QED
    BY <2>1, <2>2, MinIs
<1>4. s \in 0 .. MaxSyms /\ c[s] = 0
  BY <1>3 DEF asm_label_find
<1>5. ASSUME s # 0
      PROVE  /\ sym_find(n) # 0
             /\ \E k \in 2 .. J + 1 : c[s - 1] = scopes[k][n] /\ scopes[k][n] # 0
                                      /\ syms[scopes[k][n]].prev_tok = 0
  <2>1. 0 \in 0 .. MaxSyms /\ s - 1 \in 0 .. MaxSyms /\ ~ (s <= 0) /\ ~ (s <= s - 1) /\ s \in 1 .. MaxSyms
    BY <1>4, <1>5 DEF Assumptions
  <2>2. 0 \notin X /\ s - 1 \notin X
    BY <1>3, <2>1
  <2>3. c[0] # 0 /\ c[s - 1] # 0 /\ syms[c[s - 1]].sym_scope # 0
    BY <2>1, <2>2
  <2>4. syms[c[s - 1]].prev_tok = 0
    BY <1>2, <1>4, <2>1, <2>3
  <2>5. PICK k \in 1 .. J + 1 : c[s - 1] = scopes[k][n]
    BY <2>1, <2>3, ChainOut
  <2>6. k # 1
    <3>1. SUFFICES ASSUME k = 1 PROVE FALSE
      OBVIOUS
    <3>2. syms[scopes[1][n]].sym_scope \in {0, Level(1)}
      BY <2>3, <2>5, <3>1 DEF IInv, LevelInv
    <3> QED
      BY <2>3, <2>5, <3>1, <3>2 DEF Level
  <2>7. k \in 2 .. J + 1
    BY <1>1, <2>6
  <2> QED
    BY <1>2, <2>3, <2>4, <2>5, <2>7
<1> QED
  BY <1>2, <1>4, <1>5

LEMMA StepNewGlobal ==
  ASSUME Assumptions, ~ ReuseKept, IInv, NEW n \in Names, asm_label_find(n) = 0,
         NewGlobal(n), UNCHANGED <<local_scope, open, refused>>
  PROVE  IInv'
<1>1. TypeInv /\ J \in Nat /\ MaxSyms \in Nat
  BY OpenIs DEF IInv, Assumptions
<1> PICK new : new = Made
  OBVIOUS
<1>2. /\ Free # {} /\ ~ Kept(n) /\ Declared(1, n)
      /\ global_stack' = Append(global_stack, new) /\ local_stack' = local_stack
  BY DEF NewGlobal, global_identifier_push
<1> PICK it : it = [v |-> n, sym_scope |-> 0, prev_tok |-> 0, auto |-> FALSE]
  OBVIOUS
<1>3. /\ new \in Index /\ new # 0 /\ it \in Sym
      /\ \A m \in 1 .. J + 1, x \in Names : scopes[m][x] # new
  BY <1>1, <1>2, MadeFact DEF Sym
<1>4. \A p \in 1 .. Top : Named(p, n) => \E m \in 1 .. J + 1 : scopes[m][n] = local_stack[p]
  <2> SUFFICES ASSUME NEW p \in 1 .. Top, Named(p, n)
               PROVE  \E m \in 1 .. J + 1 : scopes[m][n] = local_stack[p]
    OBVIOUS
  <2>1. local_stack[p] \in Range(local_stack) /\ local_stack[p] # 0
    <3>1. DOMAIN local_stack = 1 .. Top /\ local_stack[p] \in Index
      BY <1>1, TypesOf DEF TypeInv, Top
    <3> QED
      BY <3>1 DEF Range, Index
  <2>2. local_stack[p] \in Range(Chain(n))
    BY <1>2, <2>1 DEF Kept, Named
  <2>3. DOMAIN Chain(n) = 0 .. MaxSyms
    BY <1>1, ChainIs
  <2>4. PICK j \in 0 .. MaxSyms : local_stack[p] = Chain(n)[j]
    BY <2>2, <2>3 DEF Range
  <2> QED
    BY <2>1, <2>4, ChainOut
<1>5. CASE Stop(n) = 0
  <2>1. sym_find(n) = 0
    BY <1>5, StopIs
  <2>2. \A m \in 1 .. J + 1 : scopes[m][n] = 0
    BY <2>1, NoneFound
  <2>3. syms' = [syms EXCEPT ![new] = it] /\ sym_identifier' = [sym_identifier EXCEPT ![n] = new]
    BY <1>5 DEF NewGlobal, global_identifier_push
  <2>4. /\ syms' \in [Index -> Sym] /\ syms'[new] = it
        /\ \A k \in Index : k # new => syms'[k] = syms[k]
    BY <1>1, <1>3, <2>3 DEF TypeInv
  <2>5. sym_identifier' = [sym_identifier EXCEPT ![n] = IF sym_identifier[n] = 0 THEN new ELSE @]
    BY <2>1, <2>3 DEF sym_find
  <2>6. /\ scopes[1][n] = 0
        /\ \A k \in Index : k # new =>
             /\ syms'[k].v = syms[k].v /\ syms'[k].sym_scope = syms[k].sym_scope
             /\ syms[k].v # n => syms'[k].prev_tok = syms[k].prev_tok
        /\ \A m \in 1 .. J + 1 : scopes[m][n] # 0 =>
             syms'[scopes[m][n]].prev_tok =
               IF syms[scopes[m][n]].prev_tok = 0 THEN new ELSE syms[scopes[m][n]].prev_tok
    BY <1>1, <2>2, <2>4
  <2> QED
    BY <1>2, <1>4, <2>4, <2>5, <2>6, GlobalAdded
<1>6. CASE Stop(n) # 0
  <2>1. sym_find(n) # 0
    BY <1>6, StopIs
  <2>2. PICK k \in 2 .. J + 1 : /\ Chain(n)[Stop(n) - 1] = scopes[k][n] /\ scopes[k][n] # 0
                                /\ syms[scopes[k][n]].prev_tok = 0
    BY <1>6, StopIs
  <2> PICK t : t = scopes[k][n]
    OBVIOUS
  <2>3. t \in Index /\ t # new /\ syms[t].v = n
    <3>1. k \in 1 .. J + 1
      BY <1>1
    <3>2. t \in Index
      BY <1>1, <2>2, <3>1, TypesOf
    <3> QED
      BY <1>3, <2>2, <3>1, <3>2 DEF IInv, WhereInv
  <2>4. syms' = [syms EXCEPT ![new] = it, ![t].prev_tok = new] /\ sym_identifier' = sym_identifier
    BY <1>6, <2>2 DEF NewGlobal, global_identifier_push
  <2>5. syms \in [Index -> Sym] /\ new \in 0 .. MaxSyms
    BY <1>1, <1>3 DEF TypeInv, Index
  <2>6. syms'[new] = it /\ syms'[t] = [syms[t] EXCEPT !.prev_tok = new]
    BY <1>3, <2>3, <2>4, <2>5
  <2>7. \A x \in Index : x # new /\ x # t => syms'[x] = syms[x]
    BY <2>4, <2>5
  <2>8. [syms[t] EXCEPT !.prev_tok = new] \in Sym /\ [syms[t] EXCEPT !.prev_tok = new].v = syms[t].v
        /\ [syms[t] EXCEPT !.prev_tok = new].sym_scope = syms[t].sym_scope
        /\ [syms[t] EXCEPT !.prev_tok = new].prev_tok = new
    <3>1. syms[t] \in Sym
      BY <2>3, <2>5
    <3> QED
      BY <2>5, <3>1 DEF Sym
  <2>9. syms' \in [Index -> Sym]
    <3>1. DOMAIN syms' = Index /\ syms' = [x \in Index |-> syms'[x]]
      BY <2>4, <2>5
    <3>2. \A x \in Index : syms'[x] \in Sym
      BY <1>3, <2>5, <2>6, <2>7, <2>8
    <3> QED
      BY <3>1, <3>2
  <2>10. sym_identifier' = [sym_identifier EXCEPT ![n] = IF sym_identifier[n] = 0 THEN new ELSE @]
    BY <1>1, <2>1, <2>4 DEF sym_find, TypeInv
  <2>11. \A l \in 1 .. k - 1 : scopes[l][n] = 0
    <3>1. Inner(0, scopes, n, k - 1)
      BY <1>1, <2>2 DEF IInv, MeantInv
    <3> QED
      BY <3>1 DEF Inner
  <2>12. scopes[1][n] = 0
    BY <1>1, <2>11
  <2>13. \A x \in Index : x # new =>
           /\ syms'[x].v = syms[x].v /\ syms'[x].sym_scope = syms[x].sym_scope
           /\ syms[x].v # n => syms'[x].prev_tok = syms[x].prev_tok
    BY <2>3, <2>6, <2>7, <2>8
  <2>14. ASSUME NEW m \in 1 .. J + 1, scopes[m][n] # 0
         PROVE  syms'[scopes[m][n]].prev_tok =
                  IF syms[scopes[m][n]].prev_tok = 0 THEN new ELSE syms[scopes[m][n]].prev_tok
    <3>1. CASE m = k
      BY <2>2, <2>6, <2>8, <3>1
    <3>2. CASE m # k
      <4>1. k < m /\ k \in 1 .. J + 1 /\ k \in 1 .. m - 1
        BY <1>1, <2>11, <2>14, <3>2
      <4>2. scopes[m][n] # t
        BY <2>2, <4>1, DeclaredOnce
      <4>3. scopes[m][n] \in Index /\ scopes[m][n] # new
        BY <1>1, <1>3, <2>14, TypesOf
      <4>4. syms'[scopes[m][n]] = syms[scopes[m][n]]
        BY <2>7, <4>2, <4>3
      <4>5. Inner(syms[scopes[m][n]].prev_tok, scopes, n, m - 1)
        BY <2>14 DEF IInv, MeantInv
      <4>6. syms[scopes[m][n]].prev_tok # 0
        BY <2>2, <4>1, <4>5 DEF Inner
      <4> QED
        BY <4>4, <4>6
    <3> QED
      BY <3>1, <3>2
  <2>15. syms'[new] = it
    BY <2>6
  <2>16. \A m \in 1 .. J + 1 : scopes[m][n] # 0 =>
           syms'[scopes[m][n]].prev_tok =
             IF syms[scopes[m][n]].prev_tok = 0 THEN new ELSE syms[scopes[m][n]].prev_tok
    BY <2>14
  <2>17. syms'[Made] = [v |-> n, sym_scope |-> 0, prev_tok |-> 0, auto |-> FALSE]
    BY <2>15
  <2>18. \A x \in Index : x # Made =>
           /\ syms'[x].v = syms[x].v /\ syms'[x].sym_scope = syms[x].sym_scope
           /\ syms[x].v # n => syms'[x].prev_tok = syms[x].prev_tok
    BY <2>13
  <2>19. /\ global_stack' = Append(global_stack, Made) /\ local_stack' = local_stack
         /\ Free # {} /\ Declared(1, n)
    BY <1>2
  <2>20. sym_identifier' = [sym_identifier EXCEPT ![n] = IF sym_identifier[n] = 0 THEN Made ELSE @]
    BY <2>10
  <2>21. \A m \in 1 .. J + 1 : scopes[m][n] # 0 =>
           syms'[scopes[m][n]].prev_tok =
             IF syms[scopes[m][n]].prev_tok = 0 THEN Made ELSE syms[scopes[m][n]].prev_tok
    BY <2>16
  <2> QED
    BY <1>4, <2>9, <2>12, <2>17, <2>18, <2>19, <2>20, <2>21, GlobalAdded
<1> QED
  BY <1>5, <1>6

LEMMA StepCallUndeclared ==
  ASSUME Assumptions, ~ ReuseKept, IInv, CallUndeclared
  PROVE  IInv'
<1>1. PICK n \in Names : sym_find(n) = 0 /\ NewGlobal(n)
  BY DEF CallUndeclared
<1>2. asm_label_find(n) = 0
  <2> DEFINE X == {j \in 0 .. MaxSyms : Chain(n)[j] = 0 \/ syms[Chain(n)[j]].sym_scope = 0}
  <2>1. Chain(n)[0] = 0 /\ 0 \in 0 .. MaxSyms
    BY <1>1, ChainIs DEF IInv, Assumptions
  <2>2. X \subseteq Nat /\ 0 \in X
    BY <2>1
  <2>3. Min(X) \in Nat /\ Min(X) <= 0
    <3> HIDE DEF X
    <3> QED
      BY <2>2, MinIs
  <2>4. Stop(n) = 0
    BY <2>3 DEF Stop
  <2> QED
    BY <2>1, <2>4 DEF asm_label_find
<1>3. UNCHANGED <<local_scope, open, refused>>
  BY DEF CallUndeclared
<1> QED
  BY <1>1, <1>2, <1>3, StepNewGlobal

LEMMA StepAsmLabel ==
  ASSUME Assumptions, ~ ReuseKept, IInv, AsmLabel
  PROVE  IInv'
BY StepNewGlobal DEF AsmLabel

-----------------------------------------------------------------------------
(* Constructs begin.                                                       *)

\* one more scope without declarations
LEMMA ScopeAdded ==
  ASSUME Assumptions, TypeInv, scopes' = Append(scopes, NoDecls)
  PROVE  /\ scopes' \in Seq([Names -> 0 .. MaxSyms]) /\ Len(scopes') = J + 2
         /\ \A m \in 1 .. J + 1 : scopes'[m] = scopes[m]
         /\ \A x \in Names : scopes'[J + 2][x] = 0
         /\ \A x \in Names, m \in 0 .. J + 1 :
              \A y : Inner(y, scopes, x, m) => Inner(y, scopes', x, m)
         /\ \A x \in Names : \A y : Inner(y, scopes, x, J + 1) => Inner(y, scopes', x, J + 2)
<1>1. J \in Nat
  BY OpenIs
<1>2. scopes \in Seq([Names -> 0 .. MaxSyms]) /\ Len(scopes) = J + 1
  BY DEF TypeInv
<1>3. NoDecls \in [Names -> 0 .. MaxSyms] /\ \A x \in Names : NoDecls[x] = 0
  BY DEF NoDecls, Assumptions
<1>4. /\ scopes' \in Seq([Names -> 0 .. MaxSyms]) /\ Len(scopes') = J + 2
      /\ \A m \in 1 .. J + 1 : scopes'[m] = scopes[m]
      /\ scopes'[J + 2] = NoDecls
  BY <1>1, <1>2, <1>3
<1>5. ASSUME NEW x \in Names, NEW y, NEW m \in 0 .. J + 1, Inner(y, scopes, x, m)
      PROVE  Inner(y, scopes', x, m)
  <2>1. m \in Nat /\ \A k \in 1 .. m : scopes'[k][x] = scopes[k][x]
    BY <1>1, <1>4
  <2> QED
    BY <1>5, <2>1, InnerSame
<1>6. ASSUME NEW x \in Names, NEW y, Inner(y, scopes, x, J + 1)
      PROVE  Inner(y, scopes', x, J + 2)
  <2>1. J + 1 \in 0 .. J + 1 /\ J + 1 \in 0 .. J + 2 /\ J + 2 \in Nat
    BY <1>1
  <2>2. \A l \in (J + 1) + 1 .. J + 2 : scopes'[l][x] = 0
    BY <1>1, <1>3, <1>4
  <2>3. Inner(y, scopes', x, J + 1)
    BY <1>5, <1>6, <2>1
  <2> QED
    BY <2>1, <2>2, <2>3, InnerNone
<1> QED
  BY <1>3, <1>4, <1>5, <1>6

LEMMA Entered ==
  ASSUME Assumptions, IInv, J # 0, open' \in Seq(Open), Len(open') = J + 1,
         \A j \in 1 .. J : /\ open'[j].s = open[j].s /\ open'[j].scope = open[j].scope
                           /\ open'[j].vals = open[j].vals,
         \A j \in 1 .. J + 1 : open'[j].kind # "params",
         open'[J + 1].s = Top, open'[J + 1].scope = local_scope, open'[J + 1].vals = {},
         local_scope' \in Nat, local_scope < local_scope',
         scopes' = Append(scopes, NoDecls),
         UNCHANGED <<syms, stacks, sym_identifier, refused>>
  PROVE  IInv'
<1>0. TypeInv
  BY DEF IInv
<1>1. /\ J \in Nat /\ Top \in Nat /\ J' = J + 1 /\ Top' = Top /\ local_scope \in Nat
      /\ \A j \in 1 .. J : open[j].s \in Nat /\ open[j].scope \in Nat
  <2>1. J' = J + 1 /\ Top' = Top /\ local_scope \in Nat
    BY <1>0 DEF J, Top, stacks, TypeInv
  <2>2. J \in Nat /\ Top \in Nat /\ \A j \in 1 .. J : open[j] \in Open
    BY <1>0, OpenIs
  <2> QED
    BY <2>1, <2>2 DEF Open
<1>2. /\ syms' = syms /\ global_stack' = global_stack /\ local_stack' = local_stack
      /\ sym_identifier' = sym_identifier /\ refused' = refused
  BY DEF stacks
<1>3. /\ scopes' \in Seq([Names -> 0 .. MaxSyms]) /\ Len(scopes') = J + 2
      /\ \A m \in 1 .. J + 1 : scopes'[m] = scopes[m]
      /\ \A x \in Names : scopes'[J + 2][x] = 0
      /\ \A x \in Names, m \in 0 .. J + 1 :
           \A y : Inner(y, scopes, x, m) => Inner(y, scopes', x, m)
      /\ \A x \in Names : \A y : Inner(y, scopes, x, J + 1) => Inner(y, scopes', x, J + 2)
  BY <1>0, ScopeAdded
<1>4. \A x \in Names, m \in 1 .. J + 2 : scopes'[m][x] # 0 => m \in 1 .. J + 1 /\ scopes'[m][x] = scopes[m][x]
  BY <1>1, <1>3
<1>5. \A m \in 1 .. J + 1 : Level(m)' = Level(m)
  BY <1>1 DEF Level
<1>6. /\ \A j \in 1 .. J : Base(j)' = Base(j)
      /\ Base(J)' \in 0 .. Top
  BY <1>1 DEF Base, IInv, OpenInv
<1>7. TypeInv'
  <2>1. Len(scopes') = J' + 1
    BY <1>1, <1>3
  <2> QED
    BY <1>0, <1>2, <1>3, <2>1 DEF TypeInv
<1>8. OpenInv'
  <2>1. OpenInv
    BY DEF IInv
  <2>2. Top # 0 /\ local_stack # << >>
    BY <1>0, <1>1, <2>1 DEF OpenInv, Top, TypeInv
  <2>3. ASSUME NEW j \in 1 .. J + 1 PROVE open'[j].s <= Top /\ (j > 1 => open'[j].s # 0)
    <3>1. CASE j = J + 1
      BY <1>1, <2>2, <3>1
    <3>2. CASE j # J + 1
      <4>1. j \in 1 .. J
        BY <1>1, <3>2
      <4> QED
        BY <2>1, <4>1 DEF OpenInv
    <3> QED
      BY <3>1, <3>2
  <2>4. ASSUME NEW j \in 1 .. J + 1, NEW k \in 1 .. J + 1, j <= k PROVE open'[j].s <= open'[k].s
    <3>1. CASE k = J + 1
      BY <1>1, <2>3, <3>1
    <3>2. CASE k # J + 1
      <4>1. j \in 1 .. J /\ k \in 1 .. J
        BY <1>1, <2>4, <3>2
      <4> QED
        BY <2>1, <2>4, <4>1 DEF OpenInv
    <3> QED
      BY <3>1, <3>2
  <2> QED
    BY <1>1, <1>2, <2>2, <2>3, <2>4 DEF OpenInv
<1>9. StackInv'
  BY <1>1, <1>2 DEF IInv, StackInv
<1>10. LevelInv'
  <2>1. ASSUME NEW k \in 1 .. J + 2, NEW m \in 1 .. J + 2, k < m PROVE Level(k)' < Level(m)'
    <3>1. CASE m = J + 2
      <4>1. k \in 1 .. J + 1 /\ J + 1 \in 1 .. J + 1
        BY <1>1, <2>1, <3>1
      <4>2. Level(m)' = local_scope'
        BY <1>1, <3>1 DEF Level
      <4>3. Level(J + 1) = local_scope
        BY <1>1 DEF Level
      <4>4. Level(k) \in Nat
        BY <1>1, <4>1 DEF Level
      <4>5. Level(k) <= local_scope
        <5>1. k = J + 1 \/ k < J + 1
          BY <1>1, <4>1
        <5>2. k < J + 1 => Level(k) < Level(J + 1)
          BY <4>1 DEF IInv, LevelInv
        <5> QED
          BY <1>1, <4>3, <4>4, <5>1, <5>2
      <4> QED
        BY <1>1, <1>5, <4>1, <4>2, <4>4, <4>5
    <3>2. CASE m # J + 2
      <4>1. k \in 1 .. J + 1 /\ m \in 1 .. J + 1
        BY <1>1, <2>1, <3>2
      <4> QED
        BY <1>5, <2>1, <4>1 DEF IInv, LevelInv
    <3> QED
      BY <3>1, <3>2
  <2>2. ASSUME NEW m \in 1 .. J + 2, NEW x \in Names, scopes'[m][x] # 0
        PROVE  syms[scopes'[m][x]].sym_scope \in {0, Level(m)'}
    <3>1. m \in 1 .. J + 1 /\ scopes'[m][x] = scopes[m][x]
      BY <1>4, <2>2
    <3>2. syms[scopes[m][x]].sym_scope \in {0, Level(m)}
      BY <2>2, <3>1 DEF IInv, LevelInv
    <3> QED
      BY <1>5, <3>1, <3>2
  <2>3. J' + 1 = J + 2
    BY <1>1
  <2> QED
    BY <1>2, <2>1, <2>2, <2>3 DEF LevelInv
<1>11. WhereInv'
  <2>1. WhereInv
    BY DEF IInv
  <2>2. ASSUME NEW m \in 1 .. J + 2, NEW x \in Names, scopes'[m][x] # 0
        PROVE  syms[scopes'[m][x]].v = x
    <3>1. m \in 1 .. J + 1 /\ scopes'[m][x] = scopes[m][x]
      BY <1>4, <2>2
    <3> QED
      BY <2>1, <2>2, <3>1 DEF WhereInv
  <2>3. \A x \in Names : scopes'[1][x] = scopes[1][x]
    BY <1>1, <1>3
  <2>4. ASSUME NEW m \in 2 .. J + 2, NEW x \in Names, scopes'[m][x] # 0
        PROVE  \E p \in 1 .. Top : /\ local_stack[p] = scopes'[m][x] /\ Base(m - 1)' < p
                                   /\ m <= J + 1 => p <= open'[m].s
    <3>1. m \in 1 .. J + 2
      BY <1>1
    <3>2. m \in 1 .. J + 1 /\ scopes'[m][x] = scopes[m][x]
      BY <1>4, <2>4, <3>1
    <3>3. m \in 2 .. J + 1 /\ m - 1 \in 1 .. J
      BY <1>1, <3>2
    <3>4. PICK p \in 1 .. Top : /\ local_stack[p] = scopes[m][x] /\ Base(m - 1) < p
                                /\ m <= J => p <= open[m].s
      BY <2>1, <2>4, <3>2, <3>3 DEF WhereInv
    <3>5. p <= open'[m].s
      <4>1. CASE m = J + 1
        BY <1>1, <4>1
      <4>2. CASE m # J + 1
        <5>1. m \in 1 .. J /\ m <= J
          BY <1>1, <3>3, <4>2
        <5> QED
          BY <3>4, <5>1
      <4> QED
        BY <4>1, <4>2
    <3> QED
      BY <1>6, <3>2, <3>3, <3>4, <3>5
  <2>5. /\ J' + 1 = J + 2 /\ J' = J + 1 /\ Top' = Top
    BY <1>1
  <2>6. \A x \in Names : scopes'[1][x] # 0 =>
          \E p \in 1 .. Len(global_stack) : global_stack[p] = scopes'[1][x]
    BY <2>1, <2>3 DEF WhereInv
  <2>7. \A p \in 1 .. Len(global_stack) : \E x \in Names :
          scopes'[1][x] = global_stack[p] /\ syms[global_stack[p]].prev_tok = 0
    BY <2>1, <2>3 DEF WhereInv
  <2>8. ASSUME NEW m \in 1 .. J' + 1, NEW x \in Names, scopes'[m][x] # 0
        PROVE  syms'[scopes'[m][x]].v = x
    <3>1. m \in 1 .. J + 2
      BY <2>5
    <3>2. syms' = syms
      BY <1>2
    <3> QED
      BY <2>2, <2>8, <3>1, <3>2
  <2>9. \A m \in 2 .. J' + 1, x \in Names : scopes'[m][x] # 0 =>
          \E p \in 1 .. Top' : /\ local_stack'[p] = scopes'[m][x] /\ Base(m - 1)' < p
                               /\ m <= J' => p <= open'[m].s
    BY <1>2, <2>4, <2>5
  <2> QED
    BY <1>2, <2>6, <2>7, <2>8, <2>9 DEF WhereInv
<1>12. MeantInv'
  <2>1. MeantInv
    BY DEF IInv
  <2>2. \A x \in Names : Inner(sym_identifier[x], scopes', x, J + 2)
    BY <1>3, <2>1 DEF MeantInv
  <2>3. ASSUME NEW x \in Names, NEW m \in 1 .. J + 2, scopes'[m][x] # 0
        PROVE  Inner(syms[scopes'[m][x]].prev_tok, scopes', x, m - 1)
    <3>1. m \in 1 .. J + 1 /\ scopes'[m][x] = scopes[m][x]
      BY <1>4, <2>3
    <3> PICK y, l : y = syms[scopes[m][x]].prev_tok /\ l = m - 1
      OBVIOUS
    <3>2. l \in 0 .. J + 1 /\ Inner(y, scopes, x, l)
      BY <1>1, <2>1, <2>3, <3>1 DEF MeantInv
    <3>3. Inner(y, scopes', x, l)
      BY <1>3, <3>2
    <3> QED
      BY <3>1, <3>3
  <2>4. J' + 1 = J + 2
    BY <1>1
  <2> QED
    BY <1>2, <2>2, <2>3, <2>4 DEF MeantInv
<1>13. PopInv'
  <2> SUFFICES ASSUME NEW j \in 1 .. J + 1, NEW x \in Names
               PROVE  \/ /\ \A p \in Base(j)' + 1 .. Top : ~ Named(p, x)
                         /\ \A m \in j + 1 .. J + 2 : scopes'[m][x] = 0
                      \/ \E p \in 1 .. Top :
                           /\ p \in Base(j)' + 1 .. Top /\ Named(p, x)
                           /\ \A q \in Base(j)' + 1 .. p - 1 : ~ Named(q, x)
                           /\ Inner(syms[local_stack[p]].prev_tok, scopes', x, j)
    <3>1. \A p, x : Named(p, x)' <=> Named(p, x)
      BY <1>2 DEF Named
    <3>2. J' + 1 = J + 2 /\ J' = J + 1 /\ Top' = Top
      BY <1>1
    <3> QED
      BY <1>2, <3>1, <3>2 DEF PopInv, Lowest
  <2>1. CASE j = J + 1
    <3>1. Base(j)' = Top
      BY <1>1, <2>1 DEF Base
    <3>2. \A p \in Base(j)' + 1 .. Top : FALSE
      BY <1>1, <3>1
    <3>3. \A m \in j + 1 .. J + 2 : m = J + 2
      BY <1>1, <2>1
    <3> QED
      BY <1>3, <3>2, <3>3
  <2>2. CASE j # J + 1
    <3>1. j \in 1 .. J /\ j \in 0 .. J + 1 /\ Base(j)' = Base(j)
      BY <1>1, <1>6, <2>2
    <3>2. CASE /\ \A p \in Base(j) + 1 .. Top : ~ Named(p, x)
               /\ \A m \in j + 1 .. J + 1 : scopes[m][x] = 0
      <4>1. ASSUME NEW m \in j + 1 .. J + 2 PROVE scopes'[m][x] = 0
        <5>1. (m \in j + 1 .. J + 1 /\ m \in 1 .. J + 1) \/ m = J + 2
          BY <1>1, <3>1
        <5> QED
          BY <1>3, <3>2, <5>1
      <4> QED
        BY <3>1, <3>2, <4>1
    <3>3. CASE \E p \in 1 .. Top : Lowest(p, Base(j), x) /\ Inner(syms[local_stack[p]].prev_tok, scopes, x, j)
      <4>1. PICK p \in 1 .. Top : Lowest(p, Base(j), x) /\ Inner(syms[local_stack[p]].prev_tok, scopes, x, j)
        BY <3>3
      <4> PICK y : y = syms[local_stack[p]].prev_tok
        OBVIOUS
      <4>2. Inner(y, scopes', x, j)
        BY <1>3, <3>1, <4>1
      <4> QED
        BY <3>1, <4>1, <4>2 DEF Lowest
    <3>4. PopInv
      BY DEF IInv
    <3> QED
      BY <3>1, <3>2, <3>3, <3>4 DEF PopInv
  <2> QED
    BY <2>1, <2>2
<1>14. ValsInv'
  <2> SUFFICES ASSUME NEW j \in 1 .. J + 1, NEW k \in open'[j].vals
               PROVE  \E p \in 1 .. Top : local_stack[p] = k /\ (j < J + 1 => p <= open'[j + 1].s)
    BY <1>1, <1>2 DEF ValsInv
  <2>1. j \in 1 .. J /\ k \in open[j].vals
    <3>1. j # J + 1
      OBVIOUS
    <3> QED
      BY <1>1, <3>1
  <2>2. PICK p \in 1 .. Top : local_stack[p] = k /\ (j < J => p <= open[j + 1].s)
    BY <2>1 DEF IInv, ValsInv
  <2>3. p <= open'[j + 1].s
    <3>1. CASE j = J
      BY <1>1, <3>1
    <3>2. CASE j # J
      <4>1. j + 1 \in 1 .. J /\ j < J
        BY <1>1, <2>1, <3>2
      <4> QED
        BY <2>2, <4>1
    <3> QED
      BY <3>1, <3>2
  <2> QED
    BY <2>2, <2>3
<1> QED
  BY <1>7, <1>8, <1>9, <1>10, <1>11, <1>12, <1>13, <1>14 DEF IInv

LEMMA ConstructIs ==
  ASSUME TypeInv, NEW kind \in Kinds, NEW is_expr \in BOOLEAN
  PROVE  /\ Construct(kind, is_expr) \in Open /\ Construct(kind, is_expr).kind = kind
         /\ Construct(kind, is_expr).s = Top /\ Construct(kind, is_expr).scope = local_scope
         /\ Construct(kind, is_expr).vals = {}
<1>1. Top \in Nat /\ local_scope \in Nat
  BY OpenIs DEF TypeInv
<1>2. Construct(kind, is_expr) =
        [kind |-> kind, s |-> Top, scope |-> local_scope, is_expr |-> is_expr, vals |-> {}]
  BY DEF Construct, Top
<1> HIDE DEF Construct
<1> QED
  BY <1>1, <1>2 DEF Open

LEMMA StepEnter ==
  ASSUME Assumptions, IInv, J # 0, open[J].kind # "params",
         NEW before \in Seq(Open), Len(before) = J,
         \A j \in 1 .. J : /\ before[j].s = open[j].s /\ before[j].scope = open[j].scope
                           /\ before[j].vals = open[j].vals
                           /\ before[j].kind \in {open[j].kind, "for"},
         NEW kind \in {"block", "header"}, NEW is_expr \in BOOLEAN, NEW levels \in {1, 2},
         Enter(Append(before, Construct(kind, is_expr)), levels)
  PROVE  IInv'
<1>1. TypeInv /\ J \in Nat /\ local_scope \in Nat
  <2>1. TypeInv
    BY DEF IInv
  <2> QED
    BY <2>1, OpenIs DEF TypeInv
<1> PICK o : o = Construct(kind, is_expr)
  OBVIOUS
<1>2. o \in Open /\ o.kind = kind /\ o.s = Top /\ o.scope = local_scope /\ o.vals = {}
  BY <1>1, ConstructIs DEF Kinds
<1>3. open' = Append(before, o) /\ local_scope' = local_scope + levels
      /\ scopes' = Append(scopes, NoDecls) /\ UNCHANGED <<syms, stacks, sym_identifier, refused>>
  BY DEF Enter
<1>4. /\ open' \in Seq(Open) /\ Len(open') = J + 1 /\ open'[J + 1] = o
      /\ \A j \in 1 .. J : open'[j] = before[j]
  BY <1>1, <1>2, <1>3
<1>5. \A j \in 1 .. J + 1 : open'[j].kind # "params"
  <2> SUFFICES ASSUME NEW j \in 1 .. J + 1 PROVE open'[j].kind # "params"
    OBVIOUS
  <2>1. CASE j = J + 1
    BY <1>2, <1>4, <2>1
  <2>2. CASE j # J + 1
    <3>1. j \in 1 .. J
      BY <1>1, <2>2
    <3>2. open[j].kind = "params" => J = 1
      BY <3>1 DEF IInv, OpenInv
    <3>3. J = 1 => j = J
      BY <3>1
    <3>4. open[j].kind # "params"
      BY <3>2, <3>3
    <3> QED
      BY <1>4, <3>1, <3>4
  <2> QED
    BY <2>1, <2>2
<1>6. local_scope' \in Nat /\ local_scope < local_scope'
  BY <1>1, <1>3
<1>7. \A j \in 1 .. J : /\ open'[j].s = open[j].s /\ open'[j].scope = open[j].scope
                        /\ open'[j].vals = open[j].vals
  BY <1>4
<1> QED
  BY <1>2, <1>3, <1>4, <1>5, <1>6, <1>7, Entered

LEMMA InOne ==
  ASSUME IInv, NEW kinds, In(kinds)
  PROVE  J # 0 /\ open[J].kind \in kinds /\ open \in Seq(Open) /\ Len(open) = J
<1>1. TypeInv
  BY DEF IInv
<1> QED
  BY <1>1, OpenCount DEF In, Last, J, TypeInv

LEMMA StepBeginBlock ==
  ASSUME Assumptions, IInv, BeginBlock
  PROVE  IInv'
<1>1. PICK how \in {"plain", "if", "while", "expr"} :
        /\ In({"block"}) \/ (In({"header"}) /\ how = "expr")
        /\ Enter(Append(open, Construct("block", how = "expr" \/ (how = "plain" /\ Last(open).is_expr))),
                 IF how = "while" THEN 2 ELSE 1)
  BY DEF BeginBlock
<1>2. /\ J # 0 /\ open[J].kind \in {"block", "header"} /\ open \in Seq(Open) /\ Len(open) = J
  BY <1>1, InOne
<1> PICK is_expr : is_expr = (how = "expr" \/ (how = "plain" /\ Last(open).is_expr))
  OBVIOUS
<1> PICK levels : levels = IF how = "while" THEN 2 ELSE 1
  OBVIOUS
<1>3. is_expr \in BOOLEAN /\ levels \in {1, 2}
  OBVIOUS
<1>4. Enter(Append(open, Construct("block", is_expr)), levels)
  BY <1>1
<1> QED
  BY <1>2, <1>3, <1>4, StepEnter

LEMMA StepBeginFor ==
  ASSUME Assumptions, IInv, BeginFor
  PROVE  IInv'
<1>1. In({"block"}) /\ Enter(Append(open, Construct("header", FALSE)), 1)
  BY DEF BeginFor
<1>2. /\ J # 0 /\ open[J].kind = "block" /\ open \in Seq(Open) /\ Len(open) = J
  BY <1>1, InOne
<1> QED
  BY <1>1, <1>2, StepEnter

LEMMA StepForBody ==
  ASSUME Assumptions, IInv, ForBody
  PROVE  IInv'
<1> PICK before : before = [open EXCEPT ![Len(open)].kind = "for"]
  OBVIOUS
<1>1. In({"header"}) /\ Enter(Append(before, Construct("block", FALSE)), 1)
  BY DEF ForBody
<1>2. /\ J # 0 /\ open[J].kind = "header" /\ open \in Seq(Open) /\ Len(open) = J /\ J \in Nat
  BY <1>1, InOne, OpenIs DEF IInv
<1>3. before = [open EXCEPT ![J].kind = "for"]
  BY <1>2
<1>4. J \in 1 .. J /\ open[J] \in Open
  BY <1>2
<1>5. [open[J] EXCEPT !.kind = "for"] \in Open
  BY <1>4 DEF Open, Kinds
<1>6. before \in Seq(Open) /\ Len(before) = J
  BY <1>2, <1>3, <1>4, <1>5
<1>7. \A j \in 1 .. J : before[j] = IF j = J THEN [open[j] EXCEPT !.kind = "for"] ELSE open[j]
  BY <1>2, <1>3
<1>8. ASSUME NEW j \in 1 .. J
      PROVE  /\ before[j].s = open[j].s /\ before[j].scope = open[j].scope
             /\ before[j].vals = open[j].vals
             /\ before[j].kind \in {open[j].kind, "for"}
  <2>1. open[j] \in Open
    BY <1>2
  <2> QED
    BY <1>7, <2>1 DEF Open
<1> QED
  BY <1>1, <1>2, <1>6, <1>8, StepEnter

LEMMA OneIs ==
  ASSUME NEW S, NEW x \in S
  PROVE  <<x>> \in Seq(S) /\ Len(<<x>>) = 1 /\ <<x>>[1] = x
OBVIOUS

LEMMA StepBeginBody ==
  ASSUME Assumptions, IInv, BeginBody
  PROVE  IInv'
<1>1. J # 0 /\ open[J].kind = "params" /\ open \in Seq(Open) /\ Len(open) = J
  BY InOne DEF BeginBody
<1>2. TypeInv /\ OpenInv
  BY DEF IInv
<1>3. J = 1 /\ local_scope = 1 /\ Top \in Nat
  <2>1. J \in Nat /\ Top \in Nat
    BY <1>2, OpenIs
  <2>2. J \in 1 .. J
    BY <1>1, <2>1
  <2> QED
    BY <1>1, <1>2, <2>1, <2>2 DEF OpenInv
<1>4. PICK o \in Open : /\ o.kind = "block" /\ o.s = Top /\ o.scope = 1 /\ o.vals = {}
                         /\ open' = <<o>>
  <2>1. open' = <<Construct("block", FALSE)>>
    BY DEF BeginBody
  <2> QED
    BY <1>2, <1>3, <2>1, ConstructIs DEF Kinds
<1>5. /\ open' = <<o>> /\ local_scope' = 1
      /\ syms' = syms /\ global_stack' = global_stack /\ local_stack' = local_stack
      /\ sym_identifier' = sym_identifier /\ refused' = refused /\ scopes' = scopes
  BY <1>4 DEF BeginBody, stacks
<1>6. J' = 1 /\ Top' = Top /\ open' \in Seq(Open) /\ open'[1] = o
  <2>1. <<o>> \in Seq(Open) /\ Len(<<o>>) = 1 /\ <<o>>[1] = o
    BY <1>4, OneIs
  <2> QED
    BY <1>5, <2>1 DEF J, Top
<1>7. TypeInv'
  BY <1>2, <1>3, <1>5, <1>6 DEF TypeInv
<1>8. OpenInv'
  <2>1. local_stack # << >>
    BY <1>2, <1>3 DEF OpenInv
  <2>2. \A j \in 1 .. J' : j = 1
    BY <1>6
  <2>3. \A j \in 1 .. J' : open'[j] = o
    BY <1>6, <2>2
  <2>4. J' = 1 /\ J' # 0 /\ local_scope' = 1 /\ o.s <= Top' /\ o.s <= o.s
    BY <1>3, <1>4, <1>5, <1>6
  <2>5. \A j \in 1 .. J' : open'[j].s <= Top' /\ (j > 1 => open'[j].s # 0)
    <3>1. \A j \in 1 .. J' : ~ (j > 1)
      BY <2>2
    <3> QED
      BY <2>3, <2>4, <3>1
  <2>6. \A j, k \in 1 .. J' : j <= k => open'[j].s <= open'[k].s
    BY <2>3, <2>4
  <2>7. \A j \in 1 .. J' : open'[j].kind # "params"
    BY <1>4, <2>3, <2>4
  <2>8. local_stack' # << >>
    BY <1>5, <2>1
  <2> QED
    BY <2>4, <2>5, <2>6, <2>7, <2>8 DEF OpenInv
<1>9. StackInv'
  BY <1>5, <1>6 DEF IInv, StackInv
<1>10. /\ \A m \in 1 .. 2 : Level(m)' = Level(m)
       /\ Base(1)' = Base(1) /\ Base(1) = 0
  BY <1>3, <1>5, <1>6 DEF Level, Base
<1>11. LevelInv'
  <2>1. LevelInv
    BY DEF IInv
  <2> QED
    BY <1>3, <1>5, <1>6, <1>10, <2>1 DEF LevelInv
<1>12. WhereInv'
  <2>1. WhereInv
    BY DEF IInv
  <2>2. \A m \in 2 .. 2, n \in Names : scopes[m][n] # 0 =>
          \E p \in 1 .. Top : /\ local_stack[p] = scopes[m][n] /\ Base(m - 1)' < p
                              /\ m <= 1 => p <= open'[m].s
    <3> SUFFICES ASSUME NEW m \in 2 .. 2, NEW n \in Names, scopes[m][n] # 0
                 PROVE  \E p \in 1 .. Top : /\ local_stack[p] = scopes[m][n] /\ Base(m - 1)' < p
                                            /\ m <= 1 => p <= open'[m].s
      OBVIOUS
    <3>1. m = 2 /\ m - 1 = 1 /\ ~ (m <= 1) /\ m \in 2 .. J + 1
      BY <1>3
    <3>2. PICK p \in 1 .. Top : local_stack[p] = scopes[m][n]
      BY <2>1, <3>1 DEF WhereInv
    <3>3. Base(m - 1)' = 0
      <4>1. m - 1 = 1
        BY <3>1
      <4> QED
        BY <4>1 DEF Base
    <3> QED
      BY <1>3, <3>1, <3>2, <3>3
  <2>3. J' + 1 = 2 /\ J' = 1 /\ J + 1 = 2
    BY <1>3, <1>6
  <2>4. \A m \in 2 .. J' + 1, n \in Names : scopes'[m][n] # 0 =>
          \E p \in 1 .. Top' : /\ local_stack'[p] = scopes'[m][n] /\ Base(m - 1)' < p
                               /\ m <= J' => p <= open'[m].s
    BY <1>5, <1>6, <2>2, <2>3
  <2> QED
    BY <1>5, <1>6, <2>1, <2>3, <2>4 DEF WhereInv
<1>13. MeantInv'
  <2>1. MeantInv
    BY DEF IInv
  <2> QED
    BY <1>3, <1>5, <1>6, <2>1 DEF MeantInv
<1>14. PopInv'
  <2>1. PopInv
    BY DEF IInv
  <2>2. \A p, n : Named(p, n)' <=> Named(p, n)
    BY <1>5 DEF Named
  <2> QED
    BY <1>3, <1>5, <1>6, <1>10, <2>1, <2>2 DEF PopInv, Lowest
<1>15. ValsInv'
  <2>1. \A j \in 1 .. 1 : open'[j].vals = {}
    <3>1. \A j \in 1 .. 1 : j = 1
      OBVIOUS
    <3> QED
      BY <1>4, <1>6, <3>1
  <2> QED
    BY <1>6, <2>1 DEF ValsInv
<1> QED
  BY <1>7, <1>8, <1>9, <1>11, <1>12, <1>13, <1>14, <1>15 DEF IInv

LEMMA StepBeginFunction ==
  ASSUME Assumptions, IInv, BeginFunction
  PROVE  IInv'
<1>1. TypeInv
  BY DEF IInv
<1>2. J = 0 /\ local_stack = << >> /\ local_scope = 0 /\ Top = 0 /\ Free # {}
  BY <1>1, OpenCount DEF BeginFunction, IInv, OpenInv, Top
<1> PICK new : new = Made
  OBVIOUS
<1>3. /\ new \in Index /\ \A p \in 1 .. Len(global_stack) : global_stack[p] # new
      /\ \A m \in 1 .. J + 1, x \in Names : scopes[m][x] # new
  BY <1>2, MadeFact
<1>4. PICK o \in Open : /\ o.kind = "params" /\ o.s = 0 /\ o.scope = 0 /\ o.vals = {}
                         /\ open' = <<o>>
  <2>1. open' = <<Construct("params", FALSE)>>
    BY DEF BeginFunction
  <2> QED
    BY <1>1, <1>2, <2>1, ConstructIs DEF Kinds
<1>5. /\ syms' = [syms EXCEPT ![new] = Void] /\ local_stack' = <<new>> /\ local_scope' = 1
      /\ open' = <<o>> /\ scopes' = Append(scopes, NoDecls)
      /\ global_stack' = global_stack /\ sym_identifier' = sym_identifier /\ refused' = refused
  BY <1>4 DEF BeginFunction
<1>6. /\ J' = 1 /\ Top' = 1 /\ open' \in Seq(Open) /\ open'[1] = o
      /\ local_stack'[1] = new /\ local_stack' \in Seq(Index)
  <2>1. <<o>> \in Seq(Open) /\ Len(<<o>>) = 1 /\ <<o>>[1] = o
    BY <1>4, OneIs
  <2>2. <<new>> \in Seq(Index) /\ Len(<<new>>) = 1 /\ <<new>>[1] = new
    BY <1>3, OneIs
  <2> QED
    BY <1>5, <2>1, <2>2 DEF J, Top
<1>7. /\ scopes' \in Seq([Names -> 0 .. MaxSyms]) /\ Len(scopes') = 2
      /\ scopes'[1] = scopes[1]
      /\ \A x \in Names : scopes'[2][x] = 0
      /\ \A x \in Names : \A y : Inner(y, scopes, x, 0) => Inner(y, scopes', x, 0)
      /\ \A x \in Names : \A y : Inner(y, scopes, x, 1) => Inner(y, scopes', x, 2)
  <2>1. /\ scopes' \in Seq([Names -> 0 .. MaxSyms]) /\ Len(scopes') = J + 2
        /\ \A m \in 1 .. J + 1 : scopes'[m] = scopes[m]
        /\ \A x \in Names : scopes'[J + 2][x] = 0
        /\ \A x \in Names, m \in 0 .. J + 1 :
             \A y : Inner(y, scopes, x, m) => Inner(y, scopes', x, m)
        /\ \A x \in Names : \A y : Inner(y, scopes, x, J + 1) => Inner(y, scopes', x, J + 2)
    BY <1>1, <1>5, ScopeAdded
  <2>2. J + 1 = 1 /\ J + 2 = 2 /\ 0 \in 0 .. J + 1 /\ 1 \in 1 .. J + 1
    BY <1>2
  <2> QED
    BY <2>1, <2>2
<1>8. Void \in Sym /\ Void.v = NoName /\ NoName \notin Names
  BY DEF Void, Sym, Assumptions
<1>9. /\ syms' \in [Index -> Sym] /\ syms'[new] = Void
      /\ \A k \in Index : k # new => syms'[k] = syms[k]
  BY <1>1, <1>3, <1>5, <1>8 DEF TypeInv
<1>10. /\ \A x \in Names : scopes[1][x] # 0 => syms'[scopes[1][x]] = syms[scopes[1][x]]
       /\ \A p \in 1 .. Len(global_stack) : syms'[global_stack[p]] = syms[global_stack[p]]
  <2>1. /\ \A x \in Names : scopes[1][x] # 0 => scopes[1][x] \in Index /\ scopes[1][x] # new
        /\ \A p \in 1 .. Len(global_stack) : global_stack[p] \in Index
    BY <1>1, <1>2, <1>3, TypesOf
  <2> QED
    BY <1>3, <1>9, <2>1
<1>11. TypeInv'
  <2>1. Len(scopes') = J' + 1
    BY <1>6, <1>7
  <2>2. local_scope' \in Nat /\ refused' = FALSE
    BY <1>1, <1>5 DEF TypeInv
  <2> QED
    BY <1>1, <1>5, <1>6, <1>7, <1>9, <2>1, <2>2 DEF TypeInv
<1>12. OpenInv'
  <2>1. local_stack' # << >>
    BY <1>5
  <2>2. \A j \in 1 .. J' : j = 1
    BY <1>6
  <2>3. \A j \in 1 .. J' : open'[j] = o
    BY <1>6, <2>2
  <2>4. J' = 1 /\ J' # 0 /\ local_scope' = 1 /\ o.s <= Top' /\ o.s <= o.s
    BY <1>4, <1>5, <1>6
  <2>5. \A j \in 1 .. J' : open'[j].s <= Top' /\ (j > 1 => open'[j].s # 0)
    <3>1. \A j \in 1 .. J' : ~ (j > 1)
      BY <2>2
    <3> QED
      BY <2>3, <2>4, <3>1
  <2>6. \A j, k \in 1 .. J' : j <= k => open'[j].s <= open'[k].s
    BY <2>3, <2>4
  <2>7. \A j \in 1 .. J' : open'[j].kind = "params"
    BY <1>4, <2>3, <2>4
  <2> QED
    BY <2>1, <2>4, <2>5, <2>6, <2>7 DEF OpenInv
<1>13. StackInv'
  <2>1. StackInv
    BY DEF IInv
  <2> QED
    BY <1>3, <1>5, <1>6, <2>1 DEF StackInv
<1>14. Level(1)' = 0 /\ Level(2)' = 1 /\ Level(1) = 0 /\ Base(1)' = 0
  BY <1>5, <1>6 DEF Level, Base
<1>15. LevelInv'
  <2>1. ASSUME NEW m \in 1 .. 2, NEW x \in Names, scopes'[m][x] # 0
        PROVE  syms'[scopes'[m][x]].sym_scope \in {0, Level(m)'}
    <3>1. m = 1 /\ scopes'[m][x] = scopes[1][x]
      BY <1>7, <2>1
    <3>2. syms[scopes[1][x]].sym_scope \in {0, Level(1)}
      BY <1>2, <2>1, <3>1 DEF IInv, LevelInv
    <3> QED
      BY <1>10, <1>14, <2>1, <3>1, <3>2
  <2>2. ASSUME NEW k \in 1 .. 2, NEW m \in 1 .. 2, k < m PROVE Level(k)' < Level(m)'
    <3>1. k = 1 /\ m = 2
      BY <2>2
    <3> QED
      BY <1>14, <3>1
  <2>3. J' + 1 = 2
    BY <1>6
  <2> QED
    BY <2>1, <2>2, <2>3 DEF LevelInv
<1>16. WhereInv'
  <2>1. WhereInv
    BY DEF IInv
  <2>2. \A m \in 1 .. 2, x \in Names : scopes'[m][x] # 0 => m = 1 /\ scopes'[m][x] = scopes[1][x]
    BY <1>7
  <2>3. \A m \in 1 .. 2, x \in Names : scopes'[m][x] # 0 => syms'[scopes'[m][x]].v = x
    BY <1>2, <1>10, <2>1, <2>2 DEF WhereInv
  <2>4. \A m \in 2 .. 2, x \in Names : scopes'[m][x] = 0
    BY <1>7
  <2>5. \A p \in 1 .. Len(global_stack) : \E x \in Names :
          scopes'[1][x] = global_stack[p] /\ syms'[global_stack[p]].prev_tok = 0
    BY <1>7, <1>10, <2>1 DEF WhereInv
  <2>6. J' + 1 = 2
    BY <1>6
  <2>7. \A x \in Names : scopes'[1][x] # 0 =>
          \E p \in 1 .. Len(global_stack) : global_stack[p] = scopes'[1][x]
    BY <1>7, <2>1 DEF WhereInv
  <2>8. /\ \A m \in 1 .. J' + 1, x \in Names : scopes'[m][x] # 0 => syms'[scopes'[m][x]].v = x
        /\ \A m \in 2 .. J' + 1, x \in Names : scopes'[m][x] = 0
    BY <2>3, <2>4, <2>6
  <2>9. global_stack' = global_stack
    BY <1>5
  <2> QED
    BY <2>5, <2>7, <2>8, <2>9 DEF WhereInv
<1>17. MeantInv'
  <2>1. MeantInv
    BY DEF IInv
  <2>2. \A x \in Names : Inner(sym_identifier[x], scopes', x, 2)
    BY <1>2, <1>7, <2>1 DEF MeantInv
  <2>3. ASSUME NEW x \in Names, NEW m \in 1 .. 2, scopes'[m][x] # 0
        PROVE  Inner(syms'[scopes'[m][x]].prev_tok, scopes', x, m - 1)
    <3>1. m = 1 /\ scopes'[m][x] = scopes[1][x]
      BY <1>7, <2>3
    <3> PICK y : y = syms[scopes[1][x]].prev_tok
      OBVIOUS
    <3>2. Inner(y, scopes, x, 0)
      BY <1>2, <2>1, <2>3, <3>1 DEF MeantInv
    <3>3. Inner(y, scopes', x, 0) /\ m - 1 = 0
      BY <1>7, <3>1, <3>2
    <3> QED
      BY <1>10, <2>3, <3>1, <3>3
  <2>4. J' + 1 = 2
    BY <1>6
  <2> QED
    BY <1>5, <2>2, <2>3, <2>4 DEF MeantInv
<1>18. PopInv'
  <2>1. \A n \in Names : ~ Named(1, n)'
    BY <1>6, <1>8, <1>9 DEF Named
  <2> SUFFICES ASSUME NEW n \in Names
               PROVE  /\ \A p \in 0 + 1 .. 1 : ~ Named(p, n)'
                      /\ \A m \in 1 + 1 .. 2 : scopes'[m][n] = 0
    <3>1. J' = 1 /\ J' + 1 = 2 /\ Top' = 1
      BY <1>6
    <3>2. \A j \in 1 .. 1 : j = 1 /\ Base(j)' = 0
      BY DEF Base
    <3> QED
      BY <3>1, <3>2 DEF PopInv
  <2>2. \A p \in 0 + 1 .. 1 : p = 1
    OBVIOUS
  <2> QED
    BY <1>7, <2>1, <2>2
<1>19. ValsInv'
  <2>1. \A j \in 1 .. 1 : open'[j].vals = {}
    <3>1. \A j \in 1 .. 1 : j = 1
      OBVIOUS
    <3> QED
      BY <1>4, <1>6, <3>1
  <2> QED
    BY <1>6, <2>1 DEF ValsInv
<1> QED
  BY <1>11, <1>12, <1>13, <1>15, <1>16, <1>17, <1>18, <1>19 DEF IInv

-----------------------------------------------------------------------------
(* Constructs end.                                                         *)

\* what sym_pop finds of each name is the declaration further out
LEMMA UnlinkIs ==
  ASSUME Assumptions, IInv, J # 0
  PROVE  LET u == Unlink(Above(Base(J)))
         IN u \in [Names -> 0 .. MaxSyms] /\ \A n \in Names : Inner(u[n], scopes, n, J)
<1> PICK b : b = Base(J)
  OBVIOUS
<1>1. TypeInv /\ J \in Nat /\ Top \in Nat /\ b \in 0 .. Top
  <2>1. TypeInv /\ J \in Nat /\ Top \in Nat /\ open[J].s \in Nat
    <3>1. TypeInv
      BY DEF IInv
    <3>2. J \in Nat /\ Top \in Nat /\ \A j \in 1 .. J : open[j].s \in Nat
      BY <3>1, OpenIs
    <3> QED
      BY <3>1, <3>2
  <2>2. open[J].s <= Top
    BY <2>1 DEF IInv, OpenInv
  <2> QED
    BY <2>1, <2>2 DEF Base
<1> DEFINE popped == Above(Base(J))
           u == Unlink(popped)
<1>2. /\ popped \in Seq(Index) /\ Len(popped) = Top - b
      /\ \A i \in 1 .. Top - b : popped[i] = local_stack[b + i]
  <2>1. local_stack \in Seq(Index) /\ Len(local_stack) = Top
    BY <1>1 DEF TypeInv, Top
  <2>2. popped = SubSeq(local_stack, b + 1, Top)
    BY DEF Above, Top
  <2> HIDE DEF popped
  <2>3. b + 1 \in Int /\ Top \in Int /\ \A i \in b + 1 .. Top : local_stack[i] \in Index
    BY <1>1, <2>1
  <2>4. /\ popped \in Seq(Index)
        /\ Len(popped) = IF b + 1 <= Top THEN Top - (b + 1) + 1 ELSE 0
        /\ \A i \in 1 .. Top - (b + 1) + 1 : popped[i] = local_stack[(b + 1) + i - 1]
    BY <2>2, <2>3, SubSeqProperties
  <2>5. /\ (IF b + 1 <= Top THEN Top - (b + 1) + 1 ELSE 0) = Top - b
        /\ Top - (b + 1) + 1 = Top - b
        /\ \A i \in 1 .. Top - b : (b + 1) + i - 1 = b + i
    BY <1>1
  <2> QED
    BY <2>4, <2>5
<1> HIDE DEF popped
<1>3. ASSUME NEW n \in Names
      PROVE  u[n] \in 0 .. MaxSyms /\ Inner(u[n], scopes, n, J)
  <2> DEFINE its == {i \in DOMAIN popped : syms[popped[i]].v = n}
  <2>1. u[n] = IF its = {} THEN sym_identifier[n] ELSE syms[popped[Min(its)]].prev_tok
    BY DEF Unlink
  <2>2. its \subseteq 1 .. Top - b /\ its \subseteq Nat
    BY <1>2
  <2>3. \A i \in 1 .. Top - b : i \in its <=> Named(b + i, n)
    BY <1>2 DEF Named
  <2>4. CASE /\ \A p \in b + 1 .. Top : ~ Named(p, n)
             /\ \A m \in J + 1 .. J + 1 : scopes[m][n] = 0
    <3>1. \A i \in 1 .. Top - b : b + i \in b + 1 .. Top
      BY <1>1
    <3>2. its = {}
      BY <2>2, <2>3, <2>4, <3>1
    <3>3. u[n] = sym_identifier[n]
      BY <2>1, <3>2
    <3>4. Inner(sym_identifier[n], scopes, n, J + 1)
      BY DEF IInv, MeantInv
    <3>5. J \in 0 .. J + 1 /\ J + 1 \in Nat
      BY <1>1
    <3>6. Inner(sym_identifier[n], scopes, n, J)
      BY <2>4, <3>4, <3>5, InnerNone
    <3>7. sym_identifier[n] \in 0 .. MaxSyms
      BY <1>1, TypesOf
    <3> QED
      BY <3>3, <3>6, <3>7
  <2>5. CASE \E p \in 1 .. Top : Lowest(p, b, n) /\ Inner(syms[local_stack[p]].prev_tok, scopes, n, J)
    <3>1. PICK p \in 1 .. Top : Lowest(p, b, n) /\ Inner(syms[local_stack[p]].prev_tok, scopes, n, J)
      BY <2>5
    <3>2. p \in b + 1 .. Top /\ Named(p, n) /\ \A q \in b + 1 .. p - 1 : ~ Named(q, n)
      BY <3>1 DEF Lowest
    <3> PICK i : i = p - b
      OBVIOUS
    <3>3. i \in 1 .. Top - b /\ b + i = p
      BY <1>1, <3>1, <3>2
    <3>4. i \in its
      BY <2>3, <3>2, <3>3
    <3>5. \A k \in its : i <= k
      <4>1. SUFFICES ASSUME NEW k \in its, k < i PROVE FALSE
        BY <1>1, <2>2, <3>3
      <4>2. k \in 1 .. Top - b
        BY <2>2
      <4>3. b + k \in b + 1 .. p - 1
        BY <1>1, <3>1, <3>3, <4>1, <4>2
      <4>4. Named(b + k, n)
        BY <2>3, <4>2
      <4> QED
        BY <3>2, <4>3, <4>4
    <3>6. Min(its) = i
      <4> HIDE DEF its
      <4> PICK k : k = Min(its)
        OBVIOUS
      <4>1. k \in its /\ k <= i
        BY <2>2, <3>4, MinIs
      <4>2. i <= k /\ k \in Nat /\ i \in Nat
        BY <2>2, <3>4, <3>5, <4>1
      <4> QED
        BY <4>1, <4>2
    <3>7. u[n] = syms[local_stack[p]].prev_tok
      <4>1. u[n] = syms[popped[i]].prev_tok
        BY <2>1, <3>4, <3>6
      <4> QED
        BY <1>2, <3>3, <4>1
    <3>8. syms[local_stack[p]].prev_tok \in 0 .. MaxSyms
      <4>1. local_stack[p] \in Index
        BY <1>1, TypesOf
      <4> QED
        BY <1>1, <4>1 DEF TypeInv, Sym
    <3> QED
      BY <3>1, <3>7, <3>8
  <2>6. J \in 1 .. J /\ PopInv
    BY <1>1 DEF IInv
  <2> QED
    BY <2>4, <2>5, <2>6 DEF PopInv
<1>4. DOMAIN u = Names
  BY DEF Unlink
<1>5. u = [n \in Names |-> u[n]]
  BY DEF Unlink
<1> HIDE DEF u
<1>6. u \in [Names -> 0 .. MaxSyms] /\ \A n \in Names : Inner(u[n], scopes, n, J)
  BY <1>3, <1>5
<1> QED
  BY <1>6 DEF u, popped

\* which symbols remain
LEMMA PopKeeps ==
  ASSUME Assumptions, IInv, J # 0, NEW keep \in BOOLEAN, sym_pop(Base(J), keep)
  PROVE  /\ Top' \in Base(J) .. Top /\ (keep => Top' = Top) /\ (~ keep => Top' = Base(J))
         /\ local_stack' \in Seq(Index) /\ syms' \in [Index -> Sym]
         /\ \A p \in 1 .. Top' : /\ local_stack'[p] = local_stack[p]
                                 /\ syms'[local_stack[p]] = syms[local_stack[p]]
         /\ \A p \in 1 .. Len(global_stack) : syms'[global_stack[p]] = syms[global_stack[p]]
<1> PICK b : b = Base(J)
  OBVIOUS
<1>1. TypeInv /\ J \in Nat /\ Top \in Nat /\ b \in 0 .. Top
  <2>1. TypeInv /\ J \in Nat /\ Top \in Nat /\ open[J].s \in Nat
    <3>1. TypeInv
      BY DEF IInv
    <3>2. J \in Nat /\ Top \in Nat /\ \A j \in 1 .. J : open[j].s \in Nat
      BY <3>1, OpenIs
    <3> QED
      BY <3>1, <3>2
  <2>2. open[J].s <= Top
    BY <2>1 DEF IInv, OpenInv
  <2> QED
    BY <2>1, <2>2 DEF Base
<1>2. local_stack \in Seq(Index) /\ Len(local_stack) = Top /\ syms \in [Index -> Sym]
  BY <1>1 DEF TypeInv, Top
<1>3. CASE keep
  <2>1. local_stack' = local_stack /\ syms' = syms
    BY <1>3 DEF sym_pop
  <2>2. Top' = Top
    BY <2>1 DEF Top
  <2> QED
    BY <1>1, <1>2, <1>3, <2>1, <2>2
<1>4. CASE ~ keep
  <2> PICK popped : popped = Above(b)
    OBVIOUS
  <2>1. local_stack' = SubSeq(local_stack, 1, b) /\ syms' = Erased(Range(popped))
    BY <1>4 DEF sym_pop
  <2>2. /\ local_stack' \in Seq(Index) /\ Len(local_stack') = b
        /\ \A p \in 1 .. b : local_stack'[p] = local_stack[p]
    BY <1>1, <1>2, <2>1
  <2>3. Top' = b
    BY <2>2 DEF Top
  <2>4. \A k : k \in Range(popped) => \E p \in b + 1 .. Top : k = local_stack[p]
    <3>1. popped = SubSeq(local_stack, b + 1, Top)
      BY DEF Above, Top
    <3>2. /\ DOMAIN popped = 1 .. Top - b
          /\ \A i \in 1 .. Top - b : popped[i] = local_stack[b + i]
      BY <1>1, <1>2, <3>1
    <3>3. \A i \in 1 .. Top - b : b + i \in b + 1 .. Top
      BY <1>1
    <3> QED
      BY <3>2, <3>3 DEF Range
  <2>5. \A p \in 1 .. b : local_stack[p] \notin Range(popped)
    <3> SUFFICES ASSUME NEW p \in 1 .. b, local_stack[p] \in Range(popped) PROVE FALSE
      OBVIOUS
    <3>1. PICK q \in b + 1 .. Top : local_stack[p] = local_stack[q]
      BY <2>4
    <3>2. p \in 1 .. Top /\ q \in 1 .. Top /\ p # q
      BY <1>1
    <3> QED
      BY <3>1, <3>2 DEF IInv, StackInv
  <2>6. \A p \in 1 .. Len(global_stack) : global_stack[p] \notin Range(popped)
    <3> SUFFICES ASSUME NEW p \in 1 .. Len(global_stack), global_stack[p] \in Range(popped) PROVE FALSE
      OBVIOUS
    <3>1. PICK q \in b + 1 .. Top : global_stack[p] = local_stack[q]
      BY <2>4
    <3>2. q \in 1 .. Top
      BY <1>1
    <3> QED
      BY <3>1, <3>2 DEF IInv, StackInv
  <2>7. /\ syms' \in [Index -> Sym]
        /\ \A k \in Index : k \notin Range(popped) => syms'[k] = syms[k]
    <3>1. Void \in Sym
      BY DEF Void, Sym, Assumptions
    <3>2. syms' = [k \in Index |-> IF k \in Range(popped) THEN Void ELSE syms[k]]
      BY <2>1 DEF Erased, Index
    <3> QED
      BY <1>2, <3>1, <3>2
  <2>8. /\ \A p \in 1 .. b : local_stack[p] \in Index
        /\ \A p \in 1 .. Len(global_stack) : global_stack[p] \in Index
    <3>1. \A p \in 1 .. b : p \in 1 .. Top
      BY <1>1
    <3> QED
      BY <1>1, <3>1, TypesOf
  <2> QED
    BY <1>1, <1>4, <2>2, <2>3, <2>5, <2>6, <2>7, <2>8
<1> QED
  BY <1>3, <1>4

LEMMA Closed ==
  ASSUME Assumptions, IInv, J # 0, NEW keep \in BOOLEAN, J = 1 => ~ keep,
         sym_pop(Base(J), keep), local_scope' = Level(J), scopes' = Front(scopes),
         refused' = refused, open' \in Seq(Open), Len(open') = J - 1,
         \A j \in 1 .. J - 1 :
           /\ open'[j].s = open[j].s /\ open'[j].scope = open[j].scope
           /\ open'[j].kind = open[j].kind
           /\ \A k \in open'[j].vals :
                \/ k \in open[j].vals
                \/ j = J - 1 /\ \E p \in 1 .. Top' : local_stack'[p] = k
  PROVE  IInv'
<1>1. TypeInv /\ OpenInv /\ WhereInv
  BY DEF IInv
<1>2. /\ J \in Nat /\ Top \in Nat /\ J' = J - 1 /\ J \in 1 .. J
      /\ \A j \in 1 .. J : open[j].s \in Nat /\ open[j].scope \in Nat
  <2>1. J \in Nat /\ Top \in Nat /\ \A j \in 1 .. J : open[j] \in Open
    BY <1>1, OpenIs
  <2>2. J' = J - 1
    BY DEF J
  <2> QED
    BY <2>1, <2>2 DEF Open
<1> PICK b : b = Base(J)
  OBVIOUS
<1>3. /\ Top' \in b .. Top /\ b \in 0 .. Top /\ (keep => Top' = Top) /\ (~ keep => Top' = b)
      /\ local_stack' \in Seq(Index) /\ syms' \in [Index -> Sym]
      /\ \A p \in 1 .. Top' : /\ local_stack'[p] = local_stack[p]
                              /\ syms'[local_stack[p]] = syms[local_stack[p]]
      /\ \A p \in 1 .. Len(global_stack) : syms'[global_stack[p]] = syms[global_stack[p]]
  <2>1. Base(J) \in 0 .. Top
    BY <1>1, <1>2 DEF Base, OpenInv
  <2> QED
    BY <2>1, PopKeeps
<1>4. global_stack' = global_stack /\ sym_identifier' = Unlink(Above(Base(J)))
  BY DEF sym_pop
<1>5. sym_identifier' \in [Names -> 0 .. MaxSyms] /\ \A n \in Names : Inner(sym_identifier'[n], scopes, n, J)
  BY <1>4, UnlinkIs
<1>6. /\ scopes' \in Seq([Names -> 0 .. MaxSyms]) /\ Len(scopes') = J
      /\ \A m \in 1 .. J : scopes'[m] = scopes[m]
  <2>1. scopes \in Seq([Names -> 0 .. MaxSyms]) /\ Len(scopes) = J + 1
    BY <1>1 DEF TypeInv
  <2>2. scopes' = SubSeq(scopes, 1, J)
    BY <1>2, <2>1 DEF Front
  <2> QED
    BY <1>2, <2>1, <2>2
<1>7. ASSUME NEW x \in Names, NEW y, NEW m \in 0 .. J, Inner(y, scopes, x, m)
      PROVE  Inner(y, scopes', x, m)
  <2>1. m \in Nat /\ \A k \in 1 .. m : scopes'[k][x] = scopes[k][x]
    BY <1>2, <1>6
  <2> QED
    BY <1>7, <2>1, InnerSame
<1>8. \A j \in 1 .. J - 1 : j \in 1 .. J /\ open[j].s <= b
  <2> SUFFICES ASSUME NEW j \in 1 .. J - 1 PROVE j \in 1 .. J /\ open[j].s <= b
    OBVIOUS
  <2>1. j \in 1 .. J /\ j <= J /\ J # 1
    BY <1>2
  <2>2. b = open[J].s
    BY <2>1 DEF Base
  <2> QED
    BY <1>1, <1>2, <2>1, <2>2 DEF OpenInv
<1>9. \A m \in 1 .. J : Level(m)' = Level(m)
  <2> SUFFICES ASSUME NEW m \in 1 .. J PROVE Level(m)' = Level(m)
    OBVIOUS
  <2>1. CASE m = 1
    BY <2>1 DEF Level
  <2>2. CASE m # 1 /\ m = J
    <3>1. ~ (m <= J - 1)
      BY <1>2, <2>2
    <3>2. Level(m)' = local_scope'
      BY <1>2, <2>2, <3>1 DEF Level
    <3> QED
      BY <2>2, <3>2
  <2>3. CASE m # 1 /\ m # J
    <3>1. m \in 1 .. J - 1 /\ m <= J - 1 /\ m <= J
      BY <1>2, <2>3
    <3> QED
      BY <1>2, <2>3, <3>1 DEF Level
  <2> QED
    BY <2>1, <2>2, <2>3
<1>10. \A j \in 1 .. J - 1 : Base(j)' = Base(j)
  BY DEF Base
<1>11. ASSUME NEW m \in 2 .. J, NEW x \in Names, scopes[m][x] # 0
       PROVE  \E p \in 1 .. b : /\ local_stack[p] = scopes[m][x] /\ Base(m - 1) < p
                                /\ p <= open[m].s /\ p <= Top'
  <2>1. m \in 2 .. J + 1 /\ m \in 1 .. J /\ m <= J
    BY <1>2
  <2>2. PICK p \in 1 .. Top : local_stack[p] = scopes[m][x] /\ Base(m - 1) < p /\ p <= open[m].s
    BY <1>1, <1>11, <2>1 DEF WhereInv
  <2>3. b = open[J].s
    BY <2>1 DEF Base
  <2>4. open[m].s <= open[J].s
    BY <1>1, <1>2, <2>1 DEF OpenInv
  <2>5. p \in 1 .. b /\ p <= Top'
    BY <1>2, <1>3, <2>1, <2>2, <2>3, <2>4
  <2> QED
    BY <2>2, <2>5
<1>12. ASSUME NEW m \in 1 .. J, NEW x \in Names, scopes[m][x] # 0
       PROVE  syms'[scopes[m][x]] = syms[scopes[m][x]]
  <2>1. CASE m = 1
    <3>1. PICK p \in 1 .. Len(global_stack) : global_stack[p] = scopes[1][x]
      BY <1>1, <1>12, <2>1 DEF WhereInv
    <3> QED
      BY <1>3, <2>1, <3>1
  <2>2. CASE m # 1
    <3>1. m \in 2 .. J
      BY <1>2, <2>2
    <3>2. PICK p \in 1 .. b : local_stack[p] = scopes[m][x] /\ p <= Top'
      BY <1>11, <1>12, <3>1
    <3>3. p \in 1 .. Top'
      BY <1>2, <1>3, <3>2
    <3> QED
      BY <1>3, <3>2, <3>3
  <2> QED
    BY <2>1, <2>2
<1>13. TypeInv'
  <2>1. local_scope' \in Nat
    BY <1>2 DEF Level
  <2>2. Len(scopes') = J' + 1
    BY <1>2, <1>6
  <2> QED
    BY <1>1, <1>3, <1>4, <1>5, <1>6, <2>1, <2>2 DEF TypeInv
<1>14. OpenInv'
  <2>1. \A j \in 1 .. J - 1 : open'[j].s <= Top' /\ (j > 1 => open'[j].s # 0)
    <3> SUFFICES ASSUME NEW j \in 1 .. J - 1 PROVE open'[j].s <= Top' /\ (j > 1 => open'[j].s # 0)
      OBVIOUS
    <3>1. open[j].s <= b /\ j \in 1 .. J /\ b <= Top'
      BY <1>3, <1>8
    <3> QED
      BY <1>1, <1>2, <1>3, <3>1 DEF OpenInv
  <2>2. \A j, k \in 1 .. J - 1 : j <= k => open'[j].s <= open'[k].s
    BY <1>1, <1>8 DEF OpenInv
  <2>3. \A j \in 1 .. J - 1 : open'[j].kind # "params"
    <3> SUFFICES ASSUME NEW j \in 1 .. J - 1, open[j].kind = "params" PROVE FALSE
      OBVIOUS
    <3>1. J = 1
      BY <1>1, <1>8 DEF OpenInv
    <3> QED
      BY <3>1
  <2>4. local_stack' = << >> <=> J - 1 = 0
    <3>1. local_stack' = << >> <=> Top' = 0
      BY <1>3 DEF Top
    <3>2. CASE J = 1
      BY <1>3, <3>1, <3>2 DEF Base
    <3>3. CASE J # 1
      <4>1. b = open[J].s /\ open[J].s # 0 /\ J - 1 # 0
        BY <1>1, <1>2, <3>3 DEF Base, OpenInv
      <4> QED
        BY <1>3, <3>1, <4>1
    <3> QED
      BY <3>2, <3>3
  <2>5. J - 1 = 0 => local_scope' = 0
    BY <1>2 DEF Level
  <2> QED
    BY <1>2, <2>1, <2>2, <2>3, <2>4, <2>5 DEF OpenInv
<1>15. StackInv'
  <2>1. \A p \in 1 .. Top' : p \in 1 .. Top
    BY <1>2, <1>3
  <2> QED
    BY <1>3, <1>4, <2>1 DEF IInv, StackInv
<1>16. LevelInv'
  <2>1. LevelInv /\ \A m \in 1 .. J : m \in 1 .. J + 1
    BY <1>2 DEF IInv
  <2>2. \A k, m \in 1 .. J : k < m => Level(k)' < Level(m)'
    BY <1>9, <2>1 DEF LevelInv
  <2>3. ASSUME NEW m \in 1 .. J, NEW x \in Names, scopes'[m][x] # 0
        PROVE  syms'[scopes'[m][x]].sym_scope \in {0, Level(m)'}
    <3>1. scopes'[m][x] = scopes[m][x] /\ syms'[scopes[m][x]] = syms[scopes[m][x]]
      BY <1>6, <1>12, <2>3
    <3>2. syms[scopes[m][x]].sym_scope \in {0, Level(m)}
      BY <2>1, <2>3, <3>1 DEF LevelInv
    <3> QED
      BY <1>9, <3>1, <3>2
  <2>4. J' + 1 = J
    BY <1>2
  <2> QED
    BY <2>2, <2>3, <2>4 DEF LevelInv
<1>17. WhereInv'
  <2>1. ASSUME NEW m \in 1 .. J, NEW x \in Names, scopes'[m][x] # 0
        PROVE  syms'[scopes'[m][x]].v = x
    <3>1. scopes'[m][x] = scopes[m][x] /\ syms'[scopes[m][x]] = syms[scopes[m][x]] /\ m \in 1 .. J + 1
      BY <1>2, <1>6, <1>12, <2>1
    <3> QED
      BY <1>1, <2>1, <3>1 DEF WhereInv
  <2>2. \A x \in Names : scopes'[1][x] = scopes[1][x]
    BY <1>2, <1>6
  <2>3. ASSUME NEW m \in 2 .. J, NEW x \in Names, scopes'[m][x] # 0
        PROVE  \E p \in 1 .. Top' : /\ local_stack'[p] = scopes'[m][x] /\ Base(m - 1)' < p
                                    /\ m <= J - 1 => p <= open'[m].s
    <3>1. m \in 1 .. J /\ m - 1 \in 1 .. J - 1
      BY <1>2
    <3>2. scopes'[m][x] = scopes[m][x] /\ Base(m - 1)' = Base(m - 1)
      BY <1>6, <1>10, <3>1
    <3>3. PICK p \in 1 .. b : /\ local_stack[p] = scopes[m][x] /\ Base(m - 1) < p
                              /\ p <= open[m].s /\ p <= Top'
      BY <1>11, <2>3, <3>2
    <3>4. p \in 1 .. Top'
      BY <1>2, <1>3, <3>3
    <3>5. m <= J - 1 => p <= open'[m].s
      <4>1. m <= J - 1 => m \in 1 .. J - 1
        BY <1>2, <3>1
      <4> QED
        BY <3>3, <4>1
    <3> QED
      BY <1>3, <3>2, <3>3, <3>4, <3>5
  <2>4. J' + 1 = J /\ J' = J - 1
    BY <1>2
  <2>5. \A x \in Names : scopes'[1][x] # 0 =>
          \E p \in 1 .. Len(global_stack) : global_stack[p] = scopes'[1][x]
    BY <1>1, <2>2 DEF WhereInv
  <2>6. \A p \in 1 .. Len(global_stack) : \E x \in Names :
          scopes'[1][x] = global_stack[p] /\ syms'[global_stack[p]].prev_tok = 0
    BY <1>1, <1>3, <2>2 DEF WhereInv
  <2>7. \A m \in 2 .. J' + 1, x \in Names : scopes'[m][x] # 0 =>
          \E p \in 1 .. Top' : /\ local_stack'[p] = scopes'[m][x] /\ Base(m - 1)' < p
                               /\ m <= J' => p <= open'[m].s
    BY <2>3, <2>4
  <2> QED
    BY <1>4, <2>1, <2>4, <2>5, <2>6, <2>7 DEF WhereInv
<1>18. MeantInv'
  <2>1. MeantInv
    BY DEF IInv
  <2>2. ASSUME NEW x \in Names PROVE Inner(sym_identifier'[x], scopes', x, J)
    BY <1>2, <1>5, <1>7
  <2>3. ASSUME NEW x \in Names, NEW m \in 1 .. J, scopes'[m][x] # 0
        PROVE  Inner(syms'[scopes'[m][x]].prev_tok, scopes', x, m - 1)
    <3>1. scopes'[m][x] = scopes[m][x] /\ syms'[scopes[m][x]] = syms[scopes[m][x]]
          /\ m \in 1 .. J + 1 /\ m - 1 \in 0 .. J
      BY <1>2, <1>6, <1>12, <2>3
    <3>2. Inner(syms[scopes[m][x]].prev_tok, scopes, x, m - 1)
      BY <2>1, <2>3, <3>1 DEF MeantInv
    <3>3. Inner(syms[scopes[m][x]].prev_tok, scopes', x, m - 1)
      BY <1>7, <3>1, <3>2
    <3> QED
      BY <3>1, <3>3
  <2>4. J' + 1 = J
    BY <1>2
  <2> QED
    BY <2>2, <2>3, <2>4 DEF MeantInv
<1>19. PopInv'
  <2> SUFFICES ASSUME NEW j \in 1 .. J - 1, NEW x \in Names
               PROVE  \/ /\ \A p \in Base(j) + 1 .. Top' : ~ Named(p, x)
                         /\ \A m \in j + 1 .. J : scopes[m][x] = 0
                      \/ \E p \in 1 .. Top' :
                           /\ p \in Base(j) + 1 .. Top' /\ Named(p, x)
                           /\ \A q \in Base(j) + 1 .. p - 1 : ~ Named(q, x)
                           /\ Inner(syms[local_stack[p]].prev_tok, scopes, x, j)
    <3>1. \A p \in 1 .. Top', x \in Names : Named(p, x)' <=> Named(p, x)
      BY <1>3 DEF Named
    <3>2. J' + 1 = J /\ J' = J - 1 /\ \A k \in 1 .. J - 1 : k \in 0 .. J
      BY <1>2
    <3>3. ASSUME NEW j \in 1 .. J - 1, NEW x \in Names,
                 /\ \A p \in Base(j) + 1 .. Top' : ~ Named(p, x)
                 /\ \A m \in j + 1 .. J : scopes[m][x] = 0
          PROVE  /\ \A p \in Base(j)' + 1 .. Top' : ~ Named(p, x)'
                 /\ \A m \in j + 1 .. J : scopes'[m][x] = 0
      <4>1. Base(j)' = Base(j) /\ Base(j) \in Nat
        BY <1>2, <1>8, <1>10 DEF Base
      <4>2. \A p \in Base(j) + 1 .. Top' : p \in 1 .. Top'
        BY <1>2, <1>3, <4>1
      <4>3. \A m \in j + 1 .. J : m \in 1 .. J
        BY <1>2
      <4>4. \A p \in Base(j)' + 1 .. Top' : ~ Named(p, x)'
        BY <3>1, <3>3, <4>1, <4>2
      <4>5. \A m \in j + 1 .. J : scopes'[m][x] = 0
        BY <1>6, <3>3, <4>3
      <4> QED
        BY <4>4, <4>5
    <3>4. ASSUME NEW j \in 1 .. J - 1, NEW x \in Names, NEW p \in 1 .. Top',
                 /\ p \in Base(j) + 1 .. Top' /\ Named(p, x)
                 /\ \A q \in Base(j) + 1 .. p - 1 : ~ Named(q, x)
                 /\ Inner(syms[local_stack[p]].prev_tok, scopes, x, j)
          PROVE  Lowest(p, Base(j), x)' /\ Inner(syms'[local_stack'[p]].prev_tok, scopes', x, j)
      <4>1. Base(j)' = Base(j) /\ Base(j) \in Nat
        BY <1>2, <1>8, <1>10 DEF Base
      <4>2. \A q \in Base(j) + 1 .. p - 1 : q \in 1 .. Top'
        BY <1>2, <1>3, <4>1
      <4>3. syms'[local_stack'[p]] = syms[local_stack[p]]
        BY <1>3
      <4>4. Inner(syms[local_stack[p]].prev_tok, scopes', x, j)
        BY <1>7, <3>2, <3>4
      <4> QED
        BY <3>1, <3>4, <4>1, <4>2, <4>3, <4>4 DEF Lowest
    <3> QED
      BY <3>2, <3>3, <3>4 DEF PopInv
  <2>1. j \in 1 .. J /\ Base(j) \in Nat /\ Base(j) <= b
    <3>1. j \in 1 .. J /\ open[j].s <= b
      BY <1>8
    <3> QED
      BY <1>2, <1>3, <3>1 DEF Base
  <2>2. CASE /\ \A p \in Base(j) + 1 .. Top : ~ Named(p, x)
             /\ \A m \in j + 1 .. J + 1 : scopes[m][x] = 0
    <3>1. /\ \A p \in Base(j) + 1 .. Top' : p \in Base(j) + 1 .. Top
          /\ \A m \in j + 1 .. J : m \in j + 1 .. J + 1
      BY <1>2, <1>3, <2>1
    <3> QED
      BY <2>2, <3>1
  <2>3. CASE \E p \in 1 .. Top : Lowest(p, Base(j), x) /\ Inner(syms[local_stack[p]].prev_tok, scopes, x, j)
    <3>1. PICK p \in 1 .. Top : Lowest(p, Base(j), x) /\ Inner(syms[local_stack[p]].prev_tok, scopes, x, j)
      BY <2>3
    <3>2. p \in Base(j) + 1 .. Top /\ Named(p, x) /\ \A q \in Base(j) + 1 .. p - 1 : ~ Named(q, x)
      BY <3>1 DEF Lowest
    <3>3. CASE p <= Top'
      <4>1. p \in 1 .. Top' /\ p \in Base(j) + 1 .. Top'
        BY <1>2, <1>3, <2>1, <3>2, <3>3
      <4> QED
        BY <3>1, <3>2, <4>1
    <3>4. CASE ~ (p <= Top')
      <4>1. \A q \in Base(j) + 1 .. Top' : q \in Base(j) + 1 .. p - 1
        BY <1>2, <1>3, <2>1, <3>2, <3>4
      <4>2. ASSUME NEW m \in j + 1 .. J PROVE scopes[m][x] = 0
        <5> SUFFICES ASSUME scopes[m][x] # 0 PROVE FALSE
          OBVIOUS
        <5>1. m \in 2 .. J /\ m \in 1 .. J + 1 /\ m - 1 \in 1 .. J /\ j <= m - 1 /\ (m - 1 = 1 => j = 1)
          BY <1>2, <2>1
        <5>2. PICK q \in 1 .. b : local_stack[q] = scopes[m][x] /\ Base(m - 1) < q /\ q <= Top'
          BY <1>11, <5>1
        <5>3. Base(j) <= Base(m - 1) /\ Base(m - 1) \in Nat
          BY <1>1, <1>2, <2>1, <5>1 DEF Base, OpenInv
        <5>4. q \in Base(j) + 1 .. Top'
          BY <1>2, <1>3, <2>1, <5>2, <5>3
        <5>5. Named(q, x)
          BY <1>1, <5>1, <5>2 DEF WhereInv, Named
        <5> QED
          BY <3>2, <4>1, <5>4, <5>5
      <4> QED
        BY <3>2, <4>1, <4>2
    <3> QED
      BY <3>3, <3>4
  <2> QED
    BY <2>1, <2>2, <2>3 DEF IInv, PopInv
<1>20. ValsInv'
  <2> SUFFICES ASSUME NEW j \in 1 .. J - 1, NEW k \in open'[j].vals
               PROVE  \E p \in 1 .. Top' : local_stack'[p] = k /\ (j < J - 1 => p <= open'[j + 1].s)
    BY <1>2 DEF ValsInv
  <2>1. CASE k \in open[j].vals
    <3>1. j \in 1 .. J /\ j < J /\ j + 1 \in 1 .. J /\ J # 1
      BY <1>2
    <3>2. PICK p \in 1 .. Top : local_stack[p] = k /\ p <= open[j + 1].s
      BY <2>1, <3>1 DEF IInv, ValsInv
    <3>3. open[j + 1].s <= open[J].s /\ b = open[J].s
      BY <1>1, <1>2, <3>1 DEF OpenInv, Base
    <3>4. p \in 1 .. Top'
      BY <1>2, <1>3, <3>1, <3>2, <3>3
    <3>5. j < J - 1 => open'[j + 1].s = open[j + 1].s
      <4>1. j < J - 1 => j + 1 \in 1 .. J - 1
        BY <1>2
      <4> QED
        BY <4>1
    <3> QED
      BY <1>3, <3>2, <3>4, <3>5
  <2>2. CASE j = J - 1 /\ \E p \in 1 .. Top' : local_stack'[p] = k
    BY <1>2, <2>2
  <2> QED
    BY <2>1, <2>2
<1> QED
  BY <1>13, <1>14, <1>15, <1>16, <1>17, <1>18, <1>19, <1>20 DEF IInv

LEMMA StepEndScope ==
  ASSUME Assumptions, IInv, EndScope
  PROVE  IInv'
<1>1. TypeInv /\ J \in Nat /\ J > 1 /\ J \in 1 .. J /\ open \in Seq(Open) /\ Len(open) = J
  <2>1. TypeInv
    BY DEF IInv
  <2> QED
    BY <2>1, OpenIs DEF EndScope, J, TypeInv
<1> PICK o : o = open[J]
  OBVIOUS
<1>2. /\ local_scope' = o.scope /\ sym_pop(o.s, o.is_expr)
      /\ open' = IF o.is_expr
                 THEN [Front(open) EXCEPT ![J - 1].vals = @ \cup o.vals \cup Range(Above(o.s))]
                 ELSE Front(open)
      /\ scopes' = Front(scopes) /\ refused' = refused
  BY <1>1 DEF EndScope, Last
<1>3. o \in Open /\ o.is_expr \in BOOLEAN /\ o.s = Base(J) /\ o.scope = Level(J)
  <2>1. o \in Open /\ J # 1 /\ J <= J
    BY <1>1
  <2> QED
    BY <2>1 DEF Base, Level, Open
<1>4. sym_pop(Base(J), o.is_expr)
  BY <1>2, <1>3
<1>8. /\ J # 0 /\ o.is_expr \in BOOLEAN /\ (J = 1 => ~ o.is_expr)
      /\ local_scope' = Level(J) /\ scopes' = Front(scopes) /\ refused' = refused
  BY <1>1, <1>2, <1>3
<1> PICK front : front = Front(open)
  OBVIOUS
<1>5. /\ front \in Seq(Open) /\ Len(front) = J - 1
      /\ \A j \in 1 .. J - 1 : front[j] = open[j] /\ front[j] \in Open
  <2>1. front = SubSeq(open, 1, J - 1)
    BY <1>1 DEF Front
  <2> QED
    BY <1>1, <2>1
<1>6. CASE ~ o.is_expr
  <2>1. open' = front
    BY <1>2, <1>6
  <2>2. \A j \in 1 .. J - 1 :
          /\ open'[j].s = open[j].s /\ open'[j].scope = open[j].scope
          /\ open'[j].kind = open[j].kind
          /\ \A k \in open'[j].vals :
               \/ k \in open[j].vals
               \/ j = J - 1 /\ \E p \in 1 .. Top' : local_stack'[p] = k
    BY <1>5, <2>1
  <2>3. open' \in Seq(Open) /\ Len(open') = J - 1
    BY <1>5, <2>1
  <2> QED
    BY <1>4, <1>8, <2>2, <2>3, Closed
<1>7. CASE o.is_expr
  <2> PICK above : above = Range(Above(o.s))
    OBVIOUS
  <2>1. open' = [front EXCEPT ![J - 1].vals = @ \cup o.vals \cup above]
    BY <1>2, <1>7
  <2>2. local_stack' = local_stack /\ Top' = Top
    BY <1>2, <1>7 DEF sym_pop, Top
  <2>3. Top \in Nat /\ o.s \in 0 .. Top
    <3>1. open[J].s \in Nat /\ Top \in Nat /\ open[J].s <= Top
      BY <1>1, OpenIs DEF IInv, OpenInv
    <3> QED
      BY <3>1
  <2>4. \A k \in above : k \in Index /\ \E p \in 1 .. Top : local_stack[p] = k
    <3>1. local_stack \in Seq(Index) /\ Len(local_stack) = Top
      BY <1>1 DEF TypeInv, Top
    <3> PICK popped : popped = SubSeq(local_stack, o.s + 1, Top)
      OBVIOUS
    <3>2. above = Range(popped)
      BY DEF Above, Top
    <3>3. /\ DOMAIN popped = 1 .. Top - o.s
          /\ \A i \in 1 .. Top - o.s : popped[i] = local_stack[o.s + i]
      BY <2>3, <3>1
    <3>4. \A i \in 1 .. Top - o.s : o.s + i \in 1 .. Top
      BY <2>3
    <3>5. \A p \in 1 .. Top : local_stack[p] \in Index
      BY <1>1, TypesOf
    <3> SUFFICES ASSUME NEW k \in above
                 PROVE  k \in Index /\ \E p \in 1 .. Top : local_stack[p] = k
      OBVIOUS
    <3>6. PICK i \in 1 .. Top - o.s : k = popped[i]
      BY <3>2, <3>3 DEF Range
    <3> QED
      BY <3>3, <3>4, <3>5, <3>6
  <2>5. o.vals \subseteq Index /\ \A k \in o.vals : \E p \in 1 .. Top : local_stack[p] = k
    BY <1>1, <1>3 DEF IInv, ValsInv, Open
  <2> PICK last : last = [front[J - 1] EXCEPT !.vals = @ \cup o.vals \cup above]
    OBVIOUS
  <2>6. /\ J - 1 \in 1 .. J - 1 /\ front[J - 1] \in Open /\ front[J - 1] = open[J - 1]
    BY <1>1, <1>5
  <2>7. /\ last \in Open /\ last.s = front[J - 1].s /\ last.scope = front[J - 1].scope
        /\ last.kind = front[J - 1].kind /\ last.vals = front[J - 1].vals \cup o.vals \cup above
    BY <2>4, <2>5, <2>6 DEF Open
  <2>8. /\ open' \in Seq(Open) /\ Len(open') = J - 1 /\ open'[J - 1] = last
        /\ \A j \in 1 .. J - 1 : j # J - 1 => open'[j] = front[j]
    BY <1>5, <2>1, <2>6, <2>7
  <2>9. ASSUME NEW j \in 1 .. J - 1
        PROVE  /\ open'[j].s = open[j].s /\ open'[j].scope = open[j].scope
               /\ open'[j].kind = open[j].kind
               /\ \A k \in open'[j].vals :
                    \/ k \in open[j].vals
                    \/ j = J - 1 /\ \E p \in 1 .. Top' : local_stack'[p] = k
    <3>1. CASE j = J - 1
      BY <1>5, <2>2, <2>4, <2>5, <2>6, <2>7, <2>8, <3>1
    <3>2. CASE j # J - 1
      BY <1>5, <2>8, <3>2
    <3> QED
      BY <3>1, <3>2
  <2>10. open' \in Seq(Open) /\ Len(open') = J - 1
    BY <2>8
  <2> QED
    BY <1>4, <1>8, <2>9, <2>10, Closed
<1> QED
  BY <1>3, <1>6, <1>7

LEMMA StepEndFunction ==
  ASSUME Assumptions, IInv, EndFunction
  PROVE  IInv'
<1>1. J = 1 /\ Base(J) = 0 /\ Level(J) = 0
  BY DEF EndFunction, J, Base, Level
<1>2. /\ local_scope' = 0 /\ sym_pop(0, FALSE) /\ open' = << >>
      /\ scopes' = Front(scopes) /\ refused' = refused
  BY DEF EndFunction
<1>3. open' \in Seq(Open) /\ Len(open') = J - 1 /\ \A j \in 1 .. J - 1 : FALSE
  <2>1. << >> \in Seq(Open) /\ Len(<< >>) = 0
    OBVIOUS
  <2>2. J - 1 = 0 /\ \A j \in 1 .. 0 : FALSE
    BY <1>1
  <2> QED
    BY <1>2, <2>1, <2>2
<1>4. local_scope' = Level(J) /\ J # 0
  BY <1>1, <1>2
<1> PICK keep \in BOOLEAN : ~ keep
  OBVIOUS
<1>5. sym_pop(Base(J), keep)
  BY <1>1, <1>2 DEF sym_pop
<1> QED
  BY <1>2, <1>3, <1>4, <1>5, Closed

LEMMA StepEndFile ==
  ASSUME Assumptions, IInv, EndFile
  PROVE  IInv'
<1>1. TypeInv
  BY DEF IInv
<1>2. J = 0 /\ local_stack = << >> /\ Top = 0
  BY <1>1, OpenCount DEF EndFile, IInv, OpenInv, Top
<1>3. /\ sym_identifier' = Unlink(global_stack) /\ syms' = Erased(Range(global_stack))
      /\ global_stack' = << >> /\ scopes' = <<NoDecls>>
      /\ local_stack' = local_stack /\ local_scope' = local_scope
      /\ open' = open /\ refused' = refused
  BY DEF EndFile
<1>4. J' = 0 /\ Top' = 0 /\ Len(global_stack') = 0
  BY <1>2, <1>3 DEF J, Top
<1>5. ASSUME NEW n \in Names PROVE sym_identifier'[n] = 0
  <2> DEFINE its == {i \in DOMAIN global_stack : syms[global_stack[i]].v = n}
  <2>1. sym_identifier'[n] = IF its = {} THEN sym_identifier[n] ELSE syms[global_stack[Min(its)]].prev_tok
    BY <1>3 DEF Unlink
  <2>2. DOMAIN global_stack = 1 .. Len(global_stack)
    BY <1>1 DEF TypeInv
  <2>3. CASE its = {}
    <3>1. scopes[1][n] = 0
      <4> SUFFICES ASSUME scopes[1][n] # 0 PROVE FALSE
        OBVIOUS
      <4>1. PICK p \in 1 .. Len(global_stack) : global_stack[p] = scopes[1][n]
        BY DEF IInv, WhereInv
      <4>2. syms[scopes[1][n]].v = n
        BY <1>2 DEF IInv, WhereInv
      <4> QED
        BY <2>2, <2>3, <4>1, <4>2
    <3>2. Inner(sym_identifier[n], scopes, n, 1)
      BY <1>2 DEF IInv, MeantInv
    <3>3. \A k \in 1 .. 1 : scopes[k][n] = 0
      BY <3>1
    <3>4. sym_identifier[n] = 0
      BY <3>2, <3>3 DEF Inner
    <3> QED
      BY <2>1, <2>3, <3>4
  <2>4. CASE its # {}
    <3>1. Min(its) \in its
      <4>1. its \subseteq Nat
        BY <2>2
      <4> HIDE DEF its
      <4> QED
        BY <2>4, <4>1, MinIs
    <3> PICK p : p = Min(its)
      OBVIOUS
    <3>2. p \in 1 .. Len(global_stack)
      BY <2>2, <3>1
    <3>3. syms[global_stack[p]].prev_tok = 0
      BY <3>2 DEF IInv, WhereInv
    <3> QED
      BY <2>1, <2>4, <3>3
  <2> QED
    BY <2>3, <2>4
<1>6. MaxSyms \in Nat /\ \A n \in Names : NoDecls[n] = 0
  BY DEF Assumptions, NoDecls
<1>7. /\ scopes' \in Seq([Names -> 0 .. MaxSyms]) /\ Len(scopes') = 1 /\ scopes'[1] = NoDecls
  <2>1. NoDecls \in [Names -> 0 .. MaxSyms]
    BY <1>6 DEF NoDecls
  <2> QED
    BY <1>3, <2>1, OneIs
<1>8. TypeInv'
  <2>1. sym_identifier' \in [Names -> 0 .. MaxSyms]
    <3>1. sym_identifier' = [n \in Names |-> sym_identifier'[n]]
      BY <1>3 DEF Unlink
    <3> QED
      BY <1>5, <1>6, <3>1
  <2>2. syms' \in [Index -> Sym]
    <3>1. Void \in Sym
      BY <1>6 DEF Void, Sym
    <3> QED
      BY <1>1, <1>3, <3>1 DEF Erased, TypeInv, Index
  <2>3. Len(scopes') = J' + 1
    BY <1>4, <1>7
  <2>4. global_stack' \in Seq(Index)
    BY <1>3
  <2> QED
    BY <1>1, <1>3, <1>7, <2>1, <2>2, <2>3, <2>4 DEF TypeInv
<1>9. OpenInv'
  BY <1>2, <1>3, <1>4 DEF IInv, OpenInv
<1>10. StackInv'
  BY <1>3, <1>4 DEF StackInv
<1>11. \A m \in 1 .. J' + 1 : m = 1 /\ \A n \in Names : scopes'[m][n] = 0
  BY <1>4, <1>6, <1>7
<1>12. LevelInv'
  BY <1>11 DEF LevelInv
<1>13. WhereInv'
  <2>1. \A m \in 2 .. J' + 1 : FALSE
    BY <1>4
  <2>2. \A n \in Names : scopes'[1][n] = 0
    BY <1>6, <1>7
  <2> QED
    BY <1>4, <1>11, <2>1, <2>2 DEF WhereInv
<1>14. MeantInv'
  <2>1. ASSUME NEW n \in Names PROVE Inner(sym_identifier'[n], scopes', n, J' + 1)
    BY <1>5, <1>11 DEF Inner
  <2> QED
    BY <1>11, <2>1 DEF MeantInv
<1>15. PopInv' /\ ValsInv'
  BY <1>4 DEF PopInv, ValsInv
<1> QED
  BY <1>8, <1>9, <1>10, <1>12, <1>13, <1>14, <1>15 DEF IInv

-----------------------------------------------------------------------------
(* The theorems.                                                           *)

LEMMA InitIInv ==
  ASSUME Assumptions, Init
  PROVE  IInv
<1>1. J = 0 /\ Top = 0 /\ Len(global_stack) = 0
  BY DEF Init, J, Top
<1>2. MaxSyms \in Nat /\ \A n \in Names : NoDecls[n] = 0
  BY DEF Assumptions, NoDecls
<1>3. /\ scopes \in Seq([Names -> 0 .. MaxSyms]) /\ Len(scopes) = 1 /\ scopes[1] = NoDecls
  <2>1. NoDecls \in [Names -> 0 .. MaxSyms]
    BY <1>2 DEF NoDecls
  <2> QED
    BY <2>1, OneIs DEF Init
<1>4. TypeInv
  <2>1. sym_identifier \in [Names -> 0 .. MaxSyms]
    BY <1>2 DEF Init, NoDecls
  <2>2. syms \in [Index -> Sym]
    <3>1. Void \in Sym
      BY <1>2 DEF Void, Sym
    <3> QED
      BY <3>1 DEF Init, Index
  <2>3. Len(scopes) = J + 1
    BY <1>1, <1>3
  <2>4. /\ global_stack \in Seq(Index) /\ local_stack \in Seq(Index) /\ open \in Seq(Open)
        /\ local_scope \in Nat /\ refused = FALSE
    BY DEF Init
  <2> QED
    BY <1>3, <2>1, <2>2, <2>3, <2>4 DEF TypeInv
<1>5. OpenInv
  BY <1>1 DEF Init, OpenInv
<1>6. StackInv
  BY <1>1 DEF StackInv
<1>7. \A m \in 1 .. J + 1 : m = 1 /\ \A n \in Names : scopes[m][n] = 0
  BY <1>1, <1>2, <1>3
<1>8. LevelInv
  BY <1>7 DEF LevelInv
<1>9. WhereInv
  <2>1. \A m \in 2 .. J + 1 : FALSE
    BY <1>1
  <2>2. \A n \in Names : scopes[1][n] = 0
    BY <1>2, <1>3
  <2> QED
    BY <1>1, <1>7, <2>1, <2>2 DEF WhereInv
<1>10. MeantInv
  <2>1. ASSUME NEW n \in Names PROVE Inner(sym_identifier[n], scopes, n, J + 1)
    <3>1. sym_identifier[n] = 0
      BY <1>2 DEF Init
    <3> QED
      BY <1>7, <3>1 DEF Inner
  <2> QED
    BY <1>7, <2>1 DEF MeantInv
<1>11. PopInv /\ ValsInv
  BY <1>1 DEF PopInv, ValsInv
<1> QED
  BY <1>4, <1>5, <1>6, <1>8, <1>9, <1>10, <1>11 DEF IInv

LEMMA StepIInv ==
  ASSUME Assumptions, ~ ReuseKept, IInv, [Next]_vars
  PROVE  IInv'
<1>1. CASE DeclareFile
  BY <1>1, StepDeclareFile
<1>2. CASE DeclareLocal
  BY <1>2, StepDeclareLocal
<1>3. CASE DeclareExtern
  BY <1>3, StepDeclareExtern
<1>4. CASE CallUndeclared
  BY <1>4, StepCallUndeclared
<1>5. CASE AsmLabel
  BY <1>5, StepAsmLabel
<1>6. CASE BeginFunction
  BY <1>6, StepBeginFunction
<1>7. CASE BeginBody
  BY <1>7, StepBeginBody
<1>8. CASE BeginBlock
  BY <1>8, StepBeginBlock
<1>9. CASE BeginFor
  BY <1>9, StepBeginFor
<1>10. CASE ForBody
  BY <1>10, StepForBody
<1>11. CASE EndScope
  BY <1>11, StepEndScope
<1>12. CASE EndFunction
  BY <1>12, StepEndFunction
<1>13. CASE EndFile
  BY <1>13, StepEndFile
<1>14. CASE UNCHANGED vars
  <2>1. /\ syms' = syms /\ global_stack' = global_stack /\ local_stack' = local_stack
        /\ sym_identifier' = sym_identifier /\ local_scope' = local_scope /\ open' = open
        /\ refused' = refused /\ scopes' = scopes
    BY <1>14 DEF vars, stacks
  <2>2. J' = J /\ Top' = Top
    BY <2>1 DEF J, Top
  <2>3. /\ \A m : Level(m)' = Level(m)
        /\ \A j : Base(j)' = Base(j)
        /\ \A p, n : Named(p, n)' <=> Named(p, n)
    BY <2>1, <2>2 DEF Level, Base, Named
  <2>4. TypeInv' /\ OpenInv' /\ StackInv'
    BY <2>1, <2>2 DEF IInv, TypeInv, OpenInv, StackInv
  <2>5. LevelInv' /\ MeantInv' /\ ValsInv'
    BY <2>1, <2>2, <2>3 DEF IInv, LevelInv, MeantInv, ValsInv
  <2>6. WhereInv'
    BY <2>1, <2>2, <2>3 DEF IInv, WhereInv
  <2>7. PopInv'
    BY <2>1, <2>2, <2>3 DEF IInv, PopInv, Lowest
  <2> QED
    BY <2>4, <2>5, <2>6, <2>7 DEF IInv
<1> QED
  BY <1>1, <1>2, <1>3, <1>4, <1>5, <1>6, <1>7, <1>8, <1>9, <1>10, <1>11, <1>12, <1>13, <1>14 DEF Next

\* The chains, scopes and stacks stay as IInv says, for any names, any number
\* of symbols and any nesting.
THEOREM ScopesInvariant ==
  ASSUME Assumptions, ~ ReuseKept
  PROVE  Spec => []IInv
<1>1. Init => IInv
  BY InitIInv
<1>2. IInv /\ [Next]_vars => IInv'
  BY StepIInv
<1> QED
  BY <1>1, <1>2, PTL DEF Spec

LEMMA MeantFollows ==
  ASSUME Assumptions, IInv
  PROVE  ScopesAsMeant
<1>1. TypeInv /\ J \in Nat /\ DOMAIN scopes = 1 .. J + 1 /\ Len(scopes) = J + 1 /\ ~ refused
  <2>1. TypeInv
    BY DEF IInv
  <2>2. DOMAIN scopes = 1 .. J + 1 /\ Len(scopes) = J + 1 /\ ~ refused
    BY <2>1 DEF TypeInv
  <2> QED
    BY <2>1, <2>2, OpenIs
<1>2. ASSUME NEW n \in Names
      PROVE  sym_find(n) = Innermost(n, Len(scopes))
  <2>1. Inner(sym_find(n), scopes, n, J + 1) /\ J + 1 \in Nat
    BY <1>1 DEF IInv, MeantInv, sym_find
  <2>2. Inner(Innermost(n, J + 1), scopes, n, J + 1)
    BY <1>1, InnermostIs
  <2>3. sym_find(n) = Innermost(n, J + 1)
    BY <2>1, <2>2, InnerOnly
  <2> QED
    BY <1>1, <2>3
<1>3. ASSUME NEW n \in Names, NEW k \in DOMAIN scopes, scopes[k][n] # 0
      PROVE  syms[scopes[k][n]].prev_tok = Innermost(n, k - 1)
  <2>1. k \in 1 .. J + 1 /\ k - 1 \in Nat
    BY <1>1
  <2>2. Inner(syms[scopes[k][n]].prev_tok, scopes, n, k - 1)
    BY <1>3, <2>1 DEF IInv, MeantInv
  <2>3. Inner(Innermost(n, k - 1), scopes, n, k - 1)
    BY <2>1, InnermostIs
  <2> QED
    BY <2>1, <2>2, <2>3, InnerOnly
<1> QED
  BY <1>1, <1>2, <1>3 DEF ScopesAsMeant

LEMMA LiveFollows ==
  ASSUME Assumptions, IInv
  PROVE  SymbolsLive
<1>1. /\ TypeInv /\ J \in Nat /\ DOMAIN open = 1 .. J
      /\ DOMAIN local_stack = 1 .. Top /\ DOMAIN global_stack = 1 .. Len(global_stack)
  <2>1. TypeInv
    BY DEF IInv
  <2>2. DOMAIN open = 1 .. J
    BY <2>1 DEF TypeInv, J
  <2>3. DOMAIN local_stack = 1 .. Top /\ DOMAIN global_stack = 1 .. Len(global_stack)
    BY <2>1 DEF TypeInv, Top
  <2> QED
    BY <2>1, <2>2, <2>3, OpenIs
<1>2. /\ \A p \in 1 .. Top : local_stack[p] \in Live
      /\ \A p \in 1 .. Len(global_stack) : global_stack[p] \in Live
  BY <1>1 DEF Live, Range
<1>3. ASSUME NEW n \in Names, NEW x \in Range(Chain(n)) \ {0}
      PROVE  x \in Live
  <2>1. DOMAIN Chain(n) = 0 .. MaxSyms
    BY <1>1, ChainIs
  <2>2. PICK j \in 0 .. MaxSyms : x = Chain(n)[j]
    BY <2>1 DEF Range
  <2>3. PICK k \in 1 .. J + 1 : x = scopes[k][n]
    BY <2>2, ChainOut
  <2>4. CASE k = 1
    BY <1>2, <2>3, <2>4 DEF IInv, WhereInv
  <2>5. CASE k # 1
    <3>1. k \in 2 .. J + 1
      BY <1>1, <2>5
    <3> QED
      BY <1>2, <2>3, <3>1 DEF IInv, WhereInv
  <2> QED
    BY <2>4, <2>5
<1>4. ASSUME NEW o \in Range(open), NEW k \in o.vals
      PROVE  k \in Live
  <2>1. PICK j \in 1 .. J : o = open[j]
    BY <1>1 DEF Range
  <2> QED
    BY <1>2, <2>1 DEF IInv, ValsInv
<1>5. IsInjective(global_stack) /\ IsInjective(local_stack)
  BY <1>1 DEF IsInjective, IInv, StackInv
<1>6. Range(global_stack) \cap Range(local_stack) = {}
  BY <1>1 DEF Range, IInv, StackInv
<1> QED
  BY <1>3, <1>4, <1>5, <1>6 DEF SymbolsLive

\* A name means its innermost declaration, and each declaration leads to the
\* next one further out, through sym_push, global_identifier_push and sym_pop.
THEOREM ScopesAlwaysAsMeant ==
  ASSUME Assumptions, ~ ReuseKept
  PROVE  Spec => []ScopesAsMeant
<1>1. IInv => ScopesAsMeant
  BY MeantFollows
<1> QED
  BY <1>1, ScopesInvariant, PTL

\* No chain and no value of a statement expression leads to a symbol that
\* sym_pop has given back.
THEOREM SymbolsAlwaysLive ==
  ASSUME Assumptions, ~ ReuseKept
  PROVE  Spec => []SymbolsLive
<1>1. IInv => SymbolsLive
  BY LiveFollows
<1> QED
  BY <1>1, ScopesInvariant, PTL
=============================================================================
