------------------------------ MODULE SymStack ------------------------------
(***************************************************************************)
(* Identifiers and scopes in tccgen.c: the stacks of symbols, the chain of *)
(* declarations that sym_identifier of a name begins, and how blocks, for  *)
(* loops, statement expressions and functions push and pop them.           *)
(*                                                                         *)
(* Names of structs have chains of the same kind (sym_struct); fields and  *)
(* other symbols without a chain are left out, but for the one at the      *)
(* bottom of a function's.                                                 *)
(***************************************************************************)
EXTENDS Integers, FiniteSets, Sequences, SequencesExt

CONSTANTS
  Names,      \* identifiers
  Locals,     \* those that functions declare as their own
  Helpers,    \* those of functions the code generator calls: memset, ...
  NoName,     \* v of the symbol without a chain
  ReuseKept,  \* may a name of a finished statement expression become global?
  MaxSyms,    \* bound: symbols that are not free
  MaxOpen     \* bound: constructs open at a time

Assumptions ==
  /\ Locals \subseteq Names /\ Helpers \subseteq Names /\ NoName \notin Names
  /\ ReuseKept \in BOOLEAN /\ MaxSyms \in Nat /\ MaxOpen \in Nat

VARIABLES
  syms,            \* the symbols: [v, sym_scope, prev_tok, auto]
  global_stack,
  local_stack,
  sym_identifier,  \* for each name the symbol in force, 0 for none
  local_scope,
  open,            \* what the parser is in: [kind, s, scope, is_expr, vals]
  refused,         \* was a declaration refused?
  scopes           \* history: the declarations of each scope, the file's first

stacks == <<global_stack, local_stack>>
vars == <<syms, stacks, sym_identifier, local_scope, open, refused, scopes>>

sym_find(n) == sym_identifier[n]
NoDecls == [n \in Names |-> 0]

\* sym_malloc: one that is on no stack; sym_free gives back what leaves it
Live == Range(global_stack) \cup Range(local_stack)
Free == (1 .. MaxSyms) \ Live
Made == CHOOSE k \in Free : \A m \in Free : k <= m
Void == [v |-> NoName, sym_scope |-> 0, prev_tok |-> 0, auto |-> TRUE]

\* the symbols along prev_tok from the one in force, then 0
Chain(n) ==
  LET C[j \in 0 .. MaxSyms] ==
        IF j = 0 THEN sym_find(n) ELSE IF C[j - 1] = 0 THEN 0 ELSE syms[C[j - 1]].prev_tok
  IN C

-----------------------------------------------------------------------------
(* The operations on stacks and chains.                                    *)

\* sym_push: the newest on the stack in use and in its chain
Push(n, scope, auto) ==
  /\ Free # {}
  /\ syms' = [syms EXCEPT ![Made] =
                 [v |-> n, sym_scope |-> scope, prev_tok |-> sym_find(n), auto |-> auto]]
  /\ sym_identifier' = [sym_identifier EXCEPT ![n] = Made]
  /\ IF local_stack # << >>
     THEN local_stack' = Append(local_stack, Made) /\ UNCHANGED global_stack
     ELSE global_stack' = Append(global_stack, Made) /\ UNCHANGED local_stack

\* the place in the chain where global_identifier_push and asm_label_find
\* stop: a symbol without scope, or the end
Stop(n) == Min({j \in 0 .. MaxSyms : Chain(n)[j] = 0 \/ syms[Chain(n)[j]].sym_scope = 0})
asm_label_find(n) == Chain(n)[Stop(n)]

\* mistake: above the local symbols
PushOver(n) ==
  /\ Free # {}
  /\ global_stack' = Append(global_stack, Made)
  /\ syms' = [syms EXCEPT ![Made] =
                 [v |-> n, sym_scope |-> 0, prev_tok |-> sym_find(n), auto |-> FALSE]]
  /\ sym_identifier' = [sym_identifier EXCEPT ![n] = Made]
  /\ UNCHANGED local_stack

\* below the local symbols of the chain
global_identifier_push(n) ==
  LET new == [v |-> n, sym_scope |-> 0, prev_tok |-> asm_label_find(n), auto |-> FALSE]
  IN /\ Free # {}
     /\ global_stack' = Append(global_stack, Made)
     /\ IF Stop(n) = 0
        THEN /\ syms' = [syms EXCEPT ![Made] = new]
             /\ sym_identifier' = [sym_identifier EXCEPT ![n] = Made]
        ELSE /\ syms' = [syms EXCEPT ![Made] = new, ![Chain(n)[Stop(n) - 1]].prev_tok = Made]
             /\ UNCHANGED sym_identifier
     /\ UNCHANGED local_stack

\* the newest are taken first, so the oldest of a name decides
Unlink(popped) ==
  [n \in Names |->
     LET its == {j \in DOMAIN popped : syms[popped[j]].v = n}
     IN IF its = {} THEN sym_identifier[n] ELSE syms[popped[Min(its)]].prev_tok]

Erased(old) == [k \in 1 .. MaxSyms |-> IF k \in old THEN Void ELSE syms[k]]

Above(s) == SubSeq(local_stack, s + 1, Len(local_stack))

\* mistake: nothing is kept
PopAll(s, keep) ==
  /\ sym_identifier' = Unlink(Above(s))
  /\ local_stack' = SubSeq(local_stack, 1, s)
  /\ syms' = Erased(Range(Above(s)))
  /\ UNCHANGED global_stack

\* sym_pop of local_stack; keep: the symbols are still needed
sym_pop(s, keep) ==
  /\ sym_identifier' = Unlink(Above(s))
  /\ IF keep THEN UNCHANGED <<syms, local_stack>>
     ELSE /\ local_stack' = SubSeq(local_stack, 1, s)
          /\ syms' = Erased(Range(Above(s)))
  /\ UNCHANGED global_stack

-----------------------------------------------------------------------------
(* Declarations and uses.  Programs are correct.                           *)

In(kinds) == open # << >> /\ Last(open).kind \in kinds

\* history: the newest symbol is a declaration of n in scope k
Declared(k, n) == scopes' = [scopes EXCEPT ![k][n] = Made]

\* external_sym, decl_initializer_alloc, a typedef, an enumerator: a name
\* that is known is only completed
DeclareFile ==
  /\ open = << >>
  /\ \E n \in Names : sym_find(n) = 0 /\ Push(n, local_scope, FALSE) /\ Declared(1, n)
  /\ UNCHANGED <<local_scope, open, refused>>

\* A variable, typedef, enumerator or parameter, not twice in a scope; a
\* static variable loses its scope once it is made.
DeclareLocal ==
  /\ In({"params", "block", "header"})
  /\ \E n \in Locals, static \in BOOLEAN :
       /\ static => In({"block"})
       /\ Last(scopes)[n] = 0
       /\ IF sym_find(n) # 0 /\ syms[sym_find(n)].sym_scope = local_scope
          THEN refused' = TRUE /\ UNCHANGED <<syms, stacks, sym_identifier, scopes>>
          ELSE /\ Push(n, IF static THEN 0 ELSE local_scope, TRUE)
               /\ Declared(Len(scopes), n) /\ UNCHANGED refused
  /\ UNCHANGED <<local_scope, open>>

\* external_sym in a block, of a name that is not known
DeclareExtern ==
  /\ In({"block"})
  /\ \E n \in Names : sym_find(n) = 0 /\ Push(n, 0, FALSE) /\ Declared(Len(scopes), n)
  /\ UNCHANGED <<local_scope, open, refused>>

\* taken from its chain by sym_pop, but still on the stack
Kept(n) == \E k \in Range(local_stack) : syms[k].v = n /\ k \notin Range(Chain(n))

NewGlobal(n) ==
  /\ ReuseKept \/ ~ Kept(n)
  /\ global_identifier_push(n) /\ Declared(1, n)

\* external_global_sym: a call of a function that was not declared, or one
\* that the code generator makes
CallUndeclared ==
  /\ In({"block", "header"})
  /\ \E n \in Names : sym_find(n) = 0 /\ NewGlobal(n)
  /\ UNCHANGED <<local_scope, open, refused>>

\* get_asm_sym, asm_new_label1: a label, or a reference to one
AsmLabel ==
  /\ open = << >> \/ In({"block"})
  /\ \E n \in Names : asm_label_find(n) = 0 /\ NewGlobal(n)
  /\ UNCHANGED <<local_scope, open, refused>>

-----------------------------------------------------------------------------
(* Scopes.  An open construct: s is the height of local_stack it goes back *)
(* to, scope its local_scope, vals the symbols that values on the value    *)
(* stack may refer to since a statement expression in it ended.            *)

Construct(kind, is_expr) ==
  [kind |-> kind, s |-> Len(local_stack), scope |-> local_scope, is_expr |-> is_expr, vals |-> {}]

\* gen_function: a symbol so that local_stack is in use, the parameters
BeginFunction ==
  /\ open = << >> /\ MaxOpen > 0 /\ Free # {}
  /\ syms' = [syms EXCEPT ![Made] = Void]
  /\ local_stack' = <<Made>>
  /\ local_scope' = 1
  /\ open' = <<Construct("params", FALSE)>>
  /\ scopes' = Append(scopes, NoDecls)
  /\ UNCHANGED <<global_stack, sym_identifier, refused>>

\* its block has the scope of the parameters
BeginBody ==
  /\ In({"params"})
  /\ local_scope' = 1
  /\ open' = <<Construct("block", FALSE)>>
  /\ UNCHANGED <<syms, stacks, sym_identifier, refused, scopes>>

Enter(constructs, levels) ==
  /\ Len(constructs) <= MaxOpen
  /\ open' = constructs
  /\ local_scope' = local_scope + levels
  /\ scopes' = Append(scopes, NoDecls)
  /\ UNCHANGED <<syms, stacks, sym_identifier, refused>>

\* block: by itself, under an if or while, or as an expression
BeginBlock ==
  \E how \in {"plain", "if", "while", "expr"} :
    /\ In({"block"}) \/ (In({"header"}) /\ how = "expr")
    /\ Enter(Append(open, Construct("block", how = "expr" \/ (how = "plain" /\ Last(open).is_expr))),
             IF how = "while" THEN 2 ELSE 1)

\* for: its header may declare, its body is a block
BeginFor == In({"block"}) /\ Enter(Append(open, Construct("header", FALSE)), 1)
ForBody ==
  /\ In({"header"})
  /\ Enter(Append([open EXCEPT ![Len(open)].kind = "for"], Construct("block", FALSE)), 1)

\* The end of a block or for inside a function.  The symbols of a statement
\* expression are kept, as its value may refer to them.
EndScope ==
  /\ Len(open) > 1 /\ In({"block", "for"})
  /\ LET o == Last(open)
     IN /\ local_scope' = o.scope
        /\ sym_pop(o.s, o.is_expr)
        /\ open' = IF o.is_expr
                   THEN [Front(open) EXCEPT ![Len(open) - 1].vals = @ \cup o.vals \cup Range(Above(o.s))]
                   ELSE Front(open)
  /\ scopes' = Front(scopes)
  /\ UNCHANGED refused

\* the block of a function: nothing stays on local_stack
EndFunction ==
  /\ Len(open) = 1 /\ In({"block"})
  /\ local_scope' = 0
  /\ sym_pop(0, FALSE)
  /\ open' = << >> /\ scopes' = Front(scopes)
  /\ UNCHANGED refused

\* tcc_compile
EndFile ==
  /\ open = << >> /\ global_stack # << >>
  /\ sym_identifier' = Unlink(global_stack)
  /\ syms' = Erased(Range(global_stack))
  /\ global_stack' = << >>
  /\ scopes' = <<NoDecls>>
  /\ UNCHANGED <<local_stack, local_scope, open, refused>>

-----------------------------------------------------------------------------
Init ==
  /\ syms = [k \in 1 .. MaxSyms |-> Void]
  /\ global_stack = << >> /\ local_stack = << >>
  /\ sym_identifier = NoDecls
  /\ local_scope = 0 /\ open = << >>
  /\ refused = FALSE
  /\ scopes = <<NoDecls>>

Next ==
  \/ DeclareFile \/ DeclareLocal \/ DeclareExtern
  \/ CallUndeclared \/ AsmLabel
  \/ BeginFunction \/ BeginBody \/ BeginBlock \/ BeginFor \/ ForBody
  \/ EndScope \/ EndFunction \/ EndFile

Spec == Init /\ [][Next]_vars

-----------------------------------------------------------------------------

\* the innermost declaration of n in the first scopes
Innermost(n, m) ==
  LET declared == {k \in 1 .. m : scopes[k][n] # 0}
  IN IF declared = {} THEN 0 ELSE scopes[Max(declared)][n]

\* A name means its innermost declaration, and the chain goes on from each
\* declaration to the next one further out, whatever blocks, loops, statement
\* expressions, labels and undeclared calls came before (sym_push,
\* global_identifier_push, sym_pop); and no correct declaration was refused
\* as another in its scope.
ScopesAsMeant ==
  /\ ~ refused
  /\ \A n \in Names :
       /\ sym_find(n) = Innermost(n, Len(scopes))
       /\ \A k \in DOMAIN scopes :
            scopes[k][n] # 0 => syms[scopes[k][n]].prev_tok = Innermost(n, k - 1)

\* A symbol is on one of the stacks, once, as long as a chain leads to it or
\* the value of a statement expression may refer to it (keep of sym_pop).
SymbolsLive ==
  /\ \A n \in Names : Range(Chain(n)) \ {0} \subseteq Live
  /\ \A o \in Range(open) : o.vals \subseteq Live
  /\ IsInjective(global_stack) /\ IsInjective(local_stack)
  /\ Range(global_stack) \cap Range(local_stack) = {}

\* "push a reference to global symbol v" (vpush_global_sym): what it finds
\* is not a local variable.
HelpersGlobal == \A n \in Helpers : sym_find(n) # 0 => ~ syms[sym_find(n)].auto
=============================================================================
