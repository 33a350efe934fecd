------------------------------ MODULE Defines ------------------------------
(***************************************************************************)
(* The define stack of tccpp.c: macros of the command line, #define,       *)
(* #undef, #pragma push_macro and pop_macro, and what tcc_compile leaves   *)
(* of them to the next file that is compiled in the same TCCState.         *)
(*                                                                         *)
(* The stack holds all definitions made, the newest last; sym_define of an *)
(* identifier refers to the one in force, or to none.                      *)
(***************************************************************************)
EXTENDS Naturals, FiniteSets, Sequences, SequencesExt

CONSTANTS
  Names,     \* names of macros
  Builtins,  \* those tcc_new defines without a body: __LINE__, ...
  Bodies,    \* replacement lists
  NoBody,    \* d == NULL
  MaxStack,  \* bound: definitions on the stack, and pushes of one name
  MaxFiles   \* bound: files compiled

Assumptions ==
  /\ Builtins \subseteq Names /\ IsFiniteSet(Builtins)
  /\ NoBody \notin Bodies
  /\ MaxStack \in Nat /\ MaxFiles \in Nat

VARIABLES
  define_stack,  \* definitions: [v, d, boundary]
  sym_define,    \* for each name the place of its definition, 0 for none
  define_start,  \* entries of define_stack when the file was begun
  phase,         \* "options", "file"
  files,         \* files compiled so far
  options,       \* history: what each name means after the options
  meant,         \* history: what it should mean now; 0 if it is no macro
  kept,          \* history: the meanings saved by push_macro in this file
  unclear        \* history: names of which the stack cannot tell, see below

tables == <<define_stack, sym_define>>
history == <<options, meant, kept, unclear>>
vars == <<tables, define_start, phase, files, history>>

Undefined == 0
Meaning(n) ==
  IF sym_define[n] = 0 THEN Undefined ELSE define_stack[sym_define[n]].d

define_find(n) == sym_define[n]

Push(stack, n, body) == Append(stack, [v |-> n, d |-> body, boundary |-> FALSE])

-----------------------------------------------------------------------------
(* What options and directives do.  History: the meaning they give.        *)

\* tcc_define_symbol, parse_define: define_push
define_push(n, body) ==
  /\ Len(define_stack) < MaxStack
  /\ define_stack' = Push(define_stack, n, body)
  /\ sym_define' = [sym_define EXCEPT ![n] = Len(define_stack) + 1]
  /\ meant' = [meant EXCEPT ![n] = body]

\* tcc_undefine_symbol, #undef: the entry stays on the stack
define_undef(n) ==
  /\ define_stack' = define_stack
  /\ sym_define' = [sym_define EXCEPT ![n] = 0]
  /\ meant' = [meant EXCEPT ![n] = Undefined]

DefineOption ==
  /\ phase = "options"
  /\ \E n \in Names \ Builtins, body \in Bodies :
       define_push(n, body) /\ options' = meant'
  /\ UNCHANGED <<define_start, phase, files, kept, unclear>>

\* Unclear: free_defines puts the definition back that -U takes away.
UndefineOption ==
  /\ phase = "options"
  /\ \E n \in Names \ Builtins :
       /\ define_undef(n) /\ options' = meant'
       /\ unclear' = IF sym_define[n] # 0 THEN unclear \cup {n} ELSE unclear
  /\ UNCHANGED <<define_start, phase, files, kept>>

\* tcc_compile
BeginFile ==
  /\ phase = "options" /\ files < MaxFiles
  /\ define_start' = Len(define_stack)
  /\ phase' = "file" /\ files' = files + 1
  /\ kept' = [n \in Names |-> <<>>]
  /\ UNCHANGED <<tables, options, meant, unclear>>

Define ==
  /\ phase = "file"
  /\ \E n \in Names \ Builtins, body \in Bodies : define_push(n, body)
  /\ UNCHANGED <<define_start, phase, files, options, kept, unclear>>

Undef ==
  /\ phase = "file"
  /\ \E n \in Names : define_undef(n)
  /\ UNCHANGED <<define_start, phase, files, options, kept, unclear>>

-----------------------------------------------------------------------------
(* #pragma push_macro and pop_macro mark the definition in force and look  *)
(* for the newest mark; the definition itself is not moved.                *)

\* A name without a definition gets one without a body, to be marked; one
\* with a body stays in force, one without (a built-in too) does not.
\* Unclear: a second mark on one definition is no mark more.
PushMacro ==
  /\ phase = "file"
  /\ \E n \in Names :
       LET stack == IF define_find(n) # 0 THEN define_stack ELSE Push(define_stack, n, NoBody)
           s == IF define_find(n) # 0 THEN define_find(n) ELSE Len(stack)
           once == ~ stack[s].boundary /\ ~ (n \in Builtins /\ define_find(n) # 0)
       IN /\ Len(stack) <= MaxStack /\ Len(kept[n]) < MaxStack
          /\ define_stack' = [stack EXCEPT ![s].boundary = TRUE]
          /\ sym_define' = [sym_define EXCEPT ![n] = IF stack[s].d = NoBody THEN 0 ELSE s]
          /\ kept' = [kept EXCEPT ![n] = Append(@, meant[n])]
          /\ unclear' = IF once THEN unclear ELSE unclear \cup {n}
  /\ UNCHANGED <<define_start, phase, files, options, meant>>

Marked(n) == { j \in DOMAIN define_stack : define_stack[j].v = n /\ define_stack[j].boundary }

\* pop_macro of a name that is marked, or of one that is not: a warning
PopDoes(n) ==
  IF Marked(n) = {} THEN UNCHANGED tables
  ELSE LET s == CHOOSE j \in Marked(n) : \A m \in Marked(n) : m <= j
       IN /\ define_stack' = [define_stack EXCEPT ![s].boundary = FALSE]
          /\ sym_define' =
               [sym_define EXCEPT ![n] = IF define_stack[s].d = NoBody THEN 0 ELSE s]

PopMeant(n) ==
  IF kept[n] = <<>> THEN UNCHANGED <<meant, kept>>
  ELSE meant' = [meant EXCEPT ![n] = Last(kept[n])] /\ kept' = [kept EXCEPT ![n] = Front(@)]

PopMacro ==
  /\ phase = "file"
  /\ \E n \in Names : PopDoes(n) /\ PopMeant(n)
  /\ UNCHANGED <<define_start, phase, files, options, unclear>>

-----------------------------------------------------------------------------
(* free_defines: entries down to b are freed, and their names undefined;   *)
(* those below are in force again if their name has no definition.         *)

Freed(b) == { define_stack[j].v : j \in b + 1 .. Len(define_stack) }

\* mistake: names of freed entries still refer to them
FreeDefinesDangling(b) ==
  /\ define_stack' = SubSeq(define_stack, 1, b)
  /\ UNCHANGED sym_define

\* mistake: what was #undef'd is not restored
FreeDefinesForget(b) ==
  /\ define_stack' = SubSeq(define_stack, 1, b)
  /\ sym_define' = [n \in Names |-> IF n \in Freed(b) THEN 0 ELSE sym_define[n]]

free_defines(b) ==
  LET below(n) == { j \in 1 .. b : define_stack[j].v = n }
      newest(n) == CHOOSE j \in below(n) : \A m \in below(n) : m <= j
      kept_one(n) == IF n \in Freed(b) THEN 0 ELSE sym_define[n]
  IN /\ define_stack' = SubSeq(define_stack, 1, b)
     /\ sym_define' = [n \in Names |->
          IF kept_one(n) = 0 /\ below(n) # {} THEN newest(n) ELSE kept_one(n)]

\* The file ends, or an error ends it: at any point.  Unclear: a mark left
\* on a definition of the command line is found by the next file.
EndFile ==
  /\ phase = "file"
  /\ free_defines(define_start)
  /\ phase' = "options"
  /\ meant' = options
  /\ unclear' = unclear \cup { define_stack'[j].v : j \in
                               { m \in DOMAIN define_stack' : define_stack'[m].boundary } }
  /\ kept' = [n \in Names |-> <<>>]
  /\ UNCHANGED <<define_start, files, options>>

-----------------------------------------------------------------------------

\* tcc_new: the built-ins, in some order
Init ==
  /\ define_stack \in { s \in [1 .. Cardinality(Builtins) ->
                               { [v |-> n, d |-> NoBody, boundary |-> FALSE] : n \in Builtins }] :
                        \A j, m \in DOMAIN s : j # m => s[j].v # s[m].v }
  /\ sym_define = [n \in Names |->
       IF n \in Builtins THEN CHOOSE j \in DOMAIN define_stack : define_stack[j].v = n ELSE 0]
  /\ define_start = 0 /\ phase = "options" /\ files = 0
  /\ options = [n \in Names |-> IF n \in Builtins THEN NoBody ELSE Undefined]
  /\ meant = options
  /\ kept = [n \in Names |-> <<>>]
  /\ unclear = {}

Next ==
  \/ DefineOption \/ UndefineOption \/ BeginFile \/ Define \/ Undef
  \/ PushMacro \/ PopMacro \/ EndFile

Spec == Init /\ [][Next]_vars

-----------------------------------------------------------------------------

\* A name means what the options and the directives of this file say, with
\* push_macro and pop_macro nested in any way and whatever files before it
\* did (define_find, free_defines) - unless the name is unclear.
MacrosAsMeant == \A n \in Names \ unclear : Meaning(n) = meant[n]

\* sym_define never refers to an entry that was freed, or to one of another
\* name, whatever became of the stack around it (define_undef, pop_macro).
NoDangling ==
  \A n \in Names : sym_define[n] # 0 =>
    sym_define[n] \in DOMAIN define_stack /\ define_stack[sym_define[n]].v = n
=============================================================================
