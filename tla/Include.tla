------------------------------ MODULE Include ------------------------------
(***************************************************************************)
(* Conditional directives, the stack of open files and the cache of        *)
(* guarded includes in tccpp.c: preprocess, preprocess_skip, the end of    *)
(* file in next_nomacro1, search_cached_include and preprocess_start.      *)
(*                                                                         *)
(* A file is a sequence of lines.  One step reads one line, or the end of  *)
(* a file.  The cache spares opening a file again when the macro of the    *)
(* #ifndef around its whole text is defined, or it had #pragma once.       *)
(***************************************************************************)
EXTENDS Integers, Sequences

CONSTANTS
  Files,      \* names of files
  Macros,     \* names of macros
  NoMacro,    \* ifndef_macro = 0
  Programs,   \* sets of texts, the lines of each file: those explored
  Units,      \* the files compiled one after the other in one TCCState
  MaxDepth,   \* INCLUDE_STACK_SIZE
  MaxIfs      \* IFDEF_STACK_SIZE

Conditions == {"ifdef", "ifndef"}
Ops == {"text", "blank", "define", "undef", "include", "ifdef", "ifndef",
        "elif", "else", "endif", "once", "line"}

\* edge: the input buffer ends right after this line, so reading on after
\* an included file starts with a full buffer
Line ==
  {l \in [op : Ops, arg : Files \cup Macros \cup {NoMacro}, edge : BOOLEAN] :
     l.op \in {"include", "line"} => l.arg \in Files}

Assumptions ==
  /\ NoMacro \notin Macros
  /\ Units \in Seq(Files) /\ Len(Units) > 0
  /\ MaxDepth \in Nat /\ MaxIfs \in Nat
  /\ \A texts \in Programs : \A lines \in texts : lines \in [Files -> Seq(Line)]

VARIABLES
  text,    \* the lines of each file
  unit,    \* which of Units is compiled; also pp_once
  stack,   \* the open files, the current one last
  ifs,     \* s1->ifdef_stack: 1 true so far, 0 false, +2 after #else
  defs,    \* the macros defined
  cache,   \* s1->cached_includes: guard macro and pp_once of #pragma once
  bof,     \* TOK_FLAG_BOF: no token of the current file was read
  endif,   \* TOK_FLAG_ENDIF: the last token ended a guard
  depth,   \* `a' of preprocess_skip: conditionals opened while skipping
  out,     \* the lines of text that came through, for each unit
  pc       \* "scan", "skip", or how it ended

vars == <<text, unit, stack, ifs, defs, cache, bof, endif, depth, out, pc>>

NotCached == [macro |-> NoMacro, once |-> 0]
Open(f) == [file |-> f, name |-> f, pos |-> 1, base |-> Len(ifs),
            guard |-> NoMacro, saved |-> NoMacro]

Init ==
  /\ \E texts \in Programs : text \in texts
  /\ unit = 1
  /\ ifs = << >>
  /\ stack = <<Open(Units[1])>>
  /\ defs = {}
  /\ cache = [f \in Files |-> NotCached]
  /\ bof = TRUE
  /\ endif = FALSE
  /\ depth = 0
  /\ out = [u \in DOMAIN Units |-> << >>]
  /\ pc = "scan"

-----------------------------------------------------------------------------
file == stack[Len(stack)]
AtEOF == file.pos > Len(text[file.file])
line == text[file.file][file.pos]

\* the current file, read past this line
Past(f) == [stack EXCEPT ![Len(stack)] = [f EXCEPT !.pos = @ + 1]]

\* reading the name of a directive resets tok_flags
FlagsUsed == bof' = FALSE /\ endif' = FALSE

Fail(why) ==
  /\ pc' = why
  /\ UNCHANGED <<text, unit, stack, ifs, defs, cache, bof, endif, depth, out>>

Scans(ops) == pc = "scan" /\ ~ AtEOF /\ line.op \in ops

\* the directives preprocess_skip stops at are obeyed like scanned ones
Obeys(op) ==
  /\ ~ AtEOF /\ line.op = op
  /\ pc = "scan" \/ (pc = "skip" /\ depth = 0)

Blank ==
  /\ Scans({"blank"})
  /\ stack' = Past(file)
  /\ UNCHANGED <<text, unit, ifs, defs, cache, bof, endif, depth, out, pc>>

Text ==
  /\ Scans({"text"})
  /\ stack' = Past(file)
  /\ out' = [out EXCEPT ![unit] = Append(@, <<file.file, file.pos>>)]
  /\ FlagsUsed
  /\ UNCHANGED <<text, unit, ifs, defs, cache, depth, pc>>

Define ==
  /\ Scans({"define", "undef"})
  /\ stack' = Past(file)
  /\ defs' = IF line.op = "define" THEN defs \cup {line.arg} ELSE defs \ {line.arg}
  /\ FlagsUsed
  /\ UNCHANGED <<text, unit, ifs, cache, depth, out, pc>>

\* #pragma once marks the cache entry of the file's current name
Once ==
  /\ Scans({"once"})
  /\ stack' = Past(file)
  /\ cache' = [cache EXCEPT ![file.name].once = unit]
  /\ FlagsUsed
  /\ UNCHANGED <<text, unit, ifs, defs, depth, out, pc>>

\* #line with a name changes file->filename; true_filename keeps the old one
LineDirective ==
  /\ Scans({"line"})
  /\ stack' = Past([file EXCEPT !.name = line.arg])
  /\ FlagsUsed
  /\ UNCHANGED <<text, unit, ifs, defs, cache, depth, out, pc>>

\* mistake: #pragma once counts in every unit
CacheHitEver(f) == cache[f].macro \in defs \/ cache[f].once # 0

\* "no need to parse the include because the 'ifndef macro' is defined
\*  (or had #pragma once)"
CacheHit(f) == cache[f].macro \in defs \/ cache[f].once = unit

\* is there room for another file on the stack?
Deepen == Len(stack) <= MaxDepth

IncludeTooDeep ==
  /\ Scans({"include"})
  /\ ~ Deepen
  /\ Fail("too deep")

IncludeSkipped ==
  /\ Scans({"include"})
  /\ Deepen
  /\ CacheHit(line.arg)
  /\ stack' = Past(file)
  /\ FlagsUsed
  /\ UNCHANGED <<text, unit, ifs, defs, cache, depth, out, pc>>

IncludeOpened ==
  /\ Scans({"include"})
  /\ Deepen
  /\ ~ CacheHit(line.arg)
  /\ stack' = Append(Past(file), Open(line.arg))
  /\ bof' = TRUE
  /\ endif' = FALSE
  /\ UNCHANGED <<text, unit, ifs, defs, cache, depth, out, pc>>

\* mistake: nothing is skipped
GoScanning(taken) == pc' = "scan" /\ depth' = 0

\* where reading goes on after a condition: the next line, or preprocess_skip
Go(taken) == pc' = (IF taken THEN "scan" ELSE "skip") /\ depth' = 0

IfTooMany ==
  /\ Scans(Conditions)
  /\ Len(ifs) >= MaxIfs
  /\ Fail("too many")

\* #ifndef as the first thing in a file may be its guard
If ==
  /\ Scans(Conditions)
  /\ Len(ifs) < MaxIfs
  /\ stack' = Past(IF bof /\ line.op = "ifndef"
                   THEN [file EXCEPT !.guard = line.arg] ELSE file)
  /\ LET taken == (line.arg \in defs) = (line.op = "ifdef") IN
       /\ ifs' = Append(ifs, IF taken THEN 1 ELSE 0)
       /\ Go(taken)
  /\ FlagsUsed
  /\ UNCHANGED <<text, unit, defs, cache, out>>

\* mistake: a guard may have an #else
NoGuardAtNever(level) == file

\* an #else or #elif belonging to the guard: it is none
NoGuardAt(level) ==
  IF level = file.base + 1 THEN [file EXCEPT !.guard = NoMacro] ELSE file

Top == ifs[Len(ifs)]

Else ==
  /\ Obeys("else")
  /\ IF ifs = << >> \/ Top >= 2
     THEN Fail("error")
     ELSE /\ ifs' = [ifs EXCEPT ![Len(ifs)] = IF @ = 1 THEN 2 ELSE 3]
          /\ stack' = Past(NoGuardAt(Len(ifs)))
          /\ Go(Top = 0)
          /\ FlagsUsed
          /\ UNCHANGED <<text, unit, defs, cache, out>>

\* after a branch that was taken the rest is skipped and Top stays 1
Elif ==
  /\ Obeys("elif")
  /\ IF ifs = << >> \/ Top >= 2
     THEN Fail("error")
     ELSE LET taken == Top = 0 /\ line.arg \in defs IN
          /\ ifs' = [ifs EXCEPT ![Len(ifs)] = IF taken THEN 1 ELSE @]
          /\ stack' = Past(NoGuardAt(Len(ifs)))
          /\ Go(taken)
          /\ FlagsUsed
          /\ UNCHANGED <<text, unit, defs, cache, out>>

\* mistake: the #if may be in the including file
UnmatchedAnywhere == ifs = << >>

\* "#endif without matching #if" in this file
Unmatched == Len(ifs) <= file.base

\* the #endif of the guard: remember it until a token follows
Endif ==
  /\ Obeys("endif")
  /\ IF Unmatched
     THEN Fail("error")
     ELSE LET level == Len(ifs) - 1
              guards == file.guard # NoMacro /\ level = file.base
          IN
          /\ ifs' = SubSeq(ifs, 1, level)
          /\ stack' = Past(IF guards
                           THEN [file EXCEPT !.saved = file.guard, !.guard = NoMacro]
                           ELSE file)
          /\ Go(TRUE)
          /\ bof' = FALSE
          /\ endif' = guards
          /\ UNCHANGED <<text, unit, defs, cache, out>>

\* preprocess_skip passes over everything else, counting the conditionals
Skip ==
  /\ pc = "skip"
  /\ ~ AtEOF
  /\ depth = 0 => line.op \notin {"else", "elif", "endif"}
  /\ stack' = Past(file)
  /\ depth' = CASE line.op \in Conditions -> depth + 1
                [] line.op = "endif" -> depth - 1
                [] OTHER -> depth
  /\ UNCHANGED <<text, unit, ifs, defs, cache, bof, endif, out, pc>>

-----------------------------------------------------------------------------
\* "expect #endif" in preprocess_skip, "missing #endif" in next_nomacro1
EOFInConditional ==
  /\ AtEOF
  /\ pc = "skip" \/ (pc = "scan" /\ Len(ifs) # file.base)
  /\ Fail("error")

\* an included file ends: note its guard, go on in the file before it.
\* tok_flags is not reset; it is set to "beginning of file" when the
\* buffer of the including file is at its start again.
Pop ==
  /\ pc = "scan" /\ AtEOF
  /\ Len(ifs) = file.base
  /\ Len(stack) > 1
  /\ cache' = IF endif THEN [cache EXCEPT ![file.name].macro = file.saved] ELSE cache
  /\ endif' = FALSE
  /\ stack' = SubSeq(stack, 1, Len(stack) - 1)
  /\ LET below == stack[Len(stack) - 1]
     IN bof' = (bof \/ text[below.file][below.pos - 1].edge)
  /\ UNCHANGED <<text, unit, ifs, defs, depth, out, pc>>

\* the unit ends; preprocess_start for the next one: the macros go
\* (free_defines), the cache stays, pp_once counts on
NextUnit ==
  /\ pc = "scan" /\ AtEOF
  /\ Len(ifs) = file.base
  /\ Len(stack) = 1
  /\ IF unit = Len(Units)
     THEN Fail("done")
     ELSE /\ unit' = unit + 1
          /\ stack' = <<[Open(Units[unit + 1]) EXCEPT !.base = 0]>>
          /\ ifs' = << >>
          /\ defs' = {}
          /\ bof' = TRUE
          /\ endif' = FALSE
          /\ UNCHANGED <<text, cache, depth, out, pc>>

Next ==
  \/ Blank \/ Text \/ Define \/ Once \/ LineDirective
  \/ IncludeTooDeep \/ IncludeSkipped \/ IncludeOpened
  \/ IfTooMany \/ If \/ Else \/ Elif \/ Endif \/ Skip
  \/ EOFInConditional \/ Pop \/ NextUnit

Spec == Init /\ [][Next]_vars

-----------------------------------------------------------------------------
\* Text is read only where every enclosing conditional, of this file and
\* of the files that include it, has its current branch true
\* (preprocess, preprocess_skip).
LiveText ==
  pc = "scan" => \A i \in DOMAIN ifs : ifs[i] \in {1, 3}

\* An included file never closes a conditional of a file that includes it
\* ("#endif without matching #if"), and neither stack outgrows its array,
\* however includes and conditionals are nested (INCLUDE_STACK_SIZE,
\* IFDEF_STACK_SIZE).
ConditionalsKept ==
  /\ Len(stack) <= MaxDepth + 1 /\ Len(ifs) <= MaxIfs
  /\ pc \in {"scan", "skip"} => \A j \in DOMAIN stack : stack[j].base <= Len(ifs)
=============================================================================
