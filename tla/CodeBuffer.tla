----------------------------- MODULE CodeBuffer -----------------------------
(***************************************************************************)
(* The code section of the function that is being compiled, as g, o, oad,  *)
(* gjmp and gsym see it.  The parts of the compiler that emit code are     *)
(* operators from one state of the compiler to the next, a record c with   *)
(*   code    what was emitted; an instruction's address is its index       *)
(*   dead    bit 0x20000000 of nocode_wanted: a jump came before           *)
(*   mute    the count in nocode_wanted: operands that are not evaluated   *)
(*   t       the value the last C function returned, an address or chain   *)
(* A chain links its jumps through their target field; 0 ends it.          *)
(***************************************************************************)
EXTENDS Integers, Sequences

Suppressed(c) == c.dead \/ c.mute > 0
Mute(c) == [c EXCEPT !.mute = @ + 1]
Unmute(c) == [c EXCEPT !.mute = @ - 1]

Ind(c) == Len(c.code) + 1

Emit(i, c) == IF Suppressed(c) THEN c ELSE [c EXCEPT !.code = Append(@, i)]

\* oad: emits a jump that becomes the head of the chain t
Oad(op, when, t, c) ==
  IF Suppressed(c) THEN [c EXCEPT !.t = t]
  ELSE [c EXCEPT !.code = Append(@, [op |-> op, when |-> when, to |-> t]), !.t = Ind(c)]

Gjmp(t, c) == Oad("jmp", TRUE, t, c)
GjmpAddr(a, c) == Gjmp(a, c)

RECURSIVE GsymAddr(_, _, _)

\* mistake: only the first jump of a chain is patched
GsymAddrHead(t, a, c) == IF t = 0 THEN c ELSE [c EXCEPT !.code[t].to = a]

GsymAddr(t, a, c) ==
  IF t = 0 THEN c ELSE GsymAddr(c.code[t].to, a, [c EXCEPT !.code[t].to = a])

Gsym(t, c) == GsymAddr(t, Ind(c), c)

RECURSIVE LastOf(_, _)
LastOf(t, c) == IF c.code[t].to = 0 THEN t ELSE LastOf(c.code[t].to, c)

\* the chain t behind the chain u, which is not empty
Joined(u, t, c) == [c EXCEPT !.code[LastOf(u, c)].to = t, !.t = u]

=============================================================================
