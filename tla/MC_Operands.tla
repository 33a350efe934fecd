---------------------------- MODULE MC_Operands ----------------------------
(***************************************************************************)
(* The code Expressions makes for a function that returns an expression,   *)
(* executed on registers, flags and a frame: from call to call, with every *)
(* value the calls may return.  OperandsRef says what it should compute.   *)
(***************************************************************************)
EXTENDS Expressions

CONSTANTS
  Functions,  \* what is compiled: sets of [e |-> expression, t |-> type returned]
  Frames,     \* values of the variables at the start
  Answers     \* what calls return

VARIABLES
  function,
  frame,    \* the variables at the start
  text,     \* the code
  cpu,      \* [pc, reg, flags, mem]
  calls,    \* <<function, arguments>> of the calls so far
  answers   \* what they returned

vars == <<function, frame, text, cpu, calls, answers>>

C == INSTANCE OperandsRef

-----------------------------------------------------------------------------
(* The processor.  An operation on 32 bits clears the upper half.          *)

AllRegs == AnyReg \cup {"r8", "r9", "r10", "r11"}
Junk == 2 ^ LongBits - 2   \* in registers nobody has set, and above a variable

Put(r, n, m) == [m EXCEPT !.reg[r] = n]
Operand(by, m) == IF by.kind = "imm" THEN by.n ELSE m.reg[by.n]
Address(at, m) == IF at.base = "frame" THEN at.n ELSE m.reg[at.n]

\* movsbl, movl, movq
Loaded(n, t) == CASE t = "char" -> Zx(Sx(n, CharBits), IntBits)
                  [] t \in {"int", "uint"} -> Zx(n, IntBits) [] OTHER -> n

\* the other bits of the cell stay
StoreIn(cell, n, bits) == cell - Zx(cell, bits) + Zx(n, bits)

\* rdx:rax divided: a quotient that does not fit is a fault
Divided(i, m) ==
  LET high == Zx(m.reg["rdx"], i.bits)
      low == Zx(m.reg["rax"], i.bits)
      x == IF i.signed THEN Signed(high, i.bits) * 2 ^ i.bits + low ELSE high * 2 ^ i.bits + low
      y == IF i.signed THEN Signed(m.reg[i.by], i.bits) ELSE Zx(m.reg[i.by], i.bits)
      q == Quotient(x, y)
  IN IF y = 0 \/ (IF i.signed THEN Signed(q, i.bits) ELSE Zx(q, i.bits)) # q
     THEN [m EXCEPT !.pc = 0]
     ELSE Put("rdx", Zx(x - q * y, i.bits), Put("rax", Zx(q, i.bits), m))

Execute(i, m) ==
  LET n == [m EXCEPT !.pc = @ + 1] IN
  CASE i.op = "mov" -> Put(i.to, i.n, n)
    [] i.op = "copy" -> Put(i.to, m.reg[i.from], n)
    [] i.op = "load" -> Put(i.to, Loaded(m.mem[Address(i.at, m)], i.t), n)
    [] i.op = "store" -> [n EXCEPT !.mem[Address(i.at, m)] = StoreIn(@, m.reg[i.from], i.bits)]
    [] i.op = "alu" -> Put(i.to, Alu(i.f, m.reg[i.to], Operand(i.by, m), i.bits), n)
    [] i.op = "movslq" -> Put(i.to, Sx(m.reg[i.to], IntBits), n)
    [] i.op = "movsbl" -> Put("rax", Zx(Sx(m.reg["rax"], CharBits), IntBits), n)
    [] i.op = "cmp" -> [n EXCEPT !.flags = [a |-> m.reg[i.l], b |-> Operand(i.by, m), bits |-> i.bits]]
    [] i.op = "setcc" -> Put(i.to, IF Holds(i.when, m.flags.a, m.flags.b, m.flags.bits) THEN 1 ELSE 0, n)
    [] i.op = "jmp" -> [m EXCEPT !.pc = i.to]
    [] i.op = "jcc" ->
         IF Holds(i.when, m.flags.a, m.flags.b, m.flags.bits) THEN [m EXCEPT !.pc = i.to] ELSE n
    [] i.op = "zero" -> Put("rdx", 0, n)
    [] i.op = "sign" -> Put("rdx", Zx(IF Signed(m.reg["rax"], i.bits) < 0 THEN -1 ELSE 0, i.bits), n)
    [] i.op = "div" -> Divided(i, n)

Stops(p, m) == m.pc \notin DOMAIN p \/ p[m.pc].op \in {"call", "ret"}

RECURSIVE RunTo(_, _)
RunTo(p, m) == IF Stops(p, m) THEN m ELSE RunTo(p, Execute(p[m.pc], m))

-----------------------------------------------------------------------------

\* a variable is in the low bits of its address
Spread(n, t) == StoreIn(Junk, n, Bits(t))
FrameSize == Len(Variables) + 12   \* bound: addresses in the frame

Init ==
  /\ \E F \in Functions : function \in F
  /\ frame \in Frames
  /\ text = <<>> /\ calls = <<>> /\ answers = <<>>
  /\ cpu = [pc |-> 1, reg |-> [r \in AllRegs |-> Junk], flags |-> [a |-> 0, b |-> 0, bits |-> 1],
            mem |-> [n \in 1 .. FrameSize |->
                       IF n <= Len(Variables) THEN Spread(frame[n], Variables[n]) ELSE Junk]]

Build ==
  /\ text = <<>>
  /\ \E p \in {Compile(function)} :
       /\ text' = p
       /\ cpu' = RunTo(p, cpu)
  /\ UNCHANGED <<function, frame, calls, answers>>

AtCall == text # <<>> /\ cpu.pc \in DOMAIN text /\ text[cpu.pc].op = "call"
AtReturn == text # <<>> /\ cpu.pc \in DOMAIN text /\ text[cpu.pc].op = "ret"

\* the callee finds its arguments in rcx, rdx, r8 and r9
Argument(k, t) ==
  LET n == cpu.reg[<<"rcx", "rdx", "r8", "r9">>[k]]
  IN IF Unsigned(t) THEN Zx(n, Bits(t)) ELSE Signed(n, Bits(t))

\* it may change every register; above the value it returns there is junk
Returned(a, t) == [r \in AllRegs |-> IF r = "rax" THEN Spread(a, t) ELSE Junk]

Proceed ==
  /\ AtCall
  /\ \E a \in Answers :
       /\ cpu' = RunTo(text, [cpu EXCEPT !.pc = @ + 1, !.reg = Returned(a, text[cpu.pc].t)])
       /\ answers' = Append(answers, a)
  /\ calls' = Append(calls, <<text[cpu.pc].id,
                              [k \in DOMAIN text[cpu.pc].args |-> Argument(k, text[cpu.pc].args[k])]>>)
  /\ UNCHANGED <<function, frame, text>>

Next == Build \/ Proceed

Spec == Init /\ [][Next]_vars

-----------------------------------------------------------------------------

\* A function returns what the expression means in C, has made the calls it
\* means in their order and with their arguments, and leaves the variables as
\* it means, and whatever lies behind them: no value was lost in a register
\* or in the flags, none was loaded from the wrong place or at the wrong width
\* (gv, get_reg, save_reg, vsetc, gen_op, gen_cast, vstore).
ValuesAsMeant ==
  text # <<>> /\ ~ AtCall =>
    \E m \in {C!Run(function.e, function.t, frame, answers)} :
      m.ok => /\ AtReturn
              /\ Zx(cpu.reg["rax"], Bits(function.t)) = Zx(m.v, Bits(function.t))
              /\ calls = m.calls
              /\ \A n \in 1 .. Len(Variables) : cpu.mem[n] = Spread(m.mem[n], Variables[n])

=============================================================================
