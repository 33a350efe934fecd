------------------------------ MODULE Operands ------------------------------
(***************************************************************************)
(* The value stack of tccgen.c and the integer code x86_64-gen.c makes     *)
(* from it: what is constant, in memory, in a register, in the processor   *)
(* flags or in a chain of jumps; which register is taken, and what is      *)
(* saved to the frame for it.                                              *)
(*                                                                         *)
(* As in CodeFlow, each C function is an operator on the state c of the    *)
(* compiler, here with                                                     *)
(*   vs    vstack, vtop last; an entry has                                 *)
(*           t     its type                                                *)
(*           r     "const", "local", "llocal", "cmp", "jmp", "jmpi", "sym"  *)
(*                 or a register                                           *)
(*           n     the constant, the address, the relation or the chain    *)
(*           lv    VT_LVAL: what r and n say is the place of the value     *)
(*           w     VT_LVAL_BYTE ("char"), or "full"                        *)
(*           must  VT_MUSTCAST                                             *)
(*   r     the register the last C function returned                       *)
(*   loc   the last address used in the frame; every address holds 8 bytes *)
(***************************************************************************)
EXTENDS CodeBuffer, FiniteSetsExt, SequencesExt

CONSTANTS
  CharBits, IntBits, LongBits,  \* widths of char, int and long long
  Variables                     \* types of the variables in the frame

Assumptions ==
  /\ CharBits \in 1 .. IntBits /\ IntBits \in 1 .. LongBits
  /\ {IntBits, LongBits} \subseteq {2, 4, 8}

-----------------------------------------------------------------------------
(* Types and integers.  A constant or the contents of a register is the    *)
(* 64-bit pattern, as a number from 0.                                     *)

Signed(n, bits) == ((n + 2 ^ (bits - 1)) % 2 ^ bits) - 2 ^ (bits - 1)
Zx(n, bits) == n % 2 ^ bits
Sx(n, bits) == Signed(n, bits) % 2 ^ LongBits

Bits(t) == CASE t = "char" -> CharBits [] t \in {"int", "uint"} -> IntBits [] OTHER -> LongBits
Wide(t) == Bits(t) = LongBits
Unsigned(t) == t \in {"uint", "ullong"}
SignedOf(t) == CASE t = "uint" -> "int" [] t = "ullong" -> "llong" [] OTHER -> t
Pointers == [pchar |-> "char", pint |-> "int", pllong |-> "llong"]
IsPointer(t) == t \in DOMAIN Pointers

\* the type in which an operation is done
Common(t1, t2) ==
  CASE "ullong" \in {t1, t2} -> "ullong"
    [] "ullong" \notin {t1, t2} /\ "llong" \in {t1, t2} -> "llong"
    [] {t1, t2} \cap {"llong", "ullong"} = {} /\ "uint" \in {t1, t2} -> "uint"
    [] OTHER -> "int"

Shifts == {"shl", "shr", "sar"}
Divisions == {"/", "%", "udiv", "umod"}
Relations == {"==", "!=", "<", ">=", "<=", ">", "ult", "uge", "ule", "ugt"}
OperationType(op, t1, t2) == IF op \in Shifts THEN Common(t1, "int") ELSE Common(t1, t2)

UnsignedOp(op) ==
  CASE op = "sar" -> "shr" [] op = "/" -> "udiv" [] op = "%" -> "umod" [] op = "<" -> "ult"
    [] op = ">" -> "ugt" [] op = "<=" -> "ule" [] op = ">=" -> "uge" [] OTHER -> op

Opposite(rel) ==
  CASE rel = "==" -> "!=" [] rel = "!=" -> "==" [] rel = "<" -> ">=" [] rel = ">=" -> "<"
    [] rel = "<=" -> ">" [] rel = ">" -> "<=" [] rel = "ult" -> "uge" [] rel = "uge" -> "ult"
    [] rel = "ule" -> "ugt" [] rel = "ugt" -> "ule"

\* does a rel b, of the bits compared?
Holds(rel, a, b, bits) ==
  LET x == IF rel \in {"<", ">=", "<=", ">"} THEN Signed(a, bits) ELSE Zx(a, bits)
      y == IF rel \in {"<", ">=", "<=", ">"} THEN Signed(b, bits) ELSE Zx(b, bits)
  IN CASE rel = "==" -> x = y [] rel = "!=" -> x # y [] rel \in {"<", "ult"} -> x < y
       [] rel \in {">=", "uge"} -> x >= y [] rel \in {"<=", "ule"} -> x <= y [] OTHER -> x > y

Abs(x) == IF x < 0 THEN -x ELSE x
Quotient(x, y) == IF (x < 0) = (y < 0) THEN Abs(x) \div Abs(y) ELSE -(Abs(x) \div Abs(y))

Xor(a, b, bits) ==
  MapThenSumSet(LAMBDA i : IF (a \div 2 ^ i + b \div 2 ^ i) % 2 = 1 THEN 2 ^ i ELSE 0, 0 .. bits - 1)
And(a, b, bits) == (Zx(a, bits) + Zx(b, bits) - Xor(a, b, bits)) \div 2

\* the operations that do not divide, on patterns
Alu(op, a, b, bits) ==
  Zx(CASE op = "+" -> a + b [] op = "-" -> a - b [] op = "*" -> a * b
       [] op = "&" -> And(a, b, bits) [] op = "^" -> Xor(a, b, bits)
       [] op = "|" -> Xor(a, b, bits) + And(a, b, bits)
       [] op = "shl" -> a * 2 ^ (b % bits)
       [] op = "shr" -> Zx(a, bits) \div 2 ^ (b % bits)
       [] op = "sar" -> Signed(a, bits) \div 2 ^ (b % bits), bits)

-----------------------------------------------------------------------------
(* The value stack: vsetc, vpushv, vswap, vpop.                            *)

Registers == <<"rax", "rcx", "rdx">>
AnyReg == {"rax", "rcx", "rdx"}
InReg(v) == v.r \in AnyReg
InFlags(v) == v.r \in {"cmp", "jmp", "jmpi"}

LvalueType(t) == IF t = "char" THEN "char" ELSE "full"
Value(t, r, n) == [t |-> t, r |-> r, n |-> n, lv |-> FALSE, w |-> "full", must |-> FALSE]
Lvalue(t, r, n) == [Value(t, r, n) EXCEPT !.lv = TRUE, !.w = LvalueType(t)]
IntConst(n) == Value("int", "const", n % 2 ^ LongBits)
IsConst(v) == v.r = "const" /\ ~ v.lv

Top(c) == c.vs[Len(c.vs)]
Below(c) == c.vs[Len(c.vs) - 1]
SetTop(v, c) == [c EXCEPT !.vs[Len(c.vs)] = v]
SetBelow(v, c) == [c EXCEPT !.vs[Len(c.vs) - 1] = v]
Retype(t, c) == SetTop([Top(c) EXCEPT !.t = t], c)
Drop(c) == [c EXCEPT !.vs = Front(@)]

RECURSIVE Gv(_, _)

\* mistake: only a chain of jumps is loaded, flags stay
FlushedChain(c) ==
  IF c.vs = <<>> \/ Suppressed(c) THEN c
  ELSE IF Top(c).r \in {"jmp", "jmpi"} THEN Gv(AnyReg, c) ELSE c

\* `cannot let cpu flags if other instruction are generated'
Flushed(c) ==
  IF c.vs = <<>> \/ Suppressed(c) THEN c
  ELSE IF InFlags(Top(c)) THEN Gv(AnyReg, c) ELSE c

Vpushv(v, c) == [c EXCEPT !.vs = Append(@, v)]
Vdup(c) == Vpushv(Top(c), c)
Vsetc(v, c) == Vpushv(v, Flushed(c))
Exchanged(c) == SetTop(Below(c), SetBelow(Top(c), c))
Vswap(c) == Exchanged(Flushed(c))
Vrotb3(c) ==
  [c EXCEPT !.vs = SubSeq(@, 1, Len(@) - 3)
                     \o <<@[Len(@) - 1], @[Len(@)], @[Len(@) - 2]>>]
Vpop(c) == Drop(IF Top(c).r \in {"jmp", "jmpi"} THEN Gsym(Top(c).n, c) ELSE c)

-----------------------------------------------------------------------------
(* Registers: save_reg, save_regs, get_reg, load, store.                   *)

Cell(n) == [base |-> "frame", n |-> n]
Place(v) == IF v.r = "local" THEN Cell(v.n) ELSE [base |-> "reg", n |-> v.r]

Holders(r, c) == { p \in DOMAIN c.vs : c.vs[p].r = r }

\* an entry whose register was saved at l
Spilled(v, l) == IF v.lv THEN [v EXCEPT !.r = "llocal", !.n = l] ELSE Lvalue(v.t, "local", l)

SaveReg(r, c) ==
  LET store(d) == Emit([op |-> "store", bits |-> LongBits, from |-> r, at |-> Cell(d.loc)], d)
  IN IF r \notin AnyReg \/ Suppressed(c) \/ Holders(r, c) = {} THEN c
     ELSE store([c EXCEPT !.loc = @ + 1,
                          !.vs = [p \in DOMAIN @ |-> IF @[p].r = r THEN Spilled(@[p], c.loc + 1) ELSE @[p]]])

SaveRegs(n, c) ==
  FoldLeft(LAMBDA d, p : SaveReg(d.vs[p].r, d), c, [p \in 1 .. Len(c.vs) - n |-> p])

\* the first free register, or the one of the entry nearest to the bottom
GetReg(class, c) ==
  LET free == { i \in 1 .. 3 : Registers[i] \in class /\ (Suppressed(c) \/ Holders(Registers[i], c) = {}) }
      first == c.vs[Min({ p \in DOMAIN c.vs : c.vs[p].r \in class })].r
  IN IF free # {} THEN [c EXCEPT !.r = Registers[Min(free)]]
     ELSE [SaveReg(first, c) EXCEPT !.r = first]

Mov(r, n) == [op |-> "mov", to |-> r, n |-> n]
Read(r, at, t) == [op |-> "load", to |-> r, at |-> at, t |-> t]

\* the value of a chain of jumps: `mov, jmp over, mov', at the second of
\* which the chain lands
LoadJumps(r, v, c) ==
  LET t == IF v.r = "jmpi" THEN 1 ELSE 0
      over(d) == Emit([op |-> "jmp", when |-> TRUE, to |-> Ind(d) + 2], d)
  IN Emit(Mov(r, 1 - t), Gsym(v.n, over(Emit(Mov(r, t), c))))

Load(r, v, c) ==
  CASE v.lv /\ v.r = "llocal" ->
         Emit(Read(r, [base |-> "reg", n |-> r], v.t), Emit(Read(r, Cell(v.n), "pchar"), c))
    [] v.lv /\ v.r # "llocal" -> Emit(Read(r, Place(v), v.t), c)
    [] v.r = "const" -> Emit(Mov(r, IF Wide(v.t) THEN v.n ELSE Zx(v.n, IntBits)), c)
    [] v.r = "cmp" -> Emit([op |-> "setcc", to |-> r, when |-> v.n], c)
    [] v.r \in {"jmp", "jmpi"} -> LoadJumps(r, v, c)
    [] ~ v.lv /\ InReg(v) -> IF v.r = r THEN c ELSE Emit([op |-> "copy", to |-> r, from |-> v.r], c)

Store(r, v, c) == Emit([op |-> "store", bits |-> Bits(v.t), from |-> r, at |-> Place(v)], c)

MoveReg(r, s, c) ==
  IF r = s THEN c ELSE Emit([op |-> "copy", to |-> r, from |-> s], SaveReg(r, c))

\* gv: vtop into a register of the class
Gv(class, c) ==
  LET access(v) == [v EXCEPT !.t = IF v.lv /\ v.w = "char" THEN "char" ELSE @]
      load(d) == Load(d.r, access(Top(d)), d)
      got(d) == [SetTop(Value(Top(d).t, d.r, 0), d) EXCEPT !.r = d.r]
  IN IF Top(c).r \in class /\ ~ Top(c).lv THEN got([c EXCEPT !.r = Top(c).r])
     ELSE got(load(GetReg(class, c)))

\* both operands; the second can have taken the register of the first
Gv2(class1, class2, c) ==
  LET again1(d) == IF InReg(Below(d)) THEN d ELSE Vswap(Gv(class1, Vswap(d)))
      again2(d) == IF InReg(Top(d)) THEN d ELSE Gv(class2, d)
  IN IF InFlags(Top(c)) THEN again2(Vswap(Gv(class1, Vswap(Gv(class2, c)))))
     ELSE again1(Gv(class2, Vswap(Gv(class1, Vswap(c)))))

\* gv_dup: the value of vtop twice, in two registers
GvDup(c) ==
  LET copy(r, d) == SetTop([Top(d) EXCEPT !.r = d.r],
                           Vdup(Load(d.r, Value("int", r, 0), d)))
      gotten(d) == copy(d.r, GetReg(AnyReg, d))
  IN gotten(Gv(AnyReg, c))

=============================================================================
