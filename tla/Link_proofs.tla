----------------------------- MODULE Link_proofs -----------------------------
(* Proofs about Link: what PEImport_proofs shows of the binding of imports *)
(* holds of the linker made of four parts, and the image that PELayout     *)
(* makes of the sections is sound.                                         *)
EXTENDS Link, TLAPS

PP == INSTANCE PEImport_proofs

-----------------------------------------------------------------------------
(* P and PP are two instances of one module: their definitions agree.      *)

LEMMA SameLookup ==
  /\ \A s : P!FindImport(s) = PP!FindImport(s)
  /\ \A s : P!TypeOf(s) = PP!TypeOf(s)
  /\ \A e : P!AddImport(e) = PP!AddImport(e)
BY
  DEF P!FindImport, PP!FindImport, P!Tries, PP!Tries, P!Finds, PP!Finds,
      P!FirstTry, PP!FirstTry, P!SecondTry, PP!SecondTry, P!ExportName,
      PP!ExportName, P!ExportNamed, PP!ExportNamed, P!Starts, PP!Starts,
      P!Mingw2, PP!Mingw2, P!Mingw3, PP!Mingw3, P!TypeOf, PP!TypeOf,
      P!IsAFunc, PP!IsAFunc, P!RInfo, PP!RInfo, P!Info32, PP!Info32, P!PC32,
      PP!PC32, P!AddImport, PP!AddImport

LEMMA SameAssumptions == P!Assumptions => PP!Assumptions
BY DEF P!Assumptions, PP!Assumptions, P!Symbol, PP!Symbol, P!Types, PP!Types

LEMMA SameInit == P!Init => PP!Init
BY DEF P!Init, PP!Init

LEMMA SameNext == P!Next => PP!Next
<1>1. \A d, x, ord : P!Putimport(d, x, ord) => PP!Putimport(d, x, ord)
  BY
    DEF P!Putimport, PP!Putimport, P!ExportNamed, PP!ExportNamed,
        P!Replaceable, PP!Replaceable, P!linkVars, PP!linkVars
<1>2. \A r : P!Refer(r) => PP!Refer(r)
  BY DEF P!Refer, PP!Refer, P!Unbound, PP!Unbound, P!PC32, PP!PC32, P!linkVars, PP!linkVars
<1>3. P!StartCheck => PP!StartCheck
  BY DEF P!StartCheck, PP!StartCheck, P!linkVars, PP!linkVars
<1>4. P!NewThunk => PP!NewThunk
  BY SameLookup
    DEF P!NewThunk, PP!NewThunk, P!Visit, PP!Visit, P!InText, PP!InText,
        P!Unbound, PP!Unbound
<1>5. P!SharedThunk => PP!SharedThunk
  BY SameLookup
    DEF P!SharedThunk, PP!SharedThunk, P!Visit, PP!Visit, P!InText,
        PP!InText, P!linkVars, PP!linkVars
<1>6. P!Pointer => PP!Pointer
  BY SameLookup
    DEF P!Pointer, PP!Pointer, P!Visit, PP!Visit
<1>7. P!NotFound => PP!NotFound
  BY SameLookup
    DEF P!NotFound, PP!NotFound, P!Visit, PP!Visit, P!linkVars, PP!linkVars
<1>8. P!EndCheck => PP!EndCheck
  BY DEF P!EndCheck, PP!EndCheck, P!linkVars, PP!linkVars
<1>9. P!BuildImports => PP!BuildImports
  BY
    DEF P!BuildImports, PP!BuildImports, P!Slots, PP!Slots, P!Slot, PP!Slot,
        P!Import, PP!Import, P!linkVars, PP!linkVars
<1>10. P!RelocateSyms => PP!RelocateSyms
  BY
    DEF P!RelocateSyms, PP!RelocateSyms, P!Unbound, PP!Unbound, P!linkVars,
        PP!linkVars
<1> QED
  BY <1>1, <1>2, <1>3, <1>4, <1>5, <1>6, <1>7, <1>8, <1>9, <1>10
  DEF P!Next, PP!Next, P!Linking, PP!Linking

LEMMA SameProperties ==
  /\ PP!SlotsOwned => P!SlotsOwned
  /\ PP!ExportOwner => P!ExportOwner
  /\ PP!RefsReachExport => P!RefsReachExport
  /\ PP!OnlyMissingFail => P!OnlyMissingFail
<1>1. PP!SlotsOwned => P!SlotsOwned
  BY
    DEF P!SlotsOwned, PP!SlotsOwned, P!Slots, PP!Slots, P!Slot, PP!Slot,
        P!Import, PP!Import
<1>2. PP!ExportOwner => P!ExportOwner
  BY DEF PP!ExportOwner, P!ExportOwner
<1>3. PP!RefsReachExport => P!RefsReachExport
  BY SameLookup
    DEF P!RefsReachExport, PP!RefsReachExport, P!Reaches, PP!Reaches,
        P!Holds, PP!Holds, P!Slots, PP!Slots, P!Slot, PP!Slot, P!Import,
        PP!Import, P!InText, PP!InText, P!Unbound, PP!Unbound
<1>4. PP!OnlyMissingFail => P!OnlyMissingFail
  BY SameLookup DEF P!OnlyMissingFail, PP!OnlyMissingFail, P!Contested, PP!Contested
<1> QED
  BY <1>1, <1>2, <1>3, <1>4

-----------------------------------------------------------------------------
(* While imports are bound the state is one of PEImport's; the other parts *)
(* never become that part.                                                 *)
ImportInv == part = "import" => PP!IInv

LEMMA ImportAlways == PartSpec => []ImportInv
<1>1. PartInit => ImportInv
  BY ImportAssumption, SameAssumptions, SameInit, PP!InitInv DEF PartInit, ImportInv
<1>2. ImportInv /\ [PartNext]_allVars => ImportInv'
  <2> SUFFICES ASSUME ImportInv, [PartNext]_allVars PROVE ImportInv'
    OBVIOUS
  <2>1. PP!Assumptions
    BY ImportAssumption, SameAssumptions
  <2>2. CASE Importing
    <3>1. part = "import" /\ part' = part /\ PP!Next
      BY <2>2, SameNext DEF Importing
    <3> QED
      BY <2>1, <3>1, PP!NextInv DEF ImportInv
  <2>3. CASE Loading \/ Laying \/ Driving
    BY <2>3 DEF Loading, Laying, Driving, ImportInv
  <2>4. CASE UNCHANGED allVars
    <3>1. UNCHANGED <<part, PP!vars>>
      BY <2>4 DEF allVars, importOnly, PP!vars, PP!linkVars
    <3> QED
      BY <2>1, <3>1, PP!NextInv DEF ImportInv
  <2> QED
    BY <2>2, <2>3, <2>4 DEF PartNext
<1> QED
  BY <1>1, <1>2, PTL DEF PartSpec

(* ImportsReach: in a program that links, every reference to an export of  *)
(* a DLL reaches that export, by its own slot or a thunk through it, and   *)
(* only a weak one is null instead (pe_check_symbols, pe_build_imports).   *)
THEOREM ReferencesReachExports == PartSpec => []ImportsReach
<1>1. ImportInv => ImportsReach
  BY ImportAssumption, SameAssumptions, SameProperties, PP!InvRefsReachExport
  DEF ImportInv, ImportsReach
<1> QED
  BY <1>1, ImportAlways, PTL

(* ImportSlots: pe_build_imports finds a symbol for every slot, a          *)
(* different one for each, and each export in one slot only.               *)
THEOREM EachSlotOwned == PartSpec => []ImportSlots
<1>1. ImportInv => ImportSlots
  BY ImportAssumption, SameAssumptions, SameProperties, PP!InvSlotsOwned
  DEF ImportInv, ImportSlots
<1> QED
  BY <1>1, ImportAlways, PTL

(* ImportOwner: a name comes from the first DLL that listed it with an     *)
(* ordinal, else from the last that listed it (pe_putimport).              *)
THEOREM NamesHaveTheirOwner == PartSpec => []ImportOwner
<1>1. ImportInv => ImportOwner
  BY SameProperties, PP!InvExportOwner DEF ImportInv, ImportOwner
<1> QED
  BY <1>1, ImportAlways, PTL

(* ImportsFailRightly: with any code in .text, a link fails only for a     *)
(* symbol no DLL exports or whose export is contested.  Without, the first *)
(* thunk has offset 0, which pe_check_symbols takes for none.              *)
THEOREM OnlyTheMissingFail ==
  ASSUME TextSize # 0
  PROVE  PartSpec => []ImportsFailRightly
<1>1. ImportInv => ImportsFailRightly
  BY SameProperties, PP!InvOnlyMissingFail DEF ImportInv, ImportsFailRightly
<1> QED
  BY <1>1, ImportAlways, PTL

-----------------------------------------------------------------------------
(* The arithmetic of alignment: quotients, remainders and multiples.       *)

LEMMA DivIs ==
  ASSUME NEW x \in Nat, NEW a \in Nat \ {0}
  PROVE  \E q \in Nat, m \in 0 .. a - 1 : q = x \div a /\ m = x % a /\ x = a * q + m
<1> PICK q, m : q = x \div a /\ m = x % a
  OBVIOUS
<1>1. q \in Int /\ m \in 0 .. a - 1 /\ x = a * q + m
  OBVIOUS
<1>2. q <= -1 => a * q <= a * (-1)
  BY <1>1
<1>3. q \in Nat
  BY <1>1, <1>2
<1> QED
  BY <1>1, <1>3

\* a multiple of a has no remainder, a smaller number is its own
LEMMA ModIs ==
  ASSUME NEW a \in Nat \ {0}, NEW q \in Nat, NEW x \in 0 .. a - 1
  PROVE  (q * a) % a = 0 /\ x % a = x
<1>1. ASSUME NEW d \in Int, d * a \in -a + 1 .. a - 1 PROVE d = 0
  <2>1. d >= 1 => d * a >= 1 * a
    OBVIOUS
  <2>2. d <= -1 => d * a <= -1 * a
    OBVIOUS
  <2> QED
    BY <1>1, <2>1, <2>2
<1>2. x % a = x
  <2>1. PICK p \in Nat, m \in 0 .. a - 1 : p = x \div a /\ m = x % a /\ x = a * p + m
    BY DivIs
  <2>2. p * a = x - m /\ x - m \in -a + 1 .. a - 1
    BY <2>1
  <2>3. p = 0
    BY <1>1, <2>2
  <2> QED
    BY <2>1, <2>3
<1>3. (q * a) % a = 0
  <2> PICK z : z = q * a
    OBVIOUS
  <2>1. z \in Nat
    OBVIOUS
  <2>2. PICK p \in Nat, m \in 0 .. a - 1 : p = z \div a /\ m = z % a /\ z = a * p + m
    BY <2>1, DivIs
  <2>3. (q - p) * a = m
    <3>1. (q - p) * a = q * a - p * a /\ a * p = p * a
      BY <2>2
    <3>2. p * a \in Nat
      BY <2>2
    <3> QED
      BY <2>1, <2>2, <3>1, <3>2
  <2>4. q - p \in Int /\ m \in -a + 1 .. a - 1
    BY <2>2
  <2>5. q - p = 0
    BY <1>1, <2>3, <2>4
  <2>6. m = 0
    BY <2>3, <2>5
  <2> QED
    BY <2>2, <2>6
<1> QED
  BY <1>2, <1>3

\* AlignUp gives a multiple of a that is not below x
LEMMA AlignUpIs ==
  ASSUME NEW x \in Nat, NEW a \in Nat \ {0}
  PROVE  /\ L!AlignUp(x, a) \in Nat /\ x <= L!AlignUp(x, a) /\ L!AlignUp(x, a) % a = 0
         /\ \E q \in Nat : L!AlignUp(x, a) = q * a
<1> PICK k : k = x + a - 1
  OBVIOUS
<1>1. k \in Nat
  OBVIOUS
<1>2. PICK q \in Nat, m \in 0 .. a - 1 : q = k \div a /\ m = k % a /\ k = a * q + m
  BY <1>1, DivIs
<1> PICK y : y = q * a
  OBVIOUS
<1>3. y \in Nat /\ a * q = y
  BY <1>2
<1>4. x <= y
  BY <1>2, <1>3
<1>5. L!AlignUp(x, a) = y
  BY <1>2 DEF L!AlignUp
<1>6. y % a = 0
  <2>1. 0 \in 0 .. a - 1
    OBVIOUS
  <2> QED
    BY <1>2, <2>1, ModIs
<1> QED
  BY <1>2, <1>3, <1>4, <1>5, <1>6

\* an aligned address above the base is aligned in the image
LEMMA RvaAligned ==
  ASSUME NEW a \in Nat \ {0}, NEW base \in Nat, base % a = 0, NEW q \in Nat, base <= q * a
  PROVE  (q * a - base) % a = 0
<1>1. PICK p \in Nat, m \in 0 .. a - 1 : p = base \div a /\ m = base % a /\ base = a * p + m
  BY DivIs
<1>2. base = p * a
  <2>1. a * p = p * a /\ p * a \in Nat
    BY <1>1
  <2> QED
    BY <1>1, <2>1
<1>3. q - p \in Int /\ (q - p) * a = q * a - base
  BY <1>1, <1>2
<1>4. q - p \in Nat
  <2>1. q - p <= -1 => (q - p) * a <= -1 * a
    BY <1>3
  <2>2. q * a - base >= 0
    <3>1. q * a \in Nat
      OBVIOUS
    <3> QED
      BY <3>1
  <2> QED
    BY <1>3, <2>1, <2>2
<1>5. ((q - p) * a) % a = 0
  <2>1. 0 \in 0 .. a - 1
    OBVIOUS
  <2> QED
    BY <1>4, <2>1, ModIs
<1> QED
  BY <1>3, <1>5

LEMMA ImgMaxIs ==
  ASSUME NEW x \in Int, NEW y \in Int
  PROVE  L!Max({x, y}) \in {x, y} /\ x <= L!Max({x, y}) /\ y <= L!Max({x, y})
<1>1. \E m \in {x, y} : \A z \in {x, y} : m >= z
  <2>1. CASE x >= y
    BY <2>1
  <2>2. CASE ~ (x >= y)
    BY <2>2
  <2> QED
    BY <2>1, <2>2
<1>2. L!Max({x, y}) \in {x, y} /\ \A z \in {x, y} : L!Max({x, y}) >= z
  BY <1>1 DEF L!Max
<1> QED
  BY <1>2

-----------------------------------------------------------------------------
(* The image: sections in their order, at rising addresses.                *)

RankedClasses ==
  {"text", "data", "bss", "idata", "pdata", "other", "rsrc", "stab", "reloc"}

\* PELayout!Section, with what the provers do not know: a name is a string
Section ==
  [name : STRING \cup {"reloc"}, type : STRING \cup {"PROGBITS"},
   flags : SUBSET {"ALLOC", "WRITE", "EXECINSTR"},
   size : Nat, align : Nat \ {0}, reloc : Seq([offset : Nat, type : STRING])]

Aligned(x) == (x - image.base) % image.section_align = 0
Entry == [ord : 1 .. Len(sections), cls : RankedClasses \cup {"none"}, addr : Nat, size : Nat, data : Nat]
Class(s) == L!pe_section_class(s)
Kept(s) == Class(s) = "stab" => image.do_debug

\* .reloc is the last section and has no relocations
SecTypes ==
  /\ sections \in Seq(Section) /\ Len(sections) \in Nat \ {0}
  /\ \A s \in 1 .. Len(sections) : Class(sections[s]) = "reloc" <=> s = Len(sections)
  /\ sections[Len(sections)].reloc = << >>
  /\ \A s \in 1 .. Len(sections) :
       /\ \A x \in L!Absolutes(sections[s]) : sections[s].reloc[x].offset < sections[s].size
       /\ \A x, y \in L!Absolutes(sections[s]) :
            sections[s].reloc[x].offset = sections[s].reloc[y].offset => x = y
ImgTypes ==
  /\ image \in Images /\ pc \in {"assign", "reloc", "write", "written"}
  /\ SecTypes
  /\ pc \in {"assign", "reloc"} => sections[Len(sections)].size = 0
  /\ todo \subseteq {s \in 1 .. Len(sections) : Class(sections[s]) # "none"}
  /\ pc = "assign" => Len(sections) \in todo
  /\ pc = "reloc" => todo = {Len(sections)}
  /\ pc \in {"write", "written"} => todo = {}
  /\ sh_addr \in [1 .. Len(sections) -> Nat]
  /\ addr \in Nat /\ image.base < addr
  /\ pc = "reloc" =>
       sh_addr[Len(sections)] = addr /\ Aligned(addr)
  /\ sec_info \in Seq(Entry)

\* what is in the image is before addr, in the order of sec_info
End(e) == e.addr + e.size
AddrInv ==
  /\ \A x \in 1 .. Len(sec_info) :
       LET e == sec_info[x] IN
       /\ e.ord \notin todo /\ End(e) <= addr
       /\ image.base < e.addr /\ Aligned(e.addr)
       /\ sh_addr[e.ord] = e.addr /\ sections[e.ord].size <= e.size
       /\ e.data = IF sections[e.ord].type = "NOBITS" THEN 0 ELSE sections[e.ord].size
  /\ \A x, y \in 1 .. Len(sec_info) : x < y => End(sec_info[x]) <= sec_info[y].addr

\* every section with contents is in the image, alone or behind another
Holds(e, s) ==
  /\ e.addr <= sh_addr[s] /\ sh_addr[s] + sections[s].size <= End(e)
  /\ sections[s].type # "NOBITS" => e.ord = s
CoverInv ==
  \A s \in 1 .. Len(sections) :
    s \notin todo /\ Class(sections[s]) # "none" /\ Kept(sections[s]) /\ sections[s].size > 0 =>
      \E x \in 1 .. Len(sec_info) : Holds(sec_info[x], s)

\* the headers written, and the contents behind each other in the file
FileAligned(x) == x % image.file_align = 0
HeaderOf(h, e) ==
  /\ h.VirtualAddress = e.addr - image.base /\ h.VirtualSize = e.size
  /\ h.PointerToRawData \in Nat /\ h.SizeOfRawData \in Nat
  /\ FileAligned(h.PointerToRawData)
  /\ e.data <= h.SizeOfRawData
  /\ h.SizeOfRawData # 0 => h.PointerToRawData + h.SizeOfRawData <= file_offset
  /\ h.VirtualAddress + h.VirtualSize <= SizeOfImage
HeadInv ==
  /\ SizeOfImage \in Nat /\ file_offset \in Nat
  /\ pc \in {"assign", "reloc"} => headers = << >>
  /\ headers \in Seq([VirtualAddress : Nat, VirtualSize : Nat,
                      PointerToRawData : Nat, SizeOfRawData : Nat])
  /\ Len(headers) <= Len(sec_info)
  /\ \A x \in 1 .. Len(headers) : HeaderOf(headers[x], sec_info[x])
  /\ \A x, y \in 1 .. Len(headers) :
       x < y /\ headers[x].SizeOfRawData # 0 /\ headers[y].SizeOfRawData # 0 =>
         headers[x].PointerToRawData + headers[x].SizeOfRawData <= headers[y].PointerToRawData
  /\ pc \in {"write", "written"} => FileAligned(file_offset)
  /\ pc = "written" => Len(headers) = Len(sec_info)

Resized(S, s, x) == [S EXCEPT ![s].size = x]

LEMMA ImageIs ==
  ASSUME image \in Images
  PROVE  /\ image.grow \in Nat /\ image.base \in Nat /\ image.head \in Nat
         /\ image.section_align \in Nat \ {0} /\ image.file_align \in Nat \ {0}
         /\ image.base % image.section_align = 0
         /\ image.sections \in Seq(Section)
         /\ \A s \in DOMAIN image.sections : L!WellFormed(image.sections[s])
<1>1. /\ image.grow \in Nat /\ image.base \in Nat /\ image.head \in Nat
      /\ image.section_align \in Nat \ {0} /\ image.file_align \in Nat \ {0}
      /\ image.base % image.section_align = 0
      /\ image.sections \in Seq(L!Section)
      /\ \A s \in DOMAIN image.sections : L!WellFormed(image.sections[s])
  BY ImageAssumption DEF L!Assumptions
<1>2. \A a \in L!Section : a \in Section
  BY DEF L!Section, Section
<1>3. image.sections \in Seq(Section)
  <2>1. \A R : \A w \in Seq(R) : w \in [1 .. Len(w) -> R] /\ Len(w) \in Nat
    OBVIOUS
  <2>2. image.sections \in [1 .. Len(image.sections) -> Section] /\ Len(image.sections) \in Nat
    BY <1>1, <1>2, <2>1
  <2>3. \A R, w : Len(w) \in Nat /\ w \in [1 .. Len(w) -> R] => w \in Seq(R)
    OBVIOUS
  <2> QED
    BY <2>2, <2>3
<1> QED
  BY <1>1, <1>3

\* a class depends on the name, the type and the flags of a section
LEMMA ClassStays ==
  ASSUME NEW a \in Section, NEW b \in Section,
         a.name = b.name, a.type = b.type, a.flags = b.flags
  PROVE  Class(a) = Class(b)
BY DEF Class, L!pe_section_class

LEMMA ClassRange ==
  ASSUME NEW a \in Section
  PROVE  Class(a) \in RankedClasses \cup {"none"}
<1>1. CASE "ALLOC" \in a.flags /\ a.type = "PROGBITS"
  <2>1. a.name \in {"rsrc", "iedat", "pdata"} =>
          [rsrc |-> "rsrc", iedat |-> "idata", pdata |-> "pdata"][a.name] \in {"rsrc", "idata", "pdata"}
    OBVIOUS
  <2> QED
    BY <1>1, <2>1 DEF Class, L!pe_section_class, RankedClasses
<1>2. CASE ~ ("ALLOC" \in a.flags /\ a.type = "PROGBITS")
  BY <1>2 DEF Class, L!pe_section_class, RankedClasses
<1> QED
  BY <1>1, <1>2

LEMMA ResizedIs ==
  ASSUME NEW S \in Seq(Section), NEW s \in 1 .. Len(S), NEW x \in Nat
  PROVE  /\ Resized(S, s, x) \in Seq(Section) /\ Len(Resized(S, s, x)) = Len(S)
         /\ \A y \in 1 .. Len(S) :
              /\ Resized(S, s, x)[y].size = (IF y = s THEN x ELSE S[y].size)
              /\ Resized(S, s, x)[y].type = S[y].type
              /\ Resized(S, s, x)[y].reloc = S[y].reloc
              /\ L!Absolutes(Resized(S, s, x)[y]) = L!Absolutes(S[y])
              /\ Class(Resized(S, s, x)[y]) = Class(S[y])
<1> DEFINE R == Resized(S, s, x)
<1>1. DOMAIN R = 1 .. Len(S)
  BY DEF Resized
<1>2. \A y \in 1 .. Len(S) :
        /\ R[y] \in Section /\ R[y].size = (IF y = s THEN x ELSE S[y].size)
        /\ R[y].name = S[y].name /\ R[y].type = S[y].type /\ R[y].flags = S[y].flags
        /\ R[y].reloc = S[y].reloc
  <2> TAKE y \in 1 .. Len(S)
  <2>1. S[y] \in Section
    OBVIOUS
  <2>2. CASE y = s
    <3>1. R[y] = [S[y] EXCEPT !.size = x]
      BY <2>2 DEF Resized
    <3> QED
      BY <2>1, <2>2, <3>1 DEF Section
  <2>3. CASE y # s
    <3>1. R[y] = S[y]
      BY <2>3 DEF Resized
    <3> QED
      BY <2>1, <2>3, <3>1
  <2> QED
    BY <2>2, <2>3
<1>3. R \in Seq(Section) /\ Len(R) = Len(S)
  <2>1. R = [y \in 1 .. Len(S) |-> R[y]]
    BY <1>1 DEF Resized
  <2> HIDE DEF R
  <2> QED
    BY <1>1, <1>2, <2>1
<1>4. \A y \in 1 .. Len(S) : L!Absolutes(R[y]) = L!Absolutes(S[y]) /\ Class(R[y]) = Class(S[y])
  <2> TAKE y \in 1 .. Len(S)
  <2>1. L!Absolutes(R[y]) = L!Absolutes(S[y])
    <3> HIDE DEF R
    <3> QED
      BY <1>2 DEF L!Absolutes
  <2>2. Class(R[y]) = Class(S[y])
    <3>1. S[y] \in Section
      OBVIOUS
    <3> HIDE DEF R
    <3> QED
      BY <1>2, <3>1, ClassStays
  <2> QED
    BY <2>1, <2>2
<1> QED
  BY <1>2, <1>3, <1>4

Placing == ImgTypes /\ AddrInv /\ CoverInv

\* An entry appended behind all others: the new entry is apart from them,
\* covers its section and leaves the rest as it was.
LEMMA AlignedIs ==
  ASSUME image \in Images, NEW x \in Nat, image.base < x
  PROVE  LET y == L!AlignUp(x, image.section_align)
         IN y \in Nat /\ x <= y /\ image.base < y /\ Aligned(y)
<1>1. image.section_align \in Nat \ {0} /\ image.base \in Nat /\ image.base % image.section_align = 0
  BY ImageIs
<1>2. PICK y : y = L!AlignUp(x, image.section_align)
  OBVIOUS
<1>3. y \in Nat /\ x <= y /\ \E q \in Nat : y = q * image.section_align
  BY <1>1, <1>2, AlignUpIs
<1>4. PICK q \in Nat : y = q * image.section_align
  BY <1>3
<1>5. image.base < y
  BY <1>1, <1>3
<1>6. (q * image.section_align - image.base) % image.section_align = 0
  <2>1. image.base <= q * image.section_align
    <3>1. image.base <= y
      BY <1>1, <1>3, <1>5
    <3> QED
      BY <1>4, <3>1
  <2> QED
    BY <1>1, <1>4, <2>1, RvaAligned
<1> QED
  BY <1>2, <1>3, <1>4, <1>5, <1>6 DEF Aligned

LEMMA CountedKeeps ==
  ASSUME Placing,
         NEW s \in todo, NEW place \in Nat, NEW size \in Nat,
         addr <= place, image.base < place,
         Aligned(place),
         sections[s].size <= size,
         sections' = Resized(sections, s, size),
         sh_addr' = [sh_addr EXCEPT ![s] = place],
         todo' = todo \ {s}, image' = image,
         L!Counted(s, place, size)
  PROVE  AddrInv' /\ CoverInv' /\ sec_info' \in Seq(Entry)' /\ addr' \in Nat /\ image.base < addr'
<1> DEFINE e == [ord |-> s, cls |-> L!ClassOf(s), addr |-> place, size |-> size,
                 data |-> IF sections[s].type = "NOBITS" THEN 0 ELSE size]
<1>1. /\ sections \in Seq(Section) /\ s \in 1 .. Len(sections) /\ addr \in Nat /\ image.base \in Nat
      /\ sec_info \in Seq(Entry) /\ sh_addr \in [1 .. Len(sections) -> Nat]
  BY ImageIs DEF Placing, ImgTypes, SecTypes
<1>2. /\ Len(sections') = Len(sections) /\ sections' \in Seq(Section)
      /\ \A y \in 1 .. Len(sections) :
           /\ sections'[y].size = (IF y = s THEN size ELSE sections[y].size)
           /\ sections'[y].type = sections[y].type
           /\ Class(sections'[y]) = Class(sections[y])
  BY <1>1, ResizedIs
<1>3. sh_addr'[s] = place /\ \A y \in 1 .. Len(sections) : y # s => sh_addr'[y] = sh_addr[y]
  BY <1>1
<1>4. e \in Entry
  <2>1. L!ClassOf(s) \in RankedClasses \cup {"none"}
    BY <1>1, ClassRange DEF L!ClassOf, Class
  <2> QED
    BY <1>1, <2>1 DEF Entry
<1>5. /\ size = 0 => sec_info' = sec_info /\ addr' = place
      /\ size # 0 => sec_info' = Append(sec_info, e) /\ addr' = place + size
  BY DEF L!Counted
<1> HIDE DEF e
<1>6. /\ e.ord = s /\ e.addr = place /\ e.size = size
      /\ e.data = IF sections[s].type = "NOBITS" THEN 0 ELSE size
  BY DEF e
<1>7. Entry' = Entry
  BY <1>2 DEF Entry
<1>8. sec_info' \in Seq(Entry)
  <2>1. Append(sec_info, e) \in Seq(Entry)
    BY <1>1, <1>4
  <2> QED
    BY <1>1, <1>5, <2>1
<1>9. addr' \in Nat /\ image.base < addr' /\ addr <= addr' /\ place + size <= addr'
  BY <1>1, <1>5
<1>10. /\ Len(sec_info) \in Nat /\ Len(sec_info') \in Nat
       /\ \A x \in 1 .. Len(sec_info) : sec_info[x] \in Entry /\ x \in 1 .. Len(sec_info')
       /\ \A x \in 1 .. Len(sec_info) : sec_info'[x] = sec_info[x]
       /\ \A x \in 1 .. Len(sec_info') : x \notin 1 .. Len(sec_info) => x = Len(sec_info') /\ sec_info'[x] = e
       /\ size # 0 => Len(sec_info') = Len(sec_info) + 1 /\ sec_info'[Len(sec_info')] = e
       /\ Len(sec_info') # Len(sec_info) => Len(sec_info') = Len(sec_info) + 1
       /\ Len(sec_info') <= Len(sec_info) + 1
  BY <1>1, <1>4, <1>5
<1>11. \A x \in 1 .. Len(sec_info) :
         /\ sec_info[x].ord \in 1 .. Len(sections) /\ sec_info[x].ord \notin todo
         /\ sec_info[x].addr \in Nat /\ sec_info[x].size \in Nat
         /\ sec_info[x].addr + sec_info[x].size <= addr
  BY <1>10 DEF Placing, AddrInv, Entry, End
<1>12. AddrInv'
  <2>1. \A x \in 1 .. Len(sec_info') :
          LET f == sec_info'[x] IN
          /\ f.ord \notin todo' /\ f.addr + f.size <= addr'
          /\ image.base < f.addr /\ Aligned(f.addr)
          /\ sh_addr'[f.ord] = f.addr /\ sections'[f.ord].size <= f.size
          /\ f.data = IF sections'[f.ord].type = "NOBITS" THEN 0 ELSE sections'[f.ord].size
    <3> SUFFICES ASSUME NEW x \in 1 .. Len(sec_info'), NEW f, f = sec_info'[x]
                 PROVE  /\ f.ord \notin todo' /\ f.addr + f.size <= addr'
                        /\ image.base < f.addr /\ Aligned(f.addr)
                        /\ sh_addr'[f.ord] = f.addr /\ sections'[f.ord].size <= f.size
                        /\ f.data = IF sections'[f.ord].type = "NOBITS" THEN 0
                                    ELSE sections'[f.ord].size
      OBVIOUS
    <3>1. CASE x \in 1 .. Len(sec_info)
      <4>1. f = sec_info[x]
        BY <1>10, <3>1
      <4>2. /\ f.ord \notin todo /\ f.addr + f.size <= addr
            /\ image.base < f.addr /\ Aligned(f.addr)
            /\ sh_addr[f.ord] = f.addr /\ sections[f.ord].size <= f.size
            /\ f.data = IF sections[f.ord].type = "NOBITS" THEN 0 ELSE sections[f.ord].size
        BY <3>1, <4>1 DEF Placing, AddrInv, End
      <4>3. f.ord \in 1 .. Len(sections) /\ f.ord # s /\ f.addr \in Nat /\ f.size \in Nat
        BY <1>11, <3>1, <4>1
      <4>4. f.addr + f.size <= addr'
        <5>1. addr' \in Nat /\ addr <= addr'
          BY <1>9
        <5> QED
          BY <1>1, <4>2, <4>3, <5>1
      <4>5. sections'[f.ord].size = sections[f.ord].size /\ sections'[f.ord].type = sections[f.ord].type
            /\ sh_addr'[f.ord] = sh_addr[f.ord]
        BY <1>2, <1>3, <4>3
      <4> QED
        BY <4>2, <4>4, <4>5
    <3>2. CASE x \notin 1 .. Len(sec_info)
      <4>1. f = e
        BY <1>10, <3>2
      <4>2. sections'[s].size = size /\ sections'[s].type = sections[s].type
        BY <1>1, <1>2
      <4> QED
        BY <1>1, <1>3, <1>6, <1>9, <4>1, <4>2
    <3> QED
      BY <3>1, <3>2
  <2>2. \A x, y \in 1 .. Len(sec_info') :
          x < y => sec_info'[x].addr + sec_info'[x].size <= sec_info'[y].addr
    <3> SUFFICES ASSUME NEW x \in 1 .. Len(sec_info'), NEW y \in 1 .. Len(sec_info'), x < y
                 PROVE  sec_info'[x].addr + sec_info'[x].size <= sec_info'[y].addr
      OBVIOUS
    <3>1. x \in 1 .. Len(sec_info) /\ sec_info'[x] = sec_info[x]
      BY <1>10
    <3>2. CASE y \in 1 .. Len(sec_info)
      BY <1>10, <3>1, <3>2 DEF Placing, AddrInv, End
    <3>3. CASE y \notin 1 .. Len(sec_info)
      <4>1. sec_info'[y].addr = place
        BY <1>6, <1>10, <3>3
      <4>2. PICK a, n_ \in Nat : a = sec_info[x].addr /\ n_ = sec_info[x].size /\ a + n_ <= addr
        BY <1>11, <3>1
      <4>3. a + n_ <= place
        <5>1. \A b, k, low, high \in Nat : b + k <= low /\ low <= high => b + k <= high
          OBVIOUS
        <5>2. addr \in Nat /\ place \in Nat /\ addr <= place
          BY <1>1
        <5> QED
          BY <4>2, <5>1, <5>2, Zenon
      <4> QED
        BY <3>1, <4>1, <4>2, <4>3
    <3> QED
      BY <3>2, <3>3
  <2> QED
    BY <2>1, <2>2, Zenon DEF AddrInv, End, Aligned
<1>13. CoverInv'
  <2> SUFFICES ASSUME NEW y \in 1 .. Len(sections), y \notin todo', Class(sections'[y]) # "none",
                      Class(sections'[y]) = "stab" => image.do_debug, sections'[y].size > 0
               PROVE  \E x \in 1 .. Len(sec_info') :
                        LET f == sec_info'[x] IN
                        /\ f.addr <= sh_addr'[y] /\ sh_addr'[y] + sections'[y].size <= f.addr + f.size
                        /\ sections'[y].type # "NOBITS" => f.ord = y
    BY <1>2 DEF CoverInv, Holds, Kept, End
  <2>1. CASE y = s
    <3>1. sections'[s].size = size /\ size # 0
      BY <1>1, <1>2, <2>1
    <3>2. Len(sec_info') \in 1 .. Len(sec_info') /\ sec_info'[Len(sec_info')] = e
      BY <1>10, <3>1
    <3> QED
      BY <1>3, <1>6, <2>1, <3>1, <3>2
  <2>2. CASE y # s
    <3>1. PICK x \in 1 .. Len(sec_info) : Holds(sec_info[x], y)
      BY <1>2, <2>2 DEF Placing, CoverInv, Kept
    <3>2. sec_info'[x] = sec_info[x] /\ x \in 1 .. Len(sec_info')
      BY <1>10
    <3>3. sections'[y].size = sections[y].size /\ sections'[y].type = sections[y].type
          /\ sh_addr'[y] = sh_addr[y]
      BY <1>2, <1>3, <2>2
    <3> QED
      BY <3>1, <3>2, <3>3 DEF Holds, End
  <2> QED
    BY <2>1, <2>2
<1> QED
  BY <1>7, <1>8, <1>9, <1>12, <1>13

LEMMA ResizedTypes ==
  ASSUME SecTypes, NEW s \in 1 .. Len(sections), NEW size \in Nat, sections[s].size <= size,
         sections' = Resized(sections, s, size)
  PROVE  SecTypes'
<1>1. sections \in Seq(Section) /\ Len(sections) \in Nat \ {0}
  BY DEF SecTypes
<1>2. /\ Len(sections') = Len(sections) /\ sections' \in Seq(Section)
      /\ \A y \in 1 .. Len(sections) :
           /\ sections'[y].size = (IF y = s THEN size ELSE sections[y].size)
           /\ sections'[y].reloc = sections[y].reloc
           /\ L!Absolutes(sections'[y]) = L!Absolutes(sections[y])
           /\ Class(sections'[y]) = Class(sections[y])
  BY <1>1, ResizedIs
<1>3. \A y \in 1 .. Len(sections) : \A x \in L!Absolutes(sections[y]) :
        sections[y].reloc[x].offset \in Nat
  <2> TAKE y \in 1 .. Len(sections)
  <2>1. sections[y] \in Section
    BY <1>1
  <2>2. sections[y].reloc \in Seq([offset : Nat, type : STRING])
    BY <2>1 DEF Section
  <2> QED
    <3>1. \A x \in DOMAIN sections[y].reloc : sections[y].reloc[x] \in [offset : Nat, type : STRING]
      <4> PICK z : z = sections[y].reloc
        OBVIOUS
      <4>1. z \in Seq([offset : Nat, type : STRING])
        BY <2>2
      <4>2. \A x \in DOMAIN z : z[x] \in [offset : Nat, type : STRING]
        <5>1. \A R : \A w \in Seq(R) : \A x \in DOMAIN w : w[x] \in R
          OBVIOUS
        <5> QED
          BY <4>1, <5>1
      <4> QED
        BY <4>2
    <3> QED
      BY <3>1 DEF L!Absolutes
<1>4. \A y \in 1 .. Len(sections) : sections[y].size \in Nat
  <2> TAKE y \in 1 .. Len(sections)
  <2>1. sections[y] \in Section
    BY <1>1
  <2> QED
    BY <2>1 DEF Section
<1>5. \A y \in 1 .. Len(sections) : \A x \in L!Absolutes(sections'[y]) :
        sections'[y].reloc[x].offset < sections'[y].size
  <2> SUFFICES ASSUME NEW y \in 1 .. Len(sections), NEW x \in L!Absolutes(sections'[y])
               PROVE  sections'[y].reloc[x].offset < sections'[y].size
    OBVIOUS
  <2>1. x \in L!Absolutes(sections[y]) /\ sections[y].reloc[x].offset < sections[y].size
    BY <1>2 DEF SecTypes
  <2>2. sections[y].reloc[x].offset \in Nat /\ sections[y].size \in Nat
    BY <1>3, <1>4, <2>1
  <2>3. sections[y].size <= sections'[y].size /\ sections'[y].size \in Nat
    BY <1>2, <2>2
  <2> QED
    BY <1>2, <2>1, <2>2, <2>3
<1>6. \A y \in 1 .. Len(sections) : \A x, z \in L!Absolutes(sections'[y]) :
        sections'[y].reloc[x].offset = sections'[y].reloc[z].offset => x = z
  BY <1>2 DEF SecTypes
<1>7. /\ \A y \in 1 .. Len(sections) : Class(sections'[y]) = "reloc" <=> y = Len(sections)
      /\ sections'[Len(sections)].reloc = << >>
  BY <1>1, <1>2 DEF SecTypes
<1> QED
  BY <1>1, <1>2, <1>5, <1>6, <1>7 DEF SecTypes

\* only .reloc has its class, the last of all
LEMMA RelocLast ==
  ASSUME ImgTypes, NEW s, L!First(s)
  PROVE  /\ s \in todo /\ s \in 1 .. Len(sections)
         /\ L!ClassOf(s) = Class(sections[s])
         /\ L!ClassOf(s) = "reloc" <=> s = Len(sections)
         /\ L!ClassOf(s) = "reloc" => todo = {s}
<1>1. s \in todo /\ todo \subseteq 1 .. Len(sections)
  BY DEF ImgTypes, L!First
<1>2. \A x \in 1 .. Len(sections) : L!ClassOf(x) = Class(sections[x])
  BY DEF L!ClassOf, Class
<1>3. \A x \in 1 .. Len(sections) : Class(sections[x]) = "reloc" <=> x = Len(sections)
  BY DEF ImgTypes, SecTypes
<1>4. ASSUME L!ClassOf(s) = "reloc", NEW x \in todo PROVE x = s
  <2>1. Class(sections[x]) \in RankedClasses
    <3>1. sections[x] \in Section /\ Class(sections[x]) # "none"
      BY <1>1 DEF ImgTypes, SecTypes
    <3> QED
      BY <3>1, ClassRange
  <2>2. L!Classes[Class(sections[x])] \in 0 .. 8 /\ L!Classes["reloc"] = 8
    BY <2>1 DEF L!Classes, RankedClasses
  <2>3. ~ (L!Classes[L!ClassOf(s)] < L!Classes[L!ClassOf(x)])
    BY <1>1, <1>2, <1>4, <2>2
  <2>4. x = s \/ L!Before(s, x)
    BY DEF L!First
  <2> QED
    BY <1>1, <1>2, <1>3, <1>4, <2>3, <2>4 DEF L!Before
<1>5. L!ClassOf(s) = "reloc" => todo = {s}
  BY <1>1, <1>4
<1> QED
  BY <1>1, <1>2, <1>3, <1>5

PlacedInv == ImgTypes /\ AddrInv /\ CoverInv /\ HeadInv

\* as long as the sections get addresses nothing is in the file
LEMMA NothingWritten ==
  ASSUME HeadInv, pc \in {"assign", "reloc"}, UNCHANGED <<headers, SizeOfImage>>,
         file_offset' \in Nat, sec_info' \in Seq(Entry'),
         pc' \in {"assign", "reloc"} \/ (pc' = "write" /\ FileAligned(file_offset)')
  PROVE  HeadInv'
<1>1. headers = << >> /\ headers' = << >> /\ SizeOfImage' \in Nat
  BY DEF HeadInv
<1>2. Len(headers') = 0 /\ Len(sec_info') \in Nat /\ 1 .. Len(headers') = {}
  BY <1>1
<1>3. headers' \in Seq([VirtualAddress : Nat, VirtualSize : Nat,
                        PointerToRawData : Nat, SizeOfRawData : Nat])
  BY <1>1
<1>4. pc' # "written" /\ (pc' = "write" => FileAligned(file_offset)')
  OBVIOUS
<1> QED
  BY <1>1, <1>2, <1>3, <1>4 DEF HeadInv

LEMMA SkipKeeps ==
  ASSUME PlacedInv, NEW s \in DOMAIN sections, L!SkipStab(s)
  PROVE  PlacedInv'
<1>1. /\ L!First(s) /\ pc = "assign" /\ ~ L!Kept(s) /\ todo' = todo \ {s}
      /\ UNCHANGED <<image, sections, sh_addr, sec_info, addr, headers, file_offset, SizeOfImage, pc>>
  BY DEF L!SkipStab, L!Assigning, L!relocVars, L!writeVars
<1>2. ImgTypes
  BY DEF PlacedInv
<1>3. s \in todo /\ L!ClassOf(s) = Class(sections[s]) /\ (L!ClassOf(s) = "reloc" <=> s = Len(sections))
  BY <1>1, <1>2, RelocLast
<1>4. L!ClassOf(s) = "stab" /\ ~ image.do_debug /\ ~ Kept(sections[s])
  BY <1>1, <1>3 DEF L!Kept, Kept
<1>5. SecTypes'
  BY <1>1, <1>2 DEF ImgTypes, SecTypes, Class
<1>6. ImgTypes'
  BY <1>1, <1>2, <1>3, <1>4, <1>5 DEF ImgTypes, Class, Entry, Aligned
<1>7. AddrInv'
  BY <1>1 DEF PlacedInv, AddrInv, End, Aligned
<1>8. CoverInv'
  BY <1>1, <1>4 DEF PlacedInv, CoverInv, Holds, End, Kept, Class
<1>9. HeadInv'
  BY <1>1 DEF PlacedInv, HeadInv, HeaderOf, FileAligned
<1> QED
  BY <1>6, <1>7, <1>8, <1>9 DEF PlacedInv

LEMMA PlaceKeeps ==
  ASSUME PlacedInv, NEW s \in DOMAIN sections, L!Place(s)
  PROVE  PlacedInv'
<1> DEFINE place == L!AlignUp(addr, image.section_align)
           size == sections[s].size + (IF L!IsThunk(s) THEN image.grow ELSE 0)
<1>1. /\ L!First(s) /\ pc = "assign" /\ L!ClassOf(s) # "reloc" /\ todo' = todo \ {s}
      /\ sh_addr' = [sh_addr EXCEPT ![s] = place]
      /\ sections' = Resized(sections, s, size) /\ L!Counted(s, place, size)
      /\ UNCHANGED <<image, headers, file_offset, SizeOfImage, pc>>
  BY DEF L!Place, L!Assigning, L!relocVars, L!writeVars, Resized
<1>2. ImgTypes /\ image \in Images /\ addr \in Nat /\ image.base < addr
  BY DEF PlacedInv, ImgTypes
<1>3. s \in todo /\ s \in 1 .. Len(sections) /\ (L!ClassOf(s) = "reloc" <=> s = Len(sections))
  BY <1>1, <1>2, RelocLast
<1>4. place \in Nat /\ addr <= place /\ image.base < place /\ Aligned(place)
  BY <1>2, AlignedIs
<1>5. sections \in Seq(Section) /\ sections[s] \in Section /\ sections[s].size \in Nat
  <2>1. sections \in Seq(Section)
    BY <1>2 DEF ImgTypes, SecTypes
  <2>2. sections[s] \in Section
    BY <1>3, <2>1
  <2> QED
    BY <2>1, <2>2 DEF Section
<1>6. size \in Nat /\ sections[s].size <= size
  BY <1>2, <1>5, ImageIs
<1> HIDE DEF place, size
<1>7. AddrInv' /\ CoverInv' /\ sec_info' \in Seq(Entry)' /\ addr' \in Nat /\ image.base < addr'
  BY <1>1, <1>3, <1>4, <1>6, CountedKeeps DEF PlacedInv, Placing
<1>8. SecTypes'
  BY <1>1, <1>2, <1>3, <1>6, ResizedTypes DEF ImgTypes
<1>9. /\ Len(sections') = Len(sections)
      /\ \A y \in 1 .. Len(sections) :
           /\ sections'[y].size = (IF y = s THEN size ELSE sections[y].size)
           /\ Class(sections'[y]) = Class(sections[y])
  BY <1>1, <1>3, <1>5, <1>6, ResizedIs
<1>10. ImgTypes'
  <2>1. Len(sections) \in todo' /\ sections'[Len(sections')].size = 0
    BY <1>1, <1>2, <1>3, <1>9 DEF ImgTypes, SecTypes
  <2>2. todo' \subseteq {x \in 1 .. Len(sections') : Class(sections'[x]) # "none"}
    BY <1>1, <1>2, <1>9 DEF ImgTypes
  <2>3. sh_addr' \in [1 .. Len(sections') -> Nat]
    BY <1>1, <1>2, <1>4, <1>9 DEF ImgTypes
  <2> QED
    BY <1>1, <1>2, <1>7, <1>8, <1>9, <2>1, <2>2, <2>3 DEF ImgTypes
<1>11. HeadInv'
  BY <1>1, <1>7, NothingWritten DEF PlacedInv, HeadInv
<1> QED
  BY <1>7, <1>10, <1>11 DEF PlacedInv

LEMMA PlaceRelocKeeps ==
  ASSUME PlacedInv, NEW s \in DOMAIN sections, L!PlaceReloc(s)
  PROVE  PlacedInv'
<1>1. /\ L!First(s) /\ pc = "assign" /\ L!ClassOf(s) = "reloc" /\ pc' = "reloc"
      /\ addr' = L!AlignUp(addr, image.section_align)
      /\ sh_addr' = [sh_addr EXCEPT ![s] = addr']
      /\ UNCHANGED <<image, sections, sec_info, todo, headers, file_offset, SizeOfImage>>
  BY DEF L!PlaceReloc, L!Assigning, L!relocVars, L!writeVars
<1>2. ImgTypes /\ image \in Images /\ addr \in Nat /\ image.base < addr /\ image.base \in Nat
  BY ImageIs DEF PlacedInv, ImgTypes
<1>3. /\ s \in todo /\ s \in 1 .. Len(sections) /\ s = Len(sections) /\ todo = {s}
  BY <1>1, <1>2, RelocLast
<1>4. addr' \in Nat /\ addr <= addr' /\ image.base < addr' /\ Aligned(addr')
  BY <1>1, <1>2, AlignedIs
<1>5. /\ sh_addr' \in [1 .. Len(sections) -> Nat] /\ sh_addr'[s] = addr'
      /\ \A y \in 1 .. Len(sections) : y # s => sh_addr'[y] = sh_addr[y]
  BY <1>1, <1>2, <1>3, <1>4 DEF ImgTypes
<1>6. SecTypes'
  BY <1>1, <1>2 DEF ImgTypes, SecTypes, Class
<1>7. Aligned(addr)'
  BY <1>1, <1>4 DEF Aligned
<1>8. ImgTypes'
  BY <1>1, <1>2, <1>3, <1>4, <1>5, <1>6, <1>7 DEF ImgTypes, Class, Entry
<1>9. \A x \in 1 .. Len(sec_info) : sec_info[x] \in Entry
  BY <1>2 DEF ImgTypes
<1>10. \A x \in 1 .. Len(sec_info) :
         /\ sec_info[x].ord \in 1 .. Len(sections) /\ sec_info[x].ord # s
         /\ sec_info[x].addr + sec_info[x].size <= addr'
  <2> TAKE x \in 1 .. Len(sec_info)
  <2>1. sec_info[x].ord \in 1 .. Len(sections) /\ sec_info[x].addr \in Nat /\ sec_info[x].size \in Nat
    BY <1>9 DEF Entry
  <2>2. sec_info[x].ord \notin todo /\ sec_info[x].addr + sec_info[x].size <= addr
    BY DEF PlacedInv, AddrInv, End
  <2> QED
    BY <1>2, <1>3, <1>4, <2>1, <2>2
<1>11. AddrInv'
  BY <1>1, <1>5, <1>10 DEF PlacedInv, AddrInv, End, Aligned
<1>12. CoverInv'
  BY <1>1, <1>3, <1>5 DEF PlacedInv, CoverInv, Holds, End, Kept, Class
<1>13. HeadInv'
  BY <1>1 DEF PlacedInv, HeadInv, HeaderOf, FileAligned
<1> QED
  BY <1>8, <1>11, <1>12, <1>13 DEF PlacedInv

\* .bss behind .data: the last entry grows over it
LEMMA AppendBssKeeps ==
  ASSUME PlacedInv, NEW s \in DOMAIN sections, L!AppendBss(s)
  PROVE  PlacedInv'
<1> DEFINE place == L!AlignUp(addr, sections[s].align)
           last == Len(sec_info)
           e == [sec_info[last] EXCEPT !.size = addr' - sec_info[last].addr]
<1>1. /\ L!First(s) /\ pc = "assign" /\ L!ClassOf(s) = "bss" /\ sec_info # << >>
      /\ sh_addr' = [sh_addr EXCEPT ![s] = place] /\ addr' = place + sections[s].size
      /\ sec_info' = [sec_info EXCEPT ![last] = e]
      /\ todo' = todo \ {s}
      /\ UNCHANGED <<image, sections, headers, file_offset, SizeOfImage, pc>>
  BY DEF L!AppendBss, L!Assigning, L!FollowsData, L!relocVars, L!writeVars
<1>2. ImgTypes /\ image \in Images /\ addr \in Nat /\ image.base < addr /\ image.base \in Nat
  BY ImageIs DEF PlacedInv, ImgTypes
<1>3. /\ s \in todo /\ s \in 1 .. Len(sections) /\ (L!ClassOf(s) = "reloc" <=> s = Len(sections))
      /\ L!ClassOf(s) = Class(sections[s])
  BY <1>1, <1>2, RelocLast
<1>4. sections[s].size \in Nat /\ sections[s].align \in Nat \ {0} /\ sections[s].type = "NOBITS"
  <2>1. sections[s] \in Section
    BY <1>2, <1>3 DEF ImgTypes, SecTypes
  <2>2. Class(sections[s]) = "bss"
    BY <1>1, <1>3
  <2>3. sections[s].type = "NOBITS"
    <3>1. sections[s].name \in {"rsrc", "iedat", "pdata"} =>
            [rsrc |-> "rsrc", iedat |-> "idata", pdata |-> "pdata"][sections[s].name] # "bss"
      OBVIOUS
    <3> QED
      BY <2>2, <3>1 DEF Class, L!pe_section_class
  <2> QED
    BY <2>1, <2>3 DEF Section
<1>5. place \in Nat /\ addr <= place
  BY <1>2, <1>4, AlignUpIs
<1> HIDE DEF place
<1>6. addr' \in Nat /\ addr <= addr' /\ place + sections[s].size <= addr' /\ image.base < addr'
  BY <1>1, <1>2, <1>4, <1>5
<1>7. sec_info \in Seq(Entry) /\ last \in 1 .. Len(sec_info) /\ sec_info[last] \in Entry
  <2>1. sec_info \in Seq(Entry)
    BY <1>2 DEF ImgTypes
  <2>2. Len(sec_info) # 0
    BY <1>1, <2>1
  <2> QED
    BY <2>1, <2>2
<1>8. \A x \in 1 .. Len(sec_info) :
         /\ sec_info[x].ord \in 1 .. Len(sections) /\ sec_info[x].ord \notin todo
         /\ sec_info[x].addr \in Nat /\ sec_info[x].size \in Nat
         /\ sec_info[x].addr + sec_info[x].size <= addr
  <2> TAKE x \in 1 .. Len(sec_info)
  <2>1. sec_info[x] \in Entry
    BY <1>7
  <2> QED
    BY <2>1 DEF PlacedInv, AddrInv, End, Entry
<1>9. /\ e \in Entry /\ e.ord = sec_info[last].ord /\ e.addr = sec_info[last].addr
      /\ e.data = sec_info[last].data /\ e.size \in Nat
      /\ sec_info[last].size <= e.size /\ e.addr + e.size = addr'
  <2>1. sec_info[last].addr \in Nat /\ sec_info[last].size \in Nat
        /\ sec_info[last].addr + sec_info[last].size <= addr
    BY <1>7, <1>8
  <2>2. PICK z : z = addr' - sec_info[last].addr
    OBVIOUS
  <2>3. z \in Nat /\ sec_info[last].size <= z /\ sec_info[last].addr + z = addr'
    <3>1. addr \in Nat /\ addr' \in Nat /\ addr <= addr'
      BY <1>2, <1>6
    <3>2. PICK a, n_, low, high \in Nat :
            a = sec_info[last].addr /\ n_ = sec_info[last].size /\ low = addr /\ high = addr'
      BY <2>1, <3>1
    <3>3. a + n_ <= low /\ low <= high
      BY <2>1, <3>1, <3>2
    <3>4. high - a \in Nat /\ n_ <= high - a /\ a + (high - a) = high
      BY <3>3
    <3> QED
      BY <2>2, <3>2, <3>4
  <2>4. e = [sec_info[last] EXCEPT !.size = z]
    BY <2>2
  <2> HIDE DEF last, e
  <2> QED
    BY <1>7, <2>3, <2>4 DEF Entry
<1> HIDE DEF e
<1>10. /\ Len(sec_info') = Len(sec_info) /\ sec_info'[last] = e /\ sec_info' \in Seq(Entry)
       /\ \A x \in 1 .. Len(sec_info) : x # last => sec_info'[x] = sec_info[x]
  BY <1>1, <1>7, <1>9
<1>11. \A x \in 1 .. Len(sec_info) :
         /\ sec_info'[x].ord = sec_info[x].ord /\ sec_info'[x].addr = sec_info[x].addr
         /\ sec_info'[x].data = sec_info[x].data /\ sec_info'[x].size \in Nat
         /\ sec_info[x].size <= sec_info'[x].size
         /\ sec_info'[x].addr + sec_info'[x].size <= addr'
         /\ x # last => sec_info'[x] = sec_info[x]
  <2> TAKE x \in 1 .. Len(sec_info)
  <2>1. CASE x = last
    BY <1>6, <1>9, <1>10, <2>1
  <2>2. CASE x # last
    <3>1. sec_info'[x] = sec_info[x]
      BY <1>10, <2>2
    <3>2. sec_info[x].addr + sec_info[x].size <= addr /\ sec_info[x].addr \in Nat /\ sec_info[x].size \in Nat
      BY <1>8, Zenon
    <3> QED
      BY <1>2, <1>6, <2>2, <3>1, <3>2
  <2> QED
    BY <2>1, <2>2
<1>12. ImgTypes'
  <2>1. SecTypes' /\ Entry' = Entry
    BY <1>1, <1>2 DEF ImgTypes, SecTypes, Class, Entry
  <2>2. sh_addr' \in [1 .. Len(sections) -> Nat]
    BY <1>1, <1>2, <1>5 DEF ImgTypes
  <2> QED
    BY <1>1, <1>2, <1>3, <1>6, <1>10, <2>1, <2>2 DEF ImgTypes, Class
<1>13. sh_addr'[s] = place /\ \A y \in 1 .. Len(sections) : y # s => sh_addr'[y] = sh_addr[y]
  BY <1>1, <1>2, <1>3 DEF ImgTypes
<1>14. \A x \in 1 .. Len(sec_info) :
         /\ sections[sec_info[x].ord].size \in Nat
         /\ sections[sec_info[x].ord].size <= sec_info'[x].size
  <2> TAKE x \in 1 .. Len(sec_info)
  <2>1. sections[sec_info[x].ord] \in Section
    BY <1>2, <1>8 DEF ImgTypes, SecTypes
  <2>2. sections[sec_info[x].ord].size \in Nat /\ sections[sec_info[x].ord].size <= sec_info[x].size
    BY <2>1 DEF Section, PlacedInv, AddrInv
  <2> QED
    BY <1>8, <1>11, <2>2
<1>15. AddrInv'
  <2>1. \A x \in 1 .. Len(sec_info) :
          LET f == sec_info'[x] IN
          /\ f.ord \notin todo' /\ f.addr + f.size <= addr'
          /\ image.base < f.addr /\ Aligned(f.addr)
          /\ sh_addr'[f.ord] = f.addr /\ sections[f.ord].size <= f.size
          /\ f.data = IF sections[f.ord].type = "NOBITS" THEN 0 ELSE sections[f.ord].size
    <3> SUFFICES ASSUME NEW x \in 1 .. Len(sec_info), NEW f, f = sec_info'[x]
                 PROVE  /\ f.ord \notin todo' /\ f.addr + f.size <= addr'
                        /\ image.base < f.addr /\ Aligned(f.addr)
                        /\ sh_addr'[f.ord] = f.addr /\ sections[f.ord].size <= f.size
                        /\ f.data = IF sections[f.ord].type = "NOBITS" THEN 0
                                    ELSE sections[f.ord].size
      OBVIOUS
    <3> PICK g : g = sec_info[x]
      OBVIOUS
    <3>1. /\ f.ord = g.ord /\ f.addr = g.addr /\ f.data = g.data
          /\ sections[f.ord].size <= f.size /\ f.addr + f.size <= addr'
      BY <1>11, <1>14
    <3>2. /\ g.ord \notin todo /\ image.base < g.addr /\ Aligned(g.addr) /\ sh_addr[g.ord] = g.addr
          /\ g.data = IF sections[g.ord].type = "NOBITS" THEN 0 ELSE sections[g.ord].size
      BY DEF PlacedInv, AddrInv
    <3>3. g.ord # s /\ g.ord \in 1 .. Len(sections) /\ g.ord \notin todo'
      BY <1>1, <1>3, <1>8
    <3>4. sh_addr'[g.ord] = sh_addr[g.ord]
      BY <1>13, <3>3
    <3> QED
      BY <3>1, <3>2, <3>3, <3>4
  <2>2. \A x, y \in 1 .. Len(sec_info) :
          x < y => sec_info'[x].addr + sec_info'[x].size <= sec_info'[y].addr
    <3> SUFFICES ASSUME NEW x \in 1 .. Len(sec_info), NEW y \in 1 .. Len(sec_info), x < y
                 PROVE  sec_info'[x].addr + sec_info'[x].size <= sec_info'[y].addr
      OBVIOUS
    <3>1. x # last
      <4>1. \A n_ \in Nat : \A b \in 1 .. n_ : x < b => x # n_
        OBVIOUS
      <4>2. Len(sec_info) \in Nat
        BY <1>7
      <4> QED
        BY <4>1, <4>2
    <3> QED
      BY <1>11, <3>1 DEF PlacedInv, AddrInv, End
  <2>3. image' = image /\ sections' = sections /\ Len(sec_info') = Len(sec_info)
    BY <1>1, <1>10
  <2> QED
    BY <2>1, <2>2, <2>3, Zenon DEF AddrInv, End, Aligned
<1>16. CoverInv'
  <2> SUFFICES ASSUME NEW y \in 1 .. Len(sections), y \notin todo', Class(sections[y]) # "none",
                      Class(sections[y]) = "stab" => image.do_debug, sections[y].size > 0
               PROVE  \E x \in 1 .. Len(sec_info') :
                        LET f == sec_info'[x] IN
                        /\ f.addr <= sh_addr'[y] /\ sh_addr'[y] + sections[y].size <= f.addr + f.size
                        /\ sections[y].type # "NOBITS" => f.ord = y
    BY <1>1 DEF CoverInv, Holds, Kept, End, Class
  <2>1. CASE y = s
    <3>1. e.addr <= place
      <4>1. sec_info[last].addr \in Nat /\ sec_info[last].size \in Nat
            /\ sec_info[last].addr + sec_info[last].size <= addr
        BY <1>7, <1>8
      <4> QED
        BY <1>2, <1>5, <1>9, <4>1
    <3> QED
      BY <1>4, <1>6, <1>7, <1>9, <1>10, <1>13, <2>1, <3>1
  <2>2. CASE y # s
    <3>1. PICK x \in 1 .. Len(sec_info) : Holds(sec_info[x], y)
      BY <1>1, <2>2 DEF PlacedInv, CoverInv, Kept
    <3>2. sh_addr'[y] = sh_addr[y] /\ sh_addr[y] \in Nat /\ sections[y].size \in Nat
      <4>1. sections[y] \in Section
        BY <1>2 DEF ImgTypes, SecTypes
      <4> QED
        BY <1>2, <1>13, <2>2, <4>1 DEF ImgTypes, Section
    <3>3. sh_addr[y] + sections[y].size <= sec_info'[x].addr + sec_info'[x].size
      <4>1. sh_addr[y] + sections[y].size <= sec_info[x].addr + sec_info[x].size
        BY <3>1 DEF Holds, End
      <4>2. /\ sec_info'[x].addr = sec_info[x].addr /\ sec_info'[x].size \in Nat
            /\ sec_info[x].size <= sec_info'[x].size
            /\ sec_info[x].addr \in Nat /\ sec_info[x].size \in Nat
        BY <1>8, <1>11
      <4>3. \A a, b, n_, m \in Nat : a <= b + n_ /\ n_ <= m => a <= b + m
        OBVIOUS
      <4>4. sh_addr[y] + sections[y].size \in Nat
        BY <3>2
      <4> QED
        BY <4>1, <4>2, <4>3, <4>4
    <3> QED
      BY <1>10, <1>11, <3>1, <3>2, <3>3 DEF Holds
  <2> QED
    BY <2>1, <2>2
<1>17. HeadInv'
  <2>1. sec_info' \in Seq(Entry') /\ file_offset' \in Nat
    BY <1>1, <1>10 DEF Entry, PlacedInv, HeadInv
  <2> QED
    BY <1>1, <2>1, NothingWritten DEF PlacedInv
<1> QED
  BY <1>12, <1>15, <1>16, <1>17 DEF PlacedInv

LEMMA EndRelocKeeps ==
  ASSUME PlacedInv, NEW s \in DOMAIN sections, L!EndReloc(s),
         Len(IF count # 0 THEN L!Stored ELSE reloc) \in Nat
  PROVE  PlacedInv'
<1> DEFINE size == 2 * Len(IF count # 0 THEN L!Stored ELSE reloc)
<1>1. /\ L!First(s) /\ pc = "reloc" /\ todo' = todo \ {s} /\ pc' = "write"
      /\ sections' = Resized(sections, s, size) /\ L!Counted(s, addr, size)
      /\ file_offset' = L!AlignUp(image.head + Len(sec_info'), image.file_align)
      /\ UNCHANGED <<image, sh_addr, headers, SizeOfImage>>
  BY DEF L!EndReloc, Resized
<1>2. size \in Nat
  OBVIOUS
<1> HIDE DEF size
<1>3. ImgTypes /\ image \in Images /\ addr \in Nat /\ image.base < addr
  BY DEF PlacedInv, ImgTypes
<1>4. /\ s \in todo /\ s \in 1 .. Len(sections) /\ s = Len(sections) /\ todo' = {}
  <2>1. s \in todo /\ todo = {Len(sections)}
    BY <1>1, <1>3, RelocLast DEF ImgTypes
  <2> QED
    BY <1>1, <1>3, <2>1, RelocLast
<1>5. sections[s].size <= size /\ sections \in Seq(Section)
  BY <1>1, <1>2, <1>3, <1>4 DEF ImgTypes, SecTypes
<1>6. sh_addr' = [sh_addr EXCEPT ![s] = addr] /\ Aligned(addr)
  BY <1>1, <1>3, <1>4 DEF ImgTypes
<1>7. AddrInv' /\ CoverInv' /\ sec_info' \in Seq(Entry)' /\ addr' \in Nat /\ image.base < addr'
  <2>1. PICK place \in Nat : place = addr
    BY <1>3
  <2>2. addr <= place
    BY <2>1
  <2>3. /\ sh_addr' = [sh_addr EXCEPT ![s] = place] /\ Aligned(place) /\ image.base < place
        /\ L!Counted(s, place, size) /\ image' = image
    BY <1>1, <1>3, <1>6, <2>1
  <2> QED
    BY <1>1, <1>2, <1>4, <1>5, <2>2, <2>3, CountedKeeps DEF PlacedInv, Placing
<1>8. SecTypes'
  BY <1>1, <1>2, <1>3, <1>4, <1>5, ResizedTypes DEF ImgTypes
<1>9. Len(sections') = Len(sections)
  BY <1>1, <1>2, <1>4, <1>5, ResizedIs
<1>10. ImgTypes'
  BY <1>1, <1>3, <1>4, <1>7, <1>8, <1>9 DEF ImgTypes
<1>11. HeadInv'
  <2>1. image.head + Len(sec_info') \in Nat /\ image.file_align \in Nat \ {0}
    <3>1. Len(sec_info') \in Nat
      BY <1>7
    <3> QED
      BY <1>3, <3>1, ImageIs
  <2>2. file_offset' \in Nat /\ file_offset' % image.file_align = 0
    BY <1>1, <2>1, AlignUpIs
  <2>3. FileAligned(file_offset)'
    BY <1>1, <2>2 DEF FileAligned
  <2> QED
    BY <1>1, <1>7, <2>2, <2>3, NothingWritten DEF PlacedInv
<1> QED
  BY <1>7, <1>10, <1>11 DEF PlacedInv

LEMMA WriteHeaderKeeps ==
  ASSUME PlacedInv, L!WriteHeader
  PROVE  PlacedInv'
<1> DEFINE e == sec_info[Len(headers) + 1]
           rva == e.addr - image.base
           end == IF e.data = 0 THEN file_offset ELSE L!AlignUp(file_offset + e.data, image.file_align)
           h == [VirtualAddress |-> rva, VirtualSize |-> e.size,
                 PointerToRawData |-> IF e.data = 0 THEN 0 ELSE file_offset,
                 SizeOfRawData |-> end - file_offset]
<1>1. /\ pc = "write" /\ Len(headers) < Len(sec_info) /\ headers' = Append(headers, h)
      /\ SizeOfImage' = L!Max({SizeOfImage, L!AlignUp(e.size + rva, image.section_align)})
      /\ file_offset' = end
      /\ UNCHANGED <<image, sections, sh_addr, sec_info, todo, addr, pc>>
  BY DEF L!WriteHeader, L!assignVars
<1>2. ImgTypes /\ image \in Images /\ sec_info \in Seq(Entry)
  BY DEF PlacedInv, ImgTypes
<1>3. /\ image.base \in Nat /\ image.section_align \in Nat \ {0} /\ image.file_align \in Nat \ {0}
  BY <1>2, ImageIs
<1> DEFINE H == [VirtualAddress : Nat, VirtualSize : Nat, PointerToRawData : Nat, SizeOfRawData : Nat]
<1>4. /\ headers \in Seq(H) /\ SizeOfImage \in Nat /\ file_offset \in Nat /\ FileAligned(file_offset)
      /\ Len(headers) \in Nat
  BY <1>1 DEF PlacedInv, HeadInv
<1>5. Len(headers) + 1 \in 1 .. Len(sec_info)
  BY <1>1, <1>2, <1>4
<1>6. e \in Entry /\ image.base < e.addr
  BY <1>2, <1>5 DEF PlacedInv, AddrInv
<1> HIDE DEF e
<1>7. e.addr \in Nat /\ e.size \in Nat /\ e.data \in Nat
  BY <1>6 DEF Entry
<1>8. rva \in Nat
  BY <1>3, <1>6, <1>7
<1> HIDE DEF rva
<1>9. /\ end \in Nat /\ file_offset + e.data <= end /\ end % image.file_align = 0
      /\ e.data = 0 => end = file_offset
  <2>1. CASE e.data = 0
    BY <1>4, <2>1 DEF FileAligned
  <2>2. CASE e.data # 0
    <3>1. file_offset + e.data \in Nat
      BY <1>4, <1>7
    <3>2. end = L!AlignUp(file_offset + e.data, image.file_align)
      BY <2>2
    <3> HIDE DEF end
    <3> QED
      BY <1>3, <2>2, <3>1, <3>2, AlignUpIs
  <2> QED
    BY <2>1, <2>2
<1> HIDE DEF end
<1>10. SizeOfImage' \in Nat /\ SizeOfImage <= SizeOfImage' /\ rva + e.size <= SizeOfImage'
  <2>1. PICK z : z = L!AlignUp(e.size + rva, image.section_align)
    OBVIOUS
  <2>2. e.size + rva \in Nat
    BY <1>7, <1>8
  <2>3. z \in Nat /\ e.size + rva <= z
    BY <1>3, <2>1, <2>2, AlignUpIs
  <2>4. SizeOfImage' \in {SizeOfImage, z} /\ SizeOfImage <= SizeOfImage' /\ z <= SizeOfImage'
    <3>1. SizeOfImage' = L!Max({SizeOfImage, z})
      BY <1>1, <2>1
    <3>2. SizeOfImage \in Int /\ z \in Int
      BY <1>4, <2>3
    <3> QED
      BY <3>1, <3>2, ImgMaxIs
  <2> QED
    BY <1>4, <1>7, <1>8, <2>3, <2>4
<1>11. FileAligned(0)
  BY <1>3, ModIs DEF FileAligned
<1>12. /\ h \in H /\ h.VirtualAddress = rva /\ h.VirtualSize = e.size
       /\ FileAligned(h.PointerToRawData) /\ e.data <= h.SizeOfRawData
       /\ h.SizeOfRawData # 0 => h.PointerToRawData = file_offset
       /\ h.SizeOfRawData # 0 => h.PointerToRawData + h.SizeOfRawData = end
  BY <1>4, <1>7, <1>8, <1>9, <1>11
<1> HIDE DEF h
<1>13. /\ headers' \in Seq(H) /\ Len(headers') = Len(headers) + 1 /\ headers'[Len(headers) + 1] = h
       /\ \A x \in 1 .. Len(headers) : headers'[x] = headers[x]
       /\ \A x \in 1 .. Len(headers') : x \in 1 .. Len(headers) \/ x = Len(headers) + 1
  BY <1>1, <1>4, <1>12
<1>14. file_offset' \in Nat /\ file_offset <= file_offset' /\ file_offset' = end
       /\ FileAligned(file_offset)'
  BY <1>1, <1>4, <1>7, <1>9 DEF FileAligned
<1>15. \A x \in 1 .. Len(headers') : HeaderOf(headers[x], sec_info[x])'
  <2>0. SUFFICES ASSUME NEW x \in 1 .. Len(headers')
                 PROVE  HeaderOf(headers[x], sec_info[x])'
    OBVIOUS
  <2> PICK k, f : k = headers'[x] /\ f = sec_info[x]
    OBVIOUS
  <2> SUFFICES /\ k.VirtualAddress = f.addr - image.base /\ k.VirtualSize = f.size
               /\ k.PointerToRawData \in Nat /\ k.SizeOfRawData \in Nat
               /\ FileAligned(k.PointerToRawData)
               /\ f.data <= k.SizeOfRawData
               /\ k.SizeOfRawData # 0 => k.PointerToRawData + k.SizeOfRawData <= file_offset'
               /\ k.VirtualAddress + k.VirtualSize <= SizeOfImage'
    BY <1>1, Zenon DEF HeaderOf, FileAligned
  <2>1. CASE x \in 1 .. Len(headers)
    <3>1. k = headers[x] /\ HeaderOf(k, f)
      BY <1>13, <2>1 DEF PlacedInv, HeadInv
    <3>2. k \in H
      <4>1. \A R : \A w \in Seq(R) : \A y \in 1 .. Len(w) : w[y] \in R
        OBVIOUS
      <4> HIDE DEF H
      <4> QED
        BY <1>4, <2>1, <3>1, <4>1
    <3>3. /\ k.VirtualAddress \in Nat /\ k.VirtualSize \in Nat
          /\ k.PointerToRawData \in Nat /\ k.SizeOfRawData \in Nat
      BY <3>2
    <3>4. k.VirtualAddress + k.VirtualSize <= SizeOfImage'
      <4>1. k.VirtualAddress + k.VirtualSize <= SizeOfImage
        BY <3>1 DEF HeaderOf
      <4>2. SizeOfImage \in Nat /\ SizeOfImage' \in Nat /\ SizeOfImage <= SizeOfImage'
        BY <1>4, <1>10
      <4> QED
        BY <3>3, <4>1, <4>2
    <3>5. k.SizeOfRawData # 0 => k.PointerToRawData + k.SizeOfRawData <= file_offset'
      <4>1. k.SizeOfRawData # 0 => k.PointerToRawData + k.SizeOfRawData <= file_offset
        BY <3>1 DEF HeaderOf
      <4>2. file_offset \in Nat /\ file_offset' \in Nat /\ file_offset <= file_offset'
        BY <1>4, <1>14
      <4> QED
        BY <3>3, <4>1, <4>2
    <3> QED
      BY <3>1, <3>3, <3>4, <3>5 DEF HeaderOf
  <2>2. CASE x = Len(headers) + 1
    <3>1. k = h /\ f = e
      BY <1>13, <2>2 DEF e
    <3> QED
      BY <1>10, <1>12, <1>14, <3>1 DEF rva
  <2> QED
    BY <1>13, <2>1, <2>2
<1>16. \A x, y \in 1 .. Len(headers') :
         x < y /\ headers'[x].SizeOfRawData # 0 /\ headers'[y].SizeOfRawData # 0 =>
           headers'[x].PointerToRawData + headers'[x].SizeOfRawData <= headers'[y].PointerToRawData
  <2> SUFFICES ASSUME NEW x \in 1 .. Len(headers'), NEW y \in 1 .. Len(headers'), x < y,
                      headers'[x].SizeOfRawData # 0, headers'[y].SizeOfRawData # 0
               PROVE  headers'[x].PointerToRawData + headers'[x].SizeOfRawData
                        <= headers'[y].PointerToRawData
    OBVIOUS
  <2>1. x \in 1 .. Len(headers) /\ headers'[x] = headers[x]
    <3>1. Len(headers) \in Nat /\ Len(headers') = Len(headers) + 1
      BY <1>4, <1>13
    <3>2. x \in 1 .. Len(headers)
      BY <3>1
    <3> QED
      BY <1>13, <3>2
  <2>2. CASE y \in 1 .. Len(headers)
    BY <1>13, <2>1, <2>2 DEF PlacedInv, HeadInv
  <2>3. CASE y = Len(headers) + 1
    <3>1. headers'[y].PointerToRawData = file_offset
      BY <1>12, <1>13, <2>3
    <3> QED
      BY <2>1, <3>1 DEF PlacedInv, HeadInv, HeaderOf
  <2> QED
    BY <1>13, <2>2, <2>3
<1>17. HeadInv'
  <2>1. Len(headers') <= Len(sec_info')
    BY <1>1, <1>2, <1>4, <1>13
  <2> QED
    BY <1>1, <1>10, <1>13, <1>14, <1>15, <1>16, <2>1 DEF HeadInv
<1>18. ImgTypes'
  BY <1>1, <1>2 DEF ImgTypes, SecTypes, Class, Entry, Aligned
<1>19. AddrInv'
  BY <1>1 DEF PlacedInv, AddrInv, End, Aligned
<1>20. CoverInv'
  BY <1>1 DEF PlacedInv, CoverInv, Holds, End, Kept, Class
<1> QED
  BY <1>17, <1>18, <1>19, <1>20 DEF PlacedInv

LEMMA WriteFileKeeps ==
  ASSUME PlacedInv, L!WriteFile
  PROVE  PlacedInv'
<1>1. /\ pc = "write" /\ Len(headers) = Len(sec_info) /\ pc' = "written"
      /\ UNCHANGED <<image, sections, sh_addr, sec_info, todo, addr, headers, file_offset, SizeOfImage>>
  BY DEF L!WriteFile, L!assignVars, L!writeVars
<1>2. ImgTypes'
  BY <1>1 DEF PlacedInv, ImgTypes, SecTypes, Class, Entry, Aligned
<1>3. AddrInv'
  BY <1>1 DEF PlacedInv, AddrInv, End, Aligned
<1>4. CoverInv'
  BY <1>1 DEF PlacedInv, CoverInv, Holds, End, Kept, Class
<1>5. HeadInv'
  BY <1>1 DEF PlacedInv, HeadInv, HeaderOf, FileAligned
<1> QED
  BY <1>2, <1>3, <1>4, <1>5 DEF PlacedInv

\* the words of .reloc and what the loader reads concern none of it
LEMMA PlacedStays ==
  ASSUME PlacedInv,
         UNCHANGED <<image, sections, sh_addr, sec_info, todo, addr, headers, file_offset, SizeOfImage, pc>>
  PROVE  PlacedInv'
<1>2. ImgTypes'
  BY DEF PlacedInv, ImgTypes, SecTypes, Class, Entry, Aligned
<1>3. AddrInv'
  BY DEF PlacedInv, AddrInv, End, Aligned
<1>4. CoverInv'
  BY DEF PlacedInv, CoverInv, Holds, End, Kept, Class
<1>5. HeadInv'
  BY DEF PlacedInv, HeadInv, HeaderOf, FileAligned
<1> QED
  BY <1>2, <1>3, <1>4, <1>5 DEF PlacedInv

LEMMA PlacedFirst ==
  ASSUME L!Init
  PROVE  PlacedInv
<1> DEFINE R == [name |-> "reloc", type |-> "PROGBITS", flags |-> {},
                 size |-> 0, align |-> 1, reloc |-> << >>]
           S == image.sections
<1>1. /\ image \in Images /\ sections = Append(S, R) /\ sec_info = << >> /\ addr = image.base + 1
      /\ sh_addr = [s \in DOMAIN sections |-> IF L!ClassOf(s) = "none" THEN 0 ELSE image.base]
      /\ todo = {s \in DOMAIN sections : L!ClassOf(s) # "none"}
      /\ headers = << >> /\ file_offset = 0 /\ SizeOfImage = 0 /\ pc = "assign"
  BY DEF L!Init
<1>2. image.base \in Nat /\ S \in Seq(Section) /\ \A s \in DOMAIN S : L!WellFormed(S[s])
  BY <1>1, ImageIs
<1>3. R \in Section /\ R.reloc = << >> /\ R.size = 0 /\ Class(R) = "reloc"
  <2>1. R.reloc = << >> /\ R.size = 0 /\ Class(R) = "reloc"
    BY DEF Class, L!pe_section_class
  <2>2. << >> \in Seq([offset : Nat, type : STRING])
    OBVIOUS
  <2>3. {} \in SUBSET {"ALLOC", "WRITE", "EXECINSTR"} /\ 0 \in Nat /\ 1 \in Nat \ {0}
    OBVIOUS
  <2> QED
    BY <2>1, <2>2, <2>3 DEF Section
<1> HIDE DEF R, S
<1>4. /\ sections \in Seq(Section) /\ Len(S) \in Nat /\ Len(sections) = Len(S) + 1
      /\ sections[Len(sections)] = R /\ DOMAIN sections = 1 .. Len(sections)
      /\ \A s \in 1 .. Len(S) : sections[s] = S[s]
      /\ \A s \in 1 .. Len(sections) : s \in 1 .. Len(S) \/ s = Len(sections)
  BY <1>1, <1>2, <1>3
<1>5. \A s \in 1 .. Len(S) : L!WellFormed(S[s]) /\ s # Len(sections)
  BY <1>2, <1>4
<1>6. SecTypes
  <2>1. \A s \in 1 .. Len(sections) : Class(sections[s]) = "reloc" <=> s = Len(sections)
    BY <1>3, <1>4, <1>5 DEF L!WellFormed, Class
  <2>2. \A s \in 1 .. Len(sections) :
          /\ \A x \in L!Absolutes(sections[s]) : sections[s].reloc[x].offset < sections[s].size
          /\ \A x, y \in L!Absolutes(sections[s]) :
               sections[s].reloc[x].offset = sections[s].reloc[y].offset => x = y
    <3> TAKE s \in 1 .. Len(sections)
    <3>1. CASE s \in 1 .. Len(S)
      BY <1>4, <1>5, <3>1 DEF L!WellFormed
    <3>2. CASE s = Len(sections)
      <4>1. L!Absolutes(sections[s]) = {}
        BY <1>3, <1>4, <3>2 DEF L!Absolutes
      <4> QED
        BY <4>1
    <3> QED
      BY <1>4, <3>1, <3>2
  <2> QED
    BY <1>3, <1>4, <2>1, <2>2 DEF SecTypes
<1>7. \A s \in 1 .. Len(sections) : L!ClassOf(s) = Class(sections[s])
  BY DEF L!ClassOf, Class
<1>8. todo = {s \in 1 .. Len(sections) : Class(sections[s]) # "none"}
  BY <1>1, <1>4, <1>7
<1>9. sec_info \in Seq(Entry) /\ Len(sec_info) = 0
  BY <1>1
<1>10. ImgTypes
  <2>1. sh_addr \in [1 .. Len(sections) -> Nat]
    BY <1>1, <1>2, <1>4
  <2>2. Len(sections) \in todo
    BY <1>3, <1>4, <1>8
  <2>3. addr \in Nat /\ image.base < addr
    BY <1>1, <1>2
  <2>4. sections[Len(sections)].size = 0
    BY <1>3, <1>4
  <2> QED
    BY <1>1, <1>6, <1>8, <1>9, <2>1, <2>2, <2>3, <2>4 DEF ImgTypes
<1>11. AddrInv
  BY <1>9 DEF AddrInv
<1>12. CoverInv
  BY <1>8 DEF CoverInv
<1>13. HeadInv
  BY <1>1, <1>9 DEF HeadInv
<1> QED
  BY <1>10, <1>11, <1>12, <1>13 DEF PlacedInv

\* what the headers say in the end
LEMMA PlacedHolds ==
  ASSUME PlacedInv
  PROVE  L!Placed
<1> SUFFICES ASSUME pc = "written"
             PROVE  L!Placed
  BY DEF L!Placed
<1>1. ImgTypes /\ AddrInv /\ CoverInv /\ HeadInv /\ todo = {} /\ sec_info \in Seq(Entry)
      /\ image \in Images
  BY DEF PlacedInv, ImgTypes
<1>2. image.base \in Nat
  BY <1>1, ImageIs
<1>3. /\ DOMAIN headers = 1 .. Len(headers) /\ Len(headers) = Len(sec_info)
      /\ L!ToSet(headers) = {headers[x] : x \in 1 .. Len(sec_info)}
  BY <1>1 DEF HeadInv, L!ToSet
<1>4. ASSUME NEW x \in 1 .. Len(sec_info)
      PROVE  /\ HeaderOf(headers[x], sec_info[x]) /\ image.base < sec_info[x].addr
             /\ Aligned(sec_info[x].addr) /\ sec_info[x].addr \in Nat /\ sec_info[x].size \in Nat
  <2>1. sec_info[x] \in Entry
    BY <1>1
  <2> QED
    BY <1>1, <1>3, <2>1 DEF HeadInv, AddrInv, Entry
<1>5. ASSUME NEW h \in L!ToSet(headers)
      PROVE  /\ h.VirtualAddress % image.section_align = 0
             /\ h.PointerToRawData % image.file_align = 0
             /\ h.VirtualAddress + h.VirtualSize <= SizeOfImage
             /\ h.VirtualAddress > 0
  <2>1. PICK x \in 1 .. Len(sec_info) : h = headers[x]
    BY <1>3
  <2>2. HeaderOf(h, sec_info[x]) /\ image.base < sec_info[x].addr /\ sec_info[x].addr \in Nat
    BY <1>4, <2>1
  <2>3. h.VirtualAddress > 0
    BY <1>2, <2>2 DEF HeaderOf
  <2>4. Aligned(sec_info[x].addr) /\ h.VirtualAddress = sec_info[x].addr - image.base
    BY <1>4, <2>2 DEF HeaderOf
  <2> QED
    BY <2>2, <2>3, <2>4, Zenon DEF HeaderOf, Aligned, FileAligned
<1>6. ASSUME NEW p \in DOMAIN headers, NEW q \in DOMAIN headers, p < q
      PROVE  /\ headers[p].VirtualAddress + headers[p].VirtualSize <= headers[q].VirtualAddress
             /\ {headers[p].SizeOfRawData, headers[q].SizeOfRawData} \cap {0} = {} =>
                  headers[p].PointerToRawData + headers[p].SizeOfRawData <= headers[q].PointerToRawData
  <2>0. p \in 1 .. Len(sec_info) /\ q \in 1 .. Len(sec_info)
        /\ p \in 1 .. Len(headers) /\ q \in 1 .. Len(headers)
    BY <1>3
  <2>1. /\ HeaderOf(headers[p], sec_info[p]) /\ HeaderOf(headers[q], sec_info[q])
        /\ sec_info[p].addr \in Nat /\ sec_info[p].size \in Nat /\ sec_info[q].addr \in Nat
    BY <1>3, <1>4
  <2>2. sec_info[p].addr + sec_info[p].size <= sec_info[q].addr
    <3>1. \A x, y \in 1 .. Len(sec_info) : x < y => End(sec_info[x]) <= sec_info[y].addr
      BY <1>1, Zenon DEF AddrInv
    <3> QED
      BY <1>6, <2>0, <3>1 DEF End
  <2>3. headers[p].VirtualAddress + headers[p].VirtualSize <= headers[q].VirtualAddress
    BY <1>2, <2>1, <2>2 DEF HeaderOf
  <2>4. headers[p].SizeOfRawData # 0 /\ headers[q].SizeOfRawData # 0 =>
          headers[p].PointerToRawData + headers[p].SizeOfRawData <= headers[q].PointerToRawData
    <3>1. \A x, y \in 1 .. Len(headers) :
            x < y /\ headers[x].SizeOfRawData # 0 /\ headers[y].SizeOfRawData # 0 =>
              headers[x].PointerToRawData + headers[x].SizeOfRawData <= headers[y].PointerToRawData
      BY <1>1, Zenon DEF HeadInv
    <3> QED
      BY <1>6, <2>0, <3>1
  <2> QED
    BY <2>3, <2>4
<1>7. ASSUME NEW s \in DOMAIN sections, sections[s].size > 0, L!ClassOf(s) # "none", L!Kept(s)
      PROVE  \E h \in L!ToSet(headers) :
               /\ L!Within(sh_addr[s] - image.base, sections[s].size, h)
               /\ sections[s].type # "NOBITS" =>
                    sh_addr[s] - image.base = h.VirtualAddress /\ h.SizeOfRawData >= sections[s].size
  <2>1. s \in 1 .. Len(sections) /\ sections[s] \in Section
    BY <1>1 DEF ImgTypes, SecTypes
  <2>2. Class(sections[s]) # "none" /\ Kept(sections[s])
    BY <1>7 DEF L!ClassOf, Class, L!Kept, Kept
  <2>3. PICK x \in 1 .. Len(sec_info) : Holds(sec_info[x], s)
    BY <1>1, <1>7, <2>1, <2>2 DEF CoverInv
  <2> PICK h, e : h = headers[x] /\ e = sec_info[x]
    OBVIOUS
  <2>4. h \in L!ToSet(headers)
    BY <1>3
  <2>5. HeaderOf(h, e) /\ image.base < e.addr /\ e.addr \in Nat /\ e.size \in Nat
    BY <1>4
  <2>6. sh_addr[s] \in Nat /\ sections[s].size \in Nat
    BY <1>1, <2>1 DEF ImgTypes, Section
  <2>7. e.addr <= sh_addr[s] /\ sh_addr[s] + sections[s].size <= e.addr + e.size
    BY <2>3 DEF Holds, End
  <2>8. L!Within(sh_addr[s] - image.base, sections[s].size, h)
    BY <1>2, <2>5, <2>6, <2>7 DEF L!Within, HeaderOf
  <2>9. ASSUME sections[s].type # "NOBITS"
        PROVE  sh_addr[s] - image.base = h.VirtualAddress /\ h.SizeOfRawData >= sections[s].size
    <3>1. e.ord = s
      BY <2>3, <2>9 DEF Holds
    <3>2. sh_addr[s] = e.addr /\ e.data = sections[s].size
      BY <1>1, <2>9, <3>1 DEF AddrInv
    <3> QED
      BY <2>5, <2>6, <3>2 DEF HeaderOf
  <2> QED
    BY <2>4, <2>8, <2>9
<1> QED
  BY <1>5, <1>6, <1>7 DEF L!Placed

-----------------------------------------------------------------------------
(* .reloc: a chain of blocks, each word in it the place of one address.    *)

Word == Int \cup [at : Int, type : {"HIGHLOW", "ABSOLUTE"}]

\* W gives the places that words stand for, B the lengths of closed blocks,
\* which are the words up to lim
BlockAt(W, B, w, lim, b) ==
  /\ b \in Nat /\ B[b] \in Nat /\ 5 <= B[b] /\ b + B[b] <= lim /\ b + B[b] \in DOMAIN B \cup {lim}
  /\ w[b + 3] = 2 * B[b] /\ \E m \in Nat : B[b] = 2 * m
  /\ \A k \in b + 5 .. b + B[b] :
       /\ w[k].type = "HIGHLOW" <=> k \in DOMAIN W
       /\ k \in DOMAIN W => W[k] = w[b + 1] + w[k].at
Chain(W, B, w, lim) ==
  /\ w \in Seq(Word) /\ lim \in 0 .. Len(w)
  /\ 0 \in DOMAIN B \cup {lim}
  /\ \A b \in DOMAIN B : BlockAt(W, B, w, lim, b)
  /\ \A b, c \in DOMAIN B : b < c => b + B[b] <= c
  /\ \A k \in DOMAIN W :
       k \in 1 .. Len(w) /\ (k <= lim => \E b \in DOMAIN B : k \in b + 5 .. b + B[b])

\* a word for one more place
Grown(W, n_, place) == [k \in DOMAIN W \cup {n_} |-> IF k \in DOMAIN W THEN W[k] ELSE place]
IsSum(x, y, z) == x + y = z
NoHeader == <<0, 0, 0, 0>>
Behind(w, fill, a) == w \o fill \o << [at |-> a, type |-> "HIGHLOW"] >>

\* the block that still grows
Open(W, w, lim, page) ==
  /\ lim \in Nat /\ lim + 5 <= Len(w)
  /\ \A k \in DOMAIN W : k <= lim \/ lim + 5 <= k
  /\ \A k \in lim + 5 .. Len(w) :
       k \in DOMAIN W /\ w[k].type = "HIGHLOW" /\ W[k] = page + w[k].at

Agree(W, w, V, v, lim) ==
  \A k \in 1 .. lim :
    v[k] = w[k] /\ (k \in DOMAIN V <=> k \in DOMAIN W) /\ (k \in DOMAIN W => V[k] = W[k])

\* words behind lim are not the chain's
LEMMA ChainIsBefore ==
  ASSUME NEW W, NEW B, NEW w, NEW lim, Chain(W, B, w, lim),
         NEW V, NEW v \in Seq(Word), lim <= Len(v),
         Agree(W, w, V, v, lim),
         DOMAIN V \subseteq 1 .. Len(v)
  PROVE  Chain(V, B, v, lim)
<1>1. lim \in Nat /\ 0 \in DOMAIN B \cup {lim} /\ Len(v) \in Nat
  BY DEF Chain
<1>2. ASSUME NEW b \in DOMAIN B
      PROVE  BlockAt(V, B, v, lim, b)
  <2>1. BlockAt(W, B, w, lim, b)
    BY DEF Chain
  <2>2. b \in Nat /\ B[b] \in Nat /\ 5 <= B[b] /\ b + B[b] <= lim
    BY <2>1 DEF BlockAt
  <2>3. b + 3 \in 1 .. lim /\ b + 1 \in 1 .. lim
    BY <1>1, <2>2
  <2>4. \A k \in b + 5 .. b + B[b] : k \in 1 .. lim
    BY <1>1, <2>2
  <2> QED
    BY <2>1, <2>3, <2>4 DEF BlockAt, Agree
<1>3. \A b, c \in DOMAIN B : b < c => b + B[b] <= c
  BY Zenon DEF Chain
<1>4. ASSUME NEW k \in DOMAIN V, k <= lim
      PROVE  \E b \in DOMAIN B : k \in b + 5 .. b + B[b]
  <2>1. k \in 1 .. lim
    BY <1>1, <1>4
  <2>2. k \in DOMAIN W
    BY <2>1 DEF Agree
  <2> QED
    BY <1>4, <2>2, Zenon DEF Chain
<1> QED
  BY <1>1, <1>2, <1>3, <1>4 DEF Chain

\* a word for a place, in a new block or in the one that grows
LEMMA ChainOpens ==
  ASSUME NEW W, NEW B, NEW w, NEW lim, Chain(W, B, w, lim), lim = Len(w),
         NEW place \in Int, NEW page \in Int, NEW a \in Int, IsSum(page, a, place),
         NEW v, v = Behind(w, NoHeader, a),
         NEW V, V = Grown(W, Len(v), place)
  PROVE  Chain(V, B, v, lim) /\ Open(V, v, lim, page) /\ Len(v) = Len(w) + 5
         /\ Len(v) \notin DOMAIN W
<1> DEFINE x == [at |-> a, type |-> "HIGHLOW"]
<1>1. w \in Seq(Word) /\ Len(w) \in Nat /\ x \in Word /\ 0 \in Word
  BY DEF Chain, Word
<1>2. x.at = a /\ x.type = "HIGHLOW"
  OBVIOUS
<1> HIDE DEF x
<1>3. /\ v \in Seq(Word) /\ Len(v) = Len(w) + 5 /\ v[Len(v)] = x
      /\ \A k \in 1 .. Len(w) : v[k] = w[k]
  <2> PICK z : z = <<0, 0, 0, 0>>
    OBVIOUS
  <2>1. z \in Seq(Word) /\ Len(z) = 4
    BY <1>1
  <2>2. <<x>> \in Seq(Word) /\ Len(<<x>>) = 1 /\ <<x>>[1] = x
    BY <1>1
  <2> PICK y : y = w \o z
    OBVIOUS
  <2>3. y \in Seq(Word) /\ Len(y) = Len(w) + 4 /\ \A k \in 1 .. Len(w) : y[k] = w[k]
    BY <1>1, <2>1
  <2>4. v = y \o <<x>>
    BY DEF x, Behind, NoHeader
  <2> QED
    <3>1. /\ v \in Seq(Word) /\ Len(v) = Len(y) + 1 /\ v[Len(v)] = x
          /\ \A k \in 1 .. Len(y) : v[k] = y[k]
      <4>1. v = Append(y, x)
        BY <1>1, <2>3, <2>4
      <4> QED
        BY <1>1, <2>3, <4>1
    <3>2. \A k \in 1 .. Len(w) : k \in 1 .. Len(y)
      BY <1>1, <2>3
    <3> QED
      BY <1>1, <2>3, <3>1, <3>2
<1>4. \A k \in DOMAIN W : k \in 1 .. Len(w)
  BY Zenon DEF Chain
<1>5. Len(v) \notin DOMAIN W /\ DOMAIN V = DOMAIN W \cup {Len(v)} /\ V[Len(v)] = place
      /\ \A k \in DOMAIN W : V[k] = W[k]
  BY <1>1, <1>3, <1>4 DEF Grown
<1>6. Chain(V, B, v, Len(w))
  <2>1. DOMAIN V \subseteq 1 .. Len(v)
    BY <1>1, <1>3, <1>4, <1>5
  <2>2. Agree(W, w, V, v, Len(w))
    BY <1>1, <1>3, <1>5 DEF Agree
  <2>3. Len(w) <= Len(v)
    BY <1>1, <1>3
  <2> QED
    BY <1>3, <2>1, <2>2, <2>3, ChainIsBefore
<1>7. Open(V, v, Len(w), page)
  <2>1. \A k \in Len(w) + 5 .. Len(v) : k = Len(v)
    BY <1>1, <1>3
  <2>2. \A k \in DOMAIN V : k <= Len(w) \/ Len(w) + 5 <= k
    BY <1>1, <1>3, <1>4, <1>5
  <2>3. Len(w) + 5 <= Len(v)
    BY <1>1, <1>3
  <2> QED
    BY <1>1, <1>2, <1>3, <1>5, <2>1, <2>2, <2>3 DEF Open, IsSum
<1> QED
  BY <1>3, <1>5, <1>6, <1>7

LEMMA ChainGrows ==
  ASSUME NEW W, NEW B, NEW w, NEW lim, Chain(W, B, w, lim),
         NEW place \in Int, NEW page \in Int, NEW a \in Int, IsSum(page, a, place),
         Open(W, w, lim, page),
         NEW v, v = Behind(w, << >>, a),
         NEW V, V = Grown(W, Len(v), place)
  PROVE  Chain(V, B, v, lim) /\ Open(V, v, lim, page) /\ Len(v) = Len(w) + 1
         /\ Len(v) \notin DOMAIN W
<1> DEFINE x == [at |-> a, type |-> "HIGHLOW"]
<1>1. w \in Seq(Word) /\ Len(w) \in Nat /\ x \in Word /\ lim \in Nat /\ lim + 5 <= Len(w)
  BY DEF Chain, Word, Open
<1>2. x.at = a /\ x.type = "HIGHLOW"
  OBVIOUS
<1> HIDE DEF x
<1>3. /\ v \in Seq(Word) /\ Len(v) = Len(w) + 1 /\ v[Len(v)] = x
      /\ \A k \in 1 .. Len(w) : v[k] = w[k]
  <2>1. <<x>> \in Seq(Word) /\ Len(<<x>>) = 1 /\ <<x>>[1] = x
    BY <1>1
  <2>2. w \o << >> = w
    BY <1>1
  <2>3. v = w \o <<x>>
    BY <2>2 DEF x, Behind
  <2> QED
    <3>1. /\ v \in Seq(Word) /\ Len(v) = Len(w) + 1 /\ v[Len(v)] = x
          /\ \A k \in 1 .. Len(w) : v[k] = w[k]
      <4>1. v = Append(w, x)
        BY <1>1, <2>3
      <4> QED
        BY <1>1, <4>1
    <3> QED
      BY <3>1
<1>4. \A k \in DOMAIN W : k \in 1 .. Len(w)
  BY Zenon DEF Chain
<1>5. Len(v) \notin DOMAIN W /\ DOMAIN V = DOMAIN W \cup {Len(v)} /\ V[Len(v)] = place
      /\ \A k \in DOMAIN W : V[k] = W[k]
  BY <1>1, <1>3, <1>4 DEF Grown
<1>6. Chain(V, B, v, lim)
  <2>1. DOMAIN V \subseteq 1 .. Len(v)
    BY <1>1, <1>3, <1>4, <1>5
  <2>2. Agree(W, w, V, v, lim)
    BY <1>1, <1>3, <1>5 DEF Agree
  <2>3. lim <= Len(v)
    BY <1>1, <1>3
  <2> QED
    BY <1>3, <2>1, <2>2, <2>3, ChainIsBefore
<1>7. Open(V, v, lim, page)
  <2>1. \A k \in lim + 5 .. Len(v) : k \in lim + 5 .. Len(w) \/ k = Len(v)
    BY <1>1, <1>3
  <2>2. \A k \in DOMAIN V : k <= lim \/ lim + 5 <= k
    BY <1>1, <1>3, <1>5 DEF Open
  <2>3. \A k \in lim + 5 .. Len(w) : k \in DOMAIN V /\ v[k].type = "HIGHLOW" /\ V[k] = page + v[k].at
    <3> TAKE k \in lim + 5 .. Len(w)
    <3>1. k \in DOMAIN W /\ w[k].type = "HIGHLOW" /\ W[k] = page + w[k].at
      BY DEF Open
    <3>2. k \in 1 .. Len(w)
      BY <1>1
    <3> QED
      BY <1>3, <1>5, <3>1, <3>2
  <2>4. lim + 5 <= Len(v)
    BY <1>1, <1>3
  <2>5. v[Len(v)].type = "HIGHLOW" /\ V[Len(v)] = page + v[Len(v)].at
    BY <1>2, <1>3, <1>5 DEF IsSum
  <2> QED
    BY <1>1, <1>5, <2>1, <2>2, <2>3, <2>4, <2>5 DEF Open
<1> QED
  BY <1>3, <1>5, <1>6, <1>7

\* the block that grew gets its length and joins the chain
LEMMA ChainCloses ==
  ASSUME NEW W, NEW B, NEW w, NEW lim, Chain(W, B, w, lim),
         NEW page \in Int, Open(W, w, lim, page),
         NEW v \in Seq(Word), NEW len \in Nat, lim + len = Len(v), NEW m \in Nat, len = 2 * m,
         Len(v) \in {Len(w), Len(w) + 1},
         \A k \in 1 .. lim : v[k] = w[k],
         \A k \in lim + 5 .. Len(w) : v[k] = w[k],
         Len(v) # Len(w) => v[Len(v)].type = "ABSOLUTE",
         v[lim + 1] = page, v[lim + 3] = 2 * len
  PROVE  \E C : Chain(W, C, v, Len(v))
<1> DEFINE C == [b \in DOMAIN B \cup {lim} |-> IF b \in DOMAIN B THEN B[b] ELSE len]
<1>1. /\ w \in Seq(Word) /\ Len(w) \in Nat /\ Len(v) \in Nat /\ lim \in Nat
      /\ lim + 5 <= Len(w) /\ 5 <= len /\ Len(w) <= Len(v) /\ Len(v) <= Len(w) + 1
  BY DEF Chain, Open
<1>2. ASSUME NEW b \in DOMAIN B
      PROVE  /\ b \in Nat /\ B[b] \in Nat /\ 5 <= B[b] /\ b + B[b] <= lim
             /\ b # lim /\ BlockAt(W, B, w, lim, b)
  <2>1. BlockAt(W, B, w, lim, b)
    BY DEF Chain
  <2>2. b \in Nat /\ B[b] \in Nat /\ 5 <= B[b] /\ b + B[b] <= lim
    BY <2>1 DEF BlockAt
  <2> QED
    BY <1>1, <2>1, <2>2
<1>3. /\ DOMAIN C = DOMAIN B \cup {lim} /\ C[lim] = len
      /\ \A b \in DOMAIN B : C[b] = B[b]
  BY <1>2
<1> HIDE DEF C
<1>4. ASSUME NEW b \in DOMAIN B PROVE BlockAt(W, C, v, Len(v), b)
  <2>1. BlockAt(W, B, w, lim, b) /\ b \in Nat /\ B[b] \in Nat /\ 5 <= B[b] /\ b + B[b] <= lim /\ C[b] = B[b]
    BY <1>2, <1>3
  <2>2. b + 3 \in 1 .. lim /\ b + 1 \in 1 .. lim /\ b + B[b] <= Len(v)
    BY <1>1, <2>1
  <2>3. \A k \in b + 5 .. b + B[b] : k \in 1 .. lim
    BY <1>1, <2>1
  <2>4. b + C[b] \in DOMAIN C \cup {Len(v)}
    BY <1>3, <2>1 DEF BlockAt
  <2>5. \A k \in b + 5 .. b + B[b] :
          /\ v[k].type = "HIGHLOW" <=> k \in DOMAIN W
          /\ k \in DOMAIN W => W[k] = v[b + 1] + v[k].at
    BY <2>1, <2>2, <2>3 DEF BlockAt
  <2>6. v[b + 3] = 2 * B[b] /\ \E l \in Nat : B[b] = 2 * l
    BY <2>1, <2>2 DEF BlockAt
  <2> QED
    BY <2>1, <2>2, <2>4, <2>5, <2>6 DEF BlockAt
<1>5. BlockAt(W, C, v, Len(v), lim)
  <2>1. ASSUME NEW k \in lim + 5 .. Len(v)
        PROVE  /\ v[k].type = "HIGHLOW" <=> k \in DOMAIN W
               /\ k \in DOMAIN W => W[k] = v[lim + 1] + v[k].at
    <3>1. CASE k \in lim + 5 .. Len(w)
      <4>1. k \in DOMAIN W /\ w[k].type = "HIGHLOW" /\ W[k] = page + w[k].at
        BY <3>1 DEF Open
      <4>2. v[k] = w[k]
        BY <3>1
      <4> QED
        BY <4>1, <4>2
    <3>2. CASE k \notin lim + 5 .. Len(w)
      <4>1. k = Len(v) /\ Len(v) # Len(w) /\ k \notin 1 .. Len(w)
        BY <1>1, <3>2
      <4>2. k \notin DOMAIN W
        BY <4>1, Zenon DEF Chain
      <4>3. v[k].type = "ABSOLUTE"
        BY <4>1
      <4> QED
        BY <4>2, <4>3
    <3> QED
      BY <3>1, <3>2
  <2> QED
    BY <1>1, <1>3, <2>1 DEF BlockAt
<1>6. \A b, c \in DOMAIN C : b < c => b + C[b] <= c
  <2> SUFFICES ASSUME NEW b \in DOMAIN C, NEW c \in DOMAIN C, b < c
               PROVE  b + C[b] <= c
    OBVIOUS
  <2>1. CASE b \in DOMAIN B /\ c \in DOMAIN B
    <3>1. b + B[b] <= c
      BY <2>1, Zenon DEF Chain
    <3> QED
      BY <1>3, <2>1, <3>1
  <2>2. CASE b \in DOMAIN B /\ c = lim
    BY <1>2, <1>3, <2>2
  <2>3. CASE b = lim
    <3>1. c \in DOMAIN B
      BY <1>1, <1>3, <2>3
    <3> QED
      BY <1>1, <1>2, <2>3, <3>1
  <2> QED
    BY <1>3, <2>1, <2>2, <2>3
<1>7. ASSUME NEW k \in DOMAIN W
      PROVE  k \in 1 .. Len(v) /\ \E b \in DOMAIN C : k \in b + 5 .. b + C[b]
  <2>1. k \in 1 .. Len(w) /\ (k <= lim => \E b \in DOMAIN B : k \in b + 5 .. b + B[b])
    BY Zenon DEF Chain
  <2>2. k <= lim \/ lim + 5 <= k
    BY DEF Open
  <2>3. CASE k <= lim
    BY <1>1, <1>3, <2>1, <2>3
  <2>4. CASE lim + 5 <= k
    <3>1. k \in 1 .. Len(v) /\ k \in lim + 5 .. lim + len
      BY <1>1, <2>1, <2>4
    <3> QED
      BY <1>3, <3>1
  <2> QED
    BY <2>2, <2>3, <2>4
<1>8. 0 \in DOMAIN C \cup {Len(v)}
  BY <1>3 DEF Chain
<1>9. Chain(W, C, v, Len(v))
  BY <1>1, <1>3, <1>4, <1>5, <1>6, <1>7, <1>8 DEF Chain
<1> QED
  BY <1>9

-----------------------------------------------------------------------------
(* The addresses that pe_build_reloc has passed are those with a word.     *)

Pair == [sec : Nat, rel : Nat]
RelocsOf(x) == sections[sec_info[x].ord].reloc
PlaceOf(x, r) == RelocsOf(x)[r].offset + sh_addr[sec_info[x].ord]
AddrOf(p) == PlaceOf(p.sec, p.rel) - image.base
Due(p) == p.sec \in 1 .. Len(sec_info) /\ p.rel \in L!Absolutes(sections[sec_info[p.sec].ord])
Done(p) == Due(p) /\ (pc = "reloc" => p.sec < i \/ (p.sec = i /\ p.rel < rel))

Points(W, T) ==
  /\ \A k \in DOMAIN W : Done(T[k]) /\ W[k] = AddrOf(T[k])
  /\ \A j, k \in DOMAIN W : T[j] = T[k] => j = k
  /\ \A p \in Pair : Done(p) => \E k \in DOMAIN W : T[k] = p
Targets(W) == \E T \in [DOMAIN W -> Pair] : Points(W, T)

\* what the loader has read
Read(W, B) ==
  /\ block \in DOMAIN B \cup {Len(reloc)}
  /\ fixups = {[word |-> k, place |-> W[k]] : k \in {x \in DOMAIN W : x <= block}}

\* sr is the table of section i, or a longer one passed before it
Scan ==
  /\ i <= Len(sec_info) /\ sr \in Seq([offset : Nat, type : STRING])
  /\ i = 0 => Len(sr) < rel
  /\ i > 0 => sr = RelocsOf(i) \/ (RelocsOf(i) = << >> /\ Len(sr) < rel)
RelInv ==
  /\ count \in Nat /\ offset \in Nat /\ block_ptr \in Nat /\ i \in Nat /\ rel \in Nat \ {0}
  /\ pc = "assign" => reloc = << >> /\ count = 0 /\ i = 0 /\ rel = 1 /\ sr = << >>
  /\ pc = "reloc" => Scan
  /\ pc \in {"write", "written"} => count = 0
  /\ pc # "written" => block = 0 /\ fixups = {}

Closed == IF count = 0 THEN Len(reloc) ELSE block_ptr
Table(W, B) ==
  /\ Chain(W, B, reloc, Closed) /\ Targets(W)
  /\ count # 0 => Open(W, reloc, block_ptr, offset - image.base) /\ Len(reloc) = block_ptr + 4 + count
  /\ pc = "written" => Read(W, B)
ChainInv == pc # "assign" => \E W, B : Table(W, B)

RelocInv == RelInv /\ ChainInv

LEMMA TargetsStay ==
  ASSUME NEW W, Targets(W),
         \A p \in Pair : Done(p)' <=> Done(p),
         \A p \in Pair : Due(p) => AddrOf(p)' = AddrOf(p)
  PROVE  Targets(W)'
<1>1. PICK T \in [DOMAIN W -> Pair] : Points(W, T)
  BY DEF Targets
<1>2. Points(W, T)'
  <2>1. \A k \in DOMAIN W : Done(T[k])' /\ W[k] = AddrOf(T[k])'
    <3> TAKE k \in DOMAIN W
    <3>1. T[k] \in Pair /\ Done(T[k]) /\ W[k] = AddrOf(T[k])
      BY <1>1 DEF Points
    <3>2. Due(T[k])
      BY <3>1 DEF Done
    <3>3. Done(T[k])' <=> Done(T[k])
      BY <3>1
    <3>4. AddrOf(T[k])' = AddrOf(T[k])
      BY <3>1, <3>2
    <3> QED
      BY <3>1, <3>3, <3>4
  <2>2. \A p \in Pair : Done(p)' => \E k \in DOMAIN W : T[k] = p
    BY <1>1 DEF Points
  <2>3. \A j, k \in DOMAIN W : T[j] = T[k] => j = k
    BY <1>1, Zenon DEF Points
  <2> QED
    BY <2>1, <2>2, <2>3 DEF Points
<1> QED
  BY <1>2 DEF Targets

\* one more word for one more address
LEMMA TargetsGrow ==
  ASSUME NEW W, Targets(W), NEW n_, n_ \notin DOMAIN W, NEW p0 \in Pair, ~ Done(p0),
         NEW place, AddrOf(p0)' = place,
         \A p \in Pair : Done(p)' <=> Done(p) \/ p = p0,
         \A p \in Pair : AddrOf(p)' = AddrOf(p),
         NEW V, V = Grown(W, n_, place)
  PROVE  Targets(V)'
<1>1. PICK T \in [DOMAIN W -> Pair] : Points(W, T)
  BY DEF Targets
<1>2. PICK U : U = [k \in DOMAIN W \cup {n_} |-> IF k \in DOMAIN W THEN T[k] ELSE p0]
  OBVIOUS
<1>3. /\ U \in [DOMAIN V -> Pair] /\ DOMAIN V = DOMAIN W \cup {n_} /\ V[n_] = place /\ U[n_] = p0
      /\ \A k \in DOMAIN W : V[k] = W[k] /\ U[k] = T[k] /\ T[k] \in Pair
  BY <1>1, <1>2 DEF Grown
<1>4. Points(V, U)'
  <2>1. \A k \in DOMAIN V : Done(U[k])' /\ V[k] = AddrOf(U[k])'
    <3> TAKE k \in DOMAIN V
    <3>1. CASE k \in DOMAIN W
      <4>1. U[k] \in Pair /\ Done(U[k]) /\ V[k] = AddrOf(U[k])
        BY <1>1, <1>3, <3>1 DEF Points
      <4>2. Done(U[k])' /\ AddrOf(U[k])' = AddrOf(U[k])
        BY <4>1
      <4> QED
        BY <4>1, <4>2
    <3>2. CASE k = n_
      <4>1. U[k] = p0 /\ V[k] = place
        BY <1>3, <3>2
      <4>2. Done(p0)' /\ AddrOf(p0)' = place
        OBVIOUS
      <4> QED
        BY <4>1, <4>2
    <3> QED
      BY <1>3, <3>1, <3>2
  <2>2. \A j, k \in DOMAIN V : U[j] = U[k] => j = k
    <3>1. \A k \in DOMAIN W : U[k] # p0
      BY <1>1, <1>3 DEF Points
    <3>2. \A j, k \in DOMAIN W : U[j] = U[k] => j = k
      BY <1>1, <1>3 DEF Points
    <3> QED
      BY <1>3, <3>1, <3>2
  <2>3. \A p \in Pair : Done(p)' => \E k \in DOMAIN V : U[k] = p
    <3> TAKE p \in Pair
    <3>1. CASE p = p0
      BY <1>3, <3>1
    <3>2. CASE p # p0 /\ Done(p)'
      <4>1. PICK k \in DOMAIN W : T[k] = p
        BY <1>1, <3>2 DEF Points
      <4> QED
        BY <1>3, <4>1
    <3> QED
      BY <3>1, <3>2
  <2> QED
    BY <2>1, <2>2, <2>3 DEF Points
<1> QED
  BY <1>3, <1>4 DEF Targets

\* where pe_build_reloc is
LEMMA AtRel ==
  ASSUME ImgTypes, RelInv, pc = "reloc", rel <= Len(sr)
  PROVE  LET p == [sec |-> i, rel |-> rel] IN
         /\ i \in 1 .. Len(sec_info) /\ sr = RelocsOf(i) /\ L!RelAddr \in Nat
         /\ p \in Pair /\ AddrOf(p) = L!RelAddr - image.base /\ ~ Done(p)
         /\ Due(p) <=> sr[rel].type = "R_X86_64_64"
<1> DEFINE p == [sec |-> i, rel |-> rel]
<1>1. /\ sr \in Seq([offset : Nat, type : STRING]) /\ Len(sr) \in Nat /\ i \in Nat
      /\ rel \in Nat /\ rel \in 1 .. Len(sr)
  BY DEF RelInv, Scan
<1>2. i > 0 /\ i <= Len(sec_info) /\ sr = RelocsOf(i)
  BY <1>1 DEF RelInv, Scan
<1>3. sec_info \in Seq(Entry) /\ sh_addr \in [1 .. Len(sections) -> Nat]
  BY DEF ImgTypes
<1>4. i \in 1 .. Len(sec_info)
  BY <1>1, <1>2, <1>3
<1>5. sec_info[i].ord \in 1 .. Len(sections)
  <2>1. sec_info[i] \in Entry
    BY <1>3, <1>4
  <2> QED
    BY <2>1 DEF Entry
<1>6. L!RelAddr \in Nat
  <2>1. sr[rel] \in [offset : Nat, type : STRING]
    <3>1. \A R : \A w \in Seq(R) : \A x \in 1 .. Len(w) : w[x] \in R
      OBVIOUS
    <3> QED
      BY <1>1, <3>1
  <2>2. sr[rel].offset \in Nat /\ sh_addr[sec_info[i].ord] \in Nat
    BY <1>3, <1>5, <2>1
  <2> QED
    BY <2>2 DEF L!RelAddr
<1>7. p \in Pair /\ p.sec = i /\ p.rel = rel
  BY <1>1 DEF Pair
<1> HIDE DEF p
<1>8. AddrOf(p) = L!RelAddr - image.base
  <2>1. L!RelAddr = PlaceOf(i, rel)
    BY <1>2 DEF L!RelAddr, PlaceOf
  <2> QED
    BY <1>7, <2>1 DEF AddrOf
<1>9. ~ Done(p)
  <2>1. ~ (i < i) /\ ~ (rel < rel)
    BY <1>1
  <2> QED
    BY <1>7, <2>1 DEF Done
<1>10. Due(p) <=> sr[rel].type = "R_X86_64_64"
  BY <1>1, <1>2, <1>4, <1>7 DEF Due, L!Absolutes, RelocsOf
<1> QED
  BY <1>2, <1>4, <1>6, <1>7, <1>8, <1>9, <1>10 DEF p

LEMMA AssignKeepsRelocs ==
  ASSUME RelocInv, pc = "assign", pc' = "assign", UNCHANGED <<L!relocVars, L!loaderVars>>
  PROVE  RelocInv'
BY DEF RelocInv, RelInv, ChainInv, L!relocVars, L!loaderVars

\* pe_build_reloc starts with nothing
LEMMA StartKeepsRelocs ==
  ASSUME PlacedInv, RelocInv, NEW s \in DOMAIN sections, L!PlaceReloc(s)
  PROVE  RelocInv'
<1>1. /\ pc = "assign" /\ pc' = "reloc"
      /\ UNCHANGED <<image, sections, sec_info, sr, rel, i, count, offset, block_ptr, reloc, block, fixups>>
  BY DEF L!PlaceReloc, L!Assigning, L!relocVars, L!loaderVars
<1>2. reloc = << >> /\ count = 0 /\ i = 0 /\ rel = 1 /\ sr = << >> /\ block = 0 /\ fixups = {}
  BY <1>1 DEF RelocInv, RelInv
<1>3. Len(sec_info) \in Nat
  BY DEF PlacedInv, ImgTypes
<1>4. RelInv'
  BY <1>1, <1>2, <1>3 DEF RelocInv, RelInv, Scan
<1>5. PICK W : W = [k \in {} |-> 0]
  OBVIOUS
<1>6. DOMAIN W = {} /\ Len(reloc) = 0 /\ reloc \in Seq(Word)
  BY <1>2, <1>5
<1>7. Chain(W, W, reloc, 0)
  BY <1>6 DEF Chain
<1>8. Targets(W)'
  <2>1. \A p \in Pair : ~ Done(p)'
    <3> TAKE p \in Pair
    <3>1. p.sec \in Nat
      BY DEF Pair
    <3>2. p.sec \in 1 .. Len(sec_info) => ~ (p.sec < 0) /\ p.sec # 0
      BY <1>3, <3>1
    <3> QED
      BY <1>1, <1>2, <3>2 DEF Done, Due
  <2>2. W \in [DOMAIN W -> Pair]
    BY <1>5
  <2>3. Points(W, W)'
    BY <1>6, <2>1 DEF Points
  <2> QED
    BY <2>2, <2>3 DEF Targets
<1>9. Table(W, W)'
  BY <1>1, <1>2, <1>6, <1>7, <1>8 DEF Table, Closed
<1> QED
  BY <1>4, <1>9 DEF RelocInv, ChainInv

LEMMA SkipRelativeKeeps ==
  ASSUME PlacedInv, RelocInv, L!SkipRelative
  PROVE  RelocInv'
<1>1. /\ pc = "reloc" /\ rel <= Len(sr) /\ sr[rel].type # "R_X86_64_64" /\ rel' = rel + 1
      /\ UNCHANGED <<image, sections, sh_addr, sec_info, sr, i, count, offset, block_ptr, reloc,
                     block, fixups, pc>>
  BY DEF L!SkipRelative, L!assignVars, L!loaderVars
<1>2. ImgTypes /\ RelInv /\ rel \in Nat \ {0}
  BY DEF PlacedInv, RelocInv, RelInv
<1>3. PICK p : p = [sec |-> i, rel |-> rel]
  OBVIOUS
<1>4. /\ i \in 1 .. Len(sec_info) /\ sr = RelocsOf(i) /\ p \in Pair /\ ~ Done(p) /\ ~ Due(p)
  BY <1>1, <1>2, <1>3, AtRel
<1>5. RelInv'
  <2>1. Scan'
    BY <1>1, <1>2, <1>4 DEF RelInv, Scan, RelocsOf
  <2> QED
    BY <1>1, <1>2, <2>1 DEF RelInv
<1>6. ASSUME NEW q \in Pair PROVE Done(q)' <=> Done(q)
  <2>1. q.sec \in Nat /\ q.rel \in Nat /\ (q.sec = i /\ q.rel = rel => q = p)
    BY <1>3 DEF Pair
  <2>2. Due(q)' <=> Due(q)
    BY <1>1 DEF Due, L!Absolutes
  <2>3. q.rel < rel' <=> q.rel < rel \/ q.rel = rel
    BY <1>1, <1>2, <2>1
  <2> QED
    BY <1>1, <1>4, <2>1, <2>2, <2>3 DEF Done
<1>7. \A q \in Pair : AddrOf(q)' = AddrOf(q)
  BY <1>1 DEF AddrOf, PlaceOf, RelocsOf
<1>8. PICK W, B : Table(W, B)
  BY <1>1 DEF RelocInv, ChainInv
<1>9. Targets(W)'
  BY <1>6, <1>7, <1>8, TargetsStay DEF Table
<1>10. Table(W, B)'
  BY <1>1, <1>8, <1>9 DEF Table, Closed
<1> QED
  BY <1>5, <1>10 DEF RelocInv, ChainInv

LEMMA NextSectionKeeps ==
  ASSUME PlacedInv, RelocInv, L!NextSection
  PROVE  RelocInv'
<1>1. /\ pc = "reloc" /\ rel > Len(sr) /\ i < Len(sec_info) /\ i' = i + 1
      /\ IF RelocsOf(i + 1) # << >> THEN sr' = RelocsOf(i + 1) /\ rel' = 1 ELSE UNCHANGED <<sr, rel>>
      /\ UNCHANGED <<image, sections, sh_addr, sec_info, count, offset, block_ptr, reloc,
                     block, fixups, pc>>
  BY DEF L!NextSection, L!assignVars, L!loaderVars, RelocsOf
<1>2. /\ ImgTypes /\ RelInv /\ rel \in Nat \ {0} /\ i \in Nat /\ Scan
  BY <1>1 DEF PlacedInv, RelocInv, RelInv
<1>3. /\ sec_info \in Seq(Entry) /\ Len(sec_info) \in Nat /\ i + 1 \in 1 .. Len(sec_info)
      /\ sr \in Seq([offset : Nat, type : STRING]) /\ Len(sr) \in Nat
  BY <1>1, <1>2 DEF ImgTypes, Scan
<1>4. RelocsOf(i + 1) \in Seq([offset : Nat, type : STRING])
  <2>1. sec_info[i + 1] \in Entry
    BY <1>3
  <2>2. sections[sec_info[i + 1].ord] \in Section
    BY <1>2, <2>1 DEF Entry, ImgTypes, SecTypes
  <2> QED
    BY <2>2 DEF RelocsOf, Section
<1>5. RelInv'
  <2>1. RelocsOf(i)' = RelocsOf(i + 1) /\ Len(sec_info') = Len(sec_info)
    BY <1>1 DEF RelocsOf
  <2>2. Scan'
    <3>1. i' \in Nat /\ i' > 0 /\ i' <= Len(sec_info')
      BY <1>1, <1>2, <1>3, <2>1
    <3>2. CASE RelocsOf(i + 1) # << >>
      BY <1>1, <1>4, <2>1, <3>1, <3>2 DEF Scan
    <3>3. CASE RelocsOf(i + 1) = << >>
      BY <1>1, <1>2, <1>3, <2>1, <3>1, <3>3 DEF Scan
    <3> QED
      BY <3>2, <3>3
  <2> QED
    BY <1>1, <1>2, <2>2 DEF RelInv
<1>6. ASSUME NEW p \in Pair PROVE Done(p)' <=> Done(p)
  <2>1. p.sec \in Nat /\ p.rel \in Nat
    BY DEF Pair
  <2>2. Due(p)' <=> Due(p)
    BY <1>1 DEF Due, L!Absolutes
  <2>3. Due(p) => p.rel \in 1 .. Len(RelocsOf(p.sec)) 
    <3> SUFFICES ASSUME Due(p), p.sec \in 1 .. Len(sec_info)
                 PROVE  p.rel \in 1 .. Len(RelocsOf(p.sec))
      BY DEF Due
    <3>1. sec_info[p.sec] \in Entry
      BY <1>3
    <3>2. sections[sec_info[p.sec].ord] \in Section
      <4>1. sec_info[p.sec].ord \in 1 .. Len(sections)
        BY <3>1 DEF Entry
      <4> QED
        BY <1>2, <4>1 DEF ImgTypes, SecTypes
    <3>3. RelocsOf(p.sec) \in Seq([offset : Nat, type : STRING])
      BY <3>2 DEF RelocsOf, Section
    <3> PICK w : w = RelocsOf(p.sec)
      OBVIOUS
    <3>4. p.rel \in DOMAIN w
      BY Zenon DEF Due, L!Absolutes, RelocsOf
    <3>5. DOMAIN w = 1 .. Len(w)
      BY <3>3
    <3> QED
      BY <3>4, <3>5
  <2>4. ASSUME Due(p), p.sec = i PROVE p.rel < rel
    <3>1. p.sec \in 1 .. Len(sec_info) /\ i > 0
      BY <1>3, <2>1, <2>4 DEF Due
    <3>2. p.rel \in 1 .. Len(RelocsOf(i))
      BY <2>3, <2>4
    <3>3. sr = RelocsOf(i)
      BY <1>2, <3>1, <3>2 DEF Scan
    <3> QED
      BY <1>1, <1>2, <1>3, <2>1, <3>2, <3>3
  <2>5. ASSUME Due(p), p.sec = i + 1 PROVE ~ (p.rel < rel')
    <3>1. p.rel \in 1 .. Len(RelocsOf(i + 1))
      BY <2>3, <2>5
    <3>2. RelocsOf(i + 1) # << >>
      BY <3>1
    <3> QED
      BY <1>1, <2>1, <3>1, <3>2
  <2>6. p.sec < i' <=> p.sec < i \/ p.sec = i
    BY <1>1, <1>2, <2>1
  <2>7. ~ (p.sec = i /\ p.sec < i)
    BY <1>2
  <2> QED
    BY <1>1, <2>2, <2>4, <2>5, <2>6 DEF Done
<1>7. \A p \in Pair : AddrOf(p)' = AddrOf(p)
  BY <1>1 DEF AddrOf, PlaceOf, RelocsOf
<1>8. PICK W, B : Table(W, B)
  BY <1>1 DEF RelocInv, ChainInv
<1>9. Targets(W)'
  BY <1>6, <1>7, <1>8, TargetsStay DEF Table
<1>10. Table(W, B)'
  BY <1>1, <1>8, <1>9 DEF Table, Closed
<1> QED
  BY <1>5, <1>10 DEF RelocInv, ChainInv

\* an address and the block it is in
LEMMA InPage ==
  ASSUME NEW a \in Nat, NEW page \in Nat, NEW span \in Nat \ {0},
         a \in page .. page + span - 1 \/ page = (a \div span) * span
  PROVE  page + ((a - page) % span) = a /\ (a - page) % span \in Nat
<1>1. a - page \in 0 .. span - 1
  <2>1. CASE a \in page .. page + span - 1
    BY <2>1
  <2>2. CASE page = (a \div span) * span
    <3>1. PICK q \in Nat, m \in 0 .. span - 1 : q = a \div span /\ m = a % span /\ a = span * q + m
      BY DivIs
    <3>2. page = q * span
      BY <2>2, <3>1
    <3>3. q * span = span * q
      BY <3>1
    <3>4. a - page = m
      <4> PICK z : z = span * q
        OBVIOUS
      <4>1. z \in Int
        BY <3>1
      <4> QED
        BY <3>1, <3>2, <3>3, <4>1
    <3> QED
      BY <3>4
  <2> QED
    BY <2>1, <2>2
<1> PICK d : d = a - page
  OBVIOUS
<1>2. d % span = d
  BY <1>1, ModIs
<1> QED
  BY <1>1, <1>2

LEMMA PageIs ==
  ASSUME NEW a \in Nat, NEW span \in Nat \ {0}
  PROVE  (a \div span) * span \in Nat
<1>1. PICK q \in Nat, m \in 0 .. span - 1 : q = a \div span /\ m = a % span /\ a = span * q + m
  BY DivIs
<1> QED
  BY <1>1

LEMMA PageAndPlace ==
  ASSUME NEW a \in Nat, NEW o1 \in Nat, NEW d \in Nat, NEW b \in Nat, IsSum(o1, d, a),
         NEW page \in Int, NEW place \in Int, IsSum(page, b, o1), IsSum(place, b, a)
  PROVE  IsSum(page, d, place)
BY DEF IsSum

LEMMA TakeRelKeeps ==
  ASSUME PlacedInv, RelocInv, L!TakeRel
  PROVE  RelocInv'
<1> DEFINE d == (L!RelAddr - offset') % Span
<1>1. /\ pc = "reloc" /\ rel <= Len(sr) /\ sr[rel].type = "R_X86_64_64" /\ L!InBlock
      /\ rel' = rel + 1 /\ count' = count + 1
      /\ offset' = IF count = 0 THEN (L!RelAddr \div Span) * Span ELSE offset
      /\ block_ptr' = IF count = 0 THEN Len(reloc) ELSE block_ptr
      /\ reloc' = reloc \o (IF count = 0 THEN <<0, 0, 0, 0>> ELSE << >>)
                        \o << [at |-> d, type |-> "HIGHLOW"] >>
      /\ UNCHANGED <<image, sections, sh_addr, sec_info, sr, i, block, fixups, pc>>
  BY DEF L!TakeRel, L!assignVars, L!loaderVars
<1>2. /\ ImgTypes /\ RelInv /\ rel \in Nat \ {0} /\ count \in Nat /\ offset \in Nat
      /\ block_ptr \in Nat /\ image \in Images
  BY DEF PlacedInv, ImgTypes, RelocInv, RelInv
<1>3. image.base \in Nat /\ Span \in Nat \ {0}
  BY <1>2, ImageIs, ImageAssumption DEF L!Assumptions
<1>4. PICK p : p = [sec |-> i, rel |-> rel]
  OBVIOUS
<1>5. /\ i \in 1 .. Len(sec_info) /\ sr = RelocsOf(i) /\ p \in Pair /\ ~ Done(p) /\ Due(p)
      /\ L!RelAddr \in Nat /\ AddrOf(p) = L!RelAddr - image.base
  BY <1>1, <1>2, <1>4, AtRel
<1>6. offset' \in Nat
  BY <1>1, <1>2, <1>3, <1>5, PageIs
<1>7. offset' + d = L!RelAddr /\ d \in Nat
  <2>1. CASE count = 0
    <3>1. offset' = (L!RelAddr \div Span) * Span
      BY <1>1, <2>1
    <3> QED
      BY <1>3, <1>5, <1>6, <3>1, InPage
  <2>2. CASE count # 0
    <3>1. offset' = offset /\ L!RelAddr \in offset .. offset + Span - 1
      BY <1>1, <2>2 DEF L!InBlock
    <3>2. L!RelAddr \in offset' .. offset' + Span - 1
      BY <3>1
    <3> QED
      BY <1>3, <1>5, <1>6, <3>2, InPage
  <2> QED
    BY <2>1, <2>2
<1> HIDE DEF d
<1>20. PICK page, place : page = offset' - image.base /\ place = L!RelAddr - image.base
  OBVIOUS
<1>8. page \in Int /\ place \in Int /\ d \in Int /\ IsSum(page, d, place) /\ AddrOf(p) = place
  <2>1. page \in Int /\ place \in Int /\ d \in Int /\ AddrOf(p) = place
    BY <1>3, <1>5, <1>6, <1>7, <1>20
  <2>2. IsSum(offset', d, L!RelAddr)
    BY <1>7 DEF IsSum
  <2>3. IsSum(page, image.base, offset') /\ IsSum(place, image.base, L!RelAddr)
    BY <1>3, <1>5, <1>6, <1>20 DEF IsSum
  <2>4. offset' \in Nat /\ d \in Nat /\ L!RelAddr \in Nat /\ image.base \in Nat
    BY <1>3, <1>5, <1>6, <1>7
  <2> QED
    BY <2>1, <2>2, <2>3, <2>4, PageAndPlace
<1>9. PICK W, B : Table(W, B)
  BY <1>1 DEF RelocInv, ChainInv
<1>10. PICK V : V = Grown(W, Len(reloc'), place)
  OBVIOUS
<1>11. /\ Chain(V, B, reloc', block_ptr') /\ Open(V, reloc', block_ptr', page)
       /\ Len(reloc') = block_ptr' + 4 + count' /\ Len(reloc') \notin DOMAIN W
  <2>1. CASE count = 0
    <3>1. Chain(W, B, reloc, Len(reloc)) /\ block_ptr' = Len(reloc)
      BY <1>1, <1>9, <2>1 DEF Table, Closed
    <3>2. reloc' = Behind(reloc, NoHeader, d)
      BY <1>1, <2>1 DEF Behind, NoHeader
    <3>3. /\ Chain(V, B, reloc', Len(reloc)) /\ Open(V, reloc', Len(reloc), page)
          /\ Len(reloc') = Len(reloc) + 5 /\ Len(reloc') \notin DOMAIN W
      BY <1>8, <1>10, <3>1, <3>2, ChainOpens
    <3>4. Len(reloc) \in Nat
      BY <3>1 DEF Chain
    <3> QED
      BY <1>1, <2>1, <3>1, <3>3, <3>4
  <2>2. CASE count # 0
    <3>1. /\ Chain(W, B, reloc, block_ptr) /\ Open(W, reloc, block_ptr, page)
          /\ block_ptr' = block_ptr /\ Len(reloc) = block_ptr + 4 + count
      <4>1. offset' = offset
        BY <1>1, <2>2
      <4>2. Open(W, reloc, block_ptr, page)
        BY <1>9, <1>20, <2>2, <4>1 DEF Table
      <4> QED
        BY <1>1, <1>9, <2>2, <4>2 DEF Table, Closed
    <3>2. reloc' = Behind(reloc, << >>, d)
      BY <1>1, <2>2 DEF Behind
    <3>3. /\ Chain(V, B, reloc', block_ptr) /\ Open(V, reloc', block_ptr, page)
          /\ Len(reloc') = Len(reloc) + 1 /\ Len(reloc') \notin DOMAIN W
      BY <1>8, <1>10, <3>1, <3>2, ChainGrows
    <3>4. count' = count + 1 /\ count \in Nat /\ block_ptr \in Nat /\ Len(reloc) \in Nat
      <4>1. count \in Nat /\ block_ptr \in Nat
        BY DEF RelocInv, RelInv
      <4> QED
        BY <1>1, <3>1, <4>1 DEF Chain
    <3>5. Len(reloc) + 1 = block_ptr + 4 + (count + 1)
      BY <3>1, <3>4
    <3> QED
      BY <3>1, <3>3, <3>4, <3>5
  <2> QED
    BY <2>1, <2>2
<1>12. RelInv'
  <2>1. Scan'
    BY <1>1, <1>2, <1>5 DEF RelInv, Scan, RelocsOf
  <2>2. count' \in Nat /\ block_ptr' \in Nat /\ rel' \in Nat \ {0}
    <3>1. Len(reloc) \in Nat
      BY <1>9 DEF Table, Chain
    <3> QED
      BY <1>1, <1>2, <3>1
  <2> QED
    BY <1>1, <1>2, <1>6, <2>1, <2>2 DEF RelInv
<1>13. ASSUME NEW q \in Pair PROVE Done(q)' <=> Done(q) \/ q = p
  <2>1. q.sec \in Nat /\ q.rel \in Nat /\ (q.sec = i /\ q.rel = rel <=> q = p)
    BY <1>4 DEF Pair
  <2>2. Due(q)' <=> Due(q)
    BY <1>1 DEF Due, L!Absolutes
  <2>3. q.rel < rel' <=> q.rel < rel \/ q.rel = rel
    BY <1>1, <1>2, <2>1
  <2> QED
    BY <1>1, <1>5, <2>1, <2>2, <2>3 DEF Done
<1>14. \A q \in Pair : AddrOf(q)' = AddrOf(q)
  BY <1>1 DEF AddrOf, PlaceOf, RelocsOf
<1>15. Targets(V)'
  <2>1. AddrOf(p)' = place
    BY <1>5, <1>8, <1>14
  <2>2. Targets(W)
    BY <1>9 DEF Table
  <2> QED
    BY <1>5, <1>10, <1>11, <1>13, <1>14, <2>1, <2>2, TargetsGrow
<1>16. Table(V, B)'
  <2>1. count' # 0
    BY <1>1, <1>2
  <2>2. page = offset' - image'.base
    BY <1>1, <1>20
  <2> QED
    BY <1>1, <1>11, <1>15, <2>1, <2>2 DEF Table, Closed
<1> QED
  BY <1>12, <1>16 DEF RelocInv, ChainInv

\* the block in reloc is closed: a word of padding makes its length even
LEMMA StoredIs ==
  ASSUME RelInv, image \in Images, count # 0, NEW W, NEW B, Table(W, B)
  PROVE  \E C : Chain(W, C, L!Stored, Len(L!Stored))
<1>1. /\ count \in Nat /\ offset \in Nat /\ block_ptr \in Nat /\ image.base \in Nat
      /\ Chain(W, B, reloc, block_ptr) /\ Open(W, reloc, block_ptr, offset - image.base)
      /\ Len(reloc) = block_ptr + 4 + count
  BY ImageIs DEF RelInv, Table, Closed
<1>2. reloc \in Seq(Word) /\ Len(reloc) \in Nat
  BY <1>1 DEF Chain
<1>3. PICK q \in Nat, r \in 0 .. 1 : r = count % 2 /\ count = 2 * q + r
  BY <1>1, DivIs
<1> DEFINE pad == [at |-> 0, type |-> "ABSOLUTE"]
           words == reloc \o (IF count % 2 = 1 THEN <<pad>> ELSE << >>)
           len == 4 + count + r
           page == offset - image.base
           v == [words EXCEPT ![block_ptr + 1] = page, ![block_ptr + 3] = 2 * len]
<1>4. pad \in Word /\ pad.type = "ABSOLUTE"
  BY DEF Word
<1> HIDE DEF pad
<1>5. /\ words \in Seq(Word) /\ Len(words) = Len(reloc) + r
      /\ \A k \in 1 .. Len(reloc) : words[k] = reloc[k]
      /\ Len(words) # Len(reloc) => words[Len(words)] = pad
  <2>1. CASE r = 1
    <3>1. words = Append(reloc, pad)
      BY <1>2, <1>3, <1>4, <2>1
    <3> HIDE DEF words
    <3> QED
      BY <1>2, <1>4, <2>1, <3>1
  <2>2. CASE r = 0
    <3>1. words = reloc
      BY <1>2, <1>3, <2>2
    <3> HIDE DEF words
    <3> QED
      BY <1>2, <2>2, <3>1
  <2> QED
    BY <2>1, <2>2
<1>6. L!Stored = v
  <2>1. 2 * len = 2 * (count + (count % 2)) + 2 * 4
    BY <1>1, <1>3
  <2> QED
    BY <2>1 DEF L!Stored, L!HeaderWords, pad
<1> HIDE DEF words
<1>51. Len(words) = Len(reloc) + r
  BY <1>5
<1>52. /\ Len(reloc) = block_ptr + 4 + count /\ 1 <= count /\ count \in Nat /\ block_ptr \in Nat
       /\ Len(words) = block_ptr + 4 + count + r /\ Len(words) \in Nat
  <2>1. r \in {0, 1} /\ r \in Nat
    OBVIOUS
  <2>2. 1 <= count
    BY <1>1
  <2> QED
    BY <1>1, <1>51, <2>1, <2>2
<1>7. len \in Nat /\ block_ptr + len = Len(words) /\ 2 + q + r \in Nat /\ len = 2 * (2 + q + r)
  <2>1. len \in Nat
    BY <1>3, <1>52
  <2>2. 2 + q + r \in Nat /\ len = 2 * (2 + q + r)
    BY <1>3, <1>52
  <2> QED
    BY <1>3, <1>52, <2>1, <2>2
<1>8. page \in Int /\ 2 * len \in Int
  BY <1>1, <1>7
<1>9. /\ block_ptr + 1 \in 1 .. Len(words) /\ block_ptr + 3 \in 1 .. Len(words)
      /\ block_ptr + 1 # block_ptr + 3
  BY <1>3, <1>52
<1> HIDE DEF page
<1>10. /\ v \in Seq(Word) /\ Len(v) = Len(words)
       /\ v[block_ptr + 1] = page /\ v[block_ptr + 3] = 2 * len
       /\ \A k \in 1 .. Len(words) : k # block_ptr + 1 /\ k # block_ptr + 3 => v[k] = words[k]
  <2>1. \A x \in Int : x \in Word
    BY DEF Word
  <2>2. PICK z : z = 2 * len
    OBVIOUS
  <2>3. PICK a, b : a = block_ptr + 1 /\ b = block_ptr + 3
    OBVIOUS
  <2>4. v = [words EXCEPT ![a] = page, ![b] = z]
    BY <2>2, <2>3
  <2>5. z \in Word /\ page \in Word /\ a \in 1 .. Len(words) /\ b \in 1 .. Len(words) /\ a # b
    BY <1>8, <1>9, <2>1, <2>2, <2>3
  <2> HIDE DEF v
  <2>6. /\ v \in Seq(Word) /\ Len(v) = Len(words) /\ v[a] = page /\ v[b] = z
        /\ \A k \in 1 .. Len(words) : k # a /\ k # b => v[k] = words[k]
    BY <1>5, <2>4, <2>5
  <2> QED
    BY <2>2, <2>3, <2>6
<1> HIDE DEF v, len
<1>11. \A k \in 1 .. block_ptr : v[k] = reloc[k]
  <2> TAKE k \in 1 .. block_ptr
  <2>1. k \in 1 .. Len(reloc) /\ k \in 1 .. Len(words) /\ k # block_ptr + 1 /\ k # block_ptr + 3
    BY <1>3, <1>52
  <2> QED
    BY <1>5, <1>10, <2>1
<1>12. \A k \in block_ptr + 5 .. Len(reloc) : v[k] = reloc[k]
  <2> TAKE k \in block_ptr + 5 .. Len(reloc)
  <2>1. k \in 1 .. Len(reloc) /\ k \in 1 .. Len(words) /\ k # block_ptr + 1 /\ k # block_ptr + 3
    BY <1>3, <1>52
  <2> QED
    BY <1>5, <1>10, <2>1
<1>13. Len(v) # Len(reloc) => v[Len(v)].type = "ABSOLUTE"
  <2> SUFFICES ASSUME Len(words) # Len(reloc)
               PROVE  v[Len(words)] = pad
    BY <1>4, <1>10
  <2>1. Len(words) \in 1 .. Len(words) /\ Len(words) # block_ptr + 1 /\ Len(words) # block_ptr + 3
    BY <1>3, <1>52
  <2> QED
    BY <1>5, <1>10, <2>1
<1>14. Open(W, reloc, block_ptr, page)
  BY <1>1 DEF page
<1>15. Len(v) \in {Len(reloc), Len(reloc) + 1} /\ block_ptr + len = Len(v)
  BY <1>2, <1>3, <1>5, <1>7, <1>10
<1>16. \E C : Chain(W, C, v, Len(v))
  BY <1>1, <1>7, <1>8, <1>10, <1>11, <1>12, <1>13, <1>14, <1>15, ChainCloses, ZenonT(60)
<1> QED
  BY <1>6, <1>16

LEMMA StoreBlockKeeps ==
  ASSUME PlacedInv, RelocInv, L!StoreBlock
  PROVE  RelocInv'
<1>1. /\ pc = "reloc" /\ ~ L!InBlock /\ reloc' = L!Stored /\ count' = 0
      /\ UNCHANGED <<image, sections, sh_addr, sec_info, sr, rel, i, offset, block_ptr,
                     block, fixups, pc>>
  BY DEF L!StoreBlock, L!assignVars, L!loaderVars
<1>2. count # 0
  BY <1>1 DEF L!InBlock
<1>3. PICK W, B : Table(W, B)
  BY <1>1 DEF RelocInv, ChainInv
<1>4. PICK C : Chain(W, C, L!Stored, Len(L!Stored))
  BY <1>2, <1>3, StoredIs DEF RelocInv, PlacedInv, ImgTypes
<1>5. Targets(W)'
  <2>1. \A p \in Pair : (Done(p)' <=> Done(p)) /\ AddrOf(p)' = AddrOf(p)
    BY <1>1 DEF Done, Due, L!Absolutes, AddrOf, PlaceOf, RelocsOf
  <2> QED
    BY <1>3, <2>1, TargetsStay DEF Table
<1>6. Table(W, C)'
  BY <1>1, <1>4, <1>5 DEF Table, Closed
<1>7. RelInv'
  BY <1>1 DEF RelocInv, RelInv, Scan, RelocsOf
<1> QED
  BY <1>6, <1>7 DEF RelocInv, ChainInv

\* what happens to no address and no word concerns none of it
LEMMA RelocsStay ==
  ASSUME RelocInv, UNCHANGED <<L!assignVars, L!relocVars, L!loaderVars, image, pc>>
  PROVE  RelocInv'
<1>1. UNCHANGED <<image, sections, sh_addr, sec_info, sr, rel, i, count, offset, block_ptr, reloc,
                  block, fixups, pc>>
  BY DEF L!assignVars, L!relocVars, L!loaderVars
<1>5. RelInv'
  BY <1>1 DEF RelocInv, RelInv, Scan, RelocsOf
<1> SUFFICES ASSUME pc # "assign"
             PROVE  RelocInv'
  BY <1>1, <1>5 DEF RelocInv, ChainInv
<1>2. PICK W, B : Table(W, B)
  BY DEF RelocInv, ChainInv
<1>3. Targets(W)'
  <2>1. \A p \in Pair : (Done(p)' <=> Done(p)) /\ AddrOf(p)' = AddrOf(p)
    BY <1>1 DEF Done, Due, L!Absolutes, AddrOf, PlaceOf, RelocsOf
  <2> QED
    BY <1>2, <2>1, TargetsStay DEF Table
<1>4. Table(W, B)'
  BY <1>1, <1>2, <1>3 DEF Table, Closed, Read
<1> QED
  BY <1>4, <1>5 DEF RelocInv, ChainInv

\* the table is done, and .reloc itself has no relocations
LEMMA EndRelocKeepsRelocs ==
  ASSUME PlacedInv, RelocInv, NEW s \in DOMAIN sections, L!EndReloc(s)
  PROVE  RelocInv' /\ Len(IF count # 0 THEN L!Stored ELSE reloc) \in Nat
<1> DEFINE table == IF count # 0 THEN L!Stored ELSE reloc
           size == 2 * Len(table)
<1>1. /\ pc = "reloc" /\ rel > Len(sr) /\ i = Len(sec_info) /\ L!First(s)
      /\ reloc' = table /\ count' = 0 /\ pc' = "write"
      /\ sections' = Resized(sections, s, size) /\ L!Counted(s, addr, size)
      /\ UNCHANGED <<image, sh_addr, sr, rel, i, offset, block_ptr, block, fixups>>
  BY DEF L!EndReloc, Resized, L!loaderVars
<1>2. PICK W, B : Table(W, B)
  BY <1>1 DEF RelocInv, ChainInv
<1>3. PICK C : Chain(W, C, table, Len(table))
  <2>1. CASE count = 0
    BY <1>2, <2>1 DEF Table, Closed
  <2>2. CASE count # 0
    BY <1>2, <2>2, StoredIs DEF RelocInv, PlacedInv, ImgTypes
  <2> QED
    BY <2>1, <2>2
<1>4. Len(table) \in Nat /\ size \in Nat
  BY <1>3 DEF Chain
<1> HIDE DEF table, size
<1>5. /\ ImgTypes /\ RelInv /\ Scan /\ sec_info \in Seq(Entry) /\ Len(sec_info) \in Nat /\ i \in Nat
      /\ sections \in Seq(Section) /\ rel \in Nat
  BY <1>1 DEF PlacedInv, RelocInv, RelInv, ImgTypes, SecTypes
<1>6. /\ s \in 1 .. Len(sections) /\ s = Len(sections) /\ s \in todo
  <2>1. s \in todo /\ todo = {Len(sections)}
    BY <1>1, <1>5, RelocLast DEF ImgTypes
  <2> QED
    BY <1>1, <1>5, <2>1, RelocLast
<1>7. /\ sections'[s].reloc = << >>
      /\ \A y \in 1 .. Len(sections) :
           /\ sections'[y].reloc = sections[y].reloc
           /\ L!Absolutes(sections'[y]) = L!Absolutes(sections[y])
  <2>1. \A y \in 1 .. Len(sections) :
           /\ sections'[y].reloc = sections[y].reloc
           /\ L!Absolutes(sections'[y]) = L!Absolutes(sections[y])
    <3>1. sections' = Resized(sections, s, size)
      BY <1>1
    <3>2. \A y \in 1 .. Len(sections) :
            /\ Resized(sections, s, size)[y].reloc = sections[y].reloc
            /\ L!Absolutes(Resized(sections, s, size)[y]) = L!Absolutes(sections[y])
      <4>1. sections \in Seq(Section) /\ s \in 1 .. Len(sections) /\ size \in Nat
        BY <1>4, <1>5, <1>6
      <4> QED
        BY <4>1, ResizedIs
    <3> QED
      BY <3>1, <3>2
  <2> QED
    BY <1>5, <1>6, <2>1 DEF ImgTypes, SecTypes
<1>8. /\ Len(sec_info') \in Nat
      /\ \A x \in 1 .. Len(sec_info) :
           /\ x \in 1 .. Len(sec_info') /\ sec_info'[x] = sec_info[x]
           /\ sec_info[x].ord \in 1 .. Len(sections)
      /\ \A x \in 1 .. Len(sec_info') : x \notin 1 .. Len(sec_info) => sec_info'[x].ord = s
  <2> DEFINE e == [ord |-> s, cls |-> L!ClassOf(s), addr |-> addr, size |-> size,
                   data |-> IF sections[s].type = "NOBITS" THEN 0 ELSE size]
  <2>1. sec_info' = sec_info \/ sec_info' = Append(sec_info, e)
    BY <1>1 DEF L!Counted
  <2>2. e.ord = s
    OBVIOUS
  <2> HIDE DEF e
  <2>3. \A x \in 1 .. Len(sec_info) : sec_info[x].ord \in 1 .. Len(sections)
    <3> TAKE x \in 1 .. Len(sec_info)
    <3>1. sec_info[x] \in Entry
      BY <1>5
    <3> QED
      BY <3>1 DEF Entry
  <2> PICK E : E = Entry \cup {e}
    OBVIOUS
  <2>4. sec_info \in Seq(E) /\ e \in E
    BY <1>5
  <2> QED
    BY <2>1, <2>2, <2>3, <2>4
<1>9. ASSUME NEW p \in Pair PROVE Done(p)' <=> Done(p)
  <2>1. p.sec \in Nat /\ p.rel \in Nat
    BY DEF Pair
  <2>2. Done(p)' <=> Due(p)'
    BY <1>1 DEF Done
  <2>3. Due(p)' <=> Due(p)
    <3>1. CASE p.sec \in 1 .. Len(sec_info)
      BY <1>7, <1>8, <3>1 DEF Due
    <3>2. CASE p.sec \in 1 .. Len(sec_info') /\ p.sec \notin 1 .. Len(sec_info)
      <4>1. sec_info'[p.sec].ord = s
        BY <1>8, <3>2
      <4>2. L!Absolutes(sections'[s]) = {}
        BY <1>7 DEF L!Absolutes
      <4>3. L!Absolutes(sections[sec_info[p.sec].ord])' = {}
        BY <4>1, <4>2 DEF L!Absolutes
      <4> QED
        BY <3>2, <4>3 DEF Due
    <3> QED
      BY <1>8, <3>1, <3>2 DEF Due
  <2>4. ASSUME Due(p) PROVE p.sec < i \/ (p.sec = i /\ p.rel < rel)
    <3>1. p.sec \in 1 .. Len(sec_info)
      BY <2>4 DEF Due
    <3>2. CASE p.sec = i
      <4>1. p.rel \in DOMAIN RelocsOf(i)
        BY <2>4, <3>2 DEF Due, L!Absolutes, RelocsOf
      <4>2. sr = RelocsOf(i) /\ sr \in Seq([offset : Nat, type : STRING])
        BY <1>5, <3>1, <3>2, <4>1 DEF Scan
      <4>3. p.rel \in 1 .. Len(sr) /\ Len(sr) \in Nat
        BY <4>1, <4>2
      <4> QED
        BY <1>1, <1>5, <2>1, <3>2, <4>3
    <3>3. CASE p.sec # i
      BY <1>1, <1>5, <2>1, <3>1, <3>3
    <3> QED
      BY <3>2, <3>3
  <2> QED
    BY <1>1, <2>2, <2>3, <2>4 DEF Done
<1>10. ASSUME NEW p \in Pair, Due(p) PROVE AddrOf(p)' = AddrOf(p)
  <2>1. p.sec \in 1 .. Len(sec_info)
    BY <1>10 DEF Due
  <2>2. sec_info'[p.sec] = sec_info[p.sec] /\ sec_info[p.sec].ord \in 1 .. Len(sections)
    BY <1>8, <2>1
  <2>3. sections'[sec_info[p.sec].ord].reloc = sections[sec_info[p.sec].ord].reloc
    BY <1>7, <2>2
  <2>4. PlaceOf(p.sec, p.rel)' = PlaceOf(p.sec, p.rel)
    BY <1>1, <2>2, <2>3 DEF PlaceOf, RelocsOf
  <2> QED
    BY <1>1, <2>4 DEF AddrOf
<1>11. Targets(W)'
  BY <1>2, <1>9, <1>10, TargetsStay DEF Table
<1>12. Table(W, C)'
  BY <1>1, <1>3, <1>11 DEF Table, Closed
<1>13. RelInv'
  BY <1>1, <1>5 DEF RelInv
<1> QED
  BY <1>4, <1>12, <1>13 DEF RelocInv, ChainInv, table

\* the loader starts at the first block
LEMMA WriteFileKeepsRelocs ==
  ASSUME RelocInv, L!WriteFile
  PROVE  RelocInv'
<1>1. /\ pc = "write" /\ pc' = "written"
      /\ UNCHANGED <<image, sections, sh_addr, sec_info, sr, rel, i, count, offset, block_ptr, reloc,
                     block, fixups>>
  BY DEF L!WriteFile, L!assignVars, L!relocVars, L!loaderVars
<1>2. PICK W, B : Table(W, B)
  BY <1>1 DEF RelocInv, ChainInv
<1>3. Targets(W)'
  <2>1. \A p \in Pair : (Done(p)' <=> Done(p)) /\ AddrOf(p)' = AddrOf(p)
    BY <1>1 DEF Done, Due, L!Absolutes, AddrOf, PlaceOf, RelocsOf
  <2> QED
    BY <1>2, <2>1, TargetsStay DEF Table
<1>4. count = 0 /\ block = 0 /\ fixups = {} /\ Chain(W, B, reloc, Len(reloc))
  BY <1>1, <1>2 DEF RelocInv, RelInv, Table, Closed
<1>5. Read(W, B)
  <2>1. \A k \in DOMAIN W : ~ (k <= 0)
    <3> TAKE k \in DOMAIN W
    <3>1. k \in 1 .. Len(reloc)
      BY <1>4, Zenon DEF Chain
    <3> QED
      BY <3>1
  <2>2. 0 \in DOMAIN B \cup {Len(reloc)}
    BY <1>4 DEF Chain
  <2> QED
    BY <1>4, <2>1, <2>2 DEF Read
<1>6. Table(W, B)'
  BY <1>1, <1>2, <1>3, <1>4, <1>5 DEF Table, Closed, Read
<1>7. RelInv'
  BY <1>1 DEF RelocInv, RelInv
<1> QED
  BY <1>6, <1>7 DEF RelocInv, ChainInv

\* and finds the words of each by the lengths
LEMMA ReadBlockKeeps ==
  ASSUME RelocInv, L!ReadBlock
  PROVE  RelocInv'
<1> DEFINE size == reloc[block + 3]
           words == {k \in block + 5 .. block + size \div 2 : reloc[k].type = "HIGHLOW"}
<1>0. pc = "written" /\ block < Len(reloc)
  BY DEF L!ReadBlock
<1>2. PICK W, B : Table(W, B)
  BY <1>0 DEF RelocInv, ChainInv
<1>3. count = 0 /\ Chain(W, B, reloc, Len(reloc)) /\ Len(reloc) \in Nat /\ Read(W, B)
  BY <1>0, <1>2 DEF RelocInv, RelInv, Table, Closed, Chain
<1>4. block \in DOMAIN B
  <2>1. block # Len(reloc)
    BY <1>0, <1>3
  <2> QED
    BY <1>3, <2>1 DEF Read
<1>5. BlockAt(W, B, reloc, Len(reloc), block)
  BY <1>3, <1>4 DEF Chain
<1>6. /\ block \in Nat /\ B[block] \in Nat /\ 5 <= B[block] /\ size = 2 * B[block]
      /\ block + B[block] \in DOMAIN B \cup {Len(reloc)}
  BY <1>5 DEF BlockAt
<1>1. /\ pc = "written" /\ block < Len(reloc) /\ block' = block + size \div 2
      /\ fixups' = fixups \cup {[word |-> k, place |-> reloc[block + 1] + reloc[k].at] : k \in words}
      /\ UNCHANGED <<image, sections, sh_addr, sec_info, sr, rel, i, count, offset, block_ptr, reloc, pc>>
  <2>1. block + L!HeaderWords + 1 = block + 5
    BY <1>6 DEF L!HeaderWords
  <2> QED
    BY <2>1, Zenon DEF L!ReadBlock, L!assignVars, L!relocVars
<1>7. size \div 2 = B[block]
  <2>1. \A x \in Nat : (2 * x) \div 2 = x
    OBVIOUS
  <2> QED
    BY <1>6, <2>1
<1>8. block' = block + B[block]
  BY <1>1, <1>7
<1>9. \A k \in block + 5 .. block + B[block] :
        /\ reloc[k].type = "HIGHLOW" <=> k \in DOMAIN W
        /\ k \in DOMAIN W => W[k] = reloc[block + 1] + reloc[k].at
  BY <1>5 DEF BlockAt
<1>10. words = {k \in block + 5 .. block + B[block] : k \in DOMAIN W}
  BY <1>7, <1>9
<1>11. {[word |-> k, place |-> reloc[block + 1] + reloc[k].at] : k \in words} =
         {[word |-> k, place |-> W[k]] : k \in words}
  BY <1>9, <1>10
<1> HIDE DEF size, words
<1>12. ASSUME NEW k \in DOMAIN W
       PROVE  k <= block + B[block] <=> k <= block \/ k \in words
  <2>1. k \in 1 .. Len(reloc)
    BY <1>3, Zenon DEF Chain
  <2>2. ASSUME k <= block + B[block], ~ (k <= block)
        PROVE  k \in block + 5 .. block + B[block]
    <3>1. PICK b \in DOMAIN B : k \in b + 5 .. b + B[b]
      <4>1. k <= Len(reloc)
        BY <1>3, <2>1
      <4> QED
        BY <1>3, <4>1, Zenon DEF Chain
    <3>2. BlockAt(W, B, reloc, Len(reloc), b)
      BY <1>3 DEF Chain
    <3>3. b \in Nat /\ B[b] \in Nat
      BY <3>2 DEF BlockAt
    <3>4. /\ b < block => b + B[b] <= block
          /\ block < b => block + B[block] <= b
      BY <1>3, <1>4, Zenon DEF Chain
    <3>5. b = block
      BY <1>6, <2>1, <2>2, <3>1, <3>3, <3>4
    <3> QED
      BY <3>1, <3>5
  <2>3. k \in words => k <= block + B[block]
    BY <1>6, <1>10
  <2>4. k <= block => k <= block + B[block]
    BY <1>6, <2>1
  <2> QED
    BY <1>10, <2>2, <2>3, <2>4
<1>13. {k \in DOMAIN W : k <= block + B[block]} = {k \in DOMAIN W : k <= block} \cup words
  <2>1. words \subseteq DOMAIN W
    BY <1>10
  <2> QED
    BY <1>12, <2>1
<1>14. fixups' = {[word |-> k, place |-> W[k]] : k \in {x \in DOMAIN W : x <= block'}}
  <2> PICK X : X = {k \in DOMAIN W : k <= block}
    OBVIOUS
  <2>1. fixups = {[word |-> k, place |-> W[k]] : k \in X}
    BY <1>3 DEF Read
  <2>2. fixups' = {[word |-> k, place |-> W[k]] : k \in X} \cup {[word |-> k, place |-> W[k]] : k \in words}
    BY <1>1, <1>11, <2>1
  <2>3. {x \in DOMAIN W : x <= block'} = X \cup words
    BY <1>8, <1>13
  <2> QED
    BY <2>2, <2>3
<1>15. Read(W, B)'
  BY <1>1, <1>6, <1>8, <1>14 DEF Read
<1>16. Targets(W)'
  <2>1. \A p \in Pair : (Done(p)' <=> Done(p)) /\ AddrOf(p)' = AddrOf(p)
    BY <1>1 DEF Done, Due, L!Absolutes, AddrOf, PlaceOf, RelocsOf
  <2> QED
    BY <1>2, <2>1, TargetsStay DEF Table
<1>17. Table(W, B)'
  BY <1>1, <1>2, <1>3, <1>15, <1>16 DEF Table, Closed
<1>18. RelInv'
  BY <1>1 DEF RelocInv, RelInv
<1> QED
  BY <1>17, <1>18 DEF RelocInv, ChainInv

LEMMA AddrOfIs ==
  ASSUME NEW x, NEW a, sh_addr[sec_info[x.sec].ord] = a
  PROVE  AddrOf(x) = (RelocsOf(x.sec)[x.rel].offset + a) - image.base
BY DEF AddrOf, PlaceOf

\* no two places with an absolute address are one
LEMMA AddrDistinct ==
  ASSUME ImgTypes, AddrInv, NEW p \in Pair, NEW q \in Pair, Due(p), Due(q), AddrOf(p) = AddrOf(q)
  PROVE  p = q
<1> DEFINE Off(x) == RelocsOf(x.sec)[x.rel].offset
           Sec(x) == sections[sec_info[x.sec].ord]
<1>1. sec_info \in Seq(Entry) /\ sections \in Seq(Section) /\ SecTypes /\ image.base \in Nat
  BY ImageIs DEF ImgTypes, SecTypes
<1>2. ASSUME NEW x \in Pair, Due(x)
      PROVE  /\ x.sec \in 1 .. Len(sec_info) /\ x.rel \in L!Absolutes(Sec(x))
             /\ sec_info[x.sec].addr \in Nat /\ sec_info[x.sec].size \in Nat
             /\ Off(x) \in Nat /\ Off(x) < sec_info[x.sec].size
             /\ AddrOf(x) = (Off(x) + sec_info[x.sec].addr) - image.base
             /\ sec_info[x.sec].ord \in 1 .. Len(sections)
  <2>1. x.sec \in 1 .. Len(sec_info) /\ x.rel \in L!Absolutes(Sec(x))
    BY <1>2 DEF Due
  <2> PICK e : e = sec_info[x.sec]
    OBVIOUS
  <2>2. e \in Entry
    BY <1>1, <2>1
  <2>3. e.addr \in Nat /\ e.size \in Nat /\ e.ord \in 1 .. Len(sections)
    BY <2>2 DEF Entry
  <2>4. sh_addr[e.ord] = e.addr /\ sections[e.ord].size <= e.size
    BY <2>1 DEF AddrInv
  <2>5. Off(x) < sections[e.ord].size
    <3>1. \A y \in L!Absolutes(sections[e.ord]) :
            sections[e.ord].reloc[y].offset < sections[e.ord].size
      BY <1>1, <2>3 DEF SecTypes
    <3> QED
      BY <2>1, <3>1 DEF RelocsOf
  <2>6. Off(x) \in Nat /\ sections[e.ord].size \in Nat
    <3>1. sections[e.ord] \in Section
      BY <1>1, <2>3
    <3> PICK w : w = sections[e.ord].reloc
      OBVIOUS
    <3>2. w \in Seq([offset : Nat, type : STRING]) /\ sections[e.ord].size \in Nat
      BY <3>1 DEF Section
    <3>3. x.rel \in DOMAIN w
      BY <2>1 DEF L!Absolutes
    <3>4. w[x.rel] \in [offset : Nat, type : STRING]
      <4>1. \A R : \A z \in Seq(R) : \A y \in DOMAIN z : z[y] \in R
        OBVIOUS
      <4> QED
        BY <3>2, <3>3, <4>1
    <3> QED
      BY <3>2, <3>4 DEF RelocsOf
  <2>7. AddrOf(x) = (Off(x) + e.addr) - image.base
    <3>1. sh_addr[sec_info[x.sec].ord] = e.addr
      BY <2>4
    <3> QED
      BY <3>1, AddrOfIs
  <2> HIDE DEF Off
  <2>8. Off(x) < e.size
    BY <2>3, <2>4, <2>5, <2>6
  <2> QED
    BY <2>1, <2>3, <2>6, <2>7, <2>8
<1>3. \A x, y \in 1 .. Len(sec_info) :
        x < y => sec_info[x].addr + sec_info[x].size <= sec_info[y].addr
  BY Zenon DEF AddrInv, End
<1> HIDE DEF Off
<1>4. ASSUME NEW x \in Pair, NEW y \in Pair, Due(x), Due(y), x.sec < y.sec
      PROVE  AddrOf(x) # AddrOf(y)
  <2>1. sec_info[x.sec].addr + sec_info[x.sec].size <= sec_info[y.sec].addr
    BY <1>2, <1>3, <1>4
  <2>2. /\ sec_info[x.sec].addr \in Nat /\ sec_info[x.sec].size \in Nat
        /\ Off(x) \in Nat /\ Off(x) < sec_info[x.sec].size
        /\ AddrOf(x) = (Off(x) + sec_info[x.sec].addr) - image.base
    BY <1>2, <1>4
  <2>3. /\ sec_info[y.sec].addr \in Nat /\ Off(y) \in Nat
        /\ AddrOf(y) = (Off(y) + sec_info[y.sec].addr) - image.base
    BY <1>2, <1>4
  <2>4. \A a, k, o, b, c, base \in Nat : o < k /\ a + k <= b => (o + a) - base # (c + b) - base
    OBVIOUS
  <2>5. PICK a, k, o, b, c, base \in Nat :
          /\ a = sec_info[x.sec].addr /\ k = sec_info[x.sec].size /\ o = Off(x)
          /\ b = sec_info[y.sec].addr /\ c = Off(y) /\ base = image.base
    BY <1>1, <2>2, <2>3
  <2>6. o < k /\ a + k <= b /\ AddrOf(x) = (o + a) - base /\ AddrOf(y) = (c + b) - base
    BY <2>1, <2>2, <2>3, <2>5
  <2> QED
    BY <2>4, <2>6
<1>5. p.sec = q.sec
  <2>1. p.sec \in Nat /\ q.sec \in Nat
    BY DEF Pair
  <2>2. ~ (p.sec < q.sec) /\ ~ (q.sec < p.sec)
    BY <1>4
  <2> QED
    BY <2>1, <2>2
<1>6. Off(p) = Off(q)
  <2>1. /\ sec_info[p.sec].addr \in Nat /\ Off(p) \in Nat
        /\ AddrOf(p) = (Off(p) + sec_info[p.sec].addr) - image.base
    BY <1>2
  <2>2. /\ Off(q) \in Nat
        /\ AddrOf(q) = (Off(q) + sec_info[p.sec].addr) - image.base
    BY <1>2, <1>5
  <2>3. \A a, o, c, base \in Nat : (o + a) - base = (c + a) - base => o = c
    OBVIOUS
  <2>4. (Off(p) + sec_info[p.sec].addr) - image.base = (Off(q) + sec_info[p.sec].addr) - image.base
    BY <2>1, <2>2
  <2> QED
    BY <1>1, <2>1, <2>2, <2>3, <2>4
<1>7. p.rel = q.rel
  <2>1. p.rel \in L!Absolutes(Sec(p)) /\ q.rel \in L!Absolutes(Sec(p))
        /\ sec_info[p.sec].ord \in 1 .. Len(sections)
    BY <1>2, <1>5
  <2>2. \A x, y \in L!Absolutes(Sec(p)) :
          Sec(p).reloc[x].offset = Sec(p).reloc[y].offset => x = y
    BY <1>1, <2>1 DEF SecTypes
  <2>3. Sec(p).reloc[p.rel].offset = Sec(p).reloc[q.rel].offset
    BY <1>5, <1>6 DEF Off, RelocsOf
  <2> QED
    BY <2>1, <2>2, <2>3
<1> QED
  BY <1>5, <1>7 DEF Pair

\* the places of absolute addresses are those of the pairs
LEMMA AbsoluteIs ==
  ASSUME ImgTypes
  PROVE  L!Absolute = {AddrOf(p) : p \in {x \in Pair : Due(x)}}
<1>1. /\ sec_info \in Seq(Entry) /\ Len(sec_info) \in Nat /\ sections \in Seq(Section)
      /\ sh_addr \in [1 .. Len(sections) -> Nat] /\ image.base \in Nat
      /\ L!ToSet(sec_info) = {sec_info[x] : x \in 1 .. Len(sec_info)}
  BY ImageIs DEF ImgTypes, SecTypes, L!ToSet
<1>2. ASSUME NEW x \in 1 .. Len(sec_info), NEW y \in DOMAIN RelocsOf(x)
      PROVE  sh_addr[sec_info[x].ord] - image.base + RelocsOf(x)[y].offset
               = AddrOf([sec |-> x, rel |-> y])
  <2> PICK e, w : e = sec_info[x] /\ w = RelocsOf(x)
    OBVIOUS
  <2>1. e \in Entry
    BY <1>1
  <2>2. e.ord \in 1 .. Len(sections)
    BY <2>1 DEF Entry
  <2>3. sections[e.ord] \in Section
    BY <1>1, <2>2
  <2>4. w \in Seq([offset : Nat, type : STRING])
    BY <2>3 DEF Section, RelocsOf
  <2>5. w[y] \in [offset : Nat, type : STRING]
    <3>1. \A R : \A z \in Seq(R) : \A k \in DOMAIN z : z[k] \in R
      OBVIOUS
    <3> QED
      BY <2>4, <3>1
  <2>6. w[y].offset \in Nat /\ sh_addr[e.ord] \in Nat
    BY <1>1, <2>2, <2>5
  <2>7. AddrOf([sec |-> x, rel |-> y]) = (w[y].offset + sh_addr[e.ord]) - image.base
    BY DEF AddrOf, PlaceOf
  <2>8. \A o, a, base \in Nat : a - base + o = (o + a) - base
    OBVIOUS
  <2>9. sh_addr[e.ord] - image.base + w[y].offset = (w[y].offset + sh_addr[e.ord]) - image.base
    BY <1>1, <2>6, <2>8
  <2> QED
    BY <2>7, <2>9
<1>3. ASSUME NEW a \in L!Absolute
      PROVE  \E p \in Pair : Due(p) /\ a = AddrOf(p)
  <2>1. PICK s_ \in {e.ord : e \in L!ToSet(sec_info)} :
          a \in {sh_addr[s_] - image.base + r.offset :
                  r \in {z \in L!ToSet(sections[s_].reloc) : z.type = "R_X86_64_64"}}
    BY DEF L!Absolute
  <2>2. PICK x \in 1 .. Len(sec_info) : s_ = sec_info[x].ord
    BY <1>1
  <2>3. PICK r \in L!ToSet(RelocsOf(x)) :
          r.type = "R_X86_64_64" /\ a = sh_addr[sec_info[x].ord] - image.base + r.offset
    BY <2>1, <2>2 DEF RelocsOf
  <2>4. PICK y \in DOMAIN RelocsOf(x) : r = RelocsOf(x)[y]
    BY <2>3 DEF L!ToSet
  <2>5. a = AddrOf([sec |-> x, rel |-> y])
    BY <1>2, <2>3, <2>4
  <2>6. y \in L!Absolutes(sections[sec_info[x].ord])
    BY <2>3, <2>4 DEF L!Absolutes, RelocsOf
  <2>7. x \in Nat /\ y \in Nat
    <3>1. sec_info[x] \in Entry
      BY <1>1
    <3>2. sec_info[x].ord \in 1 .. Len(sections)
      BY <3>1 DEF Entry
    <3>3. sections[sec_info[x].ord] \in Section
      BY <1>1, <3>2
    <3>4. RelocsOf(x) \in Seq([offset : Nat, type : STRING])
      BY <3>3 DEF Section, RelocsOf
    <3> QED
      BY <1>1, <3>4
  <2>8. [sec |-> x, rel |-> y] \in Pair /\ Due([sec |-> x, rel |-> y])
    BY <2>6, <2>7 DEF Pair, Due
  <2> QED
    BY <2>5, <2>8
<1>4. ASSUME NEW p \in Pair, Due(p)
      PROVE  AddrOf(p) \in L!Absolute
  <2>1. /\ p.sec \in 1 .. Len(sec_info) /\ p.rel \in L!Absolutes(sections[sec_info[p.sec].ord])
        /\ p = [sec |-> p.sec, rel |-> p.rel]
    BY <1>4 DEF Due, Pair
  <2>2. p.rel \in DOMAIN RelocsOf(p.sec) /\ RelocsOf(p.sec)[p.rel].type = "R_X86_64_64"
    BY <2>1 DEF L!Absolutes, RelocsOf
  <2>3. RelocsOf(p.sec)[p.rel] \in L!ToSet(RelocsOf(p.sec))
    BY <2>2 DEF L!ToSet
  <2>4. AddrOf(p) = sh_addr[sec_info[p.sec].ord] - image.base + RelocsOf(p.sec)[p.rel].offset
    BY <1>2, <2>1, <2>2
  <2>5. sec_info[p.sec].ord \in {e.ord : e \in L!ToSet(sec_info)}
    <3>1. sec_info[p.sec] \in L!ToSet(sec_info)
      BY <1>1, <2>1, Zenon
    <3> QED
      BY <3>1
  <2>6. AddrOf(p) \in {sh_addr[sec_info[p.sec].ord] - image.base + r.offset :
          r \in {z \in L!ToSet(sections[sec_info[p.sec].ord].reloc) : z.type = "R_X86_64_64"}}
    BY <2>2, <2>3, <2>4 DEF RelocsOf
  <2> QED
    BY <2>5, <2>6 DEF L!Absolute
<1> QED
  BY <1>3, <1>4

\* PELayout!Relocatable in every state of the invariant
LEMMA RelocatableHolds ==
  ASSUME PlacedInv, RelocInv
  PROVE  L!Relocatable
<1> SUFFICES ASSUME pc = "written"
             PROVE  /\ block < Len(reloc) => reloc[block + 3] % 4 = 0
                    /\ block >= Len(reloc) =>
                         /\ {f.place : f \in fixups} = L!Absolute
                         /\ \A f, g \in fixups : f.place = g.place => f = g
  BY Zenon DEF L!Relocatable
<1>1. PICK W, B : Table(W, B)
  BY DEF RelocInv, ChainInv
<1>2. count = 0 /\ Chain(W, B, reloc, Len(reloc)) /\ Len(reloc) \in Nat /\ Read(W, B) /\ Targets(W)
  BY <1>1 DEF RelocInv, RelInv, Table, Closed, Chain
<1>3. ImgTypes /\ AddrInv
  BY DEF PlacedInv
<1>4. ASSUME block \in DOMAIN B
      PROVE  block < Len(reloc) /\ reloc[block + 3] % 4 = 0
  <2>1. BlockAt(W, B, reloc, Len(reloc), block)
    BY <1>2, <1>4 DEF Chain
  <2>2. block \in Nat /\ B[block] \in Nat /\ 5 <= B[block] /\ block + B[block] <= Len(reloc)
        /\ reloc[block + 3] = 2 * B[block]
    BY <2>1 DEF BlockAt
  <2>3. PICK m \in Nat : B[block] = 2 * m
    BY <2>1 DEF BlockAt
  <2>4. 2 * B[block] = m * 4
    <3>1. 2 * (2 * m) = m * 4
      OBVIOUS
    <3> QED
      BY <2>3, <3>1
  <2>5. (m * 4) % 4 = 0
    BY ModIs
  <2>6. block < Len(reloc)
    BY <1>2, <2>2
  <2> QED
    BY <2>2, <2>4, <2>5, <2>6
<1>5. block \in DOMAIN B \/ block = Len(reloc)
  BY <1>2 DEF Read
<1>6. ASSUME block = Len(reloc)
      PROVE  /\ {f.place : f \in fixups} = L!Absolute
             /\ \A f, g \in fixups : f.place = g.place => f = g
  <2>1. ASSUME NEW k \in DOMAIN W PROVE k <= block
    <3>1. k \in 1 .. Len(reloc)
      BY <1>2, Zenon DEF Chain
    <3> QED
      BY <1>2, <1>6, <3>1
  <2>2. {x \in DOMAIN W : x <= block} = DOMAIN W
    BY <2>1
  <2>3. fixups = {[word |-> k, place |-> W[k]] : k \in DOMAIN W}
    BY <1>2, <2>2 DEF Read
  <2>4. PICK T \in [DOMAIN W -> Pair] : Points(W, T)
    BY <1>2 DEF Targets
  <2>5. \A p \in Pair : Done(p) <=> Due(p)
    BY DEF Done
  <2>6. {f.place : f \in fixups} = {W[k] : k \in DOMAIN W}
    <3>1. \A f \in fixups : \E k \in DOMAIN W : f = [word |-> k, place |-> W[k]]
      BY <2>3
    <3>2. \A k \in DOMAIN W : [word |-> k, place |-> W[k]] \in fixups
      BY <2>3
    <3>3. \A k : [word |-> k, place |-> W[k]].place = W[k]
      OBVIOUS
    <3>4. \A k \in DOMAIN W : \E f \in fixups : f.place = W[k]
      BY <3>2, <3>3
    <3>5. \A f \in fixups : \E k \in DOMAIN W : f.place = W[k]
      BY <3>1, <3>3
    <3> QED
      BY <3>4, <3>5
  <2>7. {W[k] : k \in DOMAIN W} = {AddrOf(p) : p \in {x \in Pair : Due(x)}}
    <3>1. \A k \in DOMAIN W : T[k] \in Pair /\ Due(T[k]) /\ W[k] = AddrOf(T[k])
      BY <2>4, <2>5 DEF Points
    <3>2. \A p \in Pair : Due(p) => \E k \in DOMAIN W : T[k] = p
      BY <2>4, <2>5 DEF Points
    <3> QED
      BY <3>1, <3>2
  <2>8. ASSUME NEW j \in DOMAIN W, NEW k \in DOMAIN W, W[j] = W[k]
        PROVE  j = k
    <3>1. /\ T[j] \in Pair /\ Due(T[j]) /\ W[j] = AddrOf(T[j])
          /\ T[k] \in Pair /\ Due(T[k]) /\ W[k] = AddrOf(T[k])
      BY <2>4, <2>5 DEF Points
    <3>2. T[j] = T[k]
      BY <1>3, <2>8, <3>1, AddrDistinct
    <3> QED
      BY <2>4, <3>2 DEF Points
  <2>9. ASSUME NEW f \in fixups, NEW g \in fixups, f.place = g.place
        PROVE  f = g
    <3>1. PICK j \in DOMAIN W : f = [word |-> j, place |-> W[j]]
      BY <2>3
    <3>2. PICK k \in DOMAIN W : g = [word |-> k, place |-> W[k]]
      BY <2>3
    <3>3. j = k
      BY <2>8, <2>9, <3>1, <3>2
    <3> QED
      BY <3>1, <3>2, <3>3
  <2> QED
    BY <1>3, <2>6, <2>7, <2>9, AbsoluteIs
<1>7. block >= Len(reloc) => block = Len(reloc)
  BY <1>2, <1>4, <1>5
<1>8. block < Len(reloc) => block \in DOMAIN B
  BY <1>2, <1>5
<1> QED
  BY <1>4, <1>6, <1>7, <1>8

\* before the first address, no table
LEMMA RelocFirst ==
  ASSUME L!Init
  PROVE  RelocInv
BY DEF L!Init, RelocInv, RelInv, ChainInv

-----------------------------------------------------------------------------
(* Every step of PELayout keeps both.                                      *)

LEMMA ImageNext ==
  ASSUME PlacedInv, RelocInv, [L!Next]_(L!vars)
  PROVE  PlacedInv' /\ RelocInv'
<1>1. CASE \E s \in DOMAIN sections : L!AppendBss(s)
  <2> PICK s \in DOMAIN sections : L!AppendBss(s)
    BY <1>1
  <2>1. PlacedInv'
    BY AppendBssKeeps
  <2>2. pc = "assign" /\ UNCHANGED <<pc, L!relocVars, L!loaderVars>>
    BY DEF L!AppendBss, L!Assigning
  <2> QED
    BY <2>1, <2>2, AssignKeepsRelocs
<1>2. CASE \E s \in DOMAIN sections : L!SkipStab(s)
  <2> PICK s \in DOMAIN sections : L!SkipStab(s)
    BY <1>2
  <2>1. PlacedInv'
    BY SkipKeeps
  <2>2. pc = "assign" /\ UNCHANGED <<pc, L!relocVars, L!loaderVars>>
    BY DEF L!SkipStab, L!Assigning
  <2> QED
    BY <2>1, <2>2, AssignKeepsRelocs
<1>3. CASE \E s \in DOMAIN sections : L!Place(s)
  <2> PICK s \in DOMAIN sections : L!Place(s)
    BY <1>3
  <2>1. PlacedInv'
    BY PlaceKeeps
  <2>2. pc = "assign" /\ UNCHANGED <<pc, L!relocVars, L!loaderVars>>
    BY DEF L!Place, L!Assigning
  <2> QED
    BY <2>1, <2>2, AssignKeepsRelocs
<1>4. CASE \E s \in DOMAIN sections : L!PlaceReloc(s)
  BY <1>4, PlaceRelocKeeps, StartKeepsRelocs
<1>5. CASE \E s \in DOMAIN sections : L!EndReloc(s)
  BY <1>5, EndRelocKeeps, EndRelocKeepsRelocs
<1>6. CASE L!SkipRelative
  <2>1. PlacedInv'
    BY <1>6, PlacedStays DEF L!SkipRelative, L!assignVars, L!writeVars
  <2> QED
    BY <1>6, <2>1, SkipRelativeKeeps
<1>7. CASE L!TakeRel
  <2>1. PlacedInv'
    BY <1>7, PlacedStays DEF L!TakeRel, L!assignVars, L!writeVars
  <2> QED
    BY <1>7, <2>1, TakeRelKeeps
<1>8. CASE L!NextSection
  <2>1. PlacedInv'
    BY <1>8, PlacedStays DEF L!NextSection, L!assignVars, L!writeVars
  <2> QED
    BY <1>8, <2>1, NextSectionKeeps
<1>9. CASE L!StoreBlock
  <2>1. PlacedInv'
    BY <1>9, PlacedStays DEF L!StoreBlock, L!assignVars, L!writeVars
  <2> QED
    BY <1>9, <2>1, StoreBlockKeeps
<1>10. CASE L!WriteHeader
  <2>1. UNCHANGED <<L!assignVars, L!relocVars, L!loaderVars, image, pc>>
    BY <1>10 DEF L!WriteHeader
  <2> QED
    BY <1>10, <2>1, WriteHeaderKeeps, RelocsStay
<1>11. CASE L!WriteFile
  BY <1>11, WriteFileKeeps, WriteFileKeepsRelocs
<1>12. CASE L!ReadBlock
  <2>1. PlacedInv'
    BY <1>12, PlacedStays DEF L!ReadBlock, L!assignVars, L!writeVars
  <2> QED
    BY <1>12, <2>1, ReadBlockKeeps
<1>13. CASE UNCHANGED L!vars
  <2>1. UNCHANGED <<L!assignVars, L!relocVars, L!writeVars, L!loaderVars, image, pc>>
    BY <1>13 DEF L!vars
  <2>2. PlacedInv'
    BY <2>1, PlacedStays DEF L!assignVars, L!writeVars
  <2> QED
    BY <2>1, <2>2, RelocsStay
<1> QED
  BY <1>1, <1>2, <1>3, <1>4, <1>5, <1>6, <1>7, <1>8, <1>9, <1>10, <1>11, <1>12, <1>13 DEF L!Next

-----------------------------------------------------------------------------
(* While an image is made, the state is one of PELayout's.                 *)
ImageInv == part = "image" => PlacedInv /\ RelocInv

LEMMA ImageAlways == PartSpec => []ImageInv
<1>1. PartInit => ImageInv
  BY PlacedFirst, RelocFirst DEF PartInit, ImageInv
<1>2. ImageInv /\ [PartNext]_allVars => ImageInv'
  <2> SUFFICES ASSUME ImageInv, [PartNext]_allVars PROVE ImageInv'
    OBVIOUS
  <2>1. CASE Laying
    <3>1. part = "image" /\ part' = part /\ L!Next
      BY <2>1 DEF Laying
    <3>2. PlacedInv /\ RelocInv /\ [L!Next]_(L!vars)
      BY <3>1 DEF ImageInv
    <3>3. PlacedInv' /\ RelocInv'
      BY <3>2, ImageNext
    <3> QED
      BY <3>3 DEF ImageInv
  <2>2. CASE Importing \/ Loading \/ Driving
    BY <2>2 DEF Importing, Loading, Driving, ImageInv
  <2>3. CASE UNCHANGED allVars
    <3>1. part' = part /\ UNCHANGED L!vars
      BY <2>3 DEF allVars, imageOnly, L!vars, L!assignVars, L!relocVars, L!writeVars, L!loaderVars
    <3> SUFFICES ASSUME part = "image"
                 PROVE  PlacedInv' /\ RelocInv'
      BY <3>1 DEF ImageInv
    <3>2. PlacedInv /\ RelocInv /\ [L!Next]_(L!vars)
      BY <3>1 DEF ImageInv
    <3> QED
      BY <3>2, ImageNext
  <2> QED
    BY <2>1, <2>2, <2>3 DEF PartNext
<1> QED
  BY <1>1, <1>2, PTL DEF PartSpec

(* ImageSound: the base relocations of an image (pe_build_reloc) name the  *)
(* place of every absolute address once and no other word, in blocks the   *)
(* loader can walk; the sections are aligned and apart, in memory and in   *)
(* the file, and every section with contents is inside one of them         *)
(* (pe_assign_addresses, pe_write).                                        *)
THEOREM ImageAlwaysSound == PartSpec => []ImageSound
<1>1. ImageInv => ImageSound
  BY PlacedHolds, RelocatableHolds DEF ImageInv, ImageSound, L!ImageSound
<1> QED
  BY <1>1, ImageAlways, PTL
=============================================================================
