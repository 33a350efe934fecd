--------------------------- MODULE PEImport_proofs ---------------------------
(* Proofs about PEImport, for all exports, references and bounds.          *)
EXTENDS PEImport, TLAPS

-----------------------------------------------------------------------------
(* The inductive invariant.                                                *)

Bindings == {Unbound} \cup {InText(x) : x \in Nat}
              \cup {Slot(p, m) : p \in Nat, m \in Nat}

\* what symtab holds, helpers included: the provers have to be told that
\* "IAT." is a name too
Pieces == STRING \cup {"IAT."}
Entry == [name : Seq(Pieces), type : Types, weak : BOOLEAN,
          dllimport : BOOLEAN, stdcall : BOOLEAN, called : BOOLEAN]

TypeOK ==
  /\ pc \in {"load", "check", "build", "relocate", "done", "failed"}
  /\ listed \in Seq(Export) /\ exports \in Seq(Export)
  /\ Len(exports) <= Len(listed) /\ Len(listed) <= MaxExports
  /\ symtab \in Seq(Entry) /\ at \in Seq(Bindings) /\ Len(at) = Len(symtab)
  /\ nrefs \in Nat /\ i \in Nat \ {0}
  /\ imports \in Seq([dll : Dlls, syms : Seq(Nat)])
  /\ iat \in [1 .. MaxExports -> Nat] /\ thk \in [1 .. MaxExports -> Nat]
  /\ thunks \in Seq(Nat)

\* the export of a name is one of those listed under it, without an ordinal
\* only if all of them are
OwnerInv ==
  /\ \A e, f \in DOMAIN exports : exports[e].name = exports[f].name => e = f
  /\ \A m \in DOMAIN listed : \E e \in DOMAIN exports : exports[e].name = listed[m].name
  /\ \A e \in DOMAIN exports, m \in DOMAIN listed :
       exports[e].ord = 0 /\ listed[m].name = exports[e].name => listed[m].ord = 0
  /\ ExportOwner

\* nothing is linked yet
LoadInv ==
  /\ i = 1 /\ imports = << >> /\ thunks = << >> /\ failed = {}
  /\ \A e \in 1 .. MaxExports : iat[e] = 0 /\ thk[e] = 0
  /\ \A s \in DOMAIN at : at[s] = Unbound

\* the slots of one DLL hold different exports of it, and those that have
\* a symbol to be bound to their slot
ImportsInv(im) ==
  /\ \A p, q \in DOMAIN im : im[p].dll = im[q].dll => p = q
  /\ \A p \in DOMAIN im : \A m, n \in DOMAIN im[p].syms :
       im[p].syms[m] = im[p].syms[n] => m = n
  /\ \A p \in DOMAIN im : \A m \in DOMAIN im[p].syms :
       /\ im[p].syms[m] \in DOMAIN exports
       /\ exports[im[p].syms[m]].dll = im[p].dll
Imported(im, e) == \E p \in DOMAIN im : \E m \in DOMAIN im[p].syms : im[p].syms[m] = e

Found(s) == FindImport(symtab[s])
Visited == {s \in 1 .. nrefs : s < i}

\* symbols bound to slots: pointers that were visited, and helpers
SlotInv ==
  /\ \A e \in 1 .. MaxExports : iat[e] # 0 <=> Imported(imports, e)
  /\ \A e, f \in 1 .. MaxExports : iat[e] = iat[f] /\ iat[e] # 0 => e = f
  /\ \A e \in 1 .. MaxExports : iat[e] # 0 =>
       /\ iat[e] \in 1 .. Len(symtab)
       /\ iat[e] <= nrefs =>
            iat[e] < i /\ Found(iat[e]) = e /\ TypeOf(iat[e]) = "OBJECT"
       /\ \E s \in Visited : Found(s) = e

Offset(m) == TextSize + 8 * (m - 1)

\* each thunk has a helper of its own behind the symbols of the program
ThunkInv ==
  /\ Len(symtab) = nrefs + Len(thunks)
  /\ \A m \in DOMAIN thunks : thunks[m] = nrefs + m /\ ~ symtab[nrefs + m].weak
  /\ \A e \in 1 .. MaxExports : thk[e] # 0 =>
       \E m \in DOMAIN thunks : thk[e] = Offset(m) /\ iat[e] = thunks[m]
  /\ TextSize # 0 =>
       \A m \in DOMAIN thunks : \E e \in 1 .. MaxExports :
         thk[e] = Offset(m) /\ iat[e] = thunks[m]

\* what became of the symbols the loop has visited
CallInv(s) ==
  \E m \in DOMAIN thunks :
    /\ at[s] = InText(Offset(m))
    /\ \A f \in 1 .. MaxExports : iat[f] = thunks[m] => f = Found(s)
VisitedInv ==
  \A s \in Visited :
    /\ Found(s) = 0 => symtab[s].weak \/ s \in failed
    /\ Found(s) # 0 /\ TypeOf(s) = "FUNC" => CallInv(s)
    /\ Found(s) # 0 /\ TypeOf(s) = "OBJECT" =>
         iat[Found(s)] = s \/ symtab[s].weak \/ s \in failed \/ Contested(Found(s))

Called(s) == s \in Visited /\ Found(s) # 0 /\ TypeOf(s) = "FUNC"
UnboundInv == \A s \in DOMAIN at : ~ Called(s) => at[s] = Unbound

FailedInv ==
  /\ failed \subseteq Visited
  /\ \A s \in failed : Found(s) = 0 \/ Contested(Found(s))

\* pe_build_imports has bound every symbol some slot is for
BuiltInv ==
  \A s \in DOMAIN at : ~ Called(s) =>
    IF \E e \in 1 .. MaxExports : iat[e] = s
    THEN at[s] \in Slots /\ iat[Import(at[s])] = s
    ELSE at[s] = Unbound

IInv ==
  /\ TypeOK
  /\ OwnerInv
  /\ pc = "load" => LoadInv
  /\ pc \in {"check", "build", "relocate", "done"} =>
       /\ ImportsInv(imports) /\ SlotInv /\ ThunkInv /\ VisitedInv
       /\ nrefs <= Len(symtab)
  /\ pc \in {"check", "build"} => UnboundInv /\ FailedInv
  /\ pc \in {"build", "relocate", "done"} => i > nrefs
  /\ pc \in {"build", "relocate", "done"} => failed = {}
  /\ pc \in {"relocate", "done"} => BuiltInv
  /\ pc = "done" => \A s \in DOMAIN symtab : at[s] = Unbound => symtab[s].weak
  /\ TextSize # 0 => OnlyMissingFail

-----------------------------------------------------------------------------
(* Lookups.                                                                *)

LEMMA SymbolIsEntry == Symbol \subseteq Entry
<1>1. ASSUME NEW r \in Symbol PROVE r.name \in Seq(Pieces)
  BY DEF Symbol, Pieces
<1> QED
  BY <1>1 DEF Symbol, Entry

LEMMA FindImportIn ==
  ASSUME NEW s
  PROVE  FindImport(s) \in {0} \cup DOMAIN exports
<1>1. ASSUME NEW name PROVE ExportNamed(name) \in {0} \cup DOMAIN exports
  BY DEF ExportNamed
<1> QED
  BY <1>1 DEF FindImport

LEMMA FindImportStays ==
  ASSUME exports' = exports, NEW s
  PROVE  FindImport(s)' = FindImport(s)
<1>1. \A name : ExportNamed(name)' = ExportNamed(name)
  BY DEF ExportNamed
<1>2. \A try : Finds(s, try)' <=> Finds(s, try)
  BY <1>1 DEF Finds
<1>3. /\ {t \in FirstTry(s) : Finds(s, t)'} = {t \in FirstTry(s) : Finds(s, t)}
      /\ {t \in SecondTry(s) : Finds(s, t)'} = {t \in SecondTry(s) : Finds(s, t)}
  BY <1>2
<1>4. Tries(s)' = Tries(s)
  BY <1>3 DEF Tries
<1> QED
  BY <1>1, <1>4 DEF FindImport

\* the loop leaves alone what it visits, and what it looks up
Frame ==
  /\ UNCHANGED <<listed, exports, rels, nrefs>>
  /\ \A s \in 1 .. nrefs : symtab'[s] = symtab[s]

LEMMA FrameKeeps ==
  ASSUME Frame
  PROVE  /\ \A s \in 1 .. nrefs : Found(s)' = Found(s) /\ TypeOf(s)' = TypeOf(s)
         /\ \A e : Contested(e)' <=> Contested(e)
<1>1. ASSUME NEW s \in 1 .. nrefs
      PROVE  Found(s)' = Found(s) /\ TypeOf(s)' = TypeOf(s)
  <2>1. symtab'[s] = symtab[s] /\ exports' = exports /\ rels' = rels
    BY DEF Frame
  <2>2. Found(s)' = Found(s)
    BY <2>1, FindImportStays DEF Found
  <2>3. IsAFunc(s)' <=> IsAFunc(s)
    BY <2>1 DEF IsAFunc
  <2> QED
    BY <2>1, <2>2, <2>3 DEF TypeOf
<1>2. ASSUME NEW e PROVE Contested(e)' <=> Contested(e)
  <2>1. nrefs' = nrefs
    BY DEF Frame
  <2> QED
    BY <1>1, <2>1 DEF Contested, Found
<1> QED
  BY <1>1, <1>2

LEMMA TypeOfIs ==
  ASSUME symtab \in Seq(Entry), NEW s \in DOMAIN symtab
  PROVE  TypeOf(s) \in {"FUNC", "OBJECT"}
<1>1. symtab[s] \in Entry
  OBVIOUS
<1> QED
  BY <1>1 DEF TypeOf, Entry, Types

(* pe_add_import: the export gets one slot with its DLL, and no other      *)
(* export loses or gains one.                                              *)
LEMMA AddImportAdds ==
  ASSUME TypeOK, ImportsInv(imports), NEW e \in DOMAIN exports
  PROVE  /\ AddImport(e) \in Seq([dll : Dlls, syms : Seq(Nat)])
         /\ ImportsInv(AddImport(e))
         /\ \A f : Imported(AddImport(e), f) <=> Imported(imports, f) \/ f = e
<1> DEFINE T == [dll : Dlls, syms : Seq(Nat)]
           d == exports[e].dll
           ps == {p \in DOMAIN imports : imports[p].dll = d}
<1>1. /\ imports \in Seq(T) /\ exports \in Seq(Export) /\ e \in Nat /\ d \in Dlls
      /\ Len(imports) \in Nat /\ DOMAIN imports = 1 .. Len(imports)
      /\ \A p \in DOMAIN imports : imports[p] \in T
  <2>1. imports \in Seq(T) /\ exports \in Seq(Export)
    BY DEF TypeOK
  <2>2. exports[e] \in Export /\ e \in Nat
    BY <2>1
  <2>3. d \in Dlls
    BY <2>2 DEF Export
  <2> HIDE DEF T
  <2> QED
    BY <2>1, <2>2, <2>3
<1>2. CASE ps = {}
  <2> DEFINE new == [dll |-> d, syms |-> <<e>>]
  <2> PICK l : l = Len(imports) + 1
    OBVIOUS
  <2>1. AddImport(e) = Append(imports, new)
    BY <1>2 DEF AddImport
  <2>2. new \in T /\ new.dll = d /\ new.syms = <<e>>
    BY <1>1
  <2> HIDE DEF new
  <2> DEFINE im == Append(imports, new)
  <2>3. /\ im \in Seq(T) /\ DOMAIN im = 1 .. l /\ l \in 1 .. l
        /\ im[l] = new /\ \A p \in DOMAIN imports : p \in DOMAIN im /\ im[p] = imports[p]
        /\ \A p \in DOMAIN im : p \in DOMAIN imports \/ p = l
        /\ l \notin DOMAIN imports
    BY <1>1, <2>2
  <2>4. DOMAIN new.syms = {1} /\ new.syms[1] = e
    BY <2>2
  <2> HIDE DEF im
  <2>5. ImportsInv(im)
    <3>1. \A p \in DOMAIN imports : imports[p].dll # d
      BY <1>2
    <3>2. \A p, q \in DOMAIN im : im[p].dll = im[q].dll => p = q
      <4>1. ASSUME NEW p \in DOMAIN im PROVE im[p].dll = d <=> p = l
        BY <2>2, <2>3, <3>1
      <4>2. ASSUME NEW p \in DOMAIN im, NEW q \in DOMAIN im, p # l, q # l
            PROVE  im[p].dll = im[q].dll => p = q
        <5>1. /\ p \in DOMAIN imports /\ im[p] = imports[p]
              /\ q \in DOMAIN imports /\ im[q] = imports[q]
          BY <2>3, <4>2
        <5> QED
          BY <5>1 DEF ImportsInv
      <4> QED
        BY <4>1, <4>2
    <3>3. ASSUME NEW p \in DOMAIN im
          PROVE  /\ \A m, n \in DOMAIN im[p].syms :
                      im[p].syms[m] = im[p].syms[n] => m = n
                 /\ \A m \in DOMAIN im[p].syms :
                      /\ im[p].syms[m] \in DOMAIN exports
                      /\ exports[im[p].syms[m]].dll = im[p].dll
      <4>1. CASE p \in DOMAIN imports
        <5>1. im[p] = imports[p]
          BY <2>3, <4>1
        <5> QED
          BY <4>1, <5>1 DEF ImportsInv
      <4>2. CASE p = l
        <5>1. im[p] = new
          BY <2>3, <4>2
        <5> QED
          BY <2>2, <2>4, <5>1
      <4> QED
        BY <2>3, <4>1, <4>2
    <3> QED
      BY <3>2, <3>3 DEF ImportsInv
  <2>6. \A f : Imported(im, f) <=> Imported(imports, f) \/ f = e
    BY <2>3, <2>4 DEF Imported
  <2> QED
    BY <2>1, <2>3, <2>5, <2>6 DEF im
<1>3. CASE ps # {}
  <2> PICK q \in DOMAIN imports : imports[q].dll = d
    BY <1>3
  <2>1. \A p \in DOMAIN imports : p \in ps <=> p = q
    BY DEF ImportsInv
  <2>2. CASE \A n \in DOMAIN imports[q].syms : imports[q].syms[n] # e
    <3> DEFINE new == [imports[q] EXCEPT !.syms = Append(imports[q].syms, e)]
               im == [imports EXCEPT ![q] = new]
    <3> PICK l : l = Len(imports[q].syms) + 1
      OBVIOUS
    <3>1. AddImport(e) = im
      BY <1>1, <1>3, <2>1, <2>2 DEF AddImport
    <3>2. imports[q] \in T /\ imports[q].syms \in Seq(Nat)
      BY <1>1
    <3>3. /\ new \in T /\ new.dll = d /\ l \in DOMAIN new.syms /\ new.syms[l] = e
          /\ \A n \in DOMAIN imports[q].syms :
               n \in DOMAIN new.syms /\ new.syms[n] = imports[q].syms[n]
          /\ \A n \in DOMAIN new.syms : n \in DOMAIN imports[q].syms \/ n = l
      <4> PICK old : old = imports[q].syms
        OBVIOUS
      <4> PICK longer : longer = Append(old, e)
        OBVIOUS
      <4>1. /\ longer \in Seq(Nat) /\ l \in DOMAIN longer /\ longer[l] = e
            /\ \A n \in DOMAIN old : n \in DOMAIN longer /\ longer[n] = old[n]
            /\ \A n \in DOMAIN longer : n \in DOMAIN old \/ n = l
        BY <1>1, <3>2
      <4>2. new = [imports[q] EXCEPT !.syms = longer]
        OBVIOUS
      <4>3. new \in T /\ new.dll = d /\ new.syms = longer
        BY <3>2, <4>1, <4>2
      <4> QED
        BY <4>1, <4>3
    <3> HIDE DEF new
    <3>4. im \in Seq(T) /\ DOMAIN im = DOMAIN imports /\ im[q] = new
          /\ \A p \in DOMAIN im : p # q => im[p] = imports[p]
      BY <1>1, <3>3
    <3> HIDE DEF im
    <3>5. ImportsInv(im)
      <4>1. \A p \in DOMAIN im : im[p].dll = imports[p].dll
        BY <3>3, <3>4
      <4>2. ASSUME NEW p \in DOMAIN im
            PROVE  /\ \A m, n \in DOMAIN im[p].syms :
                        im[p].syms[m] = im[p].syms[n] => m = n
                   /\ \A m \in DOMAIN im[p].syms :
                        /\ im[p].syms[m] \in DOMAIN exports
                        /\ exports[im[p].syms[m]].dll = im[p].dll
        <5>1. CASE p # q
          <6>1. im[p] = imports[p] /\ p \in DOMAIN imports
            BY <3>4, <5>1
          <6> QED
            BY <6>1 DEF ImportsInv
        <5>2. CASE p = q
          <6>1. im[p] = new
            BY <3>4, <5>2
          <6>2. \A m, n \in DOMAIN new.syms : new.syms[m] = new.syms[n] => m = n
            BY <2>2, <3>3 DEF ImportsInv
          <6>3. \A m \in DOMAIN new.syms :
                  /\ new.syms[m] \in DOMAIN exports
                  /\ exports[new.syms[m]].dll = d
            BY <3>3 DEF ImportsInv
          <6> QED
            BY <3>3, <6>1, <6>2, <6>3
        <5> QED
          BY <5>1, <5>2
      <4> QED
        BY <3>4, <4>1, <4>2 DEF ImportsInv
    <3>6. ASSUME NEW f
          PROVE  Imported(im, f) <=> Imported(imports, f) \/ f = e
      <4>1. ASSUME Imported(imports, f) PROVE Imported(im, f)
        <5> PICK p \in DOMAIN imports : \E m \in DOMAIN imports[p].syms : imports[p].syms[m] = f
          BY <4>1 DEF Imported
        <5> PICK m \in DOMAIN imports[p].syms : imports[p].syms[m] = f
          OBVIOUS
        <5>1. m \in DOMAIN im[p].syms /\ im[p].syms[m] = f
          BY <3>3, <3>4
        <5> QED
          BY <3>4, <5>1 DEF Imported
      <4>2. Imported(im, e)
        BY <3>3, <3>4 DEF Imported
      <4>3. ASSUME Imported(im, f), f # e PROVE Imported(imports, f)
        <5> PICK p \in DOMAIN im : \E m \in DOMAIN im[p].syms : im[p].syms[m] = f
          BY <4>3 DEF Imported
        <5> PICK m \in DOMAIN im[p].syms : im[p].syms[m] = f
          OBVIOUS
        <5>1. m \in DOMAIN imports[p].syms /\ imports[p].syms[m] = f
          BY <3>3, <3>4, <4>3
        <5> QED
          BY <3>4, <5>1 DEF Imported
      <4> QED
        BY <4>1, <4>2, <4>3
    <3> QED
      BY <3>1, <3>4, <3>5, <3>6
  <2>3. CASE ~ \A n \in DOMAIN imports[q].syms : imports[q].syms[n] # e
    <3>1. AddImport(e) = [p \in DOMAIN imports |-> imports[p]]
      BY <1>3, <2>1, <2>3 DEF AddImport
    <3>2. AddImport(e) = imports
      BY <1>1, <3>1
    <3> QED
      BY <1>1, <2>3, <3>2 DEF Imported
  <2> QED
    BY <2>2, <2>3
<1> QED
  BY <1>2, <1>3

-----------------------------------------------------------------------------
(* Loading.                                                                *)

LEMMA InitInv == Assumptions /\ Init => IInv
<1> SUFFICES ASSUME Assumptions, Init PROVE IInv
  OBVIOUS
<1>1. TypeOK
  BY DEF Init, TypeOK, Assumptions
<1>2. OwnerInv /\ LoadInv
  BY DEF Init, OwnerInv, ExportOwner, LoadInv
<1>3. pc = "load" /\ OnlyMissingFail
  BY DEF Init, OnlyMissingFail
<1> QED
  BY <1>1, <1>2, <1>3 DEF IInv

LEMMA NamedExport ==
  ASSUME exports \in Seq(Export), NEW name
  PROVE  \/ ExportNamed(name) = 0 /\ \A e \in DOMAIN exports : exports[e].name # name
         \/ /\ ExportNamed(name) \in DOMAIN exports /\ ExportNamed(name) # 0
            /\ exports[ExportNamed(name)].name = name
<1> DEFINE found == {e \in DOMAIN exports : exports[e].name = name}
<1>1. CASE found = {}
  BY <1>1 DEF ExportNamed
<1>2. CASE found # {}
  <2>1. ExportNamed(name) \in found
    BY <1>2 DEF ExportNamed
  <2>2. 0 \notin DOMAIN exports
    OBVIOUS
  <2> QED
    BY <2>1, <2>2
<1> QED
  BY <1>1, <1>2

(* pe_putimport: whichever of the three things becomes of the name, the    *)
(* table still tells where each name comes from.                           *)
LEMMA PutimportOwner ==
  ASSUME Assumptions, TypeOK, OwnerInv, NEW dll \in Dlls, NEW name \in Exportable, NEW ordinal \in Ordinals,
         Putimport(dll, name, ordinal)
  PROVE  /\ listed' \in Seq(Export) /\ exports' \in Seq(Export)
         /\ Len(exports') <= Len(listed') /\ Len(listed') <= MaxExports
         /\ OwnerInv'
<1> DEFINE X == [name |-> name, dll |-> dll, ord |-> ordinal]
<1> PICK x : x = X
  OBVIOUS
<1> PICK e : e = ExportNamed(name)
  OBVIOUS
<1> PICK k : k = Len(listed) + 1
  OBVIOUS
<1>1. x \in Export /\ x.name = name /\ x.dll = dll /\ x.ord = ordinal
  BY DEF Export
<1>2. /\ listed' = Append(listed, x)
      /\ exports' = IF e = 0 THEN Append(exports, x)
                    ELSE IF exports[e].ord = 0 THEN [exports EXCEPT ![e] = x] ELSE exports
      /\ Len(listed) < MaxExports
  BY DEF Putimport, Replaceable
<1>0. MaxExports \in Nat
  BY DEF Assumptions
<1>3. /\ listed \in Seq(Export) /\ exports \in Seq(Export)
      /\ Len(exports) \in Nat /\ Len(listed) \in Nat /\ Len(exports) <= Len(listed)
  BY DEF TypeOK
<1>4. /\ listed' \in Seq(Export) /\ Len(listed') = k /\ k \in DOMAIN listed' /\ listed'[k] = x
      /\ \A m \in DOMAIN listed : m \in DOMAIN listed' /\ listed'[m] = listed[m] /\ m < k
      /\ \A m \in DOMAIN listed' : m \in DOMAIN listed \/ m = k
      /\ \A m \in DOMAIN listed' : m \in Nat
      /\ k \in Nat
  BY <1>1, <1>2, <1>3
<1>5. \/ e = 0 /\ \A f \in DOMAIN exports : exports[f].name # name
      \/ e \in DOMAIN exports /\ e # 0 /\ exports[e].name = name
  BY <1>3, NamedExport
<1>6. ASSUME NEW f \in DOMAIN exports, exports[f].name # name
      PROVE  /\ \A m \in DOMAIN listed' :
                  exports[f].ord = 0 /\ listed'[m].name = exports[f].name => listed'[m].ord = 0
             /\ \E l \in DOMAIN listed' :
                  /\ exports[f] = listed'[l]
                  /\ \A m \in DOMAIN listed' :
                       /\ listed'[m].name = exports[f].name
                       /\ IF exports[f].ord # 0 THEN m < l ELSE m > l
                       => listed'[m].ord = 0 /\ exports[f].ord # 0
  <2>1. \A m \in DOMAIN listed' :
          listed'[m].name = exports[f].name => m \in DOMAIN listed /\ listed'[m] = listed[m]
    BY <1>1, <1>4, <1>6
  <2>2. PICK l \in DOMAIN listed :
          /\ exports[f] = listed[l]
          /\ \A m \in DOMAIN listed :
               /\ listed[m].name = exports[f].name
               /\ IF exports[f].ord # 0 THEN m < l ELSE m > l
               => listed[m].ord = 0 /\ exports[f].ord # 0
    BY DEF OwnerInv, ExportOwner
  <2>3. l \in DOMAIN listed' /\ listed'[l] = listed[l]
    BY <1>4
  <2> QED
    BY <2>1, <2>2, <2>3 DEF OwnerInv
<1>7. CASE e = 0
  <2> PICK j : j = Len(exports) + 1
    OBVIOUS
  <2>1. /\ exports' \in Seq(Export) /\ Len(exports') = j /\ j \in DOMAIN exports' /\ exports'[j] = x
        /\ \A f \in DOMAIN exports : f \in DOMAIN exports' /\ exports'[f] = exports[f]
        /\ \A f \in DOMAIN exports' : f \in DOMAIN exports \/ f = j
    BY <1>1, <1>2, <1>3, <1>7
  <2>2. \A f \in DOMAIN exports : exports[f].name # name
    BY <1>5, <1>7
  <2>3. \A m \in DOMAIN listed : listed[m].name # name
    BY <2>2 DEF OwnerInv
  <2>4. \A m \in DOMAIN listed' : listed'[m].name = name => m = k
    BY <1>4, <2>3
  <2>5. \A f, g \in DOMAIN exports' : exports'[f].name = exports'[g].name => f = g
    BY <1>1, <2>1, <2>2 DEF OwnerInv
  <2>6. \A m \in DOMAIN listed' : \E f \in DOMAIN exports' : exports'[f].name = listed'[m].name
    BY <1>1, <1>4, <2>1 DEF OwnerInv
  <2>7. \A f \in DOMAIN exports', m \in DOMAIN listed' :
          exports'[f].ord = 0 /\ listed'[m].name = exports'[f].name => listed'[m].ord = 0
    BY <1>1, <1>4, <1>6, <2>1, <2>2, <2>4
  <2>8. ExportOwner'
    <3>1. ASSUME NEW f \in DOMAIN exports'
          PROVE  \E l \in DOMAIN listed' :
                   /\ exports'[f] = listed'[l]
                   /\ \A m \in DOMAIN listed' :
                        /\ listed'[m].name = exports'[f].name
                        /\ IF exports'[f].ord # 0 THEN m < l ELSE m > l
                        => listed'[m].ord = 0 /\ exports'[f].ord # 0
      <4>1. CASE f \in DOMAIN exports
        BY <1>6, <2>1, <2>2, <4>1
      <4>2. CASE f = j
        <5>1. exports'[f] = listed'[k]
          BY <1>4, <2>1, <4>2
        <5>2. \A m \in DOMAIN listed' : listed'[m].name = exports'[f].name => m = k
          BY <1>1, <2>1, <2>4, <4>2
        <5>3. ~ (k < k) /\ ~ (k > k)
          BY <1>4
        <5> QED
          BY <1>4, <5>1, <5>2, <5>3
      <4> QED
        BY <2>1, <4>1, <4>2
    <3> QED
      BY <3>1 DEF ExportOwner
  <2>9. OwnerInv'
    BY <2>5, <2>6, <2>7, <2>8 DEF OwnerInv
  <2> QED
    BY <1>0, <1>2, <1>3, <1>4, <2>1, <2>9
<1>8. CASE e # 0 /\ exports[e].ord = 0
  <2>1. e \in DOMAIN exports /\ exports[e].name = name
    BY <1>5, <1>8
  <2>2. /\ exports' \in Seq(Export) /\ DOMAIN exports' = DOMAIN exports
        /\ Len(exports') = Len(exports) /\ exports'[e] = x
        /\ \A f \in DOMAIN exports : f # e => exports'[f] = exports[f]
    BY <1>1, <1>2, <1>3, <1>8, <2>1
  <2>3. \A f \in DOMAIN exports : exports'[f].name = exports[f].name
    BY <1>1, <2>1, <2>2
  <2>4. \A f \in DOMAIN exports : f # e => exports[f].name # name
    BY <2>1 DEF OwnerInv
  <2>5. \A f, g \in DOMAIN exports' : exports'[f].name = exports'[g].name => f = g
    BY <2>2, <2>3 DEF OwnerInv
  <2>6. \A m \in DOMAIN listed' : \E f \in DOMAIN exports' : exports'[f].name = listed'[m].name
    <3>1. ASSUME NEW m \in DOMAIN listed'
          PROVE  \E f \in DOMAIN exports' : exports'[f].name = listed'[m].name
      <4>1. CASE m = k
        BY <1>1, <1>4, <2>1, <2>2, <4>1
      <4>2. CASE m \in DOMAIN listed
        <5>1. listed'[m] = listed[m]
          BY <1>4, <4>2
        <5> QED
          BY <2>2, <2>3, <4>2, <5>1 DEF OwnerInv
      <4> QED
        BY <1>4, <4>1, <4>2
    <3> QED
      BY <3>1
  <2>7. \A m \in DOMAIN listed : listed[m].name = name => listed[m].ord = 0
    BY <1>8, <2>1 DEF OwnerInv
  <2>8. \A f \in DOMAIN exports', m \in DOMAIN listed' :
          exports'[f].ord = 0 /\ listed'[m].name = exports'[f].name => listed'[m].ord = 0
    BY <1>1, <1>4, <1>6, <2>2, <2>4, <2>7
  <2>9. ExportOwner'
    <3>1. ASSUME NEW f \in DOMAIN exports'
          PROVE  \E l \in DOMAIN listed' :
                   /\ exports'[f] = listed'[l]
                   /\ \A m \in DOMAIN listed' :
                        /\ listed'[m].name = exports'[f].name
                        /\ IF exports'[f].ord # 0 THEN m < l ELSE m > l
                        => listed'[m].ord = 0 /\ exports'[f].ord # 0
      <4>1. CASE f # e
        BY <1>6, <2>2, <2>4, <4>1
      <4>2. CASE f = e
        <5>1. exports'[f] = listed'[k] /\ exports'[f].name = name
          BY <1>1, <1>4, <2>2, <4>2
        <5>2. \A m \in DOMAIN listed' : m < k /\ listed'[m].name = name => listed'[m].ord = 0
          <6>1. ~ (k < k)
            BY <1>4
          <6> QED
            BY <1>4, <2>7, <6>1
        <5>3. \A m \in DOMAIN listed' : ~ (m > k)
          BY <1>4
        <5> QED
          BY <1>4, <5>1, <5>2, <5>3
      <4> QED
        BY <4>1, <4>2
    <3> QED
      BY <3>1 DEF ExportOwner
  <2>10. OwnerInv'
    BY <2>5, <2>6, <2>8, <2>9 DEF OwnerInv
  <2> QED
    BY <1>0, <1>2, <1>3, <1>4, <2>2, <2>10
<1>9. CASE e # 0 /\ exports[e].ord # 0
  <2>1. e \in DOMAIN exports /\ exports[e].name = name /\ exports' = exports
    BY <1>2, <1>5, <1>9
  <2>2. \A f \in DOMAIN exports : f # e => exports[f].name # name
    BY <2>1 DEF OwnerInv
  <2>3. \A m \in DOMAIN listed' : \E f \in DOMAIN exports : exports[f].name = listed'[m].name
    BY <1>1, <1>4, <2>1 DEF OwnerInv
  <2>4. \A f \in DOMAIN exports, m \in DOMAIN listed' :
          exports[f].ord = 0 /\ listed'[m].name = exports[f].name => listed'[m].ord = 0
    BY <1>6, <1>9, <2>2
  <2>5. \A f \in DOMAIN exports :
          \E l \in DOMAIN listed' :
             /\ exports[f] = listed'[l]
             /\ \A m \in DOMAIN listed' :
                  /\ listed'[m].name = exports[f].name
                  /\ IF exports[f].ord # 0 THEN m < l ELSE m > l
                  => listed'[m].ord = 0 /\ exports[f].ord # 0
    <3>1. PICK l \in DOMAIN listed :
            /\ exports[e] = listed[l]
            /\ \A m \in DOMAIN listed :
                 /\ listed[m].name = exports[e].name
                 /\ IF exports[e].ord # 0 THEN m < l ELSE m > l
                 => listed[m].ord = 0 /\ exports[e].ord # 0
      BY <2>1 DEF OwnerInv, ExportOwner
    <3>2. l \in DOMAIN listed' /\ listed'[l] = listed[l]
      BY <1>4
    <3>3. ~ (k < l)
      BY <1>3, <1>4
    <3>4. \A m \in DOMAIN listed' :
             m < l => m \in DOMAIN listed /\ listed'[m] = listed[m]
      BY <1>4, <3>3
    <3> QED
      BY <1>6, <1>9, <2>2, <3>1, <3>2, <3>4
  <2>6. \A f, g \in DOMAIN exports' : exports'[f].name = exports'[g].name => f = g
    BY <2>1 DEF OwnerInv
  <2>7. ExportOwner'
    BY <2>1, <2>5 DEF ExportOwner
  <2>8. OwnerInv'
    BY <2>1, <2>3, <2>4, <2>6, <2>7 DEF OwnerInv
  <2> QED
    BY <1>0, <1>2, <1>3, <1>4, <2>1, <2>8
<1> QED
  BY <1>7, <1>8, <1>9

LEMMA PutimportInv ==
  ASSUME Assumptions, IInv, NEW dll \in Dlls, NEW name \in Exportable, NEW ordinal \in Ordinals,
         Putimport(dll, name, ordinal)
  PROVE  IInv'
<1>1. /\ pc = "load" /\ pc' = "load"
      /\ UNCHANGED <<symtab, at, rels, nrefs, i, linkVars, failed>>
  BY DEF Putimport
<1>2. TypeOK /\ OwnerInv /\ LoadInv
  BY <1>1 DEF IInv
<1>3. OwnerInv' /\ TypeOK'
  BY <1>1, <1>2, PutimportOwner DEF TypeOK, linkVars
<1>4. LoadInv'
  BY <1>1, <1>2 DEF LoadInv, linkVars
<1> QED
  BY <1>1, <1>3, <1>4 DEF IInv, OnlyMissingFail

LEMMA OwnerStays ==
  ASSUME OwnerInv, UNCHANGED <<listed, exports>>
  PROVE  OwnerInv'
BY DEF OwnerInv, ExportOwner

LEMMA ReferInv ==
  ASSUME Assumptions, IInv, NEW r \in Referable, Refer(r)
  PROVE  IInv'
<1>1. /\ pc = "load" /\ pc' = "load"
      /\ symtab' = Append(symtab, r) /\ at' = Append(at, Unbound)
      /\ UNCHANGED <<listed, exports, nrefs, i, linkVars, failed>>
  BY DEF Refer
<1>2. TypeOK /\ OwnerInv /\ LoadInv
  BY <1>1 DEF IInv
<1>3. r \in Entry /\ Unbound \in Bindings
  BY SymbolIsEntry DEF Assumptions, Bindings
<1>4. TypeOK'
  BY <1>1, <1>2, <1>3 DEF TypeOK, linkVars
<1>5. LoadInv'
  <2>1. at \in Seq(Bindings) /\ \A s \in DOMAIN at : at[s] = Unbound
    BY <1>2 DEF TypeOK, LoadInv
  <2>2. \A s \in DOMAIN at' : at'[s] = Unbound
    BY <1>1, <1>3, <2>1
  <2> QED
    BY <1>1, <1>2, <2>2 DEF LoadInv, linkVars
<1> QED
  BY <1>1, <1>2, <1>4, <1>5, OwnerStays DEF IInv, OnlyMissingFail

LEMMA StartCheckInv == IInv /\ StartCheck => IInv'
<1> SUFFICES ASSUME IInv, StartCheck PROVE IInv'
  OBVIOUS
<1>1. /\ pc = "load" /\ pc' = "check" /\ nrefs' = Len(symtab)
      /\ UNCHANGED <<listed, exports, symtab, at, rels, i, linkVars, failed>>
  BY DEF StartCheck
<1>2. TypeOK /\ OwnerInv /\ LoadInv
  BY <1>1 DEF IInv
<1>3. TypeOK'
  BY <1>1, <1>2 DEF TypeOK, linkVars
<1>4. imports' = << >> /\ thunks' = << >> /\ failed' = {} /\ i' = 1
  BY <1>1, <1>2 DEF LoadInv, linkVars
<1>5. Visited' = {}
  BY <1>4 DEF Visited
<1>6. \A e \in 1 .. MaxExports : iat'[e] = 0 /\ thk'[e] = 0
  BY <1>1, <1>2 DEF LoadInv, linkVars
<1>7. ImportsInv(imports)'
  BY <1>4 DEF ImportsInv
<1>8. SlotInv'
  BY <1>4, <1>6 DEF SlotInv, Imported
<1>9. ThunkInv'
  BY <1>1, <1>2, <1>4, <1>6 DEF ThunkInv, TypeOK
<1>10. VisitedInv' /\ FailedInv'
  BY <1>4, <1>5 DEF VisitedInv, FailedInv
<1>11. UnboundInv'
  BY <1>1, <1>2 DEF UnboundInv, LoadInv
<1>12. nrefs' <= Len(symtab')
  BY <1>1, <1>2 DEF TypeOK
<1> QED
  BY <1>1, <1>2, <1>3, <1>7, <1>8, <1>9, <1>10, <1>11, <1>12, OwnerStays DEF IInv, OnlyMissingFail

-----------------------------------------------------------------------------
(* The loop of pe_check_symbols.                                           *)

CheckInv ==
  /\ TypeOK /\ OwnerInv /\ ImportsInv(imports) /\ SlotInv /\ ThunkInv /\ VisitedInv
  /\ UnboundInv /\ FailedInv /\ nrefs <= Len(symtab)

LEMMA CheckInvIs ==
  /\ IInv /\ pc = "check" => CheckInv
  /\ CheckInv /\ pc = "check" => IInv
BY DEF IInv, CheckInv, OnlyMissingFail

\* what every step of the loop has in common
Passes ==
  /\ CheckInv /\ pc' = "check"
  /\ UNCHANGED <<listed, exports, nrefs>> /\ i' = i + 1 /\ OwnerInv'
  /\ Visited' = Visited \cup {i} /\ i \notin Visited /\ i \in 1 .. nrefs
  /\ nrefs \in Nat /\ DOMAIN at = DOMAIN symtab /\ 1 .. nrefs \subseteq DOMAIN symtab
  /\ \A s \in 1 .. nrefs : Found(s)' = Found(s) /\ TypeOf(s)' = TypeOf(s)
  /\ \A e : Contested(e)' <=> Contested(e)
  /\ Found(i) \in {0} \cup DOMAIN exports /\ DOMAIN exports \subseteq 1 .. MaxExports
  /\ TypeOf(i) \in {"FUNC", "OBJECT"}

LEMMA Visiting ==
  ASSUME Assumptions, IInv, Visit, \A s \in 1 .. nrefs : symtab'[s] = symtab[s]
  PROVE  Passes
<1>1. /\ pc = "check" /\ pc' = "check" /\ i <= nrefs /\ i' = i + 1
      /\ UNCHANGED <<listed, exports, rels, nrefs>>
  BY DEF Visit
<1>2. CheckInv
  BY <1>1, CheckInvIs
<1>3. Frame
  BY <1>1 DEF Frame
<1>4. OwnerInv'
  BY <1>1, <1>2, OwnerStays DEF CheckInv
<1>5. /\ nrefs \in Nat /\ i \in Nat \ {0} /\ nrefs <= Len(symtab)
      /\ symtab \in Seq(Entry) /\ at \in Seq(Bindings) /\ Len(at) = Len(symtab)
      /\ exports \in Seq(Export) /\ listed \in Seq(Export)
      /\ Len(exports) <= Len(listed) /\ Len(listed) <= MaxExports
  BY <1>2 DEF CheckInv, TypeOK
<1>6. DOMAIN at = DOMAIN symtab /\ 1 .. nrefs \subseteq DOMAIN symtab
  BY <1>5
<1>7. Visited' = Visited \cup {i} /\ i \notin Visited /\ i \in 1 .. nrefs
  BY <1>1, <1>5 DEF Visited
<1>8. DOMAIN exports \subseteq 1 .. MaxExports
  <2>1. MaxExports \in Nat
    BY DEF Assumptions
  <2> QED
    BY <1>5, <2>1
<1>9. TypeOf(i) \in {"FUNC", "OBJECT"}
  BY <1>5, <1>6, <1>7, TypeOfIs
<1>10. Found(i) \in {0} \cup DOMAIN exports
  BY FindImportIn DEF Found
<1> QED
  BY <1>1, <1>2, <1>3, <1>4, <1>5, <1>6, <1>7, <1>8, <1>9, <1>10, FrameKeeps DEF Passes

\* no pointer or helper was added
LEMMA SlotStays ==
  ASSUME Passes, UNCHANGED <<symtab, imports, iat>>
  PROVE  SlotInv'
<1> USE DEF Passes
<1>1. Visited \subseteq 1 .. nrefs
  BY DEF Visited
<1>2. \A f : Imported(imports, f)' <=> Imported(imports, f)
  BY DEF Imported
<1>3. i \in Nat
  OBVIOUS
<1>4. ASSUME NEW e \in 1 .. MaxExports, iat[e] # 0
      PROVE  /\ iat[e] \in 1 .. Len(symtab)
             /\ iat[e] <= nrefs =>
                  iat[e] < i + 1 /\ Found(iat[e])' = e /\ TypeOf(iat[e])' = "OBJECT"
             /\ \E s \in Visited' : Found(s)' = e
  <2>1. /\ iat[e] \in 1 .. Len(symtab)
        /\ iat[e] <= nrefs =>
             iat[e] < i /\ Found(iat[e]) = e /\ TypeOf(iat[e]) = "OBJECT"
        /\ \E s \in Visited : Found(s) = e
    BY <1>4 DEF CheckInv, SlotInv
  <2> QED
    BY <1>1, <1>3, <2>1
<1> QED
  BY <1>2, <1>4 DEF CheckInv, SlotInv

LEMMA NotFoundInv == Assumptions /\ IInv /\ NotFound => IInv'
<1> SUFFICES ASSUME Assumptions, IInv, NotFound PROVE IInv'
  OBVIOUS
<1>1. /\ Visit /\ UNCHANGED <<symtab, at, linkVars>>
      /\ Found(i) # 0 => TypeOf(i) = "OBJECT" /\ iat[Found(i)] # 0
      /\ failed' = IF symtab[i].weak THEN failed ELSE failed \cup {i}
  BY DEF NotFound, Found
<1> USE DEF Passes
<1>2. Passes
  BY <1>1, Visiting
<1>3. TypeOK'
  BY <1>1, <1>2 DEF CheckInv, TypeOK, linkVars
<1>4. ImportsInv(imports)'
  BY <1>1, <1>2 DEF CheckInv, ImportsInv, linkVars
<1>5. SlotInv'
  BY <1>1, <1>2, SlotStays DEF linkVars
<1>6. ThunkInv'
  BY <1>1, <1>2 DEF CheckInv, ThunkInv, linkVars, Offset
<1>7. VisitedInv'
  <2>1. ASSUME NEW s \in Visited'
        PROVE  /\ Found(s) = 0 => symtab[s].weak \/ s \in failed'
               /\ Found(s) # 0 /\ TypeOf(s) = "FUNC" => CallInv(s)
               /\ Found(s) # 0 /\ TypeOf(s) = "OBJECT" =>
                    \/ iat[Found(s)] = s \/ symtab[s].weak \/ s \in failed'
                    \/ Contested(Found(s))
    <3>1. CASE s = i
      BY <1>1, <1>2, <3>1
    <3>2. CASE s \in Visited
      <4>1. failed \subseteq failed'
        BY <1>1
      <4> QED
        BY <1>2, <3>2, <4>1 DEF CheckInv, VisitedInv
    <3> QED
      BY <1>2, <2>1, <3>1, <3>2
  <2>2. Visited' \subseteq 1 .. nrefs
    BY <1>2 DEF Visited
  <2>3. ASSUME NEW s \in Visited' PROVE CallInv(s)' <=> CallInv(s)
    BY <1>1, <1>2, <2>2, <2>3 DEF CallInv, linkVars, Offset
  <2> QED
    BY <1>1, <1>2, <2>1, <2>2, <2>3 DEF VisitedInv, linkVars
<1>8. UnboundInv'
  BY <1>1, <1>2 DEF CheckInv, UnboundInv, Called, Visited
<1>9. FailedInv'
  <2>1. Visited \subseteq 1 .. nrefs
    BY DEF Visited
  <2>2. failed' \subseteq failed \cup {i}
    BY <1>1
  <2>3. Found(i) = 0 \/ Contested(Found(i))
    <3>1. SUFFICES ASSUME Found(i) # 0 PROVE Contested(Found(i))
      OBVIOUS
    <3>2. /\ TypeOf(i) = "OBJECT" /\ iat[Found(i)] # 0 /\ Found(i) \in 1 .. MaxExports
      BY <1>1, <1>2, <3>1
    <3>3. PICK s \in Visited : Found(s) = Found(i)
      BY <1>2, <3>2 DEF CheckInv, SlotInv
    <3>4. s \in 1 .. nrefs /\ s # i
      BY <1>2, <2>1
    <3> QED
      BY <1>2, <3>2, <3>3, <3>4 DEF Contested, Found
  <2>4. \A s \in failed' : s \in 1 .. nrefs /\ (Found(s) = 0 \/ Contested(Found(s)))
    BY <1>2, <2>1, <2>2, <2>3 DEF CheckInv, FailedInv
  <2>5. failed' \subseteq Visited'
    BY <1>2, <2>2 DEF CheckInv, FailedInv
  <2> QED
    BY <1>2, <2>4, <2>5 DEF FailedInv
<1>10. nrefs' <= Len(symtab')
  BY <1>1, <1>2 DEF CheckInv
<1> QED
  BY <1>2, <1>3, <1>4, <1>5, <1>6, <1>7, <1>8, <1>9, <1>10, CheckInvIs DEF CheckInv, IInv, OnlyMissingFail

LEMMA SharedThunkInv == Assumptions /\ IInv /\ SharedThunk => IInv'
<1> SUFFICES ASSUME Assumptions, IInv, SharedThunk PROVE IInv'
  OBVIOUS
<1> PICK j : j = i
  OBVIOUS
<1> PICK e : e = Found(j)
  OBVIOUS
<1> USE DEF Passes
<1>1. /\ Visit /\ UNCHANGED <<symtab, linkVars, failed>>
      /\ e # 0 /\ TypeOf(j) = "FUNC" /\ thk[e] # 0
      /\ at' = [at EXCEPT ![j] = InText(thk[e])]
  BY DEF SharedThunk, Found
<1>2. Passes
  BY <1>1, Visiting
<1>3. e \in 1 .. MaxExports /\ TypeOK /\ j \in DOMAIN at
  BY <1>1, <1>2 DEF CheckInv
<1>4. TypeOK'
  <2>1. thk[e] \in Nat
    BY <1>3 DEF TypeOK
  <2>2. InText(thk[e]) \in Bindings
    BY <2>1 DEF Bindings
  <2>3. at' \in Seq(Bindings) /\ Len(at') = Len(at)
    BY <1>1, <1>3, <2>2 DEF TypeOK
  <2> QED
    BY <1>1, <1>2, <1>3, <2>3 DEF TypeOK, linkVars
<1>5. ImportsInv(imports)'
  BY <1>1, <1>2 DEF CheckInv, ImportsInv, linkVars
<1>6. SlotInv'
  BY <1>1, <1>2, SlotStays DEF linkVars
<1>7. ThunkInv'
  BY <1>1, <1>2 DEF CheckInv, ThunkInv, linkVars, Offset
<1>8. VisitedInv'
  <2>1. Visited' \subseteq 1 .. nrefs
    BY <1>2 DEF Visited
  <2>2. ASSUME NEW s \in Visited
        PROVE  /\ Found(s) = 0 => symtab[s].weak \/ s \in failed
               /\ Found(s) # 0 /\ TypeOf(s) = "FUNC" => CallInv(s)'
               /\ Found(s) # 0 /\ TypeOf(s) = "OBJECT" =>
                    \/ iat[Found(s)] = s \/ symtab[s].weak \/ s \in failed
                    \/ Contested(Found(s))
    <3>1. CallInv(s) => CallInv(s)'
      <4>1. at'[s] = at[s] /\ Found(s)' = Found(s)
        BY <1>1, <1>2, <1>3, <2>1
      <4> QED
        BY <1>1, <4>1 DEF CallInv, linkVars, Offset
    <3> QED
      BY <1>2, <3>1 DEF CheckInv, VisitedInv
  <2>3. CallInv(j)'
    <3>1. PICK m \in DOMAIN thunks : thk[e] = Offset(m) /\ iat[e] = thunks[m]
      BY <1>1, <1>2, <1>3 DEF CheckInv, ThunkInv
    <3>2. thunks[m] = nrefs + m /\ m > 0 /\ m \in Nat
      BY <1>2, <1>3 DEF CheckInv, ThunkInv, TypeOK
    <3>3. iat[e] # 0
      BY <1>2, <3>1, <3>2
    <3>4. \A f \in 1 .. MaxExports : iat[f] = thunks[m] => f = e
      BY <1>2, <1>3, <3>1, <3>3 DEF CheckInv, SlotInv
    <3>5. at'[j] = InText(Offset(m)) /\ Found(j)' = e
      BY <1>1, <1>2, <1>3, <3>1
    <3> QED
      BY <1>1, <3>4, <3>5 DEF CallInv, linkVars, Offset
  <2> QED
    BY <1>1, <1>2, <2>1, <2>2, <2>3 DEF VisitedInv, linkVars
<1>9. UnboundInv'
  <2>1. Visited' \subseteq 1 .. nrefs
    BY <1>2 DEF Visited
  <2>2. Called(j)'
    BY <1>1, <1>2 DEF Called
  <2>3. ASSUME NEW s \in DOMAIN at', ~ Called(s)'
        PROVE  at'[s] = Unbound
    <3>1. s # j
      BY <2>2, <2>3
    <3>2. s \in DOMAIN at /\ at'[s] = at[s]
      BY <1>1, <1>3, <3>1
    <3>3. ~ Called(s)
      BY <1>2, <2>1, <2>3 DEF Called
    <3> QED
      BY <1>2, <3>2, <3>3 DEF CheckInv, UnboundInv
  <2> QED
    BY <2>3 DEF UnboundInv
<1>10. FailedInv'
  BY <1>1, <1>2 DEF CheckInv, FailedInv, Visited
<1>11. nrefs' <= Len(symtab')
  BY <1>1, <1>2 DEF CheckInv
<1> QED
  BY <1>2, <1>4, <1>5, <1>6, <1>7, <1>8, <1>9, <1>10, <1>11, CheckInvIs DEF CheckInv, IInv, OnlyMissingFail

LEMMA PointerInv == Assumptions /\ IInv /\ Pointer => IInv'
<1> SUFFICES ASSUME Assumptions, IInv, Pointer PROVE IInv'
  OBVIOUS
<1> PICK e : e = Found(i)
  OBVIOUS
<1> USE DEF Passes
<1>1. /\ Visit /\ UNCHANGED <<symtab, at, thk, thunks, failed>>
      /\ e # 0 /\ TypeOf(i) = "OBJECT" /\ iat[e] = 0
      /\ imports' = AddImport(e)
      /\ iat' = [iat EXCEPT ![e] = i]
  BY DEF Pointer, Found
<1>2. Passes
  BY <1>1, Visiting
<1>3. /\ e \in 1 .. MaxExports /\ e \in DOMAIN exports /\ TypeOK
      /\ i \in Nat /\ i # 0 /\ i \in DOMAIN symtab
      /\ DOMAIN symtab = 1 .. Len(symtab)
  BY <1>1, <1>2 DEF CheckInv, TypeOK
<1>4. /\ imports' \in Seq([dll : Dlls, syms : Seq(Nat)])
      /\ ImportsInv(imports')
      /\ \A f : Imported(imports', f) <=> Imported(imports, f) \/ f = e
  BY <1>1, <1>2, <1>3, AddImportAdds DEF CheckInv
<1>5. /\ iat' \in [1 .. MaxExports -> Nat] /\ iat'[e] = i
      /\ \A f \in 1 .. MaxExports : f # e => iat'[f] = iat[f]
  BY <1>1, <1>3 DEF TypeOK
<1>6. TypeOK'
  BY <1>1, <1>2, <1>3, <1>4, <1>5 DEF TypeOK
<1>7. ImportsInv(imports)'
  BY <1>2, <1>4 DEF ImportsInv
<1>8. \A f \in 1 .. MaxExports : iat[f] # i
  BY <1>2, <1>3 DEF CheckInv, SlotInv
<1>9. SlotInv'
  <2>1. Visited \subseteq 1 .. nrefs
    BY DEF Visited
  <2>2. ASSUME NEW f \in 1 .. MaxExports, NEW k, k = iat'[f], k # 0
        PROVE  /\ k \in 1 .. Len(symtab)
               /\ k <= nrefs => k < i + 1 /\ Found(k)' = f /\ TypeOf(k)' = "OBJECT"
               /\ \E s \in Visited' : Found(s)' = f
    <3>1. CASE f = e
      BY <1>1, <1>2, <1>3, <1>5, <2>2, <3>1
    <3>2. CASE f # e
      <4>1. k = iat[f]
        BY <1>5, <2>2, <3>2
      <4>2. /\ k \in 1 .. Len(symtab)
            /\ k <= nrefs => k < i /\ Found(k) = f /\ TypeOf(k) = "OBJECT"
            /\ \E s \in Visited : Found(s) = f
        BY <1>2, <2>2, <4>1 DEF CheckInv, SlotInv
      <4> QED
        BY <1>2, <1>3, <2>1, <4>1, <4>2
    <3> QED
      BY <3>1, <3>2
  <2>3. \A f \in 1 .. MaxExports : iat'[f] # 0 <=> Imported(imports', f)
    BY <1>2, <1>3, <1>4, <1>5 DEF CheckInv, SlotInv
  <2>4. \A f, g \in 1 .. MaxExports : iat'[f] = iat'[g] /\ iat'[f] # 0 => f = g
    BY <1>2, <1>3, <1>5, <1>8 DEF CheckInv, SlotInv
  <2>5. \A f \in 1 .. MaxExports : iat'[f] # 0 =>
          /\ iat'[f] \in 1 .. Len(symtab')
          /\ iat'[f] <= nrefs' =>
               iat'[f] < i' /\ Found(iat[f])' = f /\ TypeOf(iat[f])' = "OBJECT"
          /\ \E s \in Visited' : Found(s)' = f
    BY <1>1, <1>2, <2>2
  <2> QED
    BY <2>3, <2>4, <2>5 DEF SlotInv, Imported
<1>10. \A m \in DOMAIN thunks : thunks[m] = nrefs + m /\ thunks[m] # i /\ m \in Nat /\ m > 0
  BY <1>2, <1>3 DEF CheckInv, ThunkInv, TypeOK
<1>11. ThunkInv'
  <2>1. ASSUME NEW f \in 1 .. MaxExports, thk[f] # 0
        PROVE  \E m \in DOMAIN thunks : thk[f] = Offset(m) /\ iat'[f] = thunks[m]
    <3>1. PICK m \in DOMAIN thunks : thk[f] = Offset(m) /\ iat[f] = thunks[m]
      BY <1>2, <2>1 DEF CheckInv, ThunkInv
    <3>2. f # e
      BY <1>1, <1>2, <1>10, <3>1
    <3> QED
      BY <1>5, <3>1, <3>2
  <2>2. ASSUME TextSize # 0, NEW m \in DOMAIN thunks
        PROVE  \E f \in 1 .. MaxExports : thk[f] = Offset(m) /\ iat'[f] = thunks[m]
    <3>1. PICK f \in 1 .. MaxExports : thk[f] = Offset(m) /\ iat[f] = thunks[m]
      BY <1>2, <2>2 DEF CheckInv, ThunkInv
    <3>2. f # e
      BY <1>1, <1>2, <1>10, <3>1
    <3> QED
      BY <1>5, <3>1, <3>2
  <2> QED
    BY <1>1, <1>2, <2>1, <2>2 DEF CheckInv, ThunkInv, Offset
<1>12. VisitedInv'
  <2>1. Visited' \subseteq 1 .. nrefs
    BY <1>2 DEF Visited
  <2>2. ASSUME NEW s \in Visited
        PROVE  /\ Found(s) = 0 => symtab[s].weak \/ s \in failed
               /\ Found(s) # 0 /\ TypeOf(s) = "FUNC" => CallInv(s)'
               /\ Found(s) # 0 /\ TypeOf(s) = "OBJECT" =>
                    \/ iat'[Found(s)] = s \/ symtab[s].weak \/ s \in failed
                    \/ Contested(Found(s))
    <3>1. s \in 1 .. nrefs /\ s # i /\ Found(s)' = Found(s)
      BY <1>2, <2>1
    <3>2. CallInv(s) => CallInv(s)'
      <4>1. \A m \in DOMAIN thunks, f \in 1 .. MaxExports :
              iat'[f] = thunks[m] => iat[f] = thunks[m]
        BY <1>5, <1>10
      <4> QED
        BY <1>1, <3>1, <4>1 DEF CallInv, Offset
    <3>3. iat[Found(s)] = s => iat'[Found(s)] = s \/ Found(s) \notin 1 .. MaxExports
      BY <1>1, <1>2, <1>5, <3>1
    <3>4. Found(s) # 0 => Found(s) \in 1 .. MaxExports
      BY <1>2, FindImportIn DEF Found
    <3> QED
      BY <1>2, <3>2, <3>3, <3>4 DEF CheckInv, VisitedInv
  <2>3. ASSUME NEW s \in Visited'
        PROVE  /\ Found(s) = 0 => symtab[s].weak \/ s \in failed
               /\ Found(s) # 0 /\ TypeOf(s) = "FUNC" => CallInv(s)'
               /\ Found(s) # 0 /\ TypeOf(s) = "OBJECT" =>
                    \/ iat'[Found(s)] = s \/ symtab[s].weak \/ s \in failed
                    \/ Contested(Found(s))
    BY <1>1, <1>2, <1>5, <2>2
  <2>4. ASSUME NEW s \in Visited'
        PROVE  /\ Found(s)' = Found(s) /\ TypeOf(s)' = TypeOf(s)
               /\ symtab'[s] = symtab[s] /\ failed' = failed
               /\ Contested(Found(s))' <=> Contested(Found(s))
    BY <1>1, <1>2, <2>1
  <2> QED
    BY <2>3, <2>4 DEF VisitedInv
<1>13. UnboundInv'
  <2>1. \A s : Called(s) => Called(s)'
    BY <1>2 DEF Called, Visited
  <2> QED
    BY <1>1, <1>2, <2>1 DEF CheckInv, UnboundInv
<1>14. FailedInv'
  BY <1>1, <1>2 DEF CheckInv, FailedInv, Visited
<1>15. nrefs' <= Len(symtab')
  BY <1>1, <1>2 DEF CheckInv
<1> QED
  BY <1>2, <1>6, <1>7, <1>9, <1>11, <1>12, <1>13, <1>14, <1>15, CheckInvIs DEF CheckInv, IInv, OnlyMissingFail

LEMMA NewThunkInv == Assumptions /\ IInv /\ NewThunk => IInv'
<1> SUFFICES ASSUME Assumptions, IInv, NewThunk PROVE IInv'
  OBVIOUS
<1> PICK j : j = i
  OBVIOUS
<1> PICK e : e = Found(j)
  OBVIOUS
<1> PICK helper : helper = [symtab[j] EXCEPT !.name = <<"IAT.">> \o @, !.type = "OBJECT",
                                             !.weak = FALSE, !.dllimport = FALSE,
                                             !.stdcall = FALSE]
  OBVIOUS
<1> PICK k : k = Len(symtab) + 1
  OBVIOUS
<1> PICK l : l = Len(thunks) + 1
  OBVIOUS
<1> PICK off : off = TextSize + 8 * Len(thunks)
  OBVIOUS
<1> PICK atj : atj = [at EXCEPT ![j] = InText(off)]
  OBVIOUS
<1> USE DEF Passes
<1>1. /\ Visit /\ UNCHANGED failed
      /\ e # 0 /\ TypeOf(j) = "FUNC" /\ thk[e] = 0
      /\ imports' = AddImport(e)
      /\ symtab' = Append(symtab, helper)
      /\ at' = Append(atj, Unbound)
      /\ iat' = [iat EXCEPT ![e] = k]
      /\ thk' = [thk EXCEPT ![e] = off]
      /\ thunks' = Append(thunks, k)
  BY DEF NewThunk, Found
<1>2. CheckInv /\ TypeOK
  BY <1>1, CheckInvIs DEF Visit, CheckInv
<1>3. /\ symtab \in Seq(Entry) /\ at \in Seq(Bindings) /\ thunks \in Seq(Nat)
      /\ Len(at) = Len(symtab) /\ nrefs \in Nat /\ j \in 1 .. nrefs /\ j = i
      /\ Len(symtab) = nrefs + Len(thunks) /\ Len(thunks) \in Nat /\ Len(symtab) \in Nat
      /\ j \in DOMAIN symtab /\ j \in DOMAIN at /\ j \in Nat
      /\ k \in Nat \ {0} /\ l \in Nat \ {0} /\ k = nrefs + l
      /\ DOMAIN symtab = 1 .. Len(symtab) /\ DOMAIN thunks = 1 .. Len(thunks)
      /\ DOMAIN at = 1 .. Len(at)
  <2>1. /\ symtab \in Seq(Entry) /\ at \in Seq(Bindings) /\ thunks \in Seq(Nat)
        /\ Len(at) = Len(symtab) /\ nrefs \in Nat /\ i \in Nat \ {0}
    BY <1>2 DEF TypeOK
  <2>2. Len(symtab) = nrefs + Len(thunks) /\ i <= nrefs
    BY <1>1, <1>2 DEF CheckInv, ThunkInv, Visit
  <2>0. Len(thunks) \in Nat /\ Len(symtab) \in Nat
    BY <2>1
  <2>3. j \in 1 .. nrefs /\ Len(thunks) \in Nat /\ Len(symtab) \in Nat
    BY <2>0, <2>1, <2>2
  <2>4. /\ DOMAIN symtab = 1 .. Len(symtab) /\ DOMAIN thunks = 1 .. Len(thunks)
        /\ DOMAIN at = 1 .. Len(at)
    BY <2>1
  <2>5. j \in Nat /\ k \in Nat \ {0} /\ l \in Nat \ {0} /\ k = nrefs + l /\ j \in 1 .. Len(symtab)
    <3>1. nrefs \in Nat
      BY <2>1
    <3>2. k \in Nat \ {0} /\ l \in Nat \ {0}
      BY <2>0
    <3>3. k = nrefs + l
      BY <2>0, <2>2, <3>1
    <3> QED
      BY <2>0, <2>2, <2>3, <3>1, <3>2, <3>3
  <2>6. j = i
    OBVIOUS
  <2> HIDE DEF Entry
  <2> QED
    BY <2>1, <2>2, <2>3, <2>4, <2>5, <2>6
<1>4. helper \in Entry /\ ~ helper.weak
  <2>1. symtab[j] \in Entry
    BY <1>3
  <2>2. symtab[j].name \in Seq(Pieces)
    BY <2>1 DEF Entry
  <2> PICK longer : longer = <<"IAT.">> \o symtab[j].name
    OBVIOUS
  <2>3. longer \in Seq(Pieces)
    <3>1. ASSUME NEW x \in Pieces PROVE <<x>> \in Seq(Pieces)
      OBVIOUS
    <3>2. <<"IAT.">> \in Seq(Pieces)
      BY <3>1 DEF Pieces
    <3> QED
      BY <2>2, <3>2
  <2>4. helper = [symtab[j] EXCEPT !.name = longer, !.type = "OBJECT", !.weak = FALSE,
                                   !.dllimport = FALSE, !.stdcall = FALSE]
    OBVIOUS
  <2> QED
    BY <2>1, <2>3, <2>4 DEF Entry, Types
<1>5. /\ symtab' \in Seq(Entry) /\ Len(symtab') = k /\ symtab'[k] = helper
      /\ \A s \in DOMAIN symtab : symtab'[s] = symtab[s]
  BY <1>1, <1>3, <1>4
<1>6. Passes
  BY <1>1, <1>3, <1>5, Visiting
<1>7. e \in 1 .. MaxExports /\ e \in DOMAIN exports
  BY <1>1, <1>3, <1>6
<1>8. /\ imports' \in Seq([dll : Dlls, syms : Seq(Nat)])
      /\ ImportsInv(imports')
      /\ \A f : Imported(imports', f) <=> Imported(imports, f) \/ f = e
  BY <1>1, <1>2, <1>7, AddImportAdds DEF CheckInv
<1>9. off \in Nat /\ off = Offset(l) /\ TextSize \in Nat
  BY <1>3 DEF Assumptions, Offset
<1>10. /\ iat' \in [1 .. MaxExports -> Nat] /\ iat'[e] = k
       /\ thk' \in [1 .. MaxExports -> Nat] /\ thk'[e] = off
       /\ \A f \in 1 .. MaxExports : f # e => iat'[f] = iat[f] /\ thk'[f] = thk[f]
  BY <1>1, <1>2, <1>3, <1>7, <1>9 DEF TypeOK
<1>11. /\ at' \in Seq(Bindings) /\ Len(at') = k /\ at'[k] = Unbound /\ at'[j] = InText(off)
       /\ \A s \in DOMAIN at : s # j => at'[s] = at[s]
       /\ DOMAIN at' = 1 .. k
  <2>1. InText(off) \in Bindings /\ Unbound \in Bindings
    BY <1>9 DEF Bindings
  <2>2. /\ atj \in Seq(Bindings) /\ Len(atj) = Len(at) /\ atj[j] = InText(off)
        /\ \A s \in DOMAIN at : s # j => atj[s] = at[s]
    BY <1>3, <2>1
  <2> QED
    BY <1>1, <1>3, <2>1, <2>2
<1>12. /\ thunks' \in Seq(Nat) /\ DOMAIN thunks' = 1 .. l /\ thunks'[l] = k /\ Len(thunks') = l
       /\ \A m \in DOMAIN thunks : thunks'[m] = thunks[m]
  BY <1>1, <1>3
<1>13. TypeOK'
  <2>1. i' \in Nat \ {0} /\ Len(at') = Len(symtab')
    BY <1>3, <1>5, <1>6, <1>11
  <2>2. pc' = "check" /\ UNCHANGED <<listed, exports, nrefs>>
    BY <1>6
  <2>3. /\ symtab' \in Seq(Entry) /\ at' \in Seq(Bindings) /\ thunks' \in Seq(Nat)
        /\ iat' \in [1 .. MaxExports -> Nat] /\ thk' \in [1 .. MaxExports -> Nat]
    BY <1>5, <1>10, <1>11, <1>12
  <2> QED
    BY <1>2, <1>8, <2>1, <2>2, <2>3 DEF TypeOK
<1>14. ImportsInv(imports)'
  BY <1>6, <1>8 DEF ImportsInv
<1>15. \A f \in 1 .. MaxExports : iat[f] # k
  BY <1>2, <1>3 DEF CheckInv, SlotInv
<1>16. SlotInv'
  <2>1. Visited \subseteq 1 .. nrefs
    BY DEF Visited
  <2>2. ASSUME NEW f \in 1 .. MaxExports, NEW h, h = iat'[f], h # 0
        PROVE  /\ h \in 1 .. k
               /\ h <= nrefs => h < i + 1 /\ Found(h)' = f /\ TypeOf(h)' = "OBJECT"
               /\ \E s \in Visited' : Found(s)' = f
    <3>1. CASE f = e
      <4>1. h = k /\ ~ (h <= nrefs)
        BY <1>3, <1>10, <2>2, <3>1
      <4>2. j \in Visited' /\ Found(j)' = f
        BY <1>3, <1>6, <3>1
      <4> QED
        BY <1>3, <4>1, <4>2
    <3>2. CASE f # e
      <4>1. h = iat[f]
        BY <1>10, <2>2, <3>2
      <4>2. /\ h \in 1 .. Len(symtab)
            /\ h <= nrefs => h < i /\ Found(h) = f /\ TypeOf(h) = "OBJECT"
            /\ \E s \in Visited : Found(s) = f
        BY <1>2, <2>2, <4>1 DEF CheckInv, SlotInv
      <4> QED
        BY <1>3, <1>6, <2>1, <4>1, <4>2
    <3> QED
      BY <3>1, <3>2
  <2>3. \A f \in 1 .. MaxExports : iat'[f] # 0 <=> Imported(imports', f)
    BY <1>2, <1>3, <1>8, <1>10 DEF CheckInv, SlotInv
  <2>4. \A f, g \in 1 .. MaxExports : iat'[f] = iat'[g] /\ iat'[f] # 0 => f = g
    BY <1>2, <1>10, <1>15 DEF CheckInv, SlotInv
  <2>5. \A f \in 1 .. MaxExports : iat'[f] # 0 =>
          /\ iat'[f] \in 1 .. Len(symtab')
          /\ iat'[f] <= nrefs' =>
               iat'[f] < i' /\ Found(iat[f])' = f /\ TypeOf(iat[f])' = "OBJECT"
          /\ \E s \in Visited' : Found(s)' = f
    BY <1>5, <1>6, <2>2
  <2> QED
    BY <2>3, <2>4, <2>5 DEF SlotInv, Imported
<1>17. \A m \in DOMAIN thunks : /\ thunks[m] = nrefs + m /\ thunks[m] # k
                               /\ m \in Nat /\ m > 0 /\ m # l /\ m \in DOMAIN thunks'
  BY <1>2, <1>3, <1>12 DEF CheckInv, ThunkInv
<1>18. ThunkInv'
  <2>1. ASSUME NEW m \in DOMAIN thunks'
        PROVE  thunks'[m] = nrefs + m /\ ~ symtab'[nrefs + m].weak
    <3>1. CASE m = l
      BY <1>3, <1>4, <1>5, <1>12, <3>1
    <3>2. CASE m # l
      <4>1. m \in DOMAIN thunks
        BY <1>3, <1>12, <3>2
      <4>2. thunks[m] = nrefs + m /\ ~ symtab[nrefs + m].weak
        BY <1>2, <4>1 DEF CheckInv, ThunkInv
      <4>3. nrefs + m \in DOMAIN symtab
        BY <1>3, <4>1
      <4> QED
        BY <1>5, <1>12, <4>1, <4>2, <4>3
    <3> QED
      BY <3>1, <3>2
  <2>2. ASSUME NEW f \in 1 .. MaxExports, thk'[f] # 0
        PROVE  \E m \in DOMAIN thunks' : thk'[f] = Offset(m) /\ iat'[f] = thunks'[m]
    <3>1. CASE f = e
      <4>1. thk'[f] = Offset(l) /\ iat'[f] = thunks'[l]
        BY <1>9, <1>10, <1>12, <3>1
      <4>2. l \in DOMAIN thunks'
        BY <1>3, <1>12
      <4> QED
        BY <4>1, <4>2
    <3>2. CASE f # e
      <4>1. PICK m \in DOMAIN thunks : thk[f] = Offset(m) /\ iat[f] = thunks[m]
        BY <1>2, <1>10, <2>2, <3>2 DEF CheckInv, ThunkInv
      <4> QED
        BY <1>10, <1>12, <1>17, <3>2, <4>1
    <3> QED
      BY <3>1, <3>2
  <2>3. ASSUME TextSize # 0, NEW m \in DOMAIN thunks'
        PROVE  \E f \in 1 .. MaxExports : thk'[f] = Offset(m) /\ iat'[f] = thunks'[m]
    <3>1. CASE m = l
      BY <1>7, <1>9, <1>10, <1>12, <3>1
    <3>2. CASE m # l
      <4>1. m \in DOMAIN thunks
        BY <1>3, <1>12, <3>2
      <4>2. PICK f \in 1 .. MaxExports : thk[f] = Offset(m) /\ iat[f] = thunks[m]
        BY <1>2, <2>3, <4>1 DEF CheckInv, ThunkInv
      <4>3. Offset(m) # 0
        BY <1>9, <1>17, <2>3, <4>1 DEF Offset
      <4>4. f # e
        BY <1>1, <4>2, <4>3
      <4> QED
        BY <1>10, <1>12, <4>1, <4>2, <4>4
    <3> QED
      BY <3>1, <3>2
  <2>4. Len(symtab') = nrefs + Len(thunks')
    BY <1>3, <1>5, <1>12
  <2> QED
    BY <1>6, <2>1, <2>2, <2>3, <2>4 DEF ThunkInv, Offset
<1>19. VisitedInv'
  <2>1. Visited' \subseteq 1 .. nrefs
    BY <1>6 DEF Visited
  <2>2. ASSUME NEW s \in Visited
        PROVE  /\ Found(s) = 0 => symtab[s].weak \/ s \in failed
               /\ Found(s) # 0 /\ TypeOf(s) = "FUNC" => CallInv(s)'
               /\ Found(s) # 0 /\ TypeOf(s) = "OBJECT" =>
                    \/ iat'[Found(s)] = s \/ symtab[s].weak \/ s \in failed
                    \/ Contested(Found(s))
    <3>1. s \in 1 .. nrefs /\ s # j /\ Found(s)' = Found(s) /\ s \in DOMAIN at
      BY <1>3, <1>6, <2>1
    <3>2. CallInv(s) => CallInv(s)'
      <4>1. SUFFICES ASSUME CallInv(s) PROVE CallInv(s)'
        OBVIOUS
      <4>2. PICK m \in DOMAIN thunks :
              /\ at[s] = InText(Offset(m))
              /\ \A f \in 1 .. MaxExports : iat[f] = thunks[m] => f = Found(s)
        BY <4>1 DEF CallInv
      <4>3. \A f \in 1 .. MaxExports : iat'[f] = thunks'[m] => iat[f] = thunks[m]
        BY <1>10, <1>12, <1>17
      <4>4. m \in DOMAIN thunks' /\ at'[s] = at[s]
        BY <1>11, <1>17, <3>1
      <4> QED
        BY <3>1, <4>2, <4>3, <4>4 DEF CallInv, Offset
    <3>3. CASE Found(s) # e
      <4>1. iat[Found(s)] = s => iat'[Found(s)] = s \/ Found(s) \notin 1 .. MaxExports
        BY <1>10, <3>3
      <4>2. Found(s) # 0 => Found(s) \in 1 .. MaxExports
        BY <1>6, FindImportIn DEF Found
      <4> QED
        BY <1>2, <3>2, <4>1, <4>2 DEF CheckInv, VisitedInv
    <3>4. CASE Found(s) = e
      <4>1. TypeOf(s) = "OBJECT" => Contested(e)
        BY <1>3, <3>1, <3>4 DEF Contested, Found
      <4> QED
        BY <1>1, <1>2, <3>2, <3>4, <4>1 DEF CheckInv, VisitedInv
    <3> QED
      BY <3>3, <3>4
  <2>3. CallInv(j)'
    <3>1. \A f \in 1 .. MaxExports : iat'[f] = thunks'[l] => f = e
      BY <1>10, <1>12, <1>15
    <3>2. at'[j] = InText(Offset(l)) /\ l \in DOMAIN thunks' /\ Found(j)' = e
      BY <1>3, <1>6, <1>9, <1>11, <1>12
    <3> QED
      BY <3>1, <3>2 DEF CallInv, Offset
  <2>4. ASSUME NEW s \in Visited'
        PROVE  /\ Found(s) = 0 => symtab[s].weak \/ s \in failed
               /\ Found(s) # 0 /\ TypeOf(s) = "FUNC" => CallInv(s)'
               /\ Found(s) # 0 /\ TypeOf(s) = "OBJECT" =>
                    \/ iat'[Found(s)] = s \/ symtab[s].weak \/ s \in failed
                    \/ Contested(Found(s))
    BY <1>1, <1>3, <1>6, <2>2, <2>3
  <2>5. ASSUME NEW s \in Visited'
        PROVE  /\ Found(s)' = Found(s) /\ TypeOf(s)' = TypeOf(s)
               /\ symtab'[s] = symtab[s] /\ failed' = failed
               /\ Contested(Found(s))' <=> Contested(Found(s))
    BY <1>1, <1>3, <1>5, <1>6, <2>1
  <2> QED
    BY <2>4, <2>5 DEF VisitedInv
<1>20. UnboundInv'
  <2>1. Visited' \subseteq 1 .. nrefs
    BY <1>6 DEF Visited
  <2>2. Called(j)'
    BY <1>1, <1>3, <1>6 DEF Called
  <2>3. ASSUME NEW s \in DOMAIN at', ~ Called(s)'
        PROVE  at'[s] = Unbound
    <3>1. s # j
      BY <2>2, <2>3
    <3>2. CASE s = k
      BY <1>11, <3>2
    <3>3. CASE s # k
      <4>1. s \in DOMAIN at /\ at'[s] = at[s]
        BY <1>3, <1>11, <3>1, <3>3
      <4>2. ~ Called(s)
        BY <1>6, <2>1, <2>3 DEF Called
      <4> QED
        BY <1>2, <4>1, <4>2 DEF CheckInv, UnboundInv
    <3> QED
      BY <3>2, <3>3
  <2> QED
    BY <2>3 DEF UnboundInv
<1>21. FailedInv'
  BY <1>1, <1>6 DEF CheckInv, FailedInv, Visited
<1>22. nrefs' <= Len(symtab')
  BY <1>3, <1>5, <1>6
<1> QED
  BY <1>6, <1>13, <1>14, <1>16, <1>18, <1>19, <1>20, <1>21, <1>22, CheckInvIs DEF CheckInv, IInv, OnlyMissingFail

\* what IInv says of the data is about nothing else
LEMMA DataStays ==
  ASSUME UNCHANGED <<listed, exports, symtab, at, rels, nrefs, i, linkVars, failed>>
  PROVE  /\ ImportsInv(imports)' = ImportsInv(imports)
         /\ SlotInv' = SlotInv /\ ThunkInv' = ThunkInv /\ VisitedInv' = VisitedInv
         /\ UnboundInv' = UnboundInv /\ FailedInv' = FailedInv /\ BuiltInv' = BuiltInv
<1>1. /\ UNCHANGED <<listed, exports, symtab, at, rels, nrefs, i>>
      /\ UNCHANGED <<imports, iat, thk, thunks, failed>>
  BY DEF linkVars
<1>2. \A s : FindImport(s)' = FindImport(s)
  BY <1>1, FindImportStays
<1>3. \A s : Found(s)' = Found(s)
  BY <1>1, <1>2 DEF Found
<1>4. \A s : TypeOf(s)' = TypeOf(s)
  BY <1>1 DEF TypeOf, IsAFunc
<1>5. Visited' = Visited /\ \A s : Called(s)' = Called(s)
  BY <1>1, <1>3, <1>4 DEF Visited, Called
<1>6. \A e : Contested(e)' = Contested(e)
  BY <1>1, <1>2, <1>4 DEF Contested
<1>7. ImportsInv(imports)' = ImportsInv(imports)
  BY <1>1 DEF ImportsInv
<1>8. \A e : Imported(imports, e)' = Imported(imports, e)
  BY <1>1 DEF Imported
<1>9. SlotInv' = SlotInv
  BY <1>1, <1>3, <1>4, <1>5, <1>8 DEF SlotInv
<1>10. ThunkInv' = ThunkInv
  BY <1>1 DEF ThunkInv, Offset
<1>11. \A s : CallInv(s)' = CallInv(s)
  BY <1>1, <1>3 DEF CallInv, Offset
<1>12. VisitedInv' = VisitedInv
  BY <1>1, <1>3, <1>4, <1>5, <1>6, <1>11 DEF VisitedInv
<1>13. UnboundInv' = UnboundInv
  BY <1>1, <1>5 DEF UnboundInv
<1>14. FailedInv' = FailedInv
  BY <1>1, <1>3, <1>5, <1>6 DEF FailedInv
<1>15. Slots' = Slots /\ \A x : Import(x)' = Import(x)
  BY <1>1 DEF Slots, Import
<1>16. BuiltInv' = BuiltInv
  BY <1>1, <1>5, <1>15 DEF BuiltInv
<1> QED
  BY <1>7, <1>9, <1>10, <1>12, <1>13, <1>14, <1>16

LEMMA EndCheckInv == IInv /\ EndCheck => IInv'
<1> SUFFICES ASSUME IInv, EndCheck PROVE IInv'
  OBVIOUS
<1>1. /\ pc = "check" /\ i > nrefs /\ pc' = IF failed = {} THEN "build" ELSE "failed"
      /\ UNCHANGED <<listed, exports, symtab, at, rels, nrefs, i, linkVars, failed>>
  BY DEF EndCheck
<1>2. CheckInv
  BY <1>1, CheckInvIs
<1>3. TypeOK' /\ OwnerInv'
  BY <1>1, <1>2, OwnerStays DEF CheckInv, TypeOK, linkVars
<1>4. /\ ImportsInv(imports)' /\ SlotInv' /\ ThunkInv' /\ VisitedInv'
      /\ UnboundInv' /\ FailedInv' /\ nrefs' <= Len(symtab')
  BY <1>1, <1>2, DataStays DEF CheckInv
<1>5. CASE failed = {}
  <2>1. pc' = "build" /\ failed' = {} /\ i' > nrefs'
    BY <1>1, <1>5
  <2> QED
    BY <1>3, <1>4, <2>1 DEF IInv, OnlyMissingFail
<1>6. CASE failed # {}
  <2>1. pc' = "failed" /\ failed' # {}
    BY <1>1, <1>6
  <2>2. \A s \in failed' : s \in 1 .. nrefs' /\ (Found(s)' = 0 \/ Contested(Found(s))')
    BY <1>4 DEF FailedInv, Visited
  <2>3. OnlyMissingFail'
    BY <2>2 DEF OnlyMissingFail, Found
  <2> QED
    BY <1>3, <2>1, <2>3 DEF IInv
<1> QED
  BY <1>5, <1>6

-----------------------------------------------------------------------------
(* The slots, and what is bound to them.                                   *)

LEMMA SlotFacts ==
  ASSUME Assumptions, TypeOK, ImportsInv(imports), SlotInv, NEW x \in Slots
  PROVE  /\ x \in Bindings /\ x # Unbound
         /\ Import(x) \in 1 .. MaxExports /\ iat[Import(x)] # 0
         /\ Holds(x, Import(x))
<1>1. PICK p \in DOMAIN imports : x \in {Slot(p, m) : m \in DOMAIN imports[p].syms}
  BY DEF Slots
<1>2. PICK m \in DOMAIN imports[p].syms : x = Slot(p, m)
  BY <1>1
<1>3. /\ imports \in Seq([dll : Dlls, syms : Seq(Nat)]) /\ MaxExports \in Nat
      /\ Len(exports) <= Len(listed) /\ Len(listed) <= MaxExports
      /\ exports \in Seq(Export) /\ listed \in Seq(Export)
  BY DEF TypeOK, Assumptions
<1>4. p \in Nat /\ imports[p].syms \in Seq(Nat)
  <2> DEFINE T == [dll : Dlls, syms : Seq(Nat)]
  <2>1. imports[p] \in T /\ p \in Nat
    <3>1. imports \in Seq(T)
      BY <1>3
    <3> HIDE DEF T
    <3> QED
      BY <3>1
  <2> QED
    BY <2>1
<1>5. m \in Nat
  BY <1>4
<1>6. x[2] = p /\ x[3] = m
  BY <1>2 DEF Slot
<1>7. Import(x) = imports[p].syms[m] /\ imports[x[2]].dll = imports[p].dll
  BY <1>6 DEF Import
<1>8. Import(x) \in DOMAIN exports /\ exports[Import(x)].dll = imports[p].dll
  BY <1>7 DEF ImportsInv
<1>9. Import(x) \in 1 .. MaxExports
  BY <1>3, <1>8
<1>10. iat[Import(x)] # 0
  BY <1>7, <1>9 DEF SlotInv, Imported
<1>11. x \in Bindings
  BY <1>2, <1>4, <1>5 DEF Bindings
<1>12. x # Unbound
  BY <1>2 DEF Slot, Unbound
<1> QED
  BY <1>7, <1>8, <1>9, <1>10, <1>11, <1>12 DEF Holds

LEMMA EachImportHasASlot ==
  ASSUME NEW e, Imported(imports, e)
  PROVE  \E x \in Slots : Import(x) = e
<1>1. PICK p \in DOMAIN imports : \E m \in DOMAIN imports[p].syms : imports[p].syms[m] = e
  BY DEF Imported
<1>2. PICK m \in DOMAIN imports[p].syms : imports[p].syms[m] = e
  BY <1>1
<1>3. Slot(p, m) \in Slots
  BY DEF Slots
<1>4. Slot(p, m)[2] = p /\ Slot(p, m)[3] = m
  BY DEF Slot
<1> QED
  BY <1>2, <1>3, <1>4 DEF Import

LEMMA BuildImportsInv == Assumptions /\ IInv /\ BuildImports => IInv'
<1> SUFFICES ASSUME Assumptions, IInv, BuildImports PROVE IInv'
  OBVIOUS
<1> DEFINE slots(s) == {x \in Slots : iat[Import(x)] = s}
<1>1. /\ pc = "build" /\ pc' = "relocate"
      /\ at' = [s \in DOMAIN at |-> IF slots(s) = {} THEN at[s] ELSE CHOOSE x \in slots(s) : TRUE]
      /\ UNCHANGED <<listed, exports, symtab, rels, nrefs, i, linkVars, failed>>
  BY DEF BuildImports
<1>2. /\ TypeOK /\ OwnerInv /\ ImportsInv(imports) /\ SlotInv /\ ThunkInv /\ VisitedInv
      /\ nrefs <= Len(symtab) /\ UnboundInv /\ i > nrefs /\ failed = {}
  BY <1>1 DEF IInv
<1>3. Frame
  BY <1>1 DEF Frame
<1>4. /\ \A s \in 1 .. nrefs : Found(s)' = Found(s) /\ TypeOf(s)' = TypeOf(s)
      /\ \A e : Contested(e)' <=> Contested(e)
  BY <1>3, FrameKeeps
<1>5. Visited \subseteq 1 .. nrefs /\ Visited' = Visited
  BY <1>1 DEF Visited
<1>6. ASSUME NEW s \in DOMAIN at
      PROVE  /\ slots(s) # {} => at'[s] \in Slots /\ iat[Import(at'[s])] = s
             /\ slots(s) = {} => at'[s] = at[s]
  <2>1. at'[s] = IF slots(s) = {} THEN at[s] ELSE CHOOSE x \in slots(s) : TRUE
    BY <1>1
  <2>2. slots(s) # {} => at'[s] \in slots(s)
    BY <2>1
  <2> QED
    BY <2>1, <2>2
<1>7. ASSUME NEW s \in DOMAIN at
      PROVE  slots(s) # {} <=> \E e \in 1 .. MaxExports : iat[e] = s
  <2>1. ASSUME NEW e \in 1 .. MaxExports, iat[e] = s PROVE slots(s) # {}
    <3>1. s # 0
      BY <1>2 DEF TypeOK
    <3>2. Imported(imports, e)
      BY <1>2, <2>1, <3>1 DEF SlotInv
    <3>3. PICK x \in Slots : Import(x) = e
      BY <3>2, EachImportHasASlot
    <3> QED
      BY <2>1, <3>3
  <2>2. ASSUME slots(s) # {} PROVE \E e \in 1 .. MaxExports : iat[e] = s
    <3>1. PICK x \in Slots : iat[Import(x)] = s
      BY <2>2
    <3> QED
      BY <1>2, <3>1, SlotFacts
  <2> QED
    BY <2>1, <2>2
<1> HIDE DEF slots
<1>8. /\ at \in Seq(Bindings) /\ at' \in Seq(Bindings) /\ DOMAIN at' = DOMAIN at
      /\ Len(at') = Len(at) /\ DOMAIN at = 1 .. Len(symtab) /\ nrefs \in Nat /\ i \in Nat
  <2>1. at \in Seq(Bindings) /\ Len(at) = Len(symtab) /\ nrefs \in Nat /\ i \in Nat
    BY <1>2 DEF TypeOK
  <2>2. \A s \in DOMAIN at : at'[s] \in Bindings
    BY <1>2, <1>6, <2>1, SlotFacts
  <2>3. DOMAIN at' = DOMAIN at /\ at' = [s \in DOMAIN at |-> at'[s]]
    BY <1>1
  <2>4. DOMAIN at = 1 .. Len(at) /\ Len(at) \in Nat
    BY <2>1
  <2>5. at' \in [1 .. Len(at) -> Bindings]
    BY <2>2, <2>3, <2>4
  <2>6. at' \in Seq(Bindings) /\ Len(at') = Len(at)
    BY <2>4, <2>5
  <2> QED
    BY <2>1, <2>3, <2>4, <2>6
<1>9. TypeOK' /\ OwnerInv' /\ ImportsInv(imports)'
  BY <1>1, <1>2, <1>8, OwnerStays DEF TypeOK, ImportsInv, linkVars
<1>10. ThunkInv'
  BY <1>1, <1>2 DEF ThunkInv, linkVars, Offset
<1>11. iat' = iat /\ imports' = imports /\ thunks' = thunks /\ symtab' = symtab
  BY <1>1 DEF linkVars
<1>12. SlotInv'
  <2>1. \A e : Imported(imports, e)' <=> Imported(imports, e)
    BY <1>11 DEF Imported
  <2>2. ASSUME NEW e \in 1 .. MaxExports, iat[e] # 0
        PROVE  /\ iat[e] \in 1 .. Len(symtab)
               /\ iat[e] <= nrefs =>
                    iat[e] < i /\ Found(iat[e])' = e /\ TypeOf(iat[e])' = "OBJECT"
               /\ \E s \in Visited : Found(s)' = e
    <3>1. /\ iat[e] \in 1 .. Len(symtab)
          /\ iat[e] <= nrefs =>
               iat[e] < i /\ Found(iat[e]) = e /\ TypeOf(iat[e]) = "OBJECT"
          /\ \E s \in Visited : Found(s) = e
      BY <1>2, <2>2 DEF SlotInv
    <3>2. iat[e] <= nrefs => iat[e] \in 1 .. nrefs
      BY <1>8, <3>1
    <3> QED
      BY <1>4, <1>5, <1>11, <3>1, <3>2
  <2> QED
    BY <1>1, <1>2, <1>5, <1>11, <2>1, <2>2 DEF SlotInv
<1>13. ASSUME NEW s \in Visited
       PROVE  /\ Found(s)' = Found(s) /\ TypeOf(s)' = TypeOf(s)
              /\ Called(s) => at'[s] = at[s]
  <2>1. s \in 1 .. nrefs /\ s \in DOMAIN at
    BY <1>2, <1>5, <1>8
  <2>2. Called(s) => slots(s) = {}
    <3>1. SUFFICES ASSUME Called(s), NEW e \in 1 .. MaxExports, iat[e] = s PROVE FALSE
      BY <1>7, <2>1
    <3>2. iat[e] # 0 /\ iat[e] <= nrefs
      BY <2>1, <3>1
    <3>3. TypeOf(s) = "OBJECT"
      BY <1>2, <3>1, <3>2 DEF SlotInv
    <3> QED
      BY <3>1, <3>3 DEF Called
  <2> QED
    BY <1>4, <1>6, <2>1, <2>2
<1>14. VisitedInv'
  <2>1. ASSUME NEW s \in Visited
        PROVE  /\ Contested(Found(s))' <=> Contested(Found(s))
               /\ Called(s) /\ CallInv(s) => CallInv(s)'
    <3>1. Contested(Found(s))' <=> Contested(Found(s))
      BY <1>4, <1>13
    <3>2. Called(s) /\ CallInv(s) => CallInv(s)'
      BY <1>11, <1>13 DEF CallInv, Offset
    <3> QED
      BY <3>1, <3>2
  <2> QED
    BY <1>1, <1>2, <1>5, <1>11, <1>13, <2>1 DEF VisitedInv, Called
<1>15. \A s : Called(s)' <=> Called(s)
  BY <1>4, <1>5 DEF Called
<1>16. BuiltInv'
  <2>1. ASSUME NEW s \in DOMAIN at, ~ Called(s)
        PROVE  IF \E e \in 1 .. MaxExports : iat[e] = s
               THEN at'[s] \in Slots /\ iat[Import(at'[s])] = s
               ELSE at'[s] = Unbound
    BY <1>2, <1>6, <1>7, <2>1 DEF UnboundInv
  <2>2. Slots' = Slots /\ \A x : Import(x)' = Import(x)
    BY <1>11 DEF Slots, Import
  <2> QED
    BY <1>8, <1>11, <1>15, <2>1, <2>2 DEF BuiltInv
<1> QED
  BY <1>1, <1>2, <1>9, <1>10, <1>12, <1>14, <1>16 DEF IInv, OnlyMissingFail

LEMMA RelocateSymsInv == Assumptions /\ IInv /\ RelocateSyms => IInv'
<1> SUFFICES ASSUME Assumptions, IInv, RelocateSyms PROVE IInv'
  OBVIOUS
<1>1. /\ pc = "relocate" /\ pc' = IF failed' = {} THEN "done" ELSE "failed"
      /\ failed' = {s \in DOMAIN symtab : at[s] = Unbound /\ ~ symtab[s].weak}
      /\ UNCHANGED <<listed, exports, symtab, at, rels, nrefs, i, linkVars>>
  BY DEF RelocateSyms
<1>2. /\ TypeOK /\ OwnerInv /\ ImportsInv(imports) /\ SlotInv /\ ThunkInv /\ VisitedInv
      /\ nrefs <= Len(symtab) /\ BuiltInv /\ i > nrefs /\ failed = {}
  BY <1>1 DEF IInv
<1>3. TypeOK' /\ OwnerInv'
  BY <1>1, <1>2, OwnerStays DEF TypeOK, linkVars
<1>4. CASE failed' = {}
  <2>1. pc' = "done" /\ failed' = {} /\ i' > nrefs' /\ nrefs' <= Len(symtab')
    BY <1>1, <1>2, <1>4
  <2>2. UNCHANGED <<listed, exports, symtab, at, rels, nrefs, i, linkVars, failed>>
    BY <1>1, <1>2, <1>4
  <2>3. ImportsInv(imports)' /\ SlotInv' /\ ThunkInv' /\ VisitedInv' /\ BuiltInv'
    BY <1>2, <2>2, DataStays
  <2>4. \A s \in DOMAIN symtab' : at'[s] = Unbound => symtab'[s].weak
    BY <1>1, <1>4
  <2> QED
    BY <1>3, <2>1, <2>3, <2>4 DEF IInv, OnlyMissingFail
<1>5. ASSUME TextSize # 0, NEW s \in failed'
      PROVE  s \in 1 .. nrefs' /\ (Found(s)' = 0 \/ Contested(Found(s))')
  <2>1. s \in DOMAIN symtab /\ at[s] = Unbound /\ ~ symtab[s].weak
    BY <1>1, <1>5
  <2>2. /\ DOMAIN symtab = 1 .. Len(symtab) /\ DOMAIN at = DOMAIN symtab
        /\ nrefs \in Nat /\ i \in Nat /\ s \in Nat /\ s > 0
        /\ Len(symtab) = nrefs + Len(thunks) /\ DOMAIN thunks = 1 .. Len(thunks)
        /\ Len(thunks) \in Nat
    BY <1>2, <2>1 DEF TypeOK, ThunkInv
  <2>3. ~ Called(s)
    <3>1. SUFFICES ASSUME Called(s) PROVE FALSE
      OBVIOUS
    <3>2. PICK m \in DOMAIN thunks : at[s] = InText(Offset(m))
      BY <1>2, <3>1 DEF Called, VisitedInv, CallInv
    <3> QED
      BY <2>1, <3>2 DEF InText, Unbound
  <2>4. \A e \in 1 .. MaxExports : iat[e] # s
    <3>1. SUFFICES ASSUME NEW e \in 1 .. MaxExports, iat[e] = s PROVE FALSE
      OBVIOUS
    <3>2. at[s] \in Slots
      BY <1>2, <2>1, <2>2, <2>3, <3>1 DEF BuiltInv
    <3> QED
      BY <1>2, <2>1, <3>2, SlotFacts
  <2>5. s <= nrefs
    <3>1. SUFFICES ASSUME ~ (s <= nrefs) PROVE FALSE
      OBVIOUS
    <3>2. PICK m \in DOMAIN thunks : s = nrefs + m
      <4>1. s - nrefs \in DOMAIN thunks /\ s = nrefs + (s - nrefs)
        BY <2>1, <2>2, <3>1
      <4> QED
        BY <4>1
    <3>3. PICK e \in 1 .. MaxExports : iat[e] = thunks[m]
      BY <1>2, <1>5 DEF ThunkInv
    <3> QED
      BY <1>2, <2>4, <3>2, <3>3 DEF ThunkInv
  <2>6. s \in Visited
    BY <1>2, <2>2, <2>5 DEF Visited
  <2>7. Found(s) = 0 \/ Contested(Found(s))
    <3>1. SUFFICES ASSUME Found(s) # 0 PROVE Contested(Found(s))
      OBVIOUS
    <3>2. Found(s) \in 1 .. MaxExports
      <4>1. /\ Found(s) \in DOMAIN exports /\ exports \in Seq(Export) /\ listed \in Seq(Export)
            /\ Len(exports) <= Len(listed) /\ Len(listed) <= MaxExports /\ MaxExports \in Nat
        BY <1>2, <3>1, FindImportIn DEF Found, TypeOK, Assumptions
      <4> QED
        BY <4>1
    <3>3. TypeOf(s) = "OBJECT"
      <4>1. TypeOf(s) \in {"FUNC", "OBJECT"}
        BY <1>2, <2>1, TypeOfIs DEF TypeOK
      <4> QED
        BY <2>3, <2>6, <3>1, <4>1 DEF Called
    <3> QED
      BY <1>2, <2>1, <2>4, <2>6, <3>1, <3>2, <3>3 DEF VisitedInv
  <2>8. Frame
    BY <1>1 DEF Frame
  <2>9. s \in 1 .. nrefs /\ nrefs' = nrefs /\ Found(s)' = Found(s)
    BY <1>1, <2>2, <2>5, <2>8, FrameKeeps
  <2> QED
    BY <2>7, <2>8, <2>9, FrameKeeps
<1>6. CASE failed' # {}
  <2>1. pc' = "failed" /\ (TextSize # 0 => OnlyMissingFail')
    BY <1>1, <1>5, <1>6 DEF OnlyMissingFail, Found
  <2> QED
    BY <1>3, <2>1 DEF IInv
<1> QED
  BY <1>4, <1>6

-----------------------------------------------------------------------------
(* Every step, and what the invariant says of the properties.              *)

LEMMA NextInv == Assumptions /\ IInv /\ [Next]_vars => IInv'
<1> SUFFICES ASSUME Assumptions, IInv, [Next]_vars PROVE IInv'
  OBVIOUS
<1>1. CASE UNCHANGED vars
  <2>1. /\ UNCHANGED <<listed, exports, symtab, at, rels, nrefs, i, linkVars, failed>>
        /\ UNCHANGED <<imports, iat, thk, thunks, failed, pc>>
    BY <1>1 DEF vars, linkVars
  <2>2. TypeOK' = TypeOK /\ OwnerInv' = OwnerInv /\ LoadInv' = LoadInv
    BY <2>1 DEF TypeOK, OwnerInv, ExportOwner, LoadInv
  <2>3. OnlyMissingFail' = OnlyMissingFail
    <3>1. Frame
      BY <2>1 DEF Frame
    <3>2. \A s \in 1 .. nrefs :
            FindImport(symtab[s])' = FindImport(symtab[s])
      BY <3>1, FrameKeeps DEF Found
    <3> QED
      BY <2>1, <3>1, <3>2, FrameKeeps DEF OnlyMissingFail
  <2> QED
    BY <2>1, <2>2, <2>3, DataStays DEF IInv
<1>2. CASE Next
  BY <1>2, PutimportInv, ReferInv, StartCheckInv, NewThunkInv, SharedThunkInv, PointerInv,
     NotFoundInv, EndCheckInv, BuildImportsInv, RelocateSymsInv DEF Next, Linking
<1> QED
  BY <1>1, <1>2

LEMMA InvSlotsOwned == Assumptions /\ IInv => SlotsOwned
<1> SUFFICES ASSUME Assumptions, IInv, pc = "build", NEW x \in Slots, NEW y \in Slots
             PROVE  /\ iat[Import(x)] # 0
                    /\ x # y => Import(x) # Import(y) /\ iat[Import(x)] # iat[Import(y)]
  BY DEF SlotsOwned
<1>1. TypeOK /\ ImportsInv(imports) /\ SlotInv
  BY DEF IInv
<1>2. /\ Import(x) \in 1 .. MaxExports /\ iat[Import(x)] # 0 /\ Holds(x, Import(x))
      /\ Import(y) \in 1 .. MaxExports /\ iat[Import(y)] # 0 /\ Holds(y, Import(y))
  BY <1>1, SlotFacts
<1>3. ASSUME Import(x) = Import(y) PROVE x = y
  <2>1. PICK p \in DOMAIN imports : x \in {Slot(p, m) : m \in DOMAIN imports[p].syms}
    BY DEF Slots
  <2>2. PICK m \in DOMAIN imports[p].syms : x = Slot(p, m)
    BY <2>1
  <2>3. PICK q \in DOMAIN imports : y \in {Slot(q, k) : k \in DOMAIN imports[q].syms}
    BY DEF Slots
  <2>4. PICK k \in DOMAIN imports[q].syms : y = Slot(q, k)
    BY <2>3
  <2>5. x[2] = p /\ x[3] = m /\ y[2] = q /\ y[3] = k
    BY <2>2, <2>4 DEF Slot
  <2>6. imports[p].dll = imports[q].dll
    BY <1>2, <1>3, <2>5 DEF Holds
  <2>7. p = q
    BY <1>1, <2>6 DEF ImportsInv
  <2>8. m = k
    BY <1>1, <1>3, <2>5, <2>7 DEF ImportsInv, Import
  <2> QED
    BY <2>2, <2>4, <2>7, <2>8
<1> QED
  BY <1>1, <1>2, <1>3 DEF SlotInv

LEMMA InvRefsReachExport == Assumptions /\ IInv => RefsReachExport
<1> SUFFICES ASSUME Assumptions, IInv, pc = "done", NEW s \in 1 .. nrefs
             PROVE  \/ Found(s) # 0 /\ Reaches(s, Found(s))
                    \/ symtab[s].weak /\ at[s] = Unbound
  BY DEF RefsReachExport, Found
<1>1. /\ TypeOK /\ ImportsInv(imports) /\ SlotInv /\ ThunkInv /\ VisitedInv /\ BuiltInv
      /\ nrefs <= Len(symtab) /\ i > nrefs /\ failed = {}
      /\ \A t \in DOMAIN symtab : at[t] = Unbound => symtab[t].weak
  BY DEF IInv
<1>2. /\ DOMAIN symtab = 1 .. Len(symtab) /\ DOMAIN at = DOMAIN symtab /\ nrefs \in Nat
      /\ Len(symtab) = nrefs + Len(thunks) /\ DOMAIN thunks = 1 .. Len(thunks)
      /\ Len(thunks) \in Nat /\ i \in Nat /\ s \in Nat /\ s # 0 /\ s \in DOMAIN symtab
  BY <1>1 DEF TypeOK, ThunkInv
<1>3. s \in Visited
  BY <1>1, <1>2 DEF Visited
<1>4. TypeOf(s) \in {"FUNC", "OBJECT"}
  BY <1>1, <1>2, TypeOfIs DEF TypeOK
<1>5. CASE Called(s)
  <2>1. PICK m \in DOMAIN thunks :
          /\ at[s] = InText(Offset(m))
          /\ \A f \in 1 .. MaxExports : iat[f] = thunks[m] => f = Found(s)
    BY <1>1, <1>5 DEF Called, VisitedInv, CallInv
  <2> PICK h : h = thunks[m]
    OBVIOUS
  <2>2. /\ h = nrefs + m /\ h \in DOMAIN at /\ h > nrefs /\ ~ symtab[h].weak
    BY <1>1, <1>2 DEF ThunkInv
  <2>3. ~ Called(h) /\ at[h] # Unbound
    BY <1>1, <1>2, <2>2 DEF Called, Visited
  <2>4. at[h] \in Slots /\ iat[Import(at[h])] = h
    BY <1>1, <2>2, <2>3 DEF BuiltInv
  <2>5. Import(at[h]) = Found(s) /\ Holds(at[h], Import(at[h]))
    BY <1>1, <2>1, <2>4, SlotFacts
  <2>6. TypeOf(s) = "FUNC" /\ Found(s) # 0
    BY <1>5 DEF Called
  <2> QED
    BY <2>1, <2>5, <2>6 DEF Reaches, Offset
<1>6. CASE ~ Called(s) /\ \E e \in 1 .. MaxExports : iat[e] = s
  <2>1. at[s] \in Slots /\ iat[Import(at[s])] = s
    BY <1>1, <1>2, <1>6 DEF BuiltInv
  <2>2. Import(at[s]) \in 1 .. MaxExports /\ Holds(at[s], Import(at[s]))
    BY <1>1, <2>1, SlotFacts
  <2>3. Found(s) = Import(at[s]) /\ TypeOf(s) = "OBJECT"
    BY <1>1, <1>2, <2>1, <2>2 DEF SlotInv
  <2>4. Found(s) # 0
    BY <2>2, <2>3
  <2> QED
    BY <2>2, <2>3, <2>4 DEF Reaches
<1>7. CASE ~ Called(s) /\ \A e \in 1 .. MaxExports : iat[e] # s
  <2>1. at[s] = Unbound
    BY <1>1, <1>2, <1>7 DEF BuiltInv
  <2> QED
    BY <1>1, <1>2, <2>1
<1> QED
  BY <1>5, <1>6, <1>7

LEMMA InvExportOwner == IInv => ExportOwner
BY DEF IInv, OwnerInv

LEMMA InvOnlyMissingFail == IInv /\ TextSize # 0 => OnlyMissingFail
BY DEF IInv

(* The inductive invariant holds of every behaviour, whatever DLLs, names, *)
(* ordinals, references and bounds there are.                              *)
THEOREM ImportInvariant ==
  ASSUME Assumptions
  PROVE  Spec => []IInv
<1>1. Init => IInv
  BY InitInv
<1>2. IInv /\ [Next]_vars => IInv'
  BY NextInv
<1> QED
  BY <1>1, <1>2, PTL DEF Spec
=============================================================================
