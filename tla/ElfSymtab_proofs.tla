-------------------------- MODULE ElfSymtab_proofs --------------------------
(* Proofs about ElfSymtab, for all names, bounds and hash functions: what  *)
(* holds in the middle of its loops; what set_elf_sym makes of the symbols *)
(* given for one name, in whatever order they come; and that the table     *)
(* with its hash chains, its rebuilds and its merge loop implements the    *)
(* map of SymbolTable.                                                     *)
EXTENDS MC_ElfSymtab, TLAPS

USE BoundsAssumption

(* Resolving two symbols of one name gives a symbol of that name, and two  *)
(* globals give a global: what set_elf_sym's do_patch may write.           *)
LEMMA ResolveKeeps ==
  ASSUME NEW old \in ElfSym, NEW new \in ElfSym
  PROVE  /\ Resolve(old, new) \in ElfSym
         /\ old.name = new.name => Resolve(old, new).name = old.name
         /\ NonLocal(old) /\ NonLocal(new) => NonLocal(Resolve(old, new))
<1>1. MergeVis(old.vis, new.vis) \in Visibilities
  BY DEF MergeVis, ElfSym, Visibilities
<1> DEFINE seen == [old EXCEPT !.vis = MergeVis(old.vis, new.vis)]
<1>2. seen \in ElfSym /\ seen.name = old.name /\ seen.bind = old.bind
  BY <1>1 DEF ElfSym
<1> DEFINE patched == [new EXCEPT !.vis = seen.vis, !.aset = old.aset]
<1>3. patched \in ElfSym /\ patched.name = new.name /\ patched.bind = new.bind
  BY <1>2 DEF ElfSym
<1>4. Resolve(old, new) \in {old, new, seen, patched}
  BY DEF Resolve
<1> HIDE DEF seen, patched
<1> QED
  BY <1>2, <1>3, <1>4 DEF NonLocal

LEMMA ToGlobalKeeps ==
  ASSUME NEW s \in ElfSym
  PROVE  /\ ToGlobal(s) \in ElfSym
         /\ ToGlobal(s).name = s.name
         /\ s.bind = "LOCAL" /\ s.sect # "UNDEF" => ToGlobal(s) = s
         /\ ~ NonLocal(ToGlobal(s)) => ToGlobal(s) = s
BY DEF ToGlobal, ElfSym, Binds, NonLocal

LEMMA RedeclareKeeps ==
  ASSUME NEW s \in ElfSym, NEW t \in Patched
  PROVE  Redeclare(s, t) \in ElfSym /\ Redeclare(s, t).name = s.name
<1>1. t \in Attributes
  BY AttributesAssumption
<1>2. (s.aset \/ t.aset) \in BOOLEAN
  BY Zenon
<1> QED
  BY <1>1, <1>2 DEF Redeclare, ElfSym, Attributes

LEMMA NamedIsSym ==
  ASSUME NEW n \in Names, NEW t \in Handed \cup Emitted \cup Patched
  PROVE  Named(n, t) \in ElfSym /\ Named(n, t).name = n
BY AttributesAssumption DEF Named, ElfSym, Attributes

LEMMA NoSymIsSym == NoSym \in ElfSym
BY NamesAssumption, PaysAssumption
   DEF NoSym, ElfSym, Binds, Sects, Visibilities

LEMMA HashInRange ==
  ASSUME NEW n \in Names, NEW nb \in Nat \ {0}
  PROVE  HashIn(n, nb) \in 0 .. nb - 1
BY HashAssumption DEF HashIn

(* The table starts in a state of the inductive invariant.                 *)
LEMMA InitIInv == Init => IInv
<1> SUFFICES ASSUME Init PROVE IInv
  OBVIOUS
<1> USE DEF Init
<1>1. TypeOK
  BY NoSymIsSym, BoundsAssumption DEF TypeOK, PCs, Indexes
<1>2. ControlInv /\ SlotsInv /\ CallInv
  BY DEF ControlInv, SlotsInv, CallInv, Top
<1>3. ChainsExact
  BY DEF ChainsExact, Precedes, Linked, Top
<1>4. OnePerName /\ MergeInv /\ TrInv /\ RelocInv
  BY DEF OnePerName, MergeInv, TrInv, RelocInv, RelocOK, ReadsIntact, Merging, Top
<1> QED
  BY <1>1, <1>2, <1>3, <1>4 DEF IInv

-----------------------------------------------------------------------------
(* Steps that leave the array and the hash table alone.                    *)

LEMMA SetStep ==
  ASSUME IInv, NEW n \in Names, NEW t \in Handed, Set(n, t)
  PROVE  IInv'
<1> DEFINE s == Named(n, t)
<1>1. s \in ElfSym /\ s.name = n
  BY NamedIsSym
<1>2. HashIn(s.name, nbuckets) \in 0 .. nbuckets - 1
  BY <1>1, HashInRange DEF IInv, TypeOK
<1> HIDE DEF s
<1>3. /\ pc = "idle" /\ ret = "idle" /\ Call(s, "idle")
      /\ UNCHANGED <<data, nsyms, hashVars, fileVars, relVars, errs>>
  BY DEF s, Set, IInv, ControlInv, InCall, TypeOK
<1> USE DEF hashVars, fileVars, relVars
<1>4. TypeOK'
  BY <1>1, <1>2, <1>3 DEF IInv, TypeOK, Call, PCs
<1>5. ControlInv' /\ SlotsInv'
  BY <1>3 DEF IInv, ControlInv, SlotsInv, Call, InCall, Top
<1>6. Precedes(bucket[HashIn(s.name, nbuckets)], nsyms + 1, HashIn(s.name, nbuckets))
  BY <1>2, <1>3 DEF IInv, ChainsExact, Linked, Top
<1>7. CallInv'
  BY <1>1, <1>2, <1>3, <1>6
     DEF IInv, TypeOK, CallInv, Call, NoneAbove, Precedes, InBucket, NonLocal
<1>8. ChainsExact' /\ OnePerName'
  BY <1>3 DEF IInv, ChainsExact, OnePerName, Call, Precedes, InBucket, Linked, Top
<1>9. MergeInv' /\ TrInv' /\ RelocInv'
  BY <1>3 DEF IInv, MergeInv, TrInv, RelocInv, RelocOK, Call, ReadsIntact, Merging
<1> QED
  BY <1>4, <1>5, <1>7, <1>8, <1>9 DEF IInv

LEMMA FindNextStep ==
  ASSUME IInv, FindNext
  PROVE  IInv'
<1> USE DEF hashVars, fileVars, relVars
<1>1. cur \in 1 .. nsyms /\ NonLocal(data[cur])
      /\ HashIn(data[cur].name, nbuckets) = HashIn(arg.name, nbuckets)
  BY DEF IInv, CallInv, FindNext, InBucket, TypeOK
<1>2. TypeOK'
  BY <1>1 DEF IInv, TypeOK, FindNext, Indexes
<1>3. ControlInv' /\ SlotsInv'
  BY DEF IInv, ControlInv, SlotsInv, FindNext, InCall, Top
<1>4. Precedes(chain[cur], cur, HashIn(arg.name, nbuckets))
  BY <1>1 DEF IInv, ChainsExact, Linked, Top, FindNext
<1>5. CallInv'
  BY <1>1, <1>4
     DEF IInv, TypeOK, CallInv, FindNext, NoneAbove, Precedes, InBucket, NonLocal, Indexes
<1>6. ChainsExact' /\ OnePerName'
  BY DEF IInv, ChainsExact, OnePerName, FindNext, Precedes, InBucket, Linked, Top
<1>7. MergeInv' /\ TrInv' /\ RelocInv'
  BY DEF IInv, MergeInv, TrInv, RelocInv, RelocOK, FindNext, ReadsIntact, Merging
<1> QED
  BY <1>2, <1>3, <1>5, <1>6, <1>7 DEF IInv

LEMMA FindMissStep ==
  ASSUME IInv, FindMiss
  PROVE  IInv'
<1> USE DEF hashVars, fileVars, relVars, callVars
<1>1. TypeOK'
  BY DEF IInv, TypeOK, FindMiss, PCs
<1>2. ControlInv' /\ SlotsInv' /\ CallInv'
  BY DEF IInv, ControlInv, SlotsInv, CallInv, FindMiss, InCall, Top, NoneAbove
<1>3. ChainsExact' /\ OnePerName'
  BY DEF IInv, ChainsExact, OnePerName, FindMiss, Precedes, InBucket, Linked, Top
<1>4. MergeInv' /\ TrInv' /\ RelocInv'
  BY DEF IInv, MergeInv, TrInv, RelocInv, RelocOK, FindMiss, ReadsIntact, Merging
<1> QED
  BY <1>1, <1>2, <1>3, <1>4 DEF IInv

LEMMA BeginFileStep ==
  ASSUME IInv, BeginFile
  PROVE  IInv'
<1> USE DEF hashVars, fileVars, relVars, callVars
<1>1. TypeOK'
  BY DEF IInv, TypeOK, BeginFile, PCs
<1>2. ControlInv' /\ SlotsInv' /\ CallInv'
  BY DEF IInv, ControlInv, SlotsInv, CallInv, BeginFile, InCall, Top, TypeOK
<1>3. ChainsExact' /\ OnePerName'
  BY DEF IInv, ChainsExact, OnePerName, BeginFile, Precedes, InBucket, Linked, Top, TypeOK
<1>4. MergeInv' /\ TrInv'
  BY DEF IInv, MergeInv, TrInv, BeginFile, ReadsIntact, Merging, TypeOK, ControlInv, InCall
<1>5. RelocInv'
  BY DEF IInv, RelocInv, RelocOK, BeginFile, Merging, TypeOK, ControlInv, InCall
<1> QED
  BY <1>1, <1>2, <1>3, <1>4, <1>5 DEF IInv

LEMMA AddRelocStep ==
  ASSUME IInv, NEW i \in Indexes, AddReloc(i)
  PROVE  IInv'
<1> USE DEF hashVars, fileVars, callVars
<1>1. i \in 1 .. nsyms /\ data[i].name \in Names
  BY DEF IInv, TypeOK, AddReloc, ElfSym
<1>2. TypeOK'
  BY <1>1 DEF IInv, TypeOK, AddReloc, Relocs
<1>3. ControlInv' /\ SlotsInv' /\ CallInv'
  BY DEF IInv, ControlInv, SlotsInv, CallInv, AddReloc, InCall, Top, NoneAbove, InBucket
<1>4. ChainsExact' /\ OnePerName'
  BY DEF IInv, ChainsExact, OnePerName, AddReloc, Precedes, InBucket, Linked, Top
<1>5. MergeInv' /\ TrInv'
  BY DEF IInv, MergeInv, TrInv, AddReloc, ReadsIntact, Merging
<1>6. RelocInv'
  <2> PICK new : new = [sym |-> i, want |-> data[i].name]
    OBVIOUS
  <2> PICK top : top = Len(relocs) + 1
    OBVIOUS
  <2>1. ~ Merging /\ ~ Merging' /\ new \in Relocs
    BY <1>1 DEF IInv, ControlInv, InCall, Merging, AddReloc, Relocs
  <2>2. /\ relocs \in Seq(Relocs) /\ relocs' = Append(relocs, new)
        /\ new.sym = i /\ new.want = data[i].name
    BY DEF IInv, TypeOK, AddReloc
  <2>3. /\ Len(relocs) \in Nat /\ Len(relocs') = Len(relocs) + 1
        /\ \A j \in DOMAIN relocs' :
             \/ j \in DOMAIN relocs /\ relocs'[j] = relocs[j]
             \/ j = top /\ relocs'[j] = new
    BY <2>1, <2>2
  <2>4. \A j \in DOMAIN relocs : RelocOK(j, relocs[j])'
    BY <2>1, <2>3 DEF IInv, RelocInv, RelocOK, AddReloc
  <2>5. pc = "file" => relFirst <= top
    BY DEF IInv, RelocInv
  <2>6. RelocOK(top, new)'
    BY <1>1, <2>1, <2>2, <2>5 DEF RelocOK, AddReloc
  <2> QED
    <3>1. pc' = "file" => relFirst' <= Len(relocs') + 1
      BY <2>3, <2>5 DEF AddReloc, IInv, TypeOK
    <3>2. \A j \in DOMAIN relocs' : RelocOK(j, relocs[j])'
      BY <2>3, <2>4, <2>6 DEF RelocOK
    <3> QED
      BY <3>1, <3>2 DEF RelocInv
<1> QED
  BY <1>2, <1>3, <1>4, <1>5, <1>6 DEF IInv

-----------------------------------------------------------------------------
(* Steps that write the array but no entry a lookup sees, or only what no  *)
(* lookup reads of it.                                                     *)

(* What the frame lemma asks of the types.                                 *)
LEMMA FrameTypes ==
  ASSUME IInv
  PROVE  /\ Top \in Nat /\ Linked \in Nat /\ Linked <= Top /\ Top <= MaxSyms
         /\ nbuckets \in Nat \ {0}
         /\ bucket \in [0 .. nbuckets - 1 -> Nat] /\ chain \in [Indexes -> Nat]
         /\ \A j \in Indexes : data[j] \in ElfSym /\ data[j].name \in Names
         /\ Top <= nsyms
<1>1. Top <= nsyms /\ Top \in Nat
  BY DEF IInv, TypeOK, MergeInv, Top
<1>2. pc = "rebuild" => Linked = k - 1 /\ k \in 1 .. nsyms + 1 /\ Top = nsyms
  BY DEF IInv, CallInv, Linked, Top
<1>3. Linked \in Nat /\ Linked <= Top /\ Top <= MaxSyms
  BY <1>1, <1>2 DEF IInv, TypeOK, Linked
<1>4. \A j \in Indexes : data[j] \in ElfSym /\ data[j].name \in Names
  BY DEF IInv, TypeOK, ElfSym
<1> QED
  BY <1>1, <1>3, <1>4 DEF IInv, TypeOK

(* The chains and the uniqueness of names depend only on the names of the  *)
(* visible entries and on which of them are local.                         *)
LEMMA ChainsFrame ==
  ASSUME IInv, Top' = Top, Linked' = Linked,
         UNCHANGED <<nbuckets, bucket, chain>>,
         \A j \in 1 .. Top : /\ NonLocal(data'[j]) <=> NonLocal(data[j])
                             /\ data'[j].name = data[j].name
  PROVE  ChainsExact' /\ OnePerName'
<1>1. /\ ChainsExact /\ OnePerName
      /\ Top \in Nat /\ Linked \in Nat /\ Linked <= Top /\ Top <= MaxSyms
      /\ nbuckets \in Nat \ {0}
      /\ bucket \in [0 .. nbuckets - 1 -> Nat] /\ chain \in [Indexes -> Nat]
      /\ \A j \in 1 .. Top : data[j].name \in Names
  <2>1. ChainsExact /\ OnePerName
    BY DEF IInv
  <2> QED
    BY <2>1, FrameTypes DEF Indexes
<1>2. ASSUME NEW link \in Nat, NEW i \in 1 .. Linked + 1, NEW h \in Nat, Precedes(link, i, h)
      PROVE  Precedes(link, i, h)'
  BY <1>1, <1>2 DEF Precedes, InBucket
<1>3. ASSUME NEW h \in 0 .. nbuckets - 1
      PROVE  Precedes(bucket[h], Linked + 1, h)'
  <2> PICK front, l : front = bucket[h] /\ l = Linked + 1
    OBVIOUS
  <2>1. Precedes(front, l, h) /\ front \in Nat /\ h \in Nat /\ l \in 1 .. Linked + 1
    BY <1>1 DEF ChainsExact
  <2>2. Precedes(front, l, h)'
    BY <1>2, <2>1
  <2>3. bucket'[h] = front /\ Linked' + 1 = l
    OBVIOUS
  <2> QED
    BY <2>2, <2>3 DEF Precedes
<1>4. ASSUME NEW i \in 1 .. Linked, NonLocal(data'[i])
      PROVE  Precedes(chain[i], i, HashIn(data[i].name, nbuckets))'
  <2> PICK link, h : link = chain[i] /\ h = HashIn(data[i].name, nbuckets)
    OBVIOUS
  <2>1. NonLocal(data[i]) /\ data[i].name \in Names
    BY <1>1, <1>4
  <2>2. i \in Indexes /\ link \in Nat /\ i \in 1 .. Linked + 1
    BY <1>1, BoundsAssumption DEF Indexes
  <2>3. h \in Nat
    BY <1>1, <2>1, HashInRange
  <2>4. Precedes(link, i, h)
    BY <1>1, <2>1 DEF ChainsExact
  <2>5. Precedes(link, i, h)'
    BY <1>2, <2>2, <2>3, <2>4
  <2>6. chain'[i] = link /\ HashIn(data'[i].name, nbuckets') = h
    BY <1>1
  <2> QED
    BY <2>5, <2>6 DEF Precedes
<1>5. OnePerName'
  BY <1>1 DEF OnePerName
<1> QED
  BY <1>3, <1>4, <1>5 DEF ChainsExact

LEMMA RelocTypes ==
  ASSUME IInv
  PROVE  \A j \in DOMAIN relocs : relocs[j].sym \in Indexes /\ relocs[j].want \in Names
<1>1. relocs \in Seq(Relocs)
  BY DEF IInv, TypeOK
<1>2. \A j \in DOMAIN relocs : relocs[j] \in Relocs
  BY <1>1
<1> QED
  BY <1>2 DEF Relocs

LEMMA EmitStep ==
  ASSUME IInv, NEW n \in Names, NEW t \in Emitted, Emit(n, t)
  PROVE  IInv'
<1> USE DEF hashVars, fileVars, relVars, callVars
<1>1. Named(n, t) \in ElfSym
  BY NamedIsSym
<1>2. /\ pc = "file" /\ ret = "idle" /\ nsyms + 1 \in Indexes
      /\ Top = first - 1 /\ first - 1 <= nsyms /\ Linked = Top
      /\ \A j \in 1 .. nsyms : data'[j] = data[j]
  BY DEF IInv, ControlInv, InCall, TypeOK, MergeInv, Emit, Top, Linked, Indexes
<1>3. TypeOK'
  BY <1>1, <1>2 DEF IInv, TypeOK, Emit
<1>4. ControlInv' /\ SlotsInv' /\ CallInv'
  BY <1>2 DEF IInv, ControlInv, SlotsInv, CallInv, Emit, InCall, Top
<1>5. ChainsExact' /\ OnePerName'
  <2>1. Top' = Top /\ Linked' = Linked
    BY <1>2 DEF Emit, Top, Linked
  <2>2. \A j \in 1 .. Top : data'[j] = data[j]
    BY <1>2, FrameTypes DEF IInv, TypeOK
  <2> QED
    BY <2>1, <2>2, ChainsFrame DEF Emit
<1>6. MergeInv' /\ TrInv'
  BY <1>2 DEF IInv, MergeInv, TrInv, Emit, ReadsIntact, Merging, TypeOK
<1>7. RelocInv'
  BY <1>2 DEF IInv, RelocInv, RelocOK, Emit, Merging, TypeOK
<1> QED
  BY <1>3, <1>4, <1>5, <1>6, <1>7 DEF IInv

LEMMA PatchStep ==
  ASSUME IInv, NEW i \in Indexes, NEW t \in Patched, Patch(i, t)
  PROVE  IInv'
<1> USE DEF hashVars, fileVars, relVars, callVars
<1>1. /\ data' \in [Indexes -> ElfSym]
      /\ \A j \in Indexes : data'[j].name = data[j].name
      /\ \A j \in 1 .. first - 1 : data'[j] = data[j]
  <2>1. data' = [data EXCEPT ![i] = Redeclare(data[i], t)] /\ i \in first .. nsyms
    BY DEF Patch
  <2>2. data[i] \in ElfSym
    BY DEF IInv, TypeOK
  <2>3. Redeclare(data[i], t) \in ElfSym /\ Redeclare(data[i], t).name = data[i].name
    BY <2>2, RedeclareKeeps
  <2> QED
    BY <2>1, <2>3 DEF IInv, TypeOK, Indexes
<1>2. /\ pc = "file" /\ ret = "idle"
      /\ Top = first - 1 /\ first - 1 <= nsyms /\ Linked = Top
  BY DEF IInv, ControlInv, InCall, TypeOK, MergeInv, Patch, Top, Linked
<1>3. TypeOK'
  BY <1>1 DEF IInv, TypeOK, Patch
<1>4. ControlInv' /\ SlotsInv' /\ CallInv'
  BY <1>2 DEF IInv, ControlInv, SlotsInv, CallInv, Patch, InCall, Top
<1>5. ChainsExact' /\ OnePerName'
  <2>1. Top' = Top /\ Linked' = Linked
    BY <1>2 DEF Patch, Top, Linked
  <2> QED
    BY <1>1, <1>2, <2>1, ChainsFrame DEF Patch
<1>6. MergeInv' /\ TrInv'
  BY <1>2 DEF IInv, MergeInv, TrInv, Patch, ReadsIntact, Merging, TypeOK
<1>7. RelocInv'
  <2>1. \A j \in DOMAIN relocs : relocs[j].sym \in Indexes
    BY RelocTypes
  <2> QED
    BY <1>1, <1>2, <2>1 DEF IInv, RelocInv, RelocOK, Patch, Merging
<1> QED
  BY <1>3, <1>4, <1>5, <1>6, <1>7 DEF IInv

LEMMA EndFileStep ==
  ASSUME IInv, EndFile
  PROVE  IInv'
<1> USE DEF hashVars, fileVars, relVars, callVars
<1>1. /\ pc = "file" /\ ret = "idle" /\ pc' = "merge" /\ ret' = "idle"
      /\ Top = first - 1 /\ first - 1 <= nsyms /\ Linked = Top
      /\ nsyms' = first - 1 /\ last' = nsyms /\ rd' = first /\ src' = data
      /\ UNCHANGED <<data, first>>
  BY DEF IInv, ControlInv, InCall, TypeOK, MergeInv, EndFile, Top, Linked
<1>2. TypeOK'
  BY <1>1 DEF IInv, TypeOK, EndFile, PCs
<1>3. ControlInv' /\ SlotsInv' /\ CallInv'
  BY <1>1 DEF IInv, ControlInv, SlotsInv, CallInv, EndFile, InCall, Top
<1>4. ChainsExact' /\ OnePerName'
  <2>1. Top' = Top /\ Linked' = Linked
    BY <1>1 DEF Top, Linked
  <2> QED
    BY <1>1, <2>1, ChainsFrame DEF EndFile
<1>5. MergeInv' /\ TrInv'
  BY <1>1 DEF IInv, MergeInv, TrInv, ReadsIntact, Merging, TypeOK
<1>6. RelocInv'
  BY <1>1 DEF IInv, RelocInv, RelocOK, EndFile, Merging, TypeOK
<1> QED
  BY <1>2, <1>3, <1>4, <1>5, <1>6 DEF IInv

LEMMA MergeStepStep ==
  ASSUME IInv, MergeStep
  PROVE  IInv'
<1> USE DEF hashVars, fileVars, relVars
<1> DEFINE s == ToGlobal(data[rd])
<1>1. /\ pc = "merge" /\ ret = "idle" /\ rd \in Indexes
      /\ nsyms < rd /\ rd <= last /\ first - 1 <= nsyms /\ first <= rd
      /\ data[rd] = src[rd]
  BY DEF IInv, ControlInv, InCall, TypeOK, MergeInv, MergeStep, Indexes,
         ReadsIntact, Merging
<1>2. s \in ElfSym /\ s.name \in Names
  BY <1>1, ToGlobalKeeps DEF IInv, TypeOK, ElfSym
<1>3. HashIn(s.name, nbuckets) \in 0 .. nbuckets - 1
  BY <1>2, HashInRange DEF IInv, TypeOK
<1>4. s = ToGlobal(src[rd])
  BY <1>1
<1>5. /\ Call(s, "merge") /\ data' = [data EXCEPT ![rd] = s]
      /\ UNCHANGED <<nsyms, hashVars, fileVars, relVars, errs>>
  BY DEF MergeStep
<1> HIDE DEF s
<1>6. /\ \A j \in Indexes : j # rd => data'[j] = data[j]
      /\ data' \in [Indexes -> ElfSym]
  BY <1>1, <1>2, <1>5 DEF IInv, TypeOK
<1>7. TypeOK'
  <2>1. given' \in [Names -> SUBSET ElfSym]
    <3>1. given \in [Names -> SUBSET ElfSym]
      BY DEF IInv, TypeOK
    <3>2. given' = given \/ given' = [given EXCEPT ![s.name] = @ \cup {s}]
      BY <1>5 DEF Call
    <3> QED
      BY <1>2, <3>1, <3>2
  <2>2. /\ arg' \in ElfSym /\ ret' = "merge" /\ k' = 0 /\ pc' \in PCs
        /\ cur' \in 0 .. MaxSyms
    BY <1>2, <1>3, <1>5 DEF IInv, TypeOK, Call, PCs
  <2> QED
    BY <1>5, <1>6, <2>1, <2>2 DEF IInv, TypeOK
<1>8. ControlInv' /\ SlotsInv'
  BY <1>1, <1>5 DEF IInv, ControlInv, SlotsInv, Call, InCall, Top
<1>9. ChainsExact' /\ OnePerName'
  <2>1. Top' = Top /\ Linked' = Linked /\ Top = nsyms
    BY <1>1, <1>5 DEF Top, Linked, Call
  <2>2. \A j \in 1 .. Top : data'[j] = data[j]
    BY <1>1, <1>6, <2>1 DEF Indexes, IInv, TypeOK
  <2> QED
    BY <1>5, <2>1, <2>2, ChainsFrame
<1>10. CallInv'
  <2>1. Precedes(bucket[HashIn(s.name, nbuckets)], nsyms + 1, HashIn(s.name, nbuckets))
    BY <1>1, <1>3 DEF IInv, ChainsExact, Linked, Top
  <2>2. \A j \in 1 .. nsyms : data'[j] = data[j]
    BY <1>1, <1>6 DEF Indexes, IInv, TypeOK
  <2>3. bucket[HashIn(s.name, nbuckets)] \in 0 .. nsyms
    BY <1>3, <2>1 DEF Precedes, IInv, TypeOK
  <2> QED
    BY <1>2, <1>3, <1>5, <2>1, <2>2, <2>3
       DEF IInv, TypeOK, CallInv, Call, NoneAbove, Precedes, InBucket, NonLocal
<1>11. MergeInv'
  BY <1>1, <1>5, <1>6 DEF IInv, MergeInv, ReadsIntact, Merging, Call, TypeOK, Indexes
<1>12. TrInv'
  <2>1. /\ ret' = "merge" /\ arg' = ToGlobal(src'[rd'])
    BY <1>4, <1>5 DEF Call
  <2>2. \A i \in first .. rd - 1 : tr[i] \in 1 .. nsyms => data'[tr[i]] = data[tr[i]]
    BY <1>1, <1>6 DEF IInv, TypeOK, Indexes
  <2> QED
    BY <1>1, <1>5, <2>1, <2>2 DEF IInv, TrInv, Merging
<1>13. RelocInv'
  BY <1>1, <1>5, <1>6, SMTT(30) DEF IInv, RelocInv, RelocOK, Merging, Call, TypeOK, Indexes
<1> QED
  BY <1>7, <1>8, <1>9, <1>10, <1>11, <1>12, <1>13 DEF IInv

LEMMA MergeDoneStep ==
  ASSUME IInv, MergeDone
  PROVE  IInv'
<1> USE DEF hashVars, callVars
<1>1. /\ pc = "merge" /\ ret = "idle" /\ pc' = "idle" /\ ret' = "idle"
      /\ nsyms' = nsyms /\ data' = data /\ Merging
      /\ first - 1 <= nsyms /\ rd = last + 1
  BY DEF IInv, ControlInv, InCall, TypeOK, MergeInv, MergeDone, Merging
<1>2. /\ DOMAIN relocs' = DOMAIN relocs /\ Len(relocs') = Len(relocs)
      /\ relocs' \in Seq(Relocs)
      /\ \A j \in DOMAIN relocs : /\ relocs'[j].sym \in 1 .. nsyms
                                  /\ data[relocs'[j].sym].name = relocs'[j].want
  <2>1. relocs \in Seq(Relocs) /\ relFirst \in Nat
    BY DEF IInv, TypeOK
  <2>2. ASSUME NEW j \in DOMAIN relocs
        PROVE  /\ relocs'[j] \in Relocs
               /\ relocs'[j].sym \in 1 .. nsyms
               /\ data[relocs'[j].sym].name = relocs'[j].want
    <3>1. RelocOK(j, relocs[j]) /\ relocs[j] \in Relocs /\ j \in Nat
      BY <2>1 DEF IInv, RelocInv
    <3>2. CASE j >= relFirst
      <4> PICK i : i = relocs[j].sym
        OBVIOUS
      <4>1. i \in first .. last /\ src[i].name = relocs[j].want
        BY <1>1, <3>1, <3>2 DEF RelocOK
      <4>2. tr[i] \in 1 .. nsyms /\ data[tr[i]].name = src[i].name
        <5>1. i \in first .. rd - 1
          BY <1>1, <4>1 DEF IInv, TypeOK
        <5> QED
          BY <1>1, <5>1 DEF IInv, TrInv
      <4>3. tr[i] \in Indexes
        BY <4>2 DEF IInv, TypeOK, Indexes
      <4>4. relocs'[j] = [relocs[j] EXCEPT !.sym = tr[i]]
        BY <3>2 DEF MergeDone
      <4>5. relocs'[j] = [sym |-> tr[i], want |-> relocs[j].want]
        BY <3>1, <4>4 DEF Relocs
      <4> QED
        BY <3>1, <4>1, <4>2, <4>3, <4>5 DEF Relocs
    <3>3. CASE ~ (j >= relFirst)
      <4>1. relocs'[j] = relocs[j]
        BY <3>3 DEF MergeDone
      <4>2. relocs[j].sym \in 1 .. first - 1 /\ data[relocs[j].sym].name = relocs[j].want
        BY <1>1, <3>1, <3>3 DEF RelocOK
      <4> QED
        BY <1>1, <3>1, <4>1, <4>2 DEF IInv, TypeOK
    <3> QED
      BY <3>2, <3>3
  <2>3. DOMAIN relocs' = DOMAIN relocs
    BY DEF MergeDone
  <2>4. relocs' = [j \in 1 .. Len(relocs) |-> relocs'[j]] /\ Len(relocs) \in Nat
        /\ DOMAIN relocs = 1 .. Len(relocs)
    BY <2>1 DEF MergeDone
  <2> QED
    BY <2>2, <2>3, <2>4
<1>3. TypeOK'
  BY <1>1, <1>2, NoSymIsSym DEF IInv, TypeOK, MergeDone, PCs, Indexes
<1>4. ControlInv' /\ SlotsInv' /\ CallInv'
  BY <1>1 DEF IInv, ControlInv, SlotsInv, CallInv, MergeDone, InCall, Top
<1>5. ChainsExact' /\ OnePerName'
  <2>1. Top' = Top /\ Linked' = Linked
    BY <1>1 DEF Top, Linked
  <2> QED
    BY <1>1, <2>1, ChainsFrame DEF MergeDone
<1>6. MergeInv' /\ TrInv'
  BY <1>1 DEF IInv, MergeInv, TrInv, ReadsIntact, Merging
<1>7. RelocInv'
  BY <1>1, <1>2 DEF RelocInv, RelocOK, Merging
<1> QED
  BY <1>3, <1>4, <1>5, <1>6, <1>7 DEF IInv

-----------------------------------------------------------------------------
(* Steps that return from set_elf_sym or change the chains.                *)

(* What a return to the caller does to the control, when the call entered  *)
(* or found the entry m for arg.                                           *)
LEMMA ReturnKeeps ==
  ASSUME IInv, InCall, NEW m \in Indexes, Return(m),
         m <= nsyms', nsyms' \in 0 .. MaxSyms, nsyms <= nsyms',
         ret = "merge" => nsyms' <= rd,
         data' \in [Indexes -> ElfSym],
         data'[m].name = arg.name,
         ~ NonLocal(arg) => data'[m] = arg,
         \A j \in 1 .. nsyms : data'[j].name = data[j].name,
         \A j \in 1 .. nsyms : ~ NonLocal(data[j]) => data'[j] = data[j],
         \A j \in Indexes : j > nsyms' => data'[j] = data[j],
         UNCHANGED <<first, last, src, relocs, relFirst>>
  PROVE  MergeInv' /\ TrInv' /\ RelocInv' /\ ControlInv'
<1>1. /\ pc' = ret /\ ret' = "idle" /\ pc' \in {"idle", "merge"}
      /\ (Merging' <=> ret = "merge") /\ (Merging <=> ret = "merge")
  BY DEF Return, IInv, TypeOK, Merging, InCall
<1>2. ControlInv'
  BY <1>1 DEF ControlInv
<1>3. MergeInv'
  <2>1. CASE ret = "merge"
    <3>1. /\ first <= rd /\ rd <= last /\ first - 1 <= nsyms /\ rd' = rd + 1
          /\ \A i \in rd + 1 .. last : data[i] = src[i]
      BY <1>1, <2>1 DEF IInv, MergeInv, ReadsIntact, Return, InCall
    <3>2. ASSUME NEW i \in rd + 1 .. last PROVE data'[i] = src'[i]
      <4>1. rd \in Nat /\ last \in 0 .. MaxSyms
        BY DEF IInv, TypeOK
      <4>2. i \in Indexes /\ i > rd
        BY <4>1 DEF Indexes
      <4>3. i > nsyms'
        BY <2>1, <4>1, <4>2
      <4> QED
        BY <3>1, <4>2, <4>3
    <3> QED
      BY <1>1, <2>1, <3>1, <3>2 DEF MergeInv, ReadsIntact, IInv, TypeOK
  <2>2. CASE ret # "merge"
    BY <1>1, <2>2 DEF MergeInv, ReadsIntact, IInv, TypeOK
  <2> QED
    BY <2>1, <2>2
<1>4. TrInv'
  <2>1. CASE ret = "merge"
    <3>1. /\ rd' = rd + 1 /\ tr' = [tr EXCEPT ![rd] = m] /\ rd \in Indexes
          /\ arg = ToGlobal(src[rd])
      BY <2>1 DEF Return, IInv, TrInv, MergeInv, TypeOK, Indexes
    <3>2. ASSUME NEW i \in first .. rd
          PROVE  /\ tr'[i] \in 1 .. nsyms' /\ data'[tr'[i]].name = src[i].name
                 /\ src[i].bind = "LOCAL" /\ src[i].sect # "UNDEF" => data'[tr'[i]] = src[i]
      <4>1. CASE i = rd
        <5>1. tr'[i] = m
          BY <3>1, <4>1 DEF IInv, TypeOK
        <5>2. src[rd] \in ElfSym
          BY <3>1 DEF IInv, TypeOK
        <5> QED
          BY <3>1, <4>1, <5>1, <5>2, ToGlobalKeeps DEF NonLocal, Indexes
      <4>2. CASE i # rd
        <5>1. /\ tr'[i] = tr[i] /\ tr[i] \in 1 .. nsyms
              /\ data[tr[i]].name = src[i].name
              /\ src[i].bind = "LOCAL" /\ src[i].sect # "UNDEF" => data[tr[i]] = src[i]
          BY <1>1, <2>1, <3>1, <4>2 DEF IInv, TrInv, TypeOK, Indexes
        <5> QED
          BY <5>1 DEF NonLocal, IInv, TypeOK
      <4> QED
        BY <4>1, <4>2
    <3> QED
      BY <1>1, <3>1, <3>2 DEF TrInv, IInv, TypeOK
  <2>2. CASE ret # "merge"
    BY <1>1, <2>2 DEF TrInv
  <2> QED
    BY <2>1, <2>2
<1>5. RelocInv'
  <2>1. \A j \in DOMAIN relocs : relocs[j].sym \in Indexes
    BY RelocTypes
  <2>2. /\ pc # "file" /\ pc' # "file"
        /\ ret = "merge" => first - 1 <= nsyms
    BY <1>1 DEF InCall, IInv, MergeInv
  <2>3. ASSUME NEW j \in DOMAIN relocs
        PROVE  RelocOK(j, relocs[j])'
    <3> PICK i : i = relocs[j].sym
      OBVIOUS
    <3>1. RelocOK(j, relocs[j]) /\ i \in Nat
      BY <2>1 DEF IInv, RelocInv, Indexes
    <3>2. i \in 1 .. nsyms => data'[i].name = data[i].name
      OBVIOUS
    <3>3. CASE ret = "merge"
      <4>1. first \in Nat /\ nsyms \in Nat /\ (i <= first - 1 => i <= nsyms)
        BY <2>2, <3>1, <3>3 DEF IInv, TypeOK
      <4> QED
        BY <1>1, <2>2, <3>1, <3>2, <3>3, <4>1 DEF RelocOK
    <3>4. CASE ret # "merge"
      <4>1. i \in 1 .. nsyms /\ data[i].name = relocs[j].want
        BY <1>1, <2>2, <3>1, <3>4 DEF RelocOK
      <4>2. i \in 1 .. nsyms'
        BY <4>1 DEF IInv, TypeOK
      <4> QED
        BY <1>1, <2>2, <3>2, <3>4, <4>1, <4>2 DEF RelocOK
    <3> QED
      BY <3>3, <3>4
  <2> QED
    BY <2>2, <2>3 DEF RelocInv
<1> QED
  BY <1>2, <1>3, <1>4, <1>5

LEMMA ReturnTypes ==
  ASSUME IInv, NEW m \in 0 .. MaxSyms, Return(m), ret = "merge" => rd <= last
  PROVE  /\ pc' \in PCs /\ ret' \in {"idle", "merge"} /\ arg' \in ElfSym
         /\ cur' \in 0 .. MaxSyms /\ k' \in 0 .. MaxSyms + 1
         /\ rd' \in 1 .. MaxSyms + 1 /\ tr' \in [Indexes -> 0 .. MaxSyms]
<1>1. rd \in 1 .. MaxSyms + 1 /\ last \in 0 .. MaxSyms /\ ret \in {"idle", "merge"}
      /\ tr \in [Indexes -> 0 .. MaxSyms]
  BY DEF IInv, TypeOK
<1>2. rd' \in 1 .. MaxSyms + 1 /\ tr' \in [Indexes -> 0 .. MaxSyms]
  BY <1>1 DEF Return
<1> QED
  BY <1>1, <1>2, NoSymIsSym DEF Return, PCs

LEMMA FindHitStep ==
  ASSUME IInv, FindHit
  PROVE  IInv'
<1> USE DEF hashVars, relVars
<1>1. /\ pc = "find" /\ InCall /\ cur \in 1 .. nsyms /\ cur \in Indexes
      /\ NonLocal(data[cur]) /\ NonLocal(arg)
      /\ data[cur].name = arg.name
      /\ data[cur] \in ElfSym /\ arg \in ElfSym
  BY DEF IInv, CallInv, FindHit, InBucket, TypeOK, InCall, Indexes
<1>2. /\ data' = [data EXCEPT ![cur] = Resolve(data[cur], arg)]
      /\ Return(cur) /\ nsyms' = nsyms /\ UNCHANGED <<first, last, src, relocs, relFirst, given>>
      /\ UNCHANGED <<nbuckets, bucket, chain, slots, nhashed>>
      /\ errs' \in {errs, errs \cup {arg.name}}
  BY DEF FindHit
<1>3. /\ Resolve(data[cur], arg) \in ElfSym
      /\ Resolve(data[cur], arg).name = arg.name
      /\ NonLocal(Resolve(data[cur], arg))
  BY <1>1, ResolveKeeps
<1>4. /\ data' \in [Indexes -> ElfSym]
      /\ data'[cur].name = arg.name /\ NonLocal(data'[cur])
      /\ \A j \in Indexes : j # cur => data'[j] = data[j]
  BY <1>1, <1>2, <1>3 DEF IInv, TypeOK
<1>5. ret = "merge" => nsyms < rd /\ rd <= last
  BY <1>1 DEF IInv, MergeInv
<1>6. TypeOK'
  <2>1. errs' \subseteq Names
    BY <1>1, <1>2 DEF IInv, TypeOK, ElfSym
  <2> QED
    BY <1>1, <1>2, <1>4, <1>5, <2>1, ReturnTypes DEF IInv, TypeOK
<1>7. /\ Top = nsyms /\ Top' = nsyms /\ Linked = nsyms /\ Linked' = nsyms
      /\ pc' \notin {"find", "put", "rebuild"}
  BY <1>1, <1>2 DEF Top, Linked, Return, IInv, TypeOK
<1>8. SlotsInv' /\ CallInv'
  BY <1>2, <1>7 DEF IInv, SlotsInv, CallInv
<1>9. ChainsExact' /\ OnePerName'
  <2>1. \A j \in 1 .. Top : /\ NonLocal(data'[j]) <=> NonLocal(data[j])
                            /\ data'[j].name = data[j].name
    BY <1>1, <1>4, <1>7, FrameTypes DEF Indexes
  <2> QED
    BY <1>2, <1>7, <2>1, ChainsFrame
<1>10. MergeInv' /\ TrInv' /\ RelocInv' /\ ControlInv'
  <2>1. nsyms \in 0 .. MaxSyms /\ (ret = "merge" => nsyms <= rd)
    BY <1>5 DEF IInv, TypeOK
  <2>2. \A j \in 1 .. nsyms : /\ data'[j].name = data[j].name
                              /\ ~ NonLocal(data[j]) => data'[j] = data[j]
    BY <1>1, <1>4, <2>1 DEF Indexes
  <2>3. \A j \in Indexes : j > nsyms => data'[j] = data[j]
    BY <1>1, <1>4, <2>1
  <2> QED
    BY <1>1, <1>2, <1>4, <2>1, <2>2, <2>3, ReturnKeeps
<1> QED
  BY <1>6, <1>8, <1>9, <1>10 DEF IInv

LEMMA RebuildDoneStep ==
  ASSUME IInv, RebuildDone
  PROVE  IInv'
<1> USE DEF relVars
<1>1. /\ pc = "rebuild" /\ InCall /\ cur = nsyms /\ cur \in Indexes
      /\ data[cur] = arg /\ k = nsyms + 1 /\ NonLocal(arg)
  BY DEF IInv, CallInv, RebuildDone, TypeOK, InCall, Indexes
<1>2. /\ Return(cur) /\ slots' = nsyms
      /\ UNCHANGED <<data, nsyms, nbuckets, bucket, chain, nhashed,
                     first, last, src, relocs, relFirst, errs, given>>
  BY DEF RebuildDone
<1>3. ret = "merge" => nsyms <= rd /\ rd <= last
  BY <1>1 DEF IInv, MergeInv
<1>4. TypeOK'
  BY <1>1, <1>2, <1>3, ReturnTypes DEF IInv, TypeOK
<1>5. /\ Top = nsyms /\ Top' = nsyms /\ Linked = nsyms /\ Linked' = nsyms
      /\ pc' \notin {"find", "put", "rebuild"}
  BY <1>1, <1>2 DEF Top, Linked, Return, IInv, TypeOK
<1>6. SlotsInv' /\ CallInv'
  BY <1>2, <1>5 DEF IInv, SlotsInv, CallInv
<1>7. ChainsExact' /\ OnePerName'
  BY <1>2, <1>5, ChainsFrame
<1>8. MergeInv' /\ TrInv' /\ RelocInv' /\ ControlInv'
  <2>1. data \in [Indexes -> ElfSym] /\ nsyms \in 0 .. MaxSyms
    BY DEF IInv, TypeOK
  <2>2. /\ data' = data /\ nsyms' = nsyms /\ cur <= nsyms'
        /\ nsyms' \in 0 .. MaxSyms /\ nsyms <= nsyms'
        /\ (ret = "merge" => nsyms' <= rd)
    BY <1>1, <1>2, <1>3, <2>1
  <2> QED
    BY <1>1, <1>2, <2>1, <2>2, ReturnKeeps
<1> QED
  BY <1>4, <1>6, <1>7, <1>8 DEF IInv

(* The link a chain gets from its bucket when entry m joins it: the bucket *)
(* is exact up to m, so the link leads to the next older entry.            *)
LEMMA LinkIn ==
  ASSUME IInv, NEW m \in Nat, m = Linked + 1, NEW h \in 0 .. nbuckets - 1,
         NEW front, front = bucket[h]
  PROVE  Precedes(front, m, h) /\ front \in Nat
BY FrameTypes DEF IInv, ChainsExact

(* A link stays right while the entries below stay, ...                    *)
LEMMA KeepLink ==
  ASSUME NEW i \in Nat, NEW link \in Nat, NEW g, Precedes(link, i, g),
         nbuckets' = nbuckets, \A j \in 1 .. i - 1 : data'[j] = data[j]
  PROVE  Precedes(link, i, g)'
BY DEF Precedes, InBucket

(* ... and as the head of a chain an entry of another chain joins.         *)
LEMMA SkipEntry ==
  ASSUME NEW i \in Nat, NEW link \in Nat, NEW g, NEW top, top = i + 1,
         Precedes(link, i, g)', ~ InBucket(i, g)'
  PROVE  Precedes(link, top, g)'
BY DEF Precedes

(* An entry that joins a chain is its head.                                *)
LEMMA NewHead ==
  ASSUME NEW i \in Nat, NEW g, NEW top, top = i + 1, InBucket(i, g)'
  PROVE  Precedes(i, top, g)'
BY DEF Precedes

LEMMA RebuildStepStep ==
  ASSUME IInv, RebuildStep
  PROVE  IInv'
<1> USE DEF hashVars, fileVars, relVars
<1>1. /\ pc = "rebuild" /\ k \in 1 .. nsyms /\ k \in Indexes /\ Linked = k - 1
      /\ Top = nsyms /\ nsyms \in 0 .. MaxSyms /\ nbuckets \in Nat \ {0}
      /\ data[k] \in ElfSym /\ data[k].name \in Names
      /\ bucket \in [0 .. nbuckets - 1 -> 0 .. MaxSyms]
      /\ chain \in [Indexes -> 0 .. MaxSyms]
  BY DEF IInv, TypeOK, CallInv, RebuildStep, Linked, Top, Indexes, ElfSym
<1>2. /\ k' = k + 1 /\ pc' = pc
      /\ UNCHANGED <<data, nsyms, nbuckets, slots, nhashed, ret, arg, cur,
                     first, last, rd, tr, src, relocs, relFirst, errs, given>>
  BY DEF RebuildStep
<1> PICK h : h = HashIn(data[k].name, nbuckets)
  OBVIOUS
<1>3. h \in 0 .. nbuckets - 1
  BY <1>1, HashInRange
<1> PICK old : old = bucket[h]
  OBVIOUS
<1>4. Precedes(old, k, h) /\ old \in 0 .. MaxSyms
  BY <1>1, <1>3, LinkIn, SMTT(30) DEF IInv, TypeOK
<1>5. IF NonLocal(data[k])
      THEN chain' = [chain EXCEPT ![k] = old] /\ bucket' = [bucket EXCEPT ![h] = k]
      ELSE chain' = [chain EXCEPT ![k] = 0] /\ bucket' = bucket
  BY DEF RebuildStep
<1>6. /\ bucket' \in [0 .. nbuckets - 1 -> 0 .. MaxSyms]
      /\ chain' \in [Indexes -> 0 .. MaxSyms]
      /\ \A i \in 1 .. k - 1 : chain'[i] = chain[i]
  <2>1. k \in 0 .. MaxSyms
    BY <1>1 DEF Indexes
  <2>2. chain' = [chain EXCEPT ![k] = old] \/ chain' = [chain EXCEPT ![k] = 0]
    BY <1>5
  <2>3. bucket' = [bucket EXCEPT ![h] = k] \/ bucket' = bucket
    BY <1>5
  <2>4. chain' \in [Indexes -> 0 .. MaxSyms]
    BY <1>1, <1>4, <2>2
  <2>5. \A i \in 1 .. k - 1 : chain'[i] = chain[i]
    BY <1>1, <2>2 DEF Indexes
  <2> QED
    BY <1>1, <1>3, <2>1, <2>3, <2>4, <2>5
<1>7. TypeOK'
  <2>1. k' \in 0 .. MaxSyms + 1
    BY <1>1, <1>2
  <2> QED
    BY <1>2, <1>6, <2>1 DEF IInv, TypeOK
<1>8. ControlInv' /\ SlotsInv' /\ CallInv'
  BY <1>1, <1>2 DEF IInv, ControlInv, SlotsInv, CallInv, InCall, Top
<1>9. Linked' = k /\ Top' = Top
  BY <1>1, <1>2 DEF Linked, Top
<1> PICK i0, top : i0 = k /\ top = k + 1
  OBVIOUS
<1>10. ChainsExact'
  <2>1. ASSUME NEW g \in 0 .. nbuckets - 1
        PROVE  Precedes(bucket[g], top, g)'
    <3>1. CASE NonLocal(data[i0]) /\ g = h
      <4>1. bucket'[g] = i0
        BY <1>1, <1>3, <1>5, <3>1
      <4>2. InBucket(i0, g)' /\ i0 \in Nat
        BY <1>1, <1>2, <3>1 DEF InBucket
      <4>3. Precedes(i0, top, g)'
        BY <4>2, NewHead
      <4> QED
        BY <4>1, <4>3 DEF Precedes
    <3>2. CASE ~ (NonLocal(data[i0]) /\ g = h)
      <4> PICK front : front = bucket[g]
        OBVIOUS
      <4>1. bucket'[g] = front
        BY <1>1, <1>3, <1>5, <3>2
      <4>2. Precedes(front, i0, g) /\ front \in Nat /\ i0 \in Nat
        BY <1>1, LinkIn
      <4>3. ~ InBucket(i0, g)'
        BY <1>2, <3>2 DEF InBucket
      <4>4. Precedes(front, i0, g)'
        BY <1>2, <4>2, KeepLink
      <4>5. Precedes(front, top, g)'
        BY <4>2, <4>3, <4>4, SkipEntry
      <4> QED
        BY <4>1, <4>5 DEF Precedes
    <3> QED
      BY <3>1, <3>2
  <2>2. ASSUME NEW i \in 1 .. i0, NonLocal(data[i])
        PROVE  Precedes(chain[i], i, HashIn(data[i].name, nbuckets))'
    <3> PICK link, g : link = chain'[i] /\ g = HashIn(data[i].name, nbuckets)
      OBVIOUS
    <3>1. Precedes(link, i, g) /\ link \in Nat
      <4>1. CASE i = i0
        BY <1>1, <1>4, <1>5, <2>2, <4>1
      <4>2. CASE i # i0
        <5>1. i \in 1 .. Linked /\ chain'[i] = chain[i] /\ i \in Indexes
          BY <1>1, <1>6, <4>2 DEF Indexes
        <5> QED
          BY <1>1, <2>2, <5>1 DEF IInv, ChainsExact
      <4> QED
        BY <4>1, <4>2
    <3>2. Precedes(link, i, g)'
      BY <1>1, <1>2, <3>1, KeepLink
    <3>3. g = HashIn(data'[i].name, nbuckets')
      BY <1>2
    <3> QED
      BY <3>2, <3>3 DEF Precedes
  <2>3. Linked' = i0 /\ Linked' + 1 = top /\ nbuckets' = nbuckets /\ data' = data
    BY <1>1, <1>2, <1>9
  <2> QED
    BY <2>1, <2>2, <2>3 DEF ChainsExact
<1>11. OnePerName'
  BY <1>2, <1>9 DEF IInv, OnePerName
<1>12. MergeInv' /\ TrInv' /\ RelocInv'
  BY <1>2 DEF IInv, MergeInv, TrInv, RelocInv, RelocOK, ReadsIntact, Merging
<1> QED
  BY <1>7, <1>8, <1>10, <1>11, <1>12 DEF IInv

LEMMA PutStep ==
  ASSUME IInv, Put
  PROVE  IInv'
<1> USE DEF relVars
<1> PICK m : m = nsyms + 1
  OBVIOUS
<1>1. /\ pc = "put" /\ InCall /\ Top = nsyms /\ Linked = nsyms /\ slots = nsyms
      /\ m \in Indexes /\ nsyms \in 0 .. MaxSyms /\ nbuckets \in Nat \ {0}
      /\ arg \in ElfSym /\ arg.name \in Names /\ nhashed <= nsyms /\ nhashed \in Nat
      /\ bucket \in [0 .. nbuckets - 1 -> 0 .. MaxSyms]
      /\ chain \in [Indexes -> 0 .. MaxSyms]
  <2>1. /\ pc = "put" /\ nsyms < MaxSyms /\ slots = Top /\ nhashed <= Top
    BY DEF IInv, SlotsInv, Put
  <2>2. Top = nsyms /\ Linked = nsyms /\ InCall
    BY <2>1 DEF Linked, Top, InCall
  <2>3. /\ nsyms \in 0 .. MaxSyms /\ nbuckets \in Nat \ {0} /\ arg \in ElfSym
        /\ bucket \in [0 .. nbuckets - 1 -> 0 .. MaxSyms]
        /\ chain \in [Indexes -> 0 .. MaxSyms] /\ nhashed \in Nat
    BY DEF IInv, TypeOK
  <2> QED
    BY <2>1, <2>2, <2>3 DEF Indexes, ElfSym
<1>2. /\ nsyms' = m /\ slots' = m /\ data' = [data EXCEPT ![m] = arg]
      /\ UNCHANGED <<first, last, src, relocs, relFirst, errs, given>>
  BY <1>1 DEF Put
<1>3. /\ data' \in [Indexes -> ElfSym] /\ data'[m] = arg
      /\ \A j \in Indexes : j # m => data'[j] = data[j]
      /\ \A j \in 1 .. nsyms : data'[j] = data[j]
  BY <1>1, <1>2 DEF IInv, TypeOK, Indexes
<1>4. ret = "merge" => nsyms < rd /\ rd <= last /\ first - 1 <= nsyms /\ first <= rd
  BY <1>1 DEF IInv, MergeInv
<1> PICK h : h = HashIn(arg.name, nbuckets)
  OBVIOUS
<1>5. h \in 0 .. nbuckets - 1
  BY <1>1, HashInRange
<1> PICK old : old = bucket[h]
  OBVIOUS
<1>6. Precedes(old, m, h) /\ old \in 0 .. MaxSyms
  BY <1>1, <1>5, LinkIn
<1>7. OnePerName'
  <2>1. NonLocal(arg) => NoneAbove(0)
    BY <1>1 DEF IInv, CallInv
  <2>2. Top' = m
    <3>1. pc' \in {"rebuild", ret}
      BY DEF Put, Return
    <3> QED
      BY <1>2, <3>1 DEF Top, IInv, TypeOK
  <2> QED
    BY <1>1, <1>2, <1>3, <2>1, <2>2 DEF IInv, OnePerName, NoneAbove
<1>8. CASE NonLocal(arg) /\ Overfull(nhashed + 1, nbuckets)
  <2>1. /\ nhashed' = nhashed + 1 /\ chain' = [chain EXCEPT ![m] = old]
        /\ nbuckets' = 2 * nbuckets
        /\ bucket' = [front \in 0 .. 2 * nbuckets - 1 |-> 0]
        /\ pc' = "rebuild" /\ cur' = m /\ k' = 1
        /\ UNCHANGED <<ret, arg, tr, rd>>
    BY <1>1, <1>8 DEF Put
  <2>2. TypeOK'
    <3>1. /\ nbuckets' \in Nat \ {0} /\ bucket' \in [0 .. nbuckets' - 1 -> 0 .. MaxSyms]
          /\ chain' \in [Indexes -> 0 .. MaxSyms] /\ nhashed' \in 0 .. MaxSyms
          /\ cur' \in 0 .. MaxSyms /\ k' \in 0 .. MaxSyms + 1 /\ m \in 0 .. MaxSyms
          /\ pc' \in PCs
      BY <1>1, <1>6, <2>1 DEF Indexes, PCs
    <3> QED
      BY <1>2, <1>3, <2>1, <3>1 DEF IInv, TypeOK
  <2>3. Top' = m /\ Linked' = 0
    BY <1>2, <2>1 DEF Top, Linked
  <2>4. ControlInv' /\ SlotsInv' /\ CallInv'
    BY <1>1, <1>2, <1>3, <1>8, <2>1, <2>3
       DEF ControlInv, SlotsInv, CallInv, InCall, NonLocal
  <2>5. ChainsExact'
    BY <1>1, <2>1, <2>3 DEF ChainsExact, Precedes
  <2>6. MergeInv'
    BY <1>1, <1>2, <1>3, <1>4, <2>1
       DEF IInv, MergeInv, ReadsIntact, Merging, TypeOK, Indexes
  <2>7. TrInv'
    <3>1. \A i \in first .. rd - 1 : tr[i] \in 1 .. nsyms =>
            tr[i] \in 1 .. m /\ data'[tr[i]] = data[tr[i]]
      BY <1>1, <1>3
    <3> QED
      BY <1>1, <1>2, <2>1, <3>1 DEF IInv, TrInv, Merging
  <2>8. RelocInv'
    <3>1. \A i \in Indexes : /\ i \in 1 .. nsyms => i \in 1 .. m /\ data'[i] = data[i]
                             /\ ret = "merge" /\ i \in 1 .. first - 1 => i \in 1 .. nsyms
      BY <1>1, <1>3, <1>4 DEF IInv, TypeOK
    <3>2. \A j \in DOMAIN relocs : relocs[j].sym \in Indexes
      BY RelocTypes
    <3>3. /\ pc' # "file" /\ pc # "file" /\ (Merging <=> ret = "merge")
          /\ (Merging' <=> ret = "merge")
      BY <1>1, <2>1 DEF Merging
    <3> QED
      BY <1>2, <3>1, <3>2, <3>3 DEF IInv, RelocInv, RelocOK
  <2> QED
    BY <1>7, <2>2, <2>4, <2>5, <2>6, <2>7, <2>8 DEF IInv
<1>9. CASE ~ (NonLocal(arg) /\ Overfull(nhashed + 1, nbuckets))
  <2>1. /\ Return(m) /\ nbuckets' = nbuckets
        /\ nhashed' \in {nhashed, nhashed + 1}
        /\ IF NonLocal(arg)
           THEN chain' = [chain EXCEPT ![m] = old] /\ bucket' = [bucket EXCEPT ![h] = m]
           ELSE chain' = [chain EXCEPT ![m] = 0] /\ bucket' = bucket
    BY <1>1, <1>9 DEF Put
  <2>2. /\ bucket' \in [0 .. nbuckets - 1 -> 0 .. MaxSyms]
        /\ chain' \in [Indexes -> 0 .. MaxSyms]
        /\ \A i \in 1 .. nsyms : chain'[i] = chain[i]
        /\ m \in 0 .. MaxSyms /\ nhashed' \in 0 .. MaxSyms /\ nhashed' <= m
    <3>1. m \in 0 .. MaxSyms
      BY <1>1 DEF Indexes
    <3>2. chain' = [chain EXCEPT ![m] = old] \/ chain' = [chain EXCEPT ![m] = 0]
      BY <2>1
    <3>3. bucket' = [bucket EXCEPT ![h] = m] \/ bucket' = bucket
      BY <2>1
    <3>4. chain' \in [Indexes -> 0 .. MaxSyms]
      BY <1>1, <1>6, <3>2
    <3>5. \A i \in 1 .. nsyms : chain'[i] = chain[i]
      BY <1>1, <3>2 DEF Indexes
    <3>6. nhashed' \in 0 .. MaxSyms /\ nhashed' <= m
      BY <1>1, <2>1, <3>1
    <3> QED
      BY <1>1, <1>5, <3>1, <3>3, <3>4, <3>5, <3>6
  <2>3. TypeOK'
    BY <1>2, <1>3, <1>4, <2>1, <2>2, ReturnTypes DEF IInv, TypeOK
  <2>4. Top' = m /\ Linked' = m /\ pc' \notin {"find", "put", "rebuild"}
    BY <1>1, <1>2, <2>1 DEF Top, Linked, Return, IInv, TypeOK
  <2>5. SlotsInv' /\ CallInv'
    BY <1>2, <2>2, <2>4 DEF SlotsInv, CallInv
  <2>6. ChainsExact'
    <3> PICK top : top = m + 1
      OBVIOUS
    <3>1. ASSUME NEW g \in 0 .. nbuckets - 1
          PROVE  Precedes(bucket[g], top, g)'
      <4>1. CASE NonLocal(arg) /\ g = h
        <5>1. bucket'[g] = m
          BY <1>1, <1>5, <2>1, <4>1
        <5>2. InBucket(m, g)' /\ m \in Nat
          BY <1>1, <1>3, <2>1, <4>1 DEF InBucket
        <5>3. Precedes(m, top, g)'
          BY <5>2, NewHead
        <5> QED
          BY <5>1, <5>3 DEF Precedes
      <4>2. CASE ~ (NonLocal(arg) /\ g = h)
        <5> PICK front : front = bucket[g]
          OBVIOUS
        <5>1. bucket'[g] = front
          BY <1>1, <1>5, <2>1, <4>2
        <5>2. Precedes(front, m, g) /\ front \in Nat /\ m \in Nat
          BY <1>1, LinkIn
        <5>3. ~ InBucket(m, g)'
          BY <1>3, <2>1, <4>2 DEF InBucket
        <5>4. Precedes(front, m, g)'
          BY <1>1, <1>3, <2>1, <5>2, KeepLink
        <5>5. Precedes(front, top, g)'
          BY <5>2, <5>3, <5>4, SkipEntry
        <5> QED
          BY <5>1, <5>5 DEF Precedes
      <4> QED
        BY <4>1, <4>2
    <3>2. ASSUME NEW i \in 1 .. m, NonLocal(data'[i])
          PROVE  Precedes(chain[i], i, HashIn(data[i].name, nbuckets))'
      <4> PICK link, g : link = chain'[i] /\ g = HashIn(data'[i].name, nbuckets)
        OBVIOUS
      <4>1. Precedes(link, i, g) /\ link \in Nat
        <5>1. CASE i = m
          BY <1>1, <1>3, <1>6, <2>1, <3>2, <5>1
        <5>2. CASE i # m
          <6>1. i \in 1 .. nsyms /\ chain'[i] = chain[i] /\ data'[i] = data[i]
                /\ i \in Indexes
            BY <1>1, <1>3, <2>2, <5>2 DEF Indexes
          <6>2. Precedes(chain[i], i, HashIn(data[i].name, nbuckets))
            BY <1>1, <3>2, <6>1 DEF IInv, ChainsExact
          <6> QED
            BY <1>1, <6>1, <6>2
        <5> QED
          BY <5>1, <5>2
      <4>2. i \in Nat /\ \A j \in 1 .. i - 1 : data'[j] = data[j]
        BY <1>1, <1>3
      <4>3. Precedes(link, i, g)'
        BY <2>1, <4>1, <4>2, KeepLink
      <4> QED
        BY <2>1, <4>3 DEF Precedes
    <3> QED
      BY <1>1, <2>1, <2>4, <3>1, <3>2 DEF ChainsExact
  <2>7. MergeInv' /\ TrInv' /\ RelocInv' /\ ControlInv'
    <3>1. /\ m <= nsyms' /\ nsyms' \in 0 .. MaxSyms /\ nsyms <= nsyms'
          /\ (ret = "merge" => nsyms' <= rd)
      BY <1>1, <1>2, <1>4, <2>2 DEF IInv, TypeOK
    <3>2. \A j \in Indexes : j > nsyms' => data'[j] = data[j]
      BY <1>1, <1>2, <1>3
    <3> QED
      BY <1>1, <1>2, <1>3, <2>1, <3>1, <3>2, ReturnKeeps
  <2> QED
    BY <1>7, <2>3, <2>5, <2>6, <2>7 DEF IInv
<1> QED
  BY <1>8, <1>9

-----------------------------------------------------------------------------
LEMMA StutterStep ==
  ASSUME IInv, UNCHANGED vars
  PROVE  IInv'
<1> USE DEF vars, hashVars, callVars, fileVars, relVars
<1>1. TypeOK' /\ ControlInv' /\ SlotsInv' /\ CallInv'
  BY DEF IInv, TypeOK, ControlInv, SlotsInv, CallInv, InCall, Top, NoneAbove, InBucket
<1>2. ChainsExact' /\ OnePerName'
  BY DEF IInv, ChainsExact, OnePerName, Precedes, InBucket, Linked, Top
<1>3. MergeInv' /\ TrInv' /\ RelocInv'
  BY DEF IInv, MergeInv, TrInv, RelocInv, RelocOK, ReadsIntact, Merging
<1> QED
  BY <1>1, <1>2, <1>3 DEF IInv

(* Every step of the program keeps the inductive invariant.                *)
LEMMA NextIInv == IInv /\ [Next]_vars => IInv'
<1> SUFFICES ASSUME IInv, [Next]_vars PROVE IInv'
  OBVIOUS
<1>1. ASSUME NEW n \in Names, NEW t \in Handed, Set(n, t) PROVE IInv'
  BY <1>1, SetStep
<1>2. ASSUME NEW n \in Names, NEW t \in Emitted, Emit(n, t) PROVE IInv'
  BY <1>2, EmitStep
<1>3. ASSUME NEW i \in Indexes, NEW t \in Patched, Patch(i, t) PROVE IInv'
  BY <1>3, PatchStep
<1>4. ASSUME NEW i \in Indexes, AddReloc(i) PROVE IInv'
  BY <1>4, AddRelocStep
<1>5. CASE BeginFile
  BY <1>5, BeginFileStep
<1>6. CASE EndFile
  BY <1>6, EndFileStep
<1>7. CASE Internal
  BY <1>7, FindNextStep, FindMissStep, FindHitStep, PutStep, RebuildStepStep,
     RebuildDoneStep, MergeStepStep, MergeDoneStep DEF Internal
<1>8. CASE UNCHANGED vars
  BY <1>8, StutterStep
<1> QED
  BY <1>1, <1>2, <1>3, <1>4, <1>5, <1>6, <1>7, <1>8 DEF Next

LEMMA Invariance == Spec => []IInv
<1> QED
  BY InitIInv, NextIInv, PTL DEF Spec

(* Every variable of the table keeps its type, for any names, attributes,  *)
(* hash function and bounds.                                               *)
THEOREM TypeCorrect == Spec => []TypeOK
<1>1. IInv => TypeOK
  BY DEF IInv
<1> QED
  BY <1>1, Invariance, PTL

(* The hash chains of put_elf_sym and rebuild_hash are exact, whatever the *)
(* hash function and however often the table doubles.                      *)
THEOREM ChainsAlwaysExact == Spec => []ChainsExact
<1>1. IInv => ChainsExact
  BY DEF IInv
<1> QED
  BY <1>1, Invariance, PTL

(* set_elf_sym and tccelf_end_file never leave two global entries of one   *)
(* name visible to lookups.                                                *)
THEOREM NamesUnique == Spec => []OnePerName
<1>1. IInv => OnePerName
  BY DEF IInv
<1> QED
  BY <1>1, Invariance, PTL

(* tccelf_end_file never overwrites an entry of the file it has yet to     *)
(* read, for files and tables of any size.                                 *)
THEOREM ReadsAlwaysIntact == Spec => []ReadsIntact
<1>1. IInv => ReadsIntact
  BY DEF IInv, MergeInv
<1> QED
  BY <1>1, Invariance, PTL

(* Relocations keep the name they were made for through every merge.       *)
THEOREM RelocsAlwaysKeepName == Spec => []RelocsKeepName
<1>1. IInv => RelocsKeepName
  <2> SUFFICES ASSUME IInv, NEW j \in DOMAIN relocs, ~ Merging \/ j < relFirst
               PROVE  /\ relocs[j].sym \in 1 .. nsyms
                      /\ data[relocs[j].sym].name = relocs[j].want
    BY DEF RelocsKeepName
  <2>1. RelocOK(j, relocs[j]) /\ j \in Nat /\ relFirst \in Nat
    BY DEF IInv, RelocInv, TypeOK
  <2>2. pc = "file" \/ Merging => first - 1 <= nsyms
    BY DEF IInv, MergeInv, Merging
  <2> QED
    BY <2>1, <2>2 DEF RelocOK, IInv, TypeOK
<1> QED
  BY <1>1, Invariance, PTL

(* The merged index of each symbol of a file names the same symbol.        *)
THEOREM TrAlwaysKeepsSymbol == Spec => []TrKeepsSymbol
<1>1. IInv => TrKeepsSymbol
  BY DEF IInv, TrInv, TrKeepsSymbol, Merging
<1> QED
  BY <1>1, Invariance, PTL

-----------------------------------------------------------------------------
(* What one step may do to an entry.                                       *)

LEMMA MergeVisTightens ==
  ASSUME NEW old \in Visibilities, NEW new \in Visibilities
  PROVE  Constraint[MergeVis(old, new)] >= Constraint[old]
<1>1. /\ Constraint["DEFAULT"] = 0 /\ Constraint["PROTECTED"] = 1
      /\ Constraint["HIDDEN"] = 2 /\ Constraint["INTERNAL"] = 3
  BY DEF Constraint
<1>2. /\ VisNumber["INTERNAL"] = 1 /\ VisNumber["HIDDEN"] = 2
      /\ VisNumber["PROTECTED"] = 3
  BY DEF VisNumber
<1>3. CASE old = "DEFAULT"
  BY <1>1, <1>3 DEF MergeVis, Visibilities
<1>4. CASE old # "DEFAULT" /\ new = "DEFAULT"
  BY <1>1, <1>4 DEF MergeVis, Visibilities
<1>5. CASE old # "DEFAULT" /\ new # "DEFAULT"
  <2>1. MergeVis(old, new) = IF VisNumber[old] < VisNumber[new] THEN old ELSE new
    BY <1>5 DEF MergeVis
  <2> QED
    BY <1>1, <1>2, <1>5, <2>1 DEF Visibilities
<1> QED
  BY <1>3, <1>4, <1>5

(* Staying as it is weakens no entry.                                      *)
LEMMA StrengthensSelf ==
  ASSUME NEW s \in ElfSym, NonLocal(s)
  PROVE  Strengthens(s, s)
<1>1. s.vis \in Visibilities
  BY DEF ElfSym
<1>2. Constraint[s.vis] \in Nat
  BY <1>1 DEF Constraint, Visibilities
<1> QED
  BY <1>2 DEF Strengthens

(* Nor does resolving it against a symbol of its name.                     *)
LEMMA ResolveStrengthens ==
  ASSUME NEW old \in ElfSym, NEW new \in ElfSym, old.name = new.name,
         NonLocal(old), NonLocal(new)
  PROVE  Strengthens(old, Resolve(old, new))
<1>1. old.vis \in Visibilities /\ new.vis \in Visibilities
  BY DEF ElfSym
<1> PICK vis : vis = MergeVis(old.vis, new.vis)
  OBVIOUS
<1>2. Constraint[vis] >= Constraint[old.vis]
  BY <1>1, MergeVisTightens
<1> DEFINE seen == [old EXCEPT !.vis = vis]
<1> DEFINE patched == [new EXCEPT !.vis = vis, !.aset = old.aset]
<1>3. /\ seen.name = old.name /\ seen.bind = old.bind
      /\ seen.sect = old.sect /\ seen.vis = vis
      /\ patched.name = new.name /\ patched.bind = new.bind
      /\ patched.sect = new.sect /\ patched.vis = vis
  BY DEF ElfSym
<1>4. \/ Resolve(old, new) = old
      \/ old.sect = "UNDEF" /\ Resolve(old, new) = new
      \/ Resolve(old, new) = seen
      \/ new.sect # "UNDEF" /\ Overrides(old, new) /\ Resolve(old, new) = patched
  BY DEF Resolve
<1>5. Overrides(old, new) => new.bind = "GLOBAL"
  BY DEF Overrides, BothStrong, Clash
<1> HIDE DEF seen, patched
<1>6. CASE Resolve(old, new) = old
  BY <1>6, StrengthensSelf
<1>7. CASE old.sect = "UNDEF" /\ Resolve(old, new) = new
  BY <1>7 DEF Strengthens
<1>8. CASE Resolve(old, new) = seen
  BY <1>2, <1>3, <1>8 DEF Strengthens, NonLocal
<1>9. CASE new.sect # "UNDEF" /\ Overrides(old, new) /\ Resolve(old, new) = patched
  BY <1>2, <1>3, <1>5, <1>9 DEF Strengthens, NonLocal
<1> QED
  BY <1>4, <1>6, <1>7, <1>8, <1>9

LEMMA UnwrittenStays ==
  ASSUME IInv, \A i \in 1 .. Top : data'[i] = data[i]
  PROVE  NoneWeakened
<1>1. \A i \in 1 .. Top : data[i] \in ElfSym
  BY FrameTypes DEF Indexes
<1> QED
  BY <1>1, StrengthensSelf DEF NoneWeakened

LEMMA StepStrengthens == IInv /\ [Next]_vars => NoneWeakened
<1> SUFFICES ASSUME IInv, [Next]_vars PROVE NoneWeakened
  OBVIOUS
<1>1. Top \in Nat /\ nsyms \in Nat /\ Top <= nsyms /\ nsyms <= MaxSyms
      /\ data \in [Indexes -> ElfSym]
  BY FrameTypes DEF IInv, TypeOK
<1> PICK m : m = nsyms + 1
  OBVIOUS
<1>2. ASSUME NEW w \in Nat, NEW s, w > Top, data' = [data EXCEPT ![w] = s]
      PROVE  NoneWeakened
  <2>1. \A i \in 1 .. Top : data'[i] = data[i]
    BY <1>1, <1>2 DEF Indexes
  <2> QED
    BY <2>1, UnwrittenStays
<1>3. CASE data' = data
  BY <1>3, UnwrittenStays
<1>4. ASSUME NEW n \in Names, NEW t \in Emitted, Emit(n, t) PROVE NoneWeakened
  <2>1. m \in Nat /\ m > Top /\ data' = [data EXCEPT ![m] = Named(n, t)]
    BY <1>1, <1>4 DEF Emit
  <2> QED
    BY <1>2, <2>1
<1>5. ASSUME NEW i \in Indexes, NEW t \in Patched, Patch(i, t) PROVE NoneWeakened
  <2>1. i \in Nat /\ i > Top /\ data' = [data EXCEPT ![i] = Redeclare(data[i], t)]
    BY <1>5 DEF Patch, Top, Indexes, IInv, TypeOK
  <2> QED
    BY <1>2, <2>1
<1>6. CASE Put
  <2>1. m \in Nat /\ m > Top /\ data' = [data EXCEPT ![m] = arg]
    BY <1>1, <1>6 DEF Put
  <2> QED
    BY <1>2, <2>1
<1>7. CASE MergeStep
  <2>1. rd \in Nat /\ rd > Top /\ data' = [data EXCEPT ![rd] = ToGlobal(data[rd])]
    BY <1>7 DEF MergeStep, Top, IInv, TypeOK, MergeInv
  <2> QED
    BY <1>2, <2>1
<1>8. CASE FindHit
  <2>1. /\ Top = nsyms /\ cur \in 1 .. Top /\ NonLocal(arg) /\ arg \in ElfSym
        /\ data[cur].name = arg.name
        /\ data' = [data EXCEPT ![cur] = Resolve(data[cur], arg)]
    BY <1>8 DEF FindHit, Top, IInv, CallInv, TypeOK
  <2>2. \A i \in 1 .. Top : i \in Indexes /\ data[i] \in ElfSym
    BY <1>1 DEF Indexes
  <2>3. ASSUME NEW i \in 1 .. Top, NonLocal(data[i])
        PROVE  Strengthens(data[i], data'[i])
    <3>1. CASE i = cur
      <4>1. data'[i] = Resolve(data[i], arg)
        BY <1>1, <2>1, <2>2, <3>1
      <4>2. Strengthens(data[i], Resolve(data[i], arg))
        BY <2>1, <2>2, <2>3, <3>1, ResolveStrengthens
      <4> QED
        BY <4>1, <4>2
    <3>2. CASE i # cur
      <4>1. data'[i] = data[i]
        BY <1>1, <2>1, <2>2, <3>2
      <4> QED
        BY <2>2, <2>3, <4>1, StrengthensSelf
    <3> QED
      BY <3>1, <3>2
  <2> QED
    BY <2>3 DEF NoneWeakened
<1>9. CASE data' # data
  <2>1. Next
    BY <1>9 DEF vars
  <2> QED
    BY <1>4, <1>5, <1>6, <1>7, <1>8, <1>9, <2>1
       DEF Next, Internal, Set, AddReloc, BeginFile, EndFile, FindNext, FindMiss,
           RebuildStep, RebuildDone, MergeDone
<1> QED
  BY <1>3, <1>9

(* No step of the table makes an entry that lookups see weaker: it keeps   *)
(* its name, its definition and its global binding, and its visibility is  *)
(* never loosened, for any names, attributes and bounds.                   *)
THEOREM EntriesStrengthen == Spec => EntriesOnlyStrengthen
<1> QED
  BY StepStrengthens, Invariance, PTL DEF Spec, EntriesOnlyStrengthen
-----------------------------------------------------------------------------
(* The inductive invariant behind OrderFree and ClashReported.             *)

DefinitionsIn(G) == {s \in G : s.sect # "UNDEF"}
StrongIn(G) == {s \in DefinitionsIn(G) :
                  s.bind = "GLOBAL" /\ s.sect = "DATA"
                  /\ s.vis \notin {"HIDDEN", "INTERNAL"}}
NoneFromAsm(G) == \A s \in G : ~ s.aset

\* e is what set_elf_sym may have made of the symbols in G, in some order,
\* having reported a clash or not
Resolves(e, G, reported) ==
  /\ DefinitionsIn(G) = {} => e.sect = "UNDEF"
  /\ DefinitionsIn(G) # {} =>
       \E s \in DefinitionsIn(G) :
         s.pay = e.pay /\ s.sect = e.sect /\ s.bind = e.bind
  /\ (\E s \in DefinitionsIn(G) : s.bind = "GLOBAL") => e.bind = "GLOBAL"
  /\ StrongIn(G) # {} => e.sect \notin Tentative
  /\ NoneFromAsm(G) => ~ e.aset
  /\ ~ DynTable /\ NoneFromAsm(G) /\ ~ reported =>
       \A s \in StrongIn(G) : s.pay = e.pay

\* set_elf_sym was called for name n and has not yet entered the symbol
Pending(n) == pc \in {"find", "put"} /\ NonLocal(arg) /\ arg.name = n

NameResolved(n, G) ==
  IF HasEntry(n) THEN Resolves(Entry(n), G, n \in errs) ELSE G = {}

\* what the table has for a name is what the calls that are over make of it
ResolutionInv ==
  \A n \in Names :
    \E G \in {given[n], given[n] \ {arg}} :
      /\ given[n] = IF Pending(n) THEN G \cup {arg} ELSE G
      /\ NameResolved(n, G)

-----------------------------------------------------------------------------
(* One symbol enters an empty name.                                        *)
LEMMA ResolvesOne ==
  ASSUME NEW s \in ElfSym, NEW reported
  PROVE  Resolves(s, {s}, reported)
<1>1. DefinitionsIn({s}) = IF s.sect # "UNDEF" THEN {s} ELSE {}
  BY DEF DefinitionsIn
<1>2. \A x \in StrongIn({s}) : x = s /\ s.sect = "DATA"
  BY DEF StrongIn, DefinitionsIn
<1>3. NoneFromAsm({s}) => ~ s.aset
  BY DEF NoneFromAsm
<1> QED
  BY <1>1, <1>2, <1>3 DEF Resolves, Tentative

(* A symbol meets the entry of its name: what do_patch leaves is what may  *)
(* have been made of all of them.                                          *)
LEMMA ResolvesNext ==
  ASSUME NEW old \in ElfSym, NEW new \in ElfSym, NEW G \in SUBSET ElfSym,
         NonLocal(old), NonLocal(new), NEW reported \in BOOLEAN,
         Resolves(old, G, reported)
  PROVE  Resolves(Resolve(old, new), G \cup {new},
                  reported \/ DefinedTwice(old, new))
<1> DEFINE all == G \cup {new}
           e == Resolve(old, new)
           twice == DefinedTwice(old, new)
           told == reported \/ twice
<1> SUFFICES Resolves(e, all, told)
  OBVIOUS
<1>1. /\ old.bind \in {"GLOBAL", "WEAK"} /\ new.bind \in {"GLOBAL", "WEAK"}
  BY DEF NonLocal, ElfSym, Binds
<1>2. /\ DefinitionsIn(all) = IF new.sect # "UNDEF" THEN DefinitionsIn(G) \cup {new}
                              ELSE DefinitionsIn(G)
      /\ StrongIn(all) \subseteq StrongIn(G) \cup {new}
      /\ new \in StrongIn(all) <=>
           /\ new.bind = "GLOBAL" /\ new.sect = "DATA"
           /\ new.vis \notin {"HIDDEN", "INTERNAL"}
      /\ StrongIn(G) \subseteq StrongIn(all)
      /\ NoneFromAsm(all) => NoneFromAsm(G) /\ ~ new.aset
  BY DEF DefinitionsIn, StrongIn, NoneFromAsm
\* what is known of the entry that was found
<1>3. /\ DefinitionsIn(G) = {} => old.sect = "UNDEF"
      /\ DefinitionsIn(G) # {} => old.sect # "UNDEF"
      /\ old.bind = "WEAK" => StrongIn(G) = {}
      /\ old.sect \in Tentative => StrongIn(G) = {}
      /\ old.sect = "UNDEF" => StrongIn(G) = {}
      /\ NoneFromAsm(G) => ~ old.aset
  BY DEF Resolves, DefinitionsIn, StrongIn
<1> DEFINE seen == [old EXCEPT !.vis = MergeVis(old.vis, new.vis)]
           patched == [new EXCEPT !.vis = seen.vis, !.aset = old.aset]
\* what do_patch and its alternatives write
<1>4. /\ seen.pay = old.pay /\ seen.sect = old.sect /\ seen.bind = old.bind
      /\ seen.aset = old.aset
      /\ patched.pay = new.pay /\ patched.sect = new.sect
      /\ patched.bind = new.bind /\ patched.aset = old.aset
  BY DEF ElfSym
<1>5. \/ old = new /\ e = old
      \/ old.sect = "UNDEF" /\ e = new
      \/ /\ old # new /\ old.sect # "UNDEF"
         /\ new.sect # "UNDEF" /\ Overrides(old, new) /\ e = patched
      \/ /\ old # new /\ old.sect # "UNDEF"
         /\ ~ (new.sect # "UNDEF" /\ Overrides(old, new)) /\ e = seen
  BY DEF Resolve
<1>6. ~ told => ~ reported /\ ~ twice
  OBVIOUS
<1> HIDE DEF all, e, seen, patched, twice, told
\* what each of the four cases has to show
<1> DEFINE Fits ==
      /\ e.sect = "UNDEF" <=> DefinitionsIn(all) = {}
      /\ \/ e.pay = old.pay /\ e.sect = old.sect /\ e.bind = old.bind
         \/ /\ e.pay = new.pay /\ e.sect = new.sect /\ e.bind = new.bind
            /\ new.sect # "UNDEF" \/ old.sect = "UNDEF"
      /\ old.sect # "UNDEF" /\ old.bind = "GLOBAL" => e.bind = "GLOBAL"
      /\ new.sect # "UNDEF" /\ new.bind = "GLOBAL" => e.bind = "GLOBAL"
      /\ StrongIn(all) # {} => e.sect \notin Tentative
      /\ NoneFromAsm(all) => ~ e.aset
      /\ ~ DynTable /\ NoneFromAsm(all) /\ ~ twice =>
           /\ new \in StrongIn(all) => new.pay = e.pay
           /\ StrongIn(G) # {} => old.pay = e.pay
<1>7. Fits => Resolves(e, all, told)
  <2> SUFFICES ASSUME Fits PROVE Resolves(e, all, told)
    OBVIOUS
  <2>1. DefinitionsIn(all) # {} =>
          \E s \in DefinitionsIn(all) :
            s.pay = e.pay /\ s.sect = e.sect /\ s.bind = e.bind
    BY <1>2, <1>3 DEF Resolves
  <2>2. (\E s \in DefinitionsIn(all) : s.bind = "GLOBAL") => e.bind = "GLOBAL"
    BY <1>2, <1>3 DEF Resolves
  <2>3. ~ DynTable /\ NoneFromAsm(all) /\ ~ told =>
          \A s \in StrongIn(all) : s.pay = e.pay
    BY <1>2, <1>6 DEF Resolves
  <2> QED
    BY <2>1, <2>2, <2>3 DEF Resolves
<1>8. CASE old = new /\ e = old
  <2>1. StrongIn(all) # {} => old.sect \notin Tentative
    BY <1>2, <1>3, <1>8 DEF Tentative
  <2> QED
    BY <1>2, <1>3, <1>7, <1>8, <2>1
<1>9. CASE old.sect = "UNDEF" /\ e = new
  <2>1. StrongIn(all) # {} => new \in StrongIn(all) /\ new.sect \notin Tentative
    BY <1>2, <1>3, <1>9 DEF Tentative
  <2> QED
    BY <1>2, <1>3, <1>7, <1>9, <2>1
<1>10. CASE /\ old # new /\ old.sect # "UNDEF"
            /\ new.sect # "UNDEF" /\ Overrides(old, new) /\ e = patched
  <2>1. /\ new.bind = "GLOBAL"
        /\ StrongIn(G) # {} => old.aset
        /\ StrongIn(G) # {} => new.sect \notin Tentative
    BY <1>1, <1>3, <1>10 DEF Overrides, BothStrong, DataOverTentative, Clash
  <2>2. NoneFromAsm(all) => ~ old.aset
    BY <1>2 DEF Resolves
  <2>3. new \in StrongIn(all) => new.sect \notin Tentative
    BY <1>2 DEF Tentative
  <2>4. StrongIn(all) # {} => e.sect \notin Tentative
    BY <1>2, <1>4, <1>10, <2>1, <2>3
  <2> QED
    BY <1>2, <1>4, <1>7, <1>10, <2>1, <2>2, <2>4
<1>11. CASE /\ old # new /\ old.sect # "UNDEF"
            /\ ~ (new.sect # "UNDEF" /\ Overrides(old, new)) /\ e = seen
  <2>1. new.sect # "UNDEF" /\ new.bind = "GLOBAL" => old.bind = "GLOBAL"
    BY <1>1, <1>11 DEF Overrides
  <2>2. new \in StrongIn(all) => old.sect \notin Tentative
    BY <1>2, <1>11, <2>1 DEF Overrides, BothStrong, DataOverTentative
  <2>3. new \in StrongIn(all) /\ ~ DynTable => old.aset \/ twice
    BY <1>2, <1>11, <2>1, <2>2
       DEF Overrides, BothStrong, DataOverTentative, Clash, DefinedTwice, Tentative, twice
  <2>4. StrongIn(all) # {} => e.sect \notin Tentative
    BY <1>2, <1>3, <1>4, <1>11, <2>2
  <2>5. NoneFromAsm(all) => ~ old.aset
    BY <1>2 DEF Resolves
  <2> QED
    BY <1>2, <1>3, <1>4, <1>7, <1>11, <2>1, <2>3, <2>4, <2>5
<1> QED
  BY <1>5, <1>8, <1>9, <1>10, <1>11

-----------------------------------------------------------------------------
(* The entry of a name.                                                    *)

(* CHOOSE has no choice: the array arr has one global of a name.           *)
LEMMA OnlyEntry ==
  ASSUME NEW arr, NEW top \in Nat, NEW n, NEW i \in 1 .. top,
         NonLocal(arr[i]), arr[i].name = n,
         \A p, q \in 1 .. top :
           /\ NonLocal(arr[p]) /\ NonLocal(arr[q])
           /\ arr[p].name = arr[q].name
           => p = q
  PROVE  arr[CHOOSE j \in 1 .. top : NonLocal(arr[j]) /\ arr[j].name = n] = arr[i]
OBVIOUS

LEMMA EntryNow ==
  ASSUME IInv, NEW n, NEW i \in 1 .. Top, NonLocal(data[i]), data[i].name = n
  PROVE  HasEntry(n) /\ Entry(n) = data[i]
<1>1. Top \in Nat
  BY FrameTypes
<1>2. OnePerName
  BY DEF IInv
<1> QED
  BY <1>1, <1>2, OnlyEntry DEF HasEntry, Entry, OnePerName

LEMMA TopThen ==
  ASSUME IInv'
  PROVE  Top' \in Nat
<1>1. nsyms' \in Nat /\ first' \in 1 .. MaxSyms + 1
  BY DEF IInv, TypeOK
<1>2. CASE pc' = "file"
  <2>1. Top' = first' - 1
    BY <1>2 DEF Top
  <2>2. \A f \in 1 .. MaxSyms + 1 : f - 1 \in Nat
    OBVIOUS
  <2>3. first' - 1 \in Nat
    BY <1>1, <2>2
  <2> QED
    BY <2>1, <2>3
<1>3. CASE pc' # "file"
  BY <1>1, <1>3 DEF Top
<1> QED
  BY <1>2, <1>3

LEMMA EntryThen ==
  ASSUME IInv', NEW n, NEW i \in 1 .. Top', NonLocal(data'[i]), data'[i].name = n
  PROVE  HasEntry(n)' /\ Entry(n)' = data'[i]
<1>1. Top' \in Nat
  BY TopThen
<1>2. OnePerName'
  BY DEF IInv
<1> QED
  BY <1>1, <1>2, OnlyEntry DEF HasEntry, Entry, OnePerName

(* A name that has an entry has it somewhere in the array.                 *)
LEMMA EntryPlace ==
  ASSUME IInv, NEW n, HasEntry(n)
  PROVE  \E i \in 1 .. Top : /\ i \in Indexes /\ data[i] \in ElfSym
                             /\ NonLocal(data[i]) /\ data[i].name = n
                             /\ Entry(n) = data[i]
<1> PICK i \in 1 .. Top : NonLocal(data[i]) /\ data[i].name = n
  BY DEF HasEntry
<1>1. Entry(n) = data[i]
  BY EntryNow
<1>2. i \in Indexes /\ data[i] \in ElfSym
  BY FrameTypes DEF Indexes
<1> QED
  BY <1>1, <1>2

-----------------------------------------------------------------------------
(* Steps and the entries of names.                                         *)

\* lookups find the same as before
Quiet == Top' = Top /\ (\A j \in 1 .. Top : data'[j] = data[j]) /\ errs' = errs

LEMMA QuietEntries ==
  ASSUME IInv, IInv', Quiet, NEW n
  PROVE  /\ HasEntry(n)' <=> HasEntry(n)
         /\ HasEntry(n) => Entry(n)' = Entry(n)
<1>1. HasEntry(n)' <=> HasEntry(n)
  BY DEF Quiet, HasEntry
<1>2. ASSUME HasEntry(n) PROVE Entry(n)' = Entry(n)
  <2> PICK i \in 1 .. Top : NonLocal(data[i]) /\ data[i].name = n /\ Entry(n) = data[i]
    BY <1>2, EntryPlace
  <2>1. i \in 1 .. Top' /\ data'[i] = data[i]
    BY DEF Quiet
  <2> QED
    BY <2>1, EntryThen
<1> QED
  BY <1>1, <1>2

(* set_elf_sym appends a symbol: the entry of a name that has none, or an  *)
(* entry that lookups leave out.                                           *)
LEMMA PutEntries ==
  ASSUME IInv, IInv', Put, NEW n
  PROVE  /\ NonLocal(arg) => ~ HasEntry(arg.name)
         /\ IF NonLocal(arg) /\ arg.name = n
            THEN HasEntry(n)' /\ Entry(n)' = arg
            ELSE /\ HasEntry(n)' <=> HasEntry(n)
                 /\ HasEntry(n) => Entry(n)' = Entry(n)
<1> PICK m : m = nsyms + 1
  OBVIOUS
<1>1. /\ Top = nsyms /\ Top' = m /\ m = Top + 1 /\ Top \in Nat
      /\ m \in Indexes /\ data \in [Indexes -> ElfSym]
      /\ data' = [data EXCEPT ![m] = arg]
  <2>1. /\ pc = "put" /\ nsyms' = m /\ m \in Indexes
        /\ data \in [Indexes -> ElfSym] /\ nsyms \in Nat
        /\ data' = [data EXCEPT ![m] = arg]
    BY DEF IInv, TypeOK, Put, Indexes
  <2>2. pc' # "file"
    BY DEF IInv, TypeOK, Put, Return
  <2> QED
    BY <2>1, <2>2 DEF Top
<1>2. data'[m] = arg /\ \A j \in 1 .. Top : data'[j] = data[j]
  BY <1>1 DEF Indexes
<1>3. NonLocal(arg) => ~ HasEntry(arg.name)
  BY <1>1 DEF HasEntry, IInv, CallInv, Put, NoneAbove
<1>4. CASE NonLocal(arg) /\ arg.name = n
  <2>1. m \in 1 .. Top'
    BY <1>1
  <2> QED
    BY <1>2, <1>3, <1>4, <2>1, EntryThen
<1>5. CASE ~ (NonLocal(arg) /\ arg.name = n)
  <2>1. HasEntry(n)' <=> HasEntry(n)
    BY <1>1, <1>2, <1>5 DEF HasEntry
  <2>2. ASSUME HasEntry(n) PROVE Entry(n)' = Entry(n)
    <3> PICK i \in 1 .. Top : NonLocal(data[i]) /\ data[i].name = n /\ Entry(n) = data[i]
      BY <2>2, EntryPlace
    <3>1. i \in 1 .. Top' /\ data'[i] = data[i]
      BY <1>1, <1>2
    <3> QED
      BY <3>1, EntryThen
  <2> QED
    BY <1>3, <1>5, <2>1, <2>2
<1> QED
  BY <1>4, <1>5

(* set_elf_sym patches the entry it found, and no other.                   *)
LEMMA FindHitEntries ==
  ASSUME IInv, IInv', FindHit, NEW n
  PROVE  /\ HasEntry(arg.name) /\ Entry(arg.name) = data[cur]
         /\ data[cur] \in ElfSym /\ NonLocal(data[cur]) /\ NonLocal(arg)
         /\ HasEntry(n)' <=> HasEntry(n)
         /\ HasEntry(n) => Entry(n)' = IF n = arg.name THEN Resolve(Entry(n), arg)
                                       ELSE Entry(n)
<1>1. /\ Top = nsyms /\ Top' = Top /\ cur \in 1 .. Top /\ NonLocal(arg) /\ arg \in ElfSym
      /\ data[cur].name = arg.name /\ NonLocal(data[cur])
      /\ data' = [data EXCEPT ![cur] = Resolve(data[cur], arg)]
      /\ data \in [Indexes -> ElfSym] /\ Top <= MaxSyms /\ Top \in Nat
  BY DEF FindHit, Return, Top, IInv, CallInv, TypeOK, InBucket
<1>2. \A i \in 1 .. Top : i \in Indexes /\ data[i] \in ElfSym
  BY <1>1 DEF Indexes
<1>3. /\ data'[cur] = Resolve(data[cur], arg)
      /\ \A i \in 1 .. Top : i # cur => data'[i] = data[i]
  BY <1>1, <1>2
<1>4. Resolve(data[cur], arg).name = arg.name /\ NonLocal(Resolve(data[cur], arg))
  BY <1>1, <1>2, ResolveKeeps
<1>5. HasEntry(arg.name) /\ Entry(arg.name) = data[cur]
  BY <1>1, EntryNow
<1>6. HasEntry(n)' <=> HasEntry(n)
  BY <1>1, <1>3, <1>4 DEF HasEntry
<1>7. ASSUME HasEntry(n)
      PROVE  Entry(n)' = IF n = arg.name THEN Resolve(Entry(n), arg) ELSE Entry(n)
  <2> PICK i \in 1 .. Top : NonLocal(data[i]) /\ data[i].name = n /\ Entry(n) = data[i]
    BY <1>7, EntryPlace
  <2>1. (i = cur) <=> (n = arg.name)
    BY <1>1 DEF IInv, OnePerName
  <2>2. NonLocal(data'[i]) /\ data'[i].name = n /\ i \in 1 .. Top'
    BY <1>1, <1>3, <1>4
  <2>3. Entry(n)' = data'[i]
    BY <2>2, EntryThen
  <2> QED
    BY <1>3, <2>1, <2>3
<1> QED
  BY <1>1, <1>2, <1>5, <1>6, <1>7

(* All other steps leave alone what lookups find.                          *)
LEMMA OtherStepsQuiet ==
  ASSUME IInv, [Next]_vars
  PROVE  FindHit \/ Put \/ Quiet
<1>1. /\ Top \in Nat /\ nsyms \in Nat /\ Top <= nsyms /\ nsyms <= MaxSyms
      /\ data \in [Indexes -> ElfSym] /\ rd \in Nat /\ first \in Nat
  BY FrameTypes DEF IInv, TypeOK
<1> PICK m : m = nsyms + 1
  OBVIOUS
<1>2. ASSUME NEW w \in Nat, NEW s, w > Top, data' = [data EXCEPT ![w] = s]
      PROVE  \A i \in 1 .. Top : data'[i] = data[i]
  BY <1>1, <1>2 DEF Indexes
<1>3. ASSUME NEW n \in Names, NEW t \in Emitted, Emit(n, t) PROVE Quiet
  <2>1. m \in Nat /\ m > Top /\ data' = [data EXCEPT ![m] = Named(n, t)]
    BY <1>1, <1>3 DEF Emit
  <2> QED
    BY <1>2, <1>3, <2>1 DEF Quiet, Emit, Top, fileVars
<1>4. ASSUME NEW i \in Indexes, NEW t \in Patched, Patch(i, t) PROVE Quiet
  <2>1. i \in Nat /\ i > Top /\ data' = [data EXCEPT ![i] = Redeclare(data[i], t)]
    BY <1>1, <1>4 DEF Patch, Top, Indexes
  <2> QED
    BY <1>2, <1>4, <2>1 DEF Quiet, Patch, Top, fileVars
<1>5. CASE MergeStep
  <2>1. rd > Top /\ data' = [data EXCEPT ![rd] = ToGlobal(data[rd])]
    BY <1>1, <1>5 DEF MergeStep, Top, IInv, MergeInv
  <2>2. \A i \in 1 .. Top : data'[i] = data[i]
    BY <1>1, <1>2, <2>1
  <2>3. Top' = Top /\ errs' = errs
    BY <1>5 DEF MergeStep, Call, Top
  <2> QED
    BY <2>2, <2>3 DEF Quiet
<1>6. ASSUME NEW n \in Names, NEW t \in Handed, Set(n, t) PROVE Quiet
  BY <1>6 DEF Quiet, Set, Call, Top
<1>7. ASSUME NEW i \in Indexes, AddReloc(i) PROVE Quiet
  BY <1>7 DEF Quiet, AddReloc, Top, fileVars
<1>8. CASE BeginFile \/ EndFile
  BY <1>1, <1>8 DEF Quiet, BeginFile, EndFile, Top
<1>9. CASE FindNext \/ FindMiss \/ RebuildStep \/ MergeDone
  BY <1>9 DEF Quiet, FindNext, FindMiss, RebuildStep, MergeDone, Top, fileVars
<1>10. CASE RebuildDone
  BY <1>10 DEF Quiet, RebuildDone, Return, Top, IInv, TypeOK
<1>11. CASE UNCHANGED vars
  BY <1>11 DEF Quiet, vars, Top, fileVars
<1> QED
  BY <1>3, <1>4, <1>5, <1>6, <1>7, <1>8, <1>9, <1>10, <1>11 DEF Next, Internal

-----------------------------------------------------------------------------
(* The invariant of resolution.                                            *)

LEMMA InitResolution == Init => ResolutionInv
BY DEF Init, ResolutionInv, Pending, NameResolved, HasEntry, Top

(* A step that lookups do not notice, and that neither begins nor ends a   *)
(* call for a name, changes nothing.                                       *)
LEMMA QuietResolution ==
  ASSUME IInv, IInv', ResolutionInv, Quiet, given' = given,
         \A n \in Names : /\ Pending(n)' <=> Pending(n)
                          /\ Pending(n) => arg' = arg
  PROVE  ResolutionInv'
<1> SUFFICES ASSUME NEW n \in Names
             PROVE  \E G \in {given'[n], given'[n] \ {arg'}} :
                      /\ given'[n] = IF Pending(n)' THEN G \cup {arg'} ELSE G
                      /\ NameResolved(n, G)'
  BY DEF ResolutionInv
<1> PICK G \in {given[n], given[n] \ {arg}} :
           /\ given[n] = IF Pending(n) THEN G \cup {arg} ELSE G
           /\ NameResolved(n, G)
  BY DEF ResolutionInv
<1>1. NameResolved(n, G)'
  <2>1. errs' = errs
    BY DEF Quiet
  <2> QED
    BY <2>1, QuietEntries DEF NameResolved
<1>2. CASE Pending(n)
  BY <1>1, <1>2
<1>3. CASE ~ Pending(n)
  BY <1>1, <1>3
<1> QED
  BY <1>2, <1>3

(* set_elf_sym is entered.                                                 *)
LEMMA CallResolution ==
  ASSUME IInv, IInv', ResolutionInv, Quiet, pc \notin {"find", "put"},
         NEW s \in ElfSym, NEW caller, Call(s, caller)
  PROVE  ResolutionInv'
<1> SUFFICES ASSUME NEW n \in Names
             PROVE  \E G \in {given'[n], given'[n] \ {arg'}} :
                      /\ given'[n] = IF Pending(n)' THEN G \cup {arg'} ELSE G
                      /\ NameResolved(n, G)'
  BY DEF ResolutionInv
<1> PICK G : G = given[n]
  OBVIOUS
<1>1. NameResolved(n, G)
  BY DEF ResolutionInv, Pending
<1>2. NameResolved(n, G)'
  <2>1. errs' = errs
    BY DEF Quiet
  <2> QED
    BY <1>1, <2>1, QuietEntries DEF NameResolved
<1>3. arg' = s /\ given \in [Names -> SUBSET ElfSym] /\ s.name \in Names
  BY DEF Call, IInv, TypeOK, ElfSym
<1>4. CASE NonLocal(s) /\ s.name = n
  <2>1. Pending(n)' /\ given'[n] = G \cup {s}
    BY <1>3, <1>4 DEF Call, Pending
  <2>2. CASE s \in G
    <3>1. given'[n] = G
      BY <2>1, <2>2
    <3> QED
      BY <1>2, <1>3, <2>1, <2>2, <3>1
  <2>3. CASE s \notin G
    <3>1. given'[n] \ {s} = G
      BY <2>1, <2>3
    <3> QED
      BY <1>2, <1>3, <2>1, <3>1
  <2> QED
    BY <2>2, <2>3
<1>5. CASE ~ (NonLocal(s) /\ s.name = n)
  <2>1. ~ Pending(n)' /\ given'[n] = G
    BY <1>3, <1>5 DEF Call, Pending
  <2> QED
    BY <1>2, <2>1
<1> QED
  BY <1>4, <1>5

LEMMA FindHitResolution ==
  ASSUME IInv, IInv', ResolutionInv, FindHit
  PROVE  ResolutionInv'
<1> SUFFICES ASSUME NEW n \in Names
             PROVE  \E G \in {given'[n], given'[n] \ {arg'}} :
                      /\ given'[n] = IF Pending(n)' THEN G \cup {arg'} ELSE G
                      /\ NameResolved(n, G)'
  BY DEF ResolutionInv
<1>1. /\ pc = "find" /\ given' = given /\ ~ Pending(n)'
      /\ arg \in ElfSym /\ arg.name \in Names
      /\ given \in [Names -> SUBSET ElfSym]
  BY DEF FindHit, Return, Pending, IInv, TypeOK, ElfSym
<1>2. /\ HasEntry(arg.name) /\ Entry(arg.name) = data[cur]
      /\ data[cur] \in ElfSym /\ NonLocal(data[cur]) /\ NonLocal(arg)
      /\ HasEntry(n)' <=> HasEntry(n)
      /\ HasEntry(n) => Entry(n)' = IF n = arg.name THEN Resolve(Entry(n), arg)
                                    ELSE Entry(n)
  BY FindHitEntries
<1> SUFFICES NameResolved(n, given[n])'
  BY <1>1
<1> PICK G \in {given[n], given[n] \ {arg}} :
           /\ given[n] = IF Pending(n) THEN G \cup {arg} ELSE G
           /\ NameResolved(n, G)
  BY DEF ResolutionInv
<1>3. errs' = IF DefinedTwice(data[cur], arg) THEN errs \cup {arg.name} ELSE errs
  BY DEF FindHit
<1>4. CASE n = arg.name
  <2>1. given[n] = G \cup {arg} /\ G \in SUBSET ElfSym
    BY <1>1, <1>2, <1>4 DEF Pending
  <2> PICK reported \in BOOLEAN : reported <=> n \in errs
    OBVIOUS
  <2>2. Resolves(data[cur], G, reported)
    BY <1>2, <1>4 DEF NameResolved, Resolves
  <2>3. Resolves(Resolve(data[cur], arg), G \cup {arg},
                 reported \/ DefinedTwice(data[cur], arg))
    BY <1>1, <1>2, <2>1, <2>2, ResolvesNext
  <2>4. n \in errs' <=> reported \/ DefinedTwice(data[cur], arg)
    BY <1>3, <1>4
  <2>5. Resolves(Resolve(data[cur], arg), G \cup {arg}, n \in errs')
    BY <2>3, <2>4 DEF Resolves
  <2> QED
    BY <1>1, <1>2, <1>4, <2>1, <2>5 DEF NameResolved
<1>5. CASE n # arg.name
  <2>1. given[n] = G /\ (n \in errs' <=> n \in errs)
    BY <1>3, <1>5 DEF Pending
  <2>2. NameResolved(n, G)'
    BY <1>2, <1>5, <2>1 DEF NameResolved, Resolves
  <2> QED
    BY <1>1, <2>1, <2>2
<1> QED
  BY <1>4, <1>5

LEMMA PutResolution ==
  ASSUME IInv, IInv', ResolutionInv, Put
  PROVE  ResolutionInv'
<1> SUFFICES ASSUME NEW n \in Names
             PROVE  \E G \in {given'[n], given'[n] \ {arg'}} :
                      /\ given'[n] = IF Pending(n)' THEN G \cup {arg'} ELSE G
                      /\ NameResolved(n, G)'
  BY DEF ResolutionInv
<1>1. /\ pc = "put" /\ given' = given /\ errs' = errs /\ ~ Pending(n)'
      /\ arg \in ElfSym
  BY DEF Put, Return, Pending, IInv, TypeOK
<1>2. /\ NonLocal(arg) => ~ HasEntry(arg.name)
      /\ IF NonLocal(arg) /\ arg.name = n
         THEN HasEntry(n)' /\ Entry(n)' = arg
         ELSE /\ HasEntry(n)' <=> HasEntry(n)
              /\ HasEntry(n) => Entry(n)' = Entry(n)
  BY PutEntries
<1> SUFFICES NameResolved(n, given[n])'
  BY <1>1
<1> PICK G \in {given[n], given[n] \ {arg}} :
           /\ given[n] = IF Pending(n) THEN G \cup {arg} ELSE G
           /\ NameResolved(n, G)
  BY DEF ResolutionInv
<1>3. CASE NonLocal(arg) /\ arg.name = n
  <2>1. given[n] = {arg}
    BY <1>1, <1>2, <1>3 DEF Pending, NameResolved
  <2>2. Resolves(arg, {arg}, n \in errs)
    BY <1>1, ResolvesOne
  <2> QED
    BY <1>1, <1>2, <1>3, <2>1, <2>2 DEF NameResolved
<1>4. CASE ~ (NonLocal(arg) /\ arg.name = n)
  BY <1>1, <1>2, <1>4 DEF Pending, NameResolved
<1> QED
  BY <1>3, <1>4

LEMMA NextResolution == ResolutionInv /\ IInv /\ IInv' /\ [Next]_vars => ResolutionInv'
<1> SUFFICES ASSUME ResolutionInv, IInv, IInv', [Next]_vars
             PROVE  ResolutionInv'
  OBVIOUS
<1>1. CASE FindHit
  BY <1>1, FindHitResolution
<1>2. CASE Put
  BY <1>2, PutResolution
<1>3. CASE Quiet
  <2>1. ASSUME NEW n \in Names, NEW t \in Handed, Set(n, t) PROVE ResolutionInv'
    <3>1. Named(n, t) \in ElfSym
      BY NamedIsSym
    <3>2. Call(Named(n, t), "idle") /\ pc = "idle"
      BY <2>1 DEF Set
    <3> QED
      BY <1>3, <3>1, <3>2, CallResolution
  <2>2. CASE MergeStep
    <3>1. ToGlobal(data[rd]) \in ElfSym
      <4>1. data[rd] \in ElfSym
        BY <2>2 DEF MergeStep, IInv, TypeOK, Indexes
      <4> QED
        BY <4>1, ToGlobalKeeps
    <3>2. Call(ToGlobal(data[rd]), "merge") /\ pc = "merge"
      BY <2>2 DEF MergeStep
    <3> QED
      BY <1>3, <3>1, <3>2, CallResolution
  <2>3. CASE /\ given' = given
             /\ \A n \in Names : /\ Pending(n)' <=> Pending(n)
                                 /\ Pending(n) => arg' = arg
    BY <1>3, <2>3, QuietResolution
  <2>4. ASSUME NEW n \in Names, NEW t \in Emitted, Emit(n, t) PROVE ResolutionInv'
    BY <2>3, <2>4 DEF Emit, Pending, callVars
  <2>5. ASSUME NEW i \in Indexes, NEW t \in Patched, Patch(i, t) PROVE ResolutionInv'
    BY <2>3, <2>5 DEF Patch, Pending, callVars
  <2>6. ASSUME NEW i \in Indexes, AddReloc(i) PROVE ResolutionInv'
    BY <2>3, <2>6 DEF AddReloc, Pending, callVars
  <2>7. CASE BeginFile \/ EndFile
    BY <2>3, <2>7 DEF BeginFile, EndFile, Pending, callVars
  <2>8. CASE FindNext \/ FindMiss \/ RebuildStep \/ MergeDone
    BY <2>3, <2>8 DEF FindNext, FindMiss, RebuildStep, MergeDone, Pending, callVars
  <2>9. CASE RebuildDone
    BY <2>3, <2>9 DEF RebuildDone, Return, Pending, IInv, TypeOK
  <2>10. CASE UNCHANGED vars
    BY <2>3, <2>10 DEF vars, callVars, Pending
  <2> QED
    BY <1>1, <1>2, <2>1, <2>2, <2>4, <2>5, <2>6, <2>7, <2>8, <2>9, <2>10
       DEF Next, Internal
<1> QED
  BY <1>1, <1>2, <1>3, OtherStepsQuiet

LEMMA ResolutionInvariance == Spec => []ResolutionInv
<1> QED
  BY InitResolution, NextResolution, Invariance, PTL DEF Spec

(* Between two calls nothing is pending.                                   *)
LEMMA SettledResolution ==
  ASSUME ResolutionInv, Settled, NEW n \in Names
  PROVE  NameResolved(n, given[n])
BY DEF ResolutionInv, Settled, Pending

(* Whatever the number and the order of the calls of set_elf_sym, a name   *)
(* is defined by one of the definitions given for it, by a global one if   *)
(* there is one, and by data rather than a common or bss symbol.           *)
THEOREM OrderNeverMatters == Spec => []OrderFree
<1>1. ResolutionInv => OrderFree
  <2> SUFFICES ASSUME ResolutionInv, Settled, NEW n \in Names
               PROVE  /\ Definitions(n) # {} =>
                           /\ HasEntry(n)
                           /\ \E s \in Definitions(n) :
                                /\ s.pay = Entry(n).pay
                                /\ s.sect = Entry(n).sect
                                /\ s.bind = Entry(n).bind
                      /\ (\E s \in Definitions(n) : s.bind = "GLOBAL") =>
                           Entry(n).bind = "GLOBAL"
                      /\ StrongData(n) # {} => Entry(n).sect \notin Tentative
    BY DEF OrderFree
  <2>1. /\ Definitions(n) = DefinitionsIn(given[n])
        /\ StrongData(n) = StrongIn(given[n])
    BY DEF Definitions, DefinitionsIn, StrongData, StrongIn
  <2>2. NameResolved(n, given[n])
    BY SettledResolution
  <2>3. CASE HasEntry(n)
    BY <2>1, <2>2, <2>3 DEF NameResolved, Resolves
  <2>4. CASE ~ HasEntry(n)
    BY <2>1, <2>2, <2>4 DEF NameResolved, DefinitionsIn, StrongIn
  <2> QED
    BY <2>3, <2>4
<1> QED
  BY <1>1, ResolutionInvariance, PTL

(* Two different global data definitions of one name are reported, however *)
(* many symbols of the name come before, between and after them.           *)
THEOREM ClashAlwaysReported == Spec => []ClashReported
<1>1. ResolutionInv => ClashReported
  <2> SUFFICES ASSUME ResolutionInv, Settled, ~ DynTable, NEW n \in Names,
                      \A s \in given[n] : ~ s.aset,
                      NEW s \in StrongData(n), NEW v \in StrongData(n),
                      s.pay # v.pay
               PROVE  n \in errs
    BY DEF ClashReported
  <2>1. StrongData(n) = StrongIn(given[n])
    BY DEF Definitions, DefinitionsIn, StrongData, StrongIn
  <2>2. NameResolved(n, given[n])
    BY SettledResolution
  <2>3. HasEntry(n)
    BY <2>2 DEF NameResolved, StrongData, Definitions
  <2> QED
    BY <2>1, <2>2, <2>3 DEF NameResolved, Resolves, NoneFromAsm
<1> QED
  BY <1>1, ResolutionInvariance, PTL

-----------------------------------------------------------------------------
(* The refinement of SymbolTable.                                          *)

\* what the front end left in the file's entries, and what is made of it
SymsInv ==
  /\ pc = "file" => \A i \in first .. nsyms : data[i] \in FileSyms
  /\ Merging => \A i \in first .. last : src[i] \in FileSyms
  /\ InCall /\ NonLocal(arg) => arg \in Callable

-----------------------------------------------------------------------------
(* The symbols of a file.                                                  *)

LEMMA NamedInFile ==
  ASSUME NEW n \in Names, NEW t \in Declared
  PROVE  Named(n, t) \in FileSyms
<1>1. t \in Attributes
  BY AttributesAssumption DEF Declared
<1>2. t = Mixed(t, t, t)
  BY <1>1 DEF Mixed, Attributes
<1> QED
  BY <1>2 DEF FileSyms

LEMMA RedeclareInFile ==
  ASSUME NEW s \in FileSyms, NEW t \in Patched
  PROVE  Redeclare(s, t) \in FileSyms
<1> PICK n \in Names, t0 \in Declared, v \in Declared, f \in Declared :
           s = Named(n, Mixed(t0, v, f))
  BY DEF FileSyms
<1>1. t \in Declared /\ t \in Attributes /\ t0 \in Attributes
      /\ v \in Attributes /\ f \in Attributes
  BY AttributesAssumption DEF Declared
<1>2. s.name = n /\ s.vis = v.vis /\ s.aset = f.aset
  BY <1>1 DEF Named, Mixed, Attributes
<1> PICK w \in Declared : w.vis = IF t.vis = "DEFAULT" THEN s.vis ELSE t.vis
  BY <1>1, <1>2
<1> PICK g \in Declared : g.aset = (s.aset \/ t.aset)
  <2>1. CASE t.aset
    BY <1>1, <2>1 DEF Attributes
  <2>2. CASE ~ t.aset
    BY <1>1, <1>2, <2>2 DEF Attributes
  <2> QED
    BY <2>1, <2>2
<1>3. Redeclare(s, t) = Named(n, Mixed(t, w, g))
  BY <1>1, <1>2 DEF Redeclare, Named, Mixed, Attributes
<1> QED
  BY <1>1, <1>3 DEF FileSyms

LEMMA InitSyms == Init => SymsInv
BY DEF Init, SymsInv, Merging, InCall

LEMMA NextSyms == SymsInv /\ IInv /\ [Next]_vars => SymsInv'
<1> SUFFICES ASSUME SymsInv, IInv, [Next]_vars PROVE SymsInv'
  OBVIOUS
<1> USE DEF Merging, InCall
<1>1. /\ nsyms \in Nat /\ first \in Nat /\ last \in Nat /\ rd \in Nat
      /\ data \in [Indexes -> ElfSym] /\ nsyms <= MaxSyms
      /\ ret = "merge" => pc \in {"find", "put", "rebuild"}
  BY DEF IInv, TypeOK, ControlInv
<1>2. ASSUME NEW n \in Names, NEW t \in Handed, Set(n, t) PROVE SymsInv'
  <2> PICK s : s = Named(n, t)
    OBVIOUS
  <2>1. s \in FileSyms
    BY NamedInFile DEF Declared
  <2>2. NonLocal(s) => s \in Callable
    <3>1. s.bind # "LOCAL" => ToGlobal(s) = s
      BY DEF ToGlobal
    <3> QED
      BY <2>1, <3>1 DEF Callable, NonLocal
  <2>3. arg' = s /\ pc' \in {"find", "put"} /\ ret' = "idle"
    BY <1>2 DEF Set, Call
  <2> QED
    BY <2>2, <2>3 DEF SymsInv
<1>3. ASSUME NEW n \in Names, NEW t \in Emitted, Emit(n, t) PROVE SymsInv'
  <2> PICK m, s : m = nsyms + 1 /\ s = Named(n, t)
    OBVIOUS
  <2>1. s \in FileSyms
    BY NamedInFile DEF Declared
  <2>2. /\ pc = "file" /\ pc' = "file" /\ nsyms' = m /\ first' = first /\ m \in Indexes
        /\ data' = [data EXCEPT ![m] = s] /\ ret' = ret
    BY <1>1, <1>3 DEF Emit, fileVars, callVars, Indexes
  <2>3. \A i \in first .. m : data'[i] \in FileSyms
    BY <1>1, <2>1, <2>2 DEF SymsInv, Indexes, IInv, TypeOK
  <2> QED
    BY <1>1, <2>2, <2>3 DEF SymsInv
<1>4. ASSUME NEW i \in Indexes, NEW t \in Patched, Patch(i, t) PROVE SymsInv'
  <2>1. data[i] \in FileSyms
    BY <1>4 DEF Patch, SymsInv
  <2> PICK s : s = Redeclare(data[i], t)
    OBVIOUS
  <2>2. s \in FileSyms
    BY <2>1, RedeclareInFile
  <2>3. /\ pc = "file" /\ pc' = "file" /\ nsyms' = nsyms /\ first' = first
        /\ data' = [data EXCEPT ![i] = s] /\ ret' = ret
    BY <1>4 DEF Patch, fileVars, callVars
  <2>4. \A j \in first .. nsyms : data'[j] \in FileSyms
    BY <1>1, <2>2, <2>3 DEF SymsInv
  <2> QED
    BY <1>1, <2>3, <2>4 DEF SymsInv
<1>5. CASE BeginFile
  BY <1>1, <1>5 DEF BeginFile, SymsInv, callVars
<1>6. CASE EndFile
  BY <1>1, <1>6 DEF EndFile, SymsInv, callVars
<1>7. CASE MergeStep
  <2> PICK s : s = ToGlobal(data[rd])
    OBVIOUS
  <2>1. /\ pc = "merge" /\ rd \in first .. last
        /\ data[rd] = src[rd]
    BY <1>1, <1>7 DEF MergeStep, IInv, MergeInv, ReadsIntact
  <2>2. s \in Callable
    BY <2>1 DEF SymsInv, Callable
  <2>3. /\ arg' = s /\ pc' \in {"find", "put"} /\ ret' = "merge"
        /\ UNCHANGED <<first, last, src>>
    BY <1>7 DEF MergeStep, Call, fileVars
  <2> QED
    BY <2>1, <2>2, <2>3 DEF SymsInv
<1>8. CASE FindNext \/ FindMiss \/ RebuildStep
  BY <1>8 DEF FindNext, FindMiss, RebuildStep, SymsInv, callVars, fileVars
<1>9. CASE FindHit \/ Put \/ RebuildDone
  <2>1. /\ pc \in {"find", "put", "rebuild"} /\ UNCHANGED <<first, last, src>>
        /\ \/ pc' = ret /\ ret' = "idle"
           \/ pc' = "rebuild" /\ UNCHANGED <<ret, arg>>
    BY <1>1, <1>9 DEF FindHit, Put, RebuildDone, Return
  <2>2. ret \in {"idle", "merge"}
    BY DEF IInv, TypeOK
  <2> QED
    BY <2>1, <2>2 DEF SymsInv
<1>10. CASE MergeDone
  BY <1>1, <1>10 DEF MergeDone, SymsInv, callVars
<1>11. ASSUME NEW i \in Indexes, AddReloc(i) PROVE SymsInv'
  BY <1>11 DEF AddReloc, SymsInv, callVars, fileVars
<1>12. CASE UNCHANGED vars
  BY <1>12 DEF vars, SymsInv, callVars, fileVars
<1> QED
  BY <1>2, <1>3, <1>4, <1>5, <1>6, <1>7, <1>8, <1>9, <1>10, <1>11, <1>12
     DEF Next, Internal

LEMMA SymsInvariance == Spec => []SymsInv
<1> QED
  BY InitSyms, NextSyms, Invariance, PTL DEF Spec

-----------------------------------------------------------------------------
(* Each step is one resolution of the map or leaves it alone.              *)

LEMMA TableIs ==
  ASSUME NEW n \in Names
  PROVE  /\ Table[n] = IF HasEntry(n) THEN Entry(n) ELSE NoEntry
         /\ Table'[n] = IF HasEntry(n)' THEN Entry(n)' ELSE NoEntry
BY DEF Table

LEMMA TableUnchanged ==
  ASSUME \A n \in Names : /\ HasEntry(n)' <=> HasEntry(n)
                          /\ HasEntry(n) => Entry(n)' = Entry(n)
  PROVE  Table' = Table
BY DEF Table

LEMMA FindHitCombines ==
  ASSUME IInv, IInv', SymsInv, FindHit
  PROVE  Abs!TNext
<1>1. /\ pc = "find" /\ arg \in ElfSym /\ arg.name \in Names
      /\ errs' = IF DefinedTwice(data[cur], arg) THEN errs \cup {arg.name} ELSE errs
  BY DEF FindHit, IInv, TypeOK, ElfSym
<1>2. /\ HasEntry(arg.name) /\ Entry(arg.name) = data[cur]
      /\ data[cur] \in ElfSym /\ NonLocal(arg)
      /\ \A n : /\ HasEntry(n)' <=> HasEntry(n)
                /\ HasEntry(n) => Entry(n)' = IF n = arg.name THEN Resolve(Entry(n), arg)
                                              ELSE Entry(n)
  BY FindHitEntries
<1>3. arg \in Callable
  BY <1>1, <1>2 DEF SymsInv, InCall
<1>4. Table[arg.name] = data[cur] /\ data[cur] # NoEntry
  BY <1>1, <1>2, NoEntryAssumption DEF Table
<1>5. Table' = [Table EXCEPT ![arg.name] = Resolve(data[cur], arg)]
  BY <1>1, <1>2, <1>4 DEF Table
<1>6. Abs!Combine(arg)
  BY <1>1, <1>4, <1>5 DEF Abs!Combine
<1> QED
  BY <1>3, <1>6 DEF Abs!TNext

LEMMA PutAdds ==
  ASSUME IInv, IInv', SymsInv, Put, NonLocal(arg)
  PROVE  Abs!TNext
<1>1. pc = "put" /\ arg \in ElfSym /\ arg.name \in Names /\ errs' = errs
  BY DEF Put, IInv, TypeOK, ElfSym
<1>2. /\ ~ HasEntry(arg.name)
      /\ \A n : IF n = arg.name
                THEN HasEntry(n)' /\ Entry(n)' = arg
                ELSE /\ HasEntry(n)' <=> HasEntry(n)
                     /\ HasEntry(n) => Entry(n)' = Entry(n)
  BY PutEntries
<1>3. arg \in Callable
  BY <1>1 DEF SymsInv, InCall
<1>4. Table[arg.name] = NoEntry
  BY <1>1, <1>2 DEF Table
<1>5. Table' = [Table EXCEPT ![arg.name] = arg]
  BY <1>1, <1>2 DEF Table
<1>6. Abs!Add(arg)
  BY <1>1, <1>4, <1>5 DEF Abs!Add
<1> QED
  BY <1>3, <1>6 DEF Abs!TNext

LEMMA StepRefines ==
  SymsInv /\ IInv /\ IInv' /\ [Next]_vars => [Abs!TNext]_(Abs!tvars)
<1> SUFFICES ASSUME SymsInv, IInv, IInv', [Next]_vars
             PROVE  [Abs!TNext]_(Abs!tvars)
  OBVIOUS
<1>1. CASE FindHit
  BY <1>1, FindHitCombines
<1>2. CASE Put /\ NonLocal(arg)
  BY <1>2, PutAdds
<1>3. CASE Put /\ ~ NonLocal(arg)
  <2>1. Table' = Table
    BY <1>3, PutEntries, TableUnchanged
  <2>2. errs' = errs
    BY <1>3 DEF Put
  <2> QED
    BY <2>1, <2>2 DEF Abs!tvars
<1>4. CASE Quiet
  <2>1. Table' = Table
    BY <1>4, QuietEntries, TableUnchanged
  <2> QED
    BY <1>4, <2>1 DEF Abs!tvars, Quiet
<1> QED
  BY <1>1, <1>2, <1>3, <1>4, OtherStepsQuiet

(* Every behaviour of the symbol table, its lookups, rebuilds and merges   *)
(* seen from outside, is one of a map from names to symbols that changes   *)
(* by single resolutions: for all names, attributes, hash functions and    *)
(* bounds.                                                                 *)
THEOREM TableImplementsMap == Spec => ImplementsSymbolTable
<1>1. Init => Abs!TInit
  BY DEF Init, Abs!TInit, Table, HasEntry, Top
<1> QED
  BY <1>1, StepRefines, Invariance, SymsInvariance, PTL
     DEF Spec, ImplementsSymbolTable, Abs!TSpec
=============================================================================
