----------------------------- MODULE ElfSymtab -----------------------------
(***************************************************************************)
(* The ELF symbol table of tccelf.c: the array of symbols of one section   *)
(* of type SHT_SYMTAB with its hash section.                               *)
(*                                                                         *)
(* Outside a compilation the table is hashed and set_elf_sym looks a name  *)
(* up before it adds or patches a symbol.  During the compilation of one   *)
(* file (tccelf_begin_file .. tccelf_end_file) hashing is off: the front   *)
(* end appends and patches entries freely, and tccelf_end_file then        *)
(* rewinds the array and gives every entry of the file to set_elf_sym      *)
(* again, writing the merged table over the entries it is still reading.   *)
(*                                                                         *)
(* The loops of find_elf_sym, rebuild_hash and tccelf_end_file are states  *)
(* of pc.  A symbol is a record; its value, size and type are one `pay',   *)
(* its name stands for the string st_name points to.                       *)
(***************************************************************************)
EXTENDS Integers, Sequences, FiniteSets

CONSTANTS
  Names,      \* the strings used as symbol names
  Unnamed,    \* the empty string, name of symbols without one
  Pays,       \* what (st_value, st_size, type) can be; 0 is all zeroes
  Handed,     \* attributes of symbols loaders and linker hand to set_elf_sym
  Emitted,    \* attributes the front end makes an entry with
  Patched,    \* attributes the front end later gives an entry
  Hash,       \* elf_hash: a number for each name
  DynTable,   \* is SHF_DYNSYM set on the section?
  MaxSyms,    \* bound: entries of the array
  Referred,   \* the names relocations are made for
  MaxRelocs,  \* bound: relocations that refer to the table
  MaxGiven    \* bound: different symbols of one name handed to set_elf_sym

Binds == {"LOCAL", "GLOBAL", "WEAK"}
Sects == {"UNDEF", "COMMON", "BSS", "ABS", "DATA"}
Visibilities == {"DEFAULT", "INTERNAL", "HIDDEN", "PROTECTED"}

\* st_info's binding, st_shndx, st_other (visibility and ST_ASM_SET), payload
Attributes == [bind : Binds, sect : Sects, vis : Visibilities,
               aset : BOOLEAN, pay : Pays]

ElfSym == [name : Names, bind : Binds, sect : Sects, vis : Visibilities,
           aset : BOOLEAN, pay : Pays]

ASSUME NamesAssumption == Unnamed \in Names
ASSUME PaysAssumption == 0 \in Pays
ASSUME AttributesAssumption == Handed \cup Emitted \cup Patched \subseteq Attributes
ASSUME HashAssumption == Hash \in [Names -> Nat]
ASSUME DynAssumption == DynTable \in BOOLEAN
ASSUME BoundsAssumption == MaxSyms \in Nat /\ MaxRelocs \in Nat /\ MaxGiven \in Nat

VARIABLES
  data,      \* the array; entries above nsyms hold what was last written
  nsyms,     \* s->data_offset in entries, the null entry 0 not counted
  nbuckets,  \* base[0] of the hash section
  bucket,    \* base[2 ..]: first entry of each chain, 0 for none
  chain,     \* next entry in the chain of an entry, 0 for none
  slots,     \* hs->data_offset in chain slots
  nhashed,   \* hs->nb_hashed_syms
  pc,        \* where the program is
  ret,       \* who called set_elf_sym: "idle" or the "merge" loop
  arg,       \* the symbol set_elf_sym was called with
  cur,       \* the entry find_elf_sym looks at; the result while rebuilding
  k,         \* sym_index of rebuild_hash
  first,     \* first_sym: the first entry of the file being compiled
  last,      \* the last entry of that file
  rd,        \* the entry the merge loop reads next
  tr,        \* old index -> merged index
  relocs,    \* relocations: the index they hold and the name meant by it
  relFirst,  \* sr->sh_offset: the first relocation of the file
  errs,      \* names reported "defined twice"
  src,       \* history: the array as tccelf_end_file found it
  given      \* history: what set_elf_sym was called with, for each name

hashVars == <<nbuckets, bucket, chain, slots, nhashed>>
callVars == <<ret, arg, cur, k>>
fileVars == <<first, last, rd, tr, src>>
relVars  == <<relocs, relFirst>>
vars == <<data, nsyms, hashVars, pc, callVars, fileVars, relVars, errs, given>>

Indexes == 1 .. MaxSyms
NoSym == [name |-> Unnamed, bind |-> "LOCAL", sect |-> "UNDEF",
          vis |-> "DEFAULT", aset |-> FALSE, pay |-> 0]

Named(n, t) == [name |-> n, bind |-> t.bind, sect |-> t.sect, vis |-> t.vis,
                aset |-> t.aset, pay |-> t.pay]

HashIn(n, nb) == Hash[n] % nb
NonLocal(s) == s.bind # "LOCAL"

-----------------------------------------------------------------------------
(* What set_elf_sym makes of an entry it found. *)

VisNumber == [DEFAULT |-> 0, INTERNAL |-> 1, HIDDEN |-> 2, PROTECTED |-> 3]

\* "propagate the most constraining visibility"
MergeVis(old, new) ==
  CASE old = "DEFAULT" -> new
    [] old # "DEFAULT" /\ new = "DEFAULT" -> old
    [] OTHER -> IF VisNumber[old] < VisNumber[new] THEN old ELSE new

Tentative == {"COMMON", "BSS"}

\* both are defined and global, and the new one is not hidden
BothStrong(old, new) ==
  /\ old.bind = "GLOBAL" /\ new.bind = "GLOBAL"
  /\ new.vis \notin {"HIDDEN", "INTERNAL"}

DataOverTentative(old, new) == old.sect \in Tentative /\ new.sect = "DATA"

\* neither tentative: the clash that remains once data took precedence
Clash(old, new) ==
  /\ BothStrong(old, new)
  /\ ~ DataOverTentative(old, new)
  /\ new.sect \notin Tentative
  /\ ~ DynTable

\* mistake: the two bindings exchanged
OverridesWeak(old, new) == new.bind = "WEAK" /\ old.bind = "GLOBAL"

\* mistake: data takes no precedence over common and bss
OverridesNoData(old, new) ==
  \/ new.bind = "GLOBAL" /\ old.bind = "WEAK"
  \/ Clash(old, new) /\ old.aset

\* the cases that reach do_patch when both the entry and the symbol are defined
Overrides(old, new) ==
  \/ new.bind = "GLOBAL" /\ old.bind = "WEAK"
  \/ BothStrong(old, new) /\ DataOverTentative(old, new)
  \/ Clash(old, new) /\ old.aset

Resolve(old, new) ==
  IF old = new THEN old
  ELSE IF old.sect = "UNDEF" THEN new
  ELSE LET seen == [old EXCEPT !.vis = MergeVis(old.vis, new.vis)]
       IN IF new.sect # "UNDEF" /\ Overrides(old, new)
          THEN [new EXCEPT !.vis = seen.vis, !.aset = old.aset]
          ELSE seen

\* mistake: the test of ST_ASM_SET inverted
DefinedTwiceAsm(old, new) ==
  old # new /\ old.sect # "UNDEF" /\ new.sect # "UNDEF" /\ Clash(old, new) /\ old.aset

DefinedTwice(old, new) ==
  /\ old # new
  /\ old.sect # "UNDEF" /\ new.sect # "UNDEF"
  /\ Clash(old, new)
  /\ ~ old.aset

-----------------------------------------------------------------------------
(* set_elf_sym, called from a loader or the linker ("idle") or from the    *)
(* loop of tccelf_end_file ("merge").                                      *)

Init ==
  /\ data = [i \in Indexes |-> NoSym]
  /\ nsyms = 0
  /\ nbuckets = 1
  /\ bucket = [h \in 0 .. 0 |-> 0]
  /\ chain = [i \in Indexes |-> 0]
  /\ slots = 0
  /\ nhashed = 0
  /\ pc = "idle"
  /\ ret = "idle"
  /\ arg = NoSym
  /\ cur = 0
  /\ k = 0
  /\ first = 1
  /\ last = 0
  /\ rd = 1
  /\ tr = [i \in Indexes |-> 0]
  /\ relocs = << >>
  /\ relFirst = 1
  /\ errs = {}
  /\ src = [i \in Indexes |-> NoSym]
  /\ given = [n \in Names |-> {}]

\* mistake: locals are looked up too
CallAll(s, caller) ==
  /\ arg' = s /\ ret' = caller /\ k' = 0
  /\ pc' = "find" /\ cur' = bucket[HashIn(s.name, nbuckets)]
  /\ given' = [given EXCEPT ![s.name] = @ \cup {s}]

\* entry of set_elf_sym: locals go straight to put_elf_sym
Call(s, caller) ==
  /\ arg' = s
  /\ ret' = caller
  /\ k' = 0
  /\ IF NonLocal(s)
     THEN /\ pc' = "find"
          /\ cur' = bucket[HashIn(s.name, nbuckets)]
          /\ given' = [given EXCEPT ![s.name] = @ \cup {s}]
     ELSE /\ pc' = "put"
          /\ cur' = 0
          /\ UNCHANGED given

\* set_elf_sym returns index i: the merge loop stores it in tr and goes on;
\* the locals of the call are gone
Return(i) ==
  /\ pc' = ret
  /\ IF ret = "merge"
     THEN tr' = [tr EXCEPT ![rd] = i] /\ rd' = rd + 1
     ELSE UNCHANGED <<tr, rd>>
  /\ ret' = "idle" /\ arg' = NoSym /\ cur' = 0 /\ k' = 0

Set(n, t) ==
  /\ pc = "idle"
  /\ nsyms < MaxSyms
  /\ Cardinality(given[n]) < MaxGiven
  /\ Call(Named(n, t), "idle")
  /\ UNCHANGED <<data, nsyms, hashVars, fileVars, relVars, errs>>

\* mistake: the walk goes back to the head of the chain
FindNextStuck ==
  /\ pc = "find" /\ cur # 0 /\ data[cur].name # arg.name
  /\ cur' = bucket[HashIn(arg.name, nbuckets)]
  /\ UNCHANGED <<data, nsyms, hashVars, pc, ret, arg, k, fileVars, relVars,
                 errs, given>>

FindNext ==
  /\ pc = "find"
  /\ cur # 0
  /\ data[cur].name # arg.name
  /\ cur' = chain[cur]
  /\ UNCHANGED <<data, nsyms, hashVars, pc, ret, arg, k, fileVars, relVars,
                 errs, given>>

\* mistake: the walk ends at the first entry of another name
FindMissEarly ==
  /\ pc = "find"
  /\ cur # 0 => data[cur].name # arg.name
  /\ pc' = "put"
  /\ UNCHANGED <<data, nsyms, hashVars, callVars, fileVars, relVars, errs, given>>

FindMiss ==
  /\ pc = "find"
  /\ cur = 0
  /\ pc' = "put"
  /\ UNCHANGED <<data, nsyms, hashVars, callVars, fileVars, relVars, errs, given>>

\* mistake: the new symbol takes the place of the old one
FindHitReplacing ==
  /\ pc = "find" /\ cur # 0 /\ data[cur].name = arg.name
  /\ data' = [data EXCEPT ![cur] = arg]
  /\ errs' = IF DefinedTwice(data[cur], arg) THEN errs \cup {arg.name} ELSE errs
  /\ Return(cur)
  /\ UNCHANGED <<nsyms, hashVars, first, last, src, relVars, given>>

FindHit ==
  /\ pc = "find"
  /\ cur # 0
  /\ data[cur].name = arg.name
  /\ data' = [data EXCEPT ![cur] = Resolve(@, arg)]
  /\ errs' = IF DefinedTwice(data[cur], arg) THEN errs \cup {arg.name} ELSE errs
  /\ Return(cur)
  /\ UNCHANGED <<nsyms, hashVars, first, last, src, relVars, given>>

Overfull(n, nb) == n > 2 * nb

\* put_elf_sym with hashing on: append the entry and its chain slot, link
\* it in, and let the hash table double when it holds two symbols a bucket
Put ==
  /\ pc = "put"
  /\ nsyms < MaxSyms
  /\ nsyms' = nsyms + 1
  /\ data' = [data EXCEPT ![nsyms + 1] = arg]
  /\ slots' = slots + 1
  /\ IF NonLocal(arg)
     THEN LET h == HashIn(arg.name, nbuckets) IN
          /\ nhashed' = nhashed + 1
          /\ chain' = [chain EXCEPT ![slots + 1] = bucket[h]]
          /\ IF Overfull(nhashed + 1, nbuckets)
             THEN /\ nbuckets' = 2 * nbuckets
                  /\ bucket' = [b \in 0 .. 2 * nbuckets - 1 |-> 0]
                  /\ pc' = "rebuild"
                  /\ cur' = nsyms + 1
                  /\ k' = 1
                  /\ UNCHANGED <<ret, arg, tr, rd>>
             ELSE /\ bucket' = [bucket EXCEPT ![h] = nsyms + 1]
                  /\ Return(nsyms + 1)
                  /\ UNCHANGED nbuckets
     ELSE /\ chain' = [chain EXCEPT ![slots + 1] = 0]
          /\ Return(nsyms + 1)
          /\ UNCHANGED <<nbuckets, bucket, nhashed>>
  /\ UNCHANGED <<first, last, src, relVars, errs, given>>

\* mistake: the first entry of a bucket keeps its old link
RebuildStepKeeping ==
  /\ pc = "rebuild" /\ k <= nsyms
  /\ LET h == HashIn(data[k].name, nbuckets) IN
       IF NonLocal(data[k])
       THEN /\ chain' = IF bucket[h] = 0 THEN chain ELSE [chain EXCEPT ![k] = bucket[h]]
            /\ bucket' = [bucket EXCEPT ![h] = k]
       ELSE UNCHANGED <<chain, bucket>>
  /\ k' = k + 1
  /\ UNCHANGED <<data, nsyms, nbuckets, slots, nhashed, pc, ret, arg, cur,
                 fileVars, relVars, errs, given>>

\* one turn of rebuild_hash's loop
RebuildStep ==
  /\ pc = "rebuild"
  /\ k <= nsyms
  /\ IF NonLocal(data[k])
     THEN LET h == HashIn(data[k].name, nbuckets) IN
          /\ chain' = [chain EXCEPT ![k] = bucket[h]]
          /\ bucket' = [bucket EXCEPT ![h] = k]
     ELSE /\ chain' = [chain EXCEPT ![k] = 0]
          /\ UNCHANGED bucket
  /\ k' = k + 1
  /\ UNCHANGED <<data, nsyms, nbuckets, slots, nhashed, pc, ret, arg, cur,
                 fileVars, relVars, errs, given>>

\* mistake: the slots are appended, not filled anew
RebuildDoneAppending ==
  /\ pc = "rebuild" /\ k > nsyms
  /\ slots' = slots + nsyms
  /\ Return(cur)
  /\ UNCHANGED <<data, nsyms, nbuckets, bucket, chain, nhashed,
                 first, last, src, relVars, errs, given>>

RebuildDone ==
  /\ pc = "rebuild"
  /\ k > nsyms
  /\ slots' = nsyms
  /\ Return(cur)
  /\ UNCHANGED <<data, nsyms, nbuckets, bucket, chain, nhashed,
                 first, last, src, relVars, errs, given>>

-----------------------------------------------------------------------------
(* Compiling one file. *)

\* mistake: the relocations of earlier files are not set apart
BeginFileAll ==
  /\ pc = "idle" /\ pc' = "file"
  /\ first' = nsyms + 1 /\ relFirst' = 1
  /\ UNCHANGED <<data, nsyms, hashVars, callVars, last, rd, tr, src, relocs,
                 errs, given>>

BeginFile ==
  /\ pc = "idle"
  /\ pc' = "file"
  /\ first' = nsyms + 1
  /\ relFirst' = Len(relocs) + 1
  /\ UNCHANGED <<data, nsyms, hashVars, callVars, last, rd, tr, src, relocs,
                 errs, given>>

\* put_extern_sym2 on a symbol without an entry: put_elf_sym, not hashed
Emit(n, t) ==
  /\ pc = "file"
  /\ nsyms < MaxSyms
  /\ nsyms' = nsyms + 1
  /\ data' = [data EXCEPT ![nsyms + 1] = Named(n, t)]
  /\ UNCHANGED <<hashVars, pc, callVars, fileVars, relVars, errs, given>>

\* put_extern_sym2 on a symbol that has an entry, and update_storage: the
\* definition and the binding change; visibility and flags are only added
Redeclare(s, t) ==
  [name |-> s.name, bind |-> t.bind, sect |-> t.sect,
   vis |-> IF t.vis = "DEFAULT" THEN s.vis ELSE t.vis,
   aset |-> s.aset \/ t.aset, pay |-> t.pay]

Patch(i, t) ==
  /\ pc = "file"
  /\ i \in first .. nsyms
  /\ data[i].sect # "UNDEF" => t.sect # "UNDEF"
  /\ data' = [data EXCEPT ![i] = Redeclare(@, t)]
  /\ UNCHANGED <<nsyms, hashVars, pc, callVars, fileVars, relVars, errs, given>>

\* put_elf_reloca; the front end uses entries of its own file only
AddReloc(i) ==
  /\ pc \in {"idle", "file"}
  /\ Len(relocs) < MaxRelocs
  /\ i \in (IF pc = "file" THEN first ELSE 1) .. nsyms
  /\ data[i].name \in Referred
  /\ relocs' = Append(relocs, [sym |-> i, want |-> data[i].name])
  /\ UNCHANGED <<data, nsyms, hashVars, pc, callVars, fileVars, relFirst,
                 errs, given>>

\* mistake: rewound to one entry too far
EndFileOffByOne ==
  /\ pc = "file" /\ pc' = "merge"
  /\ last' = nsyms /\ nsyms' = first /\ rd' = first
  /\ tr' = [i \in Indexes |-> 0] /\ src' = data
  /\ UNCHANGED <<data, hashVars, callVars, first, relVars, errs, given>>

\* tccelf_end_file up to its first loop: rewind the array, hashing on again
EndFile ==
  /\ pc = "file"
  /\ pc' = "merge"
  /\ last' = nsyms
  /\ nsyms' = first - 1
  /\ rd' = first
  /\ tr' = [i \in Indexes |-> 0]
  /\ src' = data
  /\ UNCHANGED <<data, hashVars, callVars, first, relVars, errs, given>>

\* an undefined symbol of the file is global, whatever it was declared
ToGlobal(s) ==
  IF s.sect = "UNDEF" /\ s.bind = "LOCAL" THEN [s EXCEPT !.bind = "GLOBAL"] ELSE s

MergeStep ==
  /\ pc = "merge"
  /\ rd <= last
  /\ data' = [data EXCEPT ![rd] = ToGlobal(@)]
  /\ Call(ToGlobal(data[rd]), "merge")
  /\ UNCHANGED <<nsyms, hashVars, fileVars, relVars, errs>>

\* the second loop: the relocations of this file get the merged indexes;
\* the locals of tccelf_end_file are gone
MergeDone ==
  /\ pc = "merge"
  /\ rd > last
  /\ relocs' = [j \in DOMAIN relocs |->
                  IF j >= relFirst
                  THEN [relocs[j] EXCEPT !.sym = tr[@]]
                  ELSE relocs[j]]
  /\ pc' = "idle"
  /\ first' = 1 /\ last' = 0 /\ rd' = 1 /\ relFirst' = 1
  /\ tr' = [i \in Indexes |-> 0]
  /\ src' = [i \in Indexes |-> NoSym]
  /\ UNCHANGED <<data, nsyms, hashVars, callVars, errs, given>>

-----------------------------------------------------------------------------
\* the steps the program takes by itself once set_elf_sym or
\* tccelf_end_file has been called
Internal ==
  \/ FindNext \/ FindMiss \/ FindHit
  \/ Put
  \/ RebuildStep \/ RebuildDone
  \/ MergeStep \/ MergeDone

Next ==
  \/ \E n \in Names, t \in Handed : Set(n, t)
  \/ \E n \in Names, t \in Emitted : Emit(n, t)
  \/ \E i \in Indexes, t \in Patched : Patch(i, t)
  \/ \E i \in Indexes : AddReloc(i)
  \/ BeginFile
  \/ EndFile
  \/ Internal

Spec == Init /\ [][Next]_vars
FairSpec == Spec /\ WF_vars(Internal)

-----------------------------------------------------------------------------
(* Properties. *)

PCs == {"idle", "find", "put", "rebuild", "file", "merge"}
Relocs == [sym : Indexes, want : Names]

\* Every variable keeps its type; the entries in use are symbols, and the
\* counters stay inside the arrays they index.
TypeOK ==
  /\ data \in [Indexes -> ElfSym]
  /\ nsyms \in 0 .. MaxSyms
  /\ nbuckets \in Nat \ {0}
  /\ bucket \in [0 .. nbuckets - 1 -> 0 .. MaxSyms]
  /\ chain \in [Indexes -> 0 .. MaxSyms]
  /\ slots \in 0 .. MaxSyms
  /\ nhashed \in 0 .. MaxSyms
  /\ pc \in PCs
  /\ ret \in {"idle", "merge"}
  /\ arg \in ElfSym
  /\ cur \in 0 .. MaxSyms
  /\ k \in 0 .. MaxSyms + 1
  /\ first \in 1 .. MaxSyms + 1
  /\ last \in 0 .. MaxSyms
  /\ rd \in 1 .. MaxSyms + 1
  /\ tr \in [Indexes -> 0 .. MaxSyms]
  /\ relocs \in Seq(Relocs)
  /\ relFirst \in Nat \ {0}
  /\ errs \subseteq Names
  /\ src \in [Indexes -> ElfSym]
  /\ given \in [Names -> SUBSET ElfSym]

\* the entries find_elf_sym may see: all but those of a file in compilation
Top == IF pc = "file" THEN first - 1 ELSE nsyms

\* the entry i is in the hash chain of bucket h
InBucket(i, h) == NonLocal(data[i]) /\ HashIn(data[i].name, nbuckets) = h

\* c is the last entry below i in bucket h, or 0 when there is none
Precedes(c, i, h) ==
  /\ c < i
  /\ c # 0 => InBucket(c, h)
  /\ \A j \in c + 1 .. i - 1 : ~ InBucket(j, h)

\* the entries already linked into the chains
Linked == IF pc = "rebuild" THEN k - 1 ELSE Top

\* Hash chains are exact (put_elf_sym, rebuild_hash): each bucket starts
\* at the newest global of that bucket and each link leads to the next
\* older one, so a lookup meets every global and nothing else, before and
\* after the table doubles and while tccelf_end_file refills it.
ChainsExact ==
  /\ \A h \in 0 .. nbuckets - 1 : Precedes(bucket[h], Linked + 1, h)
  /\ \A i \in 1 .. Linked :
       NonLocal(data[i]) =>
         Precedes(chain[i], i, HashIn(data[i].name, nbuckets))

\* One global entry per name (set_elf_sym): a name the lookup can find
\* twice would be resolved to whichever entry the chain meets first.
OnePerName ==
  \A i, j \in 1 .. Top :
    /\ NonLocal(data[i]) /\ NonLocal(data[j])
    /\ data[i].name = data[j].name
    => i = j

\* inside tccelf_end_file
Merging == pc = "merge" \/ ret = "merge"

\* tccelf_end_file writes the merged table over the array it reads: an
\* entry must not be overwritten before the loop has read it.
ReadsIntact ==
  Merging =>
    \A i \in (IF pc = "merge" THEN rd ELSE rd + 1) .. last : data[i] = src[i]

\* tr maps each merged entry of the file to an entry of the same name, and
\* a local definition to itself, whatever was patched since.
TrKeepsSymbol ==
  pc = "merge" =>
    \A i \in first .. rd - 1 :
      /\ tr[i] \in 1 .. nsyms
      /\ data[tr[i]].name = src[i].name
      /\ src[i].bind = "LOCAL" /\ src[i].sect # "UNDEF" => data[tr[i]] = src[i]

\* A relocation refers, at all times, to an entry with the name its maker
\* meant (greloca, the last loop of tccelf_end_file) - while the file's
\* entries are being merged, those of earlier files do.
RelocsKeepName ==
  \A j \in DOMAIN relocs :
    ~ Merging \/ j < relFirst =>
      /\ relocs[j].sym \in 1 .. nsyms
      /\ data[relocs[j].sym].name = relocs[j].want

\* the entry of name n, when set_elf_sym has none of its calls pending
HasEntry(n) == \E i \in 1 .. Top : NonLocal(data[i]) /\ data[i].name = n
Entry(n) == data[CHOOSE i \in 1 .. Top : NonLocal(data[i]) /\ data[i].name = n]
Settled == pc \in {"idle", "file", "merge"}

Definitions(n) == {s \in given[n] : s.sect # "UNDEF"}
StrongData(n) == {s \in Definitions(n) :
                    s.bind = "GLOBAL" /\ s.sect = "DATA"
                    /\ s.vis \notin {"HIDDEN", "INTERNAL"}}

\* Whatever the order of the calls (set_elf_sym): a name that was given a
\* definition is defined, by one of those given; by a global one if there
\* was one; and never by a common or bss symbol if there was global data.
OrderFree ==
  Settled =>
    \A n \in Names :
      /\ Definitions(n) # {} =>
           /\ HasEntry(n)
           /\ \E s \in Definitions(n) :
                /\ s.pay = Entry(n).pay
                /\ s.sect = Entry(n).sect
                /\ s.bind = Entry(n).bind
      /\ (\E s \in Definitions(n) : s.bind = "GLOBAL") =>
           Entry(n).bind = "GLOBAL"
      /\ StrongData(n) # {} => Entry(n).sect \notin Tentative

\* Two different global data definitions of a name are always reported,
\* however many other symbols of that name came before, between or after
\* (set_elf_sym) - unless one of them came from an asm .set, or the table
\* is a DLL's.
ClashReported ==
  Settled /\ ~ DynTable =>
    \A n \in Names :
      /\ \A s \in given[n] : ~ s.aset
      /\ \E s, u \in StrongData(n) : s.pay # u.pay
      => n \in errs

\* t is at least as strong an entry as s, of the same name
Constraint == [DEFAULT |-> 0, PROTECTED |-> 1, HIDDEN |-> 2, INTERNAL |-> 3]
Strengthens(s, t) ==
  /\ NonLocal(t)
  /\ t.name = s.name
  /\ s.sect # "UNDEF" =>
       /\ t.sect # "UNDEF"
       /\ s.bind = "GLOBAL" => t.bind = "GLOBAL"
       /\ Constraint[t.vis] >= Constraint[s.vis]

NoneWeakened ==
  \A i \in 1 .. Top :
    NonLocal(data[i]) /\ i <= Top' => Strengthens(data[i], data'[i])

\* An entry once visible to lookups keeps its name and stays global or
\* weak; once defined it stays defined, once defined global it stays
\* global, and its visibility is never loosened (set_elf_sym).
EntriesOnlyStrengthen == [][NoneWeakened]_vars

\* A reference that is not weak is not forgotten: while a name has no
\* definition, its entry is weak only if every reference to it was
\* ("only weak symbols are accepted to be undefined", relocate_syms).
StrongRefKept ==
  Settled =>
    \A n \in Names :
      /\ Definitions(n) = {}
      /\ \E s \in given[n] : s.bind = "GLOBAL"
      => Entry(n).bind = "GLOBAL"

\* Every call of set_elf_sym returns, that is the walk of find_elf_sym and
\* the loop of rebuild_hash end, and tccelf_end_file ends.
LoopsEnd ==
  /\ pc = "find" ~> pc \in {"idle", "merge"}
  /\ pc = "merge" ~> pc = "idle"

-----------------------------------------------------------------------------
(* The inductive invariant behind ChainsExact, OnePerName, ReadsIntact,    *)
(* TrKeepsSymbol and RelocsKeepName.                                       *)

\* set_elf_sym runs, and for whom
InCall == pc \in {"find", "put", "rebuild"}
ControlInv == ret = "merge" => InCall

\* chain slots are appended in step with the entries that lookups may see
SlotsInv == slots = Top /\ nhashed <= Top

\* an entry above c, below the end, that a lookup of arg would have to find
NoneAbove(c) ==
  \A j \in c + 1 .. nsyms : NonLocal(data[j]) => data[j].name # arg.name

CallInv ==
  /\ pc = "find" =>
       /\ NonLocal(arg)
       /\ cur <= nsyms
       /\ cur # 0 => InBucket(cur, HashIn(arg.name, nbuckets))
       /\ NoneAbove(cur)
  /\ pc = "put" => (NonLocal(arg) => NoneAbove(0))
  /\ pc = "rebuild" =>
       /\ NonLocal(arg)
       /\ cur = nsyms /\ cur # 0 /\ data[cur] = arg
       /\ k \in 1 .. nsyms + 1

\* the write position of the merge loop stays below its read position
MergeInv ==
  /\ pc = "file" => first - 1 <= nsyms
  /\ pc = "merge" => first - 1 <= nsyms /\ nsyms < rd /\ rd <= last + 1
  /\ ret = "merge" =>
       /\ first <= rd /\ rd <= last
       /\ first - 1 <= nsyms
       /\ IF pc = "rebuild" THEN nsyms <= rd ELSE nsyms < rd
  /\ ReadsIntact

\* what tr says of the entries merged so far, also inside set_elf_sym
TrInv ==
  /\ Merging =>
       \A i \in first .. rd - 1 :
         /\ tr[i] \in 1 .. nsyms
         /\ data[tr[i]].name = src[i].name
         /\ src[i].bind = "LOCAL" /\ src[i].sect # "UNDEF" => data[tr[i]] = src[i]
  /\ ret = "merge" => arg = ToGlobal(src[rd])

\* relocations of earlier files are about earlier entries, those of the
\* file in compilation about its entries as tccelf_end_file found them
RelocOK(j, r) ==
  IF Merging /\ j >= relFirst
  THEN r.sym \in first .. last /\ src[r.sym].name = r.want
  ELSE /\ data[r.sym].name = r.want
       /\ IF pc = "file" /\ j >= relFirst THEN r.sym \in first .. nsyms
          ELSE IF pc = "file" \/ Merging THEN r.sym \in 1 .. first - 1
          ELSE r.sym \in 1 .. nsyms

RelocInv ==
  /\ pc = "file" => relFirst <= Len(relocs) + 1
  /\ \A j \in DOMAIN relocs : RelocOK(j, relocs[j])

IInv ==
  /\ TypeOK
  /\ ControlInv
  /\ SlotsInv
  /\ CallInv
  /\ ChainsExact
  /\ OnePerName
  /\ MergeInv
  /\ TrInv
  /\ RelocInv
=============================================================================
