------------------------------ MODULE PELayout ------------------------------
(***************************************************************************)
(* The image that pe_output_file makes of the sections (tccpe.c): the      *)
(* order and the addresses of sections, .bss behind .data, the base        *)
(* relocations that let the loader move the image, and the place of each   *)
(* section in the file.  Loops take a step for each turn.  In the end the  *)
(* loader of Windows reads the base relocations.                           *)
(***************************************************************************)
EXTENDS Integers, Sequences, SequencesExt, FiniteSetsExt

CONSTANTS
  Images,  \* [sections, do_debug, grow, section_align, file_align, image]
  Span     \* addresses that a block of base relocations covers (1<<12)

VARIABLES
  image,
  sections,   \* [name, type, flags, size, align, reloc: [offset, type]*]
  sh_addr,    \* of each section, 0: not in the image
  sec_info,   \* the sections of the image: [ord, cls, addr, size, data]
  todo, addr, \* of the loop of pe_assign_addresses: the sections to come
  sr, rel, i, count, offset, block_ptr,  \* of pe_build_reloc
  reloc,      \* the 16-bit words of .reloc
  headers, file_offset, SizeOfImage,       \* of pe_write
  block, fixups,  \* of the loader: where the next block is, [word, place] it found
  pc

assignVars == <<sections, sh_addr, sec_info, todo, addr>>
relocVars == <<sr, rel, i, count, offset, block_ptr, reloc>>
writeVars == <<headers, file_offset, SizeOfImage>>
loaderVars == <<block, fixups>>
vars == <<image, assignVars, relocVars, writeVars, loaderVars, pc>>

AlignUp(n, al) == ((n + al - 1) \div al) * al

\* as in tccpe.c, from sec_text to sec_last
Classes == [text |-> 0, data |-> 1, bss |-> 2, idata |-> 3, pdata |-> 4, other |-> 5,
            rsrc |-> 6, stab |-> 7, reloc |-> 8]

pe_section_class(s) ==
  CASE "ALLOC" \in s.flags /\ s.type = "PROGBITS" ->
         CASE "EXECINSTR" \in s.flags -> "text"
           [] {"EXECINSTR", "WRITE"} \cap s.flags = {"WRITE"} -> "data"
           [] OTHER -> IF s.name \in {"rsrc", "iedat", "pdata"}
                       THEN [rsrc |-> "rsrc", iedat |-> "idata", pdata |-> "pdata"][s.name]
                       ELSE "other"
    [] {"ALLOC", "WRITE"} \subseteq s.flags /\ s.type = "NOBITS" -> "bss"
    [] "ALLOC" \notin s.flags /\ s.name \in {"reloc", "stab"} -> s.name
    [] OTHER -> "none"

ClassOf(s) == pe_section_class(sections[s])

\* section_order goes class by class
Before(x, s) ==
  \/ Classes[ClassOf(x)] < Classes[ClassOf(s)]
  \/ ClassOf(x) = ClassOf(s) /\ x < s

\* the imports and exports are appended to the first section for data
IsThunk(s) ==
  ClassOf(s) = "data" /\ \A x \in DOMAIN sections : ClassOf(x) = "data" => s <= x

\* relocations are of the contents; no place has two absolute addresses,
\* which RelocSqueeze!SqueezeReduces shows of the compiler's
Absolutes(s) == {x \in DOMAIN s.reloc : s.reloc[x].type = "R_X86_64_64"}
Section ==
  [name : STRING, type : STRING, flags : SUBSET {"ALLOC", "WRITE", "EXECINSTR"},
   size : Nat, align : Nat \ {0}, reloc : Seq([offset : Nat, type : STRING])]
WellFormed(s) ==
  /\ pe_section_class(s) # "reloc"
  /\ \A x \in Absolutes(s) : s.reloc[x].offset < s.size
  /\ \A x, y \in Absolutes(s) : s.reloc[x].offset = s.reloc[y].offset => x = y
Assumptions ==
  /\ Span \in Nat \ {0}
  /\ \A m \in Images :
       /\ m.grow \in Nat /\ m.base \in Nat /\ m.head \in Nat
       /\ m.section_align \in Nat \ {0} /\ m.file_align \in Nat \ {0}
       /\ m.base % m.section_align = 0
       /\ m.sections \in Seq(Section)
       /\ \A s \in DOMAIN m.sections : WellFormed(m.sections[s])

-----------------------------------------------------------------------------
(* pe_assign_addresses.                                                    *)

First(s) == s \in todo /\ \A x \in todo : x = s \/ Before(s, x)
Assigning(s) == pc = "assign" /\ First(s)

FollowsData == sec_info # << >> /\ Last(sec_info).cls = "data"
Kept(s) == ClassOf(s) = "stab" => image.do_debug

\* "append .bss to .data"
AppendBss(s) ==
  LET at == AlignUp(addr, sections[s].align)
      last == Len(sec_info)
  IN /\ Assigning(s) /\ ClassOf(s) = "bss" /\ FollowsData
     /\ sh_addr' = [sh_addr EXCEPT ![s] = at]
     /\ addr' = at + sections[s].size
     /\ sec_info' = [sec_info EXCEPT ![last].size = addr' - sec_info[last].addr]
     /\ todo' = todo \ {s}
     /\ UNCHANGED <<image, sections, relocVars, writeVars, loaderVars, pc>>

SkipStab(s) ==
  /\ Assigning(s) /\ ~ Kept(s)
  /\ todo' = todo \ {s}
  /\ UNCHANGED <<image, sections, sh_addr, sec_info, addr, relocVars, writeVars, loaderVars, pc>>

\* an empty section gets an address and no place in the image
Counted(s, at, size) ==
  IF size = 0
  THEN sec_info' = sec_info /\ addr' = at
  ELSE /\ sec_info' = Append(sec_info, [ord |-> s, cls |-> ClassOf(s), addr |-> at, size |-> size,
                        data |-> IF sections[s].type = "NOBITS" THEN 0 ELSE size])
       /\ addr' = at + size

Place(s) ==
  LET at == AlignUp(addr, image.section_align)
      size == sections[s].size + (IF IsThunk(s) THEN image.grow ELSE 0)
  IN /\ Assigning(s) /\ Kept(s) /\ ClassOf(s) # "reloc"
     /\ ~ (ClassOf(s) = "bss" /\ FollowsData)
     /\ sh_addr' = [sh_addr EXCEPT ![s] = at]
     /\ sections' = [sections EXCEPT ![s].size = size]
     /\ Counted(s, at, size)
     /\ todo' = todo \ {s}
     /\ UNCHANGED <<image, relocVars, writeVars, loaderVars, pc>>

\* .reloc itself: the last section, filled when all others have addresses
PlaceReloc(s) ==
  /\ Assigning(s) /\ ClassOf(s) = "reloc"
  /\ addr' = AlignUp(addr, image.section_align)
  /\ sh_addr' = [sh_addr EXCEPT ![s] = addr']
  /\ pc' = "reloc"
  /\ UNCHANGED <<image, sections, sec_info, todo, relocVars, writeVars, loaderVars>>

-----------------------------------------------------------------------------
(* pe_build_reloc: a header and a word for each absolute address, in       *)
(* blocks of 4k.  rel <= Len(sr) says rel < rel_end.                     *)

HeaderWords == 4

RelAddr == sr[rel].offset + sh_addr[sec_info[i].ord]

\* mistake: an address below the block is taken for one in it
InBlockBelow == count = 0 \/ RelAddr < offset + Span

\* "one block spans 4k addresses"; the difference is unsigned
InBlock == count = 0 \/ RelAddr \in offset .. offset + Span - 1

SkipRelative ==
  /\ pc = "reloc" /\ rel <= Len(sr) /\ sr[rel].type # "R_X86_64_64"
  /\ rel' = rel + 1
  /\ UNCHANGED <<image, assignVars, sr, i, count, offset, block_ptr, reloc, writeVars, loaderVars, pc>>

TakeRel ==
  /\ pc = "reloc" /\ rel <= Len(sr) /\ sr[rel].type = "R_X86_64_64" /\ InBlock
  /\ rel' = rel + 1
  /\ count' = count + 1
  /\ offset' = IF count = 0 THEN (RelAddr \div Span) * Span ELSE offset
  /\ block_ptr' = IF count = 0 THEN Len(reloc) ELSE block_ptr
  /\ reloc' = reloc \o (IF count = 0 THEN <<0, 0, 0, 0>> ELSE << >>)
                    \o << [at |-> (RelAddr - offset') % Span, type |-> "HIGHLOW"] >>
  /\ UNCHANGED <<image, assignVars, sr, i, writeVars, loaderVars, pc>>

NextSection ==
  /\ pc = "reloc" /\ rel > Len(sr) /\ i < Len(sec_info)
  /\ i' = i + 1
  /\ LET next == sections[sec_info[i + 1].ord].reloc
     IN IF next # << >> THEN sr' = next /\ rel' = 1 ELSE UNCHANGED <<sr, rel>>
  /\ UNCHANGED <<image, assignVars, count, offset, block_ptr, reloc, writeVars, loaderVars, pc>>

\* "store the last block": a word to align, then what the header says
Stored ==
  LET n == count + (count % 2)
      words == reloc \o (IF count % 2 = 1 THEN << [at |-> 0, type |-> "ABSOLUTE"] >> ELSE << >>)
  IN [words EXCEPT ![block_ptr + 1] = offset - image.base, ![block_ptr + 3] = 2 * n + 2 * HeaderWords]

StoreBlock ==
  /\ pc = "reloc" /\ rel <= Len(sr) /\ sr[rel].type = "R_X86_64_64" /\ ~ InBlock
  /\ reloc' = Stored
  /\ count' = 0
  /\ UNCHANGED <<image, assignVars, sr, rel, i, offset, block_ptr, writeVars, loaderVars, pc>>

\* back in pe_assign_addresses, .reloc is counted; pe_write puts the contents
\* behind the headers
EndReloc(s) ==
  LET table == IF count # 0 THEN Stored ELSE reloc
  IN /\ pc = "reloc" /\ rel > Len(sr) /\ i = Len(sec_info) /\ First(s)
     /\ reloc' = table
     /\ count' = 0
     /\ sections' = [sections EXCEPT ![s].size = 2 * Len(table)]
     /\ Counted(s, addr, 2 * Len(table))
     /\ todo' = todo \ {s} /\ pc' = "write"
     /\ file_offset' = AlignUp(image.head + Len(sec_info'), image.file_align)
     /\ UNCHANGED <<image, sh_addr, sr, rel, i, offset, block_ptr, headers, SizeOfImage, loaderVars>>

-----------------------------------------------------------------------------
(* pe_write: the section headers, then the contents.                       *)

WriteHeader ==
  LET si == sec_info[Len(headers) + 1]
      at == si.addr - image.base
      end == IF si.data = 0 THEN file_offset
             ELSE AlignUp(file_offset + si.data, image.file_align)
  IN /\ pc = "write" /\ Len(headers) < Len(sec_info)
     /\ headers' = Append(headers,
          [VirtualAddress |-> at, VirtualSize |-> si.size,
           PointerToRawData |-> IF si.data = 0 THEN 0 ELSE file_offset,
           SizeOfRawData |-> end - file_offset])
     /\ SizeOfImage' = Max({SizeOfImage, AlignUp(si.size + at, image.section_align)})
     /\ file_offset' = end
     /\ UNCHANGED <<image, assignVars, relocVars, loaderVars, pc>>

WriteFile ==
  /\ pc = "write" /\ Len(headers) = Len(sec_info)
  /\ pc' = "written"
  /\ UNCHANGED <<image, assignVars, relocVars, writeVars, loaderVars>>

-----------------------------------------------------------------------------
(* The loader goes from block to block by their sizes.  Each word of a     *)
(* block is the place of an address, to which it adds how far the image    *)
(* was moved.                                                              *)

ReadBlock ==
  LET size == reloc[block + 3]
      words == {k \in block + HeaderWords + 1 .. block + size \div 2 : reloc[k].type = "HIGHLOW"}
  IN /\ pc = "written" /\ block < Len(reloc)
     /\ fixups' = fixups \cup {[word |-> k, place |-> reloc[block + 1] + reloc[k].at] : k \in words}
     /\ block' = block + size \div 2
     /\ UNCHANGED <<image, assignVars, relocVars, writeVars, pc>>

\* new_section(".reloc"), then the order of the sections
Init ==
  /\ image \in Images
  /\ sections = Append(image.sections, [name |-> "reloc", type |-> "PROGBITS", flags |-> {},
                                        size |-> 0, align |-> 1, reloc |-> << >>])
  /\ sh_addr = [s \in DOMAIN sections |-> IF ClassOf(s) = "none" THEN 0 ELSE image.base]
  /\ sec_info = << >> /\ addr = image.base + 1
  /\ todo = {s \in DOMAIN sections : ClassOf(s) # "none"}
  /\ sr = << >> /\ rel = 1 /\ i = 0 /\ count = 0 /\ offset = 0 /\ block_ptr = 0
  /\ reloc = << >>
  /\ headers = << >> /\ file_offset = 0 /\ SizeOfImage = 0
  /\ block = 0 /\ fixups = {}
  /\ pc = "assign"

Next ==
  \/ \E s \in DOMAIN sections : AppendBss(s)
  \/ \E s \in DOMAIN sections : SkipStab(s)
  \/ \E s \in DOMAIN sections : Place(s)
  \/ \E s \in DOMAIN sections : PlaceReloc(s)
  \/ \E s \in DOMAIN sections : EndReloc(s)
  \/ SkipRelative \/ TakeRel \/ NextSection \/ StoreBlock
  \/ WriteHeader \/ WriteFile \/ ReadBlock

Spec == Init /\ [][Next]_vars

-----------------------------------------------------------------------------
\* the places of absolute addresses in the image
Absolute ==
  UNION {{ sh_addr[s] - image.base + r.offset :
             r \in {x \in ToSet(sections[s].reloc) : x.type = "R_X86_64_64"} } :
         s \in {si.ord : si \in ToSet(sec_info)}}

\* "We make .relocs for all files, so that /DYNAMICBASE is possible": the
\* loader finds every absolute address once and nothing else.
Relocatable ==
  pc = "written" =>
    /\ block < Len(reloc) => reloc[block + 3] % 4 = 0
    /\ block >= Len(reloc) =>
         /\ {f.place : f \in fixups} = Absolute
         /\ \A f, g \in fixups : f.place = g.place => f = g

\* The sections of the image are aligned and apart, in memory and in the
\* file; every section that has contents, .bss too, is in one of them and
\* the image is large enough for all.
Within(a, n, h) == h.VirtualAddress <= a /\ a + n <= h.VirtualAddress + h.VirtualSize
Placed ==
  pc = "written" =>
    /\ \A h \in ToSet(headers) :
         /\ h.VirtualAddress % image.section_align = 0
         /\ h.PointerToRawData % image.file_align = 0
         /\ h.VirtualAddress + h.VirtualSize <= SizeOfImage
         /\ h.VirtualAddress > 0
    /\ \A p, q \in DOMAIN headers : p < q =>
         /\ headers[p].VirtualAddress + headers[p].VirtualSize <= headers[q].VirtualAddress
         /\ {headers[p].SizeOfRawData, headers[q].SizeOfRawData} \cap {0} = {} =>
              headers[p].PointerToRawData + headers[p].SizeOfRawData <= headers[q].PointerToRawData
    /\ \A s \in DOMAIN sections :
         sections[s].size > 0 /\ ClassOf(s) # "none" /\ Kept(s) =>
           \E h \in ToSet(headers) :
             /\ Within(sh_addr[s] - image.base, sections[s].size, h)
             /\ sections[s].type # "NOBITS" =>
                  sh_addr[s] - image.base = h.VirtualAddress /\ h.SizeOfRawData >= sections[s].size

ImageSound == Relocatable /\ Placed
=============================================================================
