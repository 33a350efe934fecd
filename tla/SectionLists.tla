---------------------------- MODULE SectionLists ----------------------------
(***************************************************************************)
(* Sections as they reach the output of an image: each kind present, empty *)
(* or with contents, relocations in and out of order.                      *)
(***************************************************************************)
EXTENDS Naturals, Sequences

Section(name, type, flags, size, relocs) ==
  [name |-> name, type |-> type, flags |-> flags, size |-> size, align |-> 2, reloc |-> relocs]
At(n) == [offset |-> n, type |-> "R_X86_64_64"]
Rel(n) == [offset |-> n, type |-> "R_X86_64_PC32"]

Texts == { Section("text", "PROGBITS", {"ALLOC", "EXECINSTR"}, 5, r) :
             r \in {<< >>, <<Rel(1), At(0)>>} }
Datas == { Section("data", "PROGBITS", {"ALLOC", "WRITE"}, 0, << >>) } \cup
         { Section("data", "PROGBITS", {"ALLOC", "WRITE"}, 7, r) :
             r \in {<<At(0), At(3), At(6)>>, <<At(6), Rel(2), At(1)>>} }
Zeros == { Section("bss", "NOBITS", {"ALLOC", "WRITE"}, n, << >>) : n \in {0, 3} }

\* sections of the program's own: data, code, constants, unwind data, none,
\* and what -g adds
Others ==
  { << >>,
    << Section("more", "PROGBITS", {"ALLOC", "WRITE"}, 0, << >>) >>,
    << Section("more", "PROGBITS", {"ALLOC", "WRITE"}, 2, <<At(1)>>),
       Section("zero", "NOBITS", {"ALLOC", "WRITE"}, 4, << >>) >>,
    << Section("init", "PROGBITS", {"ALLOC", "EXECINSTR"}, 3, <<At(2)>>) >>,
    << Section("const", "PROGBITS", {"ALLOC"}, 4, <<At(3), At(2)>>) >>,
    << Section("pdata", "PROGBITS", {"ALLOC"}, 3, <<Rel(0)>>),
       Section("symtab", "SYMTAB", {}, 6, << >>) >>,
    << Section("stab", "PROGBITS", {}, 4, <<Rel(2)>>) >> }

\* -Wl,-section-alignment, -image-base: a multiple of it, as Windows wants
Image(secs, debug, grow, al, base) ==
  [sections |-> secs, do_debug |-> debug, grow |-> grow, section_align |-> al,
   file_align |-> 2, base |-> base, head |-> 3]

AllImages ==
  { Image(<<text, data, bss>> \o more, debug, grow, p[1], p[2]) :
      text \in Texts, data \in Datas, bss \in Zeros, more \in Others,
      debug \in BOOLEAN, grow \in {0, 3}, p \in {<<2, 0>>, <<2, 10>>, <<8, 0>>, <<8, 8>>} }
=============================================================================
