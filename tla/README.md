# A verification project for petcc64 (minimalisti-C)

petcc64 is a C compiler, assembler and linker for 64-bit Windows in one program, derived from TCC. It reads C and
assembly, objects, archives, DLLs and `.def` files, and writes objects, executables and DLLs. It is one sequential
process without threads. What is hard about it is not concurrency but state that lives long and is shared by
passes: tables that are appended to while they are walked, indexes kept across a rewrite of what they index, caches
that outlive what they were computed from, counters that one function resets and another looks at, loops of the
driver that go round with half of their variables carried over, and a code generator of one pass, which must patch what
it has emitted and keep track of where each value is. The modules in this directory are about that.

## Contents

- [Inventory](#inventory): the parts of the system
- [Modules](#modules): which module models what, and how
- [Runs](#runs): what TLC checks, with which bounds and fairness
- [Disagreements](#disagreements-between-code-and-comments): where the code does not do what it says
- [Proofs](#proofs): what holds for all values of the constants, and why
- [Limits](#limits): what is only model-checked and what is not modelled
- [Plan](#plan): what comes next

To check a run: `tlc -config <run>.cfg <module>`; each run is a `.cfg` file and `PROJECT.json` names its module. To
check the proofs: `tlapm ElfSymtab_proofs.tla`, and so the other modules that end in `_proofs`; `ObjectLoad_proofs` takes ten minutes.

## Inventory

| Component | Source | State it keeps | Operations | Hard about it | Correct when | Status |
|---|---|---|---|---|---|---|
| ELF symbol table | `tccelf.c`, `tccgen.c` | array of symbols, hash section, `hash`/`reloc` switch, saved offsets | `put_elf_sym`, `find_elf_sym`, `set_elf_sym`, `rebuild_hash`, `tccelf_begin_file`, `tccelf_end_file`, `put_extern_sym2`, `update_storage` | in-place merge at the end of a file, doubling inside an insertion, indexes in relocations | lookups find every global once; relocations keep their symbol; resolution does not depend on order | partly |
| Relocations of initializers | `tccelf.c` | relocation section | `squeeze_multi_relocs` | hand-written sort and in-place compaction | the last relocation of each place stays, others are untouched | modelled |
| Conditionals and include cache | `tccpp.c`, `libtcc.c` | stack of files, conditional stack, cache of guards, token flags | `preprocess`, `preprocess_skip`, end of file in `next_nomacro1`, `search_cached_include`, `preprocess_start` | flags set in one file and used in another, a cache over files and units | the text is that of a compiler without the cache | modelled |
| Macro expansion | `tccpp.c` | macro stack, nested list | `next`, `macro_subst`, `macro_subst_tok`, `next_argstream`, `macro_arg_subst`, `macro_twosharps`, `paste_tokens` | recursion, tokens read ahead from several levels that are closed on the way | the replacement C defines; no level is left behind | partly |
| Define stack | `tccpp.c`, `libtcc.c` | definitions, the one in force of each name, boundary marks | `define_push`, `define_undef`, `free_defines`, `push_macro`, `pop_macro`, `-D`, `-U` | marks in a stack that also shrinks; what one file leaves to the next | a name means what options and directives say | modelled |
| Jump chains, code suppression | `tccgen.c`, `x86_64-gen.c` | chains through the code, `nocode_wanted`, `rsym`, labels, cases | `block`, `gvtst`, `gtst`, `gsym`, `gjmp`, `gcase`, `&&`, `\|\|`, `!`, `?:` | links stored in the code, suppression saved and put back around statements | the code does what the statements say; each jump lands | partly |
| Value stack, registers | `tccgen.c`, `x86_64-gen.c` | `vstack`, registers in use, `loc` | `vsetc`, `vswap`, `gv`, `gv2`, `get_reg`, `save_reg`, `gen_op`, `gen_cast`, `vstore`, calls | flags and jumps as values, three registers, delayed conversions | the code computes, stores and passes what the expression means | partly |
| x86_64 code generator | `x86_64-gen.c` | code section | `load`, `store`, `gen_opi`, `gfunc_call` | fixed registers of shifts, divisions and calls | the same | partly |
| Object and archive loading | `tccelf.c` | section merge table, map of symbols | `tcc_load_object_file`, `tcc_load_archive`, `tcc_load_alacarte` | link-once sections, repetition until nothing is bound | every reference follows its symbol, loading ends | partly |
| PE import binding | `tccpe.c` | exports of DLLs, undefined symbols, import lists, thunks | `pe_putimport`, `pe_find_import`, `pe_add_import`, `pe_check_symbols`, `pe_build_imports`, `relocate_syms` | names by decoration, aliases, a loop that grows its table | a reference that links reaches its export | partly |
| Driver | `tcc.c`, `libtcc.c` | files left, test number, result, `nb_errors` | `main`, `tcc_add_file_internal`, `tcc_compile`, `tcc_output_file`, `error1` | loops back to `redo`, a count reset in three places | success means everything was written, failure that nothing wrong was | partly |
| Identifier and scope stacks | `tccgen.c`, `tccasm.c` | global and local stack, a chain through both for each name, `local_scope` | `sym_push`, `sym_pop`, `global_identifier_push`, `external_sym`, `external_global_sym`, assembler labels; blocks, `for`, statement expressions, functions, files | global symbols made in the middle of local ones; symbols popped from their chain but not from the stack | a name means its innermost declaration; no symbol is used after it was given back | partly |
| Struct layout | `tccgen.c` | offset and bit position, run of bit-fields, alignment so far | `struct_layout` | bit-fields in two conventions, with packing and three sources of alignment | fields are apart and in the struct, where GCC puts them, and bit-fields can be accessed there | partly |
| PE layout | `tccpe.c` | sections of the image, addresses, `.reloc`, section headers | `pe_assign_addresses`, `pe_build_reloc`, `pe_write` | sections that grow, are merged or left out while addresses are given; blocks of unordered relocations | sections are apart in memory and in the file; the loader finds each absolute address once | partly |
| Tokenizer, token strings | `tccpp.c` | buffers, identifiers | `next_nomacro1`, `tok_str_add2` | buffer boundaries | tokens survive being stored | not modelled |
| Parser, types, initializers | `tccgen.c` | types | declarations, initializers | volume | C semantics | not modelled |
| Assembler | `tccasm.c`, `i386-asm.c` | labels, sections | directives, instructions | forward and redefined symbols | a label is where it was defined last | not modelled |
| ELF output, exports, unwind data | `tccelf.c`, `tccpe.c` | symbols in order of output | `sort_syms`, `pe_build_exports`, writing | renumbering | what is at an address is what relocations say | not modelled |
| Memory, options, tools, debug records, runtime, headers | `libtcc.c`, `tcctools.c`, `lib/`, `include/` | | | | | not modelled |

How they interact. `main` makes a `TCCState` and adds files. A C or assembly file is compiled by `tcc_compile`:
the preprocessor feeds the parser, the parser pushes values and emits code as it reads, and appends to sections, symbols
(`put_extern_sym2`) and relocations (`greloca`); `tccelf_end_file` merges the symbols of the file with those of earlier
ones. Objects and archives go straight to `set_elf_sym`. DLLs and `.def` files only fill the table of exports
(`pe_putimport`), which is another instance of the same hashed table. `tcc_output_file` then binds undefined symbols to
exports, relocates and writes. Errors end the compilation of a file by `longjmp`, end the program when no file is being
compiled, or are only counted in `nb_errors`.

## Modules

One module per component; an MC module or a module of inputs beside it where it needs one. Four MC modules put parts
together that TLC explores in one run: `MC_Preprocess` (Include, MacroExpansion, Defines), `MC_Compile` (SymStack,
StructLayout, CodeFlow, Operands with Expressions, RelocSqueeze), `MC_Link` (ObjectLoad, PEImport, PELayout, Driver) and
`MC_Merge` (two scenes of ElfSymtab). They are sums, not compositions: the parts do not interact, a behaviour is about one
of them (`part`), and the variables of the others have an idle value. A property of a part is stated as `part = "..." => ...`
under a name of its own. Only the properties of Defines and Driver keep their own names: `Preprocess` and `Link` extend
these two modules, and the idle values make their properties true in the other parts. `Link` is the whole sum, `MC_Link` gives
it inputs; `Compile` and `Preprocess` are the halves of `MC_Compile` and `MC_Preprocess` that have no recursive operator:
the scopes, the relocations and the fields, the includes and the macros. So theorems can be about the very properties that the runs check.

### ElfSymtab, SymbolTable

`ElfSymtab` is the symbol section of `tccelf.c`. The array is `data` with `nsyms` entries in use; what was written
above `nsyms` stays there, as in the program, because `tccelf_end_file` rewinds `data_offset` and reads on above
it. `bucket`, `chain`, `slots` and `nbuckets` are the words of the hash section. A symbol is a record of name,
binding, section, visibility, `ST_ASM_SET`, and one payload for value, size and type.

The loops are states of `pc`, so that what a loop relies on can be stated in its middle:

| pc | the program is |
|---|---|
| `idle` | outside the table, not compiling |
| `find` | in the loop of `find_elf_sym`, called by `set_elf_sym` (`FindNext`, `FindMiss`, `FindHit`) |
| `put` | in `put_elf_sym` called by `set_elf_sym` (`Put`) |
| `rebuild` | in the loop of `rebuild_hash` (`RebuildStep`, `RebuildDone`) |
| `file` | compiling: hashing is off (`Emit`, `Patch`, `AddReloc`) |
| `merge` | at the head of the loop of `tccelf_end_file` (`MergeStep`, `MergeDone`) |

`ret` says who called `set_elf_sym`. `Resolve`, `Overrides`, `Clash` and `DefinedTwice` are its case distinction.
`src`, `given` and the `want` of a relocation are history: the array as `tccelf_end_file` found it, the symbols
handed in for each name, and the name a relocation was made for. `EndFile` may happen in any state of a file: a
compilation that was given up is merged the same way. The string table is left out, a name stands for the string
`st_name` points to: `tccelf_end_file` rewinds the strings as well, and reads each before the copy of it is written.

`SymbolTable` is what the linker relies on: a map from names to at most one symbol, changed by resolving a symbol
against the one of its name. `MC_ElfSymtab` maps the table to it (`Table`) and checks that every step of the table
is one such resolution or none at all (`ImplementsSymbolTable`). `Callable`
are the symbols that can reach `set_elf_sym`: those handed in, and what declarations in a file can add up to, since a later one
replaces the earlier but may leave its visibility and its `.set` mark. `NoEntryAssumption` says only that the mark for a name without entry
is no symbol.

### RelocSqueeze

`squeeze_multi_relocs`, a turn of a loop per step, called for the relocations from `old + 1` on. Relocations carry
a number, so that "the last of them" means something.

### Include, IncludeRef

A file is a sequence of lines and a step reads one line, or the end of a file. `stack` is the include stack with
`file->filename` (`name`), `ifdef_stack_ptr` (`base`), `ifndef_macro` (`guard`) and `ifndef_macro_saved` (`saved`);
`ifs` the conditional stack with the code's numbers 0 to 3; `bof` and `endif` the two token flags; `depth` the
counter of `preprocess_skip`. `#ifdef` and `#elif` stand for all conditions, on single macros. The read buffer shows
only in one place: `p == file->buffer` after an include, which a line marked `edge` makes true, as when the buffer
was refilled right after it. Where included files are searched is left out: a name is a file. `HeaderTexts` has the headers and
units that are read.

`IncludeRef` is what the preprocessor should do: a recursive reading of a text without stacks, flags or cache.

### MacroExpansion, MacroRef, MacroTexts

The functions of macro substitution call each other on token strings, so they are operators on a state `m`: the token
strings being read (`levels`, the macro stack), what is left of the file, the nested list of macros being replaced, the
token last read. A step is a call of `next`. `ReadArg`, the heart of it, is `next_argstream`: it looks for the `(` of a
function macro beyond the end of nested token strings, closes those it leaves, and takes their macros from the nested list
(`LeaveScope`, `Unwind`). Stringizing, `__LINE__` and white space are left out; `Paste` says which
tokens can be joined, `OneInt` which have no value behind them in a token string.

`MacroRef` is the algorithm of the C standard with sets of names that are not replaced again. Where the standard leaves open
whether a nested use that ends outside its macro is replaced, it follows the comments of `next_argstream`.
`MacroTexts` has the bodies and uses: pairs of macros f and g with bodies up to five tokens, with joins and with
variable arguments, one of them without parameters or with a rest if the other does not relay an argument (`Relaying`); `Relays` has the
three pairs of disagreements 6 and 14.

### Defines

`define_stack` with the boundary marks of `push_macro`, `sym_define` as a place in the stack, `define_start` of
`free_defines`. `meant`, `kept` and `options` are history: what a name should mean, the meanings pushed, and those of the command
line. `unclear` collects names for which the stack cannot know what is meant; see [Limits](#limits).

### CodeBuffer, CodeFlow, CodeFlowRef, MC_CodeFlow

The compiler makes one pass, so each of its functions is an operator from the state `c` it finds to the state it leaves.
`CodeBuffer` is the code section with the chains of jumps in it: `Oad` emits a jump whose target field is the link of a
chain, `GsymAddr` walks the chain and patches it, `Suppressed` is `nocode_wanted`, with its bit 0x20000000 (`dead`) apart
from its count (`mute`). `CodeFlow` has a definition for each branch of `block` and for the conditional operators. Calls
and comparisons are opaque there: each has an id, and is an event.

`CodeFlowRef` reads the same tree as C defines it. `MC_CodeFlow` compiles a function and lets a processor run the code side
by side with that reading, event by event, with every result the events can have. `Fuel` bounds silent steps on both sides.

### Operands, Expressions, OperandsRef, ExpressionTexts, MC_Operands

`Operands` is the value stack: an entry says where a value is (constant, frame, register, flags, a chain of jumps, an
address saved in the frame), of which type, whether it is an lvalue and of which width, and whether a conversion is due
(`must`). `SaveReg`, `GetReg`, `Gv`, `Gv2`, `MoveReg`, `Flushed` follow their C functions, with the three registers the
program gives out. `Expressions` puts `gen_op` with `gen_opic`, `gen_opi`, `gen_cast`, `vstore`, `inc`, `gvtst`, the operators
and calls on top. They call each other through `Do`, which stands for the calls of the program and
keeps the recursion in one place.

`MC_Operands` executes the code on registers, flags and a frame, with junk in what nobody has set, in registers after a
call, and above a variable narrower than its cell. `OperandsRef` evaluates the expression as C defines it and
says where C defines nothing. A step is a call, with every value it may return. The widths of char, int and long long are
parameters, 2, 4 and 8 bits in the run, so that carries, signs and truncations all occur.

`ExpressionTexts` builds the functions: every operator on every pair of operands, every pair of values that
are in flags, chains, memory or registers under five operators, and those values in one and two contexts. `Regular` leaves out
expressions whose order of evaluation C leaves open, and the three forms of disagreement 9 and 10 below.

### SymStack

`syms` are the symbols with `prev_tok`, by number, as they are reused once freed; `sym_identifier` begins the chain of each name.
`Push`, `global_identifier_push`, `asm_label_find` and `sym_pop` are the operations; the actions are what calls them: declarations
in a file, a function and a block, calls without declaration, labels of the assembler, and the beginning and end of
functions, blocks, loops and statement expressions. `open` is what the parser is in, with what each construct
has saved. `scopes` is history: which symbol each scope declared for a name. `ReuseKept` allows programs that
make a name of a finished statement expression global while its symbol is still on the stack.

### StructLayout

`struct_layout` with a step per field. `UnionField`, `PlainField`, `PccField` and `MsField` are the branches of its loop,
`AlignOf` and `Packed` its rules for alignment, attributes and `#pragma pack`; `EndStruct` is what follows the loop and
`ChooseAccess` the second loop, which looks for a type to access each bit-field by. `LooseZero` allows, in MSVC layout, a width
of zero after a field that is no bit-field of its type. The loop of `ChooseAccess` that widens the type until it fits is four turns
(`Container`), as types have four sizes. The reference is the rule of GCC, counted in bits from the end of the field
before (`GccFirst`), and for MSVC that the unit of a bit-field is in the struct and before the next field.

### ObjectLoad, ObjectFiles

`tcc_load_object_file` is a step for each turn of its loops, which are three values of `pc`:

| pc | a turn of the loop |
|---|---|
| `place` | takes a section over: `Ignore`, `SkipOnce`, `WrongType`, `AddSection` and `JoinSection` are its outcomes (`Place`); then the short pass that sets `sh_info` (`LinkInfo`) |
| `symbols` | enters a symbol by what `set_elf_sym` answers (`AddPlain`, `AddMoved`), uses the one that is there (`UseDefined`) or leaves it out (`NotAdded`) |
| `patch` | moves the relocations of a section (`Patch`), then the function returns (`Return`) |

`turn` is the loop variable `i`; `sm_table` and `old_to_new_syms` are the tables of these names, by which the loops hand on what they
did. `once` is `sm->link_once`, which the third loop reads where the second has left `sm`. A failure (`failed`) leaves what was taken over.
`ScanIndex` and `ScanAgain` are the loop of `tcc_load_alacarte`, `LoadMember` an archive taken as a whole. `parts` and `loads` are
history: where each piece of a section came from.

What is taken for granted of the files is in `Assumptions`. `WellFormed`: numbers of sections are in range, and global symbols are defined in
sections the loader handles. `RelocationsFit`: a relocation is for a place inside a section with contents; the section it is in has a name of
its own, and no relocation is there twice. `RelasNamed`: relocation sections of one name are for sections of one name. `OnceAlike`: a
link-once section defines the same names wherever it occurs. `IndexTrue`: the index of an archive lists what members define. Compilers and
`ar` write such files. An index that lists a name its member does not define would keep `tcc_load_alacarte` loading that member for
ever (`tccelf.c:2430`); `IndexTrue` leaves it out. `ObjectFiles` has objects in several layouts, and archives whose members need each
other, define what others define, or are listed twice; with an index, without one (`indexed`), and with an empty one, which loads nothing.

### PEImport

Loading (`Putimport`, `Refer`) fills the table of exports and the undefined symbols in any order; then
`pe_check_symbols` is a step per symbol: `NewThunk`, `SharedThunk`, `Pointer` and `NotFound` are its four outcomes.
`BuildImports` and `RelocateSyms` are the passes that follow. A name is a sequence of the pieces `pe_find_import`
takes apart (underscores, `imp`, `@`). `rels` holds the relocations the objects brought; the one in each thunk is its
entry in `thunks`. `ImportNames` has the names: plain, with `imp`, with and without decoration, called and not.

### PELayout, SectionLists

`pe_assign_addresses` is a step per section, in the order of `section_order`, which is by class and then by number
(`Before`; `todo` has the sections to come): `AppendBss`, `SkipStab`, `Place` and, for
`.reloc` itself, `PlaceReloc`, which calls `pe_build_reloc`. That function has one loop with three exits, which are
`SkipRelative`, `TakeRel`, `StoreBlock`, `NextSection` and `EndReloc`; `reloc` holds the words it writes, the block headers
included. `WriteHeader` is a turn of the loop of `pe_write`. `ReadBlock` is not in the program: the loader of Windows goes
from block to block by their sizes, and `fixups` has what it finds. Imports and exports are a number of bytes that the first section for data grows by. Addresses
are small: a page has `Span` of them. `SectionLists` has images with each class of section, empty or not, with relocations
in and out of order, a section alignment above and below the page, and an image base on and off a page.

### Driver

`pc` is the place in `main`: `new` at `redo`, `add` in the loop over the files, `output` after it. What a file does
when it is added, and what comes of linking, is chosen by the environment: `errs` fails, `complains` only counts an
error. `written`, `ran` and `dirty` are history.

`MC_Link` has the command lines and the outcomes of linking.

Each module ends with its properties. Some definitions are preceded by a variant marked "mistake": the definition with
a plausible error in it. They are used nowhere; put in place of the definition, TLC finds the property named for them
in `PROJECT.json` violated, which shows that the property looks at that code.

## Runs

| Run | Question | Bounds | States |
|---|---|---|---|
| `ElfSymtab_merge` | Do indexes, relocations and entries survive the in-place merge? Is the table a map? Does the order of symbols of one name matter? | 3 entries, 2 names (one empty), 1 relocation; 4 different symbols of one name of every kind | 1.9 million |
| `ElfSymtab_tables` | Are the chains exact, do calls and merges end? | 5 entries, 5 names in shared and separate buckets, locals between them, 1 relocation | 2.3 million |
| `Preprocess` | Are the text, its expansion and the macros in force those C and the pragmas define? | headers up to 5 lines, 2 units, nesting 3; the pairs of macros of `MacroTexts`; 2 files, stack of 4 definitions | 1.5 million |
| `Compile` | Do names mean what they should, are fields where they should be, does the code do what its source says? Are relocations of initializers kept and reduced? | 5 symbols of 2 names, 3 open constructs; 4 fields of 11 kinds in 8 styles; statements nested three deep; functions of `ExpressionTexts` from 3 frames with 2 answers to each call; 5 new relocations at 4 offsets | 1.7 million |
| `Link` | Are relocations moved along, members loaded, imports bound, is the image sound, and is the outcome reported? | programs of up to 3 inputs; 2 DLLs, 3 undefined symbols; 1344 images of up to 5 sections, with pages of 4; 3 files of 8 kinds, 5 modes | 0.77 million |
| `ElfSymtab_strongref` | Is a strong reference remembered? (no) | 3 references | |
| `Include_guard` | Does a cached guard guard its file after `#line` and empty headers? (no) | two programs | |
| `Macro_relay` | Is an argument that is handed on empty if it was, and only then? (no) | three pairs of macros | |
| `Compile_wrong` | Does suppressed code stay unreached, does a conversion happen, does a global name outlive a statement expression, a helper mean a function, a zero width end a run? (no) | six functions; scopes and fields as in `Compile` | |
| `RelocSqueeze_any` | Are relocations in any order reduced? (no) | 4 new | |
| `PEImport_asm` | Do calls from assembly reach code? (no) | one of each | |
| `ObjectLoad_linkonce` | Are relocations of a skipped section skipped? (no) | two objects | |

Why these bounds. The hash table doubles at the third and at the fifth global, so five entries of five names double it
twice, once from one bucket and once from two, inside one merge or in two. Three entries and two names give each case of
the merge: the entry stays, moves down, joins an earlier one of this file or of the file before. A clash needs two
definitions and is hidden by a third and a fourth in the order in which visibility, tentative and weak definitions
interfere. A guard needs three lines; a fourth and fifth allow text, an `#else`, a nested or second conditional
before or after it. Two macros suffice for mutual recursion, and bodies that end in a name or in `f (` for arguments that
are found beyond them. A pushed macro needs a definition before, one after, and a second push: four entries. A
suppression that is restored wrongly needs a statement in a statement, and a third to be lost. Two nested contexts around a
value that holds up to three registers use up all three. A sort that fails, fails on four elements. A declaration of one name in
a function, a block, a statement expression in it and the file, with one to be kept or lost, takes five symbols. A layout goes wrong
by what the field before left, and shows in the field after; the fourth makes a run before it. A page of four addresses
is left and come back to within a section of seven.
An alias problem needs two names of one export and a third to come before or after.

Fairness. The program is sequential: once a function is called, its next step is taken. `WF_vars(Internal)` in ElfSymtab,
`Squeezing` in MC_Compile, and `Linking`, `Loading` and `Driving` in MC_Link state only that. What other parts of the compiler do,
whether another symbol is set, another file begun or a link started, is never fair. Deadlock checking is off because
every one of these programs ends, and a table at its bound takes no more entries.

### The properties

ElfSymtab (`ElfSymtab_merge`, `ElfSymtab_tables`)

- `ReadsIntact`: while the merge writes over the array it reads, what it has still to read is unchanged.
- `TrKeepsSymbol`, `RelocsKeepName`: old indexes are mapped to entries of the same name, local definitions to
  themselves, and a relocation refers at all times to the name its maker meant, those of earlier files during the merge.
- `EntriesOnlyStrengthen`: no step makes a defined entry undefined, a global definition weak, or visibility looser.
- `ImplementsSymbolTable`: the hashed array refines the map.
- `ChainsExact`, `OnePerName`: each link leads to the next older global of its bucket, and no name has two findable entries.
- `LoopsEnd`: the search, the rebuild and the merge end.
- `OrderFree`, `ClashReported`: a name with a definition is defined by one of those given, by a global one if there was
  one, never by a tentative one if there was data; two different global data definitions are reported.

Preprocessor (`Preprocess`)

- `IncludeAsUncached` (`SameAsUncached`): both units give the text, or the error, of `IncludeRef`.
- `IncludeGuards` (`GuardsSound`): a file whose guard is cached has, with that macro defined, no text, no error and no definitions.
- `IncludedText` (`LiveText`), `IncludeConditionals` (`ConditionalsKept`): text is read under true branches only; a file does not
  close conditionals of others.
- `TextAsMeant`: what the parser gets is the text `MacroRef` gives, or both give an error. Pairs of macros that pass on an empty
  argument, or paste something behind `, ## rest`, are left to `Macro_relay`.
- `StackBalanced`: between two calls of `next` the macro stack holds only what is still being read.
- `MacrosAsMeant`: a name means what the options, the directives and the pragmas so far say.
- `NoDangling`: no name and no mark refers to a definition that was freed.

Code generator (`Compile`)

- `FlowAsMeant` (`SameEvent`): the code makes the same calls and comparisons in the same order as the function, and returns when it
  does, for every outcome of them.
- `FlowLands` (`JumpsLand`): every emitted jump has a target in the code; no chain is forgotten or patched twice.
- `ValuesHold` (`ValuesAsMeant`): a function returns what its expression means, makes its calls with the arguments they
  mean, and leaves the variables as it means, and what lies beside them alone.
- `NamesAsMeant` (`ScopesAsMeant`): the chain of a name holds its declarations in the scopes around, the innermost first, whatever
  blocks, loops, statement expressions, labels and undeclared calls came before; no correct declaration is refused.
- `SymbolsLive`: as long as a chain leads to a symbol, or a value of a statement expression may, it is on a stack, once.
- `FieldsSound` (`LayoutSound`): fields are apart and within the struct; each is where GCC puts it, or its unit is whole in MSVC
  layout; the type that accesses a bit-field holds all of it and ends within the struct.
- `SqueezeKeepsPlaces` (`PlacesKept`), `SqueezeReduces` (`ReducesMostlyOrdered`), `SqueezeStops` (`SqueezeEnds`): no place loses its
  relocation; sorted, one per place, the last one, if each was put after at most one that belongs behind it; the loops end.

Linker and driver (`Link`)

- `RelocsFollow`: each relocation of each object is there once, at the place its section went to, and refers to the symbol it meant.
- `MembersAsNeeded`: an index gives the members that define something undefined (`MembersNeeded`), and all of them (`ArchiveExhausted`).
- `ImageSound`: sections are aligned and apart, in memory and in the file, and hold all contents (`Placed`); a loader that reads
  `.reloc` finds every absolute address in the image once, and nothing else (`Relocatable`).
- `ImportsReach` (`RefsReachExport`): follow the binding from symbol to thunk, helper, slot and export, and compare with the lookup.
- `ImportsFailRightly` (`OnlyMissingFail`): each symbol an error names is one of the program without export, or competes with an alias
  for the one `iat_index` of its export. Aliases of functions do not compete.
- `ImportSlots` (`SlotsOwned`), `ImportOwner` (`ExportOwner`): each slot has one symbol to bind and each export one slot; which of
  several DLLs that list a name provides it.
- `SuccessIsComplete`, `FailureIsLast`: what has been written when `main` returns 0 or 1.
- `CleanImages`: no executable is written after an error that the current count still knows of.
- `TestsInOrder`: `-dt` runs each test once, in order, all unless a file failed.
- `LinkingEnds`: the loop over undefined symbols ends although it appends to its table (`LinkEnds`), the repeated search of an
  archive ends (`LoadEnds`), and `main` returns (`Returns`).

## Disagreements between code and comments

Seven runs end in a violation; each states what a comment says and shows that the code does otherwise. `PROJECT.json`
quotes the comments.

1. `Include_guard`: `#line` with a name moves a header's guard to another file (`tccpp.c:2603`, comment at 1837).
2. `Include_guard`: "beginning of file" outlives an included file without tokens, and comes back with a refilled buffer, so
   a `#ifndef` in the middle of a file is taken for its guard (`tccpp.c:2616`, comment at 1927).
3. `RelocSqueeze_any`: the sort exchanges with the wrong element (`tccelf.c:602`, comment at 581).
4. `ElfSymtab_strongref`: a weak reference after a strong one makes the missing definition acceptable (`tccelf.c:528`,
   comment at 767).
5. `PEImport_asm`: `pe_isafunc` compares relocations in the 32-bit layout and never finds one (`tccpe.c:1122`, comment at
   1156).
6. `Macro_relay`: the marker of an empty argument survives being handed on and counts as a token (`tccpp.c:3054`, comments there
   and at 3354): one pair of macros keeps the comma before `## rest`, one ends in "too many args".
7. `ObjectLoad_linkonce`: the relocations of a link-once section that is skipped are appended all the same (`tccelf.c:2341`,
   comment at 2296).
8. `Compile_wrong`: a `continue` before the condition of a `do`, a label inside an `if` that is not reached, and an `else` after
   a false condition leave code suppressed that runs (`tccgen.c:5347`).
9. `Compile_wrong`: `(long long)(unsigned)(l + 1)` returns all bits of `l + 1` (`tccgen.c:2023`, comments at 1886 and 2021).
10. `Compile_wrong`: the conversion that an assignment to a char owes is forgotten by `(c = i + j) ? 1 : 2` and by
    `f(c = i + j)` without prototype (`tccgen.c:1271`, comment at `tcc.h:697`).
11. `Compile_wrong`: a symbol of a statement expression is popped twice; a name that became a global function in between is
    unknown after the second (`tccgen.c:5243`, comment at 538).
12. `Compile_wrong`: a variable called `memset` or `memmove` takes the place of the function that the code generator calls
    (`tccgen.c:781`, comment at 893).
13. `Compile_wrong`: in MSVC layout, a bit-field of the type of a zero width before it is placed at a stale offset, over another field or
    beyond the struct (`tccgen.c:2939`, comment at 2944).
14. `Macro_relay`: behind `, ## rest` the marker is also put if the rest expands to one token that takes one int, as the length is
    compared with what it was before `##` was taken away; handed on, the rest is not pasted to what follows (`tccpp.c:3089`,
    comment there). The third pair of macros shows it; each of the three alone breaks the property.

Read in the code while modelling, and kept out of the runs because no comment says otherwise:

- A name given with `-D` and then taken back with `-U` is defined again after the first file: `free_defines` puts back what is
  still on the stack (`tccpp.c:1343-1353`).
- `push_macro` of a built-in macro undefines it. `push_macro` twice without a definition in between keeps one meaning. A mark left
  on a definition of the command line is still there in the next file (`tccpp.c:1604-1633`).
- Cases of a `switch` are sorted as signed 64-bit numbers and compared at the type of the value: `case -1` for an unsigned int comes first
  in the table and compares last (`tccgen.c:5064`, `5079`, `5374`). Case constants in the run are in the range of the value.
- `extern int x;` in a block takes a variable x of a block around for the one it declares. The type of a prototype in a block, for a
  function called before without one, is given back with the block while the global symbol keeps it (`tccgen.c:871`). An enumerator declared
  in the body of an `if` without braces stays in the block around.
- After an error in a function, global symbols are popped before local ones and `local_scope` stays as it was. That matters only to
  a user of the library who compiles again.
- A weak function that no DLL has is bound to 0, but a pointer initialized with it gets a base relocation as any other: it is not null in an
  image that was moved (`tccpe.c:935`).
- An image base that is no multiple of the section alignment gives sections whose RVA is not aligned: addresses are rounded,
  not offsets (`tccpe.c:1063`).

## Proofs

Eight modules, theorems of the form `Spec => []P`, one about steps and one refinement. Each rests on an inductive invariant, with a lemma per
action that the step keeps it. The hypotheses are the `Assumptions` of the modules, which TLC evaluates in the runs, and four
others on a constant that are named where they come in: `~ ReuseKept`, `~ LooseZero`, `TextSize # 0` and `OnceIsApart`.

### ElfSymtab_proofs

For any sets of names and attributes, any hash function, any bounds and any number of files:

| Theorem | States |
|---|---|
| `TypeCorrect` | `Spec => []TypeOK` |
| `ChainsAlwaysExact` | `Spec => []ChainsExact` |
| `NamesUnique` | `Spec => []OnePerName` |
| `ReadsAlwaysIntact` | `Spec => []ReadsIntact` |
| `RelocsAlwaysKeepName` | `Spec => []RelocsKeepName` |
| `TrAlwaysKeepsSymbol` | `Spec => []TrKeepsSymbol` |
| `EntriesStrengthen` | `Spec => EntriesOnlyStrengthen` |

The assumptions are those on the constants in `ElfSymtab`: the empty string is a name, zero a payload, the attributes
have the right form, the hash is a function from names to numbers, and bounds are numbers. TLC evaluates them in each run.

The argument. None of the six is inductive alone, so they share one invariant, `IInv`:

- `ControlInv`, `SlotsInv`: the merge waits only while `set_elf_sym` runs, and there are as many chain slots as entries
  that lookups may see (`Top`: all, or those before the file in compilation). Without this, chain slots and entries drift apart and
  links name the wrong entries.
- `CallInv`: in the search, no entry above `cur` has the name looked for; at a miss, no entry has. From this, `OnePerName`
  survives an insertion. It needs `ChainsExact` to step from `cur` to `chain[cur]`: everything between is in another bucket, and an
  entry in another bucket has another name because the hash is a function.
- `ChainsExact` is stated with `Linked`, the entries linked so far, so that it holds in the middle of a rebuild.
- `MergeInv`: the write position stays below the read position. A call appends at most one entry, and the loop reads one
  before each call. That is `ReadsIntact`.
- `TrInv`: what was put into `tr` stays true, because entries that are visible never change their name, and a local entry
  is never found again.
- `RelocInv`: which entries a relocation may refer to, by when it was made: earlier files' to earlier entries, which the merge
  does not move, and this file's to entries as `tccelf_end_file` found them, which `tr` maps.

`NextIInv` has a lemma per action (`SetStep`, `EmitStep`, `PutStep`, ...), and each lemma a step per part of `IInv`. `KeepLink`,
`SkipEntry`, `NewHead` and `LinkIn` say how `Precedes`, the relation between a link and what it leads to, behaves when entries are
appended; they carry `Put` and `RebuildStep`. `ResolveKeeps` is what the proof needs of the resolution: a symbol of
the same name, global if both were.

`EntriesStrengthen` is about steps. `StepStrengthens` shows that every write but that of `FindHit` goes to an entry lookups do not
see yet, which is what `MergeInv` says of the merge loop's write position; for `FindHit`, `ResolveStrengthens` compares the two
entries, and `MergeVisTightens` says that `set_elf_sym`'s choice by number is also the more constraining visibility.

### ElfSymtab_proofs: resolution

For any symbols that may be handed to `set_elf_sym`, in any number and order:

| Theorem | States |
|---|---|
| `OrderNeverMatters` | `Spec => []OrderFree` |
| `ClashAlwaysReported` | `Spec => []ClashReported` |
| `TableImplementsMap` | `Spec => ImplementsSymbolTable` |

The first two say what a sequence of resolutions ends in. `Resolves(e, G, reported)` says what one can still know of the entry
`e` when the set `G` of symbols was given for a name and the order is forgotten. It is strong enough to be kept by one more
symbol (`ResolvesNext`, a case for each of the four outcomes of `set_elf_sym`), which the properties themselves are not: that a
clash is reported needs that, without a report, every strong definition so far has the payload of the entry, and this in turn that no
tentative definition has taken its place. `ResolutionInv` says it of each name, without the call in progress. That a step changes one
entry, or none, is the work of `IInv`: `OnePerName` makes "the entry of a name" a function, `MergeInv` and `TrInv` keep it the same
while the merge moves it.

For the refinement, `StepRefines` shows that `Put` enters a symbol for a name that has none (`PutAdds`), that `FindHit` is one
resolution (`FindHitCombines`), and that no other step changes what a lookup would find (`TableUnchanged`): neither rebuilding nor the
merge, nor the compilation of a file, whose symbols lookups see only after the merge. `SymsInv` says that only symbols that may be
handed in are ever resolved.

### Preprocess_proofs: macros

For any names, bodies, built-ins and bounds (`Assumptions` of Defines, which `Preprocess` makes TLC evaluate):

| Theorem | States |
|---|---|
| `NeverDangling` | `Spec => []NoDangling` |
| `MacrosAlwaysAsMeant` | `Spec => []MacrosAsMeant` |

`MacrosAsMeant` compares the stack with what the directives say, kept in histories; by itself it says nothing of what `#undef`,
`pop_macro` and `free_defines` will find later. Three parts do, each for a name that is not `unclear`:

- `OptionOf`: below `define_start` the newest entry of a name has what the options say, and only it may be in force or marked.
  So `free_defines`, which puts back the newest entry left of each name that has no definition, ends with the options' meaning.
- `MarksOf`: there is a sequence of rising places, all the marked entries of the name, that have what `push_macro` kept, and nothing in
  force is older than a mark. So `pop_macro`, which looks for a mark downwards from the top, finds the meaning kept last.
- `BodyInv`: an entry without a body that is in force belongs to a built-in.

`OtherName` says that all of this is about one name: an entry of another name put on the stack, marked or freed leaves it as it
was. `NewestExists`, from the well-founded order of numbers, gives the newest entry of a name.

### Preprocess_proofs: includes and conditionals

For any programs, that is, any files of well-formed lines, and any sizes of the stacks (`Assumptions` of Include):

| Theorem | States |
|---|---|
| `TextAlwaysLive` | `I!Spec => []IncludedText` |
| `ConditionalsAlwaysKept` | `I!Spec => []IncludeConditionals` |

`preprocess_skip` reads lines without obeying them and counts the conditionals it passes in `depth` only; whether text is live
depends on the whole of `ifs`, which all open files share.

- `BasesInv`: each file on the include stack has its conditionals above its base (`ifdef_stack_ptr` when it was opened); the
  bases rise with the stack and none is above the top. So a file that ends or closes what it opened leaves those around it alone.
- `BranchInv`: while text is read every branch on `ifs` is true; while lines are skipped all are but the innermost, whose
  `#else`, `#elif` or `#endif` is the only thing that ends the skipping. The step to show is that `#elif` after a true branch
  and an unmatched `#else` do not leave it behind.

### Driver_proofs

For any files, libraries, modes and any outcome of compiling and linking (`Assumptions` of Driver, evaluated in `Link`):

| Theorem | States |
|---|---|
| `SuccessAlwaysComplete` | `Spec => []SuccessIsComplete` |
| `FailureAlwaysLast` | `Spec => []FailureIsLast` |
| `ImagesAlwaysClean` | `Spec => []CleanImages` |
| `TestsAlwaysInOrder` | `Spec => []TestsInOrder` |

`main` keeps one count, `n`, over the rounds of `-c`, and reads it backwards. `AddedInv` and `WrittenInv` say what the `TCCState` and
the disk hold, at each `pc`, as prefixes of the list of files that `n` determines; `RoundInv` says which modes come back for another
round; `ErrorInv` that, for an executable, an error since the last C file is still counted.

With `-dt`, `main` starts over for every test and finds its place by counting down over the files. `TestInv` says that as many tests have
been run as `t` says, and that `run_test` is `t` less the tests of the files before the one in work (`TestsTo`, a recursive
function). So the round in which none is left is the one after all. The sum is defined by recursion over the files; that it
is the one the recursion means, and grows, is shown from the least file for which it would not (`Least`, from the well-founded order of numbers).

### SymStack_proofs, Compile_proofs: identifiers and scopes

For any names, any number of symbols and any nesting, if `~ ReuseKept`:

| Theorem | States |
|---|---|
| `SymStack_proofs!ScopesInvariant` | `Spec => []IInv` |
| `Compile_proofs!NamesAlwaysAsMeant` | `I!Spec => []NamesAsMeant` |
| `Compile_proofs!SymbolsAlwaysLive` | `I!Spec => []SymbolsLive` |

`ReuseKept` allows one kind of program: one that makes a name of a finished statement expression global while its symbol is still on the
stack. `Compile_wrong` shows what becomes of it (disagreement 11), so the theorems are false without the hypothesis. It
is a restriction of programs, not of what the compiler does with them.

`ScopesAsMeant` speaks of chains; `sym_pop` reads `prev_tok` of symbols it takes off a stack, in an order in which the last one
written wins. The invariant has to say what it will find there, for every construct that is open:

- `MeantInv` is the property, as a relation (`Inner`) between a symbol and the scopes around instead of a maximum.
- `PopInv`: for each open construct and each name, either nothing above its base has the name, and it is not declared in it; or the
  lowest symbol of the name above the base leads to the declaration further out. That is what `Unlink` takes. It has to hold for
  all constructs at once: a global symbol made in the innermost block becomes what the symbols below it lead to in all of them, and the
  symbols a statement expression has left on the stack, no longer in any chain, are met again by the constructs around it.
- `LevelInv`: scopes have different numbers, so `sym_scope` tells declarations of different scopes apart; that is why no correct
  declaration is refused, and why `global_identifier_push` stops at the end of the local symbols.
- `WhereInv`, `StackInv`, `OpenInv`: a declaration is on the part of the stack that belongs to its scope, once; so closing
  one construct leaves what the others lead to on a stack. `ValsInv` says the same of the symbols that values may refer to.

`ChainOut` and `ChainEnds` show that a chain goes outward scope by scope and ends: were it longer than the symbols there are, it would
pass one twice. `LocalAdded`, `GlobalAdded`, `Entered` and `Closed` are the four things that happen to stacks and scopes; each action is
one of them. `Compile_proofs` only transfers the results to the instance `I` of `Compile`.

### Compile_proofs: relocations of initializers

For any number of relocations, of any offsets, behind those of any earlier objects:

| Theorem | States |
|---|---|
| `NoPlaceIsLost` | `S!Spec => []SqueezeKeepsPlaces` |
| `MostlyOrderedIsReduced` | `S!Spec => []SqueezeReduces` |

`KeepInv`: the sort keeps the set of relocations, as it only exchanges two of the object's; the loop that follows writes below what
it has still to read, and the places of what it has kept, with those to come, are all the places there were.

`ReduceInv` holds when each relocation was put after at most one that belongs behind it. `Sorted` says of the part before `a` that it is
in order; `Inserting` that the exchanges of one insertion, which go wrong in general (disagreement 3), go at most one place far
here, so they put in order what they touch. `OneBehind` turns the counting of `MostlyInOrder` into that. `Squeezing` says
that of each place the last relocation wins.

### Compile_proofs: fields of a struct

For fields of any kinds, in any number and order, in any style, if `~ LooseZero`:

| Theorem | States |
|---|---|
| `FieldsAlwaysSound` | `F!Spec => []FieldsSound` |

The assumptions say that a bit-field is not wider than its type, which `struct_decl` refuses; alignments and packs are any
numbers; the program has powers of two, for which `& -align` is `UpTo`. `LooseZero` allows, in MSVC layout, a zero width behind what is no bit-field of its type. `Compile_wrong` shows the
overlap that follows (disagreement 13). The hypothesis restricts `MsField` only: in GCC's layout a zero width may stand anywhere.

`struct_layout` keeps the place it has reached in three variables that mean different things in the two layouts and after each kind of
field. `LoopInv` says what they mean: in GCC's layout bits are counted from `c`; in MSVC's from `offset`, the start of the
unit of the last bit-field, and `c` is the end of that unit; after any other field from `c`, and there are none. `Reach` is the
first free bit by that account. Then:

- `PlacesInv`, `OrderInv`: every field ends before `Reach`, and before the next field of a struct starts.
- `GccInv`: in GCC's layout `Reach` is the end of the field before, so that a field is placed by what GCC places it by. The test in the
  program counts bits from the alignment on; GCC compares the units of the first and the last bit. `UnitIs` and `NewIs` show that
  these are one condition, for types of 1, 2, 4 and 8 bytes, where the field is not packed. `UpToBits` and `DownToBits` say that
  bytes aligned are bits aligned.
- `UnitInv`: in MSVC's layout the unit of a bit-field holds it and ends by `c`, thus before what comes after. A zero width has to
  follow a bit-field of its type for it: otherwise it sets `prevbt` and leaves `c` and `offset` as they were.
- `SizedInv`: the size covers `Reach` and the last unit.

`AccessedIs` is the second loop: whichever type it finds holds the bit-field and ends in the struct, and if it finds none the bit-field is
accessed by bytes. In MSVC's layout it never has to look, which `RunsWhole` needs to hold after it.

### PEImport_proofs, Link_proofs

For any DLLs, names with any decoration, references and bounds:

| Theorem | States |
|---|---|
| `PEImport_proofs!ImportInvariant` | `Spec => []IInv` |
| `Link_proofs!ReferencesReachExports` | `PartSpec => []ImportsReach` |
| `Link_proofs!EachSlotOwned` | `PartSpec => []ImportSlots` |
| `Link_proofs!NamesHaveTheirOwner` | `PartSpec => []ImportOwner` |
| `Link_proofs!OnlyTheMissingFail` | `PartSpec => []ImportsFailRightly`, if `TextSize # 0` |

and for any sections, in any number, of any sizes and alignments, with relocations in any order:

| Theorem | States |
|---|---|
| `Link_proofs!ImageAlwaysSound` | `PartSpec => []ImageSound` |

`pe_check_symbols` walks a table and appends to it, keeps an `iat_index` for each export and a thunk for some, and later passes
find their way back by these numbers alone. The invariant says what they stand for at each `pc`:

- `OwnerInv`: one export per name, listed by the DLL that `ExportOwner` says; after loading it does not change, so neither does
  what `FindImport` answers.
- `ImportsInv`, `SlotInv`: an export has an `iat_index` exactly if it is in one import list, once; different exports have different
  ones; and one that is a symbol of the program, not a helper, was visited and finds that export.
- `ThunkInv`: the helpers are the symbols behind those of the program, one for each thunk, in the order of the code behind `.text`.
- `VisitedInv`: each symbol visited found nothing and is weak or failed; or is a function at the thunk whose helper stands for its export; or
  is data and the owner of its slot, unless that is contested. `UnboundInv` and `BuiltInv` say which symbols have an address before and
  after `pe_build_imports`.

`thk` is the offset of a thunk in `.text`, and 0 means that there is none. If `.text` is empty, the first thunk is at 0, a second
alias of its export gets a thunk of its own and takes the `iat_index` away from the helper of the first, which then stays unbound:
`OnlyTheMissingFail` needs `TextSize # 0`. The other theorems do not.

`Link_proofs` transfers this to the sum that `Link` is: while another part runs, the import part has its idle value.

Of the image (`Assumptions` of PELayout): the base is a multiple of the section alignment, relocations are inside their
sections, no object brings a `.reloc` of its own, and no place has two relocations to absolute addresses. The last is
what `MostlyOrderedIsReduced` shows of initializers; two at one place would get two base relocations.

- `ImgTypes`: `.reloc` is the last section of all, by its class, so it is empty and alone in `todo` when `pe_build_reloc` reads the
  addresses of the others: none of them can change any more (`RelocLast`).
- `AddrInv`: what is in the image is aligned, ends by `addr` and before what was placed after it; a section that is still to come is not
  in it. `AppendBss` makes the last entry longer, and `addr` with it. `CoverInv`: each section with contents is in an entry, which is its own
  unless it is `.bss` behind `.data`. From these and `HeadInv`, the same of the headers and the file, follows `Placed` (`PlacedHolds`).
- `RelocInv`: `Chain` says that the words of `.reloc` up to the block in work are blocks the loader can walk, an even number of words each,
  and that the words marked in them, and no others, stand for the places `W`; `Open` the same of the block in work, whose header is still
  zero. `Targets`: `W` leads one to one to the absolute addresses that were passed (`Done`), which at the end are all.
- `StoreBlock` leaves `rel` where it is, so the address that did not fit is still to come. `InPage` shows that the difference to
  the page, cut to the bits a word has, loses nothing for an address that `InBlock` lets through.
- `Read`: the loader has found the words of the blocks it has passed. `AddrDistinct` says that two of the absolute addresses are never at one
  place, because of `AddrInv`; then what was found is all (`RelocatableHolds`).

### ObjectLoad_proofs

For any objects and archives, in any number and order, with sections and symbols of any names:

| Theorem | States |
|---|---|
| `MembersAlwaysNeeded` | `PartSpec => []MembersAsNeeded` |
| `RelocationsAlwaysFollow` | `PartSpec => []RelocsFollow`, if `OnceIsApart` |

`OnceIsApart` is about objects with link-once sections: no relocation is for a place in such a section, and in an object that has one,
relocations refer to symbols that are there whether it is skipped or not. `ObjectLoad_linkonce` shows what becomes of the others
(disagreement 7). The programs of the run `Link`, some of them with link-once sections, meet the hypothesis (`ProgramsApart`). The first
theorem does not need it.

What a loop of `tcc_load_object_file` did is known to the next one by `sm_table` and `old_to_new_syms` only, while the linked
sections go on growing. The invariant says what these tables mean at each turn:

- `PartsInv`, `MergeInv`: the entry of a section in `sm_table` says that it was ignored, was skipped because one of its name is there, or
  is the last part of that linked section, at `offset` (`Ignored`, `Skipped`, `Taken`).
- `TiledInv`: the parts of a linked section lie one after another, and no section of an object is in two of them. So a relocation has one
  part it came with (`PartAt`), and a place wanted for one is wanted for no other (`RelocOnce`).
- `LieInv`, `MapInv`: an entry of the symbol table lies on a symbol of its name in contents that are there; `old_to_new_syms` leads each
  symbol to an entry that means it, and is 0 only for symbols left out.
- `ThereInv`, `InfoInv`: nothing the loader handles was left out, except link-once sections that are there already; a relocation section
  names the linked section its relocations are for, also when it was joined to an older one, whose `sh_info` is not set again. That
  needs `RelasNamed`.
- `RelocsInv`: a relocation is as it was in the object until `Patch` has passed its section, and moved after that. `Patch` walks
  from its part to the end of the linked section; by `TiledInv` that end is the end of its own part, as the part is the last.

At the end of a load, `Follow` counts: relocations there and relocations wanted lead one to one to each other (`RelocWanted`,
`WantedThere`), so there are as many.

For archives, `KnownInv` says that a name some object defines is never undefined again, link-once sections that were skipped included
(`OnceAlike`), and `WantedInv` that what is undefined was referred to. So a member that comes because a name is undefined is the first to
define it. `IndexInv` is about the repetition: while no member was loaded in a turn, no name passed in it is undefined; so none is
when a turn ends with `bound = 0`. Of an archive taken as a whole it says that the members passed were loaded.

## Limits

Only model-checked:

- Liveness (`LoopsEnd`, `SqueezeStops`, `LinkingEnds`), which TLAPS does not reach.
- Whatever compares with a recursive reference: `IncludeAsUncached`, `IncludeGuards`, `TextAsMeant`, `FlowAsMeant`, `FlowLands`,
  `ValuesHold`. The compiler's functions call each other in MacroExpansion, CodeFlow and Expressions, so these are modules of recursive
  operators, of which the provers know nothing; `StackBalanced` is about one of them. What a theorem can be about is a
  recursive function over numbers, by the least number for which a claim fails, as in Driver.

Left out on purpose.

- ElfSymtab: contents of sections and strings. A relocation has a symbol: `greloca` without one makes a relocation to index
  0, whose merged index is then read before the start of `tr` (`tccelf.c:153`).
- Include: the search for include files, and with it `include_next`.
- MacroExpansion: stringizing, spelling, white space (`macro_arg_subst` counts a space that is left beside a token, see 14), `__LINE__` and
  its kin, directives inside arguments. Macros do not change while a text is read.
- Defines: a name is `unclear`, and `MacrosAsMeant` says nothing of it, after a `-U` of a name given with `-D`, a push of a built-in, a
  second push of one definition, or a pop without a push of this file; these are the cases listed above.
- CodeFlow: statement expressions, `__label__`, variable length arrays, comparisons of floating point, computed `goto`, `?:`
  without its second operand.
- Operands and Expressions: floating point, structures, bit-fields, `short` and `_Bool`, globals (symbols), pointer arithmetic, more
  than four arguments, and expressions whose value depends on the order of evaluation. The instructions are abstract:
  encodings, short forms and addressing modes are not told apart.
- SymStack: struct tags, C labels, fields and types; programs that declare a name twice; what an error leaves on the stacks.
- StructLayout: members that are structs, anonymous ones among them, arrays, flexible arrays, `_Bool` and enumerations. A bit-field as
  wide as its type is none, as in the program.
- ObjectLoad: stab sections, files that are not well formed, section types other than code, data, `.bss` and relocations.
- PEImport: `.text` is not empty, as offset 0 means "no thunk". Imports by address, exports of `-rdynamic`.
- PELayout: export tables, unwind data, data directories, version and subsystem fields, the checksum; an image base above 4 GB, which
  addresses of 32 bits would cut off. In the run, sections of debug information have no absolute addresses; the theorem does not need that.
- Driver: the count of errors is that of the current state since the last C file: `tcc_compile` starts it anew, so errors that
  objects before a C file complained of do not stop the link, and `elf_output_file` does not look at it. A library is found in
  the first form that is tried. Options are parsed before.

Not modelled at all: the components so marked in the inventory. Grammar, instruction encodings, debug records, file
formats, options, runtime library and bundled headers are pure conversions or data, which tests reach better; the bundled
Windows headers alone are two thirds of the lines. The others are in the plan.

## Plan

Done and proved: ElfSymtab with SymbolTable, RelocSqueeze, Defines, Include, SymStack, StructLayout, ObjectLoad, PEImport, PELayout,
Driver. Done and model-checked: IncludeRef beside Include, MacroExpansion, CodeFlow, Operands and Expressions. What is left, in this order:

1. Operands with symbols and pointer arithmetic, `short` and `_Bool`, more than four arguments; floating point as a second class of
   registers; bit-fields, on top of StructLayout.
2. `SortSyms` and `AsmSymbols`: locals before globals with relocations renumbered; `.set`, forward labels.
3. Export tables, which `pe_build_exports` writes while the symbols it lists still have no address.
4. A composition of Driver, Include and ElfSymtab over an abstract compiler, for what a failed file leaves behind.

Proofs worth having next: that what ObjectLoad assumes of `set_elf_sym` (`SetElfSym`) is what ElfSymtab does, and that the sections ObjectLoad
makes are such as PELayout assumes, so that the theorems about objects, imports and images become one about a link.
