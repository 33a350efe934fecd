-------------------------------- MODULE Link --------------------------------
(***************************************************************************)
(* The linker in four parts: what object files and archives become, how    *)
(* undefined symbols are bound to DLLs, the image made of the sections,    *)
(* and the driver that decides what is linked at all.  A behaviour is      *)
(* about one of them.                                                      *)
(***************************************************************************)
EXTENDS Driver

CONSTANTS
  Parts,  \* of "import", "load", "image", "drive": what a run explores
  Dlls, Exportable, Ordinals, Referable, LeadingUnderscore, TextSize, MaxExports, MaxRefs,  \* PEImport
  Programs, OnceNames, MaxLoads,  \* ObjectLoad
  Images, Span  \* PELayout

VARIABLES
  part,
  listed, exports, symtab, at, rels, nrefs, i, imports, iat, thk, thunks, failed,  \* PEImport
  program, file, bound, secs, syms, errs, turn, sm_table, old_to_new_syms, once, loads,  \* ObjectLoad
  image, sections, sh_addr, sec_info, todo, addr, sr, rel, count, offset, block_ptr, reloc,
  headers, file_offset, SizeOfImage, block, fixups                                 \* PELayout

\* each part has a pc, three have an i
importOnly == <<listed, exports, symtab, at, rels, nrefs, imports, iat, thk, thunks, failed>>
loadOnly ==
  <<program, file, bound, secs, syms, errs, turn, sm_table, old_to_new_syms, once, loads>>
imageOnly ==
  <<image, sections, sh_addr, sec_info, todo, addr, sr, rel, count, offset, block_ptr, reloc,
    headers, file_offset, SizeOfImage, block, fixups>>
driveOnly == <<cmd, n, t, ret, stateVars, run_test, written, ran>>
allVars == <<part, pc, i, importOnly, loadOnly, imageOnly, driveOnly>>

P == INSTANCE PEImport
O == INSTANCE ObjectLoad
L == INSTANCE PELayout

ASSUME DriverAssumption == Assumptions
ASSUME ImportAssumption == P!Assumptions
ASSUME ObjectAssumption == O!Assumptions
ASSUME ImageAssumption == L!Assumptions

ImportIdle ==
  /\ listed = 0 /\ exports = 0 /\ symtab = 0 /\ at = 0 /\ rels = 0 /\ nrefs = 0
  /\ imports = 0 /\ iat = 0 /\ thk = 0 /\ thunks = 0 /\ failed = 0
LoadIdle ==
  /\ program = 0 /\ file = 0 /\ bound = 0 /\ secs = 0 /\ syms = 0 /\ errs = 0
  /\ turn = 0 /\ sm_table = 0 /\ old_to_new_syms = 0 /\ once = 0 /\ loads = 0
ImageIdle ==
  /\ image = 0 /\ sections = 0 /\ sh_addr = 0 /\ sec_info = 0 /\ todo = 0 /\ addr = 0 /\ sr = 0
  /\ rel = 0 /\ count = 0 /\ offset = 0 /\ block_ptr = 0 /\ reloc = 0
  /\ headers = 0 /\ file_offset = 0 /\ SizeOfImage = 0 /\ block = 0 /\ fixups = 0
\* a command line of which nothing has been done
DriveIdle ==
  /\ cmd = [mode |-> "none", files |-> << >>]
  /\ n = 0 /\ t = 0 /\ ret = 0 /\ nb_errors = 0 /\ run_test = 0
  /\ added = << >> /\ written = << >> /\ ran = << >> /\ dirty = FALSE

PartInit ==
  /\ part \in Parts
  /\ \/ part = "import" /\ P!Init /\ LoadIdle /\ ImageIdle /\ DriveIdle
     \/ part = "load" /\ ImportIdle /\ O!Init /\ ImageIdle /\ DriveIdle
     \/ part = "image" /\ ImportIdle /\ LoadIdle /\ L!Init /\ DriveIdle
     \/ part = "drive" /\ ImportIdle /\ LoadIdle /\ ImageIdle /\ Init /\ i = 0

Importing == part = "import" /\ P!Next /\ UNCHANGED <<part, loadOnly, imageOnly, driveOnly>>
Loading == part = "load" /\ O!Next /\ UNCHANGED <<part, importOnly, imageOnly, driveOnly>>
Laying == part = "image" /\ L!Next /\ UNCHANGED <<part, importOnly, loadOnly, driveOnly>>
Driving == part = "drive" /\ Next /\ UNCHANGED <<part, i, importOnly, loadOnly, imageOnly>>

PartNext == Importing \/ Loading \/ Laying \/ Driving

\* what the program does by itself; the input of Importing may end any time
Fairness ==
  /\ WF_allVars(part = "import" /\ P!Linking
                   /\ UNCHANGED <<part, loadOnly, imageOnly, driveOnly>>)
  /\ WF_allVars(Loading)
  /\ WF_allVars(Driving)

PartSpec == PartInit /\ [][PartNext]_allVars /\ Fairness

-----------------------------------------------------------------------------
(* The properties of the parts; SuccessIsComplete, FailureIsLast,          *)
(* CleanImages and TestsInOrder are Driver's.                              *)

\* PEImport!RefsReachExport: every reference reaches its export.
ImportsReach == part = "import" => P!RefsReachExport

\* PEImport!OnlyMissingFail: only what no DLL exports fails to link.
ImportsFailRightly == part = "import" => P!OnlyMissingFail

\* PEImport!SlotsOwned: a symbol for every slot, no slot twice.
ImportSlots == part = "import" => P!SlotsOwned

\* PEImport!ExportOwner: which DLL a name comes from.
ImportOwner == part = "import" => P!ExportOwner

\* ObjectLoad!RelocsFollow: every relocation is there once and moved along.
RelocsFollow == part = "load" => O!RelocsFollow

\* MembersNeeded and ArchiveExhausted of ObjectLoad: an index gives only
\* members that are needed, and all of those.
MembersAsNeeded == part = "load" => O!MembersNeeded /\ O!ArchiveExhausted

\* PELayout!ImageSound: the loader can move the image, its sections are apart.
ImageSound == part = "image" => L!ImageSound

\* LinkEnds of PEImport, LoadEnds of ObjectLoad, Returns of Driver: the loop
\* over a table that grows, loading members that need each other or not,
\* and main with its rounds end.
LinkingEnds ==
  /\ part = "import" => P!LinkEnds
  /\ part = "load" => O!LoadEnds
  /\ part = "drive" => Returns
=============================================================================
