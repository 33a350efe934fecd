------------------------------- MODULE Driver -------------------------------
(***************************************************************************)
(* The driver: main in tcc.c with the parts of libtcc.c, tccelf.c and      *)
(* tccpe.c that decide whether a run fails: tcc_add_file_internal,         *)
(* tcc_compile, tcc_output_file, pe_output_file, and the count of errors.  *)
(*                                                                         *)
(* main adds files to a TCCState and writes one output, then starts again  *)
(* with a new state to compile the next file of -c, or to fake the next    *)
(* test of -dt.  An error either ends a compilation or is only counted, in *)
(* nb_errors, and it is for the functions that write to look at the count. *)
(***************************************************************************)
EXTENDS Integers, Sequences

CONSTANTS
  Commands,  \* command lines: [mode, files]
  Links      \* what linking and writing an output may come to

Modes == {"exe",     \* link an executable or DLL
          "obj",     \* -c: an object from each file
          "merge",   \* -r: one object from all files
          "pp",      \* -E
          "tests"}   \* -E with -dt

\* a file or library: what happens when it is added, and how many tests
\* maybe_run_test meets in it
Sources == [type : {"C", "BIN", "LIB"},
            does : {"well", "errs", "complains", "missing"}, tests : 0 .. 2]

Assumptions ==
  /\ \A c \in Commands : c.mode \in Modes /\ c.files \in Seq(Sources)
  /\ Links \subseteq {"well", "undefined", "complains", "exits", "unwritable"}

VARIABLES
  cmd,       \* the command line
  pc,
  n,         \* files left to do
  t,         \* tests run so far
  ret,       \* what main is going to return
  nb_errors, \* of the TCCState
  run_test,  \* tests to pass over before one is run; 0 when it was
  added,     \* the files added to the TCCState, by number
  written,   \* history: for each output the files it was made from
  ran,       \* history: the tests run, by number over all files
  dirty      \* history: was an error printed since the last C file or state?

stateVars == <<nb_errors, added, dirty>>
vars == <<cmd, pc, n, t, ret, stateVars, run_test, written, ran>>

files == cmd.files
current == Len(files) - n + 1

Init ==
  /\ cmd \in Commands
  /\ pc = "new"
  /\ n = 0 /\ t = 0 /\ ret = 0
  /\ nb_errors = 0 /\ run_test = 0
  /\ added = << >> /\ written = << >> /\ ran = << >>
  /\ dirty = FALSE

\* tcc_error where no compilation can be given up: exit(1)
Exit == pc' = "end" /\ ret' = 1

-----------------------------------------------------------------------------
\* "no input files", "cannot specify libraries with -c"
Refuse ==
  /\ pc = "new" /\ n = 0 /\ t = 0
  /\ \/ files = << >>
     \/ cmd.mode = "obj" /\ \E f \in DOMAIN files : files[f].type = "LIB"
  /\ Exit
  /\ UNCHANGED <<cmd, n, t, stateVars, run_test, written, ran>>

\* redo: tcc_new, the options, and the loop over the files
NewState ==
  /\ pc = "new"
  /\ n = 0 /\ t = 0 =>
       /\ files # << >>
       /\ cmd.mode = "obj" => \A f \in DOMAIN files : files[f].type # "LIB"
  /\ nb_errors' = 0 /\ added' = << >> /\ dirty' = FALSE
  /\ ret' = 0
  /\ IF cmd.mode = "tests"
     THEN t' = t + 1 /\ run_test' = t + 1 /\ n' = Len(files)
     ELSE n' = (IF n = 0 THEN Len(files) ELSE n) /\ UNCHANGED <<t, run_test>>
  /\ pc' = "add"
  /\ UNCHANGED <<cmd, written, ran>>

\* leaving the loop over the files, or going round again
Added(failed) ==
  /\ added' = Append(added, current)
  /\ n' = n - 1
  /\ ret' = IF failed THEN 1 ELSE 0
  /\ pc' = IF n = 1 \/ failed \/ cmd.mode = "obj" THEN "output" ELSE "add"
  /\ UNCHANGED <<cmd, t, written>>

\* mistake: the error is printed but not counted
ReportUncounted(count) ==
  /\ dirty' = (dirty \/ count > 0)
  /\ UNCHANGED nb_errors

Report(count) ==
  /\ nb_errors' = nb_errors + count
  /\ dirty' = (dirty \/ count > 0)

\* "file '%s' not found", "library '%s' not found"
AddMissing ==
  /\ pc = "add" /\ files[current].does = "missing"
  /\ Report(1)
  /\ Added(TRUE)
  /\ UNCHANGED <<run_test, ran>>

\* mistake: the test whose number is reached is passed over
FoundPast(seen) == run_test # 0 /\ seen > run_test

\* maybe_run_test counts run_test down to 0 and runs that test
Found(seen) == run_test # 0 /\ seen >= run_test

\* tcc_compile counts its errors from 0, those of tccelf_end_file too.
\* seen: the tests met before an error ended the compilation.
AddSource(seen) ==
  /\ pc = "add" /\ files[current].type = "C"
  /\ LET f == files[current]
         errors == IF f.does = "well" THEN 0 ELSE 1
     IN /\ f.does # "missing"
        /\ f.does = "well" => seen = f.tests
        /\ seen <= f.tests
        /\ nb_errors' = errors
        /\ dirty' = (errors > 0)
        /\ IF Found(seen) THEN run_test' = 0 /\ ran' = Append(ran, t)
           ELSE run_test' = (IF run_test = 0 THEN 0 ELSE run_test - seen) /\ UNCHANGED ran
        /\ Added(errors > 0)

\* tcc_load_object_file, tcc_load_archive, pe_load_file: what set_elf_sym
\* reports does not make them fail
AddBinary ==
  /\ pc = "add" /\ files[current].type # "C"
  /\ LET f == files[current]
     IN /\ f.does # "missing"
        /\ Report(IF f.does = "well" THEN 0 ELSE 1)
        /\ Added(f.does = "errs")
  /\ UNCHANGED <<run_test, ran>>

-----------------------------------------------------------------------------
\* mistake: -c stops after its first file
AfterOnce(result) ==
  LET tests == IF run_test # 0 THEN 0 ELSE t IN
  /\ ret' = result /\ t' = tests /\ run_test' = 0
  /\ pc' = IF tests # 0 THEN "new" ELSE "end"

\* mistake: -c goes on after a failure
AfterAnyway(result) ==
  LET tests == IF run_test # 0 THEN 0 ELSE t IN
  /\ ret' = result /\ t' = tests /\ run_test' = 0
  /\ pc' = IF n # 0 \/ tests # 0 THEN "new" ELSE "end"

\* mistake: a failure is tried again
AfterRetrying(result) ==
  LET tests == IF run_test # 0 THEN 0 ELSE t IN
  /\ ret' = result /\ t' = tests /\ run_test' = 0
  /\ pc' = IF result # 0 \/ n # 0 \/ tests # 0 THEN "new" ELSE "end"

\* after the output: tcc_delete, and again or out
After(result) ==
  LET tests == IF run_test # 0 THEN 0 ELSE t IN
  /\ ret' = result
  /\ t' = tests /\ run_test' = 0
  /\ pc' = IF (result = 0 /\ n # 0) \/ tests # 0 THEN "new" ELSE "end"

NoOutput ==
  /\ pc = "output"
  /\ cmd.mode \in {"pp", "tests"} \/ ret # 0
  /\ After(ret)
  /\ UNCHANGED <<cmd, n, stateVars, written, ran>>

Written == written' = Append(written, added)

\* elf_output_file for an object begins a new count and does not look at it
OutputObject(link) ==
  /\ pc = "output" /\ ret = 0 /\ cmd.mode \in {"obj", "merge"}
  /\ nb_errors' = 0
  /\ link \in {"well", "unwritable"}
  /\ IF link = "well" THEN Written /\ After(0) ELSE UNCHANGED written /\ After(1)
  /\ UNCHANGED <<cmd, n, added, dirty, ran>>

\* pe_output_file: pe_check_symbols fails for undefined symbols; what the
\* runtime libraries, relocate_syms and relocate_section complain of is
\* only counted; a missing start symbol makes tcc_get_symbol_err exit
OutputImage(link) ==
  /\ pc = "output" /\ ret = 0 /\ cmd.mode = "exe"
  /\ link \in Links
  /\ LET errors == nb_errors + (IF link \in {"undefined", "complains"} THEN 1 ELSE 0)
     IN /\ nb_errors' = errors
        /\ dirty' = (dirty \/ link \in {"undefined", "complains"})
        /\ IF link = "exits" THEN Exit /\ UNCHANGED <<t, run_test, written>>
           ELSE IF link = "undefined" \/ errors # 0 \/ link = "unwritable"
           THEN After(1) /\ UNCHANGED written
           ELSE After(0) /\ Written
  /\ UNCHANGED <<cmd, n, added, ran>>

Next ==
  \/ Refuse \/ NewState
  \/ AddMissing \/ AddBinary
  \/ \E seen \in 0 .. 2 : AddSource(seen)
  \/ NoOutput
  \/ \E link \in Links : OutputObject(link) \/ OutputImage(link)

Spec == Init /\ [][Next]_vars
FairSpec == Spec /\ WF_vars(Next)

-----------------------------------------------------------------------------
All == [j \in DOMAIN files |-> j]

\* When main returns 0 its whole job is done: one output of all files in
\* their order, or with -c one object for each file, none twice though
\* each comes from a new round through main.
SuccessIsComplete ==
  pc = "end" /\ ret = 0 =>
    /\ cmd.mode \in {"exe", "merge"} => written = <<All>>
    /\ cmd.mode = "obj" => written = [j \in DOMAIN files |-> <<j>>]
    /\ cmd.mode \in {"pp", "tests"} => written = << >>

\* When main returns 1 the output that failed was not written, and with -c
\* no file after the one that failed was compiled.
FailureIsLast ==
  pc = "end" /\ ret = 1 =>
    /\ cmd.mode # "obj" => written = << >>
    /\ cmd.mode = "obj" =>
         \E m \in 0 .. Len(files) :
           written = [j \in 1 .. m |-> <<j>>] /\ (files # << >> => m < Len(files))

\* No executable is written in a state that has printed an error since its
\* last C file was begun (pe_output_file looks at nb_errors).
CleanImages ==
  cmd.mode = "exe" /\ dirty => written = << >>

\* the tests that maybe_run_test meets in the first files
Tests(f) == IF files[f].type = "C" THEN files[f].tests ELSE 0
TestsTo[m \in 0 .. Len(files)] == IF m = 0 THEN 0 ELSE TestsTo[m - 1] + Tests(m)

\* -dt runs the tests one after the other, each in a round of its own; all
\* of them unless a file failed (maybe_run_test, run_test and t in main).
TestsInOrder ==
  /\ ran = [j \in 1 .. Len(ran) |-> j]
  /\ pc = "end" /\ ret = 0 /\ cmd.mode = "tests" => Len(ran) = TestsTo[Len(files)]

\* main returns.
Returns == <>(pc = "end")
=============================================================================
