---------------------------- MODULE Driver_proofs ----------------------------
(* Proofs about Driver, for any command lines and any outcome of linking.  *)
EXTENDS Driver, WellFoundedInduction, TLAPS

FilesTo(m) == [j \in 1 .. m |-> j]
OutputsTo(m) == [j \in 1 .. m |-> <<j>>]

\* files done with: all before the one in work, which n still counts
done == Len(files) - n

(***************************************************************************)
(* The inductive invariant.  What a TCCState was given and what has been   *)
(* written are determined by n, the only count that main keeps over the    *)
(* rounds of -c.                                                           *)
(***************************************************************************)
TypeInv ==
  /\ cmd \in Commands
  /\ pc \in {"new", "add", "output", "end"}
  /\ n \in 0 .. Len(files)
  /\ t \in Nat /\ run_test \in Nat /\ nb_errors \in Nat
  /\ ret \in {0, 1}

\* only -dt comes back with t set, and never without files
RoundInv ==
  /\ cmd.mode # "tests" => t = 0 /\ run_test = 0
  /\ t # 0 => Len(files) # 0
  /\ pc = "add" => n # 0
  /\ pc = "output" => n # Len(files)
  /\ pc = "new" => n = 0 \/ cmd.mode \in {"obj", "tests"}

\* what is in the TCCState
AddedInv ==
  /\ pc = "add" => added = IF cmd.mode = "obj" THEN << >> ELSE FilesTo(done)
  /\ pc = "output" /\ ret = 0 =>
       IF cmd.mode = "obj" THEN added = <<done>> ELSE n = 0 /\ added = FilesTo(done)

\* what is on disk
WrittenInv ==
  /\ cmd.mode # "obj" /\ pc # "end" => written = << >>
  /\ cmd.mode = "obj" =>
       /\ pc = "new" => written = OutputsTo(IF n = 0 THEN 0 ELSE done)
       /\ pc = "add" => written = OutputsTo(done)
       /\ pc = "output" => written = OutputsTo(done - 1)

ErrorInv ==
  cmd.mode = "exe" /\ dirty => nb_errors # 0

IInv ==
  /\ TypeInv /\ RoundInv /\ AddedInv /\ WrittenInv /\ ErrorInv
  /\ SuccessIsComplete /\ FailureIsLast /\ CleanImages

-----------------------------------------------------------------------------
(* Adding a file, or writing one more object, makes the next prefix.       *)
LEMMA NextFile ==
  ASSUME NEW m \in Nat
  PROVE  Append(FilesTo(m), m + 1) = FilesTo(m + 1)
<1>1. FilesTo(m) \in Seq(Nat) /\ Len(FilesTo(m)) = m
  BY DEF FilesTo
<1>2. Append(FilesTo(m), m + 1) =
        [j \in 1 .. m + 1 |-> IF j <= m THEN FilesTo(m)[j] ELSE m + 1]
  BY <1>1
<1> QED
  BY <1>2 DEF FilesTo

LEMMA NextOutput ==
  ASSUME NEW m \in Nat
  PROVE  Append(OutputsTo(m), <<m + 1>>) = OutputsTo(m + 1)
<1>1. OutputsTo(m) \in Seq(Seq(Nat)) /\ Len(OutputsTo(m)) = m
  BY DEF OutputsTo
<1>2. Append(OutputsTo(m), <<m + 1>>) =
        [j \in 1 .. m + 1 |-> IF j <= m THEN OutputsTo(m)[j] ELSE <<m + 1>>]
  BY <1>1
<1> QED
  BY <1>2 DEF OutputsTo

LEMMA NoPrefix == FilesTo(0) = << >> /\ OutputsTo(0) = << >>
BY DEF FilesTo, OutputsTo

(* files is a sequence: the only thing the proof needs of the constants.   *)
LEMMA FilesSeq ==
  ASSUME Assumptions, cmd \in Commands
  PROVE  /\ files \in Seq(Sources) /\ Len(files) \in Nat
         /\ DOMAIN files = 1 .. Len(files)
         /\ All = FilesTo(Len(files))
         /\ [j \in DOMAIN files |-> <<j>>] = OutputsTo(Len(files))
         /\ files = << >> <=> Len(files) = 0
BY DEF Assumptions, files, All, FilesTo, OutputsTo

LEMMA InitIInv ==
  ASSUME Assumptions, Init
  PROVE  IInv
<1> USE DEF Init
<1>1. TypeInv
  BY FilesSeq DEF TypeInv
<1>2. RoundInv /\ AddedInv /\ WrittenInv /\ ErrorInv
  BY NoPrefix DEF RoundInv, AddedInv, WrittenInv, ErrorInv
<1>3. SuccessIsComplete /\ FailureIsLast /\ CleanImages
  BY DEF SuccessIsComplete, FailureIsLast, CleanImages
<1> QED
  BY <1>1, <1>2, <1>3 DEF IInv

(* A run that is not over has nothing to answer for yet.                   *)
LEMMA NotOver ==
  ASSUME pc # "end", WrittenInv
  PROVE  SuccessIsComplete /\ FailureIsLast /\ CleanImages
BY DEF SuccessIsComplete, FailureIsLast, CleanImages, WrittenInv

-----------------------------------------------------------------------------

LEMMA RefuseStep ==
  ASSUME Assumptions, IInv, Refuse
  PROVE  IInv'
<1> USE DEF IInv, Refuse, Exit, stateVars
<1> files' = files
  BY DEF files
<1>1. TypeInv'
  BY DEF TypeInv
<1>2. RoundInv' /\ AddedInv' /\ WrittenInv' /\ ErrorInv'
  BY DEF RoundInv, AddedInv, WrittenInv, ErrorInv
<1>3. written = << >>
  BY NoPrefix DEF WrittenInv
<1>4. 0 \in 0 .. Len(files) /\ (files # << >> => 0 < Len(files))
  BY FilesSeq DEF TypeInv
<1>5. [j \in 1 .. 0 |-> <<j>>] = << >>
  OBVIOUS
<1>6. FailureIsLast'
  BY <1>3, <1>4, <1>5 DEF FailureIsLast
<1>7. SuccessIsComplete' /\ CleanImages'
  BY <1>3 DEF SuccessIsComplete, CleanImages
<1> QED
  BY <1>1, <1>2, <1>6, <1>7

LEMMA NewStateStep ==
  ASSUME Assumptions, IInv, NewState
  PROVE  IInv'
<1> USE DEF IInv, NewState
<1> files' = files
  BY DEF files
<1>1. files \in Seq(Sources) /\ Len(files) \in Nat
  BY FilesSeq DEF TypeInv
<1>2. Len(files) # 0
  BY <1>1, FilesSeq DEF TypeInv, RoundInv
<1>3. TypeInv'
  BY <1>1 DEF TypeInv
<1>4. RoundInv'
  BY <1>1, <1>2 DEF TypeInv, RoundInv
<1>5. AddedInv'
  BY <1>1, NoPrefix DEF TypeInv, RoundInv, AddedInv, done
<1>6. WrittenInv'
  BY <1>1 DEF TypeInv, RoundInv, WrittenInv, done
<1>7. ErrorInv'
  BY DEF ErrorInv
<1>8. SuccessIsComplete' /\ FailureIsLast' /\ CleanImages'
  BY <1>6, NotOver DEF SuccessIsComplete, FailureIsLast, CleanImages, WrittenInv
<1> QED
  BY <1>3, <1>4, <1>5, <1>6, <1>7, <1>8

(* The next file is added: Added, and what it does to the count is given   *)
(* by the caller.                                                          *)
LEMMA AddedKeeps ==
  ASSUME Assumptions, IInv, NEW failed \in BOOLEAN, pc = "add", Added(failed),
         cmd' = cmd, run_test' \in Nat, run_test = 0 => run_test' = 0,
         nb_errors' \in Nat, cmd.mode = "exe" /\ dirty' => nb_errors' # 0
  PROVE  IInv'
<1> USE DEF IInv, Added
<1>1. files' = files /\ Len(files) \in Nat
  BY FilesSeq DEF files, TypeInv
<1>2. n \in 1 .. Len(files) /\ n' = n - 1 /\ done \in Nat /\ done' = done + 1 /\ current = done + 1
  BY <1>1 DEF TypeInv, RoundInv, done, current
<1>3. TypeInv'
  BY <1>1, <1>2 DEF TypeInv
<1>4. RoundInv'
  BY <1>1, <1>2 DEF TypeInv, RoundInv
<1>5. AddedInv'
  <2>1. CASE cmd.mode = "obj"
    <3>1. added' = <<done'>>
      BY <1>2, <2>1 DEF AddedInv
    <3> QED
      BY <3>1, <2>1, <1>2 DEF AddedInv
  <2>2. CASE cmd.mode # "obj"
    <3>1. added' = FilesTo(done')
      BY <1>2, <2>2, NextFile DEF AddedInv
    <3> QED
      BY <3>1, <2>2, <1>2 DEF AddedInv
  <2> QED
    BY <2>1, <2>2
<1>6. WrittenInv'
  BY <1>2 DEF WrittenInv
<1>7. ErrorInv'
  BY DEF ErrorInv
<1>8. pc' # "end"
  OBVIOUS
<1>9. (SuccessIsComplete /\ FailureIsLast /\ CleanImages)'
  BY <1>6, <1>8 DEF SuccessIsComplete, FailureIsLast, CleanImages, WrittenInv
<1> QED
  BY <1>3, <1>4, <1>5, <1>6, <1>7, <1>9

LEMMA AddMissingStep ==
  ASSUME Assumptions, IInv, AddMissing
  PROVE  IInv'
<1>1. nb_errors' \in Nat /\ nb_errors' # 0
  BY DEF AddMissing, Report, IInv, TypeInv
<1>2. cmd' = cmd /\ run_test' = run_test /\ run_test \in Nat
  BY DEF AddMissing, Added, IInv, TypeInv
<1> QED
  BY <1>1, <1>2, AddedKeeps DEF AddMissing

LEMMA AddBinaryStep ==
  ASSUME Assumptions, IInv, AddBinary
  PROVE  IInv'
<1> DEFINE count == IF files[current].does = "well" THEN 0 ELSE 1
<1>1. Report(count)
  BY Zenon DEF AddBinary
<1>2. count \in {0, 1} /\ (count > 0 => count # 0)
  OBVIOUS
<1> HIDE DEF count
<1>3. nb_errors' = nb_errors + count /\ nb_errors \in Nat
  BY <1>1 DEF Report, IInv, TypeInv
<1>4. dirty' => dirty \/ count # 0
  BY <1>1, <1>2, Zenon DEF Report
<1>5. cmd.mode = "exe" /\ dirty' => nb_errors' # 0
  BY <1>2, <1>3, <1>4 DEF IInv, ErrorInv
<1>6. cmd' = cmd /\ run_test' = run_test /\ run_test \in Nat
  BY DEF AddBinary, Added, IInv, TypeInv
<1>7. PICK failed \in BOOLEAN : Added(failed)
  BY DEF AddBinary
<1> QED
  BY <1>2, <1>3, <1>5, <1>6, <1>7, AddedKeeps DEF AddBinary

LEMMA AddSourceStep ==
  ASSUME Assumptions, IInv, NEW seen \in 0 .. 2, AddSource(seen)
  PROVE  IInv'
<1> DEFINE errors == IF files[current].does = "well" THEN 0 ELSE 1
<1>1. nb_errors' = errors /\ dirty' = (errors > 0) /\ Added(errors > 0)
  BY Zenon DEF AddSource
<1>2. errors \in Nat /\ (errors > 0 => errors # 0)
  OBVIOUS
<1>3. cmd' = cmd
  BY DEF AddSource, Added
<1>4. run_test' \in Nat /\ (run_test = 0 => run_test' = 0)
  BY DEF AddSource, Found, IInv, TypeInv
<1>5. pc = "add"
  BY DEF AddSource
<1> HIDE DEF errors
<1>6. PICK failed \in BOOLEAN : Added(failed)
  <2>1. CASE errors > 0
    <3>1. Added(TRUE)
      BY <1>1, <2>1 DEF Added
    <3> QED
      BY <3>1
  <2>2. CASE ~ (errors > 0)
    <3>1. Added(FALSE)
      BY <1>1, <2>2 DEF Added
    <3> QED
      BY <3>1
  <2> QED
    BY <2>1, <2>2
<1>7. dirty' => nb_errors' # 0
  <2>1. dirty' => errors > 0
    <3>1. dirty' = (errors > 0)
      BY <1>1, Zenon
    <3> QED
      BY <3>1, Zenon
  <2> QED
    BY <1>1, <1>2, <2>1
<1> QED
  BY <1>1, <1>2, <1>3, <1>4, <1>5, <1>6, <1>7, AddedKeeps

-----------------------------------------------------------------------------
(* A round ends: with everything written that n says is done, or with the  *)
(* failure that main returns.                                              *)
LEMMA AfterKeeps ==
  ASSUME Assumptions, IInv, NEW result \in {0, 1}, pc = "output", After(result),
         cmd' = cmd, n' = n, nb_errors' \in Nat,
         cmd.mode = "exe" /\ dirty' => nb_errors' # 0 /\ written' = << >>,
         result = 1 => written' = written,
         result = 0 => ret = 0 /\ written' = IF cmd.mode \in {"pp", "tests"} THEN written
                                             ELSE Append(written, added)
  PROVE  IInv'
<1> USE DEF IInv, After
<1>1. files' = files /\ Len(files) \in Nat /\ done' = done
  BY FilesSeq DEF files, done, TypeInv
<1>2. n \in 0 .. Len(files) - 1 /\ done \in 1 .. Len(files) /\ n = Len(files) - done
  BY <1>1 DEF TypeInv, RoundInv, done
<1>3. TypeInv'
  BY <1>1 DEF TypeInv
<1>4. ret = 0 /\ cmd.mode # "obj" => n = 0
  BY DEF AddedInv
<1>5. cmd.mode # "tests" => t' = 0 /\ run_test' = 0 /\ pc' = IF result = 0 /\ n # 0 THEN "new" ELSE "end"
  BY DEF RoundInv
<1>6. RoundInv'
  BY <1>1, <1>2, <1>4, <1>5 DEF RoundInv, TypeInv
<1>7. pc' \in {"new", "end"}
  OBVIOUS
<1>8. AddedInv'
  BY <1>7 DEF AddedInv
<1>9. cmd.mode = "obj" /\ result = 0 => written' = OutputsTo(done)
  <2> SUFFICES ASSUME cmd.mode = "obj", result = 0
               PROVE  written' = OutputsTo(done)
    OBVIOUS
  <2>1. written = OutputsTo(done - 1) /\ added = <<done>>
    BY DEF WrittenInv, AddedInv
  <2>2. Append(OutputsTo(done - 1), <<done>>) = OutputsTo(done)
    <3>1. done - 1 \in Nat /\ (done - 1) + 1 = done
      BY <1>2
    <3> QED
      BY <3>1, NextOutput
  <2> QED
    BY <2>1, <2>2
<1>10. WrittenInv'
  <2>1. CASE cmd.mode = "obj"
    BY <2>1, <1>1, <1>2, <1>5, <1>7, <1>9 DEF WrittenInv
  <2>2. CASE cmd.mode # "obj"
    BY <2>2, <1>4, <1>5, <1>7 DEF WrittenInv
  <2> QED
    BY <2>1, <2>2
<1>11. ErrorInv'
  BY DEF ErrorInv
<1>12. SuccessIsComplete'
  <2> SUFFICES ASSUME pc' = "end", ret' = 0
               PROVE  /\ cmd.mode \in {"exe", "merge"} => written' = <<All>>
                      /\ cmd.mode = "obj" => written' = [j \in DOMAIN files |-> <<j>>]
                      /\ cmd.mode \in {"pp", "tests"} => written' = << >>
    BY <1>1 DEF SuccessIsComplete, All
  <2>1. CASE cmd.mode \in {"exe", "merge"}
    <3>1. written = << >> /\ added = FilesTo(Len(files))
      BY <2>1, <1>2, <1>4 DEF WrittenInv, AddedInv
    <3>2. written' = <<added>>
      BY <3>1, <2>1
    <3> QED
      BY <3>1, <3>2, <2>1, FilesSeq DEF TypeInv
  <2>2. CASE cmd.mode = "obj"
    BY <2>2, <1>2, <1>5, <1>9, FilesSeq DEF TypeInv
  <2>3. CASE cmd.mode \in {"pp", "tests"}
    BY <2>3 DEF WrittenInv
  <2> QED
    BY <2>1, <2>2, <2>3
<1>13. FailureIsLast'
  <2> SUFFICES ASSUME pc' = "end", ret' = 1
               PROVE  /\ cmd.mode # "obj" => written' = << >>
                      /\ cmd.mode = "obj" =>
                           \E m \in 0 .. Len(files) :
                             written' = [j \in 1 .. m |-> <<j>>] /\ (files # << >> => m < Len(files))
    BY <1>1 DEF FailureIsLast
  <2>1. result = 1 /\ written' = written
    OBVIOUS
  <2>2. CASE cmd.mode # "obj"
    BY <2>1, <2>2 DEF WrittenInv
  <2>3. CASE cmd.mode = "obj"
    <3>1. written' = [j \in 1 .. done - 1 |-> <<j>>]
      BY <2>1, <2>3 DEF WrittenInv, OutputsTo
    <3>2. done - 1 \in 0 .. Len(files) /\ done - 1 < Len(files)
      BY <1>2
    <3> QED
      BY <3>1, <3>2, <2>3
  <2> QED
    BY <2>2, <2>3
<1>14. CleanImages'
  BY <1>1 DEF CleanImages
<1> QED
  BY <1>3, <1>6, <1>8, <1>10, <1>11, <1>12, <1>13, <1>14

LEMMA NoOutputStep ==
  ASSUME Assumptions, IInv, NoOutput
  PROVE  IInv'
<1>1. ret \in {0, 1} /\ nb_errors' \in Nat /\ cmd' = cmd /\ n' = n
  BY DEF NoOutput, IInv, TypeInv, stateVars
<1>2. written' = written /\ (ret = 0 => cmd.mode \in {"pp", "tests"})
  BY DEF NoOutput, IInv, TypeInv
<1>3. cmd.mode = "exe" /\ dirty' => nb_errors' # 0 /\ written' = << >>
  BY DEF NoOutput, IInv, ErrorInv, WrittenInv, stateVars
<1> QED
  BY <1>1, <1>2, <1>3, AfterKeeps DEF NoOutput

LEMMA OutputObjectStep ==
  ASSUME Assumptions, IInv, NEW link \in Links, OutputObject(link)
  PROVE  IInv'
<1>1. nb_errors' \in Nat /\ cmd' = cmd /\ n' = n /\ cmd.mode \in {"obj", "merge"} /\ ret = 0
  BY DEF OutputObject
<1>2. CASE link = "well"
  BY <1>1, <1>2, AfterKeeps DEF OutputObject, Written
<1>3. CASE link # "well"
  BY <1>1, <1>3, AfterKeeps DEF OutputObject
<1> QED
  BY <1>2, <1>3

(* pe_output_file writes only when nothing was counted, and then nothing   *)
(* was printed either.                                                     *)
LEMMA OutputImageStep ==
  ASSUME Assumptions, IInv, NEW link \in Links, OutputImage(link)
  PROVE  IInv'
<1> DEFINE complaint == link \in {"undefined", "complains"}
           errors == nb_errors + IF complaint THEN 1 ELSE 0
<1>1. /\ nb_errors' = errors /\ errors \in Nat
      /\ cmd' = cmd /\ n' = n /\ cmd.mode = "exe" /\ ret = 0 /\ pc = "output"
  BY DEF OutputImage, IInv, TypeInv
<1>2. dirty' => dirty \/ complaint
  <2>1. dirty' = (dirty \/ complaint)
    BY Zenon DEF OutputImage
  <2> QED
    BY <2>1, Zenon
<1>3. dirty' => nb_errors' # 0
  <2>1. dirty => nb_errors # 0
    BY <1>1 DEF IInv, ErrorInv
  <2> QED
    BY <1>1, <1>2, <2>1 DEF IInv, TypeInv
<1>4. written = << >>
  BY <1>1 DEF IInv, WrittenInv
<1>5. CASE link = "exits"
  <2>1. pc' = "end" /\ ret' = 1 /\ UNCHANGED <<cmd, n, t, run_test, written>> /\ files' = files
    BY <1>5 DEF OutputImage, Exit, files
  <2>2. TypeInv' /\ RoundInv' /\ AddedInv' /\ WrittenInv' /\ ErrorInv'
    BY <1>1, <1>3, <2>1 DEF IInv, TypeInv, RoundInv, AddedInv, WrittenInv, ErrorInv
  <2>3. SuccessIsComplete' /\ FailureIsLast' /\ CleanImages'
    BY <1>1, <1>4, <2>1 DEF SuccessIsComplete, FailureIsLast, CleanImages
  <2> QED
    BY <2>2, <2>3 DEF IInv
<1>6. CASE link # "exits" /\ (link = "undefined" \/ errors # 0 \/ link = "unwritable")
  <2>1. After(1) /\ written' = written
    BY <1>6 DEF OutputImage
  <2> QED
    BY <1>1, <1>3, <1>4, <2>1, AfterKeeps
<1>7. CASE link # "exits" /\ ~ (link = "undefined" \/ errors # 0 \/ link = "unwritable")
  <2>1. After(0) /\ written' = Append(written, added)
    BY <1>7 DEF OutputImage, Written
  <2>2. ~ dirty'
    BY <1>1, <1>3, <1>7
  <2> QED
    BY <1>1, <2>1, <2>2, AfterKeeps
<1> QED
  BY <1>5, <1>6, <1>7

-----------------------------------------------------------------------------

LEMMA StutterStep ==
  ASSUME Assumptions, IInv, UNCHANGED vars
  PROVE  IInv'
<1> USE DEF vars, stateVars
<1>1. files' = files /\ done' = done
  BY DEF files, done
<1>2. TypeInv' /\ RoundInv' /\ AddedInv' /\ WrittenInv' /\ ErrorInv'
  BY <1>1 DEF IInv, TypeInv, RoundInv, AddedInv, WrittenInv, ErrorInv
<1>3. SuccessIsComplete' /\ FailureIsLast' /\ CleanImages'
  BY <1>1 DEF IInv, SuccessIsComplete, FailureIsLast, CleanImages, All
<1> QED
  BY <1>2, <1>3 DEF IInv

LEMMA NextIInv ==
  ASSUME Assumptions, IInv, [Next]_vars
  PROVE  IInv'
<1>1. CASE Refuse
  BY <1>1, RefuseStep
<1>2. CASE NewState
  BY <1>2, NewStateStep
<1>3. CASE AddMissing
  BY <1>3, AddMissingStep
<1>4. CASE AddBinary
  BY <1>4, AddBinaryStep
<1>5. CASE \E seen \in 0 .. 2 : AddSource(seen)
  BY <1>5, AddSourceStep
<1>6. CASE NoOutput
  BY <1>6, NoOutputStep
<1>7. CASE \E link \in Links : OutputObject(link)
  BY <1>7, OutputObjectStep
<1>8. CASE \E link \in Links : OutputImage(link)
  BY <1>8, OutputImageStep
<1>9. CASE UNCHANGED vars
  BY <1>9, StutterStep
<1> QED
  BY <1>1, <1>2, <1>3, <1>4, <1>5, <1>6, <1>7, <1>8, <1>9 DEF Next

LEMMA SpecIInv == ASSUME Assumptions PROVE Spec => []IInv
<1>1. Init => IInv
  BY InitIInv
<1>2. IInv /\ [Next]_vars => IInv'
  BY NextIInv
<1> QED
  BY <1>1, <1>2, PTL DEF Spec

-----------------------------------------------------------------------------

(* main returns 0 only when every output was written: all files in one, or *)
(* with -c one object of each, in order and once (the rounds of main).     *)
THEOREM SuccessAlwaysComplete == ASSUME Assumptions PROVE Spec => []SuccessIsComplete
<1>1. IInv => SuccessIsComplete
  BY DEF IInv
<1> QED
  BY <1>1, SpecIInv, PTL

(* main returns 1 at the first failure of -c, and writes no failed output. *)
THEOREM FailureAlwaysLast == ASSUME Assumptions PROVE Spec => []FailureIsLast
<1>1. IInv => FailureIsLast
  BY DEF IInv
<1> QED
  BY <1>1, SpecIInv, PTL

(* No executable in a state that has printed an error since its last C     *)
(* file: the count that pe_output_file looks at has not lost it.           *)
THEOREM ImagesAlwaysClean == ASSUME Assumptions PROVE Spec => []CleanImages
<1>1. IInv => CleanImages
  BY DEF IInv
<1> QED
  BY <1>1, SpecIInv, PTL

-----------------------------------------------------------------------------
(* The number of tests, a sum over the files.  That the recursion defines  *)
(* it, and that it grows with the files, is shown with the least number    *)
(* for which it would not be so.                                           *)
LEMMA Least ==
  ASSUME NEW X, X \subseteq Nat, X # {}
  PROVE  \E m \in X : \A k \in X : m <= k
<1> DEFINE R == {ss \in Nat \X Nat : ss[1] < ss[2]}
<1>1. IsWellFoundedOn(R, Nat)
  BY NatLessThanWellFounded DEF OpToRel
<1>2. PICK m \in X : \A k \in X : ~ (<<k, m>> \in R)
  <2> HIDE DEF R
  <2> QED
    BY <1>1, WFMin
<1>3. \A k \in X : ~ (k < m)
  BY <1>2
<1> QED
  BY <1>2, <1>3

\* what TestsTo is to be, for the first m files
Sums(m) == {g \in [0 .. m -> Nat] : \A k \in 0 .. m : g[k] = IF k = 0 THEN 0 ELSE g[k - 1] + Tests(k)}

LEMMA SumsExist ==
  ASSUME Len(files) \in Nat, \A f \in 1 .. Len(files) : Tests(f) \in Nat
  PROVE  Sums(Len(files)) # {}
<1> DEFINE X == {m \in 0 .. Len(files) : Sums(m) = {}}
<1> SUFFICES ASSUME X # {} PROVE FALSE
  BY DEF X
<1>1. PICK m \in X : \A k \in X : m <= k
  <2>1. X \subseteq Nat
    OBVIOUS
  <2> HIDE DEF X
  <2> QED
    BY <2>1, Least
<1>2. m \in 0 .. Len(files) /\ Sums(m) = {}
  BY <1>1
<1>3. m # 0
  <2>1. [k \in 0 .. 0 |-> 0] \in Sums(0)
    BY DEF Sums
  <2> QED
    BY <1>2, <2>1
<1>4. PICK g \in [0 .. m - 1 -> Nat] :
        \A k \in 0 .. m - 1 : g[k] = IF k = 0 THEN 0 ELSE g[k - 1] + Tests(k)
  <2>1. m - 1 \in 0 .. Len(files) /\ ~ (m <= m - 1)
    BY <1>2, <1>3
  <2>2. Sums(m - 1) # {}
    BY <1>1, <2>1
  <2> QED
    BY <2>2 DEF Sums
<1> DEFINE h == [k \in 0 .. m |-> IF k = m THEN g[m - 1] + Tests(m) ELSE g[k]]
<1>5. h \in [0 .. m -> Nat]
  BY <1>2, <1>3, <1>4
<1>6. \A k \in 0 .. m : h[k] = IF k = 0 THEN 0 ELSE h[k - 1] + Tests(k)
  BY <1>2, <1>3, <1>4
<1> HIDE DEF h
<1>7. h \in Sums(m)
  BY <1>5, <1>6 DEF Sums
<1> QED
  BY <1>2, <1>7

LEMMA TestsSum ==
  ASSUME Assumptions, cmd \in Commands
  PROVE  /\ Len(files) \in Nat
         /\ \A f \in 1 .. Len(files) : Tests(f) \in 0 .. 2
         /\ TestsTo \in [0 .. Len(files) -> Nat] /\ TestsTo[0] = 0
         /\ \A m \in 1 .. Len(files) : TestsTo[m] = TestsTo[m - 1] + Tests(m)
<1>1. Len(files) \in Nat /\ \A f \in 1 .. Len(files) : Tests(f) \in 0 .. 2
  <2>1. \A f \in 1 .. Len(files) : files[f] \in Sources
    BY FilesSeq
  <2>2. \A s \in Sources : s.tests \in 0 .. 2
    BY DEF Sources
  <2> QED
    BY <2>1, <2>2, FilesSeq DEF Tests
<1>2. PICK g : g \in Sums(Len(files))
  BY <1>1, SumsExist
<1>3. g = [m \in 0 .. Len(files) |-> IF m = 0 THEN 0 ELSE g[m - 1] + Tests(m)]
  BY <1>2 DEF Sums
<1>4. TestsTo = [m \in 0 .. Len(files) |-> IF m = 0 THEN 0 ELSE TestsTo[m - 1] + Tests(m)]
  BY <1>3 DEF TestsTo
<1> DEFINE X == {m \in 0 .. Len(files) : TestsTo[m] # g[m]}
<1>5. X = {}
  <2> SUFFICES ASSUME X # {} PROVE FALSE
    OBVIOUS
  <2>1. PICK m \in X : \A k \in X : m <= k
    <3>1. X \subseteq Nat
      OBVIOUS
    <3> HIDE DEF X
    <3> QED
      BY <3>1, Least
  <2>2. m \in 0 .. Len(files) /\ TestsTo[m] # g[m]
    BY <2>1
  <2>3. m # 0
    BY <1>3, <1>4, <2>2
  <2>4. m - 1 \in 0 .. Len(files) /\ ~ (m <= m - 1)
    BY <1>1, <2>2, <2>3
  <2>5. TestsTo[m - 1] = g[m - 1]
    BY <2>1, <2>4
  <2> QED
    BY <1>3, <1>4, <2>2, <2>3, <2>5
<1>6. TestsTo = g
  <2>1. DOMAIN g = 0 .. Len(files) /\ DOMAIN TestsTo = 0 .. Len(files)
    BY <1>3, <1>4
  <2>2. \A m \in 0 .. Len(files) : TestsTo[m] = g[m]
    BY <1>5
  <2> QED
    BY <1>3, <1>4, <2>1, <2>2
<1> QED
  BY <1>1, <1>2, <1>6 DEF Sums

LEMMA TestsGrow ==
  ASSUME Assumptions, cmd \in Commands, NEW m \in 0 .. Len(files)
  PROVE  TestsTo[m] <= TestsTo[Len(files)]
<1> DEFINE X == {k \in Nat : k <= Len(files) /\ ~ (TestsTo[Len(files) - k] <= TestsTo[Len(files)])}
<1>1. /\ Len(files) \in Nat /\ \A k \in 0 .. Len(files) : TestsTo[k] \in Nat
      /\ \A k \in 1 .. Len(files) : TestsTo[k] = TestsTo[k - 1] + Tests(k) /\ Tests(k) \in Nat
  BY TestsSum
<1>2. ASSUME X # {} PROVE FALSE
  <2>1. PICK k \in X : \A j \in X : k <= j
    <3>1. X \subseteq Nat
      OBVIOUS
    <3> HIDE DEF X
    <3> QED
      BY <1>2, <3>1, Least
  <2>2. k \in 0 .. Len(files) /\ ~ (TestsTo[Len(files) - k] <= TestsTo[Len(files)])
    BY <1>1, <2>1
  <2>3. k # 0
    BY <1>1, <2>2
  <2>4. k - 1 \in Nat /\ k - 1 <= Len(files) /\ ~ (k <= k - 1)
    BY <1>1, <2>2, <2>3
  <2>5. TestsTo[Len(files) - (k - 1)] <= TestsTo[Len(files)]
    BY <2>1, <2>4
  <2> PICK f : f = Len(files) - k + 1
    OBVIOUS
  <2>6. f \in 1 .. Len(files) /\ f - 1 = Len(files) - k /\ f = Len(files) - (k - 1)
    BY <1>1, <2>2, <2>3
  <2>7. TestsTo[f] = TestsTo[f - 1] + Tests(f) /\ Tests(f) \in Nat
    BY <1>1, <2>6
  <2>8. TestsTo[f - 1] \in Nat /\ TestsTo[f] \in Nat /\ TestsTo[Len(files)] \in Nat
    BY <1>1, <2>6
  <2>9. TestsTo[f] <= TestsTo[Len(files)] /\ ~ (TestsTo[f - 1] <= TestsTo[Len(files)])
    BY <2>2, <2>5, <2>6
  <2> QED
    BY <2>7, <2>8, <2>9
<1>3. Len(files) - m \in Nat /\ Len(files) - m <= Len(files) /\ Len(files) - (Len(files) - m) = m
  BY <1>1
<1>4. ~ (Len(files) - m \in X)
  BY <1>2
<1> QED
  BY <1>3, <1>4

(* -dt: which tests were run and how many run_test has still to pass over  *)
(* before the one of this round.                                           *)
TestInv ==
  /\ ran \in Seq(Nat) /\ ran = FilesTo(Len(ran))
  /\ cmd.mode # "tests" => ran = << >>
  /\ cmd.mode = "tests" =>
       /\ Len(ran) <= TestsTo[Len(files)]
       /\ pc = "new" => t = Len(ran)
       /\ pc \in {"add", "output"} => t # 0 /\ Len(ran) = IF run_test = 0 THEN t ELSE t - 1
       /\ (pc = "add" \/ (pc = "output" /\ ret = 0)) /\ run_test # 0 => run_test = t - TestsTo[done]
       /\ pc = "end" /\ ret = 0 => Len(ran) = TestsTo[Len(files)]

LEMMA SameFiles ==
  ASSUME cmd' = cmd
  PROVE  files' = files /\ TestsTo' = TestsTo /\ (n' = n => done' = done)
BY DEF files, TestsTo, Tests, done

LEMMA TestFacts ==
  ASSUME Assumptions, IInv, TestInv
  PROVE  /\ Len(files) \in Nat /\ Len(ran) \in Nat /\ t \in Nat /\ run_test \in Nat
         /\ n \in 0 .. Len(files) /\ done \in 0 .. Len(files)
         /\ \A m \in 0 .. Len(files) : TestsTo[m] \in Nat /\ TestsTo[m] <= TestsTo[Len(files)]
         /\ TestsTo[0] = 0
         /\ \A m \in 1 .. Len(files) : TestsTo[m] = TestsTo[m - 1] + Tests(m) /\ Tests(m) \in Nat
<1>1. cmd \in Commands /\ t \in Nat /\ run_test \in Nat /\ n \in 0 .. Len(files) /\ ran \in Seq(Nat)
  BY DEF IInv, TypeInv, TestInv
<1>2. Len(files) \in Nat
  BY <1>1, TestsSum
<1>3. Len(ran) \in Nat /\ done \in 0 .. Len(files)
  BY <1>1, <1>2 DEF done
<1>4. /\ TestsTo \in [0 .. Len(files) -> Nat] /\ TestsTo[0] = 0
      /\ \A m \in 1 .. Len(files) : TestsTo[m] = TestsTo[m - 1] + Tests(m) /\ Tests(m) \in Nat
  BY <1>1, TestsSum
<1>5. \A m \in 0 .. Len(files) : TestsTo[m] <= TestsTo[Len(files)]
  BY <1>1, TestsGrow
<1> QED
  BY <1>1, <1>2, <1>3, <1>4, <1>5

LEMMA TestInit == ASSUME Assumptions, Init PROVE TestInv
<1>1. ran = FilesTo(0) /\ ran \in Seq(Nat) /\ Len(ran) = 0
  BY NoPrefix DEF Init
<1>2. cmd \in Commands /\ t = 0 /\ pc = "new"
  BY DEF Init
<1>3. Len(files) \in Nat /\ TestsTo[Len(files)] \in Nat
  BY <1>2, TestsSum
<1> QED
  BY <1>1, <1>2, <1>3 DEF TestInv, Init

LEMMA TestNewState == ASSUME Assumptions, IInv, TestInv, NewState PROVE TestInv'
<1>1. /\ cmd' = cmd /\ ran' = ran /\ pc' = "add" /\ pc = "new"
      /\ cmd.mode = "tests" => t' = t + 1 /\ run_test' = t + 1 /\ n' = Len(files)
  BY DEF NewState
<1>2. files' = files /\ TestsTo' = TestsTo
  BY <1>1, SameFiles
<1>3. Len(files) \in Nat /\ t \in Nat /\ TestsTo[0] = 0
  BY TestFacts
<1>4. cmd.mode = "tests" => TestsTo'[done'] = 0 /\ t' \in Nat /\ t' # 0
  BY <1>1, <1>2, <1>3 DEF done
<1> QED
  BY <1>1, <1>2, <1>3, <1>4 DEF TestInv

(* A file is done with: what the caller says of run_test and ran is what   *)
(* TestInv wants.                                                          *)
LEMMA TestAdded ==
  ASSUME Assumptions, IInv, TestInv, NEW failed \in BOOLEAN, pc = "add", Added(failed),
         \/ ran' = ran /\ run_test' = run_test
            /\ (~ failed => Tests(current) = 0)
         \/ \E seen \in 0 .. Tests(current) :
              /\ ~ failed => seen = Tests(current)
              /\ IF run_test # 0 /\ seen >= run_test
                 THEN run_test' = 0 /\ ran' = Append(ran, t)
                 ELSE run_test' = (IF run_test = 0 THEN 0 ELSE run_test - seen) /\ ran' = ran
  PROVE  TestInv'
<1>1. /\ cmd' = cmd /\ t' = t /\ n' = n - 1 /\ pc' \in {"add", "output"}
      /\ ret' = IF failed THEN 1 ELSE 0
      /\ failed => pc' = "output"
  BY DEF Added
<1>2. files' = files /\ TestsTo' = TestsTo
  BY <1>1, SameFiles
<1>3. /\ Len(files) \in Nat /\ Len(ran) \in Nat /\ t \in Nat /\ run_test \in Nat
      /\ n \in 1 .. Len(files)
      /\ \A m \in 0 .. Len(files) : TestsTo[m] \in Nat /\ TestsTo[m] <= TestsTo[Len(files)]
      /\ \A m \in 1 .. Len(files) : TestsTo[m] = TestsTo[m - 1] + Tests(m) /\ Tests(m) \in Nat
  BY TestFacts DEF IInv, RoundInv
<1> PICK f : f = current
  OBVIOUS
<1>4. /\ f \in 1 .. Len(files) /\ done = f - 1 /\ done' = f
      /\ TestsTo[f] = TestsTo[f - 1] + Tests(f) /\ Tests(f) \in Nat
      /\ TestsTo[f] \in Nat /\ TestsTo[f - 1] \in Nat /\ TestsTo[f] <= TestsTo[Len(files)]
  <2>1. f \in 1 .. Len(files) /\ done = f - 1 /\ done' = f
    BY <1>1, <1>2, <1>3 DEF done, current
  <2> QED
    BY <1>3, <2>1
<1>5. PICK seen \in 0 .. Tests(f) :
        /\ ~ failed => seen = Tests(f)
        /\ \/ run_test # 0 /\ seen >= run_test /\ run_test' = 0 /\ ran' = Append(ran, t)
           \/ ~ (run_test # 0 /\ seen >= run_test) /\ ran' = ran
              /\ run_test' = IF run_test = 0 THEN 0 ELSE run_test - seen
  <2>1. CASE ran' = ran /\ run_test' = run_test /\ (~ failed => Tests(f) = 0)
    <3>1. 0 \in 0 .. Tests(f) /\ ~ (run_test # 0 /\ 0 >= run_test)
          /\ run_test' = IF run_test = 0 THEN 0 ELSE run_test - 0
      BY <1>3, <1>4, <2>1
    <3> QED
      BY <2>1, <3>1
  <2>2. CASE \E seen \in 0 .. Tests(f) :
              /\ ~ failed => seen = Tests(f)
              /\ IF run_test # 0 /\ seen >= run_test
                 THEN run_test' = 0 /\ ran' = Append(ran, t)
                 ELSE run_test' = (IF run_test = 0 THEN 0 ELSE run_test - seen) /\ ran' = ran
    BY <2>2
  <2> QED
    BY <2>1, <2>2
<1>6. CASE cmd.mode # "tests"
  <2>1. run_test = 0
    BY <1>6 DEF IInv, RoundInv
  <2>2. ran' = ran
    BY <1>5, <2>1
  <2> QED
    BY <1>1, <1>6, <2>2 DEF TestInv
<1>7. CASE cmd.mode = "tests"
  <2>1. /\ Len(ran) <= TestsTo[Len(files)] /\ t # 0
        /\ Len(ran) = IF run_test = 0 THEN t ELSE t - 1
        /\ run_test # 0 => run_test = t - TestsTo[f - 1]
        /\ ran \in Seq(Nat) /\ ran = FilesTo(Len(ran))
    BY <1>4, <1>7 DEF TestInv
  <2>2. CASE run_test # 0 /\ seen >= run_test /\ run_test' = 0 /\ ran' = Append(ran, t)
    <3>1. t = Len(ran) + 1 /\ t <= TestsTo[f]
      BY <1>3, <1>4, <2>1, <2>2
    <3>2. ran' \in Seq(Nat) /\ Len(ran') = t
      BY <1>3, <2>1, <2>2, <3>1
    <3>3. ran' = FilesTo(Len(ran'))
      BY <1>3, <2>1, <2>2, <3>1, <3>2, NextFile
    <3>4. t <= TestsTo[Len(files)]
      BY <1>3, <1>4, <3>1, SMTT(30)
    <3> QED
      BY <1>1, <1>2, <1>7, <2>1, <2>2, <3>2, <3>3, <3>4 DEF TestInv
  <2>3. CASE /\ ~ (run_test # 0 /\ seen >= run_test) /\ ran' = ran
             /\ run_test' = IF run_test = 0 THEN 0 ELSE run_test - seen
    <3>1. run_test' \in Nat /\ (run_test' = 0 <=> run_test = 0)
      BY <1>3, <1>4, <2>3
    <3>2. ~ failed /\ run_test' # 0 => run_test' = t - TestsTo[f]
      BY <1>3, <1>4, <1>5, <2>1, <2>3
    <3>3. pc' = "add" \/ (pc' = "output" /\ ret' = 0) => ~ failed
      BY <1>1
    <3> QED
      BY <1>1, <1>2, <1>4, <1>7, <2>1, <2>3, <3>1, <3>2, <3>3 DEF TestInv
  <2> QED
    BY <1>5, <2>2, <2>3
<1> QED
  BY <1>6, <1>7

(* A round ends.                                                           *)
LEMMA TestAfter ==
  ASSUME Assumptions, IInv, TestInv, NEW result \in {0, 1}, pc = "output", After(result),
         cmd' = cmd, n' = n, ran' = ran, cmd.mode = "tests" => result = ret
  PROVE  TestInv'
<1>1. files' = files /\ TestsTo' = TestsTo /\ done' = done
  BY SameFiles
<1>2. CASE cmd.mode # "tests"
  BY <1>2 DEF TestInv
<1>3. CASE cmd.mode = "tests"
  <2>1. /\ Len(files) \in Nat /\ Len(ran) \in Nat /\ t \in Nat /\ run_test \in Nat
        /\ TestsTo[Len(files)] \in Nat
    BY TestFacts
  <2>2. ret = 0 => n = 0 /\ done = Len(files)
    BY <1>3, <2>1 DEF IInv, AddedInv, done
  <2>3. /\ Len(ran) <= TestsTo[Len(files)] /\ t # 0
        /\ Len(ran) = IF run_test = 0 THEN t ELSE t - 1
        /\ ret = 0 /\ run_test # 0 => run_test = t - TestsTo[Len(files)]
    BY <1>3, <2>2 DEF TestInv
  <2>4. CASE run_test = 0
    <3>1. t' = t /\ pc' = "new" /\ t = Len(ran)
      BY <2>3, <2>4 DEF After
    <3> QED
      BY <1>1, <1>3, <2>3, <3>1 DEF TestInv
  <2>5. CASE run_test # 0
    <3>1. ret' = ret /\ pc' = "end"
      BY <1>3, <2>2, <2>5 DEF After
    <3>2. ret = 0 => Len(ran) = TestsTo[Len(files)]
      BY <2>1, <2>3, <2>5
    <3> QED
      BY <1>1, <1>3, <2>3, <3>1, <3>2 DEF TestInv
  <2> QED
    BY <2>4, <2>5
<1> QED
  BY <1>2, <1>3

LEMMA TestNext == ASSUME Assumptions, IInv, TestInv, [Next]_vars PROVE TestInv'
<1>1. CASE Refuse
  <2>1. /\ cmd' = cmd /\ ran' = ran /\ pc' = "end" /\ ret' = 1
    BY <1>1 DEF Refuse, Exit
  <2> QED
    BY <2>1, SameFiles DEF TestInv
<1>2. CASE NewState
  BY <1>2, TestNewState
<1>3. CASE AddMissing
  <2>1. Added(TRUE) /\ pc = "add" /\ ran' = ran /\ run_test' = run_test
    BY <1>3 DEF AddMissing
  <2> QED
    BY <2>1, TestAdded
<1>4. CASE AddBinary
  <2>1. Tests(current) = 0
    BY <1>4 DEF AddBinary, Tests
  <2>2. PICK failed \in BOOLEAN : Added(failed)
    BY <1>4 DEF AddBinary
  <2>3. pc = "add" /\ ran' = ran /\ run_test' = run_test
    BY <1>4 DEF AddBinary
  <2> QED
    BY <2>1, <2>2, <2>3, TestAdded
<1>5. ASSUME NEW seen \in 0 .. 2, AddSource(seen) PROVE TestInv'
  <2> DEFINE errors == IF files[current].does = "well" THEN 0 ELSE 1
  <2> PICK failed \in BOOLEAN : failed <=> files[current].does # "well"
    BY Zenon
  <2>1. pc = "add" /\ Tests(current) = files[current].tests /\ seen <= Tests(current)
        /\ (~ failed => seen = Tests(current))
    BY <1>5 DEF AddSource, Tests
  <2>2. IF run_test # 0 /\ seen >= run_test
        THEN run_test' = 0 /\ ran' = Append(ran, t)
        ELSE run_test' = (IF run_test = 0 THEN 0 ELSE run_test - seen) /\ ran' = ran
    BY <1>5 DEF AddSource, Found
  <2>3. Added(failed)
    <3>1. Added(errors > 0)
      BY <1>5, Zenon DEF AddSource
    <3>2. CASE failed
      <4>1. errors = 1
        BY <3>2
      <4> QED
        BY <3>1, <3>2, <4>1 DEF Added
    <3>3. CASE ~ failed
      <4>1. errors = 0
        BY <3>3
      <4> QED
        BY <3>1, <3>3, <4>1 DEF Added
    <3> QED
      BY <3>2, <3>3
  <2>4. seen \in 0 .. Tests(current)
    <3>1. current \in 1 .. Len(files)
      BY <2>1, TestFacts DEF IInv, RoundInv, current
    <3>2. Tests(current) \in Nat
      BY <3>1, TestFacts
    <3> QED
      BY <1>5, <2>1, <3>2
  <2> QED
    BY <2>1, <2>2, <2>3, <2>4, TestAdded
<1>6. CASE NoOutput
  <2>1. ret \in {0, 1} /\ cmd' = cmd /\ n' = n /\ ran' = ran /\ pc = "output" /\ After(ret)
    BY <1>6 DEF NoOutput, IInv, TypeInv
  <2> QED
    BY <2>1, TestAfter
<1>7. ASSUME NEW link \in Links, OutputObject(link) PROVE TestInv'
  <2>1. cmd' = cmd /\ n' = n /\ ran' = ran /\ pc = "output" /\ cmd.mode # "tests"
    BY <1>7 DEF OutputObject
  <2>2. PICK result \in {0, 1} : After(result)
    BY <1>7 DEF OutputObject
  <2> QED
    BY <2>1, <2>2, TestAfter
<1>8. ASSUME NEW link \in Links, OutputImage(link) PROVE TestInv'
  <2>1. cmd' = cmd /\ ran' = ran /\ cmd.mode # "tests"
    BY <1>8 DEF OutputImage
  <2> QED
    BY <2>1 DEF TestInv
<1>9. CASE UNCHANGED vars
  <2>1. /\ cmd' = cmd /\ n' = n /\ ran' = ran /\ pc' = pc /\ t' = t /\ run_test' = run_test /\ ret' = ret
    BY <1>9 DEF vars
  <2> QED
    BY <2>1, SameFiles DEF TestInv
<1> QED
  BY <1>1, <1>2, <1>3, <1>4, <1>5, <1>6, <1>7, <1>8, <1>9 DEF Next

(* -dt runs each test once and in order, and when main returns 0 it has    *)
(* run all that are in the C files: maybe_run_test, which counts run_test  *)
(* down over the files, and the rounds of main neither skip nor repeat.    *)
THEOREM TestsAlwaysInOrder == ASSUME Assumptions PROVE Spec => []TestsInOrder
<1>1. Init => IInv /\ TestInv
  BY InitIInv, TestInit
<1>2. (IInv /\ TestInv) /\ [Next]_vars => (IInv /\ TestInv)'
  BY NextIInv, TestNext
<1>3. IInv /\ TestInv => TestsInOrder
  BY DEF TestInv, TestsInOrder, FilesTo
<1> QED
  BY <1>1, <1>2, <1>3, PTL DEF Spec
=============================================================================
