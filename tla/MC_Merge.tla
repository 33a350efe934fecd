------------------------------ MODULE MC_Merge ------------------------------
(* ElfSymtab in two scenes: files with two names, compiled and merged, and *)
(* one name of which every kind of symbol is handed in.                    *)
EXTENDS MC_ElfSymtab

VARIABLE scene

Scenes == {"files", "name"}

\* what a step from the linker's level may begin
Begins ==
  IF scene = "name" THEN pc' # "file" /\ arg'.name = a
  ELSE pc' = "file" \/ \E t \in Library : arg' = Named(arg'.name, t)

InScenes ==
  /\ Init /\ scene \in Scenes
  /\ [][Next /\ UNCHANGED scene /\ (pc = "idle" => Begins)]_<<vars, scene>>
=============================================================================
