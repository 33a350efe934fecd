---------------------------- MODULE MC_PEImport ----------------------------
(* PEImport on the names of ImportNames. *)
EXTENDS PEImport, ImportNames
=============================================================================
