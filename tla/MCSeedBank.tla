------------------------------ MODULE MCSeedBank ------------------------------
(***************************************************************************)
(* SeedBank on the data of the repository: on all 27 subjects, and on four *)
(* that follow one another and hold the two that share a file name.        *)
(***************************************************************************)
EXTENDS SeedBank, SeedData

All == Merged
Few == SubSeq(Merged, 12, 15)
=============================================================================
