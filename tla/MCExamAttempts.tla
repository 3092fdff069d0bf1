--------------------------- MODULE MCExamAttempts ---------------------------
(***************************************************************************)
(* ExamAttempts on small instances.  The goroutine slots are               *)
(* interchangeable, so their permutations are a symmetry of every          *)
(* invariant and action property checked here.                             *)
(***************************************************************************)
EXTENDS ExamAttempts, TLC

Symmetric == Permutations(Requests)
=============================================================================
