--------------------------- MODULE MCTakeExamPage ---------------------------
(***************************************************************************)
(* TakeExamPage on a small instance.                                       *)
(***************************************************************************)
EXTENDS TakeExamPage
=============================================================================
