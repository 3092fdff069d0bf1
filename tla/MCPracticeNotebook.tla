-------------------------- MODULE MCPracticeNotebook --------------------------
(***************************************************************************)
(* PracticeNotebook on a small instance.                                   *)
(***************************************************************************)
EXTENDS PracticeNotebook
=============================================================================
