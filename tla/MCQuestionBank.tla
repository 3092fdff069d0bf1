---------------------------- MODULE MCQuestionBank ----------------------------
(***************************************************************************)
(* QuestionBank on small instances.                                        *)
(***************************************************************************)
EXTENDS QuestionBank, TLC

\* Requests are alike, and so are sources.
Symmetric == Permutations(Requests) \cup Permutations(Sources)
=============================================================================
