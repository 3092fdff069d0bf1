----------------------------- MODULE MCExamPaper -----------------------------
(***************************************************************************)
(* ExamPaper on small instances: three questions, and lists that grow,     *)
(* shrink, reorder, repeat a question and empty the paper.                 *)
(***************************************************************************)
EXTENDS ExamPaper, TLC

CONSTANTS q1, q2, q3

MCQuestions == {q1, q2, q3}

\* The editors are alike.
Symmetric == Permutations(Editors)

MCLists == {<<q1, q2, q3>>, <<q3, q1>>, <<q2, q2>>, <<>>}
=============================================================================
