------------------------------- MODULE ExamPaper -------------------------------
(***************************************************************************)
(* The questions of one exam (`exam_questions`) while staff edit them and  *)
(* students' answers are graded against them.                              *)
(*                                                                         *)
(* SetQuestions (exam_repository.go) is one DELETE and one INSERT per      *)
(* question, without a transaction and with every error dropped; Submit    *)
(* and GetSubmissionResult (submission_service.go) each read the list once *)
(* and trust it.  An editor is a goroutine slot for POST and PUT /exams, a *)
(* student is one attempt: its Submit and the recovery of its result.      *)
(*                                                                         *)
(* Scores are kept in hundredths of a point (0..1000).  The code computes  *)
(* them with binary floating point and math.Round; Nearest gives both      *)
(* neighbours of an exact half, which floats may round either way.         *)
(***************************************************************************)
EXTENDS Integers, FiniteSets, Sequences

CONSTANTS
    Editors,         \* goroutine slots that create and update the exam
    Students,        \* attempts that are submitted
    Questions,       \* approved questions of the bank
    Lists,           \* the question_ids a client may send
    StatementsFail,  \* TRUE: a statement may return an error
    MayCrash         \* TRUE: the process may die

ASSUME SetsAssumption ==
    /\ IsFiniteSet(Questions)
    /\ Lists \subseteq Seq(Questions)

\* From a thousand questions on, a score in hundredths no longer tells one
\* right answer from the next (RoundTrip in ExamPaperProofs).
ASSUME SizeAssumption == Cardinality(Questions) < 1000

ASSUME FlagsAssumption == StatementsFail \in BOOLEAN /\ MayCrash \in BOOLEAN

VARIABLES
    exam,       \* the row of `exams` is there
    paper,      \* `exam_questions` of this exam
    last,       \* the list sent last (history)
    calm,       \* no two edits overlapped, none failed or crashed (history)
    pc,         \* where each editor stands
    list,       \* in.QuestionIDs of each editor
    next,       \* the index in it to insert next
    step,       \* where each student stands
    ids,        \* questionIDs of its Submit
    marks,      \* the answers graded so far: question -> right
    graded,     \* the answer of Submit
    recovered   \* the answer of GetSubmissionResult

editing == <<exam, paper, last, calm, pc, list, next>>
grading == <<step, ids, marks, graded, recovered>>
vars == <<exam, paper, last, calm, pc, list, next, step, ids, marks, graded, recovered>>

PaperRow == [question: Questions, order: Nat]
In(p) == {row.question : row \in p}

\* The rows the first n questions of l leave: (exam_id, question_id) is the
\* primary key, so a question keeps the row of its first occurrence.
RowsUpTo(l, n) ==
    {[question |-> l[i], order |-> i - 1] :
        i \in {j \in 1..n : \A k \in 1..(j - 1) : l[k] # l[j]}}
RowsOf(l) == RowsUpTo(l, Len(l))

Result(total, correct, score) == [total |-> total, correct |-> correct, score |-> score]
NoResult == Result(0, 0, 0)
Results == [total: Nat, correct: Nat, score: 0..1000]

\* A sheet graded in part.
Marks == UNION {[Q -> BOOLEAN] : Q \in SUBSET Questions}
Unmarked == [q \in {} |-> FALSE]

TypeOK ==
    /\ exam \in BOOLEAN
    /\ paper \in SUBSET PaperRow
    /\ last \in Seq(Questions)
    /\ calm \in BOOLEAN
    /\ pc \in [Editors -> {"idle", "delete", "insert"}]
    /\ list \in [Editors -> Seq(Questions)]
    /\ next \in [Editors -> Nat \ {0}]
    /\ step \in [Students -> {"open", "grading", "graded"}]
    /\ ids \in [Students -> SUBSET Questions]
    /\ marks \in [Students -> Marks]
    /\ graded \in [Students -> Results]
    /\ recovered \in [Students -> Results]

Init ==
    /\ exam = FALSE
    /\ paper = {}
    /\ last = <<>>
    /\ calm = TRUE
    /\ pc = [e \in Editors |-> "idle"]
    /\ list = [e \in Editors |-> <<>>]
    /\ next = [e \in Editors |-> 1]
    /\ step = [s \in Students |-> "open"]
    /\ ids = [s \in Students |-> {}]
    /\ marks = [s \in Students |-> Unmarked]
    /\ graded = [s \in Students |-> NoResult]
    /\ recovered = [s \in Students |-> NoResult]

-----------------------------------------------------------------------------
(* Scores *)

\* The integers nearest to n / d.
Nearest(n, d) ==
    {k \in (n \div d)..((n \div d) + 1) :
        2 * (k * d) - d <= 2 * n /\ 2 * n <= 2 * (k * d) + d}

\* score = correct / total * 10, rounded to two decimals.
Scores(correct, total) == Nearest(1000 * correct, total)

\* correct = TotalScore / 10 * total, rounded.
CountsTruncated(score, total) == {(score * total) \div 1000}
Counts(score, total) == Nearest(score * total, 1000)

-----------------------------------------------------------------------------
(* Editing *)

\* The list of an edit that begins.
Sends(e) ==
    /\ \E l \in Lists : list' = [list EXCEPT ![e] = l] /\ last' = l
    /\ calm' = (calm /\ \A d \in Editors : pc[d] = "idle")
    /\ pc' = [pc EXCEPT ![e] = "delete"]

\* Create saves the exam first and its questions after.
SaveNew(e) ==
    /\ pc[e] = "idle" /\ ~exam
    /\ exam' = TRUE
    /\ Sends(e)
    /\ UNCHANGED <<paper, next, grading>>

\* Update replaces the questions only when the client sent the field.
SaveChanged(e) ==
    /\ pc[e] = "idle" /\ exam
    /\ Sends(e)
    /\ UNCHANGED <<exam, paper, next, grading>>

\* A statement of SetQuestions that fails: nobody hears of it.
Fails == StatementsFail /\ calm' = FALSE /\ UNCHANGED paper

\* The DELETE of SetQuestions.
ClearSkipped(e) ==
    /\ pc[e] = "delete"
    /\ pc' = [pc EXCEPT ![e] = "insert"]
    /\ UNCHANGED <<exam, paper, last, calm, list, next, grading>>
Clear(e) ==
    /\ pc[e] = "delete"
    /\ \/ paper' = {} /\ UNCHANGED calm
       \/ Fails
    /\ pc' = [pc EXCEPT ![e] = "insert"]
    /\ UNCHANGED <<exam, last, list, next, grading>>

\* One INSERT of SetQuestions; a duplicate key is an error like any other.
Insert(e) ==
    /\ pc[e] = "insert" /\ next[e] <= Len(list[e])
    /\ LET q == list[e][next[e]]
       IN  \/ /\ q \notin In(paper)
              /\ paper' = paper \cup {[question |-> q, order |-> next[e] - 1]}
              /\ UNCHANGED calm
           \/ /\ q \in In(paper)
              /\ UNCHANGED <<paper, calm>>
           \/ Fails
    /\ next' = [next EXCEPT ![e] = @ + 1]
    /\ UNCHANGED <<exam, last, pc, list, grading>>

Answer(e) ==
    /\ pc[e] = "insert" /\ next[e] > Len(list[e])
    /\ pc' = [pc EXCEPT ![e] = "idle"]
    /\ next' = [next EXCEPT ![e] = 1]
    /\ UNCHANGED <<exam, paper, last, calm, list, grading>>

-----------------------------------------------------------------------------
(* Grading *)

\* Submit reads the paper once; an empty one refuses the request.
ReadPaper(s) ==
    /\ step[s] = "open"
    /\ exam /\ paper # {}
    /\ step' = [step EXCEPT ![s] = "grading"]
    /\ ids' = [ids EXCEPT ![s] = In(paper)]
    /\ marks' = [marks EXCEPT ![s] = Unmarked]
    /\ UNCHANGED <<editing, graded, recovered>>

\* The next answer of the sheet: the first one to a question of the paper is
\* graded, the others are passed over.  A FindAnswer that fails counts as
\* wrong.
GradableAny(s, q) == q \notin DOMAIN marks[s]
Gradable(s, q) == q \in ids[s] /\ q \notin DOMAIN marks[s]
GradeAnswer(s) ==
    /\ step[s] = "grading"
    /\ \E q \in Questions, right \in BOOLEAN :
         /\ Gradable(s, q)
         /\ marks' = [marks EXCEPT ![s] =
                        [p \in DOMAIN @ \cup {q} |-> IF p = q THEN right ELSE @[p]]]
    /\ UNCHANGED <<editing, step, ids, graded, recovered>>

\* The score is saved with the submission, and the number of right answers
\* that Submit reports is worked out of the rounded score.
Right(s) == {q \in DOMAIN marks[s] : marks[s][q]}
SaveGrade(s) ==
    /\ step[s] = "grading"
    /\ LET total == Cardinality(ids[s])
       IN  \E h \in Scores(Cardinality(Right(s)), total) : \E k \in Counts(h, total) :
             graded' = [graded EXCEPT ![s] = Result(total, k, h)]
    /\ step' = [step EXCEPT ![s] = "graded"]
    /\ UNCHANGED <<editing, ids, marks, recovered>>

\* SubmitTx fails and rolls back: the attempt is still open.
SaveFails(s) ==
    /\ StatementsFail /\ step[s] = "grading"
    /\ step' = [step EXCEPT ![s] = "open"]
    /\ UNCHANGED <<editing, ids, marks, graded, recovered>>

\* GetSubmissionResult does the same with the paper as it is by now.
Recover(s) ==
    /\ step[s] = "graded"
    /\ paper # {}
    /\ LET total == Cardinality(In(paper))
       IN  \E k \in Counts(graded[s].score, total) :
             recovered' = [recovered EXCEPT ![s] = Result(total, k, graded[s].score)]
    /\ UNCHANGED <<editing, step, ids, marks, graded>>

-----------------------------------------------------------------------------
Crash ==
    /\ MayCrash
    /\ calm' = FALSE
    /\ pc' = [e \in Editors |-> "idle"]
    /\ next' = [e \in Editors |-> 1]
    /\ step' = [s \in Students |-> IF step[s] = "graded" THEN "graded" ELSE "open"]
    /\ UNCHANGED <<exam, paper, last, list, ids, marks, graded, recovered>>

Edit(e) == SaveNew(e) \/ SaveChanged(e) \/ Clear(e) \/ Insert(e) \/ Answer(e)
Grade(s) ==
    ReadPaper(s) \/ GradeAnswer(s) \/ SaveGrade(s) \/ SaveFails(s) \/ Recover(s)

Next ==
    \/ \E e \in Editors : Edit(e)
    \/ \E s \in Students : Grade(s)
    \/ Crash

Spec == Init /\ [][Next]_vars

-----------------------------------------------------------------------------
(* Properties *)

\* Whatever happens to the paper while a sheet is graded, Submit reports as
\* many right answers as it counted, out of a score rounded to hundredths, and
\* never more than there are questions.
ReportedIsRight ==
    \A s \in Students : step[s] = "graded" =>
        /\ graded[s].correct = Cardinality(Right(s))
        /\ graded[s].correct <= graded[s].total

\* A result recovered on a paper of the same size, whatever questions it has
\* by then, has the score of the submission and tells how many of its answers
\* were right: the way through hundredths of a point loses nothing.
RecoveredOnSameSize ==
    \A s \in Students : recovered[s].total # 0 /\ recovered[s].total = graded[s].total =>
        /\ recovered[s].score = graded[s].score
        /\ recovered[s].correct = Cardinality(Right(s))

\* As long as no edits overlap and none fails, the paper between edits is the
\* list sent last, in its order and with each question once.
PaperIsLast ==
    calm /\ (\A e \in Editors : pc[e] = "idle") => paper = RowsOf(last)

-----------------------------------------------------------------------------
(* What makes them inductive *)

\* A sheet has marks for questions of the paper it read only.
MarksFit ==
    \A s \in Students : step[s] # "open" =>
        DOMAIN marks[s] \subseteq ids[s] /\ ids[s] # {}

\* What Submit answered is consistent with itself, and a recovered result
\* carries the score of the submission.
ResultsFit ==
    \A s \in Students :
        /\ step[s] = "graded" =>
             /\ graded[s].total = Cardinality(ids[s])
             /\ graded[s].score \in Scores(Cardinality(Right(s)), graded[s].total)
             /\ graded[s].correct \in Counts(graded[s].score, graded[s].total)
        /\ recovered[s].total # 0 =>
             /\ step[s] = "graded"
             /\ recovered[s].score = graded[s].score
             /\ recovered[s].correct \in Counts(recovered[s].score, recovered[s].total)

\* As long as it is calm, one editor works at a time, the paper is the part of
\* the list it has written, and it skips exactly the questions it wrote before.
PaperWritten ==
    /\ calm => \A d, e \in Editors : pc[d] # "idle" /\ pc[e] # "idle" => d = e
    /\ \A e \in Editors :
         /\ pc[e] # "insert" => next[e] = 1
         /\ pc[e] = "insert" => next[e] \in 1..(Len(list[e]) + 1)
         /\ calm /\ pc[e] # "idle" => list[e] = last
         /\ calm /\ pc[e] = "insert" =>
              /\ paper = RowsUpTo(last, next[e] - 1)
              /\ In(paper) = {last[k] : k \in 1..(next[e] - 1)}
=============================================================================
