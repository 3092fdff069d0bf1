------------------------------ MODULE QuestionBank ------------------------------
(***************************************************************************)
(* One question of the bank: its row, its answers, its source, its way     *)
(* through review, and the exam that uses it (question_service.go,         *)
(* import_service.go, source_service.go and the list of an exam).          *)
(*                                                                         *)
(* Every statement commits on its own.  A request reads the question whole *)
(* (FindByID preloads the answers and the source) and saves it whole:      *)
(*  - Save updates every column, or inserts the row again if it is gone;   *)
(*  - with the source preloaded, it sets source_id back to that source;    *)
(*  - with the answers preloaded, it inserts those that are gone again.    *)
(*                                                                         *)
(* The n-th accepted form (a Create, an Update, a row of an Import) is the *)
(* number n: it stands for the text of the question and for the answers    *)
(* that came with it, validated to hold exactly one right answer and       *)
(* inserted by one statement.                                              *)
(***************************************************************************)
EXTENDS Integers, FiniteSets

CONSTANTS
    Requests,        \* goroutine slots
    Sources,         \* rows of `sources`
    NoSource,        \* source_id where there is no question
    MaxForms,        \* bound on the forms accepted
    StatementsFail,  \* TRUE: a statement may return an error
    MayCrash         \* TRUE: the process may die

ASSUME BoundsAssumption == NoSource \notin Sources /\ MaxForms \in Nat
ASSUME FlagsAssumption == StatementsFail \in BOOLEAN /\ MayCrash \in BOOLEAN

VARIABLES
    row,        \* the row of `questions`
    answers,    \* the forms whose answers are in `answers`
    verified,   \* sources.verification_status = "verified"
    used,       \* `exam_questions` of the exam holds the question
    forms,      \* number of forms accepted
    approvals,  \* the forms an administrator approved (history)
    calm,       \* no requests overlapped, none failed or crashed (history)
    pc,         \* where each request stands
    copy,       \* the question as it read it
    read,       \* the answers it preloaded
    form,       \* the form it brings
    wanted      \* in.SourceID of that form

store == <<row, answers, verified, used>>
memory == <<copy, read, form, wanted>>
vars == <<row, answers, verified, used, forms, approvals, calm, pc, copy, read, form, wanted>>

Forms == 0..MaxForms  \* 0 is none
Reviews == {"draft", "pending", "approved", "rejected"}
Row == [there: BOOLEAN, form: Forms, source: Sources \cup {NoSource},
        review: Reviews, status: {"draft", "active"}]
Question(f, s, review, status) ==
    [there |-> TRUE, form |-> f, source |-> s, review |-> review, status |-> status]
NoRow == [there |-> FALSE, form |-> 0, source |-> NoSource,
          review |-> "draft", status |-> "draft"]

PCs == {"idle", "create_row", "import_row", "create_answers",
        "update_used", "update_source", "update_save", "update_clear", "update_answers",
        "submit_source", "submit_save", "review_save", "put_back",
        "delete_used", "delete_answers", "delete_row",
        "exam_clear", "exam_insert"}

TypeOK ==
    /\ row \in Row
    /\ answers \in SUBSET Forms
    /\ verified \in [Sources -> BOOLEAN]
    /\ used \in BOOLEAN
    /\ forms \in Forms
    /\ approvals \in SUBSET Forms
    /\ calm \in BOOLEAN
    /\ pc \in [Requests -> PCs]
    /\ copy \in [Requests -> Row]
    /\ read \in [Requests -> SUBSET Forms]
    /\ form \in [Requests -> Forms]
    /\ wanted \in [Requests -> Sources \cup {NoSource}]

Init ==
    /\ row = NoRow
    /\ answers = {}
    /\ verified = [s \in Sources |-> FALSE]
    /\ used = FALSE
    /\ forms = 0
    /\ approvals = {}
    /\ calm = TRUE
    /\ pc = [r \in Requests |-> "idle"]
    /\ copy = [r \in Requests |-> NoRow]
    /\ read = [r \in Requests |-> {}]
    /\ form = [r \in Requests |-> 0]
    /\ wanted = [r \in Requests |-> NoSource]

-----------------------------------------------------------------------------
(* Steps of a request *)

Goto(r, l) == pc' = [pc EXCEPT ![r] = l]

\* A request arrives and goes on at l, alone or not.
Arrive(r, l) ==
    /\ pc[r] = "idle"
    /\ Goto(r, l)
    /\ calm' = (calm /\ \A q \in Requests : pc[q] = "idle")

\* FindByID.
Find(r) ==
    /\ row.there
    /\ copy' = [copy EXCEPT ![r] = row]
    /\ read' = [read EXCEPT ![r] = answers]

\* The form of a Create, an Update or a row of an Import, with its source.
Brings(r, s) ==
    /\ forms < MaxForms
    /\ forms' = forms + 1
    /\ form' = [form EXCEPT ![r] = forms + 1]
    /\ wanted' = [wanted EXCEPT ![r] = s]

\* The request ends, answered or refused, and what it had read is gone.
End(r) ==
    /\ Goto(r, "idle")
    /\ copy' = [copy EXCEPT ![r] = NoRow]
    /\ read' = [read EXCEPT ![r] = {}]
    /\ form' = [form EXCEPT ![r] = 0]
    /\ wanted' = [wanted EXCEPT ![r] = NoSource]
Finish(r) == End(r) /\ UNCHANGED <<forms, approvals, calm>>
Continue(r, l) == Goto(r, l) /\ UNCHANGED <<forms, approvals, calm, memory>>

\* UsedCount: an error of the COUNT is dropped and reads as zero.
InUseUnchecked(r) == used /\ FALSE
InUse(r) == used
SeemsUnused(r, l) ==
    \/ /\ ~InUse(r)
       /\ Continue(r, l)
    \/ /\ StatementsFail
       /\ Goto(r, l)
       /\ calm' = FALSE
       /\ UNCHANGED <<forms, approvals, memory>>

-----------------------------------------------------------------------------
(* Create and Import *)

\* Create demands a verified source.
CreateStart(r) ==
    /\ forms = 0
    /\ Arrive(r, "create_row")
    /\ \E s \in Sources : verified[s] /\ Brings(r, s)
    /\ UNCHANGED <<store, approvals, copy, read>>

\* Import finds or creates the source, whatever its state.
ImportStart(r) ==
    /\ forms = 0
    /\ Arrive(r, "import_row")
    /\ \E s \in Sources : Brings(r, s)
    /\ UNCHANGED <<store, approvals, copy, read>>

CreateRow(r) ==
    /\ \/ /\ pc[r] = "create_row"
          /\ \E review \in {"draft", "pending"} :
               row' = Question(form[r], wanted[r], review, "draft")
       \/ /\ pc[r] = "import_row"
          /\ row' = Question(form[r], wanted[r], "pending", "draft")
    /\ Continue(r, "create_answers")
    /\ UNCHANGED <<answers, verified, used>>

CreateAnswers(r) ==
    /\ pc[r] = "create_answers"
    /\ answers' = answers \cup {form[r]}
    /\ Finish(r)
    /\ UNCHANGED <<row, verified, used>>

-----------------------------------------------------------------------------
(* Update *)

UpdateFind(r) ==
    /\ Arrive(r, "update_used")
    /\ Find(r)
    /\ \E s \in Sources : Brings(r, s)
    /\ UNCHANGED <<store, approvals>>

UpdateUsed(r) ==
    /\ pc[r] = "update_used"
    /\ SeemsUnused(r, "update_source")
    /\ UNCHANGED store

\* RequireValidSource of the source in the form.
UpdateSource(r) ==
    /\ pc[r] = "update_source"
    /\ verified[wanted[r]]
    /\ Continue(r, "update_save")
    /\ UNCHANGED store

\* An approved question stays approved unless it is sent for review again;
\* only such a question gets the status of the form.
KeptStatus(r) == copy[r].status
KeptReview(r) == IF copy[r].review = "approved" THEN "approved" ELSE "draft"
StatusesAsSent(r) == {"draft", "active"}
Statuses(r) == {"draft"} \cup {status \in {"active"} : copy[r].review = "approved"}
UpdateSave(r) ==
    /\ pc[r] = "update_save"
    /\ \E review \in {"pending", KeptReview(r)}, status \in Statuses(r) :
         row' = Question(form[r], copy[r].source, review, status)
    /\ Continue(r, "update_clear")
    /\ UNCHANGED <<answers, verified, used>>

\* ReplaceAnswers, its DELETE and its INSERT.
UpdateKeep(r) ==
    /\ pc[r] = "update_clear"
    /\ Continue(r, "update_answers")
    /\ UNCHANGED store
UpdateClear(r) ==
    /\ pc[r] = "update_clear"
    /\ answers' = {}
    /\ Continue(r, "update_answers")
    /\ UNCHANGED <<row, verified, used>>

UpdateAnswers(r) ==
    /\ pc[r] = "update_answers"
    /\ answers' = answers \cup {form[r]}
    /\ Finish(r)
    /\ UNCHANGED <<row, verified, used>>

-----------------------------------------------------------------------------
(* SubmitForReview and Review *)

SubmitFind(r) ==
    /\ Arrive(r, "submit_source")
    /\ Find(r)
    /\ UNCHANGED <<store, forms, approvals, form, wanted>>

SubmitSource(r) ==
    /\ pc[r] = "submit_source"
    /\ verified[copy[r].source] /\ copy[r].review # "approved"
    /\ Continue(r, "submit_save")
    /\ UNCHANGED store

SubmitSave(r) ==
    /\ pc[r] = "submit_save"
    /\ row' = Question(copy[r].form, copy[r].source, "pending", "draft")
    /\ Continue(r, "put_back")
    /\ UNCHANGED <<answers, verified, used>>

ReviewFind(r) ==
    /\ row.review = "pending"
    /\ Arrive(r, "review_save")
    /\ Find(r)
    /\ UNCHANGED <<store, forms, approvals, form, wanted>>

\* The decision, on the question as it was read.
ReviewSave(r) ==
    /\ pc[r] = "review_save"
    /\ \/ /\ row' = Question(copy[r].form, copy[r].source, "approved", "active")
          /\ approvals' = approvals \cup {copy[r].form}
       \/ /\ row' = Question(copy[r].form, copy[r].source, "rejected", "draft")
          /\ UNCHANGED approvals
    /\ Goto(r, "put_back")
    /\ UNCHANGED <<answers, verified, used, forms, calm, memory>>

\* The preloaded answers, inserted again where they are gone.
PutBack(r) ==
    /\ pc[r] = "put_back"
    /\ answers' = answers \cup read[r]
    /\ Finish(r)
    /\ UNCHANGED <<row, verified, used>>

-----------------------------------------------------------------------------
(* Delete *)

DeleteFind(r) ==
    /\ Arrive(r, "delete_used")
    /\ Find(r)
    /\ UNCHANGED <<store, forms, approvals, form, wanted>>

DeleteUsed(r) ==
    /\ pc[r] = "delete_used"
    /\ SeemsUnused(r, "delete_answers")
    /\ UNCHANGED store

\* The answers go first; an error of this statement is dropped.
DeleteAnswers(r) ==
    /\ pc[r] = "delete_answers"
    /\ \/ /\ answers' = {}
          /\ UNCHANGED calm
       \/ /\ StatementsFail
          /\ calm' = FALSE
          /\ UNCHANGED answers
    /\ Goto(r, "delete_row")
    /\ UNCHANGED <<row, verified, used, forms, approvals, memory>>

DeleteRow(r) ==
    /\ pc[r] = "delete_row"
    /\ row' = [row EXCEPT !.there = FALSE]
    /\ Finish(r)
    /\ UNCHANGED <<answers, verified, used>>

-----------------------------------------------------------------------------
(* The exam *)

\* CountNotApproved = 0: a question that is gone is not counted, and an error
\* of the COUNT is dropped and reads as zero.
AcceptableUnreviewed == row.there => verified[row.source]
Acceptable == row.there => row.review = "approved" /\ verified[row.source]
ExamCheck(r) ==
    /\ row.form # 0
    /\ \/ /\ Acceptable
          /\ Arrive(r, "exam_clear")
       \/ /\ StatementsFail
          /\ pc[r] = "idle" /\ Goto(r, "exam_clear")
          /\ calm' = FALSE
    /\ UNCHANGED <<store, forms, approvals, memory>>

\* SetQuestions, its DELETE and the INSERT of this question; errors are
\* dropped.
ExamClear(r) ==
    /\ pc[r] = "exam_clear"
    /\ \/ /\ used' = FALSE
          /\ UNCHANGED calm
       \/ /\ StatementsFail
          /\ calm' = FALSE
          /\ UNCHANGED used
    /\ Goto(r, "exam_insert")
    /\ UNCHANGED <<row, answers, verified, forms, approvals, memory>>

ExamInsert(r) ==
    /\ pc[r] = "exam_insert"
    /\ \/ /\ used' = TRUE
          /\ UNCHANGED calm
       \/ /\ StatementsFail
          /\ calm' = FALSE
          /\ UNCHANGED used
    /\ Goto(r, "idle")
    /\ UNCHANGED <<row, answers, verified, forms, approvals, memory>>

\* The exam is deleted, or updated with a list without the question.
ExamDrop ==
    /\ used
    /\ used' = FALSE
    /\ calm' = (calm /\ \A q \in Requests : pc[q] = "idle")
    /\ UNCHANGED <<row, answers, verified, forms, approvals, pc, memory>>

-----------------------------------------------------------------------------
\* A request is turned down by what it has read; a form, by its chapter, its
\* translation or another question of the same text as well.
Refuse(r) ==
    /\ \/ /\ pc[r] \in {"update_used", "delete_used"}
          /\ InUse(r)
       \/ pc[r] = "update_source"
       \/ /\ pc[r] = "submit_source"
          /\ verified[copy[r].source] => copy[r].review = "approved"
    /\ Finish(r)
    /\ UNCHANGED store

\* A statement whose error is returned.
Fail(r) ==
    /\ StatementsFail
    /\ pc[r] \in {"create_row", "import_row", "create_answers", "update_source", "update_save",
                  "update_clear", "update_answers", "submit_source", "submit_save",
                  "review_save", "put_back", "delete_row"}
    /\ End(r)
    /\ calm' = FALSE
    /\ UNCHANGED <<store, forms, approvals>>

\* An administrator verifies or rejects a source.
SourceReview ==
    /\ \E s \in Sources, v \in BOOLEAN : verified' = [verified EXCEPT ![s] = v]
    /\ UNCHANGED <<row, answers, used, forms, approvals, calm, pc, memory>>

Crash ==
    /\ MayCrash
    /\ pc' = [r \in Requests |-> "idle"]
    /\ copy' = [r \in Requests |-> NoRow]
    /\ read' = [r \in Requests |-> {}]
    /\ form' = [r \in Requests |-> 0]
    /\ wanted' = [r \in Requests |-> NoSource]
    /\ calm' = FALSE
    /\ UNCHANGED <<store, forms, approvals>>

Create(r) == CreateStart(r) \/ ImportStart(r) \/ CreateRow(r) \/ CreateAnswers(r)
Update(r) ==
    UpdateFind(r) \/ UpdateUsed(r) \/ UpdateSource(r) \/ UpdateSave(r)
      \/ UpdateClear(r) \/ UpdateAnswers(r)
Review(r) ==
    SubmitFind(r) \/ SubmitSource(r) \/ SubmitSave(r)
      \/ ReviewFind(r) \/ ReviewSave(r) \/ PutBack(r)
Delete(r) == DeleteFind(r) \/ DeleteUsed(r) \/ DeleteAnswers(r) \/ DeleteRow(r)
Exam(r) == ExamCheck(r) \/ ExamClear(r) \/ ExamInsert(r)

Next ==
    \/ \E r \in Requests :
         Create(r) \/ Update(r) \/ Review(r) \/ Delete(r) \/ Exam(r) \/ Refuse(r) \/ Fail(r)
    \/ ExamDrop
    \/ SourceReview
    \/ Crash

Spec == Init /\ [][Next]_vars

-----------------------------------------------------------------------------
(* Properties *)

Quiet == calm /\ \A r \in Requests : pc[r] = "idle"

\* No chain of stale saves makes a question approved or official that no
\* administrator ever approved.
ApprovedOnce ==
    row.there /\ (row.review = "approved" \/ row.status = "active") => approvals # {}

\* Between requests that neither overlap nor fail, a question has the answers
\* of its own form and no others.
OwnAnswers == Quiet /\ row.there => answers = {row.form}

\* In the same conditions, an exam holds approved questions only: used
\* questions can be neither edited nor sent for review again.
UsedIsApproved == calm /\ used /\ row.there => row.review = "approved"

\* In the same conditions, no step changes the text or the answers of a
\* question while an exam holds it.
UsedIsFrozen ==
    [][calm' /\ used /\ used' => row' = row /\ answers' = answers]_vars

-----------------------------------------------------------------------------
(* What the repository says of the program and the program does not do *)

\* A form is refused when its "source has not been verified": the source the
\* question is saved with is the one that was looked at.
SourceIsTheChecked ==
    \A r \in Requests : calm /\ pc[r] = "update_clear" => row.source = wanted[r]
=============================================================================
