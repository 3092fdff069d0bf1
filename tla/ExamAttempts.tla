----------------------------- MODULE ExamAttempts -----------------------------
(***************************************************************************)
(* The attempts of one student at one exam: what the handlers of           *)
(* submission_service.go (Take, Submit) and the exam deletion of           *)
(* exam_repository.go do to the rows of `submissions` and                  *)
(* `submission_details`.                                                   *)
(*                                                                         *)
(* Gin runs every request in a goroutine of its own and the database runs  *)
(* without an enclosing transaction (SkipDefaultTransaction), so requests  *)
(* interleave at every SQL statement.  A member of Requests is a goroutine *)
(* slot: it carries one request at a time and may carry any number of them *)
(* one after the other.  Cardinality(Requests) is therefore how many       *)
(* requests of this student can be in flight together.                     *)
(*                                                                         *)
(* Each action is one statement or transaction with the code that runs up  *)
(* to the next one.  A request that is refused before it writes anything   *)
(* just goes back to "idle".                                               *)
(***************************************************************************)
EXTENDS Integers, FiniteSets, Sequences

CONSTANTS
    Requests,        \* goroutine slots
    Duration,        \* exam.Duration in ticks; 0 = no limit
    OpensAt,         \* exam.StartTime; 0 = not set
    EndTime,         \* exam.EndTime; 0 = not set
    Grace,           \* graceSubmit in ticks
    TicksPerSecond,  \* remainingSeconds truncates to whole seconds
    MaxAttempts,     \* exam.MaxAttempts; 0 = no limit
    Total,           \* number of questions of the exam
    GuestsAllowed,   \* exam.AccessType = "public"
    StatementsFail,  \* TRUE: a statement may return an error
    MaxTime,         \* bound of the clock
    MaxRows          \* bound of the AUTO_INCREMENT counter

ASSUME RequestsAssumption == IsFiniteSet(Requests) /\ Requests # {}

ASSUME ParametersAssumption ==
    /\ Duration \in Nat /\ OpensAt \in Nat /\ EndTime \in Nat /\ Grace \in Nat
    /\ TicksPerSecond \in Nat \ {0}
    /\ MaxAttempts \in Nat /\ Total \in Nat \ {0}
    /\ GuestsAllowed \in BOOLEAN /\ StatementsFail \in BOOLEAN
    /\ MaxTime \in Nat /\ MaxRows \in Nat

VARIABLES
    now,        \* the server's clock, in ticks
    examRow,    \* the row of `exams` is there
    available,  \* canAccess' answer on status, verified questions and class
    deleting,   \* the deletion in progress: has it begun, the ids it plucked
    rows,       \* `submissions`
    nextId,     \* AUTO_INCREMENT of `submissions`
    details,    \* `submission_details`: per submission, its inserted batches
    pc,         \* where each request stands
    sub,        \* the *Submission each request holds in memory
    at          \* `now` of Submit, read when the request came in

vars == <<now, examRow, available, deleting, rows, nextId, details, pc, sub, at>>

Ids == 1..MaxRows

\* A submission as Take creates it, Expire closes it or SubmitTx saves it.
\* `correct` stands for total_score, which is a function of it.
Row == [user: {"student", "guest"},
        status: {"absent", "in_progress", "graded", "expired"},
        start: Nat, submit: Nat, correct: 0..Total]

Submission(user, status, start, submit, correct) ==
    [user |-> user, status |-> status,
     start |-> start, submit |-> submit, correct |-> correct]

\* No row; the row as Take opens it, as Expire closes it, as SubmitTx saves it.
\* (ClosedOutsideEnum and the other definitions named for a slip are variants
\* of the next definition with a bug in them: no action uses them, the mutants
\* of PROJECT.json put them in its place.)
NoRow == Submission("student", "absent", 0, 0, 0)
Opened(t) == Submission("student", "in_progress", t, 0, 0)
ClosedOutsideEnum(row, t) == Submission(row.user, "closed", row.start, t, 0)
Closed(row, t) == Submission(row.user, "expired", row.start, t, 0)
Graded(user, start, submit, correct) ==
    Submission(user, "graded", start, submit, correct)

\* What a request remembers of the row it found: sub.ID and sub.StartTime.
NoSub == [id |-> 0, start |-> 0]
Sub   == [id: 0..MaxRows, start: Nat]

PCs == {"idle", "take_find", "take_count", "take_create", "take_clock",
        "take_expire", "submit_find", "submit_expire", "submit_save",
        "guest_save"}

TypeOK ==
    /\ now \in Nat
    /\ examRow \in BOOLEAN
    /\ available \in BOOLEAN
    /\ deleting \in [begun: BOOLEAN, ids: SUBSET Ids]
    /\ rows \in [Ids -> Row]
    /\ nextId \in 1..(MaxRows + 1)
    /\ details \in [Ids -> Seq(0..Total)]
    /\ pc \in [Requests -> PCs]
    /\ sub \in [Requests -> Sub]
    /\ at \in [Requests -> Nat]

Init ==
    /\ now = 1
    /\ examRow = TRUE
    /\ available = TRUE
    /\ deleting = [begun |-> FALSE, ids |-> {}]
    /\ rows = [i \in Ids |-> NoRow]
    /\ nextId = 1
    /\ details = [i \in Ids |-> <<>>]
    /\ pc = [r \in Requests |-> "idle"]
    /\ sub = [r \in Requests |-> NoSub]
    /\ at = [r \in Requests |-> 0]

-----------------------------------------------------------------------------
(* Helpers *)

\* Rows the queries on this student's user_id see.
Mine == {i \in Ids : rows[i].status # "absent" /\ rows[i].user = "student"}

\* FindInProgress: WHERE status = 'in_progress' ... ORDER BY id DESC LIMIT 1.
OpenWhateverStatus == Mine
Open == {i \in Mine : rows[i].status = "in_progress"}
IsLatest(i, S) == i \in S /\ \A j \in S : j <= i

\* canAccess: status, window and class membership; `end` is inclusive.
CanAccess ==
    /\ available
    /\ now >= OpensAt
    /\ EndTime = 0 \/ now <= EndTime

\* remainingSeconds: -1 without a limit, else whole seconds left, never < 0.
RemainingSeconds(start) ==
    LET left == start + Duration - now
    IN  IF Duration = 0 THEN -1
        ELSE IF left <= 0 THEN 0 ELSE left \div TicksPerSecond

\* Submit's two refusals, both on the time the request came in.
PastDeadline(start, t) == Duration > 0 /\ t > start + Duration + Grace
PastClosing(t)         == EndTime > 0 /\ t > EndTime + Grace
TooLateForDeadlineOnly(start, t) == PastDeadline(start, t)
TooLate(start, t) == PastDeadline(start, t) \/ PastClosing(t)

\* Take's refusal of a new attempt, after n of them.
OutOfAttemptsOffByOne(n) == MaxAttempts > 0 /\ n > MaxAttempts
OutOfAttempts(n) == MaxAttempts > 0 /\ n >= MaxAttempts

Goto(r, label) == pc' = [pc EXCEPT ![r] = label]
Finish(r) ==
    /\ Goto(r, "idle")
    /\ sub' = [sub EXCEPT ![r] = NoSub]
    /\ at' = [at EXCEPT ![r] = 0]

\* repository Create: a fresh id, never used before.
InsertRow(row) ==
    /\ nextId <= MaxRows
    /\ rows' = [rows EXCEPT ![nextId] = row]
    /\ nextId' = nextId + 1

\* repository SubmitTx: the row and, unless the paper is blank, the answers it
\* was graded on, together.
SubmitTxWithoutTransaction(id, row, blank) ==
    /\ rows' = [rows EXCEPT ![id] = row]
    /\ \/ details' = [details EXCEPT ![id] = Append(@, row.correct)]
       \/ UNCHANGED details
SubmitTx(id, row, blank) ==
    /\ blank => row.correct = 0
    /\ rows' = [rows EXCEPT ![id] = row]
    /\ details' = IF blank THEN details
                  ELSE [details EXCEPT ![id] = Append(@, row.correct)]

\* repository Expire: UPDATE ... WHERE id = ? AND status = 'in_progress'.
\* Its error is dropped by every caller.
ExpireRowAnyStatus(i, t) == rows' = [rows EXCEPT ![i] = Closed(@, t)]
ExpireRow(i, t) ==
    \/ /\ rows[i].status = "in_progress"
       /\ rows' = [rows EXCEPT ![i] = Closed(@, t)]
    \/ /\ rows[i].status # "in_progress" \/ StatementsFail
       /\ UNCHANGED rows

-----------------------------------------------------------------------------
(* Take *)

TakeStart(r) ==
    /\ pc[r] = "idle"
    /\ examRow /\ CanAccess
    /\ Goto(r, "take_find")
    /\ UNCHANGED <<now, examRow, available, deleting, rows, nextId, details, sub, at>>

\* FindInProgress answers nil when there is no row, and also on any error.
TakeFind(r) ==
    /\ pc[r] = "take_find"
    /\ \/ \E i \in Open :
            /\ IsLatest(i, Open)
            /\ sub' = [sub EXCEPT ![r] = [id |-> i, start |-> rows[i].start]]
            /\ Goto(r, "take_clock")
       \/ /\ Open = {} \/ StatementsFail
          /\ Goto(r, "take_count")
          /\ UNCHANGED sub
    /\ UNCHANGED <<now, examRow, available, deleting, rows, nextId, details, at>>

\* CountAttempts >= MaxAttempts refuses; a failed COUNT leaves n = 0.
TakeCount(r) ==
    /\ pc[r] = "take_count"
    /\ \E n \in {Cardinality(Mine)} \cup (IF StatementsFail THEN {0} ELSE {}) :
         IF OutOfAttempts(n)
         THEN Finish(r)
         ELSE Goto(r, "take_create") /\ UNCHANGED <<sub, at>>
    /\ UNCHANGED <<now, examRow, available, deleting, rows, nextId, details>>

TakeCreate(r) ==
    /\ pc[r] = "take_create"
    /\ InsertRow(Opened(now))
    /\ sub' = [sub EXCEPT ![r] = [id |-> nextId, start |-> now]]
    /\ Goto(r, "take_clock")
    /\ UNCHANGED <<now, examRow, available, deleting, details, at>>

TakeCreateFails(r) ==
    /\ StatementsFail /\ pc[r] = "take_create"
    /\ Finish(r)
    /\ UNCHANGED <<now, examRow, available, deleting, rows, nextId, details>>

\* Hand out the session with the seconds left, or go on to close it.
TakeClock(r) ==
    /\ pc[r] = "take_clock"
    /\ IF RemainingSeconds(sub[r].start) = 0
       THEN Goto(r, "take_expire") /\ UNCHANGED <<sub, at>>
       ELSE Finish(r)
    /\ UNCHANGED <<now, examRow, available, deleting, rows, nextId, details>>

TakeExpire(r) ==
    /\ pc[r] = "take_expire"
    /\ ExpireRow(sub[r].id, now)
    /\ Finish(r)
    /\ UNCHANGED <<now, examRow, available, deleting, nextId, details>>

-----------------------------------------------------------------------------
(* Submit *)

SubmitStart(r) ==
    /\ pc[r] = "idle"
    /\ examRow
    /\ at' = [at EXCEPT ![r] = now]
    /\ Goto(r, "submit_find")
    /\ UNCHANGED <<now, examRow, available, deleting, rows, nextId, details, sub>>

SubmitFind(r) ==
    /\ pc[r] = "submit_find"
    /\ \/ \E i \in Open :
            /\ IsLatest(i, Open)
            /\ sub' = [sub EXCEPT ![r] = [id |-> i, start |-> rows[i].start]]
            /\ Goto(r, IF TooLate(rows[i].start, at[r])
                       THEN "submit_expire" ELSE "submit_save")
            /\ UNCHANGED at
       \/ /\ Open = {} \/ StatementsFail
          /\ Finish(r)
    /\ UNCHANGED <<now, examRow, available, deleting, rows, nextId, details>>

\* Expire(sub.ID, now): the row is stamped with the time of the request.
SubmitExpire(r) ==
    /\ pc[r] = "submit_expire"
    /\ ExpireRow(sub[r].id, at[r])
    /\ Finish(r)
    /\ UNCHANGED <<now, examRow, available, deleting, nextId, details>>

\* SubmitTx.  Save writes every column from the copy in memory whatever the
\* row holds by now, and inserts the row again when it is gone; an attempt
\* with no answers has no details.  The detail rows carry the answers graded.
SubmitSave(r) ==
    /\ pc[r] = "submit_save"
    /\ \E correct \in 0..Total, blank \in BOOLEAN :
         SubmitTx(sub[r].id, Graded("student", sub[r].start, at[r], correct), blank)
    /\ Finish(r)
    /\ UNCHANGED <<now, examRow, available, deleting, nextId>>

\* A failed statement of SubmitTx rolls the transaction back.
SubmitRollback(r) ==
    /\ StatementsFail /\ pc[r] \in {"submit_save", "guest_save"}
    /\ Finish(r)
    /\ UNCHANGED <<now, examRow, available, deleting, rows, nextId, details>>

\* A guest has no session: each submission is a row of its own.
GuestStart(r) ==
    /\ pc[r] = "idle"
    /\ examRow /\ GuestsAllowed /\ CanAccess
    /\ at' = [at EXCEPT ![r] = now]
    /\ Goto(r, "guest_save")
    /\ UNCHANGED <<now, examRow, available, deleting, rows, nextId, details, sub>>

GuestSave(r) ==
    /\ pc[r] = "guest_save"
    /\ nextId <= MaxRows
    /\ nextId' = nextId + 1
    /\ \E correct \in 0..Total, blank \in BOOLEAN :
         SubmitTx(nextId, Graded("guest", at[r], at[r], correct), blank)
    /\ Finish(r)
    /\ UNCHANGED <<now, examRow, available, deleting>>

-----------------------------------------------------------------------------
(* The rest of the system *)

\* The teacher deletes the exam: the transaction reads the ids first ...
DeleteBegin ==
    /\ examRow /\ ~deleting.begun
    /\ deleting' = [begun |-> TRUE, ids |-> {i \in Ids : rows[i].status # "absent"}]
    /\ UNCHANGED <<now, examRow, available, rows, nextId, details, pc, sub, at>>

\* ... and its deletes, which lock what they scan, take effect together:
\* details by the plucked ids, submissions by exam_id, then the exam.
DeleteCommit ==
    /\ deleting.begun
    /\ details' = [i \in Ids |-> IF i \in deleting.ids THEN <<>> ELSE details[i]]
    /\ rows' = [i \in Ids |-> NoRow]
    /\ examRow' = FALSE
    /\ deleting' = [begun |-> FALSE, ids |-> {}]
    /\ UNCHANGED <<now, available, nextId, pc, sub, at>>

\* Staff publish or withdraw the exam, approve or edit its questions, assign
\* classes: whatever changes what canAccess answers.
AvailabilityChanges ==
    /\ available' = ~available
    /\ UNCHANGED <<now, examRow, deleting, rows, nextId, details, pc, sub, at>>

\* The process dies: every goroutine is gone, the database is as it was and
\* the deletion's transaction is rolled back.
Crash ==
    /\ pc' = [r \in Requests |-> "idle"]
    /\ sub' = [r \in Requests |-> NoSub]
    /\ at' = [r \in Requests |-> 0]
    /\ deleting' = [begun |-> FALSE, ids |-> {}]
    /\ UNCHANGED <<now, examRow, available, rows, nextId, details>>

Tick ==
    /\ now < MaxTime
    /\ now' = now + 1
    /\ UNCHANGED <<examRow, available, deleting, rows, nextId, details, pc, sub, at>>

Take(r) ==
    \/ TakeStart(r) \/ TakeFind(r) \/ TakeCount(r) \/ TakeCreate(r)
    \/ TakeCreateFails(r) \/ TakeClock(r) \/ TakeExpire(r)

Submit(r) ==
    \/ SubmitStart(r) \/ SubmitFind(r) \/ SubmitExpire(r) \/ SubmitSave(r)
    \/ SubmitRollback(r) \/ GuestStart(r) \/ GuestSave(r)

Next ==
    \/ \E r \in Requests : Take(r) \/ Submit(r)
    \/ DeleteBegin \/ DeleteCommit
    \/ AvailabilityChanges \/ Crash \/ Tick

Spec == Init /\ [][Next]_vars

-----------------------------------------------------------------------------
(* Properties *)

\* Requests past the attempts check that have not inserted their row yet.
Creating == {r \in Requests : pc[r] = "take_create"}

\* However requests interleave, the attempts a student has opened, with those
\* about to be opened, exceed MaxAttempts by at most one less than the
\* requests in flight together: a double click costs one attempt too many,
\* never an unbounded number (Take's check and its insert are two statements).
AttemptsWithinRace ==
    (MaxAttempts > 0 /\ ~StatementsFail) =>
        Cardinality(Mine) + Cardinality(Creating)
            <= MaxAttempts + Cardinality(Requests) - 1

\* No attempt is graded on answers that came in after its deadline plus the
\* grace, or after the exam closed plus the grace, even when the attempt was
\* found by one request while another one was closing, grading or deleting it.
GradedInTime ==
    \A i \in Mine : rows[i].status = "graded" =>
        /\ ~PastDeadline(rows[i].start, rows[i].submit)
        /\ ~PastClosing(rows[i].submit)

\* A graded submission shows the score of one of its own detail batches, or
\* the zero of a blank paper: SubmitTx never leaves a score without the
\* answers it was computed from.
ScoreHasItsDetails ==
    \A i \in Ids : rows[i].status = "graded" /\ rows[i].correct > 0 =>
        \E k \in 1..Len(details[i]) : details[i][k] = rows[i].correct

\* Life of one attempt, whoever acts on it: a graded attempt is never
\* reopened, expired or given another starting time, an expired one never
\* reopened, and an open one keeps its starting time (reloading the page does
\* not renew the clock).  Deleting the exam is the only way a row disappears.
AttemptLife ==
    [][\A i \in Ids :
         rows[i].status # "absent" =>
           \/ /\ rows'[i].start = rows[i].start
              /\ rows'[i].user = rows[i].user
              /\ rows[i].status = "graded"  => rows'[i].status = "graded"
              /\ rows[i].status = "expired" => rows'[i].status \in {"expired", "graded"}
              /\ rows'[i].status # "absent"
           \/ rows'[i] = NoRow /\ examRow /\ ~examRow']_vars

\* Submit answers "bài này đã nộp rồi" (handed in already) to a second submission: an
\* attempt is graded once, so it has at most one batch of details.  So it is
\* as long as requests come one at a time; two that overlap both find the
\* attempt open, and both grade it.
SubmittedOnce == \A i \in Ids : Len(details[i]) <= 1

\* Seen from outside, the requests keep the ledger of the student's attempts:
\* of all that overlaps and fails no more is seen than one attempt per request
\* in flight past the limit, and a graded attempt of an exam that is gone.
Ledger == INSTANCE AttemptLedger WITH
    MaxIds <- MaxRows,
    Limited <- MaxAttempts > 0 /\ ~StatementsFail,
    Most <- MaxAttempts + Cardinality(Requests) - 1,
    standing <- [i \in Ids |-> IF rows[i].user = "guest" THEN "absent" ELSE rows[i].status],
    last <- nextId - 1,
    exam <- examRow
KeepsLedger == Ledger!Spec

-----------------------------------------------------------------------------
(* What makes those properties inductive *)

\* Requests that hold a row they read earlier, and those about to save it.
Holding == {r \in Requests :
              pc[r] \in {"take_clock", "take_expire", "submit_expire", "submit_save"}}
Saving  == {r \in Requests : pc[r] = "submit_save"}
Held    == {sub[r].id : r \in Saving}

\* Ids are given out in order and only once.
FreshIds == \A i \in Ids : i >= nextId => rows[i] = NoRow

\* The copy in memory is of a row that existed, and whatever happened to the
\* row since, it kept the starting time the copy has.
CopiesAgree ==
    \A r \in Holding :
        /\ sub[r].id \in 1..(nextId - 1)
        /\ rows[sub[r].id].status # "absent" =>
             /\ rows[sub[r].id].user = "student"
             /\ rows[sub[r].id].start = sub[r].start

\* Two copies of one row have the same starting time, even after the row is
\* gone.
SameRowSameStart ==
    \A p, q \in Holding : sub[p].id = sub[q].id => sub[p].start = sub[q].start

\* A submission about to be saved passed both refusals.
SavingInTime ==
    \A r \in Saving : ~PastDeadline(sub[r].start, at[r]) /\ ~PastClosing(at[r])

\* A deletion in progress has its exam still there.
DeletingHasExam == deleting.begun => examRow

\* The rows a late SubmitTx could bring back after the exam's deletion count.
AttemptsBound ==
    (MaxAttempts > 0 /\ ~StatementsFail) =>
        Cardinality(Mine \cup Held) + Cardinality(Creating)
            <= MaxAttempts + Cardinality(Requests) - 1

\* As long as the exam is there, so are all attempts ever opened.
OnlyDeletionRemoves ==
    examRow => \A i \in 1..(nextId - 1) : rows[i].status # "absent"

\* No answers are kept of an attempt before it is graded.
BlankUntilGraded ==
    /\ SubmittedOnce
    /\ \A i \in Ids : rows[i].status = "in_progress" \/ i >= nextId => details[i] = <<>>
    /\ \A r \in Saving : details[sub[r].id] = <<>>

RowsInv ==
    /\ FreshIds /\ CopiesAgree /\ SameRowSameStart
    /\ SavingInTime /\ DeletingHasExam /\ GradedInTime
=============================================================================
