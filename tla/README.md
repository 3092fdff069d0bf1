# Verification of the quiz bank

TLA+ models of the question bank, the exams and the assignments of this
repository, TLC configurations that check them on small instances, and proofs
that TLAPS checks for every value of the constants.

Paths below are relative to `src/`; the back end is `backend/` (Go, Gin, GORM on
MySQL), the front end `frontend/` (Angular).

- [The system](#the-system): its parts, what each keeps and does, how they meet
- [The models](#the-models): module by module, against the code
- [The runs](#the-runs): what each shows, its bounds
- [The proofs](#the-proofs): what is proved, from what, along which argument
- [Disagreements found](#disagreements-found)
- [What is left out](#what-is-left-out)
- [The plan](#the-plan)

Commands, from this directory: `tlc -config X.cfg M` for a run of PROJECT.json,
`tlapm M.tla` for a module of proofs.

## The system

### How its parts run

Gin gives every HTTP request a goroutine. All requests share one database and one
disk and hold nothing else in common (the rate limiter apart), so **what two
requests of the same user, or of a student and a teacher, can do to each other is
decided statement by statement in the database**:

- `config/database.go` sets `SkipDefaultTransaction`: a statement commits on its
  own unless the code opens a transaction. It does in three places that matter
  here: the deletion of an exam, `SubmitTx`, and the deletions of classes.
- There are no foreign keys. Unique keys that matter: `(exam_id, question_id)` of
  `exam_questions`, `(assignment_id, student_id)` of `assignment_submissions`.
- GORM's `Save(x)` writes **every** column of the struct, as it was read; if no row
  was changed it inserts it (`ON DUPLICATE KEY UPDATE`). It also writes the
  associations that were preloaded: a preloaded belongs-to sets its foreign key
  back, preloaded has-many rows that are gone are inserted again.
- Many reads drop their error (`db.Count(&n)`, `db.Find(&x)`): a failed COUNT
  reads as zero.

The pattern that is hard everywhere is therefore *read a row, decide, save the
whole row*, and *count, then insert*.

### Components

| Component (sources) | State | Operations | Meets | What makes it correct |
|---|---|---|---|---|
| **Exam attempts** (`submission_service.go`, `submission_repository.go`) | `submissions`, `submission_details` | Take, Submit (students, guests), result recovery | reads exams, papers and classes; exam deletion removes its rows | the attempts limit, no late grade, a grade once and with its answers, no attempt goes back in its life |
| **Exam papers** (`exam_service.go`, `exam_repository.go`) | `exams`, `exam_questions`, `exam_classes` | Create, Update, Generate, Clone, Delete | asks the bank which questions are approved; graded against by Submit | the paper is the list sent; numbers answered are those graded |
| **Question bank** (`question_service.go`, `question_repository.go`) | `questions`, `answers` | Create, Update, Duplicate, SubmitForReview, Review, Delete, bulk operations | sources (verified?), exams (used?) | nothing official without approval, used questions are frozen, a question has its own answers, one of them right |
| **Sources** (`source_service.go`) | `sources` | Create, FindOrCreate, Review | checked when a question is written | a question's source was verified |
| **Import** (`import_service.go`, `safe_import_reader.go`) | none | Import | creates questions and sources | rows are pending questions with one right answer |
| **Assignments and uploads** (`assignment_service.go`, `file_security.go`) | `assignments`, `assignment_submissions`, `upload_sessions`, chunk directories, encrypted files | Create, Update, Delete, StartUpload, SaveChunk, CompleteUpload, Grade, Download | browser uploads in chunks; the teacher grades | the submission names the whole file that was sent, a graded one is final, sessions bounded, what is left on disk is found by the sweep |
| **Classes and posts** (`class_service.go`, `class_post_repository.go`) | `classes`, `class_members`, posts | Create, join by code, approve, remove, delete | who may see exams and assignments | no member of a class that is gone, one membership per student |
| **Practice notebook** (`practice_service.go`, `practice_repository.go`) | `practice_answers`; the notebook itself is worked out of all answers whenever it is needed | set to practise, hand in a practice, read the notebook | reads what exams recorded; loses what deleted exams recorded and shows no deleted question | a question leaves the notebook after two right answers in a row, and the student is told so just then |
| **Folders** (`folder_service.go`) | `folders`, `folder_exams` | Create, move, delete | exams | a tree |
| **Subjects, chapters** (`subject_service.go`, `chapter_service.go`) | two tables | CRUD | bank, exams, the load of the seed bank | no subject is deleted under its questions |
| **Seed bank** (`database/ngan-hang/`: `mon_*.py`, `build.py`, `xuat-file-mau.py`) | the rows of 27 subjects, their files, one SQL script | check and build, load, export with ids | puts questions under the subjects of the database | every question right once and under its own subject, files and SQL of the same rows |
| **Accounts** (`auth_service.go`, `user_service.go`) | `users`, OTP codes, reset requests | register, verify, log in, reset, approve | e-mail, rate limiter | a code is used once and tried a bounded number of times; a reset gives its owner the new password |
| **E-mail, statistics, audit, printed exams** | an append-only log | output | everything | - |
| **Middleware** (`middleware/`) | the rate limiter's buckets | authenticate, limit, headers | every request | bounded rate |
| **Exam page** (`features/take-exam/take-exam.ts`) | countdown, answers, drafts in local storage | load, tick, submit, recover | Take, Submit, GetSubmissionResult over HTTP | answers given in time are graded; the result shown is that of the attempt |
| **Upload client** (`services/assignment.service.ts`) | id of the session in local storage | start, send the missing chunks, complete | the upload handlers | resumes; ends |

PROJECT.json `components` says of each how much is modelled, and `hazards` lists
every place where something can go wrong that a test would hardly reach, with the
property that would see it, or a note where none does: some of these things do
happen, and a property that holds only without them is not listed as seeing them.

## The models

In every module a **request slot** (`Requests`, `Editors`) is a goroutine: it
carries one request at a time and any number one after another; the number of
slots is the number of requests in flight together. `pc` says which statement
comes next; what a handler has read is a variable of the slot (`sub`, `seen`,
`copy`), because between its reading and its saving anything may happen. **One
action is one SQL statement, transaction or file operation with the Go code up to
the next one.** A refused request goes back to `idle`. `StatementsFail` lets
statements return an error (and have no effect); a crash returns every slot to
`idle` and leaves database and disk alone. A definition named for a slip
(`TooManyOffByOne`, `ClearSkipped`, ...) is a variant of the definition after it,
with a plausible bug; PROJECT.json `mutants` puts it in place of the right one to
show that the property notices. No action uses it.

### ExamAttempts

One student (and guests) at one exam, over `submissions` and
`submission_details`. `Take` is TakeStart (access, opening and closing time),
TakeFind (`FindInProgress`), TakeCount, TakeCreate, TakeClock (what is left of the
time) and TakeExpire; `Submit` is SubmitStart, SubmitFind (deadline, grace, closing
time), SubmitExpire or SubmitSave (`SubmitTx`, one transaction); guests have
GuestStart and GuestSave. DeleteBegin and DeleteCommit are the deletion of the
exam: the ids are plucked at one moment and removed at another, as MySQL's
snapshot reads allow. The clock counts ticks, `TicksPerSecond` of them to a
second, since `remainingSeconds` truncates. AvailabilityChanges stands for
everything that changes the answer of `canAccess` (status, class, questions).
The settings of the exam are constants: edits of its duration, closing time and
limit while attempts are open are not modelled.

### AssignmentUploads

One student's file for one assignment. Tables (`session`, `row`), chunk
directories (`dirs`, `parts`) and stored files (`files`) are three stores without
a common transaction. StartUpload is the sweep of expired sessions (directory,
then row, one session after another), the count, the directory, the row;
CompleteUpload reads the session, the submission, merges and encrypts, saves the
submission, removes the previous file, the chunks and the session, one step each.
Grade reads and saves the whole row. `assignment` moves between open, closed and
deleted at any time (`Standings`); sessions expire at any time. A chunk is there or
not; the `.tmp` file it is written through has no state of its own, but makes a
removal fail: `os.RemoveAll` empties a directory before it removes it, and a file a
PUT creates in between (`Writing`), or an error of the disk (`DiskFails`), leaves the
directory with any of its chunks. Its error is dropped (lines 306, 317, 421), as is
that of `os.Remove` (414, 419), and the session's row goes all the same (318, 422).
`remains` is history: the directories whose last removal failed. `Download` is the
property `Downloadable`.

### ExamPaper

The rows of `exam_questions` while two editors rewrite them with `SetQuestions`
(one DELETE, one INSERT per question, errors dropped), a sheet graded against the
ids read at one moment, and the recovery of its result. Scores are hundredths;
`Nearest` gives both neighbours of an exact half, because the code computes in
binary floating point. `CorrectCount` is worked back out of the rounded score, on
the paper as it is when the result is asked for: RoundTrip is the arithmetic
behind it. `Questions` has fewer than a thousand members (`SizeAssumption`):
nothing in the code enforces that; no real paper comes near it. `calm` and `last`
are history: no edits overlapped or failed, and the list sent last.

### QuestionBank

One question of the bank through Create or Import, Update, SubmitForReview, Review
and Delete, its answers, its source, and one exam that may hold it. The n-th
accepted form stands for its text and for its answers, which are validated
together and inserted by one statement: `answers` is the set of forms that have
their answers in the table, `row.form` the form whose text the row has.
UpdateSave, SubmitSave and ReviewSave save what was read, whole, including what
GORM does to associations: the source is set back (`copy[r].source`), PutBack
inserts preloaded answers again. ExamCheck is `CountNotApproved`, ExamClear and
ExamInsert are this question's part of `SetQuestions`, ExamDrop is the deletion of
the exam or a list without the question. SourceReview verifies and rejects
sources at any time. `approvals` and `calm` are history.

### SeedBank and SeedData

The scripts of `database/ngan-hang`. SeedData is the dictionary `BANKS` of build.py
with all 27 subjects, one line or two for each: the number of rows, the letter of
the right answer of each, its difficulty; subjects have their name exact and without marks,
because the scripts name files by the second and the database may compare by it.
SeedBank runs the scripts over it: BuildStart checks every row and writes nothing
if one is refused; BuildFiles writes the two files of one subject, BuildSeed the
SQL; LoadLookup and LoadInsert are the statements of one subject in that SQL
(`SET @sid`, then questions and answers); ExportStart reads the ids of the
subjects, ExportFiles writes the import samples with them. Each may die anywhere (`...Dies`), leaving
files torn or a question short of answers. Meanwhile authors edit rows (Edit) and
administrators create, hide and delete subjects; Delete counts, then removes
(SubjectCount, SubjectDelete). `finished` and `calm` are history.

### TakeExamPage

The exam page of the browser, **composed with ExamAttempts**, which it EXTENDS: the
server's part of a step is an action of ExamAttempts itself. A page is `away`,
`loading`, `open` (countdown, picking), `sending`, `asking` for the result of a
hand-in it got no answer to, `done` or in `error`. Requests lie in `mail`: Arrives
gives one to a free slot, Serves is one step of Take or Submit in it, after which
Back carries the answer; Fails is the error a page gets when the connection
breaks, **whatever became of the request**, which may still arrive and be served
when nobody waits for it; Dies is a crash of the server, to which every page
waiting gets an error. Counts is the interval (once a second; at zero it hands in,
once), Picks saves the draft, Leaves and Opens close and load a page, Restored
takes the draft back. Pages share the drafts as tabs of one browser. `handed` and
`calm` are history: what a page handed in that may have been saved (all of it,
until it is told that there is no result), and whether ever a request was served
that its page had given up or two pages were open at once.

### AttemptLedger

The **abstract specification** of ExamAttempts: attempts get fresh ids while there
is Room, are closed once, graded from open or expired, and vanish with the exam
only; a hand-in under way then may leave one attempt behind, graded. `Most`, what
requests in flight may add to the limit, is `MaxAttempts` and one for each slot but
one. ExamAttempts implements it through `Ledger` (INSTANCE ... WITH): the standing
of an attempt is the status of the student's row, and the statements of Take and
Submit that only read are stutters.

### PracticeNotebook

One student in several tabs. The answers of exams (`exams`) and of practice
(`drills`) are kept by time; NotebookState is `notebookState` over both, Practised
the first `Limit` of it as `practiceNotebook` sorts and cuts them. GetPracticeSet
is SetStart, SetDrills, SetBank (the two SELECTs of AnswerEvents, then the
questions, deleted ones left out after the cut); SubmitPractice is PracticeStart,
PracticeDrills (refused unless all are to practise now), then the notebook again
(PracticeExams, PracticeState), the questions and the time (PracticeBank), the
INSERT (PracticeSave). An exam handed in has the time of its arrival (ExamStart)
and is recorded later (ExamSave), so that answers may appear in the past of
others. Exams and questions are deleted at any time.

### How they fit together

ExamPaper is the paper ExamAttempts grades against; ExamAttempts keeps only the
number of right answers of a sheet (`correct`), and ExamPaper how that number is
made. QuestionBank's `used` is membership in ExamPaper's `paper`, its
`Acceptable` decides which `Lists` an editor of ExamPaper may send. TakeExamPage
is ExamAttempts with the browser in front of it; PracticeNotebook's `exams` are
the details ExamAttempts records, and its QuestionDeleted is the end of
QuestionBank's Delete; SeedBank fills the tables QuestionBank starts from. Where
modules are not composed, each keeps of its neighbours what can change its own
state, at any moment it can change.

## The runs

| Run | Bounds | Properties |
|---|---|---|
| `attempts_race` | 2 slots, limit 1, 5 ticks, 2 rows, crashes | TypeOK, AttemptsWithinRace, GradedInTime, ScoreHasItsDetails, AttemptLife, KeepsLedger |
| `attempts_faults` | 1 slot, guests, failing statements, delayed opening, 3 rows | SubmittedOnce |
| `uploads_race` | 2 slots, 3 sessions of 2 chunks, limit 1, 2 files, failing statements, removals that a PUT makes fail, crashes, an open assignment | TypeOK, RowFile, ActiveWithinRace, PartsHaveTheirSession |
| `uploads_single` | 1 slot, 3 sessions of 2 chunks, limit 2, 2 files, failing statements and removals, crashes | Downloadable, ActiveLimit, GradedIsFinal |
| `paper_race` | 2 editors, 1 sheet, 3 questions, lists that grow, shrink, reorder, repeat and empty the paper, failing statements, crashes | TypeOK, PaperIsLast, ReportedIsRight, RecoveredOnSameSize |
| `bank_race` | 2 slots, 2 sources, 2 forms, failing statements, crashes | TypeOK, ApprovedOnce, OwnAnswers, UsedIsApproved, UsedIsFrozen |
| `seed_scripts` | 3 starts of the scripts, 2 changes by authors and administrators, 4 subjects of the real dictionary (the 12th to the 15th), two of which share a file name | TypeOK, OneRightAnswer, UnderOwnSubject, SampleNamesItsSubject, FinishedBuildAgrees, OrphansNeedARace |
| `page` | 1 page, 2 requests under way, 1 tick of duration, closing time 1, no grace, limit 2, 1 fault (broken connection or crash), 2 loads | PageTypeOK, ResultWasSaved, OwnResult, OnePageSubmitsOnce, DraftIsThePage, CountdownSettles, InsistingSettles |
| `notebook` | 2 requests, 2 questions of which 1 is practised at a time, 1 exam, 1 mishap (a wrong answer in practice, a deletion, a death) | TypeOK, NotebookRule, MasteredTold, PersistenceEmpties |
| `uploads_grade`, `bank_source`, `seed_names` | as small as the counterexample allows; `seed_names` all 27 subjects | one statement of the repository each, violated |

What they show:

- **Attempts.** However two requests of a student overlap with each other, the
  deletion of the exam, the clock and crashes: one request too many in flight
  costs at most one attempt too many (AttemptsWithinRace), no answers that came
  in late are graded (GradedInTime), a score never stands without the details it
  was computed from (ScoreHasItsDetails: SubmitTx is a transaction), and an
  attempt never goes from graded back to open, nor gets a new starting time
  (AttemptLife). One request at a time, an attempt is graded once even with
  failing statements (SubmittedOnce). Step by step, the requests do nothing that
  the ledger of AttemptLedger does not do (KeepsLedger).
- **Uploads.** The file a submission names is the whole file of the upload whose
  name and size the submission shows, through sweeps, replacements, crashes and
  overlaps; only a grade that brings back a replaced row leaves it without one
  (RowFile). **Chunks can be left without the session a sweep finds them by**: when
  a PUT creates its file while a sweep, or another request's CompleteUpload, removes
  the directory, the removal fails unnoticed, the row goes and the chunk stays for
  good. PartsHaveTheirSession says that this is the only way: the removal of that
  very directory failed, and no crash, failing deletion, second sweep or late PUT
  alone leaves any. Sessions exceed
  their bound by fewer than the requests in flight (ActiveWithinRace). One request
  at a time, the file is always there, the bound is exact and a graded submission
  is final, even when the read that would show the grade fails: the unique key
  refuses the second row.
- **Papers.** Submit reports the number of right answers it counted though it
  recomputes it from a rounded score (ReportedIsRight), a result recovered on a
  paper of the same size tells the score and the right answers of the submission (RecoveredOnSameSize),
  and a paper no overlapping or failing edit touched is the list sent last, in
  order, each question once (PaperIsLast).
- **Bank.** No chain of stale saves makes a question approved or active that no
  administrator approved (ApprovedOnce). As long as requests neither overlap nor
  fail, a question has the answers of its own form (OwnAnswers), an exam holds
  approved questions only (UsedIsApproved: they can be neither edited nor
  resubmitted) and a used question keeps its text and answers (UsedIsFrozen).

- **Seed bank.** Whatever authors did to the rows and wherever a script died, no
  question is loaded without exactly one right answer, and a load leaves at most
  one question short of answers (OneRightAnswer); no question lands under the subject whose
  name differs by its marks only (UnderOwnSubject); a sample file has rows and id
  of one subject (SampleNamesItsSubject), though subjects of one file name write
  over each other; after a build that ended, files and SQL are of the same rows
  (FinishedBuildAgrees). A subject is deleted under its questions only by a Delete
  that overlapped a load or could not count (OrphansNeedARace).
- **Exam page.** Whatever is lost or late, a result shown was saved with the
  answers it was graded on (ResultWasSaved). As long as no request is served that
  its page gave up, and one page is open at a time: it is the result of the page's
  own sheet and of something it handed in (OwnResult: of the answers it handed in
  last, unless connections failed both at a hand-in and at the question for its
  result; the page then cannot know that the hand-in was saved, lets the answers
  be changed and handed in again, and shows the result of the first), nothing is graded twice
  although the page tries again after errors (OnePageSubmitsOnce), and answers
  survive reloads (DraftIsThePage). Without that condition the first two fail:
  Submit grades the latest open attempt of the exam, not the one the page shows.
  The countdown closes every sheet with a time limit (CountdownSettles); with a
  broken connection, a student who goes on handing in gets there (InsistingSettles).
- **Notebook.** What `notebookState` computes is the rule written above it
  (NotebookRule); "mastered" is said just of what leaves the notebook, unless
  other answers to the question came in between (MasteredTold); a student who goes
  on asking for the set and answering it right empties the notebook, unless
  deleted questions fill all places of the set (PersistenceEmpties): those are
  never practised, stay in the notebook and keep their places, and when they fill
  the set, `my-storage.ts:258` tells the student that nothing is left to practise.

**Why the bounds are enough.** Two slots are the least that overlap, and every
action of one slot depends on the others only through the tables; a third slot
repeats what the second does (the proofs are for any number). The limits are 1 or
2 so that they are reached (2 attempts for the page, since an attempt after a failed one is its interesting case), there is one more session, row or file than the limit,
the clock runs past deadline, closing time and grace, and every action of every
next-state relation fires in some run. `MaxTime`, `MaxRows`, `MaxFiles` and
`MaxForms` bound counters the code does not bound; each is a guard of the actions
that would exceed it, so states beyond are missing and no others. In `uploads_race`
the assignment stays open: its closing and deletion only refuse requests, and no
property of the run looks at it; `uploads_single` has all its states. The disk fails in
`uploads_single` only; in `uploads_race` a removal fails because of a PUT at work, and
the proofs are for both. Symmetry is
over slots, sessions, chunks, sources and editors, which nothing tells apart; the runs
with liveness properties use none. `seed_scripts` has of every subject only the
places where scripts are cut (`Watched`, `CutAt`); its four subjects hold the two
that share a file name and a neighbour on either side. `page` is at the edge of
what TLC can do within minutes: two pages, a third load or a second fault multiply
its 200,000 states, on which the liveness properties are checked, so its second
request under way stands for the one a page gave up. The safety properties are
proved for any number of pages, faults and loads. It takes two faults for a page
to hand in again what it cannot know was saved (the last case of OwnResult). In `notebook` two questions and one
place in the set make one question wait for the other, and one deletion is enough
to fill the set. Every run but `page` checks for deadlock: with every slot idle
something can always happen. In `page` the student may stop, and every load is
counted.

**Fairness.** A handler that started goes on: weak fairness of every step of a
request on the server (`Serves`, `Goes`), because a goroutine is never held up by
another one (no lock is held between statements). `page` adds that a request on
its way arrives or is lost and that a page hears its answer (`Arrives`, `Lost`,
`Hears`: TCP and the browser end every request in one way or another), that the
interval fires (`Counts`) and that time passes. Crashes and broken connections
are bounded by `MaxFaults`: without an end to them nothing need ever be handed in.
**The student is never obliged**: leaving, picking and handing in have no
fairness, and the two properties that need a student who insists say so as an
antecedent, InsistingSettles (goes on handing in) and PersistenceEmpties
(`Persistent`: again and again asks for the set, and hands it in right; strong
fairness, since other tabs take the slots from it in between).

## The proofs

Each module of proofs EXTENDS its component. The assumptions are the named
ASSUMEs of the components: finite sets of slots where slots are counted, natural
bounds, fewer than a thousand questions in an exam, names of subjects that differ,
and for TakeExamPage that statements do not fail and guests are left out (both are
ExamAttempts' own); nothing about their size otherwise.

- **ExamAttemptsProofs**: TypeCorrect; GradedInTimeAlways, AttemptLifeAlways,
  AttemptsWithinRaceAlways. GradedInTime is not inductive: a request about to save
  holds a copy of the row, so RowsInv adds that such a copy passed both refusals
  (SavingInTime) and still has the starting time of the row it was read from,
  whatever became of that row (CopiesAgree, SameRowSameStart), that ids are given
  out once (FreshIds) and that a deletion in progress has its exam
  (DeletingHasExam). AttemptsBound also counts the rows that a late `SubmitTx`
  could bring back, since `Save` inserts what the deletion removed.
  ScoreHasItsDetailsAlways is inductive as it stands. SubmittedOnceAlone assumes
  that there is one slot; BlankUntilGraded says that what is open, not yet created
  or about to be saved has no details.
  NoTimeGained is what AttemptLife means for a student: loading the page again
  never gives an open attempt more seconds, rounded as they are (WholeUnits).
  Last, LedgerKept, that ExamAttempts implements AttemptLedger:
  `Spec => KeepsLedger`, one case per action. Opening an attempt, and bringing one
  back after the exam went, must find Room, which AttemptsBoundInvariant gives; an
  attempt that Submit saves is missing only when the exam is
  (OnlyDeletionRemovesAlways), so that bringing it back is the ledger's Returns.
- **TakeExamPageProofs**: every step of pages and server is a step of ExamAttempts
  or leaves its variables alone (ServerIsExamAttempts), so the invariants above
  hold here, and the ledger is kept (PagesKeepTheLedger). PageTyping adds PageInv: a page
  waits for one answer at most, of the kind its phase is about (OneAwaited), a
  request being served is the handler of its kind at work (MailInOrder).
  ResultWasSavedAlways is inductive once it also speaks of the answers on their
  way (ResultsWereSaved); a result recovered has its details because
  ScoreHasItsDetails holds, one told by Submit because SubmitTx has just inserted
  them, and details only grow (DetailsStay). The other three rest on CalmInv:
  while it is calm only one request is waited for (AttendedAlone), the page's sheet is the
  only attempt that can be open (otherwise Submit would grade another one), what is open has
  no details, and what is graded was graded on what the page handed in, so that
  an answer that denies it cannot be on its way. OwnResultAlways,
  OnePageSubmitsOnceAlways and DraftIsThePageAlways follow, for any number of
  pages, requests, faults and loads.
- **AssignmentUploadsProofs**: TypeCorrect; RowFileAlways from FilesInv (what
  copies name has been stored or removed, a file just stored belongs to one
  request, the file about to be removed is not the row's); ActiveWithinRaceAlways
  and PartsHaveTheirSessionAlways from SessionsInv (a session being created is
  known to nobody else; before a row goes, its directory is gone or is one whose
  removal failed). With one slot and a sound disk nothing is left at all
  (NothingRemainsAlone). With one slot
  (ActiveLimitAlone, DownloadableAlone, GradedIsFinalAlone, under
  `\A p, q \in Requests : p = q`) the bound is exact, and CopyIsCurrent holds: what
  the request read of the submission is still the row when it writes, so its file
  is there and its grade stays.
- **ExamPaperProofs**: RoundTrip, that the number of right answers survives the
  way through hundredths of a point on fewer than a thousand questions, is pure
  arithmetic from `Nearest`. ReportedIsRightAlways and RecoveredOnSameSizeAlways
  follow from it and ResultsFit; PaperIsLastAlways from PaperWritten: the one
  editor at work has written a prefix of its list, and the INSERTs refused so far
  are the repeated questions.
- **QuestionBankProofs**: TypeCorrect; ApprovedOnceAlways from Earned, which says
  the same of the copies requests hold. OwnAnswersAlways, UsedIsApprovedAlways
  and UsedIsFrozenAlways from Lonely: while it is calm one request is at work, and
  at each of its statements its copy is the row, the answers are those it read,
  or the question is not used.
- **SeedBankProofs**: all five properties, for every dictionary whose names differ,
  whichever subjects are watched. FoundSubjects (SubjectsFound: the id at work, and
  every id written, is of a row of its subject) rests on RowsStay, that rows are
  never taken out, and on Greatest (NatSets), that the CHOOSE of `lay_ma_mon` finds
  a row; UnderOwnSubject and SampleNamesItsSubject follow. OrphansNeedARace adds
  DeletesCounted (a Delete sure of its count has no load beside it),
  OneRightAnswer adds LoadsChecked and LoadsCut (only the last group of a load is
  short of answers), FinishedBuildAgrees adds BuildWritten (what the build at work
  has left in the files so far).
- **PracticeNotebookProofs**: TypeCorrect with TimesOnce (a time read for answers
  not yet written is in no log and nobody else's), which makes the two logs one
  history. NotebookRuleAlways is LastTwo: a run of right answers shorter than two is
  one broken in the last two answers, for any finite history (the greatest time,
  and the greatest of the others). MasteredToldAlways follows the one answer
  written: right, it adds one to the run; wrong, it ends it.
- **NatSets**: what these proofs need of sets of times and ids: they are finite,
  have a greatest member, and two members count as two.

**Only model-checked** are the liveness properties (CountdownSettles,
InsistingSettles, PersistenceEmpties): every invariant and action property of a
passing run is also a theorem. Those that hold for requests one at a time
(SubmittedOnce, ActiveLimit, Downloadable, GradedIsFinal) have one slot for a
hypothesis, as their runs have. Out of the prover's reach are liveness under
fairness and ENABLED, what a recursive definition computes for every input
(induction over data), and RECURSIVE operators, of which no module has any. The
counterexamples of the three runs below stay with TLC too.

## Disagreements found

Each is a run TLC must find violated, quoted in PROJECT.json `findings`.

| Run | Where | What happens |
|---|---|---|
| `uploads_grade` | `assignment_service.go:413` | a grade given while a resubmission is being merged is overwritten |
| `bank_source` | `question_service.go:254` | Update checks the new source and saves the old one |
| `seed_names` | `database/ngan-hang/build.py:84` | two of the 27 subjects (micro- and macroeconomics) have the same name without marks: the files of the second replace those of the first |

Others met on the way have no run of their own:

- Two overlapping Submits both find the attempt open; both grade it, with two
  batches of details (`submission_repository.go:61`; SubmittedOnce with two slots
  is violated).
- A Submit in flight while the exam is deleted inserts its submission again (the
  same line; AttemptLedger has it as Returns).
- A result recovered after the paper changed size shows other numbers than the
  submission (`submission_service.go:235`; RecoveredOnSameSize has the condition).
- Chunks left by a removal that failed while a PUT was at work have no session any
  more, and nothing removes them (`assignment_service.go:317` and `:421`).
- An approved question set back to draft is accepted into an exam, because
  CountNotApproved does not look at the status (`question_repository.go:206`).
- `build.py:9` promises `seed-de-thi.sql`, which `main` never writes; loading the
  SQL twice doubles every question, and a subject the database lacks gets its
  questions with NULL for a subject, silently.
- `xuat-file-mau.py:6` says its files can be imported again in the UI, and
  `import_service.go` refuses rows without a source.

The properties
that hold only with one request at a time or while it is `calm` (ActiveLimit,
Downloadable, PaperIsLast, OwnAnswers, UsedIsApproved, UsedIsFrozen) say by that
condition which promises the code keeps only then: without it, two StartUploads
exceed the limit, a Grade brings back the name of a removed file, two updates of
an exam leave a mixture of their lists, a Review brings back the answers an Update
deleted, and an exam takes a question that is being edited.

## What is left out

- SeedBank: the texts and their escaping, the layout of the files, changes of a
  subject's name, the exams that also keep a subject from being deleted, the
  import of the sample files, and `tao-de-thi.sql`.
- TakeExamPage: the deletion and the availability of the exam (ExamAttempts has
  both), guests, the 24 hours a draft lives, the dialog that asks before handing in
  blank answers, which answers are picked (only how many are right), a
  local storage that refuses a draft (`take-exam.ts:89` ignores it), what an in-app link leaves behind of
  a page that waits for its answer, statements that fail.
- AssignmentUploads: two PUTs of one chunk in one `.tmp` file, the torn file a full
  disk leaves in the storage under a name no row has, and any property of empty
  directories (a crash before the session's row is created leaves one for good).
- PracticeNotebook: an INSERT that fails after some of its rows (`practice_answers` is
  a MyISAM table, without transactions: `TIEN-DO-CONG-VIEC.md:189`), the pages of the notebook and MyStats, which only read; two
  requests that read the clock in the same instant.
- Edits of an exam's settings while attempts are open, its deletion in ExamPaper
  (ExamAttempts has it), several questions at once in QuestionBank and with them
  the lookup of equal contents.
- Statements that take effect although an error is reported (a connection lost
  after the commit): statements that fail have no effect.
- The key of the answers: an answer is right or wrong by choice in ExamPaper.
- Parsing and layout (spreadsheets, printed exams, e-mail), encryption (a stored
  file stands for its content), identity and roles (who may call what).
- The components marked `not_modelled` in PROJECT.json, until the plan reaches
  them.

## The plan

Most important behaviour first; the first six are done.

1. **ExamAttempts**, 2. **AssignmentUploads**, 3. **ExamPaper**,
   4. **QuestionBank**, each with an MC module and a module of proofs.
5. **TakeExamPage**, composed with the attempts of the server, and
   **AttemptLedger** with the proof that ExamAttempts implements it.
6. **SeedBank** with **SeedData**; **PracticeNotebook**.
7. **UploadClient**, composed with AssignmentUploads: resuming, lost replies of
   Complete, commits whose reply is lost; **ChunkFiles**, the `.tmp` file of a
   chunk and two PUTs of it at once. Liveness: an upload whose network stays up
   completes.
8. **Account**: registration, codes, the reset of passwords and their approval,
   administrators' saves of the same row; **RateLimit** beside it.
9. **ExamCatalog**: Generate (a choice of questions as a pure function, checked
   against its definition), Clone, assignment to classes, visibility.
10. **ClassRoster** with posts; **Folders** (the tree stays a tree).
11. Proofs of the safety of TakeExamPage from the invariants of ExamAttempts, and
    of the properties of uploads that come one at a time: done.

A `calm` variable as in ExamPaper and QuestionBank will let the runs of one slot
(`attempts_faults`, `uploads_single`) become properties of the runs of two, and
their theorems do without the hypothesis of one slot.
