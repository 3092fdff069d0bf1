---------------------------- MODULE PracticeNotebook ----------------------------
(***************************************************************************)
(* The notebook of wrong answers of one student (practice_service.go,      *)
(* practice_repository.go): worked out, whenever it is needed, from all    *)
(* answers the student ever gave, in exams and in practice, in the order   *)
(* of their times; and the practice that empties it.                       *)
(*                                                                         *)
(* A member of Requests carries one request at a time, as in ExamAttempts; *)
(* each action is one SQL statement with the code up to the next one.  The *)
(* requests are those of one student in several tabs.  No two requests     *)
(* read the clock in the same millisecond.                                 *)
(***************************************************************************)
EXTENDS Integers, FiniteSets

CONSTANTS
    Requests,      \* goroutine slots
    Questions,     \* ids of questions
    Limit,         \* practiceQuestionLimit
    MaxExams,      \* bound on exams handed in
    MaxMishaps     \* bound on practices with a wrong answer, questions and exams
                   \* deleted and requests that die, together

ASSUME QuestionsAssumption == Questions \subseteq Nat \ {0} /\ IsFiniteSet(Questions)
ASSUME BoundsAssumption ==
    /\ Limit \in Nat \ {0} /\ MaxExams \in Nat /\ MaxMishaps \in Nat

VARIABLES
    bank,      \* the questions not deleted
    exams,     \* answers in exams: `submission_details` with their submit_time
    drills,    \* answers in practice: `practice_answers`
    clock,     \* the times read so far
    sheet,     \* the practice set the student has
    pc,        \* where each request stands
    exams1,    \* what each request read of exams
    answers,   \* what each request answers, right or wrong, by question
    seen,      \* the notebook each request works with
    stamp,     \* the time each request read
    handed, mishaps   \* what the bounds count

vars == <<bank, exams, drills, clock, sheet, pc, exams1, answers, seen, stamp, handed, mishaps>>
memory == <<exams1, answers, seen, stamp>>
bounds == <<handed, mishaps>>

Sheets == UNION {[S -> BOOLEAN] : S \in SUBSET Questions}
IsLog(log) == DOMAIN log \subseteq 1..clock /\ \A t \in DOMAIN log : log[t] \in Sheets
Entry == [wrong: Nat, need: 1..2]
NoAnswers == <<>>

PCs == {"idle", "set_drills", "set_bank", "practice_drills", "practice_exams",
        "practice_state", "practice_bank", "practice_save", "exam_save"}

-----------------------------------------------------------------------------
(* The notebook *)

\* AnswerEvents: both logs in the order of their times, here by time.
AnswerEvents(inExams, inDrills) ==
    [t \in DOMAIN inExams \cup DOMAIN inDrills |->
        IF t \in DOMAIN inExams THEN inExams[t] ELSE inDrills[t]]

Wrongs(events, q) == {t \in DOMAIN events : q \in DOMAIN events[t] /\ ~events[t][q]}
Rights(events, q) == {t \in DOMAIN events : q \in DOMAIN events[t] /\ events[t][q]}

\* A bug: a wrong answer does not end the run of right ones.
StreakOn(events, q) == Cardinality(Rights(events, q))
\* The right answers since the last wrong one.
Streak(events, q) ==
    Cardinality({t \in Rights(events, q) : \A u \in Wrongs(events, q) : u < t})

\* A bug: a question leaves with the third right answer.
NotebookStateLate(inExams, inDrills) ==
    LET events == AnswerEvents(inExams, inDrills)
        inside == {q \in Questions : Wrongs(events, q) # {} /\ Streak(events, q) <= 2}
    IN  [q \in inside |-> [wrong |-> Cardinality(Wrongs(events, q)),
                           need |-> 2 - Streak(events, q)]]
\* notebookState: the questions in it, how often wrong, how many right answers
\* they still need.
NotebookState(inExams, inDrills) ==
    LET events == AnswerEvents(inExams, inDrills)
        inside == {q \in Questions : Wrongs(events, q) # {} /\ Streak(events, q) < 2}
    IN  [q \in inside |-> [wrong |-> Cardinality(Wrongs(events, q)),
                           need |-> 2 - Streak(events, q)]]

\* practiceNotebook: the first of them, most wrong first, then by id.
Before(book, p, q) ==
    book[p].wrong > book[q].wrong \/ (book[p].wrong = book[q].wrong /\ p < q)
\* A bug: one place of the set is lost.
PractisedOneLess(book) ==
    {q \in DOMAIN book : Cardinality({p \in DOMAIN book : Before(book, p, q)}) < Limit - 1}
Practised(book) ==
    {q \in DOMAIN book : Cardinality({p \in DOMAIN book : Before(book, p, q)}) < Limit}

TypeOK ==
    /\ bank \subseteq Questions
    /\ clock \in Nat
    /\ IsLog(exams) /\ IsLog(drills) /\ DOMAIN exams \cap DOMAIN drills = {}
    /\ sheet \subseteq Questions
    /\ pc \in [Requests -> PCs]
    /\ DOMAIN exams1 = Requests /\ \A r \in Requests : IsLog(exams1[r])
    /\ answers \in [Requests -> Sheets]
    /\ DOMAIN seen = Requests
    /\ \A r \in Requests : /\ DOMAIN seen[r] \subseteq Questions
                           /\ \A q \in DOMAIN seen[r] : seen[r][q] \in Entry
    /\ stamp \in [Requests -> Nat]
    /\ handed \in 0..MaxExams /\ mishaps \in 0..MaxMishaps

Init ==
    /\ bank = Questions
    /\ exams = <<>> /\ drills = <<>>
    /\ clock = 0
    /\ sheet = {}
    /\ pc = [r \in Requests |-> "idle"]
    /\ exams1 = [r \in Requests |-> <<>>]
    /\ answers = [r \in Requests |-> NoAnswers]
    /\ seen = [r \in Requests |-> NoAnswers]
    /\ stamp = [r \in Requests |-> 0]
    /\ handed = 0 /\ mishaps = 0

Goto(r, label) == pc' = [pc EXCEPT ![r] = label]

\* The answer is sent; with it the request forgets all.
Finish(r) ==
    /\ Goto(r, "idle")
    /\ exams1' = [exams1 EXCEPT ![r] = <<>>]
    /\ answers' = [answers EXCEPT ![r] = NoAnswers]
    /\ seen' = [seen EXCEPT ![r] = NoAnswers]
    /\ stamp' = [stamp EXCEPT ![r] = 0]

\* Only the times of answers that are kept are counted.
ReadClock(r) ==
    IF answers'[r] = NoAnswers THEN UNCHANGED <<clock, stamp>>
    ELSE clock' = clock + 1 /\ stamp' = [stamp EXCEPT ![r] = clock + 1]

Written(log, r) ==
    IF answers[r] = NoAnswers THEN log
    ELSE [t \in DOMAIN log \cup {stamp[r]} |-> IF t = stamp[r] THEN answers[r] ELSE log[t]]

-----------------------------------------------------------------------------
(* GetPracticeSet *)

SetStart(r) ==
    /\ pc[r] = "idle"
    /\ exams1' = [exams1 EXCEPT ![r] = exams]
    /\ Goto(r, "set_drills")
    /\ UNCHANGED <<bank, exams, drills, clock, sheet, answers, seen, stamp, bounds>>

SetDrills(r) ==
    /\ pc[r] = "set_drills"
    /\ seen' = [seen EXCEPT ![r] = NotebookState(exams1[r], drills)]
    /\ exams1' = [exams1 EXCEPT ![r] = <<>>]
    /\ Goto(r, "set_bank")
    /\ UNCHANGED <<bank, exams, drills, clock, sheet, answers, stamp, bounds>>

\* The questions deleted are left out after the first Limit were taken.
SetBank(r) ==
    /\ pc[r] = "set_bank"
    /\ sheet' = Practised(seen[r]) \cap bank
    /\ Finish(r)
    /\ UNCHANGED <<bank, exams, drills, clock, bounds>>

-----------------------------------------------------------------------------
(* SubmitPractice *)

\* The student answers some of the set.
PracticeStart(r, sent) ==
    /\ pc[r] = "idle"
    /\ answers' = [answers EXCEPT ![r] = sent]
    /\ mishaps' = IF \A q \in DOMAIN sent : sent[q] THEN mishaps ELSE mishaps + 1
    /\ mishaps' <= MaxMishaps
    /\ exams1' = [exams1 EXCEPT ![r] = exams]
    /\ Goto(r, "practice_drills")
    /\ UNCHANGED <<bank, exams, drills, clock, sheet, seen, stamp, handed>>

\* Refused unless all questions are among those to practise now.
PracticeDrills(r) ==
    /\ pc[r] = "practice_drills"
    /\ IF DOMAIN answers[r] \subseteq Practised(NotebookState(exams1[r], drills))
       THEN /\ Goto(r, "practice_exams")
            /\ exams1' = [exams1 EXCEPT ![r] = <<>>]
            /\ UNCHANGED <<answers, seen, stamp>>
       ELSE Finish(r)
    /\ UNCHANGED <<bank, exams, drills, clock, sheet, bounds>>

\* The notebook is read again.
PracticeExams(r) ==
    /\ pc[r] = "practice_exams"
    /\ exams1' = [exams1 EXCEPT ![r] = exams]
    /\ Goto(r, "practice_state")
    /\ UNCHANGED <<bank, exams, drills, clock, sheet, answers, seen, stamp, bounds>>

PracticeState(r) ==
    /\ pc[r] = "practice_state"
    /\ seen' = [seen EXCEPT ![r] = NotebookState(exams1[r], drills)]
    /\ exams1' = [exams1 EXCEPT ![r] = <<>>]
    /\ Goto(r, "practice_bank")
    /\ UNCHANGED <<bank, exams, drills, clock, sheet, answers, stamp, bounds>>

\* Questions deleted are skipped; then the time is read.
PracticeBank(r) ==
    /\ pc[r] = "practice_bank"
    /\ answers' = [answers EXCEPT ![r] = [q \in DOMAIN @ \cap bank |-> @[q]]]
    /\ ReadClock(r)
    /\ Goto(r, "practice_save")
    /\ UNCHANGED <<bank, exams, drills, sheet, exams1, seen, bounds>>

\* A bug: any right answer masters its question.
MasteredAtOnce(r) == {q \in DOMAIN answers[r] : answers[r][q]}
\* Questions that needed one more right answer and got it.
Mastered(r) ==
    {q \in DOMAIN answers[r] : answers[r][q] /\ q \in DOMAIN seen[r] /\ seen[r][q].need <= 1}

\* One INSERT of all answers; the student is told which questions are mastered.
PracticeSave(r) ==
    /\ pc[r] = "practice_save"
    /\ drills' = Written(drills, r)
    /\ Finish(r)
    /\ UNCHANGED <<bank, exams, clock, sheet, bounds>>

\* A statement fails or the process dies: the request ends without effect.
Dies(r) ==
    /\ pc[r] # "idle"
    /\ mishaps < MaxMishaps /\ mishaps' = mishaps + 1
    /\ Finish(r)
    /\ UNCHANGED <<bank, exams, drills, clock, sheet, handed>>

-----------------------------------------------------------------------------
(* The rest of the system *)

\* Submit of submission_service.go: the time is read when it comes in, the
\* answers are there when its transaction commits.
ExamStart(r) ==
    /\ pc[r] = "idle"
    /\ handed < MaxExams /\ handed' = handed + 1
    /\ \E S \in SUBSET bank \ {{}} : \E sent \in [S -> BOOLEAN] :
          answers' = [answers EXCEPT ![r] = sent]
    /\ ReadClock(r)
    /\ Goto(r, "exam_save")
    /\ UNCHANGED <<bank, exams, drills, sheet, exams1, seen, mishaps>>

ExamSave(r) ==
    /\ pc[r] = "exam_save"
    /\ exams' = Written(exams, r)
    /\ Finish(r)
    /\ UNCHANGED <<bank, drills, clock, sheet, bounds>>

\* The exam is deleted with its submissions; a question that no exam holds any
\* more is deleted, its answers are not.
ExamDeleted ==
    /\ mishaps < MaxMishaps /\ mishaps' = mishaps + 1
    /\ exams # <<>> /\ exams' = <<>>
    /\ UNCHANGED <<bank, drills, clock, sheet, pc, memory, handed>>

QuestionDeleted ==
    /\ mishaps < MaxMishaps /\ mishaps' = mishaps + 1
    /\ \E q \in bank : bank' = bank \ {q}
    /\ UNCHANGED <<exams, drills, clock, sheet, pc, memory, handed>>

Practice(r) == \E S \in SUBSET sheet \ {{}} : \E sent \in [S -> BOOLEAN] : PracticeStart(r, sent)
PracticeRight(r) == sheet # {} /\ PracticeStart(r, [q \in sheet |-> TRUE])

Goes(r) ==
    \/ SetDrills(r) \/ SetBank(r) \/ PracticeDrills(r) \/ PracticeExams(r)
    \/ PracticeState(r) \/ PracticeBank(r) \/ PracticeSave(r) \/ ExamSave(r)

Next ==
    \/ \E r \in Requests : SetStart(r) \/ Practice(r) \/ ExamStart(r) \/ Goes(r) \/ Dies(r)
    \/ ExamDeleted \/ QuestionDeleted

Spec == Init /\ [][Next]_vars
\* Requests that have started end.
FairSpec == Spec /\ \A r \in Requests : WF_vars(Goes(r))

-----------------------------------------------------------------------------
(* Properties *)

Notebook == DOMAIN NotebookState(exams, drills)

\* The rule written above notebookState: in the notebook are the questions
\* once answered wrong whose last two answers were not both right.
NotebookRule ==
    \A q \in Questions :
        LET events == AnswerEvents(exams, drills)
            mine == {t \in DOMAIN events : q \in DOMAIN events[t]}
            Newest(n) == {t \in mine : Cardinality({u \in mine : u > t}) < n}
        IN  q \in Notebook <=>
              /\ \E t \in mine : ~events[t][q]
              /\ ~(Cardinality(mine) >= 2 /\ \A t \in Newest(2) : events[t][q])

\* A practice tells the student that a question is mastered just when the
\* question leaves the notebook (the comment on PracticeResult.Mastered), unless
\* other answers to it came in since the notebook was read (practice_service.go,
\* 238-282): its entry is another one, or an answer given later is there.
Untouched(r, q) ==
    LET book == NotebookState(exams, drills)
        events == AnswerEvents(exams, drills)
    IN  /\ q \in DOMAIN book \cap DOMAIN seen[r] /\ seen[r][q] = book[q]
        /\ \A t \in DOMAIN events : q \in DOMAIN events[t] => t < stamp[r]
MasteredTold ==
    [][\A r \in Requests : PracticeSave(r) =>
         \A q \in DOMAIN answers[r] :
            Untouched(r, q) => (q \in Mastered(r) <=> q \notin Notebook')]_vars

\* What makes the logs one history: a time read for answers not yet written is
\* one that no other request has and no log.
Stamped(r) == pc[r] \in {"practice_save", "exam_save"} /\ answers[r] # NoAnswers
TimesOnce ==
    /\ \A r \in Requests :
           Stamped(r) => stamp[r] \in 1..clock \ (DOMAIN exams \cup DOMAIN drills)
    /\ \A r, s \in Requests : Stamped(r) /\ Stamped(s) /\ stamp[r] = stamp[s] => r = s

\* A student who keeps asking for the set and answers it right gets every
\* question out of the notebook, though only the first Limit are practised,
\* unless deleted questions take all their places.
Persistent ==
    /\ SF_vars(\E r \in Requests : SetStart(r))
    /\ SF_vars(\E r \in Requests : PracticeRight(r))
PersistenceEmpties ==
    Persistent =>
        \A q \in Questions :
            (q \in Notebook) ~>
                (q \notin Notebook \/ q \notin bank \/ Cardinality(Notebook \ bank) >= Limit)
=============================================================================
