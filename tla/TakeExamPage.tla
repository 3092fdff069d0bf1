------------------------------ MODULE TakeExamPage ------------------------------
(***************************************************************************)
(* The exam page of the browser (features/take-exam/take-exam.ts) with the *)
(* server it talks to: the steps of Take and Submit are those of           *)
(* ExamAttempts, one by one; between page and server are requests that may *)
(* be lost, late, or served while nobody waits for the answer.             *)
(*                                                                         *)
(* Pages are tabs of one browser, logged in as one student: they share the *)
(* drafts in its local storage.  A request travels in one of the Requests. *)
(* Answers picked are known by how many of them are right; a sheet with    *)
(* none right is a blank one.                                              *)
(***************************************************************************)
EXTENDS ExamAttempts

CONSTANTS
    Pages,      \* tabs of the browser
    NoPage,     \* in place of a page: nobody waits for the answer
    MaxFaults,  \* bound on network errors and crashes
    MaxLoads    \* bound on pages opened and loaded again

\* Statements that fail and guests are in ExamAttempts.
ASSUME ServerAssumption == ~StatementsFail /\ ~GuestsAllowed
ASSUME PagesAssumption == NoPage \notin Pages
ASSUME BoundsAssumption == MaxFaults \in Nat /\ MaxLoads \in Nat

VARIABLES
    phase,   \* what each page is doing
    sheet,   \* data().submission_id; 0 = none
    picked,  \* selected
    left,    \* remaining; the interval is set while it is above zero
    result,  \* what the page shows after handing in
    drafts,  \* local storage, by submission_id
    mail,    \* the requests on their way
    faults,  \* network errors and crashes so far
    loads,   \* pages opened and loaded again so far
    handed,  \* what each page handed in and may have been saved (history)
    calm     \* no request was served that no page waits for, one page at a time (history)

page == <<phase, sheet, picked, left, result, drafts, handed>>
all == <<vars, page, mail, faults, loads, calm>>

Phases == {"away", "loading", "error", "open", "sending", "asking", "done"}
Idle == {"away", "error", "done"}
NoDraft == -1

Answer == [ok: BOOLEAN, id: 0..MaxRows, number: Int]
Refused == [ok |-> FALSE, id |-> 0, number |-> 0]

Mail == [stage: {"free", "sent", "served", "back"}, page: Pages \cup {NoPage},
         kind: {"take", "submit", "result"}, about: 0..MaxRows, picked: 0..Total, answer: Answer]
Free == [stage |-> "free", page |-> NoPage, kind |-> "take", about |-> 0, picked |-> 0,
         answer |-> Refused]

PageTypeOK ==
    /\ TypeOK
    /\ phase \in [Pages -> Phases]
    /\ sheet \in [Pages -> 0..MaxRows]
    /\ picked \in [Pages -> 0..Total]
    /\ left \in [Pages -> Nat]
    /\ result \in [Pages -> Answer]
    /\ drafts \in [Ids -> Nat \cup {NoDraft}]
    /\ mail \in [Requests -> Mail]
    /\ faults \in 0..MaxFaults
    /\ loads \in 0..MaxLoads
    /\ handed \in [Pages -> SUBSET (0..Total)]
    /\ calm \in BOOLEAN

PageInit ==
    /\ Init
    /\ phase = [t \in Pages |-> "away"]
    /\ sheet = [t \in Pages |-> 0]
    /\ picked = [t \in Pages |-> 0]
    /\ left = [t \in Pages |-> 0]
    /\ result = [t \in Pages |-> Refused]
    /\ drafts = [i \in Ids |-> NoDraft]
    /\ mail = [r \in Requests |-> Free]
    /\ faults = 0
    /\ loads = 0
    /\ handed = [t \in Pages |-> {}]
    /\ calm = TRUE

Set(f, t, x) == [f EXCEPT ![t] = x]

-----------------------------------------------------------------------------
(* Between page and server *)

\* Nobody waits any more for what t asked; an answer on its way back is lost.
Dropped(t) ==
    [r \in Requests |->
        IF mail[r].page # t THEN mail[r]
        ELSE IF mail[r].stage = "back" THEN Free ELSE [mail[r] EXCEPT !.page = NoPage]]

\* t asks the server.
Sent(m, t, kind, about, answers) ==
    LET free == {r \in Requests : m[r].stage = "free"}
        r == CHOOSE r \in free : TRUE
    IN  /\ free # {}
        /\ mail' = [m EXCEPT ![r] = [stage |-> "sent", page |-> t, kind |-> kind,
                                     about |-> about, picked |-> answers,
                                     answer |-> Refused]]

\* The answer to r leaves the server.
Back(r, answer) ==
    mail' = [mail EXCEPT ![r] = IF @.page = NoPage THEN Free
                                ELSE [@ EXCEPT !.stage = "back", !.answer = answer]]

\* A request nobody waits for any more may have been lost before it arrived.
Lost(r) ==
    /\ mail[r].stage = "sent" /\ mail[r].page = NoPage
    /\ mail' = Set(mail, r, Free)
    /\ UNCHANGED <<vars, page, faults, loads, calm>>

Arrived(r, kind) == mail[r].stage = "sent" /\ mail[r].kind = kind
Served(r) == mail' = [mail EXCEPT ![r].stage = "served"]
Late(r) == mail[r].page = NoPage

Arrives(r) ==
    /\ \/ /\ Arrived(r, "take")
          /\ TakeStart(r)
          /\ Served(r)
       \/ /\ Arrived(r, "take") /\ ~CanAccess
          /\ Back(r, Refused)
          /\ UNCHANGED vars
       \/ /\ Arrived(r, "submit")
          /\ SubmitStart(r)
          /\ Served(r)
    /\ calm' = (calm /\ ~Late(r))
    /\ UNCHANGED <<page, faults, loads>>

\* The steps of the handlers; the one that ends a handler sends the answer.
Step(r, answer) == IF pc'[r] = "idle" THEN Back(r, answer) ELSE UNCHANGED mail

Session(r) == [ok |-> TRUE, id |-> sub[r].id, number |-> RemainingSeconds(sub[r].start)]
Marked(r) == [ok |-> TRUE, id |-> sub[r].id, number |-> mail[r].picked]

Serves(r) ==
    /\ mail[r].stage = "served"
    /\ \/ (TakeFind(r) \/ TakeCount(r) \/ TakeCreate(r) \/ TakeExpire(r)) /\ Step(r, Refused)
       \/ TakeClock(r) /\ Step(r, Session(r))
       \/ (SubmitFind(r) \/ SubmitExpire(r)) /\ Step(r, Refused)
       \/ /\ SubmitSave(r)
          /\ rows'[sub[r].id].correct = mail[r].picked
          /\ mail[r].picked = 0 => UNCHANGED details
          /\ Step(r, Marked(r))
    /\ calm' = (calm /\ ~Late(r))
    /\ UNCHANGED <<page, faults, loads>>

\* A bug: the result is looked up by the exam.
RecoversLatest(r) ==
    /\ Arrived(r, "result")
    /\ LET done == {i \in Mine : rows[i].status = "graded"}
       IN IF done = {} THEN Back(r, Refused)
          ELSE \E i \in done : Back(r, [ok |-> TRUE, id |-> i, number |-> rows[i].correct])
    /\ UNCHANGED <<vars, page, faults, loads, calm>>
\* GetSubmissionResult
Recovers(r) ==
    /\ Arrived(r, "result")
    /\ LET row == rows[mail[r].about]
       IN Back(r, IF row.status # "graded" THEN Refused
                  ELSE [ok |-> TRUE, id |-> mail[r].about, number |-> row.correct])
    /\ UNCHANGED <<vars, page, faults, loads, calm>>

\* The server dies; pages that wait see their connections cut.
Dies ==
    /\ faults < MaxFaults /\ faults' = faults + 1
    /\ \E r \in Requests : mail[r].stage = "served"
    /\ Crash
    /\ mail' = [r \in Requests |->
                   IF mail[r].stage # "served" THEN mail[r]
                   ELSE IF Late(r) THEN Free ELSE [mail[r] EXCEPT !.stage = "back"]]
    /\ UNCHANGED <<page, loads, calm>>

Time == Tick /\ UNCHANGED <<page, mail, faults, loads, calm>>

-----------------------------------------------------------------------------
(* The page *)

\* The fields of a component that was just made.
Blank(t) ==
    /\ sheet' = Set(sheet, t, 0)
    /\ picked' = Set(picked, t, 0)
    /\ left' = Set(left, t, 0)
    /\ result' = Set(result, t, Refused)
    /\ handed' = Set(handed, t, {})

\* ngOnInit, of a new page or of the page loaded again.
Opens(t) ==
    /\ loads < MaxLoads /\ loads' = loads + 1
    /\ calm' = (calm /\ \A u \in Pages \ {t} : phase[u] \in Idle)
    /\ Sent(Dropped(t), t, "take", 0, 0)
    /\ phase' = Set(phase, t, "loading")
    /\ Blank(t)
    /\ UNCHANGED <<vars, drafts, faults>>

\* ngOnDestroy
Leaves(t) ==
    /\ phase[t] \notin Idle
    /\ phase' = Set(phase, t, "away")
    /\ mail' = Dropped(t)
    /\ Blank(t)
    /\ UNCHANGED <<vars, drafts, faults, loads, calm>>

\* restoreDraft, startTimer
Restored(i) == IF drafts[i] = NoDraft THEN 0 ELSE drafts[i]
Loads(t, answer) ==
    /\ phase' = Set(phase, t, "open")
    /\ sheet' = Set(sheet, t, answer.id)
    /\ picked' = Set(picked, t, Restored(answer.id))
    /\ left' = Set(left, t, IF answer.number > 0 THEN answer.number ELSE 0)
    /\ UNCHANGED <<result, drafts, handed>>

\* finishSubmission
Finishes(t, answer) ==
    /\ phase' = Set(phase, t, "done")
    /\ left' = Set(left, t, 0)
    /\ drafts' = Set(drafts, sheet[t], NoDraft)
    /\ result' = Set(result, t, answer)
    /\ UNCHANGED <<sheet, picked, handed>>

\* A bug: `submitting` is not looked at.
SubmitsAgain(t) ==
    /\ phase[t] \in {"open", "sending"}
    /\ Sent(mail, t, "submit", 0, picked[t])
    /\ phase' = Set(phase, t, "sending")
    /\ handed' = Set(handed, t, handed[t] \cup {picked[t]})
\* submit(), by the button: not while one is being sent, nor after the result.
Submits(t) ==
    /\ phase[t] = "open"
    /\ Sent(mail, t, "submit", 0, picked[t])
    /\ phase' = Set(phase, t, "sending")
    /\ handed' = Set(handed, t, handed[t] \cup {picked[t]})
HandsIn(t) ==
    /\ Submits(t)
    /\ UNCHANGED <<vars, sheet, picked, left, result, drafts, faults, loads, calm>>

\* A bug: no draft is saved while a hand-in is under way.
PicksUnsaved(t) ==
    /\ phase[t] \in {"open", "sending", "asking"}
    /\ \E answers \in 0..Total \ {picked[t]} :
          /\ picked' = Set(picked, t, answers)
          /\ drafts' = IF phase[t] = "open" THEN Set(drafts, sheet[t], answers) ELSE drafts
    /\ UNCHANGED <<vars, phase, sheet, left, result, handed, mail, faults, loads, calm>>
\* The answers may be changed until the result is there; saveDraft.
Picks(t) ==
    /\ phase[t] \in {"open", "sending", "asking"}
    /\ \E answers \in 0..Total \ {picked[t]} :
          /\ picked' = Set(picked, t, answers)
          /\ drafts' = Set(drafts, sheet[t], answers)
    /\ UNCHANGED <<vars, phase, sheet, left, result, handed, mail, faults, loads, calm>>

\* Bugs: the interval is never cleared; it only shows the time.
CountsOn(t) ==
    /\ phase[t] = "open"
    /\ left' = Set(left, t, left[t] - 1)
    /\ UNCHANGED <<vars, mail, phase, handed, sheet, picked, result, drafts, faults, loads, calm>>
CountsOnly(t) ==
    /\ left[t] > 0
    /\ left' = Set(left, t, left[t] - 1)
    /\ UNCHANGED <<vars, mail, phase, handed, sheet, picked, result, drafts, faults, loads, calm>>
\* The interval of startTimer; at zero it hands in, unless that is under way.
Counts(t) ==
    /\ left[t] > 0
    /\ left' = Set(left, t, left[t] - 1)
    /\ IF left[t] = 1 /\ phase[t] = "open" THEN Submits(t)
       ELSE UNCHANGED <<mail, phase, handed>>
    /\ UNCHANGED <<vars, sheet, picked, result, drafts, faults, loads, calm>>

\* A bug: `submitting` stays set when the result could not be had.
FailedSilently(t, m) ==
    \/ /\ phase[t] = "loading"
       /\ phase' = Set(phase, t, "error")
       /\ mail' = m
    \/ /\ phase[t] = "sending"
       /\ phase' = Set(phase, t, "asking")
       /\ Sent(m, t, "result", sheet[t], 0)
    \/ /\ phase[t] = "asking"
       /\ UNCHANGED phase
       /\ mail' = m
\* The error handlers: a hand-in that failed asks for the result of the sheet.
Failed(t, m) ==
    \/ /\ phase[t] = "loading"
       /\ phase' = Set(phase, t, "error")
       /\ mail' = m
    \/ /\ phase[t] = "sending"
       /\ phase' = Set(phase, t, "asking")
       /\ Sent(m, t, "result", sheet[t], 0)
    \/ /\ phase[t] = "asking"
       /\ phase' = Set(phase, t, "open")
       /\ mail' = m

\* An answer arrives.  That there is no result says that nothing was saved.
Hears(t) ==
    \E r \in Requests :
        /\ mail[r].page = t /\ mail[r].stage = "back"
        /\ LET answer == mail[r].answer
           IN \/ /\ ~answer.ok
                 /\ Failed(t, Dropped(t))
                 /\ handed' = IF phase[t] = "asking" THEN Set(handed, t, {}) ELSE handed
                 /\ UNCHANGED <<sheet, picked, left, result, drafts>>
              \/ /\ answer.ok
                 /\ mail' = Dropped(t)
                 /\ IF phase[t] = "loading" THEN Loads(t, answer) ELSE Finishes(t, answer)
        /\ UNCHANGED <<vars, faults, loads, calm>>

\* The connection fails; the request may still arrive.
Fails(t) ==
    /\ faults < MaxFaults /\ faults' = faults + 1
    /\ Failed(t, Dropped(t))
    /\ UNCHANGED <<vars, sheet, picked, left, result, drafts, handed, loads, calm>>

Server == \/ \E r \in Requests : Arrives(r) \/ Serves(r) \/ Recovers(r) \/ Lost(r)
          \/ Dies \/ Time
Page(t) == Opens(t) \/ Leaves(t) \/ HandsIn(t) \/ Picks(t) \/ Counts(t) \/ Hears(t) \/ Fails(t)
PageNext == Server \/ \E t \in Pages : Page(t)
PageSpec == PageInit /\ [][PageNext]_all

\* The server serves, time passes, answers are heard and intervals fire; the
\* student need not do anything.
Fairness ==
    /\ \A r \in Requests : /\ WF_all(Arrives(r) \/ Recovers(r) \/ Lost(r))
                           /\ WF_all(Serves(r))
    /\ \A t \in Pages : WF_all(Hears(t)) /\ WF_all(Counts(t))
    /\ WF_all(Time)
FairPageSpec == PageSpec /\ Fairness

-----------------------------------------------------------------------------
(* Properties *)

\* A result a page shows was saved with the answers it was graded on, whatever
\* was lost, late or sent by another page.
ResultWasSaved ==
    \A t \in Pages : phase[t] = "done" =>
        LET saved == details[result[t].id]
        IN result[t].number > 0 => \E k \in 1..Len(saved) : saved[k] = result[t].number

\* As long as no request is served that its page has given up, the only page
\* shows the result of its own sheet, graded on answers that it handed in
\* and never was told were not taken: the last ones, unless connections failed
\* both when it handed in and when it asked for the result.
OwnResult ==
    \A t \in Pages : calm /\ phase[t] = "done" =>
        result[t].id = sheet[t] /\ result[t].number \in handed[t]

\* In the same conditions an attempt is graded once: the page does not hand in
\* again before it knows what became of the first time.
OnePageSubmitsOnce ==
    calm => SubmittedOnce

\* In the same conditions, a page whose sheet has no result yet has its answers
\* in the drafts, so that loading it again, or another page, restores them.
DraftIsThePage ==
    \A t \in Pages : calm /\ phase[t] \in {"open", "sending", "asking"} =>
        drafts[sheet[t]] = picked[t] \/ (drafts[sheet[t]] = NoDraft /\ picked[t] = 0)

\* Without the student doing anything, a sheet with a time limit that lies
\* open is closed or its page shows a result, unless a connection failed or
\* the page was left: the countdown hands in (take-exam.ts, startTimer).
Settled(t, i) ==
    \/ rows[i].status # "in_progress"
    \/ phase[t] \in Idle
CountdownSettles ==
    Duration > 0 =>
        \A t \in Pages, i \in Ids :
            (phase[t] = "open" /\ sheet[t] = i) ~> (Settled(t, i) \/ faults > 0 \/ ~calm)

\* The same through failures, for a student who hands in again when told to.
InsistingSettles ==
    (\A t \in Pages : WF_all(HandsIn(t))) =>
        \A t \in Pages, i \in Ids :
            (phase[t] = "open" /\ sheet[t] = i) ~> Settled(t, i)
-----------------------------------------------------------------------------
(* What makes the safety properties inductive *)

\* The page has a sheet.
Filling == {"open", "sending", "asking"}

\* What a page in each phase waits for.
Awaits(t, m) ==
    \/ m.kind = "take" /\ phase[t] = "loading"
    \/ m.kind = "submit" /\ phase[t] = "sending"
    \/ m.kind = "result" /\ phase[t] = "asking" /\ m.about = sheet[t]

\* Where the handlers of the two kinds of request stand.
Taking == {"take_find", "take_count", "take_create", "take_clock", "take_expire"}
Submitting == {"submit_find", "submit_expire", "submit_save"}

\* A request that is served is the handler of its kind at work; only what
\* comes back has an answer, and one that says yes names a submission.
MailInOrder ==
    \A r \in Requests :
        /\ mail[r].stage = "free" => Late(r)
        /\ mail[r].stage # "served" => pc[r] = "idle"
        /\ mail[r].stage = "served" =>
             \/ mail[r].kind = "take" /\ pc[r] \in Taking
             \/ mail[r].kind = "submit" /\ pc[r] \in Submitting
        /\ mail[r].stage # "back" => mail[r].answer = Refused
        /\ mail[r].answer.ok => mail[r].answer.id \in Ids
        /\ mail[r].stage # "free" /\ mail[r].kind = "result" => mail[r].about \in Ids

\* A page waits for one answer at most, of the kind its phase is about.
OneAwaited ==
    /\ \A r \in Requests : ~Late(r) => Awaits(mail[r].page, mail[r])
    /\ \A q, r \in Requests : ~Late(r) /\ mail[q].page = mail[r].page => q = r

SheetsAreSubmissions == \A t \in Pages : phase[t] \in Filling => sheet[t] \in Ids
DraftsAreSheets == \A i \in Ids : drafts[i] \in 0..Total \cup {NoDraft}

PageInv == MailInOrder /\ OneAwaited /\ SheetsAreSubmissions /\ DraftsAreSheets

\* The score of a result is one of the submission's details.
Saved(answer) ==
    answer.number > 0 =>
        \E k \in 1..Len(details[answer.id]) : details[answer.id][k] = answer.number

\* Results on their way were saved, like those shown.
ResultsWereSaved ==
    /\ \A r \in Requests : mail[r].kind # "take" /\ mail[r].answer.ok => Saved(mail[r].answer)
    /\ \A t \in Pages : phase[t] = "done" => result[t].id \in Ids /\ Saved(result[t])

\* One page at a time.
OnePage == \A t, u \in Pages : phase[t] \notin Idle /\ phase[u] \notin Idle => t = u

\* One page at a time; its sheet is the only attempt that can be open, what is
\* open has no answers yet, and what is graded was graded on what the page
\* handed in.
CalmPages ==
    /\ OnePage
    /\ SubmittedOnce
    /\ \A i, j \in Open : i = j
    /\ \A i \in Ids : i \in Open \/ i >= nextId => details[i] = <<>>
    /\ \A t \in Pages : phase[t] \in Filling =>
         /\ Open \subseteq {sheet[t]}
         /\ rows[sheet[t]].status = "graded" => rows[sheet[t]].correct \in handed[t]

\* A request that a page waits for opens or finds the page's sheet and grades
\* what the page handed in; no answer tells the page otherwise.
CalmRequest(r) ==
    LET t == mail[r].page
        answer == mail[r].answer
    IN  /\ pc[r] \in {"take_count", "take_create"} => Open = {}
        /\ pc[r] = "take_clock" => sub[r].id \in Open
        /\ pc[r] = "submit_save" => sub[r].id = sheet[t] /\ details[sheet[t]] = <<>>
        /\ mail[r].kind = "submit" => mail[r].picked \in handed[t]
        /\ mail[r].kind = "take" /\ answer.ok => answer.id \in Open
        /\ mail[r].kind # "take" /\ answer.ok =>
             answer.id = sheet[t] /\ answer.number \in handed[t]
        /\ mail[r].kind = "result" /\ mail[r].stage = "back" /\ ~answer.ok =>
             rows[sheet[t]].status # "graded"

CalmInv == calm => CalmPages /\ \A r \in Requests : ~Late(r) => CalmRequest(r)
=============================================================================
