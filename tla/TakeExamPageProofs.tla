--------------------------- MODULE TakeExamPageProofs ---------------------------
(***************************************************************************)
(* Proofs about TakeExamPage, for every number of pages, of requests under *)
(* way and of faults.  The steps of the server are steps of ExamAttempts   *)
(* and keep its invariants; PageInv relates the pages, the requests on     *)
(* their way and the handlers that serve them.  With it ResultsWereSaved   *)
(* is inductive, and gives ResultWasSaved; so is CalmInv, and gives        *)
(* OwnResult, OnePageSubmitsOnce and DraftIsThePage.                       *)
(***************************************************************************)
EXTENDS TakeExamPage, ExamAttemptsProofs

-----------------------------------------------------------------------------
(* The server of the page is that of ExamAttempts *)

\* Each step of page and server is a step of the server, or leaves it alone.
LEMMA ServerSteps == ASSUME PageNext PROVE [Next]_vars
<1>1. ASSUME NEW r \in Requests, Arrives(r) PROVE [Next]_vars
  BY <1>1 DEF Arrives, Next, Take, Submit
<1>2. ASSUME NEW r \in Requests, Serves(r) PROVE [Next]_vars
  BY <1>2 DEF Serves, Next, Take, Submit
<1>3. ASSUME NEW r \in Requests, Recovers(r) \/ Lost(r) PROVE [Next]_vars
  BY <1>3 DEF Recovers, Lost, vars
<1>4. CASE Dies \/ Time
  BY <1>4 DEF Dies, Time, Next
<1>5. ASSUME NEW t \in Pages, Page(t) PROVE UNCHANGED vars
  BY <1>5 DEF Page, Opens, Leaves, HandsIn, Picks, Counts, Hears, Fails, vars
<1> QED
  BY <1>1, <1>2, <1>3, <1>4, <1>5 DEF PageNext, Server

\* What is proved of the attempts of a student holds with the pages too.
THEOREM ServerIsExamAttempts == PageSpec => Spec
<1>1. PageInit => Init
  BY DEF PageInit
<1>2. [PageNext]_all => [Next]_vars
  <2>1. UNCHANGED all => UNCHANGED vars
    BY DEF all
  <2> QED
    BY <2>1, ServerSteps
<1> QED
  BY <1>1, <1>2, PTL DEF PageSpec, Spec

\* Nor do pages add to what is seen of the attempts: the ledger is kept.
THEOREM PagesKeepTheLedger == PageSpec => KeepsLedger
BY ServerIsExamAttempts, LedgerKept, PTL

-----------------------------------------------------------------------------
(* Mail *)

\* The fields of the records that travel.
LEMMA MailFields ==
  /\ Refused \in Answer /\ ~Refused.ok
  /\ Free \in Mail /\ Free.stage = "free" /\ Free.page = NoPage /\ Free.kind = "take"
  /\ Free.answer = Refused
  /\ \A m \in Mail :
       /\ m.stage \in {"free", "sent", "served", "back"}
       /\ m.page \in Pages \cup {NoPage}
       /\ m.kind \in {"take", "submit", "result"}
       /\ m.about \in 0..MaxRows
       /\ m.picked \in 0..Total
       /\ m.answer \in Answer
  /\ \A a \in Answer : a.ok \in BOOLEAN /\ a.id \in 0..MaxRows /\ a.number \in Int
<1>1. 0 \in 0..MaxRows /\ 0 \in 0..Total
  BY ParametersAssumption
<1> QED
  BY <1>1 DEF Refused, Answer, Free, Mail

\* Nobody waits for what a page gave up; the rest of its requests goes on.
LEMMA DroppedMail ==
  ASSUME mail \in [Requests -> Mail], NEW t \in Pages
  PROVE  /\ Dropped(t) \in [Requests -> Mail]
         /\ \A r \in Requests :
              \/ mail[r].page # t /\ Dropped(t)[r] = mail[r]
              \/ mail[r].page = t /\ mail[r].stage = "back" /\ Dropped(t)[r] = Free
              \/ /\ mail[r].page = t /\ mail[r].stage # "back"
                 /\ Dropped(t)[r].page = NoPage
                 /\ Dropped(t)[r].stage = mail[r].stage
                 /\ Dropped(t)[r].kind = mail[r].kind
                 /\ Dropped(t)[r].about = mail[r].about
                 /\ Dropped(t)[r].picked = mail[r].picked
                 /\ Dropped(t)[r].answer = mail[r].answer
<1> SUFFICES ASSUME NEW r \in Requests
             PROVE  /\ Dropped(t)[r] \in Mail
                    /\ \/ mail[r].page # t /\ Dropped(t)[r] = mail[r]
                       \/ mail[r].page = t /\ mail[r].stage = "back" /\ Dropped(t)[r] = Free
                       \/ /\ mail[r].page = t /\ mail[r].stage # "back"
                          /\ Dropped(t)[r].page = NoPage
                          /\ Dropped(t)[r].stage = mail[r].stage
                          /\ Dropped(t)[r].kind = mail[r].kind
                          /\ Dropped(t)[r].about = mail[r].about
                          /\ Dropped(t)[r].picked = mail[r].picked
                          /\ Dropped(t)[r].answer = mail[r].answer
  <2>1. Dropped(t) = [r \in Requests |-> Dropped(t)[r]]
    BY DEF Dropped
  <2> QED
    BY <2>1
<1>1. mail[r] \in Mail
  OBVIOUS
<1>2. Dropped(t)[r] = IF mail[r].page # t THEN mail[r]
                      ELSE IF mail[r].stage = "back" THEN Free
                      ELSE [mail[r] EXCEPT !.page = NoPage]
  BY DEF Dropped
<1>3. CASE mail[r].page # t
  BY <1>1, <1>2, <1>3
<1>4. CASE mail[r].page = t /\ mail[r].stage = "back"
  BY <1>2, <1>4, MailFields
<1>5. CASE mail[r].page = t /\ mail[r].stage # "back"
  <2>1. Dropped(t)[r] = [mail[r] EXCEPT !.page = NoPage]
    BY <1>2, <1>5
  <2> QED
    BY <1>1, <1>5, <2>1 DEF Mail
<1> QED
  BY <1>3, <1>4, <1>5

\* A request is sent in a free slot.
LEMMA SentMail ==
  ASSUME NEW m \in [Requests -> Mail], NEW t \in Pages, NEW kind \in {"take", "submit", "result"},
         NEW about \in 0..MaxRows, NEW answers \in 0..Total, Sent(m, t, kind, about, answers)
  PROVE  /\ mail' \in [Requests -> Mail]
         /\ \E s \in Requests :
              /\ m[s].stage = "free"
              /\ mail'[s].stage = "sent" /\ mail'[s].page = t /\ mail'[s].kind = kind
              /\ mail'[s].about = about /\ mail'[s].picked = answers
              /\ mail'[s].answer = Refused
              /\ \A r \in Requests \ {s} : mail'[r] = m[r]
<1> DEFINE free == {r \in Requests : m[r].stage = "free"}
           s == CHOOSE r \in free : TRUE
           new == [stage |-> "sent", page |-> t, kind |-> kind, about |-> about,
                   picked |-> answers, answer |-> Refused]
<1>1. free # {} /\ mail' = [m EXCEPT ![s] = new]
  BY DEF Sent
<1>2. s \in free
  BY <1>1
<1>3. new \in Mail
  BY MailFields DEF Mail
<1>4. /\ new.stage = "sent" /\ new.page = t /\ new.kind = kind
      /\ new.about = about /\ new.picked = answers /\ new.answer = Refused
  OBVIOUS
<1> HIDE DEF s, new
<1> QED
  BY <1>1, <1>2, <1>3, <1>4

\* An answer goes to the page that waits for it, if there is one.
LEMMA BackMail ==
  ASSUME mail \in [Requests -> Mail], NEW r \in Requests, NEW answer \in Answer, Back(r, answer)
  PROVE  /\ mail' \in [Requests -> Mail]
         /\ \A q \in Requests \ {r} : mail'[q] = mail[q]
         /\ Late(r) => mail'[r] = Free
         /\ ~Late(r) =>
              /\ mail'[r].stage = "back" /\ mail'[r].answer = answer
              /\ mail'[r].page = mail[r].page /\ mail'[r].kind = mail[r].kind
              /\ mail'[r].about = mail[r].about /\ mail'[r].picked = mail[r].picked
<1>1. mail[r] \in Mail
  OBVIOUS
<1>2. LET n == [mail[r] EXCEPT !.stage = "back", !.answer = answer]
      IN  /\ n \in Mail /\ n.stage = "back" /\ n.answer = answer
          /\ n.page = mail[r].page /\ n.kind = mail[r].kind
          /\ n.about = mail[r].about /\ n.picked = mail[r].picked
  BY <1>1 DEF Mail
<1>3. /\ mail'[r] = IF mail[r].page = NoPage THEN Free
                    ELSE [mail[r] EXCEPT !.stage = "back", !.answer = answer]
      /\ \A q \in Requests \ {r} : mail'[q] = mail[q]
  BY DEF Back
<1>4. mail' = [mail EXCEPT ![r] = mail'[r]]
  BY <1>3 DEF Back
<1>5. mail'[r] \in Mail
  BY <1>2, <1>3, MailFields
<1>6. mail' \in [Requests -> Mail]
  BY <1>4, <1>5
<1> QED
  BY <1>2, <1>3, <1>6 DEF Late

\* A request that arrives is served.
LEMMA ServedMail ==
  ASSUME mail \in [Requests -> Mail], NEW r \in Requests, Served(r)
  PROVE  /\ mail' \in [Requests -> Mail]
         /\ \A q \in Requests \ {r} : mail'[q] = mail[q]
         /\ mail'[r].stage = "served" /\ mail'[r].answer = mail[r].answer
         /\ mail'[r].page = mail[r].page /\ mail'[r].kind = mail[r].kind
         /\ mail'[r].about = mail[r].about /\ mail'[r].picked = mail[r].picked
<1>1. mail[r] \in Mail
  OBVIOUS
<1>2. LET n == [mail[r] EXCEPT !.stage = "served"]
      IN  /\ n \in Mail /\ n.stage = "served" /\ n.answer = mail[r].answer
          /\ n.page = mail[r].page /\ n.kind = mail[r].kind
          /\ n.about = mail[r].about /\ n.picked = mail[r].picked
  BY <1>1 DEF Mail
<1>3. mail' = [mail EXCEPT ![r] = [mail[r] EXCEPT !.stage = "served"]]
  BY DEF Served
<1> QED
  BY <1>2, <1>3

-----------------------------------------------------------------------------
(* Pages, mail and handlers *)

\* A handler that goes on, or that a request has just reached.
LEMMA RequestIsServed ==
  ASSUME PageTypeOK, PageInv, NEW r \in Requests,
         \A q \in Requests \ {r} : mail'[q] = mail[q] /\ pc'[q] = pc[q],
         mail[r].stage # "free" /\ mail[r].answer = Refused,
         mail'[r].stage = "served" /\ mail'[r].answer = mail[r].answer,
         mail'[r].page = mail[r].page /\ mail'[r].kind = mail[r].kind,
         mail'[r].about = mail[r].about,
         \/ mail[r].kind = "take" /\ pc'[r] \in Taking
         \/ mail[r].kind = "submit" /\ pc'[r] \in Submitting,
         UNCHANGED page
  PROVE  PageInv'
<1>1. MailInOrder'
  BY MailFields DEF PageInv, MailInOrder, Late
<1>2. OneAwaited'
  BY DEF PageInv, OneAwaited, Awaits, Late, page
<1>3. SheetsAreSubmissions' /\ DraftsAreSheets'
  BY DEF PageInv, SheetsAreSubmissions, DraftsAreSheets, page
<1> QED
  BY <1>1, <1>2, <1>3 DEF PageInv

\* A request that is answered.
LEMMA RequestIsAnswered ==
  ASSUME PageTypeOK, PageInv, NEW r \in Requests, NEW answer \in Answer,
         answer.ok => answer.id \in Ids,
         Back(r, answer), mail[r].stage \in {"sent", "served"},
         pc'[r] = "idle" /\ \A q \in Requests \ {r} : pc'[q] = pc[q],
         UNCHANGED page
  PROVE  mail' \in [Requests -> Mail] /\ PageInv'
<1>0. mail \in [Requests -> Mail]
  BY DEF PageTypeOK
<1>1. /\ mail' \in [Requests -> Mail]
      /\ \A q \in Requests \ {r} : mail'[q] = mail[q]
      /\ Late(r) => mail'[r] = Free
      /\ ~Late(r) =>
           /\ mail'[r].stage = "back" /\ mail'[r].answer = answer
           /\ mail'[r].page = mail[r].page /\ mail'[r].kind = mail[r].kind
           /\ mail'[r].about = mail[r].about /\ mail'[r].picked = mail[r].picked
  BY <1>0, BackMail
<1>2. MailInOrder'
  BY <1>1, MailFields DEF PageInv, MailInOrder, Late
<1>3. OneAwaited'
  BY <1>1, MailFields DEF PageInv, OneAwaited, Awaits, Late, page
<1>4. SheetsAreSubmissions' /\ DraftsAreSheets'
  BY DEF PageInv, SheetsAreSubmissions, DraftsAreSheets, page
<1> QED
  BY <1>1, <1>2, <1>3, <1>4 DEF PageInv

\* A page that no longer waits for anything.
LEMMA PageDrops ==
  ASSUME PageTypeOK, PageInv, NEW t \in Pages, mail' = Dropped(t), UNCHANGED pc,
         \A u \in Pages \ {t} : phase'[u] = phase[u] /\ sheet'[u] = sheet[u]
  PROVE  mail' \in [Requests -> Mail] /\ MailInOrder' /\ OneAwaited'
<1>0. mail \in [Requests -> Mail] /\ t # NoPage
  BY PagesAssumption DEF PageTypeOK
<1>1. /\ mail' \in [Requests -> Mail]
      /\ \A r \in Requests :
           \/ mail[r].page # t /\ mail'[r] = mail[r]
           \/ mail[r].page = t /\ mail[r].stage = "back" /\ mail'[r] = Free
           \/ /\ mail[r].page = t /\ mail[r].stage # "back"
              /\ mail'[r].page = NoPage
              /\ mail'[r].stage = mail[r].stage
              /\ mail'[r].kind = mail[r].kind
              /\ mail'[r].about = mail[r].about
              /\ mail'[r].picked = mail[r].picked
              /\ mail'[r].answer = mail[r].answer
  BY <1>0, DroppedMail
<1>2. MailInOrder'
  BY <1>1, MailFields DEF PageInv, MailInOrder, Late
<1>3. ASSUME NEW r \in Requests, mail'[r].page # NoPage
      PROVE  mail'[r] = mail[r] /\ mail[r].page \in Pages \ {t}
  <2>1. mail'[r] = mail[r] /\ mail[r].page # t
    BY <1>1, <1>3, MailFields
  <2>2. mail[r] \in Mail
    BY <1>0
  <2> QED
    BY <1>3, <2>1, <2>2, MailFields
<1>4. OneAwaited'
  BY <1>3 DEF PageInv, OneAwaited, Awaits, Late
<1> QED
  BY <1>1, <1>2, <1>4

\* A page that asks, having given up what it waited for.
LEMMA PageAsks ==
  ASSUME PageTypeOK, PageInv, NEW t \in Pages, NEW kind \in {"take", "submit", "result"},
         NEW about \in 0..MaxRows, NEW answers \in 0..Total,
         Sent(Dropped(t), t, kind, about, answers), UNCHANGED pc,
         \/ kind = "take" /\ phase'[t] = "loading"
         \/ kind = "submit" /\ phase'[t] = "sending"
         \/ kind = "result" /\ phase'[t] = "asking" /\ about = sheet'[t] /\ about \in Ids,
         \A u \in Pages \ {t} : phase'[u] = phase[u] /\ sheet'[u] = sheet[u]
  PROVE  mail' \in [Requests -> Mail] /\ MailInOrder' /\ OneAwaited'
<1> DEFINE m == Dropped(t)
<1>0. mail \in [Requests -> Mail] /\ t # NoPage
  BY PagesAssumption DEF PageTypeOK
<1>1. /\ m \in [Requests -> Mail]
      /\ \A r \in Requests :
           \/ mail[r].page # t /\ m[r] = mail[r]
           \/ mail[r].page = t /\ mail[r].stage = "back" /\ m[r] = Free
           \/ /\ mail[r].page = t /\ mail[r].stage # "back"
              /\ m[r].page = NoPage
              /\ m[r].stage = mail[r].stage
              /\ m[r].kind = mail[r].kind
              /\ m[r].about = mail[r].about
              /\ m[r].picked = mail[r].picked
              /\ m[r].answer = mail[r].answer
  BY <1>0, DroppedMail
<1> HIDE DEF m
<1>2. Sent(m, t, kind, about, answers)
  BY DEF m
<1>3. /\ mail' \in [Requests -> Mail]
      /\ \E s \in Requests :
           /\ m[s].stage = "free"
           /\ mail'[s].stage = "sent" /\ mail'[s].page = t /\ mail'[s].kind = kind
           /\ mail'[s].about = about /\ mail'[s].picked = answers
           /\ mail'[s].answer = Refused
           /\ \A r \in Requests \ {s} : mail'[r] = m[r]
  BY <1>1, <1>2, SentMail
<1>4. PICK s \in Requests :
           /\ m[s].stage = "free"
           /\ mail'[s].stage = "sent" /\ mail'[s].page = t /\ mail'[s].kind = kind
           /\ mail'[s].about = about /\ mail'[s].picked = answers
           /\ mail'[s].answer = Refused
           /\ \A r \in Requests \ {s} : mail'[r] = m[r]
  BY <1>3
<1>5. pc[s] = "idle"
  BY <1>1, <1>4, MailFields DEF PageInv, MailInOrder
<1>6. MailInOrder'
  BY <1>1, <1>4, <1>5, MailFields DEF PageInv, MailInOrder, Late
<1>7. ASSUME NEW r \in Requests \ {s}, mail'[r].page # NoPage
      PROVE  mail'[r] = mail[r] /\ mail[r].page \in Pages \ {t}
  <2>1. mail'[r] = mail[r] /\ mail[r].page # t
    BY <1>1, <1>4, <1>7, MailFields
  <2>2. mail[r] \in Mail
    BY <1>0
  <2> QED
    BY <1>7, <2>1, <2>2, MailFields
<1>8. OneAwaited'
  BY <1>0, <1>4, <1>7 DEF PageInv, OneAwaited, Awaits, Late
<1> QED
  BY <1>3, <1>6, <1>8

\* A page that is filled in waits for nothing.
LEMMA NothingAwaited ==
  ASSUME PageTypeOK, PageInv, NEW t \in Pages, phase[t] \in {"away", "error", "open", "done"}
  PROVE  Dropped(t) = mail
<1>0. mail \in [Requests -> Mail] /\ t # NoPage
  BY PagesAssumption DEF PageTypeOK
<1>1. \A r \in Requests : mail[r].page # t
  BY <1>0 DEF PageInv, OneAwaited, Awaits, Late
<1>2. \A r \in Requests : Dropped(t)[r] = mail[r]
  BY <1>1 DEF Dropped
<1> QED
  BY <1>0, <1>2 DEF Dropped

\* The seconds a session has left are a whole number.
LEMMA SecondsLeft ==
  ASSUME TypeOK, NEW start \in Nat
  PROVE  RemainingSeconds(start) \in Int
<1>1. start + Duration - now \in Int /\ TicksPerSecond \in Nat \ {0}
  BY ParametersAssumption DEF TypeOK
<1>2. start + Duration - now > 0 => (start + Duration - now) \div TicksPerSecond \in Int
  BY <1>1
<1> QED
  BY <1>1, <1>2 DEF RemainingSeconds

\* What a handler answers is an answer, about a submission.
LEMMA HandlersAnswer ==
  ASSUME PageTypeOK, RowsInv, NEW r \in Requests, pc[r] \in {"take_clock", "submit_save"}
  PROVE  /\ sub[r].id \in Ids /\ sub[r].id \in 1..(nextId - 1)
         /\ Session(r) \in Answer /\ Session(r).id = sub[r].id
         /\ Marked(r) \in Answer /\ Marked(r).id = sub[r].id
         /\ Marked(r).number = mail[r].picked
<1>1. sub[r].id \in 1..(nextId - 1)
  BY DEF RowsInv, CopiesAgree, Holding
<1>2. sub[r].id \in Ids
  <2>1. nextId \in 1..(MaxRows + 1)
    BY DEF PageTypeOK, TypeOK
  <2> QED
    BY <1>1, <2>1, ParametersAssumption DEF Ids
<1>3. sub[r].id \in 0..MaxRows /\ sub[r].start \in Nat
  BY DEF PageTypeOK, TypeOK, Sub
<1>4. RemainingSeconds(sub[r].start) \in Int
  BY <1>3, SecondsLeft DEF PageTypeOK
<1>5. mail[r].picked \in Int
  <2>1. mail[r].picked \in 0..Total
    BY MailFields DEF PageTypeOK
  <2> QED
    BY <2>1, ParametersAssumption
<1> QED
  BY <1>1, <1>2, <1>3, <1>4, <1>5 DEF Session, Marked, Answer

\* The tables and handlers of the server, the pages, the requests on their way
\* and the drafts have their types; each request on its way is the one that
\* its page waits for and its handler serves.
THEOREM PageTyping == PageSpec => [](PageTypeOK /\ PageInv)
<1>1. PageInit /\ TypeOK => PageTypeOK /\ PageInv
  <2> SUFFICES ASSUME PageInit, TypeOK PROVE PageTypeOK /\ PageInv
    OBVIOUS
  <2>1. 0 \in 0..MaxRows /\ 0 \in 0..Total
    BY ParametersAssumption
  <2>2. PageTypeOK
    BY <2>1, MailFields, BoundsAssumption DEF PageInit, PageTypeOK, Phases
  <2>3. MailInOrder /\ OneAwaited
    BY MailFields DEF PageInit, Init, MailInOrder, OneAwaited, Late
  <2>4. SheetsAreSubmissions /\ DraftsAreSheets
    BY DEF PageInit, SheetsAreSubmissions, DraftsAreSheets, Filling
  <2> QED
    BY <2>2, <2>3, <2>4 DEF PageInv
<1>2. PageTypeOK /\ PageInv /\ RowsInv /\ TypeOK' /\ [PageNext]_all => PageTypeOK' /\ PageInv'
  <2> SUFFICES ASSUME PageTypeOK, PageInv, RowsInv, TypeOK', [PageNext]_all
               PROVE  PageTypeOK' /\ PageInv'
    OBVIOUS
  <2>0. /\ mail \in [Requests -> Mail] /\ pc \in [Requests -> PCs]
        /\ calm \in BOOLEAN /\ faults \in 0..MaxFaults /\ loads \in 0..MaxLoads
        /\ phase \in [Pages -> Phases] /\ sheet \in [Pages -> 0..MaxRows]
        /\ picked \in [Pages -> 0..Total] /\ left \in [Pages -> Nat]
        /\ result \in [Pages -> Answer] /\ drafts \in [Ids -> Nat \cup {NoDraft}]
        /\ handed \in [Pages -> SUBSET (0..Total)]
    BY DEF PageTypeOK, TypeOK
  <2>00. 0 \in 0..MaxRows /\ 0 \in 0..Total /\ 0..Total \subseteq Nat
    BY ParametersAssumption
  <2>a. ASSUME NEW r \in Requests, NEW l, Goto(r, l)
        PROVE  pc'[r] = l /\ \A q \in Requests \ {r} : pc'[q] = pc[q]
    BY <2>0, <2>a DEF Goto
  <2>b. ASSUME NEW r \in Requests, Finish(r)
        PROVE  pc'[r] = "idle" /\ \A q \in Requests \ {r} : pc'[q] = pc[q]
    BY <2>a, <2>b DEF Finish
  \* A step of the server, by what it does to the mail.
  <2>c. ASSUME UNCHANGED page, mail' \in [Requests -> Mail], calm' \in BOOLEAN,
               faults' \in 0..MaxFaults, loads' = loads
        PROVE  PageTypeOK'
    BY <2>c, <2>0 DEF PageTypeOK, page
  <2>1. ASSUME NEW r \in Requests, Arrives(r) PROVE PageTypeOK' /\ PageInv'
    <3>1. /\ mail[r].stage = "sent" /\ UNCHANGED <<page, faults, loads>> /\ calm' \in BOOLEAN
      BY <2>1, <2>0 DEF Arrives, Arrived
    <3>2. mail[r].stage # "free" /\ mail[r].answer = Refused
      BY <3>1 DEF PageInv, MailInOrder
    <3>3. CASE \/ Arrived(r, "take") /\ TakeStart(r) /\ Served(r)
               \/ Arrived(r, "submit") /\ SubmitStart(r) /\ Served(r)
      <4>1. /\ mail' \in [Requests -> Mail]
            /\ \A q \in Requests \ {r} : mail'[q] = mail[q]
            /\ mail'[r].stage = "served" /\ mail'[r].answer = mail[r].answer
            /\ mail'[r].page = mail[r].page /\ mail'[r].kind = mail[r].kind
            /\ mail'[r].about = mail[r].about
        BY <3>3, <2>0, ServedMail
      <4>2. \A q \in Requests \ {r} : pc'[q] = pc[q]
        BY <3>3, <2>a DEF TakeStart, SubmitStart
      <4>3. \/ mail[r].kind = "take" /\ pc'[r] = "take_find"
            \/ mail[r].kind = "submit" /\ pc'[r] = "submit_find"
        BY <3>3, <2>a DEF TakeStart, SubmitStart, Arrived
      <4>4. PageInv'
        BY <3>1, <3>2, <4>1, <4>2, <4>3, RequestIsServed DEF Taking, Submitting
      <4> QED
        BY <2>0, <2>c, <3>1, <4>1, <4>4
    <3>4. CASE Back(r, Refused) /\ UNCHANGED vars
      <4>1. pc'[r] = "idle" /\ \A q \in Requests \ {r} : pc'[q] = pc[q]
        BY <3>1, <3>4 DEF PageInv, MailInOrder, vars
      <4>2. mail' \in [Requests -> Mail] /\ PageInv'
        BY <3>1, <3>4, <4>1, RequestIsAnswered, MailFields
      <4> QED
        BY <2>0, <2>c, <3>1, <4>2
    <3> QED
      BY <2>1, <3>3, <3>4 DEF Arrives
  <2>2. ASSUME NEW r \in Requests, Serves(r) PROVE PageTypeOK' /\ PageInv'
    <3>1. /\ mail[r].stage = "served" /\ UNCHANGED <<page, faults, loads>> /\ calm' \in BOOLEAN
      BY <2>2, <2>0 DEF Serves
    <3>2. /\ mail[r].answer = Refused
          /\ \/ mail[r].kind = "take" /\ pc[r] \in Taking
             \/ mail[r].kind = "submit" /\ pc[r] \in Submitting
      BY <3>1 DEF PageInv, MailInOrder
    <3>3. /\ \A q \in Requests \ {r} : pc'[q] = pc[q]
          /\ \/ pc'[r] = "idle"
             \/ pc[r] \in Taking /\ pc'[r] \in Taking
             \/ pc[r] \in Submitting /\ pc'[r] \in Submitting
      <4>1. CASE TakeFind(r) \/ TakeCount(r) \/ TakeCreate(r) \/ TakeClock(r) \/ TakeExpire(r)
        BY <4>1, <2>a, <2>b DEF TakeFind, TakeCount, TakeCreate, TakeClock, TakeExpire, Taking
      <4>2. CASE SubmitFind(r) \/ SubmitExpire(r) \/ SubmitSave(r)
        BY <4>2, <2>a, <2>b DEF SubmitFind, SubmitExpire, SubmitSave, Submitting
      <4> QED
        BY <2>2, <4>1, <4>2 DEF Serves
    <3>4. \E answer \in Answer : (answer.ok => answer.id \in Ids) /\ Step(r, answer)
      <4>1. CASE Step(r, Refused)
        BY <4>1, MailFields
      <4>2. CASE TakeClock(r) /\ Step(r, Session(r))
        BY <4>2, HandlersAnswer DEF TakeClock
      <4>3. CASE SubmitSave(r) /\ Step(r, Marked(r))
        BY <4>3, HandlersAnswer DEF SubmitSave
      <4> QED
        BY <2>2, <4>1, <4>2, <4>3 DEF Serves
    <3>5. PICK answer \in Answer : (answer.ok => answer.id \in Ids) /\ Step(r, answer)
      BY <3>4
    <3>6. CASE pc'[r] = "idle"
      <4>1. Back(r, answer)
        BY <3>5, <3>6 DEF Step
      <4>2. mail' \in [Requests -> Mail] /\ PageInv'
        BY <3>1, <3>3, <3>5, <3>6, <4>1, RequestIsAnswered
      <4> QED
        BY <2>0, <2>c, <3>1, <4>2
    <3>7. CASE pc'[r] # "idle"
      <4>1. mail' = mail
        BY <3>5, <3>7 DEF Step
      <4>2. \/ mail[r].kind = "take" /\ pc'[r] \in Taking
            \/ mail[r].kind = "submit" /\ pc'[r] \in Submitting
        BY <3>2, <3>3, <3>7 DEF Taking, Submitting
      <4>3. PageInv'
        BY <3>1, <3>2, <3>3, <4>1, <4>2, RequestIsServed
      <4> QED
        BY <2>0, <2>c, <3>1, <4>1, <4>3
    <3> QED
      BY <3>6, <3>7
  <2>3. ASSUME NEW r \in Requests, Recovers(r) PROVE PageTypeOK' /\ PageInv'
    <3>1. /\ mail[r].stage = "sent" /\ mail[r].kind = "result"
          /\ UNCHANGED <<vars, page, faults, loads, calm>>
      BY <2>3 DEF Recovers, Arrived
    <3>2. mail[r].about \in Ids
      BY <3>1 DEF PageInv, MailInOrder
    <3> DEFINE found == [ok |-> TRUE, id |-> mail[r].about, number |-> rows[mail[r].about].correct]
    <3>3. found \in Answer /\ found.id \in Ids
      <4>1. rows[mail[r].about].correct \in 0..Total /\ mail[r].about \in 0..MaxRows
        BY <2>0, <3>2, MailFields DEF PageTypeOK, TypeOK, Row
      <4> QED
        BY <2>00, <3>2, <4>1 DEF Answer
    <3>4. Back(r, Refused) \/ Back(r, found)
      BY <2>3 DEF Recovers
    <3> HIDE DEF found
    <3>5. pc'[r] = "idle" /\ \A q \in Requests \ {r} : pc'[q] = pc[q]
      BY <3>1 DEF PageInv, MailInOrder, vars
    <3>6. mail' \in [Requests -> Mail] /\ PageInv'
      BY <3>1, <3>3, <3>4, <3>5, RequestIsAnswered, MailFields
    <3> QED
      BY <2>0, <2>c, <3>1, <3>6
  <2>4. ASSUME NEW r \in Requests, Lost(r) PROVE PageTypeOK' /\ PageInv'
    <3>1. /\ mail[r].stage = "sent" /\ mail[r].page = NoPage /\ mail' = [mail EXCEPT ![r] = Free]
          /\ UNCHANGED <<vars, page, faults, loads, calm>>
      BY <2>4 DEF Lost, Set
    <3>2. mail' \in [Requests -> Mail]
      BY <2>0, <3>1, MailFields
    <3>3. MailInOrder'
      BY <2>0, <3>1, MailFields DEF PageInv, MailInOrder, Late, vars
    <3>4. OneAwaited'
      BY <2>0, <3>1, MailFields DEF PageInv, OneAwaited, Awaits, Late, page
    <3>5. SheetsAreSubmissions' /\ DraftsAreSheets'
      BY <3>1 DEF PageInv, SheetsAreSubmissions, DraftsAreSheets, page
    <3> QED
      BY <2>0, <2>c, <3>1, <3>2, <3>3, <3>4, <3>5 DEF PageInv
  <2>5. CASE Dies
    <3>1. /\ UNCHANGED <<page, loads, calm>> /\ faults' \in 0..MaxFaults
          /\ \A r \in Requests : pc'[r] = "idle"
      BY <2>0, <2>5, BoundsAssumption DEF Dies, Crash
    <3>2. mail' = [r \in Requests |->
                     IF mail[r].stage # "served" THEN mail[r]
                     ELSE IF mail[r].page = NoPage THEN Free ELSE [mail[r] EXCEPT !.stage = "back"]]
      BY <2>5 DEF Dies, Late
    <3>3. ASSUME NEW r \in Requests
          PROVE  /\ mail'[r] \in Mail
                 /\ \/ mail[r].stage # "served" /\ mail'[r] = mail[r]
                    \/ mail[r].stage = "served" /\ mail[r].page = NoPage /\ mail'[r] = Free
                    \/ /\ mail[r].stage = "served" /\ mail'[r].stage = "back"
                       /\ mail'[r].page = mail[r].page /\ mail'[r].kind = mail[r].kind
                       /\ mail'[r].about = mail[r].about /\ mail'[r].answer = mail[r].answer
      <4>1. mail[r] \in Mail
        BY <2>0
      <4>2. CASE mail[r].stage # "served" \/ mail[r].page = NoPage
        BY <3>2, <4>1, <4>2, MailFields
      <4>3. CASE mail[r].stage = "served" /\ mail[r].page # NoPage
        <5>1. mail'[r] = [mail[r] EXCEPT !.stage = "back"]
          BY <3>2, <4>3
        <5> QED
          BY <4>1, <4>3, <5>1 DEF Mail
      <4> QED
        BY <4>2, <4>3
    <3>4. mail' \in [Requests -> Mail]
      <4>1. mail' = [r \in Requests |-> mail'[r]]
        BY <3>2
      <4> QED
        BY <3>3, <4>1
    <3>5. MailInOrder'
      BY <3>1, <3>3, MailFields DEF PageInv, MailInOrder, Late
    <3>6. OneAwaited'
      BY <3>1, <3>3, MailFields DEF PageInv, OneAwaited, Awaits, Late, page
    <3>7. SheetsAreSubmissions' /\ DraftsAreSheets'
      BY <3>1 DEF PageInv, SheetsAreSubmissions, DraftsAreSheets, page
    <3> QED
      BY <2>0, <2>c, <3>1, <3>4, <3>5, <3>6, <3>7 DEF PageInv
  <2>6. CASE Time
    <3>1. UNCHANGED <<page, mail, faults, loads, calm, pc>>
      BY <2>6 DEF Time, Tick
    <3>2. MailInOrder' /\ OneAwaited'
      BY <3>1 DEF PageInv, MailInOrder, OneAwaited, Awaits, Late, page
    <3>3. SheetsAreSubmissions' /\ DraftsAreSheets'
      BY <3>1 DEF PageInv, SheetsAreSubmissions, DraftsAreSheets, page
    <3> QED
      BY <2>0, <2>c, <3>1, <3>2, <3>3 DEF PageInv
  <2>7. ASSUME NEW t \in Pages, Opens(t) PROVE PageTypeOK' /\ PageInv'
    <3>1. /\ Sent(Dropped(t), t, "take", 0, 0) /\ UNCHANGED <<vars, drafts, faults>>
          /\ phase' = [phase EXCEPT ![t] = "loading"]
          /\ sheet' = [sheet EXCEPT ![t] = 0] /\ picked' = [picked EXCEPT ![t] = 0]
          /\ left' = [left EXCEPT ![t] = 0] /\ result' = [result EXCEPT ![t] = Refused]
          /\ handed' = [handed EXCEPT ![t] = {}]
          /\ calm' \in BOOLEAN /\ loads' \in 0..MaxLoads
      BY <2>7, <2>0, BoundsAssumption DEF Opens, Blank, Set
    <3>2. /\ phase'[t] = "loading" /\ \A u \in Pages \ {t} : phase'[u] = phase[u]
          /\ \A u \in Pages \ {t} : sheet'[u] = sheet[u]
      BY <3>1, <2>0
    <3>3. mail' \in [Requests -> Mail] /\ MailInOrder' /\ OneAwaited'
      <4>1. UNCHANGED pc
        BY <3>1 DEF vars
      <4> QED
        BY <3>1, <3>2, <2>00, <4>1, PageAsks
    <3>4. SheetsAreSubmissions' /\ DraftsAreSheets'
      BY <3>1, <3>2 DEF PageInv, SheetsAreSubmissions, DraftsAreSheets, Filling
    <3>5. PageTypeOK'
      BY <3>1, <3>3, <2>0, <2>00, MailFields DEF PageTypeOK, Phases
    <3> QED
      BY <3>3, <3>4, <3>5 DEF PageInv
  <2>8. ASSUME NEW t \in Pages, Leaves(t) PROVE PageTypeOK' /\ PageInv'
    <3>1. /\ mail' = Dropped(t) /\ UNCHANGED <<vars, drafts, faults, loads, calm>>
          /\ phase' = [phase EXCEPT ![t] = "away"]
          /\ sheet' = [sheet EXCEPT ![t] = 0] /\ picked' = [picked EXCEPT ![t] = 0]
          /\ left' = [left EXCEPT ![t] = 0] /\ result' = [result EXCEPT ![t] = Refused]
          /\ handed' = [handed EXCEPT ![t] = {}]
      BY <2>8 DEF Leaves, Blank, Set
    <3>2. /\ phase'[t] = "away" /\ \A u \in Pages \ {t} : phase'[u] = phase[u]
          /\ \A u \in Pages \ {t} : sheet'[u] = sheet[u]
      BY <3>1, <2>0
    <3>3. mail' \in [Requests -> Mail] /\ MailInOrder' /\ OneAwaited'
      <4>1. UNCHANGED pc
        BY <3>1 DEF vars
      <4> QED
        BY <3>1, <3>2, <4>1, PageDrops
    <3>4. SheetsAreSubmissions' /\ DraftsAreSheets'
      BY <3>1, <3>2 DEF PageInv, SheetsAreSubmissions, DraftsAreSheets, Filling
    <3>5. PageTypeOK'
      BY <3>1, <3>3, <2>0, <2>00, MailFields DEF PageTypeOK, Phases
    <3> QED
      BY <3>3, <3>4, <3>5 DEF PageInv
  \* The button, and the countdown at zero.
  <2>d. ASSUME NEW t \in Pages, Submits(t), UNCHANGED <<pc, sheet, drafts>>
        PROVE  /\ mail' \in [Requests -> Mail] /\ PageInv'
               /\ phase' \in [Pages -> Phases] /\ handed' \in [Pages -> SUBSET (0..Total)]
    <3>1. /\ phase[t] = "open" /\ Sent(mail, t, "submit", 0, picked[t])
          /\ phase' = [phase EXCEPT ![t] = "sending"]
          /\ handed' = [handed EXCEPT ![t] = handed[t] \cup {picked[t]}]
      BY <2>d DEF Submits, Set
    <3>2. Sent(Dropped(t), t, "submit", 0, picked[t])
      BY <3>1, NothingAwaited
    <3>3. phase'[t] = "sending" /\ \A u \in Pages \ {t} : phase'[u] = phase[u]
      BY <3>1, <2>0
    <3>4. mail' \in [Requests -> Mail] /\ MailInOrder' /\ OneAwaited'
      BY <2>d, <2>0, <2>00, <3>2, <3>3, PageAsks
    <3>5. SheetsAreSubmissions' /\ DraftsAreSheets'
      BY <2>d, <3>1, <3>3 DEF PageInv, SheetsAreSubmissions, DraftsAreSheets, Filling
    <3> QED
      BY <3>1, <3>4, <3>5, <2>0 DEF PageInv, Phases
  <2>9. ASSUME NEW t \in Pages, HandsIn(t) PROVE PageTypeOK' /\ PageInv'
    <3>1. /\ Submits(t) /\ UNCHANGED <<pc, sheet, drafts>>
          /\ UNCHANGED <<picked, left, result, faults, loads, calm>>
      BY <2>9 DEF HandsIn, vars
    <3>2. /\ mail' \in [Requests -> Mail] /\ PageInv'
          /\ phase' \in [Pages -> Phases] /\ handed' \in [Pages -> SUBSET (0..Total)]
      BY <3>1, <2>d
    <3> QED
      BY <3>1, <3>2, <2>0 DEF PageTypeOK
  <2>10. ASSUME NEW t \in Pages, Picks(t) PROVE PageTypeOK' /\ PageInv'
    <3>1. PICK answers \in 0..Total :
            /\ picked' = [picked EXCEPT ![t] = answers]
            /\ drafts' = [drafts EXCEPT ![sheet[t]] = answers]
      BY <2>10 DEF Picks, Set
    <3>2. UNCHANGED <<vars, phase, sheet, left, result, handed, mail, faults, loads, calm>>
      BY <2>10 DEF Picks
    <3>3. drafts' \in [Ids -> Nat \cup {NoDraft}] /\ picked' \in [Pages -> 0..Total]
      BY <3>1, <2>0, <2>00
    <3>4. MailInOrder' /\ OneAwaited'
      BY <3>2 DEF PageInv, MailInOrder, OneAwaited, Awaits, Late, vars
    <3>5. SheetsAreSubmissions' /\ DraftsAreSheets'
      BY <3>1, <3>2, <2>0 DEF PageInv, SheetsAreSubmissions, DraftsAreSheets
    <3> QED
      BY <3>2, <3>3, <3>4, <3>5, <2>0 DEF PageTypeOK, PageInv
  <2>11. ASSUME NEW t \in Pages, Counts(t) PROVE PageTypeOK' /\ PageInv'
    <3>1. /\ left[t] > 0 /\ left' = [left EXCEPT ![t] = left[t] - 1]
          /\ UNCHANGED <<vars, sheet, picked, result, drafts, faults, loads, calm>>
      BY <2>11 DEF Counts, Set
    <3>2. left' \in [Pages -> Nat]
      <4>1. left[t] - 1 \in Nat
        BY <3>1, <2>0
      <4> QED
        BY <3>1, <4>1, <2>0
    <3>3. CASE Submits(t)
      <4>1. UNCHANGED <<pc, sheet, drafts>>
        BY <3>1 DEF vars
      <4>2. /\ mail' \in [Requests -> Mail] /\ PageInv'
            /\ phase' \in [Pages -> Phases] /\ handed' \in [Pages -> SUBSET (0..Total)]
        BY <3>3, <4>1, <2>d
      <4> QED
        BY <3>1, <3>2, <4>2, <2>0 DEF PageTypeOK
    <3>4. CASE UNCHANGED <<mail, phase, handed>>
      <4>1. MailInOrder' /\ OneAwaited'
        BY <3>1, <3>4 DEF PageInv, MailInOrder, OneAwaited, Awaits, Late, vars
      <4>2. SheetsAreSubmissions' /\ DraftsAreSheets'
        BY <3>1, <3>4 DEF PageInv, SheetsAreSubmissions, DraftsAreSheets
      <4> QED
        BY <3>1, <3>2, <3>4, <4>1, <4>2, <2>0 DEF PageTypeOK, PageInv
    <3> QED
      BY <2>11, <3>3, <3>4 DEF Counts
  \* A request of the page failed.
  <2>e. ASSUME NEW t \in Pages, Failed(t, Dropped(t)), UNCHANGED <<pc, sheet, drafts>>
        PROVE  /\ mail' \in [Requests -> Mail] /\ PageInv' /\ phase' \in [Pages -> Phases]
    <3>1. \A u \in Pages \ {t} : phase'[u] = phase[u] /\ sheet'[u] = sheet[u]
      BY <2>e, <2>0 DEF Failed, Set
    <3>2. CASE phase[t] = "sending"
      <4>1. /\ phase' = [phase EXCEPT ![t] = "asking"]
            /\ Sent(Dropped(t), t, "result", sheet[t], 0)
        BY <2>e, <3>2 DEF Failed, Set
      <4>2. phase'[t] = "asking" /\ phase' \in [Pages -> Phases]
        BY <4>1, <2>0 DEF Phases
      <4>3. sheet[t] \in Ids /\ sheet'[t] = sheet[t] /\ sheet[t] \in 0..MaxRows
        BY <2>0, <2>e, <3>2 DEF PageInv, SheetsAreSubmissions, Filling
      <4>4. mail' \in [Requests -> Mail] /\ MailInOrder' /\ OneAwaited'
        BY <2>e, <2>00, <3>1, <4>1, <4>2, <4>3, PageAsks
      <4>5. SheetsAreSubmissions' /\ DraftsAreSheets'
        BY <2>e, <3>1, <4>3 DEF PageInv, SheetsAreSubmissions, DraftsAreSheets
      <4> QED
        BY <4>2, <4>4, <4>5 DEF PageInv
    <3>3. CASE phase[t] # "sending"
      <4>1. /\ mail' = Dropped(t)
            /\ \/ phase[t] = "loading" /\ phase' = [phase EXCEPT ![t] = "error"]
               \/ phase[t] = "asking" /\ phase' = [phase EXCEPT ![t] = "open"]
        BY <2>e, <3>3 DEF Failed, Set
      <4>2. /\ phase' \in [Pages -> Phases]
            /\ phase'[t] \in Filling => phase[t] \in Filling
        BY <4>1, <2>0 DEF Phases, Filling
      <4>3. mail' \in [Requests -> Mail] /\ MailInOrder' /\ OneAwaited'
        BY <2>e, <3>1, <4>1, PageDrops
      <4>4. SheetsAreSubmissions' /\ DraftsAreSheets'
        BY <2>e, <3>1, <4>2 DEF PageInv, SheetsAreSubmissions, DraftsAreSheets
      <4> QED
        BY <4>2, <4>3, <4>4 DEF PageInv
    <3> QED
      BY <3>2, <3>3
  <2>12. ASSUME NEW t \in Pages, Hears(t) PROVE PageTypeOK' /\ PageInv'
    <3>1. UNCHANGED <<vars, faults, loads, calm>>
      BY <2>12 DEF Hears
    <3>2. PICK r \in Requests :
            /\ mail[r].page = t /\ mail[r].stage = "back"
            /\ \/ /\ ~mail[r].answer.ok
                  /\ Failed(t, Dropped(t))
                  /\ handed' = IF phase[t] = "asking" THEN Set(handed, t, {}) ELSE handed
                  /\ UNCHANGED <<sheet, picked, left, result, drafts>>
               \/ /\ mail[r].answer.ok
                  /\ mail' = Dropped(t)
                  /\ IF phase[t] = "loading" THEN Loads(t, mail[r].answer)
                                             ELSE Finishes(t, mail[r].answer)
      BY <2>12 DEF Hears
    <3>3. CASE /\ Failed(t, Dropped(t))
               /\ handed' = IF phase[t] = "asking" THEN Set(handed, t, {}) ELSE handed
               /\ UNCHANGED <<sheet, picked, left, result, drafts>>
      <4>1. handed' \in [Pages -> SUBSET (0..Total)]
        BY <3>3, <2>0 DEF Set
      <4>2. /\ mail' \in [Requests -> Mail] /\ PageInv' /\ phase' \in [Pages -> Phases]
        BY <3>1, <3>3, <2>e DEF vars
      <4> QED
        BY <3>1, <3>3, <4>1, <4>2, <2>0 DEF PageTypeOK
    <3>4. CASE /\ mail[r].answer.ok
               /\ mail' = Dropped(t)
               /\ IF phase[t] = "loading" THEN Loads(t, mail[r].answer)
                                          ELSE Finishes(t, mail[r].answer)
      <4> DEFINE answer == mail[r].answer
      <4>1. /\ answer \in Answer /\ answer.id \in Ids /\ answer.id \in 0..MaxRows
            /\ answer.number \in Int
        BY <2>0, <3>4, MailFields DEF PageInv, MailInOrder
      <4> HIDE DEF answer
      <4>2. CASE phase[t] = "loading"
        <5>1. /\ phase' = [phase EXCEPT ![t] = "open"] /\ sheet' = [sheet EXCEPT ![t] = answer.id]
              /\ picked' = [picked EXCEPT ![t] = Restored(answer.id)]
              /\ left' = [left EXCEPT ![t] = IF answer.number > 0 THEN answer.number ELSE 0]
              /\ UNCHANGED <<result, drafts, handed>>
          BY <3>4, <4>2 DEF Loads, Set, answer
        <5>2. Restored(answer.id) \in 0..Total
          BY <2>00, <4>1 DEF Restored, PageInv, DraftsAreSheets
        <5>3. (IF answer.number > 0 THEN answer.number ELSE 0) \in Nat
          BY <4>1
        <5>4. /\ phase' \in [Pages -> Phases] /\ sheet' \in [Pages -> 0..MaxRows]
              /\ picked' \in [Pages -> 0..Total] /\ left' \in [Pages -> Nat]
          BY <2>0, <4>1, <5>1, <5>2, <5>3 DEF Phases
        <5>5. /\ sheet'[t] = answer.id
              /\ \A u \in Pages \ {t} : phase'[u] = phase[u] /\ sheet'[u] = sheet[u]
          BY <2>0, <5>1
        <5>6. mail' \in [Requests -> Mail] /\ MailInOrder' /\ OneAwaited'
          <6>1. UNCHANGED pc
            BY <3>1 DEF vars
          <6> QED
            BY <3>4, <5>5, <6>1, PageDrops
        <5>7. SheetsAreSubmissions' /\ DraftsAreSheets'
          BY <4>1, <5>1, <5>5 DEF PageInv, SheetsAreSubmissions, DraftsAreSheets
        <5> QED
          BY <3>1, <5>1, <5>4, <5>6, <5>7, <2>0 DEF PageTypeOK, PageInv
      <4>3. CASE phase[t] # "loading"
        <5>1. /\ phase' = [phase EXCEPT ![t] = "done"] /\ left' = [left EXCEPT ![t] = 0]
              /\ drafts' = [drafts EXCEPT ![sheet[t]] = NoDraft]
              /\ result' = [result EXCEPT ![t] = answer]
              /\ UNCHANGED <<sheet, picked, handed>>
          BY <3>4, <4>3 DEF Finishes, Set, answer
        <5>2. /\ phase' \in [Pages -> Phases] /\ left' \in [Pages -> Nat]
              /\ drafts' \in [Ids -> Nat \cup {NoDraft}] /\ result' \in [Pages -> Answer]
          BY <2>0, <4>1, <5>1 DEF Phases
        <5>3. /\ phase'[t] = "done"
              /\ \A u \in Pages \ {t} : phase'[u] = phase[u] /\ sheet'[u] = sheet[u]
          BY <2>0, <5>1
        <5>4. mail' \in [Requests -> Mail] /\ MailInOrder' /\ OneAwaited'
          <6>1. UNCHANGED pc
            BY <3>1 DEF vars
          <6> QED
            BY <3>4, <5>3, <6>1, PageDrops
        <5>5. SheetsAreSubmissions' /\ DraftsAreSheets'
          BY <2>0, <5>1, <5>3 DEF PageInv, SheetsAreSubmissions, DraftsAreSheets, Filling
        <5> QED
          BY <3>1, <5>1, <5>2, <5>4, <5>5, <2>0 DEF PageTypeOK, PageInv
      <4> QED
        BY <4>2, <4>3
    <3> QED
      BY <3>2, <3>3, <3>4
  <2>13. ASSUME NEW t \in Pages, Fails(t) PROVE PageTypeOK' /\ PageInv'
    <3>1. /\ Failed(t, Dropped(t)) /\ faults' \in 0..MaxFaults
          /\ UNCHANGED <<vars, sheet, picked, left, result, drafts, handed, loads, calm>>
      BY <2>13, <2>0, BoundsAssumption DEF Fails
    <3>2. /\ mail' \in [Requests -> Mail] /\ PageInv' /\ phase' \in [Pages -> Phases]
      BY <3>1, <2>e DEF vars
    <3> QED
      BY <3>1, <3>2, <2>0 DEF PageTypeOK
  <2>14. CASE UNCHANGED all
    <3>1. UNCHANGED <<page, mail, faults, loads, calm, pc>>
      BY <2>14 DEF all, vars
    <3>2. MailInOrder' /\ OneAwaited'
      BY <3>1 DEF PageInv, MailInOrder, OneAwaited, Awaits, Late, page
    <3>3. SheetsAreSubmissions' /\ DraftsAreSheets'
      BY <3>1 DEF PageInv, SheetsAreSubmissions, DraftsAreSheets, page
    <3> QED
      BY <2>0, <2>c, <3>1, <3>2, <3>3 DEF PageInv
  <2> QED
    BY <2>1, <2>2, <2>3, <2>4, <2>5, <2>6, <2>7, <2>8, <2>9, <2>10, <2>11, <2>12, <2>13,
       <2>14 DEF PageNext, Server, Page
<1>3. PageSpec => []TypeOK /\ []RowsInv
  BY ServerIsExamAttempts, TypeCorrect, RowsInvariant
<1> QED
  BY <1>1, <1>2, <1>3, PTL DEF PageSpec

-----------------------------------------------------------------------------
(* Results were saved *)

\* What SubmitTx does to the tables.
LEMMA SaveEffect ==
  ASSUME TypeOK, NEW r \in Requests, SubmitSave(r), sub[r].id \in Ids
  PROVE  \E c \in 0..Total :
           /\ rows'[sub[r].id].status = "graded" /\ rows'[sub[r].id].correct = c
           /\ \A i \in Ids \ {sub[r].id} : rows'[i] = rows[i] /\ details'[i] = details[i]
           /\ \/ c = 0 /\ details' = details
              \/ details'[sub[r].id] = Append(details[sub[r].id], c)
<1> DEFINE id == sub[r].id
           row(c) == Graded("student", sub[r].start, at[r], c)
<1>1. PICK c \in 0..Total, blank \in BOOLEAN : SubmitTx(id, row(c), blank)
  BY DEF SubmitSave
<1>2. row(c).correct = c /\ row(c).status = "graded"
  BY SubmissionFields DEF Graded
<1>3. /\ rows' = [rows EXCEPT ![id] = row(c)] /\ (blank => c = 0)
      /\ ~blank => details' = [details EXCEPT ![id] = Append(@, c)]
      /\ blank => details' = details
  BY <1>1, <1>2 DEF SubmitTx
<1> HIDE DEF row
<1>4. rows \in [Ids -> Row] /\ details \in [Ids -> Seq(0..Total)]
  BY DEF TypeOK
<1>5. rows'[id] = row(c) /\ \A i \in Ids \ {id} : rows'[i] = rows[i]
  BY <1>3, <1>4
<1>6. /\ blank => c = 0 /\ details' = details
      /\ ~blank => /\ details'[id] = Append(details[id], c)
                   /\ \A i \in Ids \ {id} : details'[i] = details[i]
  BY <1>3, <1>4
<1> QED
  BY <1>2, <1>5, <1>6

\* Answers once saved stay; nothing here deletes the exam.
LEMMA DetailsStay ==
  ASSUME PageTypeOK, RowsInv, PageNext, NEW i \in Ids, NEW n,
         \E k \in 1..Len(details[i]) : details[i][k] = n
  PROVE  \E k \in 1..Len(details'[i]) : details'[i][k] = n
<1>1. ASSUME NEW r \in Requests, SubmitSave(r)
      PROVE  \E k \in 1..Len(details'[i]) : details'[i][k] = n
  <2>1. TypeOK /\ sub[r].id \in Ids
    BY <1>1, HandlersAnswer DEF PageTypeOK, SubmitSave
  <2>2. PICK c \in 0..Total :
           /\ \A j \in Ids \ {sub[r].id} : details'[j] = details[j]
           /\ \/ details' = details
              \/ details'[sub[r].id] = Append(details[sub[r].id], c)
    BY <1>1, <2>1, SaveEffect
  <2>3. CASE details'[i] = details[i]
    BY <2>3
  <2>4. CASE details'[i] = Append(details[i], c)
    <3>1. details[i] \in Seq(0..Total)
      BY <2>1 DEF TypeOK
    <3>2. /\ Len(details[i]) \in Nat
          /\ Len(Append(details[i], c)) = Len(details[i]) + 1
          /\ \A k \in 1..Len(details[i]) : Append(details[i], c)[k] = details[i][k]
      BY <3>1
    <3> QED
      BY <2>4, <3>2
  <2> QED
    BY <2>2, <2>3, <2>4
<1>2. CASE details' = details
  BY <1>2
<1>3. ASSUME NEW r \in Requests, Arrives(r) \/ Recovers(r) \/ Lost(r) PROVE details' = details
  BY <1>3 DEF Arrives, TakeStart, SubmitStart, Recovers, Lost, vars
<1>4. ASSUME NEW r \in Requests, Serves(r) PROVE details' = details \/ SubmitSave(r)
  BY <1>4 DEF Serves, TakeFind, TakeCount, TakeCreate, TakeClock, TakeExpire, SubmitFind,
     SubmitExpire
<1>5. CASE Dies \/ Time
  BY <1>5, <1>2 DEF Dies, Crash, Time, Tick
<1>6. ASSUME NEW t \in Pages, Page(t) PROVE details' = details
  BY <1>6 DEF Page, Opens, Leaves, HandsIn, Picks, Counts, Hears, Fails, vars
<1> QED
  BY <1>1, <1>2, <1>3, <1>4, <1>5, <1>6 DEF PageNext, Server

\* What a hand-in is told is in the details.
LEMMA MarkedIsSaved ==
  ASSUME PageTypeOK, RowsInv, NEW r \in Requests, SubmitSave(r),
         rows'[sub[r].id].correct = mail[r].picked, mail[r].picked > 0
  PROVE  \E k \in 1..Len(details'[sub[r].id]) : details'[sub[r].id][k] = mail[r].picked
<1>1. TypeOK /\ sub[r].id \in Ids
  BY HandlersAnswer DEF PageTypeOK, SubmitSave
<1>2. details'[sub[r].id] = Append(details[sub[r].id], mail[r].picked)
  BY <1>1, SaveEffect
<1>3. details[sub[r].id] \in Seq(0..Total) /\ mail[r].picked \in 0..Total
  BY <1>1, MailFields DEF TypeOK, PageTypeOK
<1>4. /\ Len(details[sub[r].id]) \in Nat
      /\ Len(Append(details[sub[r].id], mail[r].picked)) = Len(details[sub[r].id]) + 1
      /\ Append(details[sub[r].id], mail[r].picked)[Len(details[sub[r].id]) + 1] = mail[r].picked
  BY <1>3
<1> QED
  BY <1>2, <1>4

\* A request after a page gave up what it waited for.
GivenUp(t, m, r) ==
  \/ m[r] = mail[r] /\ mail[r].page # t
  \/ /\ m[r].page = NoPage
     /\ ~m[r].answer.ok \/ (m[r].answer = mail[r].answer /\ m[r].kind = mail[r].kind)

\* The requests after a page gave up what it waited for.
LEMMA AfterDrop ==
  ASSUME PageTypeOK, NEW t \in Pages, NEW r \in Requests
  PROVE  GivenUp(t, Dropped(t), r)
<1>1. mail \in [Requests -> Mail]
  BY DEF PageTypeOK
<1>2. \/ mail[r].page # t /\ Dropped(t)[r] = mail[r]
      \/ mail[r].page = t /\ mail[r].stage = "back" /\ Dropped(t)[r] = Free
      \/ /\ Dropped(t)[r].page = NoPage
         /\ Dropped(t)[r].kind = mail[r].kind
         /\ Dropped(t)[r].answer = mail[r].answer
  BY <1>1, DroppedMail
<1> QED
  BY <1>2, MailFields DEF GivenUp

\* The requests after it also sent one.
LEMMA AfterAsk ==
  ASSUME PageTypeOK, PageInv, NEW t \in Pages, NEW kind \in {"take", "submit", "result"},
         NEW about \in 0..MaxRows, NEW answers \in 0..Total,
         Sent(Dropped(t), t, kind, about, answers)
  PROVE  \E s \in Requests :
           /\ mail'[s].stage = "sent" /\ mail'[s].page = t /\ mail'[s].kind = kind
           /\ mail'[s].picked = answers /\ mail'[s].answer = Refused
           /\ pc[s] = "idle"
           /\ \A r \in Requests \ {s} : GivenUp(t, mail', r)
<1> DEFINE m == Dropped(t)
<1>1. mail \in [Requests -> Mail]
  BY DEF PageTypeOK
<1>2. /\ m \in [Requests -> Mail]
      /\ \A r \in Requests : m[r].stage = "free" => mail[r].stage # "served"
  <2>1. /\ m \in [Requests -> Mail]
        /\ \A r \in Requests :
             \/ m[r] = mail[r]
             \/ mail[r].stage = "back"
             \/ m[r].stage = mail[r].stage
    BY <1>1, DroppedMail
  <2> QED
    BY <2>1
<1>3. \A r \in Requests : GivenUp(t, m, r)
  BY AfterDrop
<1> HIDE DEF m
<1>4. Sent(m, t, kind, about, answers)
  BY DEF m
<1>5. PICK s \in Requests :
           /\ m[s].stage = "free"
           /\ mail'[s].stage = "sent" /\ mail'[s].page = t /\ mail'[s].kind = kind
           /\ mail'[s].about = about /\ mail'[s].picked = answers
           /\ mail'[s].answer = Refused
           /\ \A r \in Requests \ {s} : mail'[r] = m[r]
  BY <1>2, <1>4, SentMail
<1>6. pc[s] = "idle"
  BY <1>2, <1>5 DEF PageInv, MailInOrder
<1>7. \A r \in Requests \ {s} : GivenUp(t, mail', r)
  BY <1>3, <1>5 DEF GivenUp
<1> QED
  BY <1>5, <1>6, <1>7

\* What a page sends or gives up.
LEMMA PagesMail ==
  ASSUME PageTypeOK, PageInv, NEW t \in Pages, Page(t)
  PROVE  \/ mail' = mail
         \/ mail' = Dropped(t)
         \/ \E kind \in {"take", "submit", "result"}, about \in 0..MaxRows, answers \in 0..Total :
              Sent(Dropped(t), t, kind, about, answers)
<1>0. /\ 0 \in 0..MaxRows /\ 0 \in 0..Total
      /\ sheet[t] \in 0..MaxRows /\ picked[t] \in 0..Total
  BY ParametersAssumption DEF PageTypeOK
<1>1. CASE Opens(t)
  BY <1>0, <1>1 DEF Opens
<1>2. CASE Leaves(t)
  BY <1>2 DEF Leaves
<1>3. CASE Submits(t)
  <2>1. Sent(mail, t, "submit", 0, picked[t]) /\ phase[t] = "open"
    BY <1>3 DEF Submits
  <2>2. Dropped(t) = mail
    BY <2>1, NothingAwaited
  <2> QED
    BY <1>0, <2>1, <2>2
<1>4. CASE HandsIn(t) \/ Picks(t) \/ Counts(t)
  BY <1>3, <1>4 DEF HandsIn, Picks, Counts
<1>5. CASE Failed(t, Dropped(t))
  BY <1>0, <1>5 DEF Failed
<1>6. CASE Hears(t) \/ Fails(t)
  BY <1>5, <1>6 DEF Hears, Fails
<1> QED
  BY <1>1, <1>2, <1>4, <1>6 DEF Page

\* Only the server makes answers.
LEMMA NoOtherAnswers ==
  ASSUME PageTypeOK, PageInv, PageNext, NEW r \in Requests, mail'[r].answer.ok
  PROVE  \/ mail'[r].answer = mail[r].answer /\ mail'[r].kind = mail[r].kind
         \/ Serves(r) \/ Recovers(r)
<1>0. mail \in [Requests -> Mail]
  BY DEF PageTypeOK
<1>1. ASSUME NEW q \in Requests, Arrives(q)
      PROVE  mail'[r].answer = mail[r].answer /\ mail'[r].kind = mail[r].kind
  <2>1. CASE Served(q)
    BY <1>0, <2>1, ServedMail
  <2>2. CASE Back(q, Refused)
    BY <1>0, <2>2, BackMail, MailFields
  <2> QED
    BY <1>1, <2>1, <2>2 DEF Arrives
<1>2. ASSUME NEW q \in Requests \ {r}, NEW answer, Back(q, answer) PROVE mail'[r] = mail[r]
  BY <1>0, <1>2 DEF Back
<1>3. ASSUME NEW q \in Requests \ {r}, Serves(q) \/ Recovers(q) PROVE mail'[r] = mail[r]
  BY <1>2, <1>3 DEF Serves, Step, Recovers
<1>4. ASSUME NEW q \in Requests, Lost(q)
      PROVE  mail'[r].answer = mail[r].answer /\ mail'[r].kind = mail[r].kind
  BY <1>0, <1>4, MailFields DEF Lost, Set
<1>5. CASE Dies
  <2>1. mail'[r] = IF mail[r].stage # "served" THEN mail[r]
                   ELSE IF Late(r) THEN Free ELSE [mail[r] EXCEPT !.stage = "back"]
    BY <1>5 DEF Dies
  <2>2. mail[r] \in Mail
    BY <1>0
  <2>3. /\ [mail[r] EXCEPT !.stage = "back"].answer = mail[r].answer
        /\ [mail[r] EXCEPT !.stage = "back"].kind = mail[r].kind
    BY <2>2 DEF Mail
  <2> QED
    BY <2>1, <2>3, MailFields
<1>6. CASE Time
  BY <1>6 DEF Time
<1>7. ASSUME NEW t \in Pages, Page(t)
      PROVE  mail'[r].answer = mail[r].answer /\ mail'[r].kind = mail[r].kind
  <2>1. CASE mail' = Dropped(t)
    BY <2>1, AfterDrop DEF GivenUp
  <2>2. ASSUME NEW kind \in {"take", "submit", "result"}, NEW about \in 0..MaxRows,
               NEW answers \in 0..Total, Sent(Dropped(t), t, kind, about, answers)
        PROVE  mail'[r].answer = mail[r].answer /\ mail'[r].kind = mail[r].kind
    <3>1. PICK s \in Requests : /\ mail'[s].answer = Refused
                                /\ \A q \in Requests \ {s} : GivenUp(t, mail', q)
      BY <2>2, AfterAsk
    <3>2. r # s
      BY <3>1, MailFields
    <3> QED
      BY <3>1, <3>2 DEF GivenUp
  <2> QED
    BY <1>7, <2>1, <2>2, PagesMail
<1> QED
  BY <1>1, <1>3, <1>4, <1>5, <1>6, <1>7 DEF PageNext, Server

\* An answer that says yes to a hand-in or to the question for a result.
LEMMA NewAnswersAreSaved ==
  ASSUME PageTypeOK, PageInv, RowsInv, ScoreHasItsDetails, NEW r \in Requests,
         Serves(r) \/ Recovers(r), mail'[r].kind # "take", mail'[r].answer.ok
  PROVE  Saved(mail[r].answer)'
<1>0. mail \in [Requests -> Mail] /\ mail[r].answer = Refused
  BY DEF PageTypeOK, PageInv, MailInOrder, Serves, Recovers, Arrived
<1>1. CASE Recovers(r)
  <2>1. mail[r].about \in Ids /\ UNCHANGED <<rows, details>>
    BY <1>1 DEF Recovers, Arrived, PageInv, MailInOrder, vars
  <2> DEFINE i == mail[r].about
             found == [ok |-> TRUE, id |-> i, number |-> rows[i].correct]
  <2>2. rows[i].correct \in 0..Total /\ i \in 0..MaxRows
    BY <1>0, <2>1, MailFields, RowFields DEF PageTypeOK, TypeOK
  <2>3. found \in Answer /\ found.id = i /\ found.number = rows[i].correct
    BY <2>2, ParametersAssumption DEF Answer
  <2>4. Back(r, Refused) \/ (Back(r, found) /\ rows[i].status = "graded")
    BY <1>1 DEF Recovers
  <2> HIDE DEF found
  <2>5. mail'[r].answer = found /\ rows[i].status = "graded"
    BY <1>0, <2>3, <2>4, BackMail, MailFields
  <2>6. rows[i].correct > 0 => \E k \in 1..Len(details[i]) : details[i][k] = rows[i].correct
    BY <2>1, <2>5 DEF ScoreHasItsDetails
  <2> QED
    BY <2>1, <2>3, <2>5, <2>6 DEF Saved
<1>2. CASE Serves(r)
  <2>1. ~Step(r, Refused)
    BY <1>0, BackMail, MailFields DEF Step
  <2>2. \/ TakeClock(r) /\ Step(r, Session(r))
        \/ /\ SubmitSave(r) /\ rows'[sub[r].id].correct = mail[r].picked
           /\ Step(r, Marked(r))
    BY <1>2, <2>1 DEF Serves
  <2>3. ~TakeClock(r)
    <3> SUFFICES ASSUME TakeClock(r) PROVE FALSE
      OBVIOUS
    <3>1. mail[r].kind = "take" /\ Step(r, Session(r)) /\ Session(r) \in Answer
      BY <1>2, <2>2, HandlersAnswer
         DEF Serves, PageInv, MailInOrder, TakeClock, SubmitSave, Submitting
    <3>2. mail'[r].kind = "take" \/ mail'[r] = Free
      BY <1>0, <3>1, BackMail DEF Step
    <3> QED
      BY <3>2, MailFields
  <2>4. /\ Marked(r) \in Answer /\ Marked(r).id = sub[r].id /\ Marked(r).number = mail[r].picked
    BY <2>2, <2>3, HandlersAnswer DEF SubmitSave
  <2>5. mail'[r].answer = Marked(r)
    BY <1>0, <2>2, <2>3, <2>4, BackMail, MailFields DEF Step
  <2>6. mail[r].picked > 0 =>
          \E k \in 1..Len(details'[sub[r].id]) : details'[sub[r].id][k] = mail[r].picked
    BY <2>2, <2>3, MarkedIsSaved
  <2> QED
    BY <2>4, <2>5, <2>6 DEF Saved
<1> QED
  BY <1>1, <1>2

\* A result a page shows is the one it showed, or an answer it has just heard.
LEMMA ShownResults ==
  ASSUME PageTypeOK, PageInv, PageNext, NEW t \in Pages, phase'[t] = "done"
  PROVE  /\ sheet'[t] = sheet[t] /\ handed'[t] = handed[t]
         /\ \/ phase[t] = "done" /\ result'[t] = result[t]
            \/ \E r \in Requests : /\ mail[r].page = t /\ mail[r].kind # "take"
                                   /\ mail[r].answer.ok /\ result'[t] = mail[r].answer
<1> DEFINE Shown == /\ phase[t] = "done"
                    /\ sheet'[t] = sheet[t] /\ handed'[t] = handed[t] /\ result'[t] = result[t]
<1>0. /\ result \in [Pages -> Answer] /\ phase \in [Pages -> Phases]
      /\ sheet \in [Pages -> 0..MaxRows] /\ handed \in [Pages -> SUBSET (0..Total)]
  BY DEF PageTypeOK
<1>1. CASE UNCHANGED page
  BY <1>1 DEF page
<1>2. ASSUME NEW u \in Pages, Opens(u) \/ Leaves(u) PROVE Shown
  <2>1. /\ phase' = [phase EXCEPT ![u] = "loading"] \/ phase' = [phase EXCEPT ![u] = "away"]
        /\ result' = [result EXCEPT ![u] = Refused]
        /\ sheet' = [sheet EXCEPT ![u] = 0] /\ handed' = [handed EXCEPT ![u] = {}]
    BY <1>2 DEF Opens, Leaves, Blank, Set
  <2> QED
    BY <1>0, <2>1
<1>3. ASSUME NEW u \in Pages, Submits(u) PROVE phase[t] = "done" /\ handed'[t] = handed[t]
  BY <1>0, <1>3 DEF Submits, Set
<1>4. ASSUME NEW u \in Pages, HandsIn(u) \/ Picks(u) \/ Counts(u) PROVE Shown
  BY <1>3, <1>4 DEF HandsIn, Picks, Counts
<1>5. ASSUME NEW u \in Pages, Failed(u, Dropped(u)) PROVE phase[t] = "done" /\ u # t
  BY <1>0, <1>5 DEF Failed, Set
<1>6. ASSUME NEW u \in Pages, Fails(u) PROVE Shown
  BY <1>5, <1>6 DEF Fails
<1>7. ASSUME NEW u \in Pages, Hears(u)
      PROVE  \/ Shown
             \/ /\ sheet'[t] = sheet[t] /\ handed'[t] = handed[t]
                /\ \E r \in Requests : /\ mail[r].page = t /\ mail[r].kind # "take"
                                       /\ mail[r].answer.ok /\ result'[t] = mail[r].answer
  <2>1. PICK r \in Requests :
          /\ mail[r].page = u
          /\ \/ /\ Failed(u, Dropped(u)) /\ UNCHANGED <<result, sheet>>
                /\ handed' = IF phase[u] = "asking" THEN Set(handed, u, {}) ELSE handed
             \/ /\ mail[r].answer.ok
                /\ IF phase[u] = "loading" THEN Loads(u, mail[r].answer)
                                           ELSE Finishes(u, mail[r].answer)
    BY <1>7 DEF Hears
  <2>2. CASE /\ Failed(u, Dropped(u)) /\ UNCHANGED <<result, sheet>>
             /\ handed' = IF phase[u] = "asking" THEN Set(handed, u, {}) ELSE handed
    BY <1>0, <1>5, <2>2 DEF Set
  <2>3. CASE phase[u] = "loading" /\ Loads(u, mail[r].answer)
    BY <1>0, <2>3 DEF Loads, Set
  <2>4. CASE phase[u] # "loading" /\ Finishes(u, mail[r].answer) /\ mail[r].answer.ok
    <3>1. mail[r].kind # "take"
      BY <2>1, <2>4, PagesAssumption DEF PageInv, OneAwaited, Awaits, Late
    <3>2. /\ phase' = [phase EXCEPT ![u] = "done"] /\ UNCHANGED <<sheet, handed>>
          /\ result' = [result EXCEPT ![u] = mail[r].answer]
      BY <2>4 DEF Finishes, Set
    <3> QED
      BY <1>0, <2>1, <2>4, <3>1, <3>2
  <2> QED
    BY <2>1, <2>2, <2>3, <2>4
<1>8. ASSUME Server PROVE UNCHANGED page
  BY <1>8 DEF Server, Arrives, Serves, Recovers, Lost, Dies, Time
<1> QED
  BY <1>1, <1>2, <1>4, <1>6, <1>7, <1>8 DEF PageNext, Page

\* Every answer on its way to a page that handed in, and every result shown,
\* has its score among the details of the submission it names.
THEOREM ResultsWereSavedAlways == PageSpec => []ResultsWereSaved
<1>1. PageInit => ResultsWereSaved
  BY MailFields DEF PageInit, ResultsWereSaved
<1>2. /\ PageTypeOK /\ PageInv /\ RowsInv /\ ScoreHasItsDetails /\ ResultsWereSaved
      /\ PageTypeOK' /\ [PageNext]_all
      => ResultsWereSaved'
  <2> SUFFICES ASSUME PageTypeOK, PageInv, RowsInv, ScoreHasItsDetails, ResultsWereSaved,
                      PageTypeOK', PageNext \/ UNCHANGED all
               PROVE  ResultsWereSaved'
    OBVIOUS
  <2>a. CASE PageNext
    <3>1. ASSUME NEW r \in Requests, mail[r].kind # "take", mail[r].answer.ok,
                 mail'[r].answer = mail[r].answer
          PROVE  Saved(mail[r].answer)'
      <4>1. mail[r].answer.id \in Ids
        BY <3>1 DEF PageInv, MailInOrder
      <4>2. Saved(mail[r].answer)
        BY <3>1 DEF ResultsWereSaved
      <4> QED
        BY <2>a, <3>1, <4>1, <4>2, DetailsStay DEF Saved
    <3>2. ASSUME NEW r \in Requests, mail'[r].kind # "take", mail'[r].answer.ok
          PROVE  Saved(mail[r].answer)'
      <4>1. CASE mail'[r].answer = mail[r].answer /\ mail'[r].kind = mail[r].kind
        BY <3>1, <3>2, <4>1
      <4> QED
        BY <2>a, <3>2, <4>1, NoOtherAnswers, NewAnswersAreSaved
    <3>3. ASSUME NEW t \in Pages, phase[t] = "done", result'[t] = result[t]
          PROVE  result'[t].id \in Ids /\ Saved(result[t])'
      <4>1. result[t].id \in Ids /\ Saved(result[t])
        BY <3>3 DEF ResultsWereSaved
      <4> QED
        BY <2>a, <3>3, <4>1, DetailsStay DEF Saved
    <3>4. ASSUME NEW t \in Pages, phase'[t] = "done"
          PROVE  result'[t].id \in Ids /\ Saved(result[t])'
      <4>1. CASE phase[t] = "done" /\ result'[t] = result[t]
        BY <3>3, <4>1
      <4>2. ASSUME NEW r \in Requests, mail[r].kind # "take", mail[r].answer.ok,
                   result'[t] = mail[r].answer
            PROVE  result'[t].id \in Ids /\ Saved(result[t])'
        <5>1. mail[r].answer.id \in Ids /\ Saved(mail[r].answer)
          BY <4>2 DEF PageInv, MailInOrder, ResultsWereSaved
        <5> QED
          BY <2>a, <4>2, <5>1, DetailsStay DEF Saved
      <4> QED
        BY <2>a, <3>4, <4>1, <4>2, ShownResults
    <3> QED
      BY <3>2, <3>4 DEF ResultsWereSaved
  <2>b. CASE UNCHANGED all
    BY <2>b DEF all, vars, page, ResultsWereSaved, Saved
  <2> QED
    BY <2>a, <2>b
<1>3. PageSpec => []RowsInv /\ []ScoreHasItsDetails
  BY ServerIsExamAttempts, RowsInvariant, ScoreHasItsDetailsAlways
<1> QED
  BY <1>1, <1>2, <1>3, PageTyping, PTL DEF PageSpec

\* A result a page shows was saved with the answers it was graded on, whatever
\* was lost, late or sent by another page.
THEOREM ResultWasSavedAlways == PageSpec => []ResultWasSaved
<1>1. ResultsWereSaved => ResultWasSaved
  BY DEF ResultsWereSaved, ResultWasSaved, Saved
<1> QED
  BY <1>1, ResultsWereSavedAlways, PTL

\* The server's tables and the state of the pages, of the requests on their
\* way and of the drafts keep their shape.
THEOREM PageTypeCorrect == PageSpec => []PageTypeOK
BY PageTyping, PTL

-----------------------------------------------------------------------------
(* While every request served is waited for *)

\* One page at a time waits for one answer.
LEMMA AttendedAlone ==
  ASSUME PageTypeOK, PageInv, OnePage, NEW r \in Requests, ~Late(r)
  PROVE  /\ mail[r].page \in Pages
         /\ \A u \in Pages \ {mail[r].page} : phase[u] \in Idle
         /\ \A q \in Requests \ {r} : Late(q)
         /\ \/ mail[r].kind = "take" /\ phase[mail[r].page] = "loading"
            \/ mail[r].kind = "submit" /\ phase[mail[r].page] = "sending"
            \/ /\ mail[r].kind = "result" /\ phase[mail[r].page] = "asking"
               /\ mail[r].about = sheet[mail[r].page]
<1>1. \A q \in Requests : ~Late(q) => mail[q].page \in Pages
  BY MailFields DEF PageTypeOK, Late
<1>2. \A q \in Requests : ~Late(q) =>
        \/ mail[q].kind = "take" /\ phase[mail[q].page] = "loading"
        \/ mail[q].kind = "submit" /\ phase[mail[q].page] = "sending"
        \/ /\ mail[q].kind = "result" /\ phase[mail[q].page] = "asking"
           /\ mail[q].about = sheet[mail[q].page]
  BY DEF PageInv, OneAwaited, Awaits
<1>3. \A q \in Requests : ~Late(q) => phase[mail[q].page] \notin Idle
  BY <1>2 DEF Idle
<1>4. \A u \in Pages \ {mail[r].page} : phase[u] \in Idle
  BY <1>1, <1>3 DEF OnePage
<1>5. \A q \in Requests \ {r} : Late(q)
  BY <1>1, <1>3, <1>4 DEF PageInv, OneAwaited
<1> QED
  BY <1>1, <1>2, <1>4, <1>5

\* The handlers, for a page that waits: what Take finds or creates is the one
\* open attempt, what Submit grades is the page's sheet, on what it handed in.
LEMMA HandlersCalm ==
  ASSUME PageTypeOK, PageInv, RowsInv, CalmPages, NEW r \in Requests,
         ~Late(r), CalmRequest(r), Arrives(r) \/ Serves(r)
  PROVE  CalmPages' /\ CalmRequest(r)' /\ \A q \in Requests \ {r} : Late(q)'
<1> DEFINE t == mail[r].page
           Others == \A q \in Requests \ {r} : Late(q)'
<1>0. /\ mail \in [Requests -> Mail] /\ pc \in [Requests -> PCs] /\ sub \in [Requests -> Sub]
      /\ rows \in [Ids -> Row] /\ details \in [Ids -> Seq(0..Total)] /\ TypeOK
  BY DEF PageTypeOK, TypeOK
<1>1. /\ t \in Pages
      /\ \A u \in Pages \ {t} : phase[u] \in Idle
      /\ \A q \in Requests \ {r} : Late(q)
      /\ \/ mail[r].kind = "take" /\ phase[t] = "loading"
         \/ mail[r].kind = "submit" /\ phase[t] = "sending"
         \/ mail[r].kind = "result"
  BY AttendedAlone DEF CalmPages
<1>2. /\ UNCHANGED page /\ mail[r].stage \in {"sent", "served"} /\ mail[r].answer = Refused
      /\ mail[r].kind = "submit" => mail[r].picked \in handed[t]
  BY DEF Arrives, Serves, Arrived, PageInv, MailInOrder, CalmRequest
<1>g. ASSUME NEW l, Goto(r, l) PROVE pc'[r] = l
  BY <1>0, <1>g DEF Goto
<1>f. ASSUME Finish(r) PROVE pc'[r] = "idle"
  BY <1>g, <1>f DEF Finish
<1>k. ASSUME UNCHANGED <<rows, nextId, details>> PROVE CalmPages'
  BY <1>k, <1>2 DEF CalmPages, OnePage, SubmittedOnce, Open, Mine, page
<1>r. Refused \in Answer /\ ~Refused.ok
  BY MailFields
\* The handler goes on with the request.
<1>a. ASSUME \A q \in Requests \ {r} : mail'[q] = mail[q],
             mail'[r].page = t, mail'[r].kind = mail[r].kind, mail'[r].picked = mail[r].picked,
             mail'[r].answer = Refused, mail'[r].stage = "served",
             pc'[r] \in {"take_count", "take_create"} => Open' = {},
             pc'[r] = "take_clock" => sub'[r].id \in Open',
             pc'[r] = "submit_save" => sub'[r].id = sheet[t] /\ details'[sheet[t]] = <<>>
      PROVE  CalmRequest(r)' /\ Others
  BY <1>a, <1>1, <1>2, <1>r DEF CalmRequest, Late, page
\* It ends, and the page will have its answer.
<1>b. ASSUME NEW answer \in Answer, Back(r, answer), pc'[r] = "idle", mail[r].kind # "result",
             answer.ok => \/ mail[r].kind = "take" /\ answer.id \in Open'
                          \/ /\ mail[r].kind = "submit"
                             /\ answer.id = sheet[t] /\ answer.number \in handed[t]
      PROVE  CalmRequest(r)' /\ Others
  <2>1. /\ mail'[r].answer = answer /\ mail'[r].page = t /\ mail'[r].kind = mail[r].kind
        /\ mail'[r].picked = mail[r].picked
        /\ \A q \in Requests \ {r} : mail'[q] = mail[q]
    BY <1>0, <1>b, BackMail
  <2> QED
    BY <2>1, <1>b, <1>1, <1>2 DEF CalmRequest, Late, page
<1>c. ASSUME NEW i, NEW time \in Nat, ExpireRow(i, time), UNCHANGED <<nextId, details>>
      PROVE  CalmPages' /\ Open' \subseteq Open
  <2>1. ASSUME NEW j \in Ids
        PROVE  rows'[j] = rows[j] \/ rows'[j].status = "expired"
    <3>1. CASE rows' = rows
      BY <3>1
    <3>2. CASE rows' = [rows EXCEPT ![i] = Closed(@, time)]
      <4>1. Closed(rows[j], time).status = "expired"
        BY <1>0, ClosedRow
      <4> QED
        BY <1>0, <3>2, <4>1
    <3> QED
      BY <1>c, <3>1, <3>2 DEF ExpireRow
  <2>2. Open' \subseteq Open
    BY <2>1 DEF Open, Mine
  <2>3. \A u \in Pages : phase[u] \in Filling => sheet[u] \in Ids
    BY DEF PageInv, SheetsAreSubmissions
  <2>4. \A u \in Pages : phase'[u] \in Filling =>
          /\ Open' \subseteq {sheet'[u]}
          /\ rows'[sheet'[u]].status = "graded" => rows'[sheet'[u]].correct \in handed'[u]
    BY <1>2, <2>1, <2>2, <2>3 DEF CalmPages, page
  <2>5. OnePage' /\ SubmittedOnce'
    BY <1>2, <1>c DEF CalmPages, OnePage, SubmittedOnce, page
  <2>6. /\ \A j, k \in Open' : j = k
        /\ \A j \in Ids : j \in Open' \/ j >= nextId' => details'[j] = <<>>
    BY <1>c, <2>2 DEF CalmPages
  <2> QED
    BY <2>2, <2>4, <2>5, <2>6 DEF CalmPages
<1>3. CASE Arrives(r)
  <2>1. CASE Arrived(r, "take") /\ Back(r, Refused) /\ UNCHANGED vars
    <3>1. pc'[r] = "idle" /\ UNCHANGED <<rows, nextId, details>>
      BY <2>1 DEF Arrived, PageInv, MailInOrder, vars
    <3> QED
      BY <1>b, <1>k, <1>r, <2>1, <3>1 DEF Arrived
  <2>2. CASE \/ TakeStart(r) /\ Served(r)
             \/ SubmitStart(r) /\ Served(r)
    <3>1. /\ pc'[r] \in {"take_find", "submit_find"} /\ UNCHANGED <<rows, nextId, details>>
      BY <1>g, <2>2 DEF TakeStart, SubmitStart
    <3>2. /\ \A q \in Requests \ {r} : mail'[q] = mail[q]
          /\ mail'[r].page = t /\ mail'[r].kind = mail[r].kind /\ mail'[r].picked = mail[r].picked
          /\ mail'[r].answer = Refused /\ mail'[r].stage = "served"
      BY <1>0, <1>2, <2>2, ServedMail
    <3> QED
      BY <1>a, <1>k, <3>1, <3>2
  <2> QED
    BY <1>3, <2>1, <2>2 DEF Arrives
<1>4. CASE Serves(r)
  <2>0. mail[r].stage = "served"
    BY <1>4 DEF Serves
  <2>k. /\ mail[r].kind = "take" \/ mail[r].kind = "submit"
        /\ mail[r].kind = "take" => pc[r] \in Taking
        /\ mail[r].kind = "submit" => pc[r] \in Submitting
    BY <2>0 DEF PageInv, MailInOrder
  <2>a. ASSUME Step(r, Refused), pc'[r] = "idle" PROVE CalmRequest(r)' /\ Others
    BY <1>b, <1>r, <2>a, <2>k DEF Step
  <2>b. ASSUME NEW answer, Step(r, answer), pc'[r] # "idle",
               pc'[r] \in {"take_count", "take_create"} => Open' = {},
               pc'[r] = "take_clock" => sub'[r].id \in Open',
               pc'[r] = "submit_save" => sub'[r].id = sheet[t] /\ details'[sheet[t]] = <<>>
        PROVE  CalmRequest(r)' /\ Others
    <3>1. mail' = mail
      BY <2>b DEF Step
    <3> QED
      BY <1>a, <1>2, <2>0, <2>b, <3>1
  <2>c. Open' = Open \/ ~UNCHANGED rows
    BY DEF Open, Mine
  <2>n. mail[r].kind = "take" => \A u \in Pages : phase[u] \notin Filling
    BY <1>1 DEF Filling, Idle
  <2>1. CASE TakeFind(r) /\ Step(r, Refused)
    <3>1. UNCHANGED <<rows, nextId, details>>
      BY <2>1 DEF TakeFind
    <3>2. CASE \E i \in Open : sub' = [sub EXCEPT ![r] = [id |-> i, start |-> rows[i].start]]
                               /\ Goto(r, "take_clock")
      <4>1. sub'[r].id \in Open /\ pc'[r] = "take_clock"
        BY <1>0, <1>g, <3>2
      <4> QED
        BY <1>k, <2>1, <2>b, <2>c, <3>1, <4>1
    <3>3. CASE Open = {} /\ Goto(r, "take_count")
      BY <1>g, <1>k, <2>1, <2>b, <2>c, <3>1, <3>3
    <3> QED
      BY <2>1, <3>2, <3>3, ServerAssumption DEF TakeFind
  <2>2. CASE TakeCount(r) /\ Step(r, Refused)
    <3>1. UNCHANGED <<rows, nextId, details>> /\ Open = {}
      BY <2>2 DEF TakeCount, CalmRequest
    <3>2. CASE Finish(r)
      BY <1>f, <1>k, <2>2, <2>a, <3>1, <3>2
    <3>3. CASE Goto(r, "take_create")
      BY <1>g, <1>k, <2>2, <2>b, <2>c, <3>1, <3>3
    <3> QED
      BY <2>2, <3>2, <3>3 DEF TakeCount
  <2>3. CASE TakeCreate(r) /\ Step(r, Refused)
    <3>1. /\ rows' = [rows EXCEPT ![nextId] = Opened(now)] /\ nextId <= MaxRows
          /\ nextId' = nextId + 1 /\ details' = details
          /\ sub' = [sub EXCEPT ![r] = [id |-> nextId, start |-> now]]
          /\ pc'[r] = "take_clock"
      BY <1>g, <2>3 DEF TakeCreate, InsertRow
    <3>2. Open = {} /\ mail[r].kind = "take"
      BY <2>3, <2>k DEF TakeCreate, CalmRequest, Submitting
    <3>3. nextId \in Ids /\ nextId \in Nat
      <4>1. nextId \in 1..(MaxRows + 1)
        BY <1>0 DEF TypeOK
      <4> QED
        BY <3>1, <4>1, ParametersAssumption DEF Ids
    <3>4. Opened(now).status = "in_progress" /\ Opened(now).user = "student"
      BY <1>0, OpenedRow DEF TypeOK
    <3>5. Open' = {nextId}
      <4>1. rows'[nextId] = Opened(now) /\ \A i \in Ids \ {nextId} : rows'[i] = rows[i]
        BY <1>0, <3>1, <3>3
      <4> QED
        BY <3>2, <3>3, <3>4, <4>1 DEF Open, Mine
    <3>6. CalmPages'
      <4>1. \A i \in Ids : i \in Open' \/ i >= nextId' => details'[i] = <<>>
        <5>1. \A i \in Ids : i \in Open' \/ i >= nextId' => i >= nextId
          BY <3>1, <3>3, <3>5 DEF Ids
        <5> QED
          BY <3>1, <5>1 DEF CalmPages
      <4>2. \A u \in Pages : phase'[u] \notin Filling
        BY <1>2, <2>n, <3>2 DEF page
      <4>3. OnePage' /\ SubmittedOnce'
        BY <1>2, <3>1 DEF CalmPages, OnePage, SubmittedOnce, page
      <4> QED
        BY <3>5, <4>1, <4>2, <4>3 DEF CalmPages
    <3>7. sub'[r].id \in Open'
      BY <1>0, <3>1, <3>5
    <3> QED
      BY <2>3, <2>b, <3>1, <3>6, <3>7
  <2>4. CASE TakeExpire(r) /\ Step(r, Refused)
    <3>1. ExpireRow(sub[r].id, now) /\ now \in Nat /\ Finish(r) /\ UNCHANGED <<nextId, details>>
      BY <1>0, <2>4 DEF TakeExpire, TypeOK
    <3> QED
      BY <1>c, <1>f, <2>4, <2>a, <3>1
  <2>5. CASE TakeClock(r) /\ Step(r, Session(r))
    <3>1. UNCHANGED <<rows, nextId, details>> /\ sub[r].id \in Open /\ mail[r].kind = "take"
      BY <2>5, <2>k DEF TakeClock, CalmRequest, Submitting
    <3>2. CASE Goto(r, "take_expire")
      BY <1>g, <1>k, <2>5, <2>b, <3>1, <3>2
    <3>3. CASE Finish(r)
      <4>1. Session(r) \in Answer /\ Session(r).id = sub[r].id
        BY <2>5, HandlersAnswer DEF TakeClock
      <4> QED
        BY <1>b, <1>f, <1>k, <2>5, <2>c, <3>1, <3>3, <4>1 DEF Step
    <3> QED
      BY <2>5, <3>2, <3>3 DEF TakeClock
  <2>6. CASE SubmitFind(r) /\ Step(r, Refused)
    <3>1. UNCHANGED <<rows, nextId, details>> /\ mail[r].kind = "submit"
      BY <2>6, <2>k DEF SubmitFind, Taking
    <3>2. ASSUME NEW i \in Open, sub' = [sub EXCEPT ![r] = [id |-> i, start |-> rows[i].start]],
                 Goto(r, "submit_expire") \/ Goto(r, "submit_save")
          PROVE  CalmRequest(r)' /\ Others
      <4>1. sub'[r].id = i /\ pc'[r] \in {"submit_expire", "submit_save"}
        BY <1>0, <1>g, <3>2
      <4>2. i = sheet[t]
        BY <1>1, <3>1, <3>2 DEF CalmPages, Filling
      <4>3. details'[sheet[t]] = <<>>
        <5>1. i \in Ids
          BY <3>2 DEF Open, Mine
        <5> QED
          BY <3>1, <3>2, <4>2, <5>1 DEF CalmPages
      <4> QED
        BY <2>6, <2>b, <4>1, <4>2, <4>3
    <3>3. CASE Finish(r)
      BY <1>f, <1>k, <2>6, <2>a, <3>1, <3>3
    <3> QED
      BY <1>k, <2>6, <3>1, <3>2, <3>3 DEF SubmitFind
  <2>7. CASE SubmitExpire(r) /\ Step(r, Refused)
    <3>1. ExpireRow(sub[r].id, at[r]) /\ at[r] \in Nat /\ Finish(r) /\ UNCHANGED <<nextId, details>>
      BY <1>0, <2>7 DEF SubmitExpire, TypeOK
    <3> QED
      BY <1>c, <1>f, <2>7, <2>a, <3>1
  <2>8. CASE /\ SubmitSave(r) /\ rows'[sub[r].id].correct = mail[r].picked /\ Step(r, Marked(r))
    <3> DEFINE id == sub[r].id
    <3>1. /\ id \in Ids /\ id \in 1..(nextId - 1)
          /\ Marked(r) \in Answer /\ Marked(r).id = id /\ Marked(r).number = mail[r].picked
      BY <2>8, HandlersAnswer DEF SubmitSave
    <3>2. /\ id = sheet[t] /\ details[id] = <<>> /\ mail[r].kind = "submit"
          /\ mail[r].picked \in handed[t]
      BY <1>2, <2>8, <2>k DEF SubmitSave, CalmRequest, Taking
    <3>3. nextId' = nextId /\ Finish(r)
      BY <2>8 DEF SubmitSave
    <3>4. PICK c \in 0..Total :
            /\ rows'[id].status = "graded" /\ rows'[id].correct = c
            /\ \A i \in Ids \ {id} : rows'[i] = rows[i] /\ details'[i] = details[i]
            /\ \/ c = 0 /\ details' = details
               \/ details'[id] = Append(details[id], c)
      BY <1>0, <2>8, <3>1, SaveEffect
    <3>5. Open' = Open \ {id}
      BY <3>1, <3>4 DEF Open, Mine
    <3>6. SubmittedOnce'
      <4>1. Len(<<>>) <= 1 /\ Len(Append(<<>>, c)) <= 1
        OBVIOUS
      <4>2. Len(details'[id]) <= 1
        BY <3>2, <3>4, <4>1
      <4> QED
        BY <3>4, <4>2 DEF CalmPages, SubmittedOnce
    <3>7. \A i \in Ids : i \in Open' \/ i >= nextId' => details'[i] = <<>>
      <4>1. nextId \in 1..(MaxRows + 1)
        BY <1>0 DEF TypeOK
      <4>2. ~(id >= nextId)
        BY <3>1, <4>1, ParametersAssumption
      <4> QED
        BY <3>3, <3>4, <3>5, <4>2 DEF CalmPages
    <3>8. \A u \in Pages : phase'[u] \in Filling =>
            /\ Open' \subseteq {sheet'[u]}
            /\ rows'[sheet'[u]].status = "graded" => rows'[sheet'[u]].correct \in handed'[u]
      <4>1. \A u \in Pages : phase[u] \in Filling => u = t
        BY <1>1 DEF Filling, Idle
      <4> QED
        BY <1>2, <2>8, <3>2, <3>5, <4>1 DEF CalmPages, page
    <3>9. CalmPages'
      BY <1>2, <3>5, <3>6, <3>7, <3>8 DEF CalmPages, OnePage, page
    <3>10. Back(r, Marked(r)) /\ pc'[r] = "idle"
      BY <1>f, <2>8, <3>3 DEF Step
    <3> QED
      BY <1>b, <3>1, <3>2, <3>9, <3>10
  <2> QED
    BY <1>4, <2>1, <2>2, <2>3, <2>4, <2>5, <2>6, <2>7, <2>8 DEF Serves
<1> QED
  BY <1>3, <1>4

\* A request served for nobody is never undone.
LEMMA CalmStays == ASSUME PageTypeOK, PageNext, calm' PROVE calm
BY DEF PageNext, Server, Page, Arrives, Serves, Recovers, Lost, Dies, Time, Opens, Leaves,
   HandsIn, Picks, Counts, Hears, Fails

\* As long as no request is served that its page has given up, and pages are
\* opened one at a time, CalmPages and CalmRequest hold.
THEOREM CalmInvariant == PageSpec => []CalmInv
<1>1. PageInit => CalmInv
  <2> SUFFICES ASSUME PageInit PROVE CalmPages /\ \A r \in Requests : Late(r)
    BY DEF CalmInv
  <2>1. Open = {}
    BY EmptyValues DEF PageInit, Init, Open, Mine
  <2>2. OnePage /\ \A t \in Pages : phase[t] \notin Filling
    BY DEF PageInit, OnePage, Idle, Filling
  <2>3. \A i \in Ids : details[i] = <<>>
    BY DEF PageInit, Init
  <2>4. SubmittedOnce
    <3>1. Len(<<>>) <= 1
      OBVIOUS
    <3> QED
      BY <2>3, <3>1 DEF SubmittedOnce
  <2>5. \A r \in Requests : Late(r)
    BY MailFields DEF PageInit, Late
  <2> QED
    BY <2>1, <2>2, <2>3, <2>4, <2>5 DEF CalmPages
<1>2. PageTypeOK /\ PageInv /\ RowsInv /\ CalmInv /\ [PageNext]_all => CalmInv'
  <2> SUFFICES ASSUME PageTypeOK, PageInv, RowsInv, CalmInv, [PageNext]_all, calm'
               PROVE  CalmPages' /\ \A r \in Requests : ~Late(r)' => CalmRequest(r)'
    BY DEF CalmInv
  <2>0. /\ mail \in [Requests -> Mail] /\ phase \in [Pages -> Phases]
        /\ sheet \in [Pages -> 0..MaxRows] /\ handed \in [Pages -> SUBSET (0..Total)]
        /\ picked \in [Pages -> 0..Total]
        /\ 0 \in 0..MaxRows /\ 0 \in 0..Total
        /\ NoPage \notin Pages
    BY ParametersAssumption, PagesAssumption DEF PageTypeOK
  <2>c. calm
    BY CalmStays DEF all
  <2>i. CalmPages /\ \A r \in Requests : ~Late(r) => CalmRequest(r)
    BY <2>c DEF CalmInv
  \* The tables and the pages stay; the requests that wait are among those before.
  <2>a. ASSUME UNCHANGED <<rows, nextId, details, phase, sheet, handed>> PROVE CalmPages'
    BY <2>a, <2>i DEF CalmPages, OnePage, SubmittedOnce, Open, Mine
  <2>b. ASSUME UNCHANGED <<rows, details, phase, sheet, handed>>, NEW r \in Requests,
               ~Late(r)', mail'[r] = mail[r],
               (pc'[r] = pc[r] /\ sub'[r] = sub[r]) \/ pc'[r] = "idle"
        PROVE  CalmRequest(r)'
    <3>1. CalmRequest(r)
      BY <2>b, <2>i DEF Late
    <3>2. Open' = Open
      BY <2>b DEF Open, Mine
    <3> QED
      BY <2>b, <3>1, <3>2 DEF CalmRequest
  \* A step of a page.
  <2>d. ASSUME NEW t \in Pages, UNCHANGED vars,
               \A u \in Pages \ {t} :
                 phase'[u] = phase[u] /\ sheet'[u] = sheet[u] /\ handed'[u] = handed[u],
               phase'[t] \notin Idle => \A u \in Pages \ {t} : phase[u] \in Idle,
               phase'[t] \in Filling =>
                 /\ Open \subseteq {sheet'[t]}
                 /\ rows[sheet'[t]].status = "graded" => rows[sheet'[t]].correct \in handed'[t]
        PROVE  CalmPages'
    <3>1. UNCHANGED <<rows, nextId, details>> /\ Open' = Open
      BY <2>d DEF vars, Open, Mine
    <3>2. OnePage'
      BY <2>d, <2>i DEF CalmPages, OnePage
    <3>3. \A u \in Pages : phase'[u] \in Filling =>
            /\ Open' \subseteq {sheet'[u]}
            /\ rows'[sheet'[u]].status = "graded" => rows'[sheet'[u]].correct \in handed'[u]
      BY <2>d, <2>i, <3>1 DEF CalmPages
    <3> QED
      BY <2>i, <3>1, <3>2, <3>3 DEF CalmPages, SubmittedOnce
  <2>e. ASSUME NEW t \in Pages, UNCHANGED vars,
               \A u \in Pages \ {t} : sheet'[u] = sheet[u] /\ handed'[u] = handed[u],
               NEW r \in Requests, GivenUp(t, mail', r), ~Late(r)'
        PROVE  CalmRequest(r)'
    <3>1. mail'[r] = mail[r] /\ ~Late(r) /\ mail[r].page \in Pages \ {t}
      BY <2>e, <2>0, MailFields DEF GivenUp, Late
    <3>2. CalmRequest(r) /\ UNCHANGED <<rows, details, pc, sub>> /\ Open' = Open
      BY <2>e, <2>i, <3>1 DEF vars, Open, Mine
    <3> QED
      BY <2>e, <3>1, <3>2 DEF CalmRequest
  <2>f. ASSUME NEW t \in Pages, UNCHANGED vars,
               \A u \in Pages \ {t} : sheet'[u] = sheet[u] /\ handed'[u] = handed[u],
               NEW kind \in {"take", "submit", "result"},
               NEW about \in 0..MaxRows, NEW answers \in 0..Total,
               Sent(Dropped(t), t, kind, about, answers),
               kind = "submit" => answers \in handed'[t]
        PROVE  \A r \in Requests : ~Late(r)' => CalmRequest(r)'
    <3>1. PICK s \in Requests :
            /\ mail'[s].stage = "sent" /\ mail'[s].page = t /\ mail'[s].kind = kind
            /\ mail'[s].picked = answers /\ mail'[s].answer = Refused
            /\ pc[s] = "idle"
            /\ \A r \in Requests \ {s} : GivenUp(t, mail', r)
      BY <2>f, AfterAsk
    <3>2. CalmRequest(s)'
      BY <2>f, <3>1, MailFields DEF CalmRequest, vars
    <3> QED
      BY <2>e, <2>f, <3>1, <3>2
  <2>g. ASSUME NEW t \in Pages, UNCHANGED vars, mail' = Dropped(t),
               \A u \in Pages \ {t} : sheet'[u] = sheet[u] /\ handed'[u] = handed[u]
        PROVE  \A r \in Requests : ~Late(r)' => CalmRequest(r)'
    BY <2>e, <2>g, AfterDrop
  <2>h. ASSUME NEW t \in Pages, phase[t] \notin Idle
        PROVE  \A u \in Pages \ {t} : phase[u] \in Idle
    BY <2>h, <2>i DEF CalmPages, OnePage
  <2>1. ASSUME NEW r \in Requests, Arrives(r) \/ Serves(r)
        PROVE  CalmPages' /\ \A q \in Requests : ~Late(q)' => CalmRequest(q)'
    <3>1. ~Late(r)
      BY <2>1 DEF Arrives, Serves
    <3>2. CalmPages' /\ CalmRequest(r)' /\ \A q \in Requests \ {r} : Late(q)'
      BY <2>1, <2>i, <3>1, HandlersCalm
    <3> QED
      BY <3>2
  <2>2. ASSUME NEW r \in Requests, Recovers(r)
        PROVE  CalmPages' /\ \A q \in Requests : ~Late(q)' => CalmRequest(q)'
    <3> DEFINE i == mail[r].about
               found == [ok |-> TRUE, id |-> i, number |-> rows[i].correct]
    <3>1. /\ UNCHANGED <<rows, nextId, details, phase, sheet, handed, pc, sub>>
          /\ mail[r].stage = "sent" /\ mail[r].kind = "result" /\ i \in Ids
          /\ pc[r] = "idle"
      BY <2>2 DEF Recovers, Arrived, vars, page, PageInv, MailInOrder
    <3>2. rows[i].correct \in 0..Total /\ i \in 0..MaxRows
      BY <2>0, <3>1, MailFields, RowFields DEF PageTypeOK, TypeOK
    <3>3. found \in Answer /\ found.ok /\ found.id = i /\ found.number = rows[i].correct
      BY <3>2, ParametersAssumption DEF Answer
    <3>4. \/ Back(r, Refused) /\ rows[i].status # "graded"
          \/ Back(r, found) /\ rows[i].status = "graded"
      BY <2>2 DEF Recovers
    <3> HIDE DEF found
    <3>5. \A q \in Requests \ {r} : mail'[q] = mail[q]
      BY <2>0, <3>3, <3>4, BackMail, MailFields
    <3>6. ASSUME ~Late(r) PROVE CalmRequest(r)'
      <4>1. /\ mail'[r].page = mail[r].page /\ mail'[r].kind = "result"
            /\ \/ mail'[r].answer = Refused /\ rows[i].status # "graded"
               \/ mail'[r].answer = found /\ rows[i].status = "graded"
        BY <2>0, <3>1, <3>3, <3>4, <3>6, BackMail, MailFields
      <4>2. i = sheet[mail[r].page] /\ phase[mail[r].page] = "asking" /\ mail[r].page \in Pages
        BY <2>i, <3>1, <3>6, AttendedAlone DEF CalmPages
      <4>3. rows[i].status = "graded" => rows[i].correct \in handed[mail[r].page]
        BY <2>i, <4>2 DEF CalmPages, Filling
      <4> QED
        BY <3>1, <3>3, <4>1, <4>2, <4>3, MailFields DEF CalmRequest
    <3>7. Late(r) => Late(r)'
      BY <2>0, <3>3, <3>4, BackMail, MailFields DEF Late
    <3> QED
      BY <2>a, <2>b, <3>1, <3>5, <3>6, <3>7
  <2>3. ASSUME NEW r \in Requests, Lost(r)
        PROVE  CalmPages' /\ \A q \in Requests : ~Late(q)' => CalmRequest(q)'
    <3>1. /\ UNCHANGED <<rows, nextId, details, phase, sheet, handed, pc, sub>>
          /\ mail' = [mail EXCEPT ![r] = Free]
      BY <2>3 DEF Lost, Set, vars, page
    <3>2. Late(r)' /\ \A q \in Requests \ {r} : mail'[q] = mail[q]
      BY <2>0, <3>1, MailFields DEF Late
    <3> QED
      BY <2>a, <2>b, <3>1, <3>2
  <2>4. CASE Dies
    <3>1. /\ UNCHANGED <<rows, nextId, details, phase, sheet, handed>>
          /\ \A r \in Requests : pc'[r] = "idle"
          /\ mail' = [r \in Requests |->
                   IF mail[r].stage # "served" THEN mail[r]
                   ELSE IF Late(r) THEN Free ELSE [mail[r] EXCEPT !.stage = "back"]]
      BY <2>4 DEF Dies, Crash, page
    <3>2. ASSUME NEW r \in Requests, ~Late(r)', mail[r].stage = "served" PROVE CalmRequest(r)'
      <4>1. mail'[r] = [mail[r] EXCEPT !.stage = "back"] /\ mail[r] \in Mail /\ ~Late(r)
        BY <2>0, <3>1, <3>2, MailFields DEF Late
      <4>2. /\ mail'[r].page = mail[r].page /\ mail'[r].kind = mail[r].kind
            /\ mail'[r].picked = mail[r].picked /\ mail'[r].answer = mail[r].answer
        BY <4>1 DEF Mail
      <4>3. mail[r].answer = Refused /\ mail[r].kind # "result" /\ CalmRequest(r)
        BY <2>i, <3>2, <4>1 DEF PageInv, MailInOrder
      <4> QED
        BY <3>1, <4>2, <4>3, MailFields DEF CalmRequest
    <3>3. ASSUME NEW r \in Requests, ~Late(r)', mail[r].stage # "served" PROVE CalmRequest(r)'
      BY <2>b, <3>1, <3>3
    <3> QED
      BY <2>a, <3>1, <3>2, <3>3
  <2>5. CASE Time \/ UNCHANGED all
    <3>1. UNCHANGED <<rows, nextId, details, phase, sheet, handed, mail, pc, sub>>
      BY <2>5 DEF Time, Tick, all, vars, page
    <3> QED
      BY <2>a, <2>b, <3>1
  <2>6. ASSUME NEW t \in Pages, Opens(t)
        PROVE  CalmPages' /\ \A r \in Requests : ~Late(r)' => CalmRequest(r)'
    <3>1. /\ UNCHANGED vars /\ Sent(Dropped(t), t, "take", 0, 0)
          /\ \A u \in Pages \ {t} : phase[u] \in Idle
          /\ phase' = [phase EXCEPT ![t] = "loading"] /\ sheet' = [sheet EXCEPT ![t] = 0]
          /\ handed' = [handed EXCEPT ![t] = {}]
      BY <2>6 DEF Opens, Blank, Set
    <3>2. /\ phase'[t] = "loading"
          /\ \A u \in Pages \ {t} :
               phase'[u] = phase[u] /\ sheet'[u] = sheet[u] /\ handed'[u] = handed[u]
      BY <2>0, <3>1
    <3>3. CalmPages'
      BY <2>d, <3>1, <3>2 DEF Filling
    <3> QED
      BY <2>0, <2>f, <3>1, <3>2, <3>3
  <2>7. ASSUME NEW t \in Pages, Leaves(t)
        PROVE  CalmPages' /\ \A r \in Requests : ~Late(r)' => CalmRequest(r)'
    <3>1. /\ UNCHANGED vars /\ mail' = Dropped(t)
          /\ phase' = [phase EXCEPT ![t] = "away"] /\ sheet' = [sheet EXCEPT ![t] = 0]
          /\ handed' = [handed EXCEPT ![t] = {}]
      BY <2>7 DEF Leaves, Blank, Set
    <3>2. /\ phase'[t] = "away"
          /\ \A u \in Pages \ {t} :
               phase'[u] = phase[u] /\ sheet'[u] = sheet[u] /\ handed'[u] = handed[u]
      BY <2>0, <3>1
    <3>3. CalmPages'
      BY <2>d, <3>1, <3>2 DEF Filling, Idle
    <3> QED
      BY <2>g, <3>1, <3>2, <3>3
  \* The button, and the countdown at zero.
  <2>8. ASSUME NEW t \in Pages, Submits(t), UNCHANGED <<vars, sheet>>
        PROVE  CalmPages' /\ \A r \in Requests : ~Late(r)' => CalmRequest(r)'
    <3>1. /\ phase[t] = "open" /\ Sent(mail, t, "submit", 0, picked[t])
          /\ phase' = [phase EXCEPT ![t] = "sending"]
          /\ handed' = [handed EXCEPT ![t] = handed[t] \cup {picked[t]}]
      BY <2>8 DEF Submits, Set
    <3>2. Sent(Dropped(t), t, "submit", 0, picked[t])
      BY <3>1, NothingAwaited
    <3>3. /\ picked[t] \in handed'[t] /\ handed[t] \subseteq handed'[t]
          /\ \A u \in Pages \ {t} : phase'[u] = phase[u] /\ handed'[u] = handed[u]
      BY <2>0, <3>1
    <3>4. /\ \A u \in Pages \ {t} : phase[u] \in Idle
          /\ Open \subseteq {sheet[t]}
          /\ rows[sheet[t]].status = "graded" => rows[sheet[t]].correct \in handed[t]
      BY <2>h, <2>i, <3>1 DEF CalmPages, Filling, Idle
    <3>5. CalmPages'
      BY <2>d, <2>8, <3>3, <3>4
    <3>6. picked[t] \in 0..Total
      BY <2>0
    <3> QED
      BY <2>0, <2>f, <2>8, <3>2, <3>3, <3>5, <3>6
  <2>9. ASSUME NEW t \in Pages, UNCHANGED <<vars, mail, phase, sheet, handed>>
        PROVE  CalmPages' /\ \A r \in Requests : ~Late(r)' => CalmRequest(r)'
    BY <2>a, <2>b, <2>9 DEF vars
  <2>10. ASSUME NEW t \in Pages, HandsIn(t) \/ Picks(t) \/ Counts(t)
         PROVE  CalmPages' /\ \A r \in Requests : ~Late(r)' => CalmRequest(r)'
    BY <2>8, <2>9, <2>10 DEF HandsIn, Picks, Counts
  \* An answer that says no, or none.
  <2>11. ASSUME NEW t \in Pages, Failed(t, Dropped(t)), UNCHANGED <<vars, sheet>>,
                \A u \in Pages \ {t} : handed'[u] = handed[u],
                \/ handed'[t] = handed[t]
                \/ phase[t] = "asking" /\ rows[sheet[t]].status # "graded"
         PROVE  CalmPages' /\ \A r \in Requests : ~Late(r)' => CalmRequest(r)'
    <3>1. \A u \in Pages \ {t} : phase'[u] = phase[u]
      BY <2>0, <2>11 DEF Failed, Set
    <3>2. phase[t] \in {"loading", "sending", "asking"}
          /\ \A u \in Pages \ {t} : phase[u] \in Idle
      BY <2>h, <2>11 DEF Failed, Idle
    <3>3. /\ phase[t] = "loading" => phase'[t] = "error" /\ mail' = Dropped(t)
          /\ phase[t] = "sending" => Sent(Dropped(t), t, "result", sheet[t], 0)
          /\ phase[t] = "asking" => mail' = Dropped(t)
      BY <2>0, <2>11 DEF Failed, Set
    <3>4. phase[t] # "loading" => /\ Open \subseteq {sheet[t]}
                                  /\ rows[sheet[t]].status = "graded" =>
                                       rows[sheet[t]].correct \in handed'[t]
      BY <2>i, <2>11, <3>2 DEF CalmPages, Filling
    <3>5. CalmPages'
      BY <2>d, <2>11, <3>1, <3>2, <3>3, <3>4 DEF Filling
    <3>6. sheet[t] \in 0..MaxRows
      BY <2>0
    <3> QED
      BY <2>0, <2>f, <2>g, <2>11, <3>2, <3>3, <3>5, <3>6
  <2>12. ASSUME NEW t \in Pages, Hears(t)
         PROVE  CalmPages' /\ \A r \in Requests : ~Late(r)' => CalmRequest(r)'
    <3>1. UNCHANGED vars
      BY <2>12 DEF Hears
    <3>2. PICK r \in Requests :
            /\ mail[r].page = t /\ mail[r].stage = "back"
            /\ \/ /\ ~mail[r].answer.ok
                  /\ Failed(t, Dropped(t))
                  /\ handed' = IF phase[t] = "asking" THEN Set(handed, t, {}) ELSE handed
                  /\ UNCHANGED sheet
               \/ /\ mail[r].answer.ok
                  /\ mail' = Dropped(t)
                  /\ IF phase[t] = "loading" THEN Loads(t, mail[r].answer)
                                             ELSE Finishes(t, mail[r].answer)
      BY <2>12 DEF Hears
    <3>3. /\ ~Late(r) /\ CalmRequest(r)
          /\ mail[r].kind = "take" => phase[t] = "loading"
          /\ mail[r].kind = "submit" => phase[t] = "sending"
          /\ mail[r].kind = "result" => phase[t] = "asking"
          /\ mail[r].kind \in {"take", "submit", "result"}
      BY <2>0, <2>i, <3>2, MailFields DEF PageInv, OneAwaited, Awaits, Late
    <3>4. CASE /\ ~mail[r].answer.ok
               /\ Failed(t, Dropped(t))
               /\ handed' = IF phase[t] = "asking" THEN Set(handed, t, {}) ELSE handed
               /\ UNCHANGED sheet
      <4>1. \A u \in Pages \ {t} : handed'[u] = handed[u]
        BY <2>0, <3>4 DEF Set
      <4>2. \/ handed'[t] = handed[t]
            \/ phase[t] = "asking" /\ rows[sheet[t]].status # "graded"
        BY <3>2, <3>3, <3>4 DEF CalmRequest
      <4> QED
        BY <2>11, <3>1, <3>4, <4>1, <4>2
    <3>5. CASE /\ mail[r].answer.ok /\ mail' = Dropped(t)
               /\ phase[t] = "loading" /\ Loads(t, mail[r].answer)
      <4> DEFINE i == mail[r].answer.id
      <4>1. /\ phase' = [phase EXCEPT ![t] = "open"] /\ sheet' = [sheet EXCEPT ![t] = i]
            /\ handed' = handed
        BY <3>5 DEF Loads, Set
      <4>2. i \in Open
        BY <3>3, <3>5 DEF CalmRequest
      <4>3. i \in Ids /\ rows[i].status = "in_progress" /\ Open = {i}
        BY <2>i, <4>2 DEF CalmPages, Open, Mine
      <4>4. i \in 0..MaxRows
        BY <4>3, ParametersAssumption DEF Ids
      <4>5. /\ sheet'[t] = i
            /\ \A u \in Pages \ {t} : phase'[u] = phase[u] /\ sheet'[u] = sheet[u]
        BY <2>0, <4>1
      <4>6. \A u \in Pages \ {t} : phase[u] \in Idle
        BY <2>h, <3>5 DEF Idle
      <4>7. CalmPages'
        BY <2>d, <3>1, <4>1, <4>3, <4>5, <4>6
      <4> QED
        BY <2>g, <3>1, <3>5, <4>1, <4>5, <4>7
    <3>6. CASE /\ mail[r].answer.ok /\ mail' = Dropped(t)
               /\ phase[t] # "loading" /\ Finishes(t, mail[r].answer)
      <4>1. phase' = [phase EXCEPT ![t] = "done"] /\ UNCHANGED <<sheet, handed>>
        BY <3>6 DEF Finishes, Set
      <4>2. phase'[t] = "done" /\ \A u \in Pages \ {t} : phase'[u] = phase[u]
        BY <2>0, <4>1
      <4>3. CalmPages'
        BY <2>d, <3>1, <4>1, <4>2 DEF Idle, Filling
      <4> QED
        BY <2>g, <3>1, <3>6, <4>1, <4>3
    <3> QED
      BY <3>2, <3>4, <3>5, <3>6
  <2>13. ASSUME NEW t \in Pages, Fails(t)
         PROVE  CalmPages' /\ \A r \in Requests : ~Late(r)' => CalmRequest(r)'
    BY <2>11, <2>13 DEF Fails
  <2> QED
    BY <2>1, <2>2, <2>3, <2>4, <2>5, <2>6, <2>7, <2>10, <2>12, <2>13
       DEF PageNext, Server, Page
<1>3. PageSpec => []RowsInv
  BY ServerIsExamAttempts, RowsInvariant
<1> QED
  BY <1>1, <1>2, <1>3, PageTyping, PTL DEF PageSpec

\* As long as no request is served that its page has given up, the only page
\* shows the result of its own sheet, graded on answers that it handed in.
THEOREM OwnResultAlways == PageSpec => []OwnResult
<1>1. PageInit => OwnResult
  BY DEF PageInit, OwnResult
<1>2. PageTypeOK /\ PageInv /\ CalmInv /\ CalmInv' /\ OwnResult /\ [PageNext]_all => OwnResult'
  <2> SUFFICES ASSUME PageTypeOK, PageInv, CalmInv, OwnResult, PageNext \/ UNCHANGED all,
                      calm', NEW t \in Pages, phase'[t] = "done"
               PROVE  result'[t].id = sheet'[t] /\ result'[t].number \in handed'[t]
    BY DEF OwnResult
  <2>1. CASE UNCHANGED all
    BY <2>1 DEF all, page, OwnResult
  <2>2. CASE PageNext
    <3>1. calm
      BY <2>2, CalmStays
    <3>2. CASE phase[t] = "done" /\ result'[t] = result[t]
      BY <2>2, <3>1, <3>2, ShownResults DEF OwnResult
    <3>3. ASSUME NEW r \in Requests, mail[r].page = t, mail[r].kind # "take", mail[r].answer.ok,
                 result'[t] = mail[r].answer
          PROVE  result'[t].id = sheet[t] /\ result'[t].number \in handed[t]
      BY <3>1, <3>3, PagesAssumption DEF CalmInv, CalmRequest, Late
    <3> QED
      BY <2>2, <3>2, <3>3, ShownResults
  <2> QED
    BY <2>1, <2>2
<1> QED
  BY <1>1, <1>2, PageTyping, CalmInvariant, PTL DEF PageSpec

\* In the same conditions an attempt is graded once.
THEOREM OnePageSubmitsOnceAlways == PageSpec => []OnePageSubmitsOnce
<1>1. CalmInv => OnePageSubmitsOnce
  BY DEF CalmInv, CalmPages, OnePageSubmitsOnce
<1> QED
  BY <1>1, CalmInvariant, PTL

\* In the same conditions, a page whose sheet has no result yet has its answers
\* in the drafts.
THEOREM DraftIsThePageAlways == PageSpec => []DraftIsThePage
<1>1. PageInit => DraftIsThePage
  BY DEF PageInit, DraftIsThePage
<1>2. PageTypeOK /\ PageInv /\ CalmInv /\ DraftIsThePage /\ [PageNext]_all => DraftIsThePage'
  <2> DEFINE Drafted(t) == \/ drafts[sheet[t]] = picked[t]
                           \/ drafts[sheet[t]] = NoDraft /\ picked[t] = 0
  <2> SUFFICES ASSUME PageTypeOK, PageInv, CalmInv, DraftIsThePage, PageNext \/ UNCHANGED all,
                      calm', NEW t \in Pages, phase'[t] \in Filling
               PROVE  Drafted(t)'
    BY DEF DraftIsThePage, Filling
  <2>0. /\ phase \in [Pages -> Phases] /\ sheet \in [Pages -> 0..MaxRows]
        /\ picked \in [Pages -> 0..Total] /\ drafts \in [Ids -> Nat \cup {NoDraft}]
    BY DEF PageTypeOK
  <2>1. calm
    BY CalmStays DEF all
  <2>2. ASSUME phase[t] \in Filling, sheet'[t] = sheet[t], picked'[t] = picked[t], drafts' = drafts
        PROVE  Drafted(t)'
    BY <2>1, <2>2 DEF DraftIsThePage, Filling
  <2>3. CASE UNCHANGED page
    BY <2>2, <2>3 DEF page
  <2>4. ASSUME NEW u \in Pages, Opens(u) \/ Leaves(u) PROVE Drafted(t)'
    <3>1. /\ phase' = [phase EXCEPT ![u] = "loading"] \/ phase' = [phase EXCEPT ![u] = "away"]
          /\ sheet' = [sheet EXCEPT ![u] = 0] /\ picked' = [picked EXCEPT ![u] = 0]
          /\ drafts' = drafts
      BY <2>4 DEF Opens, Leaves, Blank, Set
    <3>2. u # t
      BY <2>0, <3>1 DEF Filling
    <3> QED
      BY <2>0, <2>2, <3>1, <3>2
  <2>5. ASSUME NEW u \in Pages, Submits(u) PROVE phase[t] \in Filling
    BY <2>0, <2>5 DEF Submits, Set, Filling
  <2>6. ASSUME NEW u \in Pages, HandsIn(u) \/ Counts(u) PROVE Drafted(t)'
    BY <2>2, <2>5, <2>6 DEF HandsIn, Counts
  <2>7. ASSUME NEW u \in Pages, Picks(u) PROVE Drafted(t)'
    <3>1. phase[u] \in Filling /\ phase[t] \in Filling /\ UNCHANGED sheet
      BY <2>7 DEF Picks, Filling
    <3>2. u = t
      BY <2>1, <3>1 DEF CalmInv, CalmPages, OnePage, Filling, Idle
    <3>3. sheet[t] \in Ids
      BY <3>1 DEF PageInv, SheetsAreSubmissions
    <3>4. PICK answers \in 0..Total : /\ picked' = [picked EXCEPT ![u] = answers]
                                      /\ drafts' = [drafts EXCEPT ![sheet[u]] = answers]
      BY <2>7 DEF Picks, Set
    <3> QED
      BY <2>0, <3>1, <3>2, <3>3, <3>4
  <2>8. ASSUME NEW u \in Pages, Failed(u, Dropped(u)) PROVE phase[t] \in Filling
    BY <2>0, <2>8 DEF Failed, Set, Filling
  <2>9. ASSUME NEW u \in Pages, Fails(u) PROVE Drafted(t)'
    BY <2>2, <2>8, <2>9 DEF Fails
  <2>10. ASSUME NEW u \in Pages, Hears(u) PROVE Drafted(t)'
    <3>1. PICK r \in Requests :
            /\ mail[r].page = u
            /\ \/ Failed(u, Dropped(u)) /\ UNCHANGED <<sheet, picked, drafts>>
               \/ /\ mail[r].answer.ok
                  /\ IF phase[u] = "loading" THEN Loads(u, mail[r].answer)
                                             ELSE Finishes(u, mail[r].answer)
      BY <2>10 DEF Hears
    <3>2. CASE Failed(u, Dropped(u)) /\ UNCHANGED <<sheet, picked, drafts>>
      BY <2>2, <2>8, <3>2
    <3>3. CASE phase[u] = "loading" /\ Loads(u, mail[r].answer) /\ mail[r].answer.ok
      <4> DEFINE i == mail[r].answer.id
      <4>1. /\ phase' = [phase EXCEPT ![u] = "open"] /\ sheet' = [sheet EXCEPT ![u] = i]
            /\ picked' = [picked EXCEPT ![u] = Restored(i)] /\ drafts' = drafts
        BY <3>3 DEF Loads, Set
      <4>2. CASE u # t
        BY <2>0, <2>2, <4>1, <4>2
      <4>3. CASE u = t
        <5>1. sheet'[t] = i /\ picked'[t] = Restored(i)
          BY <2>0, <4>1, <4>3
        <5> QED
          BY <4>1, <5>1 DEF Restored
      <4> QED
        BY <4>2, <4>3
    <3>4. CASE phase[u] # "loading" /\ Finishes(u, mail[r].answer)
      <4>1. phase[u] \notin Idle
        BY <3>1, <3>4, PagesAssumption DEF PageInv, OneAwaited, Awaits, Late, Idle
      <4>2. phase' = [phase EXCEPT ![u] = "done"]
        BY <3>4 DEF Finishes, Set
      <4>3. u # t /\ phase[t] \in Filling
        BY <2>0, <4>2 DEF Filling
      <4> QED
        BY <2>1, <4>1, <4>3 DEF CalmInv, CalmPages, OnePage, Filling, Idle
    <3> QED
      BY <3>1, <3>2, <3>3, <3>4
  <2>11. ASSUME Server PROVE UNCHANGED page
    BY <2>11 DEF Server, Arrives, Serves, Recovers, Lost, Dies, Time
  <2>12. CASE UNCHANGED all
    BY <2>3, <2>12 DEF all
  <2> QED
    BY <2>3, <2>4, <2>6, <2>7, <2>9, <2>10, <2>11, <2>12 DEF PageNext, Page
<1> QED
  BY <1>1, <1>2, PageTyping, CalmInvariant, PTL DEF PageSpec
=============================================================================
