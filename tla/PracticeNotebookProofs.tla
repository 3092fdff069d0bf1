------------------------ MODULE PracticeNotebookProofs ------------------------
(***************************************************************************)
(* Proofs about PracticeNotebook, for any number of requests, questions    *)
(* and answers.                                                            *)
(***************************************************************************)
EXTENDS PracticeNotebook, NatSets

(***************************************************************************)
(* The notebook as a function of the answers                               *)
(***************************************************************************)
\* Right and wrong answers to a question, and the run of right ones.
LEMMA Answered ==
  ASSUME NEW n \in Nat, NEW events, DOMAIN events \subseteq 1..n, NEW q
  PROVE  /\ Wrongs(events, q) \subseteq 1..n /\ Rights(events, q) \subseteq 1..n
         /\ Cardinality(Wrongs(events, q)) \in Nat
         /\ Streak(events, q) \in Nat
<1>1. Wrongs(events, q) \subseteq 1..n /\ Rights(events, q) \subseteq 1..n
  BY DEF Wrongs, Rights
<1>2. Streak(events, q) \in Nat
  <2>1. {t \in Rights(events, q) : \A u \in Wrongs(events, q) : u < t} \subseteq 1..n
    BY <1>1
  <2> QED
    BY <2>1, Countable DEF Streak
<1> QED
  BY <1>1, <1>2, Countable

\* A run shorter than two is one broken in the last two answers.
LEMMA LastTwo ==
  ASSUME NEW n \in Nat, NEW events, DOMAIN events \subseteq 1..n, NEW q,
         NEW w \in Wrongs(events, q)
  PROVE  LET mine == {t \in DOMAIN events : q \in DOMAIN events[t]}
             Newest(k) == {t \in mine : Cardinality({u \in mine : u > t}) < k}
         IN  Streak(events, q) < 2
               <=> ~(Cardinality(mine) >= 2 /\ \A t \in Newest(2) : events[t][q])
<1> DEFINE mine == {t \in DOMAIN events : q \in DOMAIN events[t]}
           After(t) == {u \in mine : u > t}
           run == {t \in Rights(events, q) : \A u \in Wrongs(events, q) : u < t}
<1>1. /\ mine \subseteq 1..n /\ run \subseteq mine /\ run \subseteq 1..n /\ w \in mine
      /\ \A t : After(t) \subseteq mine /\ After(t) \subseteq 1..n
  BY DEF Wrongs, Rights
<1>2. Streak(events, q) = Cardinality(run) /\ Streak(events, q) \in Nat
  BY Answered DEF Streak
<1>3. \A t : IsFiniteSet(After(t)) /\ Cardinality(After(t)) \in Nat
  BY <1>1, Countable
<1>4. /\ Cardinality(mine) >= 2 <=> \E x, y \in mine : x # y
      /\ Cardinality(run) >= 2 <=> \E x, y \in run : x # y
  <2>1. IsFiniteSet(mine) /\ IsFiniteSet(run)
    BY <1>1, Countable
  <2> HIDE DEF mine, run
  <2>2. Cardinality(mine) >= 2 <=> \E x, y \in mine : x # y
    BY <2>1, TwoMembers
  <2>3. Cardinality(run) >= 2 <=> \E x, y \in run : x # y
    BY <2>1, TwoMembers
  <2> QED
    BY <2>2, <2>3
<1>5. ASSUME NEW a \in run, NEW b \in run, a # b
      PROVE  /\ Cardinality(mine) >= 2
             /\ \A t \in mine : Cardinality(After(t)) < 2 => events[t][q]
  <2>1. Cardinality(mine) >= 2
    BY <1>4, <1>1, <1>5
  <2>2. ASSUME NEW t \in mine, ~events[t][q]
        PROVE  Cardinality(After(t)) >= 2
    <3>1. t \in Wrongs(events, q)
      BY <2>2 DEF Wrongs
    <3>2. a \in After(t) /\ b \in After(t)
      BY <1>1, <1>5, <3>1
    <3> QED
      <4> HIDE DEF After
      <4> QED
        BY <1>3, <1>5, <3>2, TwoMembers
  <2>3. \A t : Cardinality(After(t)) >= 2 => ~(Cardinality(After(t)) < 2)
    <3> HIDE DEF After
    <3> QED
      BY <1>3
  <2> HIDE DEF After, mine
  <2> QED
    BY <2>1, <2>2, <2>3
<1>6. ASSUME Cardinality(mine) >= 2,
             \A t \in mine : Cardinality(After(t)) < 2 => events[t][q]
      PROVE  \E a, b \in run : a # b
  <2>1. PICK a \in mine : \A j \in mine : j <= a
    BY <1>1, Greatest
  <2>2. PICK b \in mine \ {a} : \A j \in mine \ {a} : j <= b
    <3>1. \E x, y \in mine : x # y
      BY <1>4, <1>6
    <3>2. mine \ {a} \subseteq 1..n
      BY <1>1
    <3>3. mine \ {a} # {}
      BY <3>1
    <3> QED
      BY <3>2, <3>3, Greatest
  <2>3. events[a][q] /\ events[b][q]
    <3>1. After(a) = {}
      BY <1>1, <2>1
    <3>2. After(b) \subseteq {a}
      BY <1>1, <2>2
    <3>3. ~(\E x, y \in After(a) : x # y) /\ ~(\E x, y \in After(b) : x # y)
      BY <3>1, <3>2
    <3>4. Cardinality(After(a)) < 2 /\ Cardinality(After(b)) < 2
      <4> HIDE DEF After
      <4>1. \A t \in {a, b} : ~(Cardinality(After(t)) >= 2) /\ Cardinality(After(t)) \in Nat
        BY <1>3, <3>3, TwoMembers
      <4> QED
        BY <4>1
    <3> QED
      BY <1>6, <3>4
  <2>4. a \in Nat /\ b \in Nat /\ b < a
    BY <1>1, <2>1, <2>2
  <2>5. ASSUME NEW u \in Wrongs(events, q) PROVE u < a /\ u < b
    <3>1. u \in mine /\ u # a /\ u # b /\ u \in Nat
      BY <1>1, <2>3, <2>5 DEF Wrongs
    <3>2. u <= b
      BY <2>2, <3>1
    <3> QED
      BY <2>4, <3>1, <3>2
  <2>6. a \in run /\ b \in run
    BY <2>3, <2>5 DEF Rights
  <2> QED
    BY <2>2, <2>6
<1>7. Cardinality(run) >= 2
        <=> (Cardinality(mine) >= 2
               /\ \A t \in mine : Cardinality(After(t)) < 2 => events[t][q])
  BY <1>4, <1>5, <1>6
<1> HIDE DEF mine, run, After
<1>8. Streak(events, q) < 2 <=> ~(Cardinality(run) >= 2)
  BY <1>2
<1> USE DEF mine, After
<1> QED
  BY <1>7, <1>8

\* What notebookState says of a question.
LEMMA InNotebook ==
  ASSUME NEW inExams, NEW inDrills, NEW q \in Questions
  PROVE  LET events == AnswerEvents(inExams, inDrills)
             book == NotebookState(inExams, inDrills)
         IN  /\ q \in DOMAIN book <=> Wrongs(events, q) # {} /\ Streak(events, q) < 2
             /\ q \in DOMAIN book =>
                  book[q] = [wrong |-> Cardinality(Wrongs(events, q)),
                             need |-> 2 - Streak(events, q)]
BY DEF NotebookState

\* The times of two logs together, and what is worked out from them.
LEMMA Together ==
  ASSUME clock \in Nat, NEW a, NEW b, IsLog(a), IsLog(b)
  PROVE  /\ DOMAIN AnswerEvents(a, b) = DOMAIN a \cup DOMAIN b
         /\ DOMAIN AnswerEvents(a, b) \subseteq 1..clock
         /\ DOMAIN NotebookState(a, b) \subseteq Questions
         /\ \A q \in DOMAIN NotebookState(a, b) : NotebookState(a, b)[q] \in Entry
<1>1. /\ DOMAIN AnswerEvents(a, b) = DOMAIN a \cup DOMAIN b
      /\ DOMAIN AnswerEvents(a, b) \subseteq 1..clock
  BY DEF AnswerEvents, IsLog
<1>2. DOMAIN NotebookState(a, b) \subseteq Questions
  BY DEF NotebookState
<1>3. ASSUME NEW q \in DOMAIN NotebookState(a, b) PROVE NotebookState(a, b)[q] \in Entry
  <2> DEFINE events == AnswerEvents(a, b)
  <2>1. q \in Questions
    BY <1>2
  <2>2. Cardinality(Wrongs(events, q)) \in Nat /\ Streak(events, q) \in Nat
    BY <1>1, Answered
  <2> HIDE DEF events
  <2>3. /\ Streak(events, q) < 2
        /\ NotebookState(a, b)[q] = [wrong |-> Cardinality(Wrongs(events, q)),
                                     need |-> 2 - Streak(events, q)]
    BY <2>1, InNotebook DEF events
  <2> QED
    BY <2>2, <2>3 DEF Entry
<1> QED
  BY <1>1, <1>2, <1>3

\* A log stays one as time goes on.
LEMMA LogStays ==
  ASSUME clock \in Nat, clock' \in Nat, clock <= clock', NEW log, IsLog(log)
  PROVE  IsLog(log)'
BY DEF IsLog

\* The answer a request has sent leaves it nothing to remember.
LEMMA Forgets ==
  ASSUME TypeOK, NEW r \in Requests, Finish(r), clock' = clock
  PROVE  /\ pc' \in [Requests -> PCs] /\ pc'[r] = "idle"
         /\ \A s \in Requests : IsLog(exams1[s])'
         /\ answers' \in [Requests -> Sheets]
         /\ \A s \in Requests : /\ DOMAIN seen'[s] \subseteq Questions
                                /\ \A q \in DOMAIN seen'[s] : seen'[s][q] \in Entry
         /\ stamp' \in [Requests -> Nat]
         /\ \A s \in Requests \ {r} : /\ pc'[s] = pc[s] /\ answers'[s] = answers[s]
                                      /\ stamp'[s] = stamp[s]
<1>1. DOMAIN NoAnswers = {} /\ NoAnswers \in Sheets
  BY DEF NoAnswers, Sheets
<1>2. IsLog(<<>>)'
  BY DEF IsLog
<1>3. pc' \in [Requests -> PCs] /\ pc'[r] = "idle"
  BY DEF TypeOK, Finish, Goto, PCs
<1>4. \A s \in Requests : IsLog(exams1[s])'
  <2> SUFFICES ASSUME NEW s \in Requests PROVE IsLog(exams1[s])'
    OBVIOUS
  <2>1. exams1'[s] = exams1[s] \/ exams1'[s] = <<>>
    BY DEF Finish, TypeOK
  <2> QED
    BY <1>2, <2>1 DEF TypeOK, IsLog
<1>5. answers' \in [Requests -> Sheets] /\ stamp' \in [Requests -> Nat]
  BY <1>1 DEF TypeOK, Finish
<1>6. ASSUME NEW s \in Requests
      PROVE  /\ DOMAIN seen'[s] \subseteq Questions
             /\ \A q \in DOMAIN seen'[s] : seen'[s][q] \in Entry
  <2>1. seen'[s] = seen[s] \/ seen'[s] = NoAnswers
    BY DEF Finish, TypeOK
  <2> QED
    BY <1>1, <2>1 DEF TypeOK
<1>7. \A s \in Requests \ {r} : /\ pc'[s] = pc[s] /\ answers'[s] = answers[s]
                                 /\ stamp'[s] = stamp[s]
  BY DEF TypeOK, Finish, Goto
<1> QED
  BY <1>3, <1>4, <1>5, <1>6, <1>7

\* What a save adds to a log.
LEMMA Saved ==
  ASSUME clock \in Nat, answers \in [Requests -> Sheets], NEW r \in Requests,
         NEW log, IsLog(log), answers[r] # NoAnswers => stamp[r] \in 1..clock
  PROVE  /\ IsLog(Written(log, r))
         /\ DOMAIN Written(log, r) \subseteq
              DOMAIN log \cup (IF answers[r] = NoAnswers THEN {} ELSE {stamp[r]})
<1>1. CASE answers[r] = NoAnswers
  BY <1>1 DEF Written
<1>2. CASE answers[r] # NoAnswers
  <2> DEFINE new == [t \in DOMAIN log \cup {stamp[r]} |-> IF t = stamp[r] THEN answers[r] ELSE log[t]]
  <2>1. Written(log, r) = new
    BY <1>2 DEF Written
  <2>2. DOMAIN new = DOMAIN log \cup {stamp[r]} /\ DOMAIN new \subseteq 1..clock
    BY <1>2 DEF IsLog
  <2>3. \A t \in DOMAIN new : new[t] \in Sheets
    BY DEF IsLog
  <2> HIDE DEF new
  <2> QED
    BY <1>2, <2>1, <2>2, <2>3 DEF IsLog
<1> QED
  BY <1>1, <1>2

\* The logs are logs, of times that no two answers share, and requests
\* remember what fits them.
THEOREM TypedAndOnce == Spec => [](TypeOK /\ TimesOnce)
<1>1. Init => TypeOK /\ TimesOnce
  <2>1. DOMAIN NoAnswers = {} /\ NoAnswers \in Sheets /\ DOMAIN <<>> = {}
    BY DEF NoAnswers, Sheets
  <2> QED
    BY <2>1, BoundsAssumption DEF Init, TypeOK, TimesOnce, Stamped, IsLog, PCs
<1>2. TypeOK /\ TimesOnce /\ [Next]_vars => TypeOK' /\ TimesOnce'
  <2> SUFFICES ASSUME TypeOK, TimesOnce, [Next]_vars PROVE TypeOK' /\ TimesOnce'
    OBVIOUS
  <2>0. clock \in Nat /\ IsLog(exams) /\ IsLog(drills) /\ \A r \in Requests : IsLog(exams1[r])
    BY DEF TypeOK
  <2>a. ASSUME clock' = clock, exams' = exams \/ exams' = <<>>, drills' = drills,
               \A s \in Requests : Stamped(s)' => Stamped(s) /\ stamp'[s] = stamp[s]
        PROVE  /\ IsLog(exams)' /\ IsLog(drills)' /\ DOMAIN exams' \cap DOMAIN drills' = {}
               /\ TimesOnce'
    <3>1. DOMAIN exams' \subseteq DOMAIN exams /\ (IsLog(exams) => IsLog(exams)')
      BY <2>a DEF IsLog
    <3>2. IsLog(drills)' /\ DOMAIN exams' \cap DOMAIN drills' = {}
      BY <2>a, <2>0, <3>1 DEF IsLog, TypeOK
    <3>3. TimesOnce'
      BY <2>a, <3>1 DEF TimesOnce
    <3> QED
      BY <2>0, <3>1, <3>2, <3>3
  <2>b. ASSUME NEW r \in Requests, Finish(r), clock' = clock
        PROVE  \A s \in Requests : Stamped(s)' => Stamped(s) /\ stamp'[s] = stamp[s]
    BY <2>b, Forgets DEF Stamped
  <2>c. ASSUME NEW r \in Requests, NEW label \in PCs \ {"practice_save", "exam_save"},
               Goto(r, label), \A s \in Requests \ {r} : answers'[s] = answers[s], stamp' = stamp
        PROVE  /\ pc' \in [Requests -> PCs]
               /\ \A s \in Requests : Stamped(s)' => Stamped(s) /\ stamp'[s] = stamp[s]
    <3>1. pc' = [pc EXCEPT ![r] = label] /\ pc \in [Requests -> PCs]
      BY <2>c DEF Goto, TypeOK
    <3> QED
      BY <2>c, <3>1 DEF Stamped
  <2>d. ASSUME NEW r \in Requests, NEW log, IsLog(log), exams1' = [exams1 EXCEPT ![r] = log],
               clock' = clock
        PROVE  DOMAIN exams1' = Requests /\ \A s \in Requests : IsLog(exams1[s])'
    <3>1. DOMAIN exams1' = Requests /\ \A s \in Requests : exams1'[s] = log \/ exams1'[s] = exams1[s]
      BY <2>d DEF TypeOK
    <3> QED
      BY <2>0, <2>d, <3>1 DEF IsLog
  <2>e. IsLog(<<>>)
    BY DEF IsLog
  <2>f. ASSUME NEW r \in Requests, seen' = [seen EXCEPT ![r] = NotebookState(exams1[r], drills)]
        PROVE  /\ DOMAIN seen' = Requests
               /\ \A s \in Requests : /\ DOMAIN seen'[s] \subseteq Questions
                                      /\ \A q \in DOMAIN seen'[s] : seen'[s][q] \in Entry
    <3>1. /\ DOMAIN NotebookState(exams1[r], drills) \subseteq Questions
          /\ \A q \in DOMAIN NotebookState(exams1[r], drills) :
                NotebookState(exams1[r], drills)[q] \in Entry
      BY <2>0, Together
    <3>2. DOMAIN seen' = Requests
          /\ \A s \in Requests : seen'[s] = NotebookState(exams1[r], drills) \/ seen'[s] = seen[s]
      BY <2>f DEF TypeOK
    <3> QED
      BY <3>1, <3>2 DEF TypeOK
  <2>g. ASSUME NEW r \in Requests, Finish(r)
        PROVE  DOMAIN exams1' = Requests /\ DOMAIN seen' = Requests
    BY <2>g DEF Finish, TypeOK
  <2>1. ASSUME NEW r \in Requests, SetStart(r) \/ PracticeExams(r) PROVE TypeOK' /\ TimesOnce'
    <3>1. exams1' = [exams1 EXCEPT ![r] = exams] /\ clock' = clock
      BY <2>1 DEF SetStart, PracticeExams
    <3>2. DOMAIN exams1' = Requests /\ \A s \in Requests : IsLog(exams1[s])'
      BY <2>0, <2>d, <3>1
    <3>3. /\ pc' \in [Requests -> PCs]
          /\ \A s \in Requests : Stamped(s)' => Stamped(s) /\ stamp'[s] = stamp[s]
      BY <2>1, <2>c DEF SetStart, PracticeExams, PCs
    <3>4. UNCHANGED <<bank, exams, drills, clock, sheet, answers, seen, stamp, handed, mishaps>>
      BY <2>1 DEF SetStart, PracticeExams, bounds
    <3> QED
      BY <2>a, <3>2, <3>3, <3>4 DEF TypeOK
  <2>2. ASSUME NEW r \in Requests, SetDrills(r) \/ PracticeState(r) PROVE TypeOK' /\ TimesOnce'
    <3>1. exams1' = [exams1 EXCEPT ![r] = <<>>] /\ clock' = clock
      BY <2>2 DEF SetDrills, PracticeState
    <3>2. DOMAIN exams1' = Requests /\ \A s \in Requests : IsLog(exams1[s])'
      BY <2>d, <2>e, <3>1
    <3>3. /\ pc' \in [Requests -> PCs]
          /\ \A s \in Requests : Stamped(s)' => Stamped(s) /\ stamp'[s] = stamp[s]
      BY <2>2, <2>c DEF SetDrills, PracticeState, PCs
    <3>4. UNCHANGED <<bank, exams, drills, clock, sheet, answers, stamp, handed, mishaps>>
      BY <2>2 DEF SetDrills, PracticeState, bounds
    <3>5. /\ DOMAIN seen' = Requests
          /\ \A s \in Requests : /\ DOMAIN seen'[s] \subseteq Questions
                                 /\ \A q \in DOMAIN seen'[s] : seen'[s][q] \in Entry
      BY <2>2, <2>f DEF SetDrills, PracticeState
    <3> QED
      BY <2>a, <3>2, <3>3, <3>4, <3>5 DEF TypeOK
  <2>3. ASSUME NEW r \in Requests, SetBank(r) \/ Dies(r) PROVE TypeOK' /\ TimesOnce'
    <3>1. Finish(r) /\ UNCHANGED <<exams, drills, clock, handed>> /\ bank' = bank
      BY <2>3 DEF SetBank, Dies, bounds
    <3>2. sheet' \subseteq Questions
      BY <2>3 DEF SetBank, Dies, TypeOK
    <3>3. mishaps' \in 0..MaxMishaps
      BY <2>3, BoundsAssumption DEF SetBank, Dies, bounds, TypeOK
    <3> QED
      BY <2>a, <2>b, <2>g, <3>1, <3>2, <3>3, Forgets DEF TypeOK
  <2>4. ASSUME NEW r \in Requests, Practice(r) PROVE TypeOK' /\ TimesOnce'
    <3>1. PICK S \in SUBSET sheet \ {{}} : \E sent \in [S -> BOOLEAN] : PracticeStart(r, sent)
      BY <2>4 DEF Practice
    <3>2. PICK sent \in [S -> BOOLEAN] : PracticeStart(r, sent)
      BY <3>1
    <3>3. sent \in Sheets
      BY <3>1, <3>2 DEF Sheets, TypeOK
    <3>4. answers' \in [Requests -> Sheets] /\ \A s \in Requests \ {r} : answers'[s] = answers[s]
      BY <3>2, <3>3 DEF PracticeStart, TypeOK
    <3>5. mishaps' \in 0..MaxMishaps
      BY <3>2, BoundsAssumption DEF PracticeStart, TypeOK
    <3>6. DOMAIN exams1' = Requests /\ \A s \in Requests : IsLog(exams1[s])'
      BY <2>0, <2>d, <3>2 DEF PracticeStart
    <3>7. /\ pc' \in [Requests -> PCs]
          /\ \A s \in Requests : Stamped(s)' => Stamped(s) /\ stamp'[s] = stamp[s]
      BY <2>c, <3>2, <3>4 DEF PracticeStart, PCs
    <3>8. UNCHANGED <<bank, exams, drills, clock, sheet, seen, stamp, handed>>
      BY <3>2 DEF PracticeStart
    <3> QED
      BY <2>a, <3>4, <3>5, <3>6, <3>7, <3>8 DEF TypeOK
  <2>5. ASSUME NEW r \in Requests, PracticeDrills(r) PROVE TypeOK' /\ TimesOnce'
    <3>1. UNCHANGED <<bank, exams, drills, clock, sheet, handed, mishaps>>
      BY <2>5 DEF PracticeDrills, bounds
    <3>2. CASE Finish(r)
      BY <2>a, <2>b, <2>g, <3>1, <3>2, Forgets DEF TypeOK
    <3>3. CASE ~Finish(r)
      <4>1. /\ Goto(r, "practice_exams") /\ exams1' = [exams1 EXCEPT ![r] = <<>>]
            /\ UNCHANGED <<answers, seen, stamp>>
        BY <2>5, <3>3 DEF PracticeDrills
      <4>2. DOMAIN exams1' = Requests /\ \A s \in Requests : IsLog(exams1[s])'
        BY <2>d, <2>e, <3>1, <4>1
      <4>3. /\ pc' \in [Requests -> PCs]
            /\ \A s \in Requests : Stamped(s)' => Stamped(s) /\ stamp'[s] = stamp[s]
        BY <2>c, <4>1 DEF PCs
      <4> QED
        BY <2>a, <3>1, <4>1, <4>2, <4>3 DEF TypeOK
    <3> QED
      BY <3>2, <3>3
  <2>6. ASSUME NEW r \in Requests, NEW label \in {"practice_save", "exam_save"},
               ReadClock(r), Goto(r, label), pc[r] \notin {"practice_save", "exam_save"},
               answers' \in [Requests -> Sheets],
               \A s \in Requests \ {r} : answers'[s] = answers[s],
               UNCHANGED <<bank, exams, drills, sheet, exams1, seen>>,
               handed' \in 0..MaxExams, mishaps' \in 0..MaxMishaps
        PROVE  TypeOK' /\ TimesOnce'
    <3>1. /\ clock' \in Nat /\ clock <= clock' /\ stamp' \in [Requests -> Nat]
          /\ \A s \in Requests \ {r} : stamp'[s] = stamp[s]
          /\ answers'[r] # NoAnswers => stamp'[r] = clock' /\ clock' = clock + 1
      <4>1. CASE answers'[r] = NoAnswers
        BY <2>0, <2>6, <4>1 DEF ReadClock, TypeOK
      <4>2. CASE answers'[r] # NoAnswers
        BY <2>0, <2>6, <4>2 DEF ReadClock, TypeOK
      <4> QED
        BY <4>1, <4>2
    <3>2. /\ pc' \in [Requests -> PCs]
          /\ \A s \in Requests \ {r} : pc'[s] = pc[s]
      BY <2>6 DEF Goto, TypeOK, PCs
    <3>3. \A s \in Requests \ {r} : Stamped(s)' => Stamped(s) /\ stamp'[s] = stamp[s]
      BY <2>6, <3>1, <3>2 DEF Stamped
    <3>4. IsLog(exams)' /\ IsLog(drills)' /\ \A s \in Requests : IsLog(exams1[s])'
      BY <2>0, <2>6, <3>1 DEF IsLog
    <3>5. Stamped(r)' => stamp'[r] = clock + 1 /\ clock' = clock + 1
      BY <3>1 DEF Stamped
    <3>6. DOMAIN exams' \cup DOMAIN drills' \subseteq 1..clock
      BY <2>0, <2>6 DEF IsLog
    <3>7. \A s \in Requests \ {r} : Stamped(s)' => stamp'[s] \in 1..clock \ (DOMAIN exams' \cup DOMAIN drills')
      BY <2>6, <3>3 DEF TimesOnce
    <3>8. \A s \in Requests : Stamped(s)' => stamp'[s] \in 1..clock' \ (DOMAIN exams' \cup DOMAIN drills')
      BY <2>0, <3>1, <3>5, <3>6, <3>7
    <3>9. \A s, u \in Requests : Stamped(s)' /\ Stamped(u)' /\ stamp'[s] = stamp'[u] => s = u
      <4>1. \A s \in Requests \ {r} : Stamped(s)' => stamp'[s] # clock + 1
        BY <2>0, <3>7
      <4>2. \A s, u \in Requests \ {r} : Stamped(s)' /\ Stamped(u)' /\ stamp'[s] = stamp'[u] => s = u
        BY <3>3 DEF TimesOnce
      <4> QED
        BY <3>5, <4>1, <4>2
    <3> QED
      BY <2>6, <3>1, <3>2, <3>4, <3>8, <3>9 DEF TypeOK, TimesOnce
  <2>7. ASSUME NEW r \in Requests, PracticeBank(r) PROVE TypeOK' /\ TimesOnce'
    <3>1. [q \in DOMAIN answers[r] \cap bank |-> answers[r][q]] \in Sheets
      <4>1. PICK S \in SUBSET Questions : answers[r] \in [S -> BOOLEAN]
        BY DEF TypeOK, Sheets
      <4>2. S \cap bank \in SUBSET Questions
            /\ [q \in DOMAIN answers[r] \cap bank |-> answers[r][q]] \in [S \cap bank -> BOOLEAN]
        BY <4>1
      <4> QED
        BY <4>2 DEF Sheets
    <3>2. answers' \in [Requests -> Sheets] /\ \A s \in Requests \ {r} : answers'[s] = answers[s]
      BY <2>7, <3>1 DEF PracticeBank, TypeOK
    <3> QED
      BY <2>6, <2>7, <3>2 DEF PracticeBank, bounds, TypeOK
  <2>8. ASSUME NEW r \in Requests, ExamStart(r) PROVE TypeOK' /\ TimesOnce'
    <3>1. PICK S \in SUBSET bank \ {{}} :
             \E sent \in [S -> BOOLEAN] : answers' = [answers EXCEPT ![r] = sent]
      BY <2>8 DEF ExamStart
    <3>2. PICK sent \in [S -> BOOLEAN] : answers' = [answers EXCEPT ![r] = sent]
      BY <3>1
    <3>3. answers' \in [Requests -> Sheets] /\ \A s \in Requests \ {r} : answers'[s] = answers[s]
      <4>1. sent \in Sheets
        BY <3>1, <3>2 DEF Sheets, TypeOK
      <4> QED
        BY <3>2, <4>1 DEF TypeOK
    <3>4. handed' \in 0..MaxExams /\ mishaps' \in 0..MaxMishaps
      BY <2>8, BoundsAssumption DEF ExamStart, TypeOK
    <3> QED
      BY <2>6, <2>8, <3>3, <3>4 DEF ExamStart
  <2>9. ASSUME NEW r \in Requests, PracticeSave(r) \/ ExamSave(r) PROVE TypeOK' /\ TimesOnce'
    <3>1. /\ pc[r] \in {"practice_save", "exam_save"} /\ Finish(r)
          /\ UNCHANGED <<bank, clock, sheet, handed, mishaps>>
          /\ \/ exams' = exams /\ drills' = Written(drills, r)
             \/ drills' = drills /\ exams' = Written(exams, r)
      BY <2>9 DEF PracticeSave, ExamSave, bounds
    <3>2. answers[r] # NoAnswers =>
            Stamped(r) /\ stamp[r] \in 1..clock \ (DOMAIN exams \cup DOMAIN drills)
      BY <3>1 DEF Stamped, TimesOnce
    <3>3. \A s \in Requests : Stamped(s)' => s # r /\ Stamped(s) /\ stamp'[s] = stamp[s]
      BY <3>1, Forgets DEF Stamped
    <3>4. \A s \in Requests : Stamped(s)' => ~(answers[r] # NoAnswers /\ stamp'[s] = stamp[r])
      BY <3>2, <3>3 DEF TimesOnce
    <3>5. /\ IsLog(Written(exams, r)) /\ IsLog(Written(drills, r))
          /\ DOMAIN Written(exams, r) \subseteq
               DOMAIN exams \cup (IF answers[r] = NoAnswers THEN {} ELSE {stamp[r]})
          /\ DOMAIN Written(drills, r) \subseteq
               DOMAIN drills \cup (IF answers[r] = NoAnswers THEN {} ELSE {stamp[r]})
      BY <2>0, <3>2, Saved DEF TypeOK
    <3>6. IsLog(exams)' /\ IsLog(drills)'
      BY <2>0, <3>1, <3>5 DEF IsLog
    <3>7. DOMAIN exams' \cap DOMAIN drills' = {}
      BY <3>1, <3>2, <3>5 DEF TypeOK
    <3>8. TimesOnce'
      <4>1. \A s \in Requests : Stamped(s)' =>
               stamp'[s] \in 1..clock' \ (DOMAIN exams' \cup DOMAIN drills')
        BY <3>1, <3>3, <3>4, <3>5 DEF TimesOnce
      <4>2. \A s, u \in Requests : Stamped(s)' /\ Stamped(u)' /\ stamp'[s] = stamp'[u] => s = u
        BY <3>3 DEF TimesOnce
      <4> QED
        BY <4>1, <4>2 DEF TimesOnce
    <3> QED
      BY <2>g, <3>1, <3>6, <3>7, <3>8, Forgets DEF TypeOK
  <2>10. CASE ExamDeleted \/ QuestionDeleted
    <3>1. /\ UNCHANGED <<drills, clock, sheet, pc, exams1, answers, seen, stamp, handed>>
          /\ (exams' = exams \/ exams' = <<>>)
      BY <2>10 DEF ExamDeleted, QuestionDeleted, memory
    <3>2. bank' \subseteq Questions
      BY <2>10 DEF ExamDeleted, QuestionDeleted, TypeOK
    <3>3. mishaps' \in 0..MaxMishaps
      BY <2>10, BoundsAssumption DEF ExamDeleted, QuestionDeleted, TypeOK
    <3>4. \A s \in Requests : Stamped(s)' => Stamped(s) /\ stamp'[s] = stamp[s]
      BY <3>1 DEF Stamped
    <3>5. \A s \in Requests : IsLog(exams1[s])'
      BY <2>0, <3>1 DEF IsLog
    <3> QED
      BY <2>a, <3>1, <3>2, <3>3, <3>4, <3>5 DEF TypeOK
  <2>11. CASE UNCHANGED vars
    BY <2>11 DEF vars, TypeOK, TimesOnce, Stamped, IsLog
  <2> QED
    BY <2>1, <2>2, <2>3, <2>4, <2>5, <2>7, <2>8, <2>9, <2>10, <2>11 DEF Next, Goes
<1> QED
  BY <1>1, <1>2, PTL DEF Spec

\* The questions, the logs and what requests remember keep their shape.
THEOREM TypeCorrect == Spec => []TypeOK
BY TypedAndOnce, PTL

\* Whatever answers a student gave, in whatever order they were written, the
\* notebook is that of the rule stated above notebookState.
THEOREM NotebookRuleAlways == Spec => []NotebookRule
<1>1. TypeOK => NotebookRule
  <2> SUFFICES ASSUME TypeOK, NEW q \in Questions
               PROVE  LET events == AnswerEvents(exams, drills)
                          mine == {t \in DOMAIN events : q \in DOMAIN events[t]}
                          Newest(n) == {t \in mine : Cardinality({u \in mine : u > t}) < n}
                      IN  q \in Notebook <=>
                            /\ \E t \in mine : ~events[t][q]
                            /\ ~(Cardinality(mine) >= 2 /\ \A t \in Newest(2) : events[t][q])
    BY DEF NotebookRule
  <2> DEFINE events == AnswerEvents(exams, drills)
             mine == {t \in DOMAIN events : q \in DOMAIN events[t]}
             Newest(n) == {t \in mine : Cardinality({u \in mine : u > t}) < n}
             Broken == ~(Cardinality(mine) >= 2 /\ \A t \in Newest(2) : events[t][q])
  <2>1. clock \in Nat /\ DOMAIN events \subseteq 1..clock
    BY Together DEF TypeOK
  <2>2. q \in Notebook <=> Wrongs(events, q) # {} /\ Streak(events, q) < 2
    BY InNotebook DEF Notebook
  <2>3. Wrongs(events, q) # {} <=> \E t \in mine : ~events[t][q]
    BY DEF Wrongs
  <2>4. Wrongs(events, q) # {} => (Streak(events, q) < 2 <=> Broken)
    <3> HIDE DEF events
    <3> QED
      BY <2>1, LastTwo
  <2> HIDE DEF Broken
  <2>5. q \in Notebook <=> (\E t \in mine : ~events[t][q]) /\ Broken
    BY <2>2, <2>3, <2>4
  <2> QED
    BY <2>5 DEF Broken
<1> QED
  BY <1>1, TypeCorrect, PTL

\* A question the practice says is mastered leaves the notebook with it, and no
\* other does, unless other answers to it came in between.
THEOREM MasteredToldAlways == Spec => MasteredTold
<1> DEFINE Told == \A r \in Requests : PracticeSave(r) =>
                     \A q \in DOMAIN answers[r] :
                       Untouched(r, q) => (q \in Mastered(r) <=> q \notin Notebook')
<1>1. TypeOK /\ TimesOnce /\ [Next]_vars => Told
  <2> SUFFICES ASSUME TypeOK, TimesOnce, NEW r \in Requests, PracticeSave(r),
                      NEW q \in DOMAIN answers[r], Untouched(r, q)
               PROVE  q \in Mastered(r) <=> q \notin Notebook'
    OBVIOUS
  <2> DEFINE events == AnswerEvents(exams, drills)
             later == AnswerEvents(exams', drills')
             now == stamp[r]
  <2>1. q \in Questions /\ answers[r] # NoAnswers /\ answers[r][q] \in BOOLEAN
    <3>1. PICK S \in SUBSET Questions : answers[r] \in [S -> BOOLEAN]
      BY DEF TypeOK, Sheets
    <3> QED
      BY <3>1 DEF NoAnswers
  <2>2. now \in 1..clock /\ now \notin DOMAIN exams \cup DOMAIN drills /\ clock \in Nat
    BY <2>1 DEF TimesOnce, Stamped, PracticeSave, TypeOK
  <2>3. /\ DOMAIN events = DOMAIN exams \cup DOMAIN drills /\ DOMAIN events \subseteq 1..clock
        /\ DOMAIN later = DOMAIN events \cup {now}
        /\ later[now] = answers[r]
        /\ \A t \in DOMAIN events : later[t] = events[t]
    <3>1. /\ exams' = exams
          /\ drills' = [t \in DOMAIN drills \cup {now} |-> IF t = now THEN answers[r] ELSE drills[t]]
      BY <2>1 DEF PracticeSave, Written
    <3> QED
      BY <2>2, <3>1, Together DEF AnswerEvents, TypeOK
  <2>4. DOMAIN later \subseteq 1..clock
    BY <2>2, <2>3
  <2>5. /\ q \in Notebook' <=> Wrongs(later, q) # {} /\ Streak(later, q) < 2
        /\ Wrongs(events, q) # {}
        /\ seen[r][q].need = 2 - Streak(events, q)
        /\ q \in DOMAIN seen[r]
        /\ \A t \in DOMAIN events : q \in DOMAIN events[t] => t < now
    <3>1. q \in Notebook' <=> Wrongs(later, q) # {} /\ Streak(later, q) < 2
      BY <2>1, InNotebook DEF Notebook
    <3>2. q \in DOMAIN NotebookState(exams, drills)
          /\ q \in DOMAIN seen[r] /\ seen[r][q] = NotebookState(exams, drills)[q]
          /\ \A t \in DOMAIN events : q \in DOMAIN events[t] => t < now
      BY DEF Untouched
    <3> HIDE DEF events, later
    <3>3. /\ Wrongs(events, q) # {}
          /\ NotebookState(exams, drills)[q] = [wrong |-> Cardinality(Wrongs(events, q)),
                                                need |-> 2 - Streak(events, q)]
      BY <2>1, <3>2, InNotebook DEF events
    <3> QED
      BY <3>1, <3>2, <3>3
  <2> HIDE DEF events, later
  <2>6. Streak(events, q) \in Nat /\ Streak(later, q) \in Nat
    BY <2>2, <2>3, <2>4, Answered
  <2> DEFINE run == {t \in Rights(events, q) : \A u \in Wrongs(events, q) : u < t}
             run1 == {t \in Rights(later, q) : \A u \in Wrongs(later, q) : u < t}
  <2>7. CASE answers[r][q]
    <3>1. /\ Wrongs(later, q) = Wrongs(events, q)
          /\ Rights(later, q) = Rights(events, q) \cup {now}
      BY <2>2, <2>3, <2>7 DEF Wrongs, Rights
    <3>2. now \notin run /\ \A u \in Wrongs(events, q) : u < now
      BY <2>2, <2>3, <2>5 DEF Wrongs, Rights
    <3>3. run1 = run \cup {now}
      BY <3>1, <3>2
    <3>4. IsFiniteSet(run)
      <4>1. run \subseteq 1..clock
        BY <2>3 DEF Rights
      <4> QED
        BY <2>2, <4>1, Countable
    <3>5. Cardinality(run \cup {now}) = Cardinality(run) + 1
      BY <3>2, <3>4, FS_AddElement
    <3>6. Streak(later, q) = Streak(events, q) + 1
      BY <3>3, <3>5 DEF Streak
    <3>7. q \notin Notebook' <=> Streak(events, q) >= 1
      BY <2>5, <2>6, <3>1, <3>6
    <3>8. q \in Mastered(r) <=> 2 - Streak(events, q) <= 1
      BY <2>5, <2>7 DEF Mastered
    <3> QED
      BY <2>6, <3>7, <3>8
  <2>8. CASE ~answers[r][q]
    <3>1. now \in Wrongs(later, q) /\ Rights(later, q) = Rights(events, q)
      BY <2>2, <2>3, <2>8 DEF Wrongs, Rights
    <3>2. \A t \in Rights(events, q) : t < now /\ t \in Nat
      BY <2>3, <2>5 DEF Rights
    <3>3. run1 = {}
      BY <2>2, <3>1, <3>2
    <3>4. Streak(later, q) = 0
      BY <3>3, FS_EmptySet DEF Streak
    <3> QED
      BY <2>5, <2>8, <3>1, <3>4 DEF Mastered
  <2> QED
    BY <2>7, <2>8
<1> QED
  BY <1>1, TypedAndOnce, PTL DEF Spec, MasteredTold
===============================================================================
