-------------------------- MODULE ExamAttemptsProofs --------------------------
(***************************************************************************)
(* Proofs about ExamAttempts, for every number of concurrent requests and  *)
(* every exam.  TypeOK comes first; RowsInv is inductive with it and gives *)
(* GradedInTime and AttemptLife; AttemptsBound is inductive with both and  *)
(* gives AttemptsWithinRace.  All of them serve the last part: that        *)
(* ExamAttempts implements AttemptLedger.                                  *)
(***************************************************************************)
EXTENDS ExamAttempts, FiniteSetTheorems, TLAPS

\* Reading the fields of a row built by Submission, and the rows there are.
LEMMA SubmissionFields ==
  /\ \A u, g, s, t, c :
       /\ Submission(u, g, s, t, c).user = u /\ Submission(u, g, s, t, c).status = g
       /\ Submission(u, g, s, t, c).start = s /\ Submission(u, g, s, t, c).submit = t
       /\ Submission(u, g, s, t, c).correct = c
  /\ \A u \in {"student", "guest"}, s, t \in Nat, c \in 0..Total,
       g \in {"absent", "in_progress", "graded", "expired"} :
       Submission(u, g, s, t, c) \in Row
BY DEF Submission, Row

\* What is known of a row in the table.
LEMMA RowFields ==
  ASSUME NEW row \in Row
  PROVE  /\ row.user \in {"student", "guest"}
         /\ row.status \in {"absent", "in_progress", "graded", "expired"}
         /\ row.start \in Nat /\ row.submit \in Nat
         /\ row.correct \in 0..Total
BY DEF Row

\* The empty values have the types of the values they stand for.
LEMMA EmptyValues ==
  /\ NoRow \in Row /\ NoRow.status = "absent"
  /\ NoSub \in Sub
BY ParametersAssumption, SubmissionFields DEF NoRow, NoSub, Sub

\* What Take inserts.
LEMMA OpenedRow ==
  ASSUME NEW t \in Nat
  PROVE  /\ Opened(t) \in Row
         /\ Opened(t).user = "student" /\ Opened(t).status = "in_progress"
         /\ Opened(t).start = t
BY ParametersAssumption, SubmissionFields DEF Opened

\* What Expire writes: the owner and the starting time stay.
LEMMA ClosedRow ==
  ASSUME NEW row \in Row, NEW t \in Nat
  PROVE  /\ Closed(row, t) \in Row
         /\ Closed(row, t).user = row.user /\ Closed(row, t).status = "expired"
         /\ Closed(row, t).start = row.start
<1>1. 0 \in 0..Total
  BY ParametersAssumption
<1>2. row.user \in {"student", "guest"} /\ row.start \in Nat
  BY RowFields
<1> QED
  BY <1>1, <1>2, SubmissionFields DEF Closed

\* What SubmitTx saves.
LEMMA GradedRow ==
  ASSUME NEW u \in {"student", "guest"}, NEW s \in Nat, NEW t \in Nat,
         NEW c \in 0..Total
  PROVE  /\ Graded(u, s, t, c) \in Row
         /\ Graded(u, s, t, c).user = u /\ Graded(u, s, t, c).status = "graded"
         /\ Graded(u, s, t, c).start = s /\ Graded(u, s, t, c).submit = t
BY SubmissionFields DEF Graded

\* A request's copy of a row.
LEMMA CopyFields ==
  /\ \A i \in Ids, s \in Nat : [id |-> i, start |-> s] \in Sub
  /\ \A copy \in Sub : copy.id \in 0..MaxRows /\ copy.start \in Nat
BY ParametersAssumption DEF Sub, Ids


\* The tables and every request's memory keep their shape.
THEOREM TypeCorrect == Spec => []TypeOK
<1>1. Init => TypeOK
  <2> SUFFICES ASSUME Init PROVE TypeOK
    OBVIOUS
  <2>1. nextId \in 1..(MaxRows + 1)
    BY ParametersAssumption DEF Init
  <2>2. /\ rows \in [Ids -> Row] /\ details \in [Ids -> Seq(0..Total)]
        /\ deleting \in [begun: BOOLEAN, ids: SUBSET Ids]
    BY EmptyValues DEF Init
  <2>3. /\ pc \in [Requests -> PCs] /\ sub \in [Requests -> Sub]
        /\ at \in [Requests -> Nat]
    BY EmptyValues DEF Init, PCs
  <2> QED
    BY <2>1, <2>2, <2>3 DEF Init, TypeOK
<1>2. TypeOK /\ [Next]_vars => TypeOK'
  <2> SUFFICES ASSUME TypeOK, [Next]_vars PROVE TypeOK'
    OBVIOUS
  <2> USE DEF TypeOK
  <2>a. ASSUME NEW r \in Requests, NEW l \in PCs, Goto(r, l)
        PROVE  pc' \in [Requests -> PCs]
    BY <2>a DEF Goto
  <2>b. ASSUME NEW r \in Requests, Finish(r)
        PROVE  /\ pc' \in [Requests -> PCs]
               /\ sub' \in [Requests -> Sub]
               /\ at' \in [Requests -> Nat]
    BY <2>b, EmptyValues DEF Finish, Goto, PCs
  <2>c. ASSUME NEW i \in 0..MaxRows, NEW t \in Nat, ExpireRow(i, t)
        PROVE  rows' \in [Ids -> Row]
    <3>1. CASE i \in Ids
      <4>1. Closed(rows[i], t) \in Row
        BY <3>1, ClosedRow
      <4> QED
        BY <2>c, <4>1 DEF ExpireRow
    <3>2. CASE i \notin Ids
      BY <2>c, <3>2 DEF ExpireRow
    <3> QED
      BY <3>1, <3>2
  <2>d. ASSUME NEW row \in Row, InsertRow(row)
        PROVE  rows' \in [Ids -> Row] /\ nextId' \in 1..(MaxRows + 1) /\ nextId \in Ids
    BY <2>d, ParametersAssumption DEF InsertRow, Ids
  <2>e. ASSUME NEW id \in 0..MaxRows, NEW row \in Row, NEW blank \in BOOLEAN,
               SubmitTx(id, row, blank)
        PROVE  rows' \in [Ids -> Row] /\ details' \in [Ids -> Seq(0..Total)]
    <3>1. rows' \in [Ids -> Row]
      BY <2>e DEF SubmitTx
    <3>2. CASE blank
      BY <2>e, <3>1, <3>2 DEF SubmitTx
    <3>3. CASE ~blank /\ id \in Ids
      <4>1. row.correct \in 0..Total
        BY RowFields
      <4>2. Append(details[id], row.correct) \in Seq(0..Total)
        BY <3>3, <4>1
      <4> QED
        BY <2>e, <3>1, <3>3, <4>2 DEF SubmitTx
    <3>4. CASE ~blank /\ id \notin Ids
      BY <2>e, <3>1, <3>4 DEF SubmitTx
    <3> QED
      BY <3>2, <3>3, <3>4
  <2>1. ASSUME NEW r \in Requests, TakeStart(r) PROVE TypeOK'
    BY <2>1, <2>a DEF TakeStart, PCs
  <2>2. ASSUME NEW r \in Requests, TakeFind(r) PROVE TypeOK'
    <3>1. \A i \in Open : [id |-> i, start |-> rows[i].start] \in Sub
      BY CopyFields, RowFields DEF Open, Mine
    <3>2. sub' \in [Requests -> Sub]
      BY <2>2, <3>1 DEF TakeFind
    <3>3. pc' \in [Requests -> PCs]
      BY <2>2, <2>a DEF TakeFind, PCs
    <3> QED
      BY <2>2, <3>2, <3>3 DEF TakeFind
  <2>3. ASSUME NEW r \in Requests, TakeCount(r) PROVE TypeOK'
    BY <2>3, <2>a, <2>b DEF TakeCount, PCs
  <2>4. ASSUME NEW r \in Requests, TakeCreate(r) PROVE TypeOK'
    <3>1. Opened(now) \in Row
      BY OpenedRow
    <3>2. nextId \in Ids /\ rows' \in [Ids -> Row] /\ nextId' \in 1..(MaxRows + 1)
      BY <2>4, <3>1, <2>d DEF TakeCreate
    <3>3. sub' \in [Requests -> Sub]
      BY <2>4, <3>2, CopyFields DEF TakeCreate
    <3> QED
      BY <2>4, <2>a, <3>2, <3>3 DEF TakeCreate, PCs
  <2>5. ASSUME NEW r \in Requests, TakeCreateFails(r) PROVE TypeOK'
    BY <2>5, <2>b DEF TakeCreateFails
  <2>6. ASSUME NEW r \in Requests, TakeClock(r) PROVE TypeOK'
    BY <2>6, <2>a, <2>b DEF TakeClock, PCs
  <2>7. ASSUME NEW r \in Requests, TakeExpire(r) PROVE TypeOK'
    BY <2>7, <2>b, <2>c, CopyFields DEF TakeExpire
  <2>8. ASSUME NEW r \in Requests, SubmitStart(r) PROVE TypeOK'
    BY <2>8, <2>a DEF SubmitStart, PCs
  <2>9. ASSUME NEW r \in Requests, SubmitFind(r) PROVE TypeOK'
    <3>1. \A i \in Open : [id |-> i, start |-> rows[i].start] \in Sub
      BY CopyFields, RowFields DEF Open, Mine
    <3>2. sub' \in [Requests -> Sub] /\ at' \in [Requests -> Nat]
      BY <2>9, <2>b, <3>1 DEF SubmitFind
    <3>3. pc' \in [Requests -> PCs]
      BY <2>9, <2>b DEF SubmitFind, Goto, PCs
    <3> QED
      BY <2>9, <3>2, <3>3 DEF SubmitFind
  <2>10. ASSUME NEW r \in Requests, SubmitExpire(r) PROVE TypeOK'
    BY <2>10, <2>b, <2>c, CopyFields DEF SubmitExpire
  <2>11. ASSUME NEW r \in Requests, SubmitSave(r) PROVE TypeOK'
    <3>1. sub[r].id \in 0..MaxRows /\ sub[r].start \in Nat
      BY CopyFields
    <3>2. \A c \in 0..Total : Graded("student", sub[r].start, at[r], c) \in Row
      BY <3>1, GradedRow
    <3>3. rows' \in [Ids -> Row] /\ details' \in [Ids -> Seq(0..Total)]
      BY <2>11, <2>e, <3>1, <3>2 DEF SubmitSave
    <3> QED
      BY <2>11, <2>b, <3>3 DEF SubmitSave
  <2>12. ASSUME NEW r \in Requests, SubmitRollback(r) PROVE TypeOK'
    BY <2>12, <2>b DEF SubmitRollback
  <2>13. ASSUME NEW r \in Requests, GuestStart(r) PROVE TypeOK'
    BY <2>13, <2>a DEF GuestStart, PCs
  <2>14. ASSUME NEW r \in Requests, GuestSave(r) PROVE TypeOK'
    <3>1. nextId \in 0..MaxRows /\ nextId' \in 1..(MaxRows + 1)
      BY <2>14, ParametersAssumption DEF GuestSave
    <3>2. \A c \in 0..Total : Graded("guest", at[r], at[r], c) \in Row
      BY GradedRow
    <3>3. rows' \in [Ids -> Row] /\ details' \in [Ids -> Seq(0..Total)]
      BY <2>14, <2>e, <3>1, <3>2 DEF GuestSave
    <3> QED
      BY <2>14, <2>b, <3>1, <3>3 DEF GuestSave
  <2>15. CASE DeleteBegin
    BY <2>15 DEF DeleteBegin
  <2>16. CASE DeleteCommit
    <3>1. details' \in [Ids -> Seq(0..Total)]
      <4>1. <<>> \in Seq(0..Total)
        OBVIOUS
      <4> QED
        BY <2>16, <4>1 DEF DeleteCommit
    <3>2. rows' \in [Ids -> Row]
      BY <2>16, EmptyValues DEF DeleteCommit
    <3> QED
      BY <2>16, <3>1, <3>2 DEF DeleteCommit
  <2>17. CASE AvailabilityChanges
    BY <2>17 DEF AvailabilityChanges
  <2>18. CASE Crash
    BY <2>18, EmptyValues DEF Crash, PCs
  <2>19. CASE Tick
    BY <2>19 DEF Tick
  <2>20. CASE UNCHANGED vars
    BY <2>20 DEF vars
  <2> QED
    BY <2>1, <2>2, <2>3, <2>4, <2>5, <2>6, <2>7, <2>8, <2>9, <2>10, <2>11,
       <2>12, <2>13, <2>14, <2>15, <2>16, <2>17, <2>18, <2>19, <2>20
       DEF Next, Take, Submit
<1> QED
  BY <1>1, <1>2, PTL DEF Spec

\* FreshIds, CopiesAgree, SameRowSameStart, SavingInTime, DeletingHasExam and
\* GradedInTime are together kept by every step, whatever the other requests do in between.
THEOREM RowsInvariant == Spec => []RowsInv
<1> USE DEF RowsInv
<1>1. Init => RowsInv
  BY ParametersAssumption, EmptyValues DEF Init, FreshIds, CopiesAgree, SameRowSameStart, SavingInTime,
     DeletingHasExam, GradedInTime, Holding, Saving, Mine
<1>2. TypeOK /\ TypeOK' /\ RowsInv /\ [Next]_vars => RowsInv'
  <2> SUFFICES ASSUME TypeOK, TypeOK', RowsInv, [Next]_vars PROVE RowsInv'
    OBVIOUS
  \* Requests whose memory a step leaves alone keep what they hold.
  <2>a. ASSUME NEW r \in Requests, pc' \in [Requests -> PCs],
               \A q \in Requests \ {r} :
                  pc'[q] = pc[q] /\ sub'[q] = sub[q] /\ at'[q] = at[q],
               pc'[r] \notin {"take_clock", "take_expire", "submit_expire", "submit_save"},
               nextId' = nextId, rows' = rows
        PROVE  FreshIds' /\ CopiesAgree' /\ SameRowSameStart' /\ SavingInTime' /\ GradedInTime'
    BY <2>a DEF FreshIds, CopiesAgree, SameRowSameStart, SavingInTime, GradedInTime, Holding, Saving,
       Mine, PastDeadline, PastClosing
  <2>b. ASSUME NEW r \in Requests, Finish(r)
        PROVE  /\ pc'[r] = "idle"
               /\ \A q \in Requests \ {r} :
                    pc'[q] = pc[q] /\ sub'[q] = sub[q] /\ at'[q] = at[q]
    BY <2>b DEF Finish, Goto, TypeOK
  <2>c. ASSUME NEW r \in Requests, NEW l, Goto(r, l)
        PROVE  pc'[r] = l /\ \A q \in Requests \ {r} : pc'[q] = pc[q]
    BY <2>c DEF Goto, TypeOK
  <2>f. ASSUME NEW q \in Holding
        PROVE  sub[q].id \in 1..(nextId - 1) /\ sub[q].id \in Ids \ {nextId}
    BY ParametersAssumption DEF CopiesAgree, TypeOK, Ids
  <2>d. ASSUME NEW r \in Requests, pc[r] \in {"take_expire", "submit_expire"},
               NEW t \in Nat, ExpireRow(sub[r].id, t), Finish(r), nextId' = nextId
        PROVE  FreshIds' /\ CopiesAgree' /\ SameRowSameStart' /\ SavingInTime' /\ GradedInTime'
    <3> DEFINE i == sub[r].id
    <3>1. i \in 1..(nextId - 1) /\ i \in Ids
      BY <2>d, <2>f DEF Holding
    <3>2. \A j \in Ids :
            \/ rows'[j] = rows[j]
            \/ /\ j = i /\ rows[j].status = "in_progress"
               /\ rows'[j].status = "expired"
               /\ rows'[j].user = rows[j].user /\ rows'[j].start = rows[j].start
      <4>1. CASE rows' = [rows EXCEPT ![i] = Closed(rows[i], t)] /\ rows[i].status = "in_progress"
        <5>1. /\ Closed(rows[i], t).status = "expired"
              /\ Closed(rows[i], t).user = rows[i].user
              /\ Closed(rows[i], t).start = rows[i].start
          BY <3>1, ClosedRow DEF TypeOK
        <5> QED
          BY <3>1, <4>1, <5>1 DEF TypeOK
      <4>2. CASE rows' = rows
        BY <4>2
      <4> QED
        BY <2>d, <4>1, <4>2 DEF ExpireRow
    <3>3. FreshIds'
      BY <2>d, <3>1, <3>2, EmptyValues DEF FreshIds, TypeOK, Ids
    <3>4. CopiesAgree'
      <4> SUFFICES ASSUME NEW q \in Holding' PROVE
             /\ sub'[q].id \in 1..(nextId' - 1)
             /\ rows'[sub'[q].id].status # "absent" =>
                  /\ rows'[sub'[q].id].user = "student"
                  /\ rows'[sub'[q].id].start = sub'[q].start
        BY DEF CopiesAgree
      <4>1. q # r /\ q \in Holding /\ sub'[q] = sub[q]
        BY <2>d, <2>b DEF Holding
      <4>2. sub[q].id \in Ids
        BY <4>1, <2>f
      <4> QED
        BY <2>d, <3>2, <4>1, <4>2 DEF CopiesAgree
    <3>5. SavingInTime'
      BY <2>d, <2>b DEF SavingInTime, Saving, PastDeadline, PastClosing
    <3>6. GradedInTime'
      BY <3>2 DEF GradedInTime, Mine, PastDeadline, PastClosing
    <3>7. SameRowSameStart'
      BY <2>d, <2>b DEF SameRowSameStart, Holding
    <3> QED
      BY <3>3, <3>4, <3>5, <3>6, <3>7
  <2>e. ASSUME NEW r \in Requests, NEW i \in Open,
               sub' = [sub EXCEPT ![r] = [id |-> i, start |-> rows[i].start]],
               \A q \in Requests \ {r} : pc'[q] = pc[q] /\ at'[q] = at[q],
               pc'[r] = "submit_save" =>
                 ~PastDeadline(rows[i].start, at'[r]) /\ ~PastClosing(at'[r]),
               rows' = rows, nextId' = nextId
        PROVE  FreshIds' /\ CopiesAgree' /\ SameRowSameStart' /\ SavingInTime' /\ GradedInTime'
    <3>1. /\ i \in 1..(nextId - 1)
          /\ rows[i].user = "student"
      BY <2>e, EmptyValues DEF Open, Mine, FreshIds, TypeOK, Ids
    <3>2. /\ sub'[r].id = i /\ sub'[r].start = rows[i].start
          /\ \A q \in Requests \ {r} : sub'[q] = sub[q]
      BY <2>e DEF TypeOK
    <3>3. CopiesAgree'
      BY <2>e, <3>1, <3>2 DEF CopiesAgree, Holding
    <3>4. SavingInTime'
      BY <2>e, <3>2 DEF SavingInTime, Saving, PastDeadline, PastClosing
    <3>5. SameRowSameStart'
      <4>1. \A q \in Holding : sub[q].id = i => sub[q].start = rows[i].start
        BY <2>e, <3>1 DEF CopiesAgree, Open, Mine
      <4> QED
        BY <2>e, <3>2, <4>1 DEF SameRowSameStart, Holding
    <3> QED
      BY <2>e, <3>3, <3>4, <3>5 DEF FreshIds, GradedInTime, Mine, PastDeadline, PastClosing
  <2>1. ASSUME NEW r \in Requests, TakeStart(r) PROVE RowsInv'
    <3>1. UNCHANGED <<examRow, deleting, rows, nextId, sub, at>>
      BY <2>1 DEF TakeStart
    <3>2. pc'[r] = "take_find" /\ \A q \in Requests \ {r} : pc'[q] = pc[q]
      BY <2>1, <2>c DEF TakeStart
    <3>3. pc' \in [Requests -> PCs]
      BY DEF TypeOK
    <3> QED
      BY <3>1, <3>2, <3>3, <2>a DEF DeletingHasExam
  <2>2. ASSUME NEW r \in Requests, TakeFind(r) PROVE RowsInv'
    <3>1. CASE pc'[r] = "take_clock"
      <4>1. PICK i \in Open : sub' = [sub EXCEPT ![r] = [id |-> i, start |-> rows[i].start]]
        BY <2>2, <3>1, <2>c DEF TakeFind
      <4> QED
        BY <2>2, <3>1, <4>1, <2>c, <2>e DEF TakeFind, DeletingHasExam
    <3>2. CASE pc'[r] = "take_count"
      BY <2>2, <3>2, <2>a, <2>c DEF TakeFind, DeletingHasExam, TypeOK
    <3> QED
      BY <2>2, <2>c, <3>1, <3>2 DEF TakeFind
  <2>3. ASSUME NEW r \in Requests, TakeCount(r) PROVE RowsInv'
    <3>1. \/ Finish(r)
          \/ Goto(r, "take_create") /\ UNCHANGED <<sub, at>>
      BY <2>3 DEF TakeCount
    <3>2. UNCHANGED <<examRow, deleting, rows, nextId>>
      BY <2>3 DEF TakeCount
    <3>3. CASE Finish(r)
      BY <3>2, <3>3, <2>a, <2>b DEF DeletingHasExam, TypeOK
    <3>4. CASE Goto(r, "take_create") /\ UNCHANGED <<sub, at>>
      <4>1. \A q \in Requests \ {r} :
              pc'[q] = pc[q] /\ sub'[q] = sub[q] /\ at'[q] = at[q]
        BY <3>4, <2>c
      <4>2. pc'[r] = "take_create" /\ pc' \in [Requests -> PCs]
        BY <3>4, <2>c DEF TypeOK
      <4>3. FreshIds' /\ CopiesAgree' /\ SameRowSameStart' /\ SavingInTime' /\ GradedInTime'
        BY <3>2, <4>1, <4>2, <2>a
      <4> QED
        BY <3>2, <4>3 DEF DeletingHasExam
    <3> QED
      BY <3>1, <3>3, <3>4
  <2>4. ASSUME NEW r \in Requests, TakeCreate(r) PROVE RowsInv'
    <3>1. /\ nextId \in Ids /\ nextId' = nextId + 1
          /\ rows' = [rows EXCEPT ![nextId] = Opened(now)]
      BY <2>4 DEF TakeCreate, InsertRow, TypeOK, Ids
    <3>2. rows'[nextId] = Opened(now) /\ \A i \in Ids \ {nextId} : rows'[i] = rows[i]
      BY <3>1 DEF TypeOK
    <3>3. /\ Opened(now).user = "student" /\ Opened(now).start = now
          /\ Opened(now).status = "in_progress"
      BY OpenedRow DEF TypeOK
    <3>4. /\ sub'[r].id = nextId /\ sub'[r].start = now
          /\ \A q \in Requests \ {r} : sub'[q] = sub[q]
      BY <2>4 DEF TakeCreate, TypeOK
    <3>5. /\ pc'[r] = "take_clock" /\ at' = at
          /\ \A q \in Requests \ {r} : pc'[q] = pc[q]
      BY <2>4, <2>c DEF TakeCreate
    <3>6. FreshIds'
      BY <3>1, <3>2 DEF FreshIds, TypeOK, Ids
    <3>7. CopiesAgree'
      <4> SUFFICES ASSUME NEW q \in Holding' PROVE
             /\ sub'[q].id \in 1..(nextId' - 1)
             /\ rows'[sub'[q].id].status # "absent" =>
                  /\ rows'[sub'[q].id].user = "student"
                  /\ rows'[sub'[q].id].start = sub'[q].start
        BY DEF CopiesAgree
      <4>1. CASE q = r
        BY <4>1, <3>1, <3>2, <3>3, <3>4 DEF TypeOK, Ids
      <4>2. CASE q # r
        <5>1. q \in Holding /\ sub'[q] = sub[q]
          BY <4>2, <3>4, <3>5 DEF Holding
        <5>2. sub[q].id \in 1..(nextId - 1) /\ sub[q].id \in Ids \ {nextId}
          BY <5>1, <2>f
        <5> QED
          BY <5>1, <5>2, <3>1, <3>2 DEF CopiesAgree, TypeOK
      <4> QED
        BY <4>1, <4>2
    <3>8. SavingInTime'
      BY <3>4, <3>5 DEF SavingInTime, Saving, PastDeadline, PastClosing
    <3>9. GradedInTime'
      BY <3>1, <3>2, <3>3 DEF GradedInTime, Mine, PastDeadline, PastClosing
    <3>10. SameRowSameStart'
      <4>1. \A q \in Holding : sub[q].id # nextId
        BY DEF CopiesAgree, TypeOK
      <4> QED
        BY <3>4, <3>5, <4>1 DEF SameRowSameStart, Holding
    <3> QED
      BY <2>4, <3>6, <3>7, <3>8, <3>9, <3>10 DEF TakeCreate, DeletingHasExam
  <2>5. ASSUME NEW r \in Requests, TakeCreateFails(r) PROVE RowsInv'
    BY <2>5, <2>a, <2>b DEF TakeCreateFails, DeletingHasExam, TypeOK
  <2>6. ASSUME NEW r \in Requests, TakeClock(r) PROVE RowsInv'
    <3>1. CASE pc'[r] = "take_expire"
      <4>1. /\ sub' = sub /\ at' = at /\ rows' = rows /\ nextId' = nextId
            /\ Holding' = Holding /\ Saving' = Saving
        BY <2>6, <3>1, <2>b, <2>c DEF TakeClock, Holding, Saving
      <4> QED
        BY <2>6, <4>1 DEF TakeClock, FreshIds, CopiesAgree, SameRowSameStart, SavingInTime,
           DeletingHasExam, GradedInTime, Mine, PastDeadline, PastClosing
    <3>2. CASE Finish(r)
      BY <2>6, <3>2, <2>a, <2>b DEF TakeClock, DeletingHasExam, TypeOK
    <3> QED
      BY <2>6, <2>c, <3>1, <3>2 DEF TakeClock
  <2>7. ASSUME NEW r \in Requests, TakeExpire(r) PROVE RowsInv'
    BY <2>7, <2>d DEF TakeExpire, DeletingHasExam, TypeOK
  <2>8. ASSUME NEW r \in Requests, SubmitStart(r) PROVE RowsInv'
    <3>1. /\ pc'[r] \notin {"take_clock", "take_expire", "submit_expire", "submit_save"}
          /\ \A q \in Requests \ {r} :
               pc'[q] = pc[q] /\ sub'[q] = sub[q] /\ at'[q] = at[q]
      BY <2>8, <2>c DEF SubmitStart, TypeOK
    <3> QED
      BY <2>8, <3>1, <2>a DEF SubmitStart, DeletingHasExam, TypeOK
  <2>9. ASSUME NEW r \in Requests, SubmitFind(r) PROVE RowsInv'
    <3>1. CASE Finish(r)
      BY <2>9, <3>1, <2>a, <2>b DEF SubmitFind, DeletingHasExam, TypeOK
    <3>2. CASE ~Finish(r)
      <4>1. PICK i \in Open :
              /\ sub' = [sub EXCEPT ![r] = [id |-> i, start |-> rows[i].start]]
              /\ Goto(r, IF TooLate(rows[i].start, at[r])
                         THEN "submit_expire" ELSE "submit_save")
              /\ UNCHANGED at
        BY <2>9, <3>2 DEF SubmitFind
      <4>2. /\ \A q \in Requests \ {r} : pc'[q] = pc[q]
            /\ pc'[r] = "submit_save" =>
                 ~PastDeadline(rows[i].start, at[r]) /\ ~PastClosing(at[r])
        BY <4>1 DEF Goto, TooLate, TypeOK
      <4> QED
        BY <2>9, <4>1, <4>2, <2>e DEF SubmitFind, DeletingHasExam, PastDeadline, PastClosing
    <3> QED
      BY <3>1, <3>2
  <2>10. ASSUME NEW r \in Requests, SubmitExpire(r) PROVE RowsInv'
    BY <2>10, <2>d DEF SubmitExpire, DeletingHasExam, TypeOK
  <2>11. ASSUME NEW r \in Requests, SubmitSave(r) PROVE RowsInv'
    <3> DEFINE i == sub[r].id
    <3>1. i \in 1..(nextId - 1) /\ i \in Ids
      BY <2>11, <2>f DEF SubmitSave, Holding
    <3>2. PICK c \in 0..Total :
            rows' = [rows EXCEPT ![i] = Graded("student", sub[r].start, at[r], c)]
      BY <2>11 DEF SubmitSave, SubmitTx
    <3>3. /\ rows'[i].user = "student" /\ rows'[i].status = "graded"
          /\ rows'[i].start = sub[r].start /\ rows'[i].submit = at[r]
          /\ \A j \in Ids \ {i} : rows'[j] = rows[j]
      <4>1. sub[r].start \in Nat /\ at[r] \in Nat
        BY CopyFields DEF TypeOK
      <4>2. /\ Graded("student", sub[r].start, at[r], c).user = "student"
            /\ Graded("student", sub[r].start, at[r], c).status = "graded"
            /\ Graded("student", sub[r].start, at[r], c).start = sub[r].start
            /\ Graded("student", sub[r].start, at[r], c).submit = at[r]
        BY <4>1, GradedRow
      <4> QED
        BY <3>1, <3>2, <4>2 DEF TypeOK
    <3>4. FreshIds'
      BY <2>11, <3>1, <3>3 DEF SubmitSave, FreshIds, TypeOK, Ids
    <3>5. CopiesAgree'
      <4> SUFFICES ASSUME NEW q \in Holding' PROVE
             /\ sub'[q].id \in 1..(nextId' - 1)
             /\ rows'[sub'[q].id].status # "absent" =>
                  /\ rows'[sub'[q].id].user = "student"
                  /\ rows'[sub'[q].id].start = sub'[q].start
        BY DEF CopiesAgree
      <4>1. q # r /\ q \in Holding /\ sub'[q] = sub[q] /\ nextId' = nextId
        BY <2>11, <2>b DEF SubmitSave, Holding
      <4>2. sub[q].id \in 1..(nextId - 1) /\ sub[q].id \in Ids
        BY <4>1, <2>f
      <4>3. CASE sub[q].id # i
        BY <4>1, <4>2, <4>3, <3>3 DEF CopiesAgree
      <4>4. CASE sub[q].id = i
        BY <4>1, <4>2, <4>4, <3>3, <2>11 DEF SubmitSave, SameRowSameStart, Holding
      <4> QED
        BY <4>3, <4>4
    <3>6. SavingInTime'
      BY <2>11, <2>b DEF SubmitSave, SavingInTime, Saving, PastDeadline, PastClosing
    <3>7. GradedInTime'
      BY <2>11, <3>1, <3>3 DEF SubmitSave, GradedInTime, SavingInTime, Saving, Mine,
         PastDeadline, PastClosing
    <3>8. SameRowSameStart'
      BY <2>11, <2>b DEF SubmitSave, SameRowSameStart, Holding
    <3> QED
      BY <2>11, <3>4, <3>5, <3>6, <3>7, <3>8 DEF SubmitSave, DeletingHasExam
  <2>12. ASSUME NEW r \in Requests, SubmitRollback(r) PROVE RowsInv'
    BY <2>12, <2>a, <2>b DEF SubmitRollback, DeletingHasExam, TypeOK
  <2>13. ASSUME NEW r \in Requests, GuestStart(r) PROVE RowsInv'
    <3>1. /\ pc'[r] \notin {"take_clock", "take_expire", "submit_expire", "submit_save"}
          /\ \A q \in Requests \ {r} :
               pc'[q] = pc[q] /\ sub'[q] = sub[q] /\ at'[q] = at[q]
      BY <2>13, <2>c DEF GuestStart, TypeOK
    <3> QED
      BY <2>13, <3>1, <2>a DEF GuestStart, DeletingHasExam, TypeOK
  <2>14. ASSUME NEW r \in Requests, GuestSave(r) PROVE RowsInv'
    <3>1. PICK c \in 0..Total : InsertRow(Graded("guest", at[r], at[r], c))
      BY <2>14 DEF GuestSave, SubmitTx, InsertRow
    <3>2. /\ nextId \in Ids /\ nextId' = nextId + 1
          /\ rows'[nextId].user = "guest"
          /\ \A j \in Ids \ {nextId} : rows'[j] = rows[j]
      BY <3>1, GradedRow DEF InsertRow, TypeOK, Ids
    <3>3. FreshIds'
      BY <3>2 DEF FreshIds, TypeOK, Ids
    <3>4. CopiesAgree'
      <4> SUFFICES ASSUME NEW q \in Holding' PROVE
             /\ sub'[q].id \in 1..(nextId' - 1)
             /\ rows'[sub'[q].id].status # "absent" =>
                  /\ rows'[sub'[q].id].user = "student"
                  /\ rows'[sub'[q].id].start = sub'[q].start
        BY DEF CopiesAgree
      <4>1. q \in Holding /\ sub'[q] = sub[q]
        BY <2>14, <2>b DEF GuestSave, Holding
      <4>2. sub[q].id \in 1..(nextId - 1) /\ sub[q].id \in Ids \ {nextId}
        BY <4>1, <2>f
      <4> QED
        BY <4>1, <4>2, <3>2 DEF CopiesAgree, TypeOK
    <3>5. SavingInTime'
      BY <2>14, <2>b DEF GuestSave, SavingInTime, Saving, PastDeadline, PastClosing
    <3>6. GradedInTime'
      BY <3>2 DEF GradedInTime, Mine, PastDeadline, PastClosing
    <3>7. SameRowSameStart'
      BY <2>14, <2>b DEF GuestSave, SameRowSameStart, Holding
    <3> QED
      BY <2>14, <3>3, <3>4, <3>5, <3>6, <3>7 DEF GuestSave, DeletingHasExam
  <2>15. CASE DeleteBegin
    BY <2>15 DEF DeleteBegin, FreshIds, CopiesAgree, SameRowSameStart, SavingInTime, DeletingHasExam,
       GradedInTime, Holding, Saving, Mine
  <2>16. CASE DeleteCommit
    <3>1. /\ \A j \in Ids : rows'[j] = NoRow
          /\ UNCHANGED <<nextId, pc, sub, at>>
      BY <2>16 DEF DeleteCommit
    <3>2. FreshIds' /\ GradedInTime'
      BY <3>1, EmptyValues DEF FreshIds, GradedInTime, Mine
    <3>3. CopiesAgree'
      BY <3>1, <2>f, EmptyValues DEF CopiesAgree, Holding
    <3>4. SavingInTime'
      BY <3>1 DEF SavingInTime, Saving, PastDeadline, PastClosing
    <3>5. SameRowSameStart'
      BY <3>1 DEF SameRowSameStart, Holding
    <3> QED
      BY <2>16, <3>2, <3>3, <3>4, <3>5 DEF DeleteCommit, DeletingHasExam
  <2>17. CASE AvailabilityChanges
    BY <2>17 DEF AvailabilityChanges, FreshIds, CopiesAgree, SameRowSameStart, SavingInTime,
       DeletingHasExam, GradedInTime, Holding, Saving, Mine
  <2>18. CASE Crash
    BY <2>18 DEF Crash, FreshIds, CopiesAgree, SameRowSameStart, SavingInTime,
       DeletingHasExam, GradedInTime, Holding, Saving, Mine
  <2>19. CASE Tick
    BY <2>19 DEF Tick, FreshIds, CopiesAgree, SameRowSameStart, SavingInTime,
       DeletingHasExam, GradedInTime, Holding, Saving, Mine
  <2>20. CASE UNCHANGED vars
    BY <2>20 DEF vars, FreshIds, CopiesAgree, SameRowSameStart, SavingInTime,
       DeletingHasExam, GradedInTime, Holding, Saving, Mine
  <2> QED
    BY <2>1, <2>2, <2>3, <2>4, <2>5, <2>6, <2>7, <2>8, <2>9, <2>10, <2>11,
       <2>12, <2>13, <2>14, <2>15, <2>16, <2>17, <2>18, <2>19, <2>20
       DEF Next, Take, Submit
<1> QED
  BY <1>1, <1>2, TypeCorrect, PTL DEF Spec

\* No attempt is graded on answers that came in after its deadline, or after
\* the exam closed, plus the grace.
THEOREM GradedInTimeAlways == Spec => []GradedInTime
BY RowsInvariant, PTL DEF RowsInv

\* Graded attempts stay graded, expired ones are never reopened and no attempt
\* gets another starting time, whatever Take, Submit and Expire interleave.
THEOREM AttemptLifeAlways == Spec => AttemptLife
<1> DEFINE Life(i) ==
      rows[i].status # "absent" =>
        \/ /\ rows'[i].start = rows[i].start
           /\ rows'[i].user = rows[i].user
           /\ rows[i].status = "graded"  => rows'[i].status = "graded"
           /\ rows[i].status = "expired" => rows'[i].status \in {"expired", "graded"}
           /\ rows'[i].status # "absent"
        \/ rows'[i] = NoRow /\ examRow /\ ~examRow'
<1>1. TypeOK /\ RowsInv /\ [Next]_vars => [\A i \in Ids : Life(i)]_vars
  <2> SUFFICES ASSUME TypeOK, RowsInv, Next, NEW i \in Ids PROVE Life(i)
    BY DEF vars
  <2>a. rows' = rows => Life(i)
    OBVIOUS
  <2>b. ASSUME NEW j, NEW t \in Nat, ExpireRow(j, t) PROVE Life(i)
    <3>1. CASE rows' = [rows EXCEPT ![j] = Closed(rows[j], t)] /\ i = j
               /\ rows[j].status = "in_progress"
      <4>1. /\ Closed(rows[i], t).status = "expired"
            /\ Closed(rows[i], t).user = rows[i].user
            /\ Closed(rows[i], t).start = rows[i].start
        BY ClosedRow DEF TypeOK
      <4> QED
        BY <3>1, <4>1 DEF TypeOK
    <3>2. CASE rows' = [rows EXCEPT ![j] = Closed(rows[j], t)] /\ i # j
      BY <3>2 DEF TypeOK
    <3> QED
      BY <2>a, <2>b, <3>1, <3>2 DEF ExpireRow
  <2>c. ASSUME NEW row, InsertRow(row) PROVE Life(i)
    <3>1. CASE i = nextId
      <4>1. i >= nextId /\ FreshIds
        BY <3>1 DEF RowsInv, Ids
      <4> QED
        BY <4>1, EmptyValues DEF FreshIds
    <3>2. CASE i # nextId
      BY <2>c, <3>2 DEF InsertRow, TypeOK
    <3> QED
      BY <3>1, <3>2
  <2>1. ASSUME NEW r \in Requests, Take(r) PROVE Life(i)
    <3>1. CASE TakeCreate(r)
      BY <3>1, <2>c DEF TakeCreate
    <3>2. CASE TakeExpire(r)
      BY <3>2, <2>b DEF TakeExpire, TypeOK
    <3> QED
      BY <2>1, <3>1, <3>2, <2>a DEF Take, TakeStart, TakeFind, TakeCount,
         TakeCreateFails, TakeClock
  <2>2. ASSUME NEW r \in Requests, Submit(r) PROVE Life(i)
    <3>1. CASE SubmitExpire(r)
      BY <3>1, <2>b DEF SubmitExpire, TypeOK
    <3>2. CASE GuestSave(r)
      <4>1. PICK c \in 0..Total : InsertRow(Graded("guest", at[r], at[r], c))
        BY <3>2 DEF GuestSave, SubmitTx, InsertRow
      <4> QED
        BY <4>1, <2>c
    <3>3. CASE SubmitSave(r) /\ i = sub[r].id
      <4>1. PICK c \in 0..Total :
              rows' = [rows EXCEPT ![i] = Graded("student", sub[r].start, at[r], c)]
        BY <3>3 DEF SubmitSave, SubmitTx
      <4>2. sub[r].start \in Nat /\ at[r] \in Nat
        BY CopyFields DEF TypeOK
      <4>3. /\ rows'[i].user = "student" /\ rows'[i].status = "graded"
            /\ rows'[i].start = sub[r].start
        BY <4>1, <4>2, GradedRow DEF TypeOK
      <4>4. rows[i].status # "absent" =>
              rows[i].user = "student" /\ rows[i].start = sub[r].start
        BY <3>3 DEF RowsInv, CopiesAgree, Holding, SubmitSave
      <4> QED
        BY <4>3, <4>4
    <3>4. CASE SubmitSave(r) /\ i # sub[r].id
      BY <3>4 DEF SubmitSave, SubmitTx, TypeOK
    <3> QED
      BY <2>2, <3>1, <3>2, <3>3, <3>4, <2>a DEF Submit, SubmitStart, SubmitFind,
         SubmitRollback, GuestStart
  <2>3. CASE DeleteCommit
    BY <2>3 DEF DeleteCommit, RowsInv, DeletingHasExam
  <2> QED
    BY <2>1, <2>2, <2>3, <2>a DEF Next, DeleteBegin, AvailabilityChanges, Crash, Tick
<1> QED
  BY <1>1, TypeCorrect, RowsInvariant, PTL DEF Spec, AttemptLife

\* Whole units: the earlier of two times has no fewer.
LEMMA WholeUnits ==
  ASSUME NEW a \in Int, NEW b \in Int, NEW d \in Nat \ {0}, a <= b
  PROVE  a \div d <= b \div d
<1> DEFINE p == a \div d
           q == b \div d
<1>1. /\ p \in Int /\ q \in Int
      /\ d * p <= a /\ b < d * q + d
  OBVIOUS
<1> HIDE DEF p, q
<1>2. SUFFICES ASSUME p > q PROVE FALSE
  BY <1>1 DEF p, q
<1>3. p >= q + 1
  BY <1>1, <1>2
<1>4. d * p >= d * (q + 1)
  BY <1>1, <1>3
<1>5. d * (q + 1) = d * q + d
  BY <1>1
<1> QED
  BY <1>1, <1>4, <1>5

\* The session a student is shown never gains time while the attempt is open,
\* whatever is loaded again or fails: its starting time stays and the clock of
\* the server only advances.
THEOREM NoTimeGained ==
  Spec => [][\A i \in Ids :
               rows[i].status = "in_progress" /\ rows'[i].status = "in_progress" =>
                 RemainingSeconds(rows[i].start)' <= RemainingSeconds(rows[i].start)]_vars
<1> DEFINE Gains == \A i \in Ids :
               rows[i].status = "in_progress" /\ rows'[i].status = "in_progress" =>
                 RemainingSeconds(rows[i].start)' <= RemainingSeconds(rows[i].start)
           Lives == \A i \in Ids :
         rows[i].status # "absent" =>
           \/ /\ rows'[i].start = rows[i].start
              /\ rows'[i].user = rows[i].user
              /\ rows[i].status = "graded"  => rows'[i].status = "graded"
              /\ rows[i].status = "expired" => rows'[i].status \in {"expired", "graded"}
              /\ rows'[i].status # "absent"
           \/ rows'[i] = NoRow /\ examRow /\ ~examRow'
<1>1. TypeOK /\ TypeOK' /\ [Next]_vars /\ [Lives]_vars => [Gains]_vars
  <2> SUFFICES ASSUME TypeOK, TypeOK', Next, Lives, NEW i \in Ids,
                      rows[i].status = "in_progress", rows'[i].status = "in_progress"
               PROVE  RemainingSeconds(rows[i].start)' <= RemainingSeconds(rows[i].start)
    OBVIOUS
  <2>1. rows'[i].start = rows[i].start
    BY EmptyValues
  <2>2. now' >= now /\ now \in Nat /\ now' \in Nat
    BY DEF Next, Take, Submit, TakeStart, TakeFind, TakeCount, TakeCreate, TakeCreateFails,
       TakeClock, TakeExpire, SubmitStart, SubmitFind, SubmitExpire, SubmitSave, SubmitRollback,
       GuestStart, GuestSave, DeleteBegin, DeleteCommit, AvailabilityChanges, Crash, Tick, TypeOK
  <2>3. rows[i].start \in Nat
    BY RowFields DEF TypeOK
  <2> DEFINE before == rows[i].start + Duration - now
             after == rows[i].start + Duration - now'
  <2>4. before \in Int /\ after \in Int /\ after <= before
    BY <2>2, <2>3, ParametersAssumption
  <2>5. TicksPerSecond \in Nat \ {0}
    BY ParametersAssumption
  <2>6. /\ after \div TicksPerSecond <= before \div TicksPerSecond
        /\ before > 0 => before \div TicksPerSecond >= 0
    <3>1. after \div TicksPerSecond <= before \div TicksPerSecond
      BY <2>4, <2>5, WholeUnits
    <3>2. before > 0 => 0 \div TicksPerSecond <= before \div TicksPerSecond
      BY <2>4, <2>5, WholeUnits
    <3>3. 0 \div TicksPerSecond = 0
      BY <2>5
    <3> QED
      BY <3>1, <3>2, <3>3
  <2>7. /\ RemainingSeconds(rows[i].start) =
             IF Duration = 0 THEN -1
             ELSE IF before <= 0 THEN 0 ELSE before \div TicksPerSecond
        /\ RemainingSeconds(rows[i].start)' =
             IF Duration = 0 THEN -1
             ELSE IF after <= 0 THEN 0 ELSE after \div TicksPerSecond
    BY <2>1 DEF RemainingSeconds
  <2>8. after \div TicksPerSecond \in Int /\ before \div TicksPerSecond \in Int
    BY <2>4, <2>5
  <2> HIDE DEF before, after
  <2> QED
    BY <2>4, <2>6, <2>7, <2>8
<1> QED
  BY <1>1, TypeCorrect, AttemptLifeAlways, PTL DEF Spec, AttemptLife

-----------------------------------------------------------------------------
(* The bound on attempts *)

\* A set of requests names at most as many rows as it has members.
LEMMA FewerRowsThanRequests ==
  ASSUME NEW S, IsFiniteSet(S), NEW copies
  PROVE  /\ IsFiniteSet({copies[r].id : r \in S})
         /\ Cardinality({copies[r].id : r \in S}) <= Cardinality(S)
<1> DEFINE T == {copies[r].id : r \in S}
           f == [r \in S |-> copies[r].id]
<1>1. f \in Surjection(S, T)
  BY DEF Surjection
<1> HIDE DEF f, T
<1>2. IsFiniteSet(T) /\ Cardinality(T) <= Cardinality(S)
  BY <1>1, FS_Surjection
<1> QED
  BY <1>2 DEF T

\* Two sets that only lose members count no more together than before.
LEMMA SubsetsCountLess ==
  ASSUME NEW A, NEW B, IsFiniteSet(A), IsFiniteSet(B),
         NEW C \in SUBSET A, NEW D \in SUBSET B
  PROVE  /\ Cardinality(A) \in Nat /\ Cardinality(B) \in Nat
         /\ Cardinality(C) \in Nat /\ Cardinality(D) \in Nat
         /\ Cardinality(C) + Cardinality(D) <= Cardinality(A) + Cardinality(B)
<1>1. IsFiniteSet(C) /\ Cardinality(C) <= Cardinality(A)
  BY FS_Subset
<1>2. IsFiniteSet(D) /\ Cardinality(D) <= Cardinality(B)
  BY FS_Subset
<1> QED
  BY <1>1, <1>2, FS_CardinalityType

\* A request is about to create a row, or about to save one, or neither.
LEMMA CreatingOrSaving ==
  ASSUME NEW C \in SUBSET Requests, NEW S \in SUBSET Requests, C \cap S = {}
  PROVE  /\ IsFiniteSet(C) /\ IsFiniteSet(S)
         /\ Cardinality(C) \in Nat /\ Cardinality(S) \in Nat
         /\ Cardinality(C) + Cardinality(S) <= Cardinality(Requests)
<1>1. IsFiniteSet(C) /\ IsFiniteSet(S)
  BY RequestsAssumption, FS_Subset
<1>2. /\ IsFiniteSet(C \cup S)
      /\ Cardinality(C \cup S) = Cardinality(C) + Cardinality(S) - Cardinality(C \cap S)
  BY <1>1, FS_Union
<1>3. Cardinality(C \cap S) = 0
  BY FS_EmptySet
<1>4. C \cup S \in SUBSET Requests
  OBVIOUS
<1>5. Cardinality(C \cup S) <= Cardinality(Requests)
  BY <1>4, RequestsAssumption, FS_Subset
<1> QED
  BY <1>1, <1>2, <1>3, <1>5, FS_CardinalityType

\* There is at least one request slot, and the sets that are counted are finite.
LEMMA SomeRequests == Cardinality(Requests) \in Nat /\ Cardinality(Requests) >= 1
BY RequestsAssumption, FS_CardinalityType, FS_EmptySet

LEMMA FiniteRows ==
  ASSUME TypeOK
  PROVE  IsFiniteSet(Mine \cup Held) /\ IsFiniteSet(Mine) /\ IsFiniteSet(Creating)
<1> DEFINE M == Mine \cup Held
<1>1. M \in SUBSET (0..MaxRows) /\ Mine \in SUBSET M
  BY CopyFields DEF TypeOK, Held, Saving, Mine, Ids
<1>2. IsFiniteSet(0..MaxRows)
  BY ParametersAssumption, FS_Interval
<1>3. IsFiniteSet(M)
  BY <1>1, <1>2, FS_Subset
<1> HIDE DEF M
<1>4. IsFiniteSet(Mine)
  BY <1>1, <1>3, FS_Subset
<1>5. IsFiniteSet(Creating)
  BY RequestsAssumption, FS_Subset DEF Creating
<1> QED
  BY <1>3, <1>4, <1>5 DEF M

\* The attempts there are, those a late SubmitTx could bring back and those
\* about to be opened exceed MaxAttempts by fewer than the requests in flight.
THEOREM AttemptsBoundInvariant == Spec => []AttemptsBound
<1> DEFINE M == Mine \cup Held
           Limit == MaxAttempts + Cardinality(Requests) - 1
<1>0. Cardinality(Requests) \in Nat /\ Cardinality(Requests) >= 1
  BY SomeRequests
<1>a. ASSUME TypeOK
      PROVE  IsFiniteSet(M) /\ IsFiniteSet(Mine) /\ IsFiniteSet(Creating)
  BY <1>a, FiniteRows
<1>1. Init => AttemptsBound
  <2> SUFFICES ASSUME Init, MaxAttempts > 0
               PROVE  Cardinality(M) + Cardinality(Creating) <= Limit
    BY DEF AttemptsBound
  <2>1. M = {} /\ Creating = {}
    BY EmptyValues DEF Init, Mine, Held, Saving, Creating
  <2> HIDE DEF M
  <2> QED
    BY <2>1, <1>0, ParametersAssumption, FS_EmptySet
<1>2. TypeOK /\ RowsInv /\ AttemptsBound /\ [Next]_vars => AttemptsBound'
  <2> SUFFICES ASSUME TypeOK, RowsInv, AttemptsBound, [Next]_vars,
                      MaxAttempts > 0, ~StatementsFail
               PROVE  Cardinality(M') + Cardinality(Creating') <= Limit
    BY DEF AttemptsBound
  <2>0. /\ IsFiniteSet(M) /\ IsFiniteSet(Mine) /\ IsFiniteSet(Creating)
        /\ Cardinality(M) + Cardinality(Creating) <= Limit
    BY <1>a DEF AttemptsBound
  <2> DEFINE Goal == Cardinality(M') + Cardinality(Creating') <= Limit
  \* Steps that add no row, no copy to save and no request about to create.
  <2>s. ASSUME M' \subseteq M, Creating' \subseteq Creating PROVE Goal
    <3> HIDE DEF M
    <3>1. /\ Cardinality(M) \in Nat /\ Cardinality(Creating) \in Nat
          /\ Cardinality(M') \in Nat /\ Cardinality(Creating') \in Nat
          /\ Cardinality(M') + Cardinality(Creating')
               <= Cardinality(M) + Cardinality(Creating)
      BY <2>s, <2>0, SubsetsCountLess
    <3> QED
      BY <3>1, <2>0, <1>0, ParametersAssumption
  <2>h. ASSUME NEW r \in Requests,
               \A q \in Requests \ {r} : pc'[q] = pc[q] /\ sub'[q] = sub[q],
               pc'[r] # "submit_save"
        PROVE  Held' \subseteq Held /\ (pc'[r] # "take_create" => Creating' \subseteq Creating)
    BY <2>h DEF Held, Saving, Creating
  <2>f. ASSUME NEW r \in Requests, Finish(r)
        PROVE  Held' \subseteq Held /\ Creating' \subseteq Creating
    <3>1. /\ pc'[r] = "idle"
          /\ \A q \in Requests \ {r} : pc'[q] = pc[q] /\ sub'[q] = sub[q]
      BY <2>f DEF Finish, Goto, TypeOK
    <3> QED
      BY <3>1, <2>h
  <2>m. ASSUME rows' = rows, Held' \subseteq Held, Creating' \subseteq Creating PROVE Goal
    BY <2>m, <2>s DEF Mine
  <2>x. ASSUME NEW i, NEW t \in Nat, ExpireRow(i, t) PROVE Mine' \subseteq Mine
    <3>1. ASSUME NEW j \in Ids, rows'[j] # rows[j]
          PROVE  j = i /\ rows[j].status = "in_progress" /\ rows'[j].user = rows[j].user
      <4>1. j = i /\ rows[j].status = "in_progress" /\ rows'[j] = Closed(rows[j], t)
        BY <2>x, <3>1 DEF ExpireRow, TypeOK
      <4> QED
        BY <4>1, ClosedRow DEF TypeOK
    <3> QED
      BY <3>1 DEF Mine
  <2>1. ASSUME NEW r \in Requests, TakeCount(r) PROVE Goal
    <3>1. CASE Finish(r)
      BY <2>1, <3>1, <2>f, <2>m DEF TakeCount
    <3>2. CASE ~Finish(r)
      <4>1. /\ Cardinality(Mine) < MaxAttempts
            /\ pc' = [pc EXCEPT ![r] = "take_create"]
            /\ sub' = sub /\ rows' = rows
        BY <2>1, <3>2, <2>0, FS_CardinalityType, ParametersAssumption
           DEF TakeCount, OutOfAttempts, Goto
      <4>2. /\ Held' \subseteq {sub[q].id : q \in Saving}
            /\ Mine' = Mine
            /\ Creating' \in SUBSET Requests /\ Saving \in SUBSET Requests
            /\ Creating' \cap Saving = {}
        BY <2>1, <4>1 DEF Held, Saving, Creating, Mine, TypeOK, TakeCount
      <4>3. /\ IsFiniteSet(Creating') /\ IsFiniteSet(Saving)
            /\ Cardinality(Creating') \in Nat /\ Cardinality(Saving) \in Nat
            /\ Cardinality(Creating') + Cardinality(Saving) <= Cardinality(Requests)
        BY <4>2, CreatingOrSaving
      <4> DEFINE K == {sub[q].id : q \in Saving}
      <4>4. IsFiniteSet(K) /\ Cardinality(K) <= Cardinality(Saving)
        BY <4>3, FewerRowsThanRequests
      <4>5. M' \in SUBSET (Mine \cup K)
        BY <4>2
      <4> HIDE DEF K, M
      <4>6. /\ IsFiniteSet(Mine \cup K)
            /\ Cardinality(Mine \cup K)
                 = Cardinality(Mine) + Cardinality(K) - Cardinality(Mine \cap K)
            /\ IsFiniteSet(Mine \cap K)
        BY <4>4, <2>0, FS_Union, FS_Intersection
      <4>7. IsFiniteSet(M') /\ Cardinality(M') <= Cardinality(Mine \cup K)
        BY <4>5, <4>6, FS_Subset
      <4>8. /\ Cardinality(M') \in Nat /\ Cardinality(Mine) \in Nat
            /\ Cardinality(K) \in Nat /\ Cardinality(Mine \cap K) \in Nat
            /\ Cardinality(Mine \cup K) \in Nat
        BY <4>4, <4>6, <4>7, <2>0, FS_CardinalityType
      <4> QED
        BY <4>1, <4>3, <4>4, <4>6, <4>7, <4>8, <1>0, ParametersAssumption
    <3> QED
      BY <3>1, <3>2
  <2>2. ASSUME NEW r \in Requests, TakeCreate(r) PROVE Goal
    <3>1. Mine' \subseteq Mine \cup {nextId}
      BY <2>2 DEF TakeCreate, InsertRow, Mine, TypeOK
    <3>2. /\ Creating' = Creating \ {r} /\ r \in Creating
          /\ Held' \subseteq Held
      BY <2>2 DEF TakeCreate, Goto, Creating, Held, Saving, TypeOK
    <3>3. M' \in SUBSET (M \cup {nextId})
      BY <3>1, <3>2
    <3> HIDE DEF M
    <3>4. /\ IsFiniteSet(M \cup {nextId})
          /\ Cardinality(M \cup {nextId}) <= Cardinality(M) + 1
      <4>1. Cardinality(M) \in Nat
        BY <2>0, FS_CardinalityType
      <4> QED
        BY <4>1, <2>0, FS_AddElement
    <3>5. Cardinality(M') <= Cardinality(M \cup {nextId}) /\ IsFiniteSet(M')
      BY <3>3, <3>4, FS_Subset
    <3>6. Cardinality(Creating') = Cardinality(Creating) - 1
      BY <3>2, <2>0, FS_RemoveElement
    <3>7. /\ Cardinality(M) \in Nat /\ Cardinality(M') \in Nat
          /\ Cardinality(M \cup {nextId}) \in Nat /\ Cardinality(Creating) \in Nat
      BY <2>0, <3>4, <3>5, FS_CardinalityType
    <3> QED
      BY <3>4, <3>5, <3>6, <3>7, <2>0, <1>0, ParametersAssumption
  <2>3. ASSUME NEW r \in Requests, TakeExpire(r) \/ SubmitExpire(r) PROVE Goal
    BY <2>3, <2>x, <2>f, <2>s DEF TakeExpire, SubmitExpire, TypeOK
  <2>4. ASSUME NEW r \in Requests, SubmitFind(r) PROVE Goal
    <3>1. CASE Finish(r)
      BY <2>4, <3>1, <2>f, <2>m DEF SubmitFind
    <3>2. CASE ~Finish(r)
      <4>1. PICK i \in Open :
              /\ sub' = [sub EXCEPT ![r] = [id |-> i, start |-> rows[i].start]]
              /\ Goto(r, IF TooLate(rows[i].start, at[r])
                         THEN "submit_expire" ELSE "submit_save")
        BY <2>4, <3>2 DEF SubmitFind
      <4>2. sub'[r].id = i /\ \A q \in Requests \ {r} : pc'[q] = pc[q] /\ sub'[q] = sub[q]
        BY <4>1 DEF Goto, TypeOK
      <4>3. Held' \subseteq Held \cup {i} /\ i \in Mine
        BY <4>2 DEF Held, Saving, Open
      <4>4. Creating' \subseteq Creating
        BY <4>1 DEF Goto, Creating, TypeOK
      <4>5. Mine' = Mine
        BY <2>4 DEF SubmitFind, Mine
      <4> QED
        BY <4>3, <4>4, <4>5, <2>s
    <3> QED
      BY <3>1, <3>2
  <2>5. ASSUME NEW r \in Requests, SubmitSave(r) PROVE Goal
    <3>1. Mine' \subseteq Mine \cup {sub[r].id}
      BY <2>5 DEF SubmitSave, SubmitTx, Mine, TypeOK
    <3>2. sub[r].id \in Held
      BY <2>5 DEF SubmitSave, Held, Saving
    <3>3. Held' \subseteq Held /\ Creating' \subseteq Creating
      BY <2>5, <2>f DEF SubmitSave
    <3> QED
      BY <3>1, <3>2, <3>3, <2>s
  <2>6. ASSUME NEW r \in Requests, GuestSave(r) PROVE Goal
    <3>1. PICK c \in 0..Total : InsertRow(Graded("guest", at[r], at[r], c))
      BY <2>6 DEF GuestSave, SubmitTx, InsertRow
    <3>2. Graded("guest", at[r], at[r], c).user = "guest"
      BY GradedRow DEF TypeOK
    <3>3. Mine' \subseteq Mine
      BY <3>1, <3>2 DEF InsertRow, Mine, TypeOK
    <3>4. Held' \subseteq Held /\ Creating' \subseteq Creating
      BY <2>6, <2>f DEF GuestSave
    <3> QED
      BY <3>3, <3>4, <2>s
  <2>7. CASE DeleteCommit
    <3>1. M' \in SUBSET {sub[q].id : q \in Saving} /\ Creating' = Creating
      BY <2>7, EmptyValues DEF DeleteCommit, Mine, Held, Saving, Creating
    <3>2. Creating \in SUBSET Requests /\ Saving \in SUBSET Requests /\ Creating \cap Saving = {}
      BY DEF Creating, Saving
    <3>3. /\ IsFiniteSet(Creating) /\ IsFiniteSet(Saving)
          /\ Cardinality(Creating) \in Nat /\ Cardinality(Saving) \in Nat
          /\ Cardinality(Creating) + Cardinality(Saving) <= Cardinality(Requests)
      BY <3>2, CreatingOrSaving
    <3> DEFINE K == {sub[q].id : q \in Saving}
    <3>4. IsFiniteSet(K) /\ Cardinality(K) <= Cardinality(Saving)
      BY <3>3, FewerRowsThanRequests
    <3> HIDE DEF K, M
    <3>5. IsFiniteSet(M') /\ Cardinality(M') <= Cardinality(K)
      BY <3>1, <3>4, FS_Subset DEF K
    <3>6. Cardinality(M') \in Nat /\ Cardinality(K) \in Nat
      BY <3>4, <3>5, FS_CardinalityType
    <3> QED
      BY <3>1, <3>3, <3>4, <3>5, <3>6, <1>0, ParametersAssumption
  <2>8. CASE Crash
    <3>1. rows' = rows /\ Held' = {} /\ Creating' = {}
      BY <2>8 DEF Crash, Held, Saving, Creating
    <3> QED
      BY <3>1, <2>m
  <2>9. ASSUME NEW r \in Requests,
               TakeStart(r) \/ SubmitStart(r) \/ GuestStart(r) PROVE Goal
    <3>1. /\ \A q \in Requests \ {r} : pc'[q] = pc[q] /\ sub'[q] = sub[q]
          /\ pc'[r] # "submit_save" /\ pc'[r] # "take_create" /\ rows' = rows
      BY <2>9 DEF TakeStart, SubmitStart, GuestStart, Goto, TypeOK
    <3> QED
      BY <3>1, <2>h, <2>m
  <2>10. ASSUME NEW r \in Requests, TakeFind(r) PROVE Goal
    <3>1. /\ \A q \in Requests \ {r} : pc'[q] = pc[q] /\ sub'[q] = sub[q]
          /\ pc'[r] # "submit_save" /\ pc'[r] # "take_create" /\ rows' = rows
      BY <2>10 DEF TakeFind, Goto, TypeOK
    <3> QED
      BY <3>1, <2>h, <2>m
  <2>11. ASSUME NEW r \in Requests, TakeClock(r) PROVE Goal
    <3>1. CASE Finish(r)
      BY <2>11, <3>1, <2>f, <2>m DEF TakeClock
    <3>2. CASE ~Finish(r)
      <4>1. /\ \A q \in Requests \ {r} : pc'[q] = pc[q] /\ sub'[q] = sub[q]
            /\ pc'[r] # "submit_save" /\ pc'[r] # "take_create" /\ rows' = rows
        BY <2>11, <3>2 DEF TakeClock, Goto, TypeOK
      <4> QED
        BY <4>1, <2>h, <2>m
    <3> QED
      BY <3>1, <3>2
  <2>12. ASSUME NEW r \in Requests, TakeCreateFails(r) \/ SubmitRollback(r) PROVE Goal
    BY <2>12, <2>f, <2>m DEF TakeCreateFails, SubmitRollback
  <2>13. CASE DeleteBegin \/ AvailabilityChanges \/ Tick \/ UNCHANGED vars
    <3>1. rows' = rows /\ pc' = pc /\ sub' = sub
      BY <2>13 DEF DeleteBegin, AvailabilityChanges, Tick, vars
    <3> QED
      BY <3>1, <2>m DEF Held, Saving, Creating
  <2> QED
    BY <2>1, <2>2, <2>3, <2>4, <2>5, <2>6, <2>7, <2>8, <2>9, <2>10, <2>11, <2>12,
       <2>13 DEF Next, Take, Submit
<1> QED
  BY <1>1, <1>2, TypeCorrect, RowsInvariant, PTL DEF Spec

\* However many requests are in flight, the attempts opened or about to be
\* opened exceed MaxAttempts by fewer than the requests in flight together.
THEOREM AttemptsWithinRaceAlways == Spec => []AttemptsWithinRace
<1> DEFINE M == Mine \cup Held
           Limit == MaxAttempts + Cardinality(Requests) - 1
<1>1. TypeOK /\ AttemptsBound => AttemptsWithinRace
  <2> SUFFICES ASSUME TypeOK, AttemptsBound, MaxAttempts > 0, ~StatementsFail
               PROVE  Cardinality(Mine) + Cardinality(Creating) <= Limit
    BY DEF AttemptsWithinRace
  <2>1. IsFiniteSet(M) /\ IsFiniteSet(Creating) /\ Mine \in SUBSET M
        /\ Cardinality(M) + Cardinality(Creating) <= Limit
    BY FiniteRows DEF AttemptsBound
  <2> HIDE DEF M
  <2>2. /\ Cardinality(M) \in Nat /\ Cardinality(Creating) \in Nat
        /\ Cardinality(Mine) \in Nat
        /\ Cardinality(Mine) + Cardinality(Creating)
             <= Cardinality(M) + Cardinality(Creating)
    BY <2>1, SubsetsCountLess
  <2> QED
    BY <2>1, <2>2, SomeRequests, ParametersAssumption
<1> QED
  BY <1>1, TypeCorrect, AttemptsBoundInvariant, PTL

\* SubmitTx saves the score and the answers behind it together; nothing else
\* writes a score, and the details go only with every submission of the exam.
THEOREM ScoreHasItsDetailsAlways == Spec => []ScoreHasItsDetails
<1>1. Init => ScoreHasItsDetails
  BY EmptyValues DEF Init, ScoreHasItsDetails
<1>2. TypeOK /\ ScoreHasItsDetails /\ [Next]_vars => ScoreHasItsDetails'
  <2> SUFFICES ASSUME TypeOK, ScoreHasItsDetails, [Next]_vars
               PROVE  ScoreHasItsDetails'
    OBVIOUS
  <2> DEFINE Kept(i) == details'[i] = details[i] /\ rows'[i] = rows[i]
             Behind(i) == rows'[i].status = "graded" /\ rows'[i].correct > 0 =>
                            \E k \in 1..Len(details'[i]) : details'[i][k] = rows'[i].correct
  <2>a. ASSUME NEW i \in Ids, Kept(i) PROVE Behind(i)
    BY <2>a DEF ScoreHasItsDetails
  <2>b. ASSUME NEW i \in Ids, rows'[i].status # "graded" PROVE Behind(i)
    BY <2>b
  <2>c. (\A i \in Ids : Behind(i)) => ScoreHasItsDetails'
    BY DEF ScoreHasItsDetails
  <2>d. rows' = rows /\ details' = details => ScoreHasItsDetails'
    BY <2>a, <2>c
  <2>e. ASSUME NEW id \in 0..MaxRows, NEW u \in {"student", "guest"}, NEW s \in Nat,
               NEW t \in Nat, NEW c \in 0..Total, NEW blank \in BOOLEAN,
               SubmitTx(id, Graded(u, s, t, c), blank)
        PROVE  ScoreHasItsDetails'
    <3> DEFINE row == Graded(u, s, t, c)
    <3>1. row.correct = c
      BY SubmissionFields DEF Graded
    <3>2. rows' = [rows EXCEPT ![id] = row] /\ (blank => c = 0)
          /\ (~blank => details' = [details EXCEPT ![id] = Append(@, c)])
          /\ (blank => details' = details)
      BY <2>e, <3>1 DEF SubmitTx
    <3> HIDE DEF row
    <3>3. rows \in [Ids -> Row] /\ details \in [Ids -> Seq(0..Total)]
      BY DEF TypeOK
    <3>4. ASSUME NEW i \in Ids, i # id PROVE Behind(i)
      BY <2>a, <3>2, <3>3, <3>4
    <3>5. ASSUME id \in Ids, blank PROVE Behind(id)
      BY <3>1, <3>2, <3>3, <3>5
    <3>6. ASSUME id \in Ids, ~blank PROVE Behind(id)
      <4>1. details[id] \in Seq(0..Total)
        BY <3>3, <3>6
      <4>2. /\ Len(Append(details[id], c)) = Len(details[id]) + 1
            /\ Append(details[id], c)[Len(details[id]) + 1] = c
            /\ Len(details[id]) \in Nat
        BY <4>1
      <4>3. details'[id] = Append(details[id], c) /\ rows'[id].correct = c
        BY <3>1, <3>2, <3>3, <3>6
      <4> QED
        BY <4>2, <4>3
    <3> QED
      BY <3>4, <3>5, <3>6, <2>c
  <2>f. ASSUME NEW id \in 0..MaxRows, NEW t \in Nat, ExpireRow(id, t), details' = details
        PROVE  ScoreHasItsDetails'
    <3>1. CASE rows' = rows
      BY <2>d, <2>f, <3>1
    <3>2. CASE rows' = [rows EXCEPT ![id] = Closed(@, t)]
      <4>1. rows \in [Ids -> Row]
        BY DEF TypeOK
      <4>2. ASSUME NEW i \in Ids PROVE Behind(i)
        <5>1. CASE i # id
          BY <2>a, <2>f, <3>2, <4>1, <5>1
        <5>2. CASE i = id
          <6>1. rows'[i] = Closed(rows[i], t)
            BY <3>2, <4>1, <5>2
          <6> QED
            BY <2>b, <4>1, <6>1, ClosedRow
        <5> QED
          BY <5>1, <5>2
      <4> QED
        BY <2>c, <4>2
    <3> QED
      BY <2>f, <3>1, <3>2 DEF ExpireRow
  <2>1. ASSUME NEW r \in Requests, TakeCreate(r) PROVE ScoreHasItsDetails'
    <3>1. rows' = [rows EXCEPT ![nextId] = Opened(now)] /\ details' = details
          /\ rows \in [Ids -> Row]
      BY <2>1 DEF TakeCreate, InsertRow, TypeOK
    <3>2. Opened(now).status = "in_progress"
      BY OpenedRow DEF TypeOK
    <3>3. ASSUME NEW i \in Ids PROVE Behind(i)
      BY <2>a, <2>b, <3>1, <3>2
    <3> QED
      BY <2>c, <3>3
  <2>2. ASSUME NEW r \in Requests, TakeExpire(r) \/ SubmitExpire(r) PROVE ScoreHasItsDetails'
    <3>1. sub[r].id \in 0..MaxRows /\ now \in Nat /\ at[r] \in Nat
      BY CopyFields DEF TypeOK
    <3> QED
      BY <2>2, <2>f, <3>1 DEF TakeExpire, SubmitExpire
  <2>3. ASSUME NEW r \in Requests, SubmitSave(r) PROVE ScoreHasItsDetails'
    <3>1. sub[r].id \in 0..MaxRows /\ sub[r].start \in Nat /\ at[r] \in Nat
      BY CopyFields DEF TypeOK
    <3>2. PICK c \in 0..Total, blank \in BOOLEAN :
             SubmitTx(sub[r].id, Graded("student", sub[r].start, at[r], c), blank)
      BY <2>3 DEF SubmitSave
    <3> QED
      BY <2>e, <3>1, <3>2
  <2>4. ASSUME NEW r \in Requests, GuestSave(r) PROVE ScoreHasItsDetails'
    <3>1. nextId \in 0..MaxRows /\ at[r] \in Nat
      BY <2>4, ParametersAssumption DEF GuestSave, TypeOK
    <3>2. PICK c \in 0..Total, blank \in BOOLEAN :
             SubmitTx(nextId, Graded("guest", at[r], at[r], c), blank)
      BY <2>4 DEF GuestSave
    <3> QED
      BY <2>e, <3>1, <3>2
  <2>5. CASE DeleteCommit
    <3>1. ASSUME NEW i \in Ids PROVE Behind(i)
      BY <2>5, <2>b, EmptyValues DEF DeleteCommit
    <3> QED
      BY <2>c, <3>1
  <2>6. ASSUME NEW r \in Requests,
               \/ TakeStart(r) \/ TakeFind(r) \/ TakeCount(r) \/ TakeCreateFails(r)
               \/ TakeClock(r) \/ SubmitStart(r) \/ SubmitFind(r) \/ SubmitRollback(r)
               \/ GuestStart(r)
        PROVE  ScoreHasItsDetails'
    BY <2>6, <2>d DEF TakeStart, TakeFind, TakeCount, TakeCreateFails, TakeClock,
                      SubmitStart, SubmitFind, SubmitRollback, GuestStart
  <2>7. CASE DeleteBegin \/ AvailabilityChanges \/ Crash \/ Tick \/ UNCHANGED vars
    BY <2>7, <2>d DEF DeleteBegin, AvailabilityChanges, Crash, Tick, vars
  <2> QED
    BY <2>1, <2>2, <2>3, <2>4, <2>5, <2>6, <2>7 DEF Next, Take, Submit
<1> QED
  BY <1>1, <1>2, TypeCorrect, PTL DEF Spec

\* Requests that come one at a time grade an attempt once: what Submit found
\* open is without answers until it saves them.
THEOREM SubmittedOnceAlone ==
  ASSUME \A p, q \in Requests : p = q
  PROVE  Spec => []SubmittedOnce
<1>1. Init => BlankUntilGraded
  BY EmptyValues DEF Init, BlankUntilGraded, SubmittedOnce, Saving
<1>2. TypeOK /\ RowsInv /\ BlankUntilGraded /\ [Next]_vars => BlankUntilGraded'
  <2> SUFFICES ASSUME TypeOK, RowsInv, BlankUntilGraded, [Next]_vars
               PROVE  BlankUntilGraded'
    OBVIOUS
  <2> DEFINE Small(i) == /\ Len(details'[i]) <= 1
                         /\ rows'[i].status = "in_progress" \/ i >= nextId' => details'[i] = <<>>
             Same(i) == /\ details'[i] = details[i]
                        /\ rows'[i].status = "in_progress" => rows[i].status = "in_progress"
                        /\ i >= nextId' => i >= nextId
  <2>a. ASSUME NEW i \in Ids, Same(i) PROVE Small(i)
    BY <2>a DEF BlankUntilGraded, SubmittedOnce
  <2>b. ASSUME NEW r \in Requests, pc'[r] # "submit_save", \A i \in Ids : Small(i)
        PROVE  BlankUntilGraded'
    BY <2>b DEF BlankUntilGraded, SubmittedOnce, Saving
  <2>c. ASSUME NEW r \in Requests, Finish(r) PROVE pc'[r] # "submit_save"
    BY <2>c DEF Finish, Goto, TypeOK
  <2>d. ASSUME NEW r \in Requests, pc'[r] # "submit_save",
               rows' = rows, details' = details, nextId' = nextId
        PROVE  BlankUntilGraded'
    BY <2>a, <2>b, <2>d
  <2>e. ASSUME NEW id \in Ids, NEW u \in {"student", "guest"}, NEW s \in Nat, NEW t \in Nat,
               NEW c \in 0..Total, NEW blank \in BOOLEAN,
               SubmitTx(id, Graded(u, s, t, c), blank),
               details[id] = <<>>, nextId' \in Nat, id < nextId', nextId' >= nextId
        PROVE  \A i \in Ids : Small(i)
    <3> DEFINE row == Graded(u, s, t, c)
    <3>1. row.correct = c /\ row.status = "graded"
      BY SubmissionFields DEF Graded
    <3>2. /\ rows' = [rows EXCEPT ![id] = row]
          /\ \/ details' = details
             \/ details' = [details EXCEPT ![id] = Append(@, c)]
      BY <2>e, <3>1 DEF SubmitTx
    <3> HIDE DEF row
    <3>3. /\ rows \in [Ids -> Row] /\ details \in [Ids -> Seq(0..Total)]
          /\ nextId \in Nat /\ nextId' \in Nat /\ \A i \in Ids : i \in Int
      BY <2>e, ParametersAssumption DEF TypeOK, Ids
    <3>4. ASSUME NEW i \in Ids, i # id PROVE Small(i)
      <4>1. details'[i] = details[i] /\ rows'[i] = rows[i]
        BY <3>2, <3>3, <3>4
      <4>2. i >= nextId' => i >= nextId
        BY <2>e, <3>3
      <4> QED
        BY <2>a, <4>1, <4>2
    <3>5. rows'[id].status = "graded" /\ ~(id >= nextId')
      BY <2>e, <3>1, <3>2, <3>3
    <3>6. Len(details'[id]) <= 1
      <4>1. details[id] \in Seq(0..Total) /\ Len(details[id]) = 0
        BY <2>e, <3>3
      <4>2. Len(Append(details[id], c)) = 1
        BY <4>1
      <4>3. details'[id] = details[id] \/ details'[id] = Append(details[id], c)
        BY <3>2, <3>3
      <4> QED
        BY <4>1, <4>2, <4>3
    <3>7. Small(id)
      BY <3>5, <3>6
    <3> QED
      BY <3>4, <3>7
  <2>f. ASSUME NEW id \in 0..MaxRows, NEW t \in Nat, ExpireRow(id, t),
               details' = details, nextId' = nextId
        PROVE  \A i \in Ids : Small(i)
    <3>1. CASE rows' = rows
      BY <2>a, <2>f, <3>1
    <3>2. CASE rows' = [rows EXCEPT ![id] = Closed(@, t)]
      <4>1. rows \in [Ids -> Row]
        BY DEF TypeOK
      <4>2. ASSUME NEW i \in Ids, i # id PROVE Small(i)
        BY <2>a, <2>f, <3>2, <4>1, <4>2
      <4>3. ASSUME id \in Ids PROVE Small(id)
        <5>1. rows'[id] = Closed(rows[id], t)
          BY <3>2, <4>1, <4>3
        <5>2. rows'[id].status = "expired"
          BY <4>1, <4>3, <5>1, ClosedRow
        <5> QED
          BY <2>a, <2>f, <4>3, <5>2
      <4> QED
        BY <4>2, <4>3
    <3> QED
      BY <2>f, <3>1, <3>2 DEF ExpireRow
  <2>1. ASSUME NEW r \in Requests, TakeCreate(r) PROVE BlankUntilGraded'
    <3>1. /\ rows' = [rows EXCEPT ![nextId] = Opened(now)] /\ details' = details
          /\ nextId' = nextId + 1 /\ nextId \in Ids
          /\ rows \in [Ids -> Row] /\ nextId \in Nat
      BY <2>1, ParametersAssumption DEF TakeCreate, InsertRow, TypeOK, Ids
    <3>2. \A i \in Ids : i \in Int
      BY ParametersAssumption DEF Ids
    <3>3. ASSUME NEW i \in Ids PROVE Small(i)
      <4>1. CASE i = nextId
        <5>1. details[i] = <<>> /\ Len(<<>>) <= 1
          BY <3>1, <4>1 DEF BlankUntilGraded
        <5> QED
          BY <3>1, <5>1
      <4>2. CASE i # nextId
        <5>1. rows'[i] = rows[i] /\ (i >= nextId' => i >= nextId)
          BY <3>1, <3>2, <4>2
        <5> QED
          BY <2>a, <3>1, <5>1
      <4> QED
        BY <4>1, <4>2
    <3>4. pc'[r] # "submit_save"
      BY <2>1 DEF TakeCreate, Goto, TypeOK
    <3> QED
      BY <2>b, <3>3, <3>4
  <2>2. ASSUME NEW r \in Requests, TakeExpire(r) \/ SubmitExpire(r) PROVE BlankUntilGraded'
    <3>1. sub[r].id \in 0..MaxRows /\ now \in Nat /\ at[r] \in Nat
      BY CopyFields DEF TypeOK
    <3>2. \A i \in Ids : Small(i)
      BY <2>2, <2>f, <3>1 DEF TakeExpire, SubmitExpire
    <3> QED
      BY <2>2, <2>b, <2>c, <3>2 DEF TakeExpire, SubmitExpire
  <2>3. ASSUME NEW r \in Requests, SubmitSave(r) PROVE BlankUntilGraded'
    <3>1. pc[r] = "submit_save" /\ nextId' = nextId /\ nextId \in Nat /\ nextId <= MaxRows + 1
      BY <2>3, ParametersAssumption DEF SubmitSave, TypeOK
    <3>2. sub[r].id \in 1..(nextId - 1) /\ details[sub[r].id] = <<>>
      BY <3>1 DEF RowsInv, CopiesAgree, Holding, BlankUntilGraded, Saving
    <3>3. sub[r].id \in Ids /\ nextId' \in Nat /\ sub[r].id < nextId' /\ nextId' >= nextId
      BY <3>1, <3>2, ParametersAssumption DEF Ids
    <3>4. sub[r].start \in Nat /\ at[r] \in Nat
      BY CopyFields DEF TypeOK
    <3>5. PICK c \in 0..Total, blank \in BOOLEAN :
             SubmitTx(sub[r].id, Graded("student", sub[r].start, at[r], c), blank)
      BY <2>3 DEF SubmitSave
    <3>6. \A i \in Ids : Small(i)
      BY <2>e, <3>2, <3>3, <3>4, <3>5
    <3> QED
      BY <2>3, <2>b, <2>c, <3>6 DEF SubmitSave
  <2>4. ASSUME NEW r \in Requests, GuestSave(r) PROVE BlankUntilGraded'
    <3>1. /\ nextId \in Ids /\ nextId' = nextId + 1 /\ nextId \in Nat /\ at[r] \in Nat
      BY <2>4, ParametersAssumption DEF GuestSave, TypeOK, Ids
    <3>2. details[nextId] = <<>> /\ nextId' \in Nat /\ nextId < nextId' /\ nextId' >= nextId
      BY <3>1 DEF BlankUntilGraded
    <3>3. PICK c \in 0..Total, blank \in BOOLEAN :
             SubmitTx(nextId, Graded("guest", at[r], at[r], c), blank)
      BY <2>4 DEF GuestSave
    <3>4. \A i \in Ids : Small(i)
      BY <2>e, <3>1, <3>2, <3>3
    <3> QED
      BY <2>4, <2>b, <2>c, <3>4 DEF GuestSave
  <2>5. ASSUME NEW r \in Requests, SubmitFind(r) PROVE BlankUntilGraded'
    <3>1. rows' = rows /\ details' = details /\ nextId' = nextId
      BY <2>5 DEF SubmitFind
    <3>2. CASE Finish(r)
      BY <2>c, <2>d, <3>1, <3>2
    <3>3. CASE ~Finish(r)
      <4>1. PICK i \in Open : sub' = [sub EXCEPT ![r] = [id |-> i, start |-> rows[i].start]]
        BY <2>5, <3>3 DEF SubmitFind
      <4>2. i \in Ids /\ rows[i].status = "in_progress"
        BY <4>1 DEF Open, Mine
      <4>3. details[i] = <<>> /\ sub'[r].id = i
        BY <4>1, <4>2 DEF BlankUntilGraded, TypeOK
      <4>4. \A q \in Saving' : q = r
        BY DEF Saving
      <4>5. \A j \in Ids : Small(j)
        BY <2>a, <3>1
      <4> QED
        BY <3>1, <4>3, <4>4, <4>5 DEF BlankUntilGraded, SubmittedOnce
    <3> QED
      BY <3>2, <3>3
  <2>6. CASE DeleteCommit
    <3>1. /\ \A i \in Ids : details'[i] = <<>> \/ details'[i] = details[i]
          /\ \A i \in Ids : rows'[i].status = "absent"
          /\ nextId' = nextId /\ pc' = pc /\ sub' = sub
      BY <2>6, EmptyValues DEF DeleteCommit
    <3>2. \A i \in Ids : Small(i)
      BY <3>1 DEF BlankUntilGraded, SubmittedOnce
    <3>3. \A r \in Saving : sub[r].id \in Ids
      BY ParametersAssumption DEF RowsInv, CopiesAgree, Holding, Saving, Ids, TypeOK
    <3> QED
      BY <3>1, <3>2, <3>3 DEF BlankUntilGraded, SubmittedOnce, Saving
  <2>7. ASSUME NEW r \in Requests,
               TakeCount(r) \/ TakeCreateFails(r) \/ TakeClock(r) \/ SubmitRollback(r)
        PROVE  BlankUntilGraded'
    <3>1. rows' = rows /\ details' = details /\ nextId' = nextId
      BY <2>7 DEF TakeCount, TakeCreateFails, TakeClock, SubmitRollback
    <3>2. Finish(r) \/ Goto(r, "take_create") \/ Goto(r, "take_expire")
      BY <2>7 DEF TakeCount, TakeCreateFails, TakeClock, SubmitRollback
    <3>3. pc'[r] # "submit_save"
      BY <2>c, <3>2 DEF Goto, TypeOK
    <3> QED
      BY <2>d, <3>1, <3>3
  <2>8. ASSUME NEW r \in Requests,
               TakeStart(r) \/ TakeFind(r) \/ SubmitStart(r) \/ GuestStart(r)
        PROVE  BlankUntilGraded'
    <3>1. rows' = rows /\ details' = details /\ nextId' = nextId
      BY <2>8 DEF TakeStart, TakeFind, SubmitStart, GuestStart
    <3>2. pc'[r] # "submit_save"
      BY <2>8 DEF TakeStart, TakeFind, SubmitStart, GuestStart, Goto, TypeOK
    <3> QED
      BY <2>d, <3>1, <3>2
  <2>9. CASE DeleteBegin \/ AvailabilityChanges \/ Tick \/ UNCHANGED vars
    <3>1. rows' = rows /\ details' = details /\ nextId' = nextId /\ pc' = pc /\ sub' = sub
      BY <2>9 DEF DeleteBegin, AvailabilityChanges, Tick, vars
    <3> QED
      BY <3>1 DEF BlankUntilGraded, SubmittedOnce, Saving
  <2>10. CASE Crash
    BY <2>10 DEF Crash, BlankUntilGraded, SubmittedOnce, Saving
  <2> QED
    BY <2>1, <2>2, <2>3, <2>4, <2>5, <2>6, <2>7, <2>8, <2>9, <2>10
       DEF Next, Take, Submit
<1>3. BlankUntilGraded => SubmittedOnce
  BY DEF BlankUntilGraded
<1> QED
  BY <1>1, <1>2, <1>3, TypeCorrect, RowsInvariant, PTL DEF Spec

-----------------------------------------------------------------------------
(***************************************************************************)
(* ExamAttempts implements AttemptLedger, for every number of concurrent   *)
(* requests and every exam: seen through the standing of the student's     *)
(* attempts, each statement is a step of the ledger or changes nothing.    *)
(*                                                                         *)
(* Two steps need an invariant: opening an attempt, and bringing one back  *)
(* after the exam went, must find Room (AttemptsBound); and an attempt can *)
(* be missing only when the exam is (OnlyDeletionRemoves).                 *)
(***************************************************************************)


\* While the exam is there, no attempt that was opened is missing.
THEOREM OnlyDeletionRemovesAlways == Spec => []OnlyDeletionRemoves
<1>1. Init => OnlyDeletionRemoves
  BY DEF Init, OnlyDeletionRemoves
<1>2. TypeOK /\ TypeOK' /\ OnlyDeletionRemoves /\ [Next]_vars => OnlyDeletionRemoves'
  <2> SUFFICES ASSUME TypeOK, TypeOK', OnlyDeletionRemoves, [Next]_vars, examRow',
                      NEW i \in 1..(nextId' - 1)
               PROVE  rows'[i].status # "absent"
    BY DEF OnlyDeletionRemoves
  <2>0. i \in Ids /\ nextId \in 1..(MaxRows + 1)
    <3>1. nextId' \in 1..(MaxRows + 1) /\ nextId \in 1..(MaxRows + 1)
      BY DEF TypeOK
    <3>2. \A n \in 1..(MaxRows + 1) : \A k \in 1..(n - 1) : k \in Ids
      BY ParametersAssumption DEF Ids
    <3> QED
      BY <3>1, <3>2
  <2>a. ASSUME rows' = rows, nextId' = nextId, examRow' = examRow PROVE rows'[i].status # "absent"
    BY <2>a DEF OnlyDeletionRemoves
  <2>b. ASSUME NEW row \in Row, InsertRow(row), row.status # "absent", examRow' = examRow
        PROVE  rows'[i].status # "absent"
    <3>1. CASE i = nextId
      BY <2>b, <3>1, <2>0 DEF InsertRow, TypeOK
    <3>2. CASE i # nextId
      <4>1. i \in 1..(nextId - 1) /\ rows'[i] = rows[i]
        BY <2>b, <3>2, <2>0 DEF InsertRow, TypeOK
      <4> QED
        BY <2>b, <4>1 DEF OnlyDeletionRemoves
    <3> QED
      BY <3>1, <3>2
  <2>c. ASSUME NEW j, NEW t \in Nat, ExpireRow(j, t), nextId' = nextId, examRow' = examRow
        PROVE  rows'[i].status # "absent"
    <3>1. rows[i].status # "absent"
      BY <2>c DEF OnlyDeletionRemoves
    <3>2. CASE rows' = [rows EXCEPT ![j] = Closed(rows[j], t)] /\ i = j
      <4>1. rows'[i] = Closed(rows[i], t)
        BY <2>0, <3>2 DEF TypeOK
      <4> QED
        BY <4>1, <2>0, ClosedRow DEF TypeOK
    <3>3. CASE rows' = [rows EXCEPT ![j] = Closed(rows[j], t)] /\ i # j
      BY <2>0, <3>1, <3>3 DEF TypeOK
    <3> QED
      BY <2>c, <3>1, <3>2, <3>3 DEF ExpireRow
  <2>1. ASSUME NEW r \in Requests, Take(r) PROVE rows'[i].status # "absent"
    <3>1. CASE TakeCreate(r)
      <4>1. Opened(now) \in Row /\ Opened(now).status # "absent"
        BY OpenedRow DEF TypeOK
      <4> QED
        BY <3>1, <4>1, <2>b DEF TakeCreate
    <3>2. CASE TakeExpire(r)
      BY <3>2, <2>c DEF TakeExpire, TypeOK
    <3> QED
      BY <2>1, <3>1, <3>2, <2>a DEF Take, TakeStart, TakeFind, TakeCount,
         TakeCreateFails, TakeClock
  <2>2. ASSUME NEW r \in Requests, Submit(r) PROVE rows'[i].status # "absent"
    <3>1. CASE SubmitExpire(r)
      BY <3>1, <2>c DEF SubmitExpire, TypeOK
    <3>2. CASE GuestSave(r)
      <4>1. PICK c \in 0..Total : InsertRow(Graded("guest", at[r], at[r], c))
        BY <3>2 DEF GuestSave, SubmitTx, InsertRow
      <4>2. /\ Graded("guest", at[r], at[r], c) \in Row
            /\ Graded("guest", at[r], at[r], c).status # "absent"
        BY GradedRow DEF TypeOK
      <4> QED
        BY <3>2, <4>1, <4>2, <2>b DEF GuestSave
    <3>3. CASE SubmitSave(r)
      <4>1. PICK c \in 0..Total :
              rows' = [rows EXCEPT ![sub[r].id] = Graded("student", sub[r].start, at[r], c)]
        BY <3>3 DEF SubmitSave, SubmitTx
      <4>2. Graded("student", sub[r].start, at[r], c).status = "graded"
        BY CopyFields, GradedRow DEF TypeOK
      <4>3. rows[i].status # "absent"
        BY <3>3 DEF SubmitSave, OnlyDeletionRemoves
      <4> QED
        BY <4>1, <4>2, <4>3, <2>0 DEF TypeOK
    <3> QED
      BY <2>2, <3>1, <3>2, <3>3, <2>a DEF Submit, SubmitStart, SubmitFind,
         SubmitRollback, GuestStart
  <2>3. CASE DeleteCommit
    BY <2>3 DEF DeleteCommit
  <2> QED
    BY <2>1, <2>2, <2>3, <2>a DEF Next, DeleteBegin, AvailabilityChanges, Crash, Tick, vars
<1> QED
  BY <1>1, <1>2, TypeCorrect, PTL DEF Spec
-----------------------------------------------------------------------------
(* The refinement *)

Standing == [i \in Ids |-> IF rows[i].user = "guest" THEN "absent" ELSE rows[i].status]

\* The attempts that stand are the student's rows.
LEMMA StandingIsMine ==
  ASSUME TypeOK
  PROVE  /\ {i \in Ids : Standing[i] # "absent"} = Mine
         /\ \A i \in Ids : rows[i].status = "absent" => Standing[i] = "absent"
         /\ \A i \in Ids : rows[i].user = "student" => Standing[i] = rows[i].status
BY RowFields DEF Standing, Mine, TypeOK

\* One row changed, one standing changed.
LEMMA OneStanding ==
  ASSUME TypeOK, NEW j \in Ids, NEW row \in Row,
         rows' = [rows EXCEPT ![j] = row]
  PROVE  /\ row.user = "student" => Standing' = [Standing EXCEPT ![j] = row.status]
         /\ row.user = "guest" => Standing' = [Standing EXCEPT ![j] = "absent"]
BY RowFields DEF Standing, TypeOK

\* What ExamAttempts does to `submissions` is what the ledger allows, whatever
\* Takes and Submits overlap, fail or die, and while the exam is deleted.
THEOREM LedgerKept == Spec => KeepsLedger
<1>1. Init => Ledger!Init
  <2> SUFFICES ASSUME Init PROVE Ledger!Init
    OBVIOUS
  <2>1. \A i \in Ids : rows[i] = NoRow /\ NoRow.status = "absent"
    BY EmptyValues DEF Init
  <2> QED
    BY <2>1 DEF Init, Ledger!Init, Ledger!Ids, Ids
<1>2. TypeOK /\ TypeOK' /\ RowsInv /\ AttemptsBound /\ OnlyDeletionRemoves /\ [Next]_vars
        => [Ledger!Next]_(Ledger!ledger)
  <2> SUFFICES ASSUME TypeOK, TypeOK', RowsInv, AttemptsBound, OnlyDeletionRemoves, [Next]_vars
               PROVE  Ledger!Next \/ UNCHANGED Ledger!ledger
    OBVIOUS
  <2>s. ASSUME rows' = rows, nextId' = nextId, examRow' = examRow
        PROVE  UNCHANGED Ledger!ledger
    BY <2>s DEF Ledger!ledger
  <2>x. ASSUME NEW i \in 0..MaxRows, NEW t \in Nat, ExpireRow(i, t),
               i \in Ids /\ rows[i].status # "absent" => rows[i].user = "student",
               nextId' = nextId, examRow' = examRow
        PROVE  Ledger!Next \/ UNCHANGED Ledger!ledger
    <3>1. CASE rows' = rows
      BY <2>x, <2>s, <3>1
    <3>2. CASE rows' # rows
      <4>1. /\ i \in Ids /\ rows[i].status = "in_progress"
            /\ rows' = [rows EXCEPT ![i] = Closed(rows[i], t)]
        BY <2>x, <3>2 DEF ExpireRow, TypeOK
      <4>2. /\ Closed(rows[i], t) \in Row /\ Closed(rows[i], t).status = "expired"
            /\ Closed(rows[i], t).user = "student" /\ rows[i].user = "student"
        BY <2>x, <4>1, ClosedRow DEF TypeOK
      <4>3. Standing[i] = "in_progress" /\ Standing' = [Standing EXCEPT ![i] = "expired"]
        BY <4>1, <4>2, StandingIsMine, OneStanding
      <4>4. Ledger!Closes(i)
        BY <4>3, <2>x DEF Ledger!Closes, Standing
      <4> QED
        BY <4>1, <4>4 DEF Ledger!Next, Ledger!Ids, Ids
    <3> QED
      BY <3>1, <3>2
  <2>r. ASSUME (MaxAttempts > 0 /\ ~StatementsFail) =>
                 Cardinality(Mine) < MaxAttempts + Cardinality(Requests) - 1
        PROVE  Ledger!Room
    <3>1. {i \in Ids : Standing[i] # "absent"} = Mine
      BY StandingIsMine
    <3> QED
      BY <2>r, <3>1 DEF Ledger!Room, Ledger!Ids, Standing, Ids, Ledger!Cardinality, Cardinality
  <2>k. ASSUME NEW r \in Holding
        PROVE  /\ sub[r].id \in Ids /\ sub[r].id < nextId
               /\ rows[sub[r].id].status # "absent" => rows[sub[r].id].user = "student"
    <3>1. sub[r].id \in 1..(nextId - 1) /\ nextId \in 1..(MaxRows + 1)
      BY DEF RowsInv, CopiesAgree, TypeOK
    <3>2. rows[sub[r].id].status # "absent" => rows[sub[r].id].user = "student"
      BY DEF RowsInv, CopiesAgree
    <3> QED
      BY <3>1, <3>2, ParametersAssumption DEF Ids
  <2>1. ASSUME NEW r \in Requests, TakeCreate(r) PROVE Ledger!Next
    <3>1. /\ nextId \in Ids /\ nextId <= MaxRows /\ nextId' = nextId + 1
          /\ rows' = [rows EXCEPT ![nextId] = Opened(now)] /\ examRow' = examRow
      BY <2>1, ParametersAssumption DEF TakeCreate, InsertRow, TypeOK, Ids
    <3>2. /\ Opened(now) \in Row /\ Opened(now).user = "student"
          /\ Opened(now).status = "in_progress"
      BY OpenedRow DEF TypeOK
    <3>3. Standing' = [Standing EXCEPT ![nextId] = "in_progress"]
      BY <3>1, <3>2, OneStanding
    <3>4. Ledger!Room
      <4> SUFFICES ASSUME MaxAttempts > 0, ~StatementsFail
                   PROVE  Cardinality(Mine) < MaxAttempts + Cardinality(Requests) - 1
        BY <2>r
      <4> DEFINE M == Mine \cup Held
      <4>1. /\ IsFiniteSet(M) /\ IsFiniteSet(Creating) /\ Mine \in SUBSET M
            /\ Cardinality(M) + Cardinality(Creating) <= MaxAttempts + Cardinality(Requests) - 1
        BY FiniteRows DEF AttemptsBound
      <4>2. r \in Creating
        BY <2>1 DEF TakeCreate, Creating
      <4> HIDE DEF M
      <4>3. /\ Cardinality(M) \in Nat /\ Cardinality(Mine) \in Nat
            /\ Cardinality(Mine) <= Cardinality(M)
        BY <4>1, FS_Subset, FS_CardinalityType
      <4>4. Cardinality(Creating) \in Nat /\ Cardinality(Creating) # 0
        BY <4>1, <4>2, FS_CardinalityType, FS_EmptySet
      <4> QED
        BY <4>1, <4>3, <4>4, SomeRequests, ParametersAssumption
    <3>5. nextId - 1 < MaxRows /\ (nextId - 1) + 1 = nextId /\ nextId' - 1 = (nextId - 1) + 1
      BY <3>1, ParametersAssumption DEF TypeOK
    <3>6. Ledger!Opens
      BY <3>1, <3>3, <3>4, <3>5 DEF Ledger!Opens, Standing
    <3> QED
      BY <3>6 DEF Ledger!Next
  <2>2. ASSUME NEW r \in Requests, GuestSave(r) PROVE Ledger!Next
    <3>1. PICK c \in 0..Total : rows' = [rows EXCEPT ![nextId] = Graded("guest", at[r], at[r], c)]
      BY <2>2 DEF GuestSave, SubmitTx
    <3>2. nextId \in Ids /\ nextId <= MaxRows /\ nextId' = nextId + 1 /\ examRow' = examRow
      BY <2>2, ParametersAssumption DEF GuestSave, TypeOK, Ids
    <3>3. /\ Graded("guest", at[r], at[r], c) \in Row
          /\ Graded("guest", at[r], at[r], c).user = "guest"
      BY GradedRow DEF TypeOK
    <3>4. Standing' = [Standing EXCEPT ![nextId] = "absent"]
      BY <3>1, <3>2, <3>3, OneStanding
    <3>5. Standing[nextId] = "absent"
      <4>1. nextId >= nextId
        BY DEF TypeOK
      <4>2. rows[nextId] = NoRow
        BY <3>2, <4>1 DEF RowsInv, FreshIds
      <4> QED
        BY <3>2, <4>2, EmptyValues, StandingIsMine
    <3>6. Standing' = Standing
      BY <3>4, <3>5 DEF Standing
    <3>7. nextId - 1 < MaxRows /\ nextId' - 1 = (nextId - 1) + 1
      BY <3>2, ParametersAssumption DEF TypeOK
    <3>8. Ledger!Passes
      BY <3>2, <3>6, <3>7 DEF Ledger!Passes, Standing
    <3> QED
      BY <3>8 DEF Ledger!Next
  <2>3. ASSUME NEW r \in Requests, TakeExpire(r) \/ SubmitExpire(r)
        PROVE  Ledger!Next \/ UNCHANGED Ledger!ledger
    <3>1. /\ r \in Holding /\ nextId' = nextId /\ examRow' = examRow
          /\ now \in Nat /\ at[r] \in Nat
          /\ ExpireRow(sub[r].id, now) \/ ExpireRow(sub[r].id, at[r])
      BY <2>3 DEF TakeExpire, SubmitExpire, Holding, TypeOK
    <3>2. /\ sub[r].id \in Ids
          /\ rows[sub[r].id].status # "absent" => rows[sub[r].id].user = "student"
      BY <3>1, <2>k
    <3>3. sub[r].id \in 0..MaxRows
      BY <3>2, ParametersAssumption DEF Ids
    <3> QED
      BY <3>1, <3>2, <3>3, <2>x
  <2>4. ASSUME NEW r \in Requests, SubmitSave(r)
        PROVE  Ledger!Next \/ UNCHANGED Ledger!ledger
    <3>0. PICK i \in Ids : i = sub[r].id
      BY <2>4, <2>k DEF SubmitSave, Holding
    <3>1. /\ i \in Ids /\ i < nextId
          /\ rows[i].status # "absent" => rows[i].user = "student"
      BY <2>4, <2>k, <3>0 DEF SubmitSave, Holding
    <3>2. nextId' = nextId /\ examRow' = examRow
      BY <2>4 DEF SubmitSave
    <3>3. PICK c \in 0..Total : rows' = [rows EXCEPT ![i] = Graded("student", sub[r].start, at[r], c)]
      BY <2>4, <3>0 DEF SubmitSave, SubmitTx
    <3>4. /\ Graded("student", sub[r].start, at[r], c) \in Row
          /\ Graded("student", sub[r].start, at[r], c).user = "student"
          /\ Graded("student", sub[r].start, at[r], c).status = "graded"
      BY CopyFields, GradedRow DEF TypeOK
    <3>5. r \in Saving
      BY <2>4 DEF SubmitSave, Saving
    <3>6. Standing' = [Standing EXCEPT ![i] = "graded"]
      BY <3>1, <3>3, <3>4, OneStanding
    <3>7. CASE rows[i].status # "absent"
      <4>1. Standing[i] \in {"in_progress", "graded", "expired"}
        BY <3>1, <3>7, StandingIsMine, RowFields DEF TypeOK
      <4>2. CASE Standing[i] = "graded"
        <5>1. Standing' = Standing
          BY <3>6, <4>2 DEF Standing
        <5> QED
          BY <5>1, <3>2 DEF Ledger!ledger, Standing
      <4>3. CASE Standing[i] # "graded"
        <5>1. Ledger!Grades(i)
          BY <3>2, <3>6, <4>1, <4>3 DEF Ledger!Grades, Standing
        <5> QED
          BY <5>1, <3>1 DEF Ledger!Next, Ledger!Ids, Ids
      <4> QED
        BY <4>2, <4>3
    <3>8. CASE rows[i].status = "absent"
      <4>1. ~examRow
        <5>1. i \in 1..(nextId - 1)
          BY <3>1 DEF Ids, TypeOK
        <5> QED
          BY <5>1, <3>8 DEF OnlyDeletionRemoves
      <4>2. Ledger!Room
        <5> SUFFICES ASSUME MaxAttempts > 0, ~StatementsFail
                     PROVE  Cardinality(Mine) < MaxAttempts + Cardinality(Requests) - 1
          BY <2>r
        <5> DEFINE M == Mine \cup Held
        <5>1. i \in Held /\ i \notin Mine
          BY <3>0, <3>5, <3>8 DEF Held, Mine
        <5>2. /\ IsFiniteSet(M) /\ IsFiniteSet(Mine) /\ IsFiniteSet(Creating)
              /\ Cardinality(M) + Cardinality(Creating) <= MaxAttempts + Cardinality(Requests) - 1
          BY FiniteRows DEF AttemptsBound
        <5>3. Mine \cup {i} \in SUBSET M
          BY <5>1
        <5> HIDE DEF M
        <5>4. IsFiniteSet(Mine \cup {i}) /\ Cardinality(Mine \cup {i}) = Cardinality(Mine) + 1
          BY <5>1, <5>2, FS_AddElement
        <5>5. Cardinality(Mine \cup {i}) <= Cardinality(M)
          BY <5>2, <5>3, FS_Subset
        <5>6. /\ Cardinality(Mine) \in Nat /\ Cardinality(M) \in Nat
              /\ Cardinality(Creating) \in Nat
          BY <5>2, FS_CardinalityType
        <5> QED
          BY <5>2, <5>4, <5>5, <5>6, SomeRequests, ParametersAssumption
      <4>3. Standing[i] = "absent" /\ i <= nextId - 1
        BY <3>1, <3>8, StandingIsMine DEF Ids, TypeOK
      <4>4. Ledger!Returns(i)
        BY <3>2, <3>6, <4>1, <4>2, <4>3 DEF Ledger!Returns, Standing
      <4> QED
        BY <4>4, <3>1 DEF Ledger!Next, Ledger!Ids, Ids
    <3> QED
      BY <3>7, <3>8
  <2>5. CASE DeleteCommit
    <3>1. /\ examRow /\ examRow' = FALSE /\ nextId' = nextId
          /\ rows' = [j \in Ids |-> NoRow]
      BY <2>5 DEF DeleteCommit, RowsInv, DeletingHasExam
    <3>2. Standing' = [j \in Ids |-> "absent"]
      BY <3>1, EmptyValues DEF Standing
    <3>3. Ledger!Vanishes
      BY <3>1, <3>2 DEF Ledger!Vanishes, Ledger!Ids, Standing, Ids
    <3> QED
      BY <3>3 DEF Ledger!Next
  <2>6. ASSUME NEW r \in Requests,
               \/ TakeStart(r) \/ TakeFind(r) \/ TakeCount(r) \/ TakeCreateFails(r) \/ TakeClock(r)
               \/ SubmitStart(r) \/ SubmitFind(r) \/ SubmitRollback(r) \/ GuestStart(r)
        PROVE  UNCHANGED Ledger!ledger
    BY <2>6, <2>s DEF TakeStart, TakeFind, TakeCount, TakeCreateFails, TakeClock,
       SubmitStart, SubmitFind, SubmitRollback, GuestStart
  <2>7. CASE DeleteBegin \/ AvailabilityChanges \/ Crash \/ Tick \/ UNCHANGED vars
    BY <2>7, <2>s DEF DeleteBegin, AvailabilityChanges, Crash, Tick, vars
  <2> QED
    BY <2>1, <2>2, <2>3, <2>4, <2>5, <2>6, <2>7 DEF Next, Take, Submit
<1> QED
  BY <1>1, <1>2, TypeCorrect, RowsInvariant, AttemptsBoundInvariant,
     OnlyDeletionRemovesAlways, PTL DEF Spec, KeepsLedger, Ledger!Spec
=============================================================================
