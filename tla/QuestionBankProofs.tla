--------------------------- MODULE QuestionBankProofs ---------------------------
(***************************************************************************)
(* What holds of a question for any number of requests, sources and forms. *)
(*                                                                         *)
(* Two inductive invariants next to the types.  Earned holds through every *)
(* overlap, failure and crash: nothing looks approved or official, in the  *)
(* table or in what a request has read, before an approval.  Lonely holds  *)
(* while no requests overlap and none fails: it says what the only request *)
(* at work relies on at each of its statements.                            *)
(***************************************************************************)
EXTENDS QuestionBank, TLAPS

USE BoundsAssumption, FlagsAssumption

Official(q) == q.review = "approved" \/ q.status = "active"
Earned ==
    /\ Official(row) => approvals # {}
    /\ \A r \in Requests : Official(copy[r]) => approvals # {}

\* Where a request counts on the question not being used.
Unused == {"create_row", "import_row", "create_answers", "update_source", "update_save",
           "update_clear", "update_answers", "submit_save", "review_save", "put_back",
           "delete_answers", "delete_row", "exam_insert"}
\* Where what it has read is what the tables hold.
Fresh == {"update_used", "update_source", "update_save", "submit_source", "submit_save",
          "review_save"}
\* Where the answers may not be those of the row.
Between == {"create_answers", "update_clear", "update_answers", "delete_row"}

OneAtWork == \A q, r \in Requests : pc[q] # "idle" /\ pc[r] # "idle" => q = r
Blank == row = NoRow /\ answers = {} /\ ~used
OwnOutside == (\A r \in Requests : pc[r] \notin Between) /\ row.there => answers = {row.form}
HeldApproved == row.there /\ used => row.review = "approved"
Stands(r) ==
    /\ pc[r] \in Unused => ~used
    /\ pc[r] \in {"create_row", "import_row"} => Blank
    /\ pc[r] \in Fresh => row.there /\ copy[r] = row /\ read[r] = answers
    /\ pc[r] \in {"create_answers", "update_clear", "update_answers"} => row.form = form[r]
    /\ pc[r] \in {"create_answers", "update_answers"} => answers = {}
    /\ pc[r] = "put_back" => read[r] = answers
    /\ pc[r] \in {"exam_clear", "exam_insert"} /\ row.there => row.review = "approved"
Orderly ==
    /\ OneAtWork
    /\ forms = 0 => Blank /\ \A r \in Requests : pc[r] = "idle"
    /\ OwnOutside
    /\ HeldApproved
    /\ \A r \in Requests : Stands(r)
Lonely == calm => Orderly

-----------------------------------------------------------------------------
(* Rows of the table *)

\* What Question makes, and what its fields are.
LEMMA QuestionFields ==
    ASSUME NEW f \in Forms, NEW s \in Sources \cup {NoSource},
           NEW review \in Reviews, NEW status \in {"draft", "active"}
    PROVE  /\ Question(f, s, review, status) \in Row
           /\ Question(f, s, review, status).there
           /\ Question(f, s, review, status).form = f
           /\ Question(f, s, review, status).source = s
           /\ Question(f, s, review, status).review = review
           /\ Question(f, s, review, status).status = status
BY DEF Question, Row

\* The row before the question is created.
LEMMA NoRowFields ==
    /\ NoRow \in Row /\ ~NoRow.there /\ NoRow.form = 0
    /\ NoRow.review = "draft" /\ NoRow.status = "draft"
BY DEF NoRow, Row, Reviews, Forms

\* The row after the question is deleted.
LEMMA DeletedRow ==
    ASSUME NEW q \in Row
    PROVE  /\ [q EXCEPT !.there = FALSE] \in Row
           /\ ~[q EXCEPT !.there = FALSE].there
           /\ [q EXCEPT !.there = FALSE].review = q.review
           /\ [q EXCEPT !.there = FALSE].status = q.status
BY DEF Row

\* The fields of a row have their types.
LEMMA RowFields ==
    ASSUME NEW q \in Row
    PROVE  /\ q.form \in Forms /\ q.source \in Sources \cup {NoSource}
           /\ q.review \in Reviews /\ q.status \in {"draft", "active"}
BY DEF Row

-----------------------------------------------------------------------------
(* The steps *)

\* A request that ends leaves its slot as it was at the start.
LEMMA EndTypes ==
    ASSUME TypeOK, NEW r \in Requests, End(r)
    PROVE  /\ pc' \in [Requests -> PCs] /\ copy' \in [Requests -> Row]
           /\ read' \in [Requests -> SUBSET Forms] /\ form' \in [Requests -> Forms]
           /\ wanted' \in [Requests -> Sources \cup {NoSource}]
BY NoRowFields DEF TypeOK, End, Goto, PCs, Forms

\* Every step keeps the types.
LEMMA TypeStep ==
    ASSUME TypeOK, [Next]_vars
    PROVE  TypeOK'
<1> USE DEF Goto, Arrive, Find, Brings, Finish, Continue, SeemsUnused, InUse, store, memory,
           TypeOK, PCs, Forms, Reviews, KeptReview, Statuses
<1>1. ASSUME NEW r \in Requests, CreateStart(r) PROVE TypeOK'
    BY <1>1 DEF CreateStart
<1>2. ASSUME NEW r \in Requests, ImportStart(r) PROVE TypeOK'
    BY <1>2 DEF ImportStart
<1>3. ASSUME NEW r \in Requests, CreateRow(r) PROVE TypeOK'
    BY <1>3, QuestionFields, RowFields DEF CreateRow
<1>4. ASSUME NEW r \in Requests, CreateAnswers(r) PROVE TypeOK'
    <2>1. form[r] \in Forms
        OBVIOUS
    <2>2. answers' \in SUBSET Forms
        BY <1>4, <2>1 DEF CreateAnswers
    <2>3. QED
        BY <1>4, <2>2, EndTypes DEF CreateAnswers
<1>5. ASSUME NEW r \in Requests, UpdateFind(r) PROVE TypeOK'
    BY <1>5 DEF UpdateFind
<1>6. ASSUME NEW r \in Requests, UpdateUsed(r) PROVE TypeOK'
    <2>1. calm' \in BOOLEAN
        BY <1>6, Zenon DEF UpdateUsed
    <2>2. pc' \in [Requests -> PCs]
        BY <1>6 DEF UpdateUsed
    <2>3. QED
        BY <1>6, <2>1, <2>2 DEF UpdateUsed
<1>7. ASSUME NEW r \in Requests, UpdateSource(r) PROVE TypeOK'
    BY <1>7 DEF UpdateSource
<1>8. ASSUME NEW r \in Requests, UpdateSave(r) PROVE TypeOK'
    BY <1>8, QuestionFields, RowFields DEF UpdateSave
<1>9. ASSUME NEW r \in Requests, UpdateClear(r) PROVE TypeOK'
    BY <1>9 DEF UpdateClear
<1>10. ASSUME NEW r \in Requests, UpdateAnswers(r) PROVE TypeOK'
    <2>1. form[r] \in Forms
        OBVIOUS
    <2>2. answers' \in SUBSET Forms
        BY <1>10, <2>1 DEF UpdateAnswers
    <2>3. QED
        BY <1>10, <2>2, EndTypes DEF UpdateAnswers
<1>11. ASSUME NEW r \in Requests, SubmitFind(r) PROVE TypeOK'
    BY <1>11 DEF SubmitFind
<1>12. ASSUME NEW r \in Requests, SubmitSource(r) PROVE TypeOK'
    BY <1>12 DEF SubmitSource
<1>13. ASSUME NEW r \in Requests, SubmitSave(r) PROVE TypeOK'
    BY <1>13, QuestionFields, RowFields DEF SubmitSave
<1>14. ASSUME NEW r \in Requests, ReviewFind(r) PROVE TypeOK'
    BY <1>14 DEF ReviewFind
<1>15. ASSUME NEW r \in Requests, ReviewSave(r) PROVE TypeOK'
    <2>1. row' \in Row
        BY <1>15, QuestionFields, RowFields DEF ReviewSave
    <2>2. approvals' \in SUBSET Forms
        <3>1. copy[r].form \in Forms
            BY RowFields
        <3>2. QED
            BY <1>15, <3>1 DEF ReviewSave
    <2>3. pc' \in [Requests -> PCs]
        BY <1>15 DEF ReviewSave
    <2>4. QED
        BY <1>15, <2>1, <2>2, <2>3 DEF ReviewSave
<1>16. ASSUME NEW r \in Requests, PutBack(r) PROVE TypeOK'
    BY <1>16, EndTypes DEF PutBack
<1>17. ASSUME NEW r \in Requests, DeleteFind(r) PROVE TypeOK'
    BY <1>17 DEF DeleteFind
<1>18. ASSUME NEW r \in Requests, DeleteUsed(r) PROVE TypeOK'
    <2>1. calm' \in BOOLEAN
        BY <1>18, Zenon DEF DeleteUsed
    <2>2. pc' \in [Requests -> PCs]
        BY <1>18 DEF DeleteUsed
    <2>3. QED
        BY <1>18, <2>1, <2>2 DEF DeleteUsed
<1>19. ASSUME NEW r \in Requests, DeleteAnswers(r) PROVE TypeOK'
    BY <1>19 DEF DeleteAnswers
<1>20. ASSUME NEW r \in Requests, DeleteRow(r) PROVE TypeOK'
    BY <1>20, EndTypes, DeletedRow DEF DeleteRow
<1>21. ASSUME NEW r \in Requests, ExamCheck(r) PROVE TypeOK'
    <2>1. calm' \in BOOLEAN
        BY <1>21, Zenon DEF ExamCheck
    <2>2. pc' \in [Requests -> PCs]
        BY <1>21 DEF ExamCheck
    <2>3. QED
        BY <1>21, <2>1, <2>2 DEF ExamCheck
<1>22. ASSUME NEW r \in Requests, ExamClear(r) PROVE TypeOK'
    BY <1>22 DEF ExamClear
<1>23. ASSUME NEW r \in Requests, ExamInsert(r) PROVE TypeOK'
    BY <1>23, EndTypes DEF ExamInsert
<1>24. ASSUME NEW r \in Requests, Refuse(r) PROVE TypeOK'
    BY <1>24, EndTypes DEF Refuse
<1>25. ASSUME NEW r \in Requests, Fail(r) PROVE TypeOK'
    BY <1>25, EndTypes DEF Fail
<1>26. CASE ExamDrop
    BY <1>26 DEF ExamDrop
<1>27. CASE SourceReview
    BY <1>27 DEF SourceReview
<1>28. CASE Crash
    <2>1. calm' \in BOOLEAN
        BY <1>28, Zenon DEF Crash
    <2>2. /\ pc' \in [Requests -> PCs] /\ copy' \in [Requests -> Row]
          /\ read' \in [Requests -> SUBSET Forms] /\ form' \in [Requests -> Forms]
          /\ wanted' \in [Requests -> Sources \cup {NoSource}]
        BY <1>28, NoRowFields DEF Crash
    <2>3. QED
        BY <1>28, <2>1, <2>2 DEF Crash
<1>29. CASE UNCHANGED vars
    BY <1>29 DEF vars
<1>30. QED
    BY <1>1, <1>2, <1>3, <1>4, <1>5, <1>6, <1>7, <1>8, <1>9, <1>10, <1>11, <1>12,
       <1>13, <1>14, <1>15, <1>16, <1>17, <1>18, <1>19, <1>20, <1>21, <1>22,
       <1>23, <1>24, <1>25, <1>26, <1>27, <1>28, <1>29
    DEF Next, Create, Update, Review, Delete, Exam

\* No step makes a question look approved before an approval.
LEMMA EarnedStep ==
    ASSUME TypeOK, Earned, [Next]_vars
    PROVE  Earned'
<1> USE DEF End, Goto, Arrive, Find, Brings, Finish, Continue, SeemsUnused, InUse, store, memory,
           TypeOK, PCs, Forms, Reviews, KeptReview, Statuses, Earned, Official
<1>1. ASSUME NEW r \in Requests, CreateStart(r) PROVE Earned'
    BY <1>1 DEF CreateStart
<1>2. ASSUME NEW r \in Requests, ImportStart(r) PROVE Earned'
    BY <1>2 DEF ImportStart
<1>3. ASSUME NEW r \in Requests, CreateRow(r) PROVE Earned'
    BY <1>3, QuestionFields, RowFields DEF CreateRow
<1>4. ASSUME NEW r \in Requests, CreateAnswers(r) PROVE Earned'
    BY <1>4, NoRowFields DEF CreateAnswers
<1>5. ASSUME NEW r \in Requests, UpdateFind(r) PROVE Earned'
    BY <1>5 DEF UpdateFind
<1>6. ASSUME NEW r \in Requests, UpdateUsed(r) PROVE Earned'
    BY <1>6 DEF UpdateUsed
<1>7. ASSUME NEW r \in Requests, UpdateSource(r) PROVE Earned'
    BY <1>7 DEF UpdateSource
<1>8. ASSUME NEW r \in Requests, UpdateSave(r) PROVE Earned'
    BY <1>8, QuestionFields, RowFields DEF UpdateSave
<1>9. ASSUME NEW r \in Requests, UpdateClear(r) PROVE Earned'
    BY <1>9 DEF UpdateClear
<1>10. ASSUME NEW r \in Requests, UpdateAnswers(r) PROVE Earned'
    BY <1>10, NoRowFields DEF UpdateAnswers
<1>11. ASSUME NEW r \in Requests, SubmitFind(r) PROVE Earned'
    BY <1>11 DEF SubmitFind
<1>12. ASSUME NEW r \in Requests, SubmitSource(r) PROVE Earned'
    BY <1>12 DEF SubmitSource
<1>13. ASSUME NEW r \in Requests, SubmitSave(r) PROVE Earned'
    BY <1>13, QuestionFields, RowFields DEF SubmitSave
<1>14. ASSUME NEW r \in Requests, ReviewFind(r) PROVE Earned'
    BY <1>14 DEF ReviewFind
<1>15. ASSUME NEW r \in Requests, ReviewSave(r) PROVE Earned'
    <2>1. CASE approvals' = approvals \cup {copy[r].form}
        BY <1>15, <2>1 DEF ReviewSave
    <2>2. CASE UNCHANGED approvals /\ row' = Question(copy[r].form, copy[r].source, "rejected", "draft")
        <3>1. ~Official(row')
            BY <2>2, QuestionFields, RowFields
        <3>2. QED
            BY <1>15, <2>2, <3>1 DEF ReviewSave
    <2>3. QED
        BY <1>15, <2>1, <2>2 DEF ReviewSave
<1>16. ASSUME NEW r \in Requests, PutBack(r) PROVE Earned'
    BY <1>16, NoRowFields DEF PutBack
<1>17. ASSUME NEW r \in Requests, DeleteFind(r) PROVE Earned'
    BY <1>17 DEF DeleteFind
<1>18. ASSUME NEW r \in Requests, DeleteUsed(r) PROVE Earned'
    BY <1>18 DEF DeleteUsed
<1>19. ASSUME NEW r \in Requests, DeleteAnswers(r) PROVE Earned'
    BY <1>19 DEF DeleteAnswers
<1>20. ASSUME NEW r \in Requests, DeleteRow(r) PROVE Earned'
    BY <1>20, NoRowFields, DeletedRow DEF DeleteRow
<1>21. ASSUME NEW r \in Requests, ExamCheck(r) PROVE Earned'
    BY <1>21, NoRowFields DEF ExamCheck
<1>22. ASSUME NEW r \in Requests, ExamClear(r) PROVE Earned'
    BY <1>22 DEF ExamClear
<1>23. ASSUME NEW r \in Requests, ExamInsert(r) PROVE Earned'
    BY <1>23, NoRowFields DEF ExamInsert
<1>24. ASSUME NEW r \in Requests, Refuse(r) PROVE Earned'
    BY <1>24, NoRowFields DEF Refuse
<1>25. ASSUME NEW r \in Requests, Fail(r) PROVE Earned'
    BY <1>25, NoRowFields DEF Fail
<1>26. CASE ExamDrop
    BY <1>26 DEF ExamDrop
<1>27. CASE SourceReview
    BY <1>27 DEF SourceReview
<1>28. CASE Crash
    BY <1>28, NoRowFields DEF Crash
<1>29. CASE UNCHANGED vars
    BY <1>29 DEF vars
<1>30. QED
    BY <1>1, <1>2, <1>3, <1>4, <1>5, <1>6, <1>7, <1>8, <1>9, <1>10, <1>11, <1>12,
       <1>13, <1>14, <1>15, <1>16, <1>17, <1>18, <1>19, <1>20, <1>21, <1>22,
       <1>23, <1>24, <1>25, <1>26, <1>27, <1>28, <1>29
    DEF Next, Create, Update, Review, Delete, Exam

\* Alone and without a failure, a request leaves behind what the next one needs.
LEMMA LonelyStep ==
    ASSUME TypeOK, Lonely, [Next]_vars
    PROVE  Lonely'
<1> SUFFICES ASSUME calm' PROVE Orderly'
    BY DEF Lonely
<1> calm => Orderly
    BY DEF Lonely
<1> USE DEF Goto, Arrive, Find, Brings, Finish, End, Continue, SeemsUnused, InUse, store, memory,
           TypeOK, PCs, Forms, Reviews, KeptReview, Statuses, Orderly, OneAtWork, Blank, OwnOutside, HeldApproved, Stands,
           Unused, Fresh, Between
<1>1. ASSUME NEW r \in Requests, CreateStart(r) PROVE Orderly'
    BY <1>1 DEF CreateStart
<1>2. ASSUME NEW r \in Requests, ImportStart(r) PROVE Orderly'
    BY <1>2 DEF ImportStart
<1>3. ASSUME NEW r \in Requests, CreateRow(r) PROVE Orderly'
    BY <1>3, QuestionFields, RowFields DEF CreateRow
<1>4. ASSUME NEW r \in Requests, CreateAnswers(r) PROVE Orderly'
    BY <1>4, NoRowFields DEF CreateAnswers
<1>5. ASSUME NEW r \in Requests, UpdateFind(r) PROVE Orderly'
    <2>1. calm
        BY <1>5, Zenon DEF UpdateFind
    <2>2. \A q \in Requests : q # r => pc[q] = "idle" /\ pc'[q] = "idle"
        BY <1>5, <2>1 DEF UpdateFind
    <2>3. OneAtWork'
        BY <2>2
    <2>4. (forms = 0 => Blank /\ \A q \in Requests : pc[q] = "idle")'
        BY <1>5, <2>1 DEF UpdateFind
    <2>5. OwnOutside'
        BY <1>5, <2>1, <2>2 DEF UpdateFind
    <2>6. HeldApproved'
        BY <1>5, <2>1 DEF UpdateFind
    <2>7. ASSUME NEW q \in Requests PROVE Stands(q)'
        <3>1. CASE q # r
            BY <2>2, <3>1
        <3>2. CASE q = r
            BY <1>5, <2>1, <3>2 DEF UpdateFind
        <3>3. QED
            BY <3>1, <3>2
    <2>8. QED
        BY <2>3, <2>4, <2>5, <2>6, <2>7
<1>6. ASSUME NEW r \in Requests, UpdateUsed(r) PROVE Orderly'
    <2>1. calm
        BY <1>6, Zenon DEF UpdateUsed
    <2>2. \A q \in Requests : q # r => pc[q] = "idle" /\ pc'[q] = "idle"
        BY <1>6, <2>1 DEF UpdateUsed
    <2>3. OneAtWork'
        BY <2>2
    <2>4. (forms = 0 => Blank /\ \A q \in Requests : pc[q] = "idle")'
        BY <1>6, <2>1 DEF UpdateUsed
    <2>5. OwnOutside'
        BY <1>6, <2>1, <2>2 DEF UpdateUsed
    <2>6. HeldApproved'
        BY <1>6, <2>1 DEF UpdateUsed
    <2>7. ASSUME NEW q \in Requests PROVE Stands(q)'
        <3>1. CASE q # r
            BY <2>2, <3>1
        <3>2. CASE q = r
            BY <1>6, <2>1, <3>2 DEF UpdateUsed
        <3>3. QED
            BY <3>1, <3>2
    <2>8. QED
        BY <2>3, <2>4, <2>5, <2>6, <2>7
<1>7. ASSUME NEW r \in Requests, UpdateSource(r) PROVE Orderly'
    BY <1>7 DEF UpdateSource
<1>8. ASSUME NEW r \in Requests, UpdateSave(r) PROVE Orderly'
    <2>1. calm
        BY <1>8, Zenon DEF UpdateSave
    <2>2. \A q \in Requests : q # r => pc[q] = "idle" /\ pc'[q] = "idle"
        BY <1>8, <2>1 DEF UpdateSave
    <2>3. OneAtWork'
        BY <2>2
    <2>4. (forms = 0 => Blank /\ \A q \in Requests : pc[q] = "idle")'
        BY <1>8, <2>1, QuestionFields, RowFields DEF UpdateSave
    <2>5. OwnOutside'
        BY <1>8, <2>1, <2>2, QuestionFields, RowFields DEF UpdateSave
    <2>6. HeldApproved'
        BY <1>8, <2>1, QuestionFields, RowFields DEF UpdateSave
    <2>7. ASSUME NEW q \in Requests PROVE Stands(q)'
        <3>1. CASE q # r
            BY <2>2, <3>1
        <3>2. CASE q = r
            <4>1. PICK review \in {"pending", KeptReview(r)}, status \in Statuses(r) :
                     row' = Question(form[r], copy[r].source, review, status)
                BY <1>8 DEF UpdateSave, Statuses
            <4>2. row'.form = form[r]
                <5>1. form[r] \in Forms /\ copy[r].source \in Sources \cup {NoSource}
                    BY RowFields
                <5>2. KeptReview(r) \in {"draft", "approved"}
                    BY Zenon DEF KeptReview
                <5>3. review \in Reviews
                    BY <5>2
                <5>4. status \in {"draft", "active"}
                    BY DEF Statuses
                <5>5. QED
                    BY <4>1, <5>1, <5>3, <5>4, QuestionFields
            <4>3. QED
                BY <1>8, <2>1, <3>2, <4>2 DEF UpdateSave
        <3>3. QED
            BY <3>1, <3>2
    <2>8. QED
        BY <2>3, <2>4, <2>5, <2>6, <2>7
<1>9. ASSUME NEW r \in Requests, UpdateClear(r) PROVE Orderly'
    BY <1>9 DEF UpdateClear
<1>10. ASSUME NEW r \in Requests, UpdateAnswers(r) PROVE Orderly'
    BY <1>10, NoRowFields DEF UpdateAnswers
<1>11. ASSUME NEW r \in Requests, SubmitFind(r) PROVE Orderly'
    BY <1>11 DEF SubmitFind
<1>12. ASSUME NEW r \in Requests, SubmitSource(r) PROVE Orderly'
    <2>1. calm
        BY <1>12, Zenon DEF SubmitSource
    <2>2. \A q \in Requests : q # r => pc[q] = "idle" /\ pc'[q] = "idle"
        BY <1>12, <2>1 DEF SubmitSource
    <2>3. OneAtWork'
        BY <2>2
    <2>4. (forms = 0 => Blank /\ \A q \in Requests : pc[q] = "idle")'
        BY <1>12, <2>1 DEF SubmitSource
    <2>5. OwnOutside'
        BY <1>12, <2>1, <2>2 DEF SubmitSource
    <2>6. HeldApproved'
        BY <1>12, <2>1 DEF SubmitSource
    <2>7. ASSUME NEW q \in Requests PROVE Stands(q)'
        <3>1. CASE q # r
            BY <2>2, <3>1
        <3>2. CASE q = r
            BY <1>12, <2>1, <3>2 DEF SubmitSource
        <3>3. QED
            BY <3>1, <3>2
    <2>8. QED
        BY <2>3, <2>4, <2>5, <2>6, <2>7
<1>13. ASSUME NEW r \in Requests, SubmitSave(r) PROVE Orderly'
    <2>1. calm
        BY <1>13, Zenon DEF SubmitSave
    <2>2. \A q \in Requests : q # r => pc[q] = "idle" /\ pc'[q] = "idle"
        BY <1>13, <2>1 DEF SubmitSave
    <2>3. OneAtWork'
        BY <2>2
    <2>4. (forms = 0 => Blank /\ \A q \in Requests : pc[q] = "idle")'
        BY <1>13, <2>1, QuestionFields, RowFields DEF SubmitSave
    <2>5. OwnOutside'
        BY <1>13, <2>1, <2>2, QuestionFields, RowFields DEF SubmitSave
    <2>6. HeldApproved'
        BY <1>13, <2>1, QuestionFields, RowFields DEF SubmitSave
    <2>7. ASSUME NEW q \in Requests PROVE Stands(q)'
        <3>1. CASE q # r
            BY <2>2, <3>1
        <3>2. CASE q = r
            BY <1>13, <2>1, <3>2, QuestionFields, RowFields DEF SubmitSave
        <3>3. QED
            BY <3>1, <3>2
    <2>8. QED
        BY <2>3, <2>4, <2>5, <2>6, <2>7
<1>14. ASSUME NEW r \in Requests, ReviewFind(r) PROVE Orderly'
    <2>1. calm
        BY <1>14, Zenon DEF ReviewFind
    <2>2. \A q \in Requests : q # r => pc[q] = "idle" /\ pc'[q] = "idle"
        BY <1>14, <2>1 DEF ReviewFind
    <2>3. OneAtWork'
        BY <2>2
    <2>4. (forms = 0 => Blank /\ \A q \in Requests : pc[q] = "idle")'
        BY <1>14, <2>1 DEF ReviewFind
    <2>5. OwnOutside'
        BY <1>14, <2>1, <2>2 DEF ReviewFind
    <2>6. HeldApproved'
        BY <1>14, <2>1 DEF ReviewFind
    <2>7. ASSUME NEW q \in Requests PROVE Stands(q)'
        <3>1. CASE q # r
            BY <2>2, <3>1
        <3>2. CASE q = r
            BY <1>14, <2>1, <3>2 DEF ReviewFind
        <3>3. QED
            BY <3>1, <3>2
    <2>8. QED
        BY <2>3, <2>4, <2>5, <2>6, <2>7
<1>15. ASSUME NEW r \in Requests, ReviewSave(r) PROVE Orderly'
    <2>1. calm
        BY <1>15, Zenon DEF ReviewSave
    <2>2. \A q \in Requests : q # r => pc[q] = "idle" /\ pc'[q] = "idle"
        BY <1>15, <2>1 DEF ReviewSave
    <2>3. OneAtWork'
        BY <2>2
    <2>4. (forms = 0 => Blank /\ \A q \in Requests : pc[q] = "idle")'
        BY <1>15, <2>1, QuestionFields, RowFields DEF ReviewSave
    <2>5. OwnOutside'
        BY <1>15, <2>1, <2>2, QuestionFields, RowFields DEF ReviewSave
    <2>6. HeldApproved'
        BY <1>15, <2>1, QuestionFields, RowFields DEF ReviewSave
    <2>7. ASSUME NEW q \in Requests PROVE Stands(q)'
        <3>1. CASE q # r
            BY <2>2, <3>1
        <3>2. CASE q = r
            BY <1>15, <2>1, <3>2, QuestionFields, RowFields DEF ReviewSave
        <3>3. QED
            BY <3>1, <3>2
    <2>8. QED
        BY <2>3, <2>4, <2>5, <2>6, <2>7
<1>16. ASSUME NEW r \in Requests, PutBack(r) PROVE Orderly'
    BY <1>16, NoRowFields DEF PutBack
<1>17. ASSUME NEW r \in Requests, DeleteFind(r) PROVE Orderly'
    BY <1>17 DEF DeleteFind
<1>18. ASSUME NEW r \in Requests, DeleteUsed(r) PROVE Orderly'
    <2>1. calm
        BY <1>18, Zenon DEF DeleteUsed
    <2>2. \A q \in Requests : q # r => pc[q] = "idle" /\ pc'[q] = "idle"
        BY <1>18, <2>1 DEF DeleteUsed
    <2>3. OneAtWork'
        BY <2>2
    <2>4. (forms = 0 => Blank /\ \A q \in Requests : pc[q] = "idle")'
        BY <1>18, <2>1 DEF DeleteUsed
    <2>5. OwnOutside'
        BY <1>18, <2>1, <2>2 DEF DeleteUsed
    <2>6. HeldApproved'
        BY <1>18, <2>1 DEF DeleteUsed
    <2>7. ASSUME NEW q \in Requests PROVE Stands(q)'
        <3>1. CASE q # r
            BY <2>2, <3>1
        <3>2. CASE q = r
            BY <1>18, <2>1, <3>2 DEF DeleteUsed
        <3>3. QED
            BY <3>1, <3>2
    <2>8. QED
        BY <2>3, <2>4, <2>5, <2>6, <2>7
<1>19. ASSUME NEW r \in Requests, DeleteAnswers(r) PROVE Orderly'
    <2>1. calm
        BY <1>19, Zenon DEF DeleteAnswers
    <2>2. \A q \in Requests : q # r => pc[q] = "idle" /\ pc'[q] = "idle"
        BY <1>19, <2>1 DEF DeleteAnswers
    <2>3. OneAtWork'
        BY <2>2
    <2>4. (forms = 0 => Blank /\ \A q \in Requests : pc[q] = "idle")'
        BY <1>19, <2>1 DEF DeleteAnswers
    <2>5. OwnOutside'
        BY <1>19, <2>1, <2>2 DEF DeleteAnswers
    <2>6. HeldApproved'
        BY <1>19, <2>1 DEF DeleteAnswers
    <2>7. ASSUME NEW q \in Requests PROVE Stands(q)'
        <3>1. CASE q # r
            BY <2>2, <3>1
        <3>2. CASE q = r
            BY <1>19, <2>1, <3>2 DEF DeleteAnswers
        <3>3. QED
            BY <3>1, <3>2
    <2>8. QED
        BY <2>3, <2>4, <2>5, <2>6, <2>7
<1>20. ASSUME NEW r \in Requests, DeleteRow(r) PROVE Orderly'
    BY <1>20, NoRowFields, DeletedRow DEF DeleteRow
<1>21. ASSUME NEW r \in Requests, ExamCheck(r) PROVE Orderly'
    <2>1. calm
        BY <1>21, Zenon DEF ExamCheck
    <2>2. \A q \in Requests : q # r => pc[q] = "idle" /\ pc'[q] = "idle"
        BY <1>21, <2>1 DEF ExamCheck
    <2>3. OneAtWork'
        BY <2>2
    <2>4. (forms = 0 => Blank /\ \A q \in Requests : pc[q] = "idle")'
        BY <1>21, <2>1, NoRowFields DEF ExamCheck
    <2>5. OwnOutside'
        BY <1>21, <2>1, <2>2, NoRowFields DEF ExamCheck
    <2>6. HeldApproved'
        BY <1>21, <2>1, NoRowFields DEF ExamCheck
    <2>7. ASSUME NEW q \in Requests PROVE Stands(q)'
        <3>1. CASE q # r
            BY <2>2, <3>1
        <3>2. CASE q = r
            BY <1>21, <2>1, <3>2, NoRowFields DEF ExamCheck, Acceptable
        <3>3. QED
            BY <3>1, <3>2
    <2>8. QED
        BY <2>3, <2>4, <2>5, <2>6, <2>7
<1>22. ASSUME NEW r \in Requests, ExamClear(r) PROVE Orderly'
    BY <1>22 DEF ExamClear
<1>23. ASSUME NEW r \in Requests, ExamInsert(r) PROVE Orderly'
    BY <1>23, NoRowFields DEF ExamInsert
<1>24. ASSUME NEW r \in Requests, Refuse(r) PROVE Orderly'
    BY <1>24, NoRowFields DEF Refuse
<1>25. ASSUME NEW r \in Requests, Fail(r) PROVE Orderly'
    BY <1>25, NoRowFields DEF Fail
<1>26. CASE ExamDrop
    BY <1>26 DEF ExamDrop
<1>27. CASE SourceReview
    BY <1>27 DEF SourceReview
<1>28. CASE Crash
    BY <1>28, NoRowFields DEF Crash
<1>29. CASE UNCHANGED vars
    BY <1>29 DEF vars
<1>30. QED
    BY <1>1, <1>2, <1>3, <1>4, <1>5, <1>6, <1>7, <1>8, <1>9, <1>10, <1>11, <1>12,
       <1>13, <1>14, <1>15, <1>16, <1>17, <1>18, <1>19, <1>20, <1>21, <1>22,
       <1>23, <1>24, <1>25, <1>26, <1>27, <1>28, <1>29
    DEF Next, Create, Update, Review, Delete, Exam

\* No statement written by a request that is alone finds the question used.
LEMMA FrozenStep ==
    ASSUME Lonely, calm', used, used', [Next]_vars
    PROVE  row' = row /\ answers' = answers
<1> USE DEF Arrive, Find, Brings, Finish, End, Continue, SeemsUnused, store, Lonely, Orderly, Stands, Unused
<1>1. ASSUME NEW r \in Requests, CreateStart(r) PROVE row' = row /\ answers' = answers
    BY <1>1 DEF CreateStart
<1>2. ASSUME NEW r \in Requests, ImportStart(r) PROVE row' = row /\ answers' = answers
    BY <1>2 DEF ImportStart
<1>3. ASSUME NEW r \in Requests, CreateRow(r) PROVE row' = row /\ answers' = answers
    BY <1>3 DEF CreateRow
<1>4. ASSUME NEW r \in Requests, CreateAnswers(r) PROVE row' = row /\ answers' = answers
    BY <1>4 DEF CreateAnswers
<1>5. ASSUME NEW r \in Requests, UpdateFind(r) PROVE row' = row /\ answers' = answers
    BY <1>5 DEF UpdateFind
<1>6. ASSUME NEW r \in Requests, UpdateUsed(r) PROVE row' = row /\ answers' = answers
    BY <1>6 DEF UpdateUsed
<1>7. ASSUME NEW r \in Requests, UpdateSource(r) PROVE row' = row /\ answers' = answers
    BY <1>7 DEF UpdateSource
<1>8. ASSUME NEW r \in Requests, UpdateSave(r) PROVE row' = row /\ answers' = answers
    BY <1>8 DEF UpdateSave
<1>9. ASSUME NEW r \in Requests, UpdateClear(r) PROVE row' = row /\ answers' = answers
    BY <1>9 DEF UpdateClear
<1>10. ASSUME NEW r \in Requests, UpdateAnswers(r) PROVE row' = row /\ answers' = answers
    BY <1>10 DEF UpdateAnswers
<1>11. ASSUME NEW r \in Requests, SubmitFind(r) PROVE row' = row /\ answers' = answers
    BY <1>11 DEF SubmitFind
<1>12. ASSUME NEW r \in Requests, SubmitSource(r) PROVE row' = row /\ answers' = answers
    BY <1>12 DEF SubmitSource
<1>13. ASSUME NEW r \in Requests, SubmitSave(r) PROVE row' = row /\ answers' = answers
    BY <1>13 DEF SubmitSave
<1>14. ASSUME NEW r \in Requests, ReviewFind(r) PROVE row' = row /\ answers' = answers
    BY <1>14 DEF ReviewFind
<1>15. ASSUME NEW r \in Requests, ReviewSave(r) PROVE row' = row /\ answers' = answers
    BY <1>15 DEF ReviewSave
<1>16. ASSUME NEW r \in Requests, PutBack(r) PROVE row' = row /\ answers' = answers
    BY <1>16 DEF PutBack
<1>17. ASSUME NEW r \in Requests, DeleteFind(r) PROVE row' = row /\ answers' = answers
    BY <1>17 DEF DeleteFind
<1>18. ASSUME NEW r \in Requests, DeleteUsed(r) PROVE row' = row /\ answers' = answers
    BY <1>18 DEF DeleteUsed
<1>19. ASSUME NEW r \in Requests, DeleteAnswers(r) PROVE row' = row /\ answers' = answers
    BY <1>19 DEF DeleteAnswers
<1>20. ASSUME NEW r \in Requests, DeleteRow(r) PROVE row' = row /\ answers' = answers
    BY <1>20 DEF DeleteRow
<1>21. ASSUME NEW r \in Requests, ExamCheck(r) PROVE row' = row /\ answers' = answers
    BY <1>21 DEF ExamCheck
<1>22. ASSUME NEW r \in Requests, ExamClear(r) PROVE row' = row /\ answers' = answers
    BY <1>22 DEF ExamClear
<1>23. ASSUME NEW r \in Requests, ExamInsert(r) PROVE row' = row /\ answers' = answers
    BY <1>23 DEF ExamInsert
<1>24. ASSUME NEW r \in Requests, Refuse(r) PROVE row' = row /\ answers' = answers
    BY <1>24 DEF Refuse
<1>25. ASSUME NEW r \in Requests, Fail(r) PROVE row' = row /\ answers' = answers
    BY <1>25 DEF Fail
<1>26. CASE ExamDrop
    BY <1>26 DEF ExamDrop
<1>27. CASE SourceReview
    BY <1>27 DEF SourceReview
<1>28. CASE Crash
    BY <1>28 DEF Crash
<1>29. CASE UNCHANGED vars
    BY <1>29 DEF vars
<1>30. QED
    BY <1>1, <1>2, <1>3, <1>4, <1>5, <1>6, <1>7, <1>8, <1>9, <1>10, <1>11, <1>12,
       <1>13, <1>14, <1>15, <1>16, <1>17, <1>18, <1>19, <1>20, <1>21, <1>22,
       <1>23, <1>24, <1>25, <1>26, <1>27, <1>28, <1>29
    DEF Next, Create, Update, Review, Delete, Exam

-----------------------------------------------------------------------------
(* The theorems *)

IInv == TypeOK /\ Earned /\ Lonely

\* The invariant holds at the start and through every step.
THEOREM Invariance == Spec => []IInv
<1>1. Init => IInv
    <2> SUFFICES ASSUME Init PROVE IInv
        OBVIOUS
    <2>1. TypeOK
        <3>1. calm \in BOOLEAN /\ used \in BOOLEAN /\ verified \in [Sources -> BOOLEAN]
            BY Zenon DEF Init
        <3>2. answers \in SUBSET Forms /\ approvals \in SUBSET Forms /\ forms \in Forms
            BY DEF Init, Forms
        <3>3. QED
            BY <3>1, <3>2, NoRowFields DEF Init, TypeOK, PCs, Forms
    <2>2. Earned
        BY NoRowFields DEF Init, Earned, Official
    <2>3. Orderly
        BY NoRowFields
        DEF Init, Orderly, OneAtWork, Blank, OwnOutside, HeldApproved, Stands, Unused, Fresh
    <2>4. QED
        BY <2>1, <2>2, <2>3 DEF IInv, Lonely
<1>2. IInv /\ [Next]_vars => IInv'
    BY TypeStep, EarnedStep, LonelyStep DEF IInv
<1>3. QED
    BY <1>1, <1>2, PTL DEF Spec

\* The row, the answers and what every request has read keep their types.
THEOREM TypeCorrect == Spec => []TypeOK
BY Invariance, PTL DEF IInv

\* Whatever requests overlap, fail or die, a question becomes approved or
\* active only after an administrator approved a form of it.
THEOREM ApprovedOnceAlways == Spec => []ApprovedOnce
<1>1. IInv => ApprovedOnce
    BY DEF IInv, Earned, Official, ApprovedOnce
<1>2. QED
    BY <1>1, Invariance, PTL

\* As long as no requests overlap and none fails, a question between requests
\* has the answers of its own form.
THEOREM OwnAnswersAlways == Spec => []OwnAnswers
<1>1. IInv => OwnAnswers
    BY DEF IInv, Lonely, Orderly, OwnOutside, Between, OwnAnswers, Quiet
<1>2. QED
    BY <1>1, Invariance, PTL

\* In the same conditions an exam holds approved questions only.
THEOREM UsedIsApprovedAlways == Spec => []UsedIsApproved
<1>1. IInv => UsedIsApproved
    BY DEF IInv, Lonely, Orderly, HeldApproved, UsedIsApproved
<1>2. QED
    BY <1>1, Invariance, PTL

\* In the same conditions the text and the answers of a question stay as they
\* are while an exam holds it.
THEOREM UsedIsFrozenAlways == Spec => UsedIsFrozen
<1>1. IInv /\ [Next]_vars => [calm' /\ used /\ used' => row' = row /\ answers' = answers]_vars
    BY FrozenStep DEF IInv
<1>2. QED
    BY <1>1, Invariance, PTL DEF Spec, UsedIsFrozen
=============================================================================
