---------------------------- MODULE ExamPaperProofs ----------------------------
(***************************************************************************)
(* Proofs about ExamPaper, for every set of editors, students, questions   *)
(* (fewer than a thousand) and lists.                                      *)
(***************************************************************************)
EXTENDS ExamPaper, FiniteSetTheorems, TLAPS

-----------------------------------------------------------------------------
(* Rounding *)

\* What the nearest integers are.
LEMMA NearestFacts ==
  ASSUME NEW n \in Nat, NEW d \in Nat, d > 0, NEW k \in Nearest(n, d)
  PROVE  /\ k \in Int
         /\ 2 * (k * d) - d <= 2 * n
         /\ 2 * n <= 2 * (k * d) + d
BY DEF Nearest

\* The nearest integers to something of the scale are on the scale.
LEMMA NearestBounds ==
  ASSUME NEW n \in Nat, NEW d \in Nat, d > 0, NEW k \in Nearest(n, d),
         NEW b \in Nat, n <= b * d
  PROVE  k \in 0..b
<1>1. k \in Int /\ 2 * (k * d) - d <= 2 * n /\ 2 * n <= 2 * (k * d) + d
  BY NearestFacts
<1>2. k >= 0
  <2> SUFFICES ASSUME k <= -1 PROVE FALSE
    BY <1>1
  <2>1. k * d <= (-1) * d
    BY <1>1
  <2> QED
    BY <1>1, <2>1
<1>3. k <= b
  <2> SUFFICES ASSUME k >= b + 1 PROVE FALSE
    BY <1>1
  <2>1. k * d >= (b + 1) * d
    BY <1>1
  <2>2. (b + 1) * d = b * d + d /\ b * d \in Nat /\ k * d \in Int
    BY <1>1
  <2> QED
    BY <1>1, <2>1, <2>2
<1> QED
  BY <1>1, <1>2, <1>3

\* A number of right answers survives the way through the score: the score is
\* rounded to hundredths of a point and the number rounded back, and on fewer
\* than a thousand questions the two errors together are less than one half
\* of an answer on each side.
LEMMA RoundTrip ==
  ASSUME NEW c \in Nat, NEW t \in Nat, 0 < t, t < 1000, c <= t,
         NEW h \in Scores(c, t), NEW k \in Counts(h, t)
  PROVE  h \in 0..1000 /\ k = c
<1>1. h \in 0..1000
  <2> DEFINE n == 1000 * c
             b == 1000
  <2>1. n \in Nat /\ b \in Nat /\ n <= b * t
    OBVIOUS
  <2>2. h \in Nearest(n, t)
    BY DEF Scores
  <2> HIDE DEF n, b
  <2>3. h \in 0..b
    BY <2>1, <2>2, NearestBounds
  <2> QED
    BY <2>3 DEF b
<1>2. h * t \in Nat
  BY <1>1
<1>3. 2 * (h * t) - t <= 2 * (1000 * c) /\ 2 * (1000 * c) <= 2 * (h * t) + t
  BY NearestFacts DEF Scores
<1>4. k \in Int /\ 2 * (k * 1000) - 1000 <= 2 * (h * t) /\ 2 * (h * t) <= 2 * (k * 1000) + 1000
  BY <1>2, NearestFacts DEF Counts
<1> QED
  BY <1>1, <1>2, <1>3, <1>4

-----------------------------------------------------------------------------
(* Sets of questions and marks *)

\* A set of questions is finite and has fewer than a thousand members, and its
\* subsets have no more.
LEMMA Sizes ==
  ASSUME NEW Q \in SUBSET Questions
  PROVE  /\ IsFiniteSet(Q) /\ Cardinality(Q) \in Nat /\ Cardinality(Q) < 1000
         /\ Q # {} => 0 < Cardinality(Q)
         /\ \A P \in SUBSET Q : Cardinality(P) \in Nat /\ Cardinality(P) <= Cardinality(Q)
<1>1. IsFiniteSet(Q) /\ Cardinality(Q) <= Cardinality(Questions)
  BY FS_Subset, SetsAssumption
<1>2. Cardinality(Q) \in Nat /\ Cardinality(Questions) \in Nat
  BY <1>1, FS_CardinalityType, SetsAssumption
<1>3. Q # {} => 0 < Cardinality(Q)
  BY <1>1, <1>2, FS_EmptySet
<1>4. ASSUME NEW P \in SUBSET Q
      PROVE  Cardinality(P) \in Nat /\ Cardinality(P) <= Cardinality(Q)
  BY <1>1, FS_Subset, FS_CardinalityType
<1> QED
  BY <1>1, <1>2, <1>3, <1>4, SizeAssumption

\* Marks are the functions from questions to Booleans.
LEMMA MarksFacts ==
  /\ Unmarked \in Marks /\ DOMAIN Unmarked = {}
  /\ \A m \in Marks : DOMAIN m \in SUBSET Questions /\ m \in [DOMAIN m -> BOOLEAN]
  /\ \A m : DOMAIN m \in SUBSET Questions /\ m \in [DOMAIN m -> BOOLEAN] => m \in Marks
<1>1. DOMAIN Unmarked = {} /\ Unmarked \in [{} -> BOOLEAN]
  BY DEF Unmarked
<1>2. Unmarked \in Marks
  BY <1>1 DEF Marks
<1>3. \A m \in Marks : DOMAIN m \in SUBSET Questions /\ m \in [DOMAIN m -> BOOLEAN]
  BY DEF Marks
<1>4. \A m : DOMAIN m \in SUBSET Questions /\ m \in [DOMAIN m -> BOOLEAN] => m \in Marks
  BY DEF Marks
<1> QED
  BY <1>1, <1>2, <1>3, <1>4

-----------------------------------------------------------------------------
(* The sheets graded and the results answered *)

IInv == TypeOK /\ MarksFit /\ ResultsFit

\* The sizes a sheet being graded or graded leads to, and what its score and
\* the number of right answers reported can be.
LEMMA SheetSizes ==
  ASSUME TypeOK, MarksFit, NEW s \in Students, step[s] # "open"
  PROVE  /\ Cardinality(ids[s]) \in Nat
         /\ 0 < Cardinality(ids[s]) /\ Cardinality(ids[s]) < 1000
         /\ Cardinality(Right(s)) \in Nat
         /\ Cardinality(Right(s)) <= Cardinality(ids[s])
         /\ \A h \in Scores(Cardinality(Right(s)), Cardinality(ids[s])) :
               \A k \in Counts(h, Cardinality(ids[s])) :
                  h \in 0..1000 /\ k = Cardinality(Right(s))
<1>1. ids[s] \in SUBSET Questions /\ ids[s] # {} /\ Right(s) \in SUBSET ids[s]
  BY DEF TypeOK, MarksFit, Right
<1>2. /\ Cardinality(ids[s]) \in Nat
      /\ 0 < Cardinality(ids[s]) /\ Cardinality(ids[s]) < 1000
      /\ Cardinality(Right(s)) \in Nat
      /\ Cardinality(Right(s)) <= Cardinality(ids[s])
  BY <1>1, Sizes
<1> QED
  BY <1>2, RoundTrip

\* The number of right answers recovered fits its type, whatever the paper is.
LEMMA RecoveredType ==
  ASSUME TypeOK, NEW s \in Students, paper # {},
         NEW k \in Counts(graded[s].score, Cardinality(In(paper)))
  PROVE  /\ Result(Cardinality(In(paper)), k, graded[s].score) \in Results
         /\ Cardinality(In(paper)) # 0
<1>1. In(paper) \in SUBSET Questions /\ In(paper) # {}
  BY DEF TypeOK, PaperRow, In
<1>2. Cardinality(In(paper)) \in Nat /\ 0 < Cardinality(In(paper))
  BY <1>1, Sizes
<1> DEFINE t == Cardinality(In(paper))
           h == graded[s].score
           n == h * t
           b == t
           d == 1000
<1>3. h \in 0..1000 /\ t \in Nat
  <2>1. graded[s] \in Results
    BY DEF TypeOK
  <2> QED
    BY <2>1, <1>2 DEF Results
<1> HIDE DEF t, h
<1>4. n \in Nat /\ b \in Nat /\ d \in Nat /\ d > 0 /\ n <= b * d
  <2>1. h \in Nat /\ h * t \in Nat /\ h * t <= 1000 * t
    BY <1>3
  <2> QED
    BY <2>1, <1>3
<1>5. k \in Nearest(n, d)
  BY DEF Counts, t, h
<1> HIDE DEF n, b, d
<1>6. k \in 0..b
  BY <1>4, <1>5, NearestBounds
<1>7. k \in Nat
  BY <1>6, <1>3 DEF b
<1> QED
  BY <1>2, <1>3, <1>7 DEF Result, Results, t, h

\* The fields of a result.
LEMMA ResultFields ==
  /\ \A t, k, h : /\ Result(t, k, h).total = t
                  /\ Result(t, k, h).correct = k
                  /\ Result(t, k, h).score = h
  /\ NoResult \in Results /\ NoResult.total = 0
BY DEF Result, NoResult, Results

\* Types are kept by every step.
LEMMA TypeKept == IInv /\ [Next]_vars => TypeOK'
<1> SUFFICES ASSUME TypeOK, MarksFit, [Next]_vars PROVE TypeOK'
  BY DEF IInv
<1> USE DEF TypeOK, editing, grading
<1>1. ASSUME NEW e \in Editors, SaveNew(e) PROVE TypeOK'
  BY <1>1, SetsAssumption DEF SaveNew, Sends
<1>2. ASSUME NEW e \in Editors, SaveChanged(e) PROVE TypeOK'
  BY <1>2, SetsAssumption DEF SaveChanged, Sends
<1>3. ASSUME NEW e \in Editors, Clear(e) PROVE TypeOK'
  BY <1>3 DEF Clear, Fails
<1>4. ASSUME NEW e \in Editors, Insert(e) PROVE TypeOK'
  <2> DEFINE q == list[e][next[e]]
  <2>1. q \in Questions /\ next[e] - 1 \in Nat
    BY <1>4 DEF Insert
  <2>2. [question |-> q, order |-> next[e] - 1] \in PaperRow
    BY <2>1 DEF PaperRow
  <2>3. paper' \in SUBSET PaperRow
    BY <1>4, <2>2 DEF Insert, Fails
  <2>4. next' \in [Editors -> Nat \ {0}]
    BY <1>4 DEF Insert
  <2>8. calm' \in BOOLEAN
    BY <1>4, Zenon DEF Insert, Fails
  <2>5. /\ exam' = exam /\ last' = last /\ pc' = pc /\ list' = list
        /\ step' = step /\ ids' = ids /\ marks' = marks
        /\ graded' = graded /\ recovered' = recovered
    BY <1>4 DEF Insert
  <2>6. /\ exam' \in BOOLEAN /\ last' \in Seq(Questions)
        /\ pc' \in [Editors -> {"idle", "delete", "insert"}]
        /\ list' \in [Editors -> Seq(Questions)]
    BY <2>5
  <2>7. /\ step' \in [Students -> {"open", "grading", "graded"}]
        /\ ids' \in [Students -> SUBSET Questions]
        /\ marks' \in [Students -> Marks]
        /\ graded' \in [Students -> Results]
        /\ recovered' \in [Students -> Results]
    BY <2>5
  <2> QED
    BY <2>3, <2>4, <2>6, <2>7, <2>8
<1>5. ASSUME NEW e \in Editors, Answer(e) PROVE TypeOK'
  BY <1>5 DEF Answer
<1>6. ASSUME NEW s \in Students, ReadPaper(s) PROVE TypeOK'
  <2>1. In(paper) \in SUBSET Questions
    BY DEF In, PaperRow
  <2> QED
    BY <1>6, <2>1, MarksFacts DEF ReadPaper
<1>7. ASSUME NEW s \in Students, GradeAnswer(s) PROVE TypeOK'
  <2> PICK q \in Questions, right \in BOOLEAN :
        marks' = [marks EXCEPT ![s] =
                    [p \in DOMAIN @ \cup {q} |-> IF p = q THEN right ELSE @[p]]]
    BY <1>7 DEF GradeAnswer
  <2> DEFINE m == marks[s]
             new == [p \in DOMAIN m \cup {q} |-> IF p = q THEN right ELSE m[p]]
  <2>1. DOMAIN m \in SUBSET Questions /\ m \in [DOMAIN m -> BOOLEAN]
    BY MarksFacts
  <2>2. DOMAIN new = DOMAIN m \cup {q} /\ new \in [DOMAIN new -> BOOLEAN]
    BY <2>1
  <2>3. new \in Marks
    BY <2>1, <2>2, MarksFacts
  <2>4. marks' \in [Students -> Marks]
    BY <2>3
  <2> QED
    BY <1>7, <2>4 DEF GradeAnswer
<1>8. ASSUME NEW s \in Students, SaveGrade(s) PROVE TypeOK'
  <2> DEFINE t == Cardinality(ids[s])
  <2> PICK h \in Scores(Cardinality(Right(s)), t) :
        \E k \in Counts(h, t) : graded' = [graded EXCEPT ![s] = Result(t, k, h)]
    BY <1>8 DEF SaveGrade
  <2> PICK k \in Counts(h, t) : graded' = [graded EXCEPT ![s] = Result(t, k, h)]
    OBVIOUS
  <2>1. t \in Nat /\ h \in 0..1000 /\ k \in Nat
    BY <1>8, SheetSizes DEF SaveGrade
  <2>2. Result(t, k, h) \in Results
    BY <2>1 DEF Result, Results
  <2>3. graded' \in [Students -> Results]
    BY <2>2
  <2> QED
    BY <1>8, <2>3 DEF SaveGrade
<1>9. ASSUME NEW s \in Students, SaveFails(s) PROVE TypeOK'
  BY <1>9 DEF SaveFails
<1>10. ASSUME NEW s \in Students, Recover(s) PROVE TypeOK'
  <2> DEFINE t == Cardinality(In(paper))
             h == graded[s].score
  <2> PICK k \in Counts(h, t) :
        recovered' = [recovered EXCEPT ![s] = Result(t, k, h)]
    BY <1>10 DEF Recover
  <2>1. Result(t, k, h) \in Results
    BY <1>10, RecoveredType DEF Recover
  <2>2. recovered' \in [Students -> Results]
    BY <2>1
  <2> QED
    BY <1>10, <2>2 DEF Recover
<1>11. CASE Crash
  <2>1. /\ pc' \in [Editors -> {"idle", "delete", "insert"}]
        /\ next' \in [Editors -> Nat \ {0}]
        /\ step' \in [Students -> {"open", "grading", "graded"}]
    BY <1>11 DEF Crash
  <2>5. calm' \in BOOLEAN
    BY <1>11, Zenon DEF Crash
  <2>2. /\ exam' = exam /\ paper' = paper /\ last' = last /\ list' = list
        /\ ids' = ids /\ marks' = marks
        /\ graded' = graded /\ recovered' = recovered
    BY <1>11 DEF Crash
  <2>3. /\ exam' \in BOOLEAN /\ paper' \in SUBSET PaperRow
        /\ last' \in Seq(Questions)
        /\ list' \in [Editors -> Seq(Questions)]
    BY <2>2
  <2>4. /\ ids' \in [Students -> SUBSET Questions]
        /\ marks' \in [Students -> Marks]
        /\ graded' \in [Students -> Results]
        /\ recovered' \in [Students -> Results]
    BY <2>2
  <2> QED
    BY <2>1, <2>3, <2>4, <2>5
<1>12. CASE UNCHANGED vars
  BY <1>12 DEF vars
<1> QED
  BY <1>1, <1>2, <1>3, <1>4, <1>5, <1>6, <1>7, <1>8, <1>9, <1>10, <1>11, <1>12
     DEF Next, Edit, Grade

\* MarksFit and ResultsFit for one student.
SheetFits(z) ==
    /\ step[z] # "open" => DOMAIN marks[z] \subseteq ids[z] /\ ids[z] # {}
    /\ step[z] = "graded" =>
         /\ graded[z].total = Cardinality(ids[z])
         /\ graded[z].score \in Scores(Cardinality(Right(z)), graded[z].total)
         /\ graded[z].correct \in Counts(graded[z].score, graded[z].total)
    /\ recovered[z].total # 0 =>
         /\ step[z] = "graded"
         /\ recovered[z].score = graded[z].score
         /\ recovered[z].correct \in Counts(recovered[z].score, recovered[z].total)

LEMMA EverySheet == MarksFit /\ ResultsFit <=> \A z \in Students : SheetFits(z)
BY DEF MarksFit, ResultsFit, SheetFits

\* A step that leaves a student alone leaves what fits.
LEMMA Untouched ==
  ASSUME NEW z \in Students, SheetFits(z),
         step'[z] = step[z], ids'[z] = ids[z], marks'[z] = marks[z],
         graded'[z] = graded[z], recovered'[z] = recovered[z]
  PROVE  SheetFits(z)'
<1>1. Right(z)' = Right(z)
  BY DEF Right
<1> QED
  BY <1>1 DEF SheetFits

\* The marks and the results of every student keep fitting.
LEMMA FitKept == IInv /\ [Next]_vars => MarksFit' /\ ResultsFit'
<1> SUFFICES ASSUME TypeOK, MarksFit, \A z \in Students : SheetFits(z), [Next]_vars,
                    NEW z \in Students
             PROVE  SheetFits(z)'
  BY EverySheet DEF IInv, MarksFit, ResultsFit, SheetFits, Right
<1>a. /\ step \in [Students -> {"open", "grading", "graded"}]
      /\ ids \in [Students -> SUBSET Questions]
      /\ marks \in [Students -> Marks]
      /\ graded \in [Students -> Results]
      /\ recovered \in [Students -> Results]
  BY DEF TypeOK
<1>1. CASE UNCHANGED grading
  BY <1>1, Untouched DEF grading
<1>2. ASSUME NEW s \in Students, ReadPaper(s) PROVE SheetFits(z)'
  <2>1. CASE z # s
    BY <2>1, <1>2, <1>a, Untouched DEF ReadPaper
  <2>2. CASE z = s
    <3>1. step'[z] = "grading" /\ ids'[z] = In(paper) /\ marks'[z] = Unmarked
      BY <2>2, <1>2, <1>a DEF ReadPaper
    <3>2. DOMAIN marks'[z] \subseteq ids'[z] /\ ids'[z] # {}
      BY <3>1, <1>2, MarksFacts DEF ReadPaper, In
    <3>3. recovered'[z].total = 0
      BY <2>2, <1>2, <1>a DEF ReadPaper, SheetFits
    <3> QED
      BY <3>1, <3>2, <3>3 DEF SheetFits
  <2> QED
    BY <2>1, <2>2
<1>3. ASSUME NEW s \in Students, GradeAnswer(s) PROVE SheetFits(z)'
  <2>1. CASE z # s
    BY <2>1, <1>3, <1>a, Untouched DEF GradeAnswer
  <2>2. CASE z = s
    <3>1. PICK q \in ids[z] :
            /\ DOMAIN marks'[z] = DOMAIN marks[z] \cup {q}
            /\ step'[z] = "grading" /\ ids'[z] = ids[z] /\ recovered'[z] = recovered[z]
      BY <2>2, <1>3, <1>a DEF GradeAnswer, Gradable
    <3>2. step[z] = "grading"
      BY <2>2, <1>3 DEF GradeAnswer
    <3> QED
      BY <3>1, <3>2 DEF SheetFits
  <2> QED
    BY <2>1, <2>2
<1>4. ASSUME NEW s \in Students, SaveGrade(s) PROVE SheetFits(z)'
  <2>1. CASE z # s
    BY <2>1, <1>4, <1>a, Untouched DEF SaveGrade
  <2>2. CASE z = s
    <3> DEFINE t == Cardinality(ids[z])
    <3>1. PICK h \in Scores(Cardinality(Right(z)), t) :
            \E k \in Counts(h, t) : graded' = [graded EXCEPT ![z] = Result(t, k, h)]
      BY <2>2, <1>4 DEF SaveGrade
    <3>2. PICK k \in Counts(h, t) : graded' = [graded EXCEPT ![z] = Result(t, k, h)]
      BY <3>1
    <3>3. graded'[z].total = t /\ graded'[z].correct = k /\ graded'[z].score = h
      BY <3>2, <1>a, ResultFields
    <3>4. /\ ids'[z] = ids[z] /\ marks'[z] = marks[z] /\ Right(z)' = Right(z)
          /\ step[z] = "grading" /\ recovered'[z] = recovered[z]
      BY <2>2, <1>4 DEF SaveGrade, Right
    <3> QED
      BY <3>3, <3>4 DEF SheetFits
  <2> QED
    BY <2>1, <2>2
<1>5. ASSUME NEW s \in Students, SaveFails(s) PROVE SheetFits(z)'
  <2>1. CASE z # s
    BY <2>1, <1>5, <1>a, Untouched DEF SaveFails
  <2>2. CASE z = s
    BY <2>2, <1>5, <1>a DEF SaveFails, SheetFits
  <2> QED
    BY <2>1, <2>2
<1>6. ASSUME NEW s \in Students, Recover(s) PROVE SheetFits(z)'
  <2>1. CASE z # s
    BY <2>1, <1>6, <1>a, Untouched DEF Recover
  <2>2. CASE z = s
    <3> DEFINE t == Cardinality(In(paper))
               h == graded[z].score
    <3>1. PICK k \in Counts(h, t) : recovered' = [recovered EXCEPT ![z] = Result(t, k, h)]
      BY <2>2, <1>6 DEF Recover
    <3>2. recovered'[z].total = t /\ recovered'[z].correct = k /\ recovered'[z].score = h
      BY <3>1, <1>a, ResultFields
    <3>3. /\ step[z] = "graded" /\ step'[z] = step[z] /\ ids'[z] = ids[z]
          /\ marks'[z] = marks[z] /\ graded'[z] = graded[z] /\ Right(z)' = Right(z)
      BY <2>2, <1>6 DEF Recover, Right
    <3> QED
      BY <3>2, <3>3 DEF SheetFits
  <2> QED
    BY <2>1, <2>2
<1>7. CASE Crash
  <2>1. CASE step[z] = "graded"
    BY <2>1, <1>7, <1>a, Untouched DEF Crash
  <2>2. CASE step[z] # "graded"
    <3>1. step'[z] = "open" /\ recovered'[z] = recovered[z]
      BY <2>2, <1>7 DEF Crash
    <3> QED
      BY <3>1, <2>2 DEF SheetFits
  <2> QED
    BY <2>1, <2>2
<1> QED
  BY <1>1, <1>2, <1>3, <1>4, <1>5, <1>6, <1>7
     DEF Next, Edit, Grade, vars, grading, SaveNew, SaveChanged, Clear, Insert, Answer

\* The inductive invariant.
THEOREM Invariance == Spec => []IInv
<1>1. Init => IInv
  <2> SUFFICES ASSUME Init PROVE IInv
    OBVIOUS
  <2>1. TypeOK
    <3>1. /\ marks \in [Students -> Marks]
          /\ graded \in [Students -> Results]
          /\ recovered \in [Students -> Results]
      BY MarksFacts, ResultFields DEF Init
    <3>2. last \in Seq(Questions) /\ list \in [Editors -> Seq(Questions)]
      BY DEF Init
    <3>3. exam \in BOOLEAN /\ calm \in BOOLEAN /\ paper \in SUBSET PaperRow
      BY DEF Init
    <3>4. /\ pc \in [Editors -> {"idle", "delete", "insert"}]
          /\ next \in [Editors -> Nat \ {0}]
      BY DEF Init
    <3>5. /\ step \in [Students -> {"open", "grading", "graded"}]
          /\ ids \in [Students -> SUBSET Questions]
      BY DEF Init
    <3> QED
      BY <3>1, <3>2, <3>3, <3>4, <3>5 DEF TypeOK
  <2>2. MarksFit /\ ResultsFit
    BY ResultFields DEF Init, MarksFit, ResultsFit
  <2> QED
    BY <2>1, <2>2 DEF IInv
<1>2. IInv /\ [Next]_vars => IInv'
  BY TypeKept, FitKept DEF IInv
<1> QED
  BY <1>1, <1>2, PTL DEF Spec

\* Every reachable state of the paper, of its editors and of the sheets has its
\* type; the scores saved are on the scale of 0 to 1000 hundredths.
THEOREM TypeCorrect == Spec => []TypeOK
<1>1. IInv => TypeOK
  BY DEF IInv
<1> QED
  BY <1>1, Invariance, PTL

\* Submit reports the number of right answers it counted, never more than
\* there are questions, however the paper is edited in the meantime.
THEOREM ReportedIsRightAlways == Spec => []ReportedIsRight
<1>1. IInv => ReportedIsRight
  <2> SUFFICES ASSUME IInv, NEW s \in Students, step[s] = "graded"
               PROVE  /\ graded[s].correct = Cardinality(Right(s))
                      /\ graded[s].correct <= graded[s].total
    BY DEF ReportedIsRight
  <2>1. /\ graded[s].total = Cardinality(ids[s])
        /\ graded[s].score \in Scores(Cardinality(Right(s)), graded[s].total)
        /\ graded[s].correct \in Counts(graded[s].score, graded[s].total)
    BY DEF IInv, ResultsFit
  <2>2. /\ Cardinality(Right(s)) <= Cardinality(ids[s])
        /\ \A h \in Scores(Cardinality(Right(s)), graded[s].total) :
             \A k \in Counts(h, graded[s].total) : k = Cardinality(Right(s))
    BY <2>1, SheetSizes DEF IInv
  <2> QED
    BY <2>1, <2>2
<1> QED
  BY <1>1, Invariance, PTL

\* A result recovered on a paper of the same size has the score of the
\* submission and the number of its right answers.
THEOREM RecoveredOnSameSizeAlways == Spec => []RecoveredOnSameSize
<1>1. IInv => RecoveredOnSameSize
  <2> SUFFICES ASSUME IInv, NEW s \in Students, recovered[s].total # 0,
                      recovered[s].total = graded[s].total
               PROVE  /\ recovered[s].score = graded[s].score
                      /\ recovered[s].correct = Cardinality(Right(s))
    BY DEF RecoveredOnSameSize
  <2>1. /\ step[s] = "graded"
        /\ graded[s].total = Cardinality(ids[s])
        /\ graded[s].score \in Scores(Cardinality(Right(s)), graded[s].total)
        /\ recovered[s].score = graded[s].score
        /\ recovered[s].correct \in Counts(graded[s].score, graded[s].total)
    BY DEF IInv, ResultsFit
  <2>2. recovered[s].correct = Cardinality(Right(s))
    BY <2>1, SheetSizes DEF IInv
  <2> QED
    BY <2>1, <2>2
<1> QED
  BY <1>1, Invariance, PTL

-----------------------------------------------------------------------------
(* The paper, while no edits overlap and none fails *)

\* The rows of one question more.
LEMMA RowsStep ==
  ASSUME NEW l \in Seq(Questions), NEW n \in 1..Len(l)
  PROVE  /\ {l[k] : k \in 1..n} = {l[k] : k \in 1..(n - 1)} \cup {l[n]}
         /\ l[n] \in {l[k] : k \in 1..(n - 1)} => RowsUpTo(l, n) = RowsUpTo(l, n - 1)
         /\ l[n] \notin {l[k] : k \in 1..(n - 1)} =>
              RowsUpTo(l, n) =
                RowsUpTo(l, n - 1) \cup {[question |-> l[n], order |-> n - 1]}
<1> DEFINE First(m) == {j \in 1..m : \A k \in 1..(j - 1) : l[k] # l[j]}
<1>0. 1..n = 1..(n - 1) \cup {n} /\ n \notin 1..(n - 1)
  OBVIOUS
<1>1. {l[k] : k \in 1..n} = {l[k] : k \in 1..(n - 1)} \cup {l[n]}
  BY <1>0
<1>2. ASSUME l[n] \in {l[k] : k \in 1..(n - 1)}
      PROVE  First(n) = First(n - 1)
  BY <1>0, <1>2
<1>3. ASSUME l[n] \notin {l[k] : k \in 1..(n - 1)}
      PROVE  First(n) = First(n - 1) \cup {n}
  BY <1>0, <1>3
<1>4. /\ RowsUpTo(l, n) = {[question |-> l[i], order |-> i - 1] : i \in First(n)}
      /\ RowsUpTo(l, n - 1) = {[question |-> l[i], order |-> i - 1] : i \in First(n - 1)}
  BY Zenon DEF RowsUpTo
<1> HIDE DEF First
<1>5. ASSUME First(n) = First(n - 1)
      PROVE  RowsUpTo(l, n) = RowsUpTo(l, n - 1)
  BY <1>4, <1>5
<1>6. ASSUME First(n) = First(n - 1) \cup {n}
      PROVE  RowsUpTo(l, n) =
               RowsUpTo(l, n - 1) \cup {[question |-> l[n], order |-> n - 1]}
  BY <1>4, <1>6
<1> QED
  BY <1>1, <1>2, <1>3, <1>5, <1>6

LEMMA InNothing == In({}) = {}
BY DEF In

LEMMA InStep ==
  ASSUME NEW P, NEW q, NEW o
  PROVE  In(P \cup {[question |-> q, order |-> o]}) = In(P) \cup {q}
<1> DEFINE row == [question |-> q, order |-> o]
<1>1. row.question = q
  OBVIOUS
<1> HIDE DEF row
<1>2. {x.question : x \in P \cup {row}} = {x.question : x \in P} \cup {row.question}
  OBVIOUS
<1>3. In(P \cup {row}) = In(P) \cup {q}
  BY <1>1, <1>2 DEF In
<1> QED
  BY <1>3 DEF row

LEMMA NoRows ==
  ASSUME NEW l
  PROVE  RowsUpTo(l, 0) = {} /\ {l[k] : k \in 1..0} = {}
BY DEF RowsUpTo

\* Sending a list keeps the paper written right.
LEMMA SendsWritten ==
  ASSUME TypeOK, PaperWritten, NEW e \in Editors, pc[e] = "idle", Sends(e),
         UNCHANGED <<paper, next>>
  PROVE  PaperWritten' /\ PaperIsLast'
<1>1. /\ list' = [list EXCEPT ![e] = last'] /\ paper' = paper /\ next' = next
      /\ calm' => calm /\ \A d \in Editors : pc[d] = "idle"
      /\ pc' = [pc EXCEPT ![e] = "delete"]
  BY DEF Sends, TypeOK
<1>2. pc'[e] = "delete" /\ list'[e] = last' /\ next'[e] = 1
  BY <1>1 DEF TypeOK, PaperWritten
<1>3. \A d \in Editors : d # e => pc'[d] = pc[d] /\ list'[d] = list[d] /\ next'[d] = next[d]
  BY <1>1 DEF TypeOK
<1> QED
  BY <1>1, <1>2, <1>3 DEF PaperWritten, PaperIsLast

\* As long as no edits overlap and none fails, the paper between edits is the
\* list sent last: the order of SetQuestions' statements is right, and all it
\* lacks is a transaction.
THEOREM PaperIsLastAlways == Spec => []PaperIsLast
<1>1. Init => PaperWritten /\ PaperIsLast
  <2> SUFFICES ASSUME Init PROVE PaperWritten /\ PaperIsLast
    OBVIOUS
  <2>1. RowsOf(<<>>) = {}
    BY NoRows DEF RowsOf
  <2> QED
    BY <2>1 DEF Init, PaperWritten, PaperIsLast
<1>2. TypeOK /\ PaperWritten /\ PaperIsLast /\ [Next]_vars
        => PaperWritten' /\ PaperIsLast'
  <2> SUFFICES ASSUME TypeOK, PaperWritten, PaperIsLast, [Next]_vars
               PROVE  PaperWritten' /\ PaperIsLast'
    OBVIOUS
  <2>t. /\ pc \in [Editors -> {"idle", "delete", "insert"}]
        /\ list \in [Editors -> Seq(Questions)]
        /\ next \in [Editors -> Nat \ {0}]
        /\ last \in Seq(Questions)
    BY DEF TypeOK
  <2>1. ASSUME NEW e \in Editors, SaveNew(e) \/ SaveChanged(e)
        PROVE  PaperWritten' /\ PaperIsLast'
    BY <2>1, SendsWritten DEF SaveNew, SaveChanged
  <2>2. ASSUME NEW e \in Editors, Clear(e)
        PROVE  PaperWritten' /\ PaperIsLast'
    <3>1. /\ pc' = [pc EXCEPT ![e] = "insert"] /\ pc[e] = "delete"
          /\ list' = list /\ next' = next /\ last' = last
          /\ calm' => calm /\ paper' = {}
      BY <2>2 DEF Clear, Fails
    <3>2. pc'[e] = "insert" /\ next'[e] = 1 /\ next'[e] - 1 = 0
      BY <3>1, <2>t DEF PaperWritten
    <3>3. 1 \in 1..(Len(list'[e]) + 1)
      BY <3>1, <2>t
    <3>4. ASSUME calm'
          PROVE  paper' = RowsUpTo(last', 0) /\ In(paper') = {last'[k] : k \in 1..0}
      BY <3>1, <3>4, NoRows, InNothing
    <3>5. \A d \in Editors : d # e => pc'[d] = pc[d]
      BY <3>1, <2>t
    <3> QED
      BY <3>1, <3>2, <3>3, <3>4, <3>5 DEF PaperWritten, PaperIsLast
  <2>3. ASSUME NEW e \in Editors, Insert(e)
        PROVE  PaperWritten' /\ PaperIsLast'
    <3> DEFINE n == next[e]
    <3>1. /\ pc[e] = "insert" /\ n \in 1..Len(list[e]) /\ pc' = pc
          /\ list' = list /\ last' = last
          /\ next' = [next EXCEPT ![e] = n + 1]
          /\ calm' => calm
      BY <2>3, <2>t DEF Insert, Fails
    <3>2. next'[e] \in 1..(Len(list'[e]) + 1) /\ next'[e] - 1 = n
      BY <3>1, <2>t
    <3>3. ASSUME calm'
          PROVE  paper' = RowsUpTo(last, n) /\ In(paper') = {last[k] : k \in 1..n}
      <4>1. /\ list[e] = last
            /\ paper = RowsUpTo(last, n - 1)
            /\ In(paper) = {last[k] : k \in 1..(n - 1)}
        BY <3>1, <3>3 DEF PaperWritten
      <4>2. \/ /\ last[n] \notin In(paper)
               /\ paper' = paper \cup {[question |-> last[n], order |-> n - 1]}
            \/ last[n] \in In(paper) /\ paper' = paper
        BY <2>3, <3>3, <4>1 DEF Insert, Fails
      <4>3. last[n] \in In(paper) <=> last[n] \in {last[k] : k \in 1..(n - 1)}
        BY <4>1
      <4>4. CASE last[n] \in In(paper)
        <5>1. paper' = paper
          BY <4>2, <4>4
        <5> QED
          BY <5>1, <4>1, <4>3, <4>4, <3>1, <2>t, RowsStep
      <4>5. CASE last[n] \notin In(paper)
        <5>1. paper' = paper \cup {[question |-> last[n], order |-> n - 1]}
          BY <4>2, <4>5
        <5>2. In(paper \cup {[question |-> last[n], order |-> n - 1]}) = In(paper) \cup {last[n]}
          BY InStep
        <5>3. In(paper') = In(paper) \cup {last[n]}
          BY <5>1, <5>2
        <5> QED
          BY <5>1, <5>3, <4>1, <4>3, <4>5, <3>1, <2>t, RowsStep
      <4> QED
        BY <4>4, <4>5
    <3>4. \A d \in Editors : d # e => next'[d] = next[d]
      BY <3>1, <2>t
    <3>5. calm' => \A d \in Editors : pc[d] # "idle" => d = e
      BY <3>1 DEF PaperWritten
    <3> QED
      BY <3>1, <3>2, <3>3, <3>4, <3>5 DEF PaperWritten, PaperIsLast
  <2>4. ASSUME NEW e \in Editors, Answer(e)
        PROVE  PaperWritten' /\ PaperIsLast'
    <3>1. /\ pc[e] = "insert" /\ pc' = [pc EXCEPT ![e] = "idle"]
          /\ next' = [next EXCEPT ![e] = 1] /\ next[e] > Len(list[e])
          /\ paper' = paper /\ last' = last /\ calm' = calm /\ list' = list
      BY <2>4 DEF Answer
    <3>2. pc'[e] = "idle" /\ next'[e] = 1
      BY <3>1, <2>t
    <3>3. \A d \in Editors : d # e => pc'[d] = pc[d] /\ next'[d] = next[d]
      BY <3>1, <2>t
    <3>4. calm => paper = RowsOf(last)
      <4>1. next[e] - 1 = Len(list[e])
        BY <3>1, <2>t DEF PaperWritten
      <4> QED
        BY <4>1, <3>1 DEF PaperWritten, RowsOf
    <3>5. calm => \A d \in Editors : pc[d] # "idle" => d = e
      BY <3>1 DEF PaperWritten
    <3> QED
      BY <3>1, <3>2, <3>3, <3>4, <3>5 DEF PaperWritten, PaperIsLast, RowsOf
  <2>5. CASE UNCHANGED editing
    <3>1. /\ pc' = pc /\ list' = list /\ next' = next
          /\ paper' = paper /\ last' = last /\ calm' = calm
      BY <2>5 DEF editing
    <3> QED
      BY <3>1 DEF PaperWritten, PaperIsLast
  <2>6. CASE Crash
    <3>1. /\ calm' = FALSE
          /\ \A e \in Editors : pc'[e] = "idle" /\ next'[e] = 1
      BY <2>6 DEF Crash
    <3> QED
      BY <3>1 DEF PaperWritten, PaperIsLast
  <2> QED
    BY <2>1, <2>2, <2>3, <2>4, <2>5, <2>6
       DEF Next, Edit, Grade, vars, editing,
           ReadPaper, GradeAnswer, SaveGrade, SaveFails, Recover
<1> QED
  BY <1>1, <1>2, TypeCorrect, PTL DEF Spec
=============================================================================
