----------------------------- MODULE SeedBankProofs -----------------------------
(***************************************************************************)
(* Proofs about SeedBank, for every dictionary of subjects whose names     *)
(* differ, wherever scripts die and whoever acts in between.               *)
(***************************************************************************)
EXTENDS SeedBank, NatSets, SequenceTheorems

\* The places in the dictionary and what is there.
LEMMA Dictionary ==
  /\ Len(BANKS) \in Nat /\ Subjects = 1..Len(BANKS) /\ Subjects \subseteq Nat
  /\ 0 \notin Subjects
  /\ \A m \in Subjects : BANKS[m] \in [name: Names, rows: Seq(Rows0)]
  /\ \A m \in Subjects : FileOf(m) \in FileNames
<1>1. Len(BANKS) \in Nat /\ Subjects = 1..Len(BANKS)
  BY BanksAssumption DEF Subjects
<1>2. \A m \in Subjects : BANKS[m] \in [name: Names, rows: Seq(Rows0)]
  BY BanksAssumption, ElementOfSeq DEF Subjects
<1>3. \A m \in Subjects : FileOf(m) \in FileNames
  BY DEF FileNames
<1> QED
  BY <1>1, <1>2, <1>3

\* What a script writes for a subject of the dictionary.
LEMMA Written ==
  ASSUME edit \in [Subjects -> Edits], ma_mon \in [Subjects -> Nat],
         NEW m \in Subjects, NEW whole \in BOOLEAN
  PROVE  Content(m, whole) \in Contents /\ Sample(m, whole) \in Samples
<1>1. Content(m, whole) \in Contents
  BY DEF Content, Contents
<1> QED
  BY <1>1 DEF Sample, Samples

\* The id a sample names is one the query returned for that name.
LEMMA IdShown ==
  ASSUME subjects \in Seq(SubjectRows), NEW m \in Subjects
  PROVE  lay_ma_mon[m] \in Nat /\ (lay_ma_mon[m] # NoId => lay_ma_mon[m] \in Shown(m))
<1>1. Len(subjects) \in Nat /\ Shown(m) \subseteq 1..Len(subjects)
  BY DEF Shown
<1>2. CASE Shown(m) = {}
  BY <1>2 DEF lay_ma_mon, NoId
<1>3. CASE Shown(m) # {}
  <2>1. \E i \in Shown(m) : \A j \in Shown(m) : j <= i
    BY <1>1, <1>3, Greatest
  <2>2. lay_ma_mon[m] \in Shown(m)
    BY <1>3, <2>1 DEF lay_ma_mon
  <2> QED
    BY <1>1, <2>2
<1> QED
  BY <1>2, <1>3

\* Names differ, so that rows found by the name of m are rows of m.
LEMMA OwnRows ==
  ASSUME subjects \in Seq(SubjectRows), NEW m \in Subjects
  PROVE  \A i \in Named(m) \cup Shown(m) :
           i \in DOMAIN subjects /\ i \in Nat /\ i # NoId /\ subjects[i].of = m
                                 /\ subjects[i].state # "gone"
<1>1. \A i \in DOMAIN subjects : i \in 1..Len(subjects) /\ i \in Nat /\ i # 0
                                  /\ subjects[i].of \in Subjects
  <2>1. ASSUME NEW i \in 1..Len(subjects) PROVE subjects[i] \in SubjectRows
    BY <2>1, ElementOfSeq
  <2>2. DOMAIN subjects = 1..Len(subjects) /\ Len(subjects) \in Nat
    OBVIOUS
  <2> QED
    BY <2>1, <2>2 DEF SubjectRows
<1>2. \A k \in Subjects : BANKS[k].name.exact = BANKS[m].name.exact => k = m
  BY KeysAssumption DEF Subjects
<1> QED
  BY <1>1, <1>2 DEF Named, Shown, NoId

\* The files, the tables and the scripts keep their shape.
THEOREM TypeCorrect == Spec => []TypeOK
<1>1. Init => TypeOK
  <2> SUFFICES ASSUME Init PROVE TypeOK
    OBVIOUS
  <2>1. NoContent \in Contents /\ NoSample \in Samples
    BY DEF NoContent, Contents, NoSample, Samples, Edits, NoId
  <2>2. /\ out \in [FileNames -> [csv: Contents, xlsx: Contents]]
        /\ samples \in [FileNames -> [csv: Samples, xlsx: Samples]]
    BY <2>1 DEF Init, Pair
  <2>3. edit \in [Subjects -> Edits]
    BY DEF Init, Edits
  <2>4. seed \in [state: {"none", "torn", "whole"}, edit: [Subjects -> Edits]]
    BY <2>3 DEF Init
  <2>5. subjects \in Seq(SubjectRows)
    BY Dictionary DEF Init, SubjectRows
  <2>6. at \in 1..(Len(BANKS) + 1) /\ pc \in Scripts /\ pc # "insert"
    BY Dictionary DEF Init, Scripts
  <2> QED
    BY <2>2, <2>3, <2>4, <2>5, <2>6 DEF Init, TypeOK, NoId
<1>2. TypeOK /\ [Next]_vars => TypeOK'
  <2> SUFFICES ASSUME TypeOK, [Next]_vars PROVE TypeOK'
    OBVIOUS
  <2> USE DEF TypeOK
  <2>a. ASSUME Stop
        PROVE  /\ pc' = "idle" /\ pc' \in Scripts /\ at' \in 1..(Len(BANKS) + 1)
               /\ ma_mon' \in [Subjects -> Nat] /\ sid' \in Nat
    BY <2>a, Dictionary DEF Stop, Scripts, NoId
  <2>b. ASSUME Start
        PROVE  starts' \in Nat /\ at' \in 1..(Len(BANKS) + 1)
    BY <2>b, Dictionary DEF Start
  <2>c. at \in Subjects => at + 1 \in 1..(Len(BANKS) + 1)
    BY Dictionary
  <2>d. at \in Subjects =>
          /\ FileOf(at) \in FileNames
          /\ \A whole \in BOOLEAN : Content(at, whole) \in Contents /\ Sample(at, whole) \in Samples
    BY Dictionary, Written
  <2>1. CASE BuildStart
    <3>1. pc' \in Scripts /\ pc' # "insert" /\ finished' \in BOOLEAN
      <4>1. CASE Acceptable
        BY <2>1, <4>1 DEF BuildStart, Scripts
      <4>2. CASE ~Acceptable
        BY <2>1, <4>2 DEF BuildStart, Start, Scripts
      <4> QED
        BY <4>1, <4>2
    <3> QED
      BY <2>1, <2>b, <3>1 DEF BuildStart, authors, disk, db
  <2>2. CASE BuildFiles
    <3>1. out' \in [FileNames -> [csv: Contents, xlsx: Contents]]
      BY <2>2, <2>d DEF BuildFiles, Pair
    <3> QED
      BY <2>2, <2>c, <3>1 DEF BuildFiles, authors, db
  <2>3. CASE BuildFilesDies
    <3>1. at \in Subjects
      BY <2>3, WatchedAssumption DEF BuildFilesDies, Subjects
    <3>2. PICK files \in {out[FileOf(at)],
                          [out[FileOf(at)] EXCEPT !.csv = Content(at, FALSE)],
                          [out[FileOf(at)] EXCEPT !.csv = Content(at, TRUE)],
                          [csv |-> Content(at, TRUE), xlsx |-> Content(at, FALSE)]} :
               out' = [out EXCEPT ![FileOf(at)] = files]
      BY <2>3 DEF BuildFilesDies
    <3>3. files \in [csv: Contents, xlsx: Contents]
      <4>1. /\ Content(at, TRUE) \in Contents /\ Content(at, FALSE) \in Contents
            /\ FileOf(at) \in FileNames
        BY <2>d, <3>1
      <4>2. out[FileOf(at)] \in [csv: Contents, xlsx: Contents]
        BY <4>1
      <4>3. \A c \in Contents :
              [out[FileOf(at)] EXCEPT !.csv = c] \in [csv: Contents, xlsx: Contents]
        BY <4>2
      <4>4. [csv |-> Content(at, TRUE), xlsx |-> Content(at, FALSE)] \in [csv: Contents, xlsx: Contents]
        BY <4>1
      <4> HIDE DEF TypeOK
      <4> QED
        BY <3>2, <4>1, <4>2, <4>3, <4>4
    <3>4. out' \in [FileNames -> [csv: Contents, xlsx: Contents]]
      BY <3>2, <3>3
    <3> QED
      BY <2>3, <2>a, <3>4 DEF BuildFilesDies, authors, db
  <2>4. CASE BuildSeed \/ BuildSeedDies
    <3>1. seed' \in [state: {"none", "torn", "whole"}, edit: [Subjects -> Edits]]
      BY <2>4 DEF BuildSeed, BuildSeedDies
    <3> QED
      BY <2>4, <2>a, <3>1 DEF BuildSeed, BuildSeedDies, authors, db
  <2>5. CASE LoadStart
    BY <2>5, <2>b DEF LoadStart, Scripts, authors, disk
  <2>6. CASE LoadLookup
    <3>1. sid' \in Nat
      BY <2>6, OwnRows DEF LoadLookup, NoId
    <3> QED
      BY <2>6, <3>1 DEF LoadLookup, Scripts, authors, disk, db
  <2>7. ASSUME NEW n \in 0..Len(BANKS[at].rows), NEW a \in 0..4,
               pc = "insert", questions' = Inserted(n, a)
        PROVE  questions' \in SUBSET Groups
    <3>1. at \in Subjects
      BY <2>7
    <3>2. BANKS[at].rows \in Seq(Rows0)
      BY <3>1, Dictionary
    <3>3. n \in Nat /\ seed.edit[at] \in Edits
      BY <3>1, <3>2
    <3> QED
      BY <2>7, <3>1, <3>3 DEF Inserted, Groups
  <2>8. CASE LoadInsert
    <3>1. at \in Subjects /\ BANKS[at].rows \in Seq(Rows0)
      BY <2>8, Dictionary DEF LoadInsert
    <3>2. Len(BANKS[at].rows) \in 0..Len(BANKS[at].rows)
      BY <3>1
    <3>3. questions' \in SUBSET Groups
      BY <2>7, <2>8, <3>2 DEF LoadInsert
    <3> QED
      BY <2>8, <2>c, <3>1, <3>3 DEF LoadInsert, Scripts, authors, disk
  <2>9. CASE LoadDies
    <3>1. questions' \in SUBSET Groups
      <4>1. CASE UNCHANGED questions
        BY <4>1
      <4>2. CASE ~UNCHANGED questions
        <5>1. PICK n \in CutAt \cap (1..Len(BANKS[at].rows)), a \in 0..4 :
                     questions' = Inserted(n, a)
          BY <2>9, <4>2 DEF LoadDies
        <5>2. at \in Subjects /\ BANKS[at].rows \in Seq(Rows0)
          BY <2>9, Dictionary DEF LoadDies
        <5>3. n \in 0..Len(BANKS[at].rows)
          BY <5>2
        <5> QED
          BY <2>7, <2>9, <5>1, <5>3 DEF LoadDies
      <4> QED
        BY <4>1, <4>2
    <3> QED
      BY <2>9, <2>a, <3>1 DEF LoadDies, authors, disk
  <2>10. CASE LoadEnd \/ ExportEnd
    BY <2>10, <2>a DEF LoadEnd, ExportEnd, authors, disk, db
  <2>11. CASE ExportStart
    <3>1. ma_mon' \in [Subjects -> Nat]
      <4>1. CASE ma_mon' = lay_ma_mon
        BY <4>1, IdShown DEF lay_ma_mon
      <4>2. CASE ma_mon' = ma_mon
        BY <4>2
      <4> QED
        BY <2>11, <4>1, <4>2 DEF ExportStart
    <3>2. pc' \in Scripts /\ pc' # "insert"
      BY <2>11 DEF ExportStart, Start, Scripts
    <3> QED
      BY <2>11, <2>b, <3>1, <3>2 DEF ExportStart, authors, disk, db
  <2>12. CASE ExportFiles
    <3>1. samples' \in [FileNames -> [csv: Samples, xlsx: Samples]]
      <4>1. CASE samples' = samples
        BY <4>1
      <4>2. CASE samples' = [samples EXCEPT ![FileOf(at)] = Pair(Sample(at, TRUE))]
        BY <4>2, <2>12, <2>d DEF ExportFiles, Pair
      <4> QED
        BY <2>12, <4>1, <4>2 DEF ExportFiles
    <3> QED
      BY <2>12, <2>c, <3>1 DEF ExportFiles, authors, db
  <2>13. CASE ExportFilesDies
    <3>1. at \in Subjects
      BY <2>13, WatchedAssumption DEF ExportFilesDies, Subjects
    <3>2. PICK files \in {samples[FileOf(at)],
                          [samples[FileOf(at)] EXCEPT !.csv = Sample(at, FALSE)],
                          [samples[FileOf(at)] EXCEPT !.csv = Sample(at, TRUE)],
                          [csv |-> Sample(at, TRUE), xlsx |-> Sample(at, FALSE)]} :
               samples' = [samples EXCEPT ![FileOf(at)] = files]
      BY <2>13 DEF ExportFilesDies
    <3>3. files \in [csv: Samples, xlsx: Samples]
      <4>1. /\ Sample(at, TRUE) \in Samples /\ Sample(at, FALSE) \in Samples
            /\ FileOf(at) \in FileNames
        BY <2>d, <3>1
      <4>2. samples[FileOf(at)] \in [csv: Samples, xlsx: Samples]
        BY <4>1
      <4>3. \A c \in Samples :
              [samples[FileOf(at)] EXCEPT !.csv = c] \in [csv: Samples, xlsx: Samples]
        BY <4>2
      <4>4. [csv |-> Sample(at, TRUE), xlsx |-> Sample(at, FALSE)] \in [csv: Samples, xlsx: Samples]
        BY <4>1
      <4> HIDE DEF TypeOK
      <4> QED
        BY <3>2, <4>1, <4>2, <4>3, <4>4
    <3>4. samples' \in [FileNames -> [csv: Samples, xlsx: Samples]]
      BY <3>2, <3>3
    <3> QED
      BY <2>13, <2>a, <3>4 DEF ExportFilesDies, authors, db
  <2>14. ASSUME NEW m \in Watched, Edit(m) PROVE TypeOK'
    <3>1. PICK e \in Edits : edit' = [edit EXCEPT ![m] = e]
      BY <2>14 DEF Edit
    <3>2. edit' \in [Subjects -> Edits]
      BY <3>1
    <3> QED
      BY <2>14, <3>2 DEF Edit, Change, disk, db, script
  <2>15. ASSUME NEW m \in Watched, SubjectCreate(m) PROVE TypeOK'
    <3>1. [of |-> m, state |-> "shown"] \in SubjectRows
      BY WatchedAssumption DEF SubjectRows, Subjects
    <3>2. subjects' \in Seq(SubjectRows)
      BY <2>15, <3>1 DEF SubjectCreate
    <3> QED
      BY <2>15, <3>2 DEF SubjectCreate, Change, disk, script
  <2>16. ASSUME NEW i \in DOMAIN subjects, SubjectHide(i) \/ SubjectCount(i) PROVE TypeOK'
    <3>1. i \in 1..Len(subjects) /\ i \in Nat /\ subjects[i] \in SubjectRows
      BY ElementOfSeq
    <3>2. CASE SubjectHide(i)
      <4>1. \E v \in SubjectRows : subjects' = [subjects EXCEPT ![i] = v]
        <5>1. /\ [subjects[i] EXCEPT !.state = "hidden"] \in SubjectRows
              /\ [subjects[i] EXCEPT !.state = "shown"] \in SubjectRows
          BY <3>1 DEF SubjectRows
        <5> QED
          BY <3>2, <5>1 DEF SubjectHide
      <4>2. subjects' \in Seq(SubjectRows)
        BY <3>1, <4>1, ExceptSeq
      <4> QED
        BY <3>2, <4>2 DEF SubjectHide, Change, disk, script
    <3>3. CASE SubjectCount(i)
      <4>1. calm' \in BOOLEAN
        <5>1. CASE calm' = (calm /\ ~Loading)
          BY <5>1, Zenon
        <5> QED
          BY <3>3, <5>1 DEF SubjectCount
      <4> QED
        BY <3>1, <3>3, <4>1 DEF SubjectCount, Change, disk, script
    <3> QED
      BY <2>16, <3>2, <3>3
  <2>17. CASE SubjectDelete
    <3>1. CASE doomed \in DOMAIN subjects
      <4>1. subjects[doomed] \in SubjectRows /\ doomed \in 1..Len(subjects)
        BY <3>1, ElementOfSeq
      <4>2. [subjects[doomed] EXCEPT !.state = "gone"] \in SubjectRows
        BY <4>1 DEF SubjectRows
      <4>3. subjects' = [subjects EXCEPT ![doomed] = [subjects[doomed] EXCEPT !.state = "gone"]]
        BY <2>17, <3>1 DEF SubjectDelete
      <4>4. subjects' \in Seq(SubjectRows)
        BY <4>1, <4>2, <4>3, ExceptSeq
      <4> QED
        BY <2>17, <4>4 DEF SubjectDelete, authors, disk, script, NoId
    <3>2. CASE doomed \notin DOMAIN subjects
      <4>1. subjects' = subjects
        BY <2>17, <3>2 DEF SubjectDelete
      <4> QED
        BY <2>17, <4>1 DEF SubjectDelete, authors, disk, script, NoId
    <3> QED
      BY <3>1, <3>2
  <2>18. CASE UNCHANGED vars
    BY <2>18 DEF vars
  <2> QED
    BY <2>1, <2>2, <2>3, <2>4, <2>5, <2>6, <2>8, <2>9, <2>10, <2>11, <2>12, <2>13, <2>14,
       <2>15, <2>16, <2>17, <2>18
       DEF Next, Build, Load, Export, Authors, Administrators, Rest
<1> QED
  BY <1>1, <1>2, PTL DEF Spec

\* Only a load inserts questions, and only an export writes sample files.
LEMMA QuestionsKept ==
  ASSUME [Next]_vars
  PROVE  \/ questions' = questions
         \/ LoadInsert /\ questions' = Inserted(Len(BANKS[at].rows), 4)
         \/ LoadDies /\ \E n \in CutAt \cap (1..Len(BANKS[at].rows)), a \in 0..4 :
                           questions' = Inserted(n, a)
<1>1. CASE Build
  BY <1>1 DEF Build, BuildStart, BuildFiles, BuildFilesDies, BuildSeed, BuildSeedDies, db
<1>2. CASE Load
  BY <1>2 DEF Load, LoadStart, LoadLookup, LoadInsert, LoadDies, LoadEnd, db
<1>3. CASE Export
  BY <1>3 DEF Export, ExportStart, ExportFiles, ExportFilesDies, ExportEnd, db
<1>4. CASE Authors \/ Administrators \/ Rest \/ UNCHANGED vars
  BY <1>4 DEF Authors, Administrators, Edit, SubjectCreate, SubjectHide, SubjectCount,
              SubjectDelete, Rest, db, vars
<1> QED
  BY <1>1, <1>2, <1>3, <1>4 DEF Next

LEMMA SamplesKept ==
  ASSUME [Next]_vars
  PROVE  samples' = samples \/ ExportFiles \/ ExportFilesDies
<1>1. CASE Build
  BY <1>1 DEF Build, BuildStart, BuildFiles, BuildFilesDies, BuildSeed, BuildSeedDies, disk
<1>2. CASE Load
  BY <1>2 DEF Load, LoadStart, LoadLookup, LoadInsert, LoadDies, LoadEnd, disk
<1>3. CASE Export
  BY <1>3 DEF Export, ExportStart, ExportEnd, disk
<1>4. CASE Authors \/ Administrators \/ Rest \/ UNCHANGED vars
  BY <1>4 DEF Authors, Administrators, Edit, SubjectCreate, SubjectHide, SubjectCount,
              SubjectDelete, Rest, disk, vars
<1> QED
  BY <1>1, <1>2, <1>3, <1>4 DEF Next

\* The table of subjects changes by these four actions.
LEMMA TableKept ==
  ASSUME [Next]_vars
  PROVE  \/ subjects' = subjects
         \/ \E m \in Watched : SubjectCreate(m)
         \/ \E i \in DOMAIN subjects : SubjectHide(i)
         \/ SubjectDelete
<1>1. CASE UNCHANGED vars
  BY <1>1 DEF vars
<1>2. CASE Build
  BY <1>2 DEF Build, BuildStart, BuildFiles, BuildFilesDies, BuildSeed, BuildSeedDies, db
<1>3. CASE Load
  BY <1>3 DEF Load, LoadStart, LoadLookup, LoadInsert, LoadDies, LoadEnd, db
<1>4. CASE Export
  BY <1>4 DEF Export, ExportStart, ExportFiles, ExportFilesDies, ExportEnd, db
<1>5. CASE Authors
  BY <1>5 DEF Authors, Edit, db
<1>6. ASSUME NEW i \in DOMAIN subjects, SubjectCount(i) PROVE subjects' = subjects
  BY <1>6 DEF SubjectCount
<1>7. CASE Administrators
  BY <1>6, <1>7 DEF Administrators
<1> QED
  BY <1>1, <1>2, <1>3, <1>4, <1>5, <1>7 DEF Next, Rest, vars

\* A row of a subject stays its row, and only a Delete marks it gone.
LEMMA RowsStay ==
  ASSUME TypeOK, [Next]_vars, NEW i \in DOMAIN subjects
  PROVE  /\ i \in DOMAIN subjects' /\ subjects'[i].of = subjects[i].of
         /\ subjects'[i].state = "gone" =>
              subjects[i].state = "gone" \/ (SubjectDelete /\ i = doomed)
<1>0. /\ subjects \in Seq(SubjectRows) /\ i \in 1..Len(subjects) /\ Len(subjects) \in Nat
      /\ DOMAIN subjects = 1..Len(subjects)
      /\ \A j \in DOMAIN subjects : subjects[j] \in SubjectRows
  BY ElementOfSeq DEF TypeOK
<1>1. CASE subjects' = subjects
  BY <1>1
<1>2. ASSUME NEW m \in Watched, SubjectCreate(m)
      PROVE  i \in DOMAIN subjects' /\ subjects'[i] = subjects[i]
  <2>1. [of |-> m, state |-> "shown"] \in SubjectRows
    BY WatchedAssumption DEF SubjectRows, Subjects
  <2> QED
    BY <1>0, <1>2, <2>1 DEF SubjectCreate
<1>3. ASSUME NEW j \in DOMAIN subjects, SubjectHide(j)
      PROVE  /\ i \in DOMAIN subjects' /\ subjects'[i].of = subjects[i].of
             /\ subjects'[i].state = "gone" => subjects[i].state = "gone"
  <2>1. PICK st \in {"shown", "hidden"} : subjects' = [subjects EXCEPT ![j].state = st]
    BY <1>3 DEF SubjectHide
  <2> QED
    BY <1>0, <2>1 DEF SubjectRows
<1>4. CASE SubjectDelete
  <2>1. subjects' = [subjects EXCEPT ![doomed].state = "gone"]
    BY <1>4 DEF SubjectDelete
  <2> QED
    BY <1>0, <1>4, <2>1 DEF SubjectRows
<1> QED
  BY <1>1, <1>2, <1>3, <1>4, TableKept

\* What is said of a row by its id stays true.
LEMMA IdStays ==
  ASSUME TypeOK, [Next]_vars, NEW i, NEW m, IsRowOf(i, m)
  PROVE  IsRowOf(i, m)'
BY RowsStay DEF IsRowOf

\* The ids of the load at work, of the export at work, of the questions and of
\* the sample files are those of rows of their subjects.
THEOREM FoundSubjects == Spec => []SubjectsFound
<1>1. Init => SubjectsFound
  <2> SUFFICES ASSUME Init PROVE SubjectsFound
    OBVIOUS
  <2>1. \A f \in FileNames : samples[f].csv.content.of = NoId /\ samples[f].xlsx.content.of = NoId
    BY DEF Init, Pair, NoSample, NoContent
  <2> QED
    BY <2>1 DEF Init, SubjectsFound
<1>2. TypeOK /\ SubjectsFound /\ [Next]_vars => SubjectsFound'
  <2> SUFFICES ASSUME TypeOK, SubjectsFound, [Next]_vars PROVE SubjectsFound'
    OBVIOUS
  <2> DEFINE AtWork == pc = "insert" /\ sid # NoId => IsRowOf(sid, at)
             Kept == pc = "export" => \A m \in Subjects : ma_mon[m] # NoId => IsRowOf(ma_mon[m], m)
             Loaded == \A q \in questions : q.under # NoId => IsRowOf(q.under, q.of)
             Right(s) == s.content.of # NoId => IsRowOf(s.id, s.content.of)
             Sampled == \A f \in FileNames : Right(samples[f].csv) /\ Right(samples[f].xlsx)
  <2>0. /\ AtWork /\ Kept /\ Loaded /\ Sampled
        /\ AtWork' /\ Kept' /\ Loaded' /\ Sampled' => SubjectsFound'
    BY DEF SubjectsFound
  <2>a. \A i, m : IsRowOf(i, m) => IsRowOf(i, m)'
    BY IdStays
  <2>b. \A s : Right(s) => Right(s)'
    BY <2>a
  <2>c. subjects \in Seq(SubjectRows)
    BY DEF TypeOK
  <2>1. AtWork'
    <3>1. CASE UNCHANGED <<pc, sid, at>>
      BY <2>0, <2>a, <3>1
    <3>2. CASE pc' # "insert"
      BY <3>2
    <3>3. CASE LoadLookup
      <4>1. at \in Subjects /\ (sid' # NoId => sid' \in Named(at))
        BY <3>3 DEF LoadLookup
      <4>2. sid' # NoId => IsRowOf(sid', at)
        BY <2>c, <4>1, OwnRows DEF IsRowOf
      <4>3. subjects' = subjects /\ at' = at
        BY <3>3 DEF LoadLookup, db
      <4> QED
        BY <4>2, <4>3 DEF IsRowOf
    <3> QED
      <4>1. CASE Build
        BY <4>1, <3>1, <3>2 DEF Build, BuildStart, BuildFiles, BuildFilesDies, BuildSeed,
                                BuildSeedDies, Start, Stop
      <4>2. CASE Load
        BY <4>2, <3>2, <3>3 DEF Load, LoadStart, LoadInsert, LoadDies, LoadEnd, Stop
      <4>3. CASE Export
        BY <4>3, <3>2 DEF Export, ExportStart, ExportFiles, ExportFilesDies, ExportEnd,
                          Start, Stop
      <4>4. CASE Authors \/ Administrators \/ Rest \/ UNCHANGED vars
        BY <4>4, <3>1 DEF Authors, Administrators, Edit, SubjectCreate, SubjectHide,
                          SubjectCount, SubjectDelete, Rest, script, vars
      <4> QED
        BY <4>1, <4>2, <4>3, <4>4 DEF Next
  <2>2. Kept'
    <3>1. CASE UNCHANGED <<pc, ma_mon>>
      BY <2>0, <2>a, <3>1
    <3>2. CASE pc' # "export"
      BY <3>2
    <3>3. CASE ExportStart /\ ma_mon' = lay_ma_mon
      <4>1. ASSUME NEW m \in Subjects, lay_ma_mon[m] # NoId
            PROVE  IsRowOf(lay_ma_mon[m], m)
        BY <2>c, <4>1, IdShown, OwnRows DEF IsRowOf
      <4> QED
        BY <2>a, <3>3, <4>1
    <3> QED
      <4>1. CASE Build
        BY <4>1, <3>2 DEF Build, BuildStart, BuildFiles, BuildFilesDies, BuildSeed,
                          BuildSeedDies, Start, Stop
      <4>2. CASE Load
        BY <4>2, <3>2 DEF Load, LoadStart, LoadLookup, LoadInsert, LoadDies, LoadEnd, Stop
      <4>3. CASE Export
        BY <4>3, <3>1, <3>2, <3>3 DEF Export, ExportStart, ExportFiles, ExportFilesDies,
                                      ExportEnd, Start, Stop
      <4>4. CASE Authors \/ Administrators \/ Rest \/ UNCHANGED vars
        BY <4>4, <3>1 DEF Authors, Administrators, Edit, SubjectCreate, SubjectHide,
                          SubjectCount, SubjectDelete, Rest, script, vars
      <4> QED
        BY <4>1, <4>2, <4>3, <4>4 DEF Next
  <2>3. Loaded'
    <3>1. CASE UNCHANGED questions
      BY <2>0, <2>a, <3>1
    <3>2. ASSUME NEW n, NEW a, pc = "insert", questions' = Inserted(n, a)
          PROVE  Loaded'
      <4>1. \A q \in questions' : q \in questions \/ (q.under = sid /\ q.of = at)
        BY <3>2 DEF Inserted
      <4> QED
        BY <2>0, <2>a, <3>2, <4>1
    <3> QED
      BY <3>1, <3>2, QuestionsKept DEF LoadInsert, LoadDies
  <2>4. Sampled'
    <3>1. CASE UNCHANGED samples
      BY <2>0, <2>b, <3>1
    <3>2. CASE ExportFiles /\ ~UNCHANGED samples
      <4>1. at \in Subjects /\ IsRowOf(ma_mon[at], at)
        BY <2>0, <3>2 DEF ExportFiles
      <4>2. Right(Sample(at, TRUE))
        BY <4>1 DEF Sample, Content
      <4>3. samples' = [samples EXCEPT ![FileOf(at)] = Pair(Sample(at, TRUE))]
        BY <3>2 DEF ExportFiles
      <4>4. \A f \in FileNames : samples'[f] = samples[f] \/ samples'[f] = Pair(Sample(at, TRUE))
        BY <4>3 DEF TypeOK
      <4> HIDE DEF Right
      <4>5. ASSUME NEW f \in FileNames
            PROVE  Right(samples'[f].csv) /\ Right(samples'[f].xlsx)
        <5>1. CASE samples'[f] = samples[f]
          BY <2>0, <5>1
        <5>2. CASE samples'[f] = Pair(Sample(at, TRUE))
          <6>1. samples'[f].csv = Sample(at, TRUE) /\ samples'[f].xlsx = Sample(at, TRUE)
            BY <5>2 DEF Pair
          <6> QED
            BY <4>2, <6>1
        <5> QED
          BY <4>4, <5>1, <5>2
      <4> QED
        BY <2>b, <4>5
    <3>3. CASE ExportFilesDies
      <4>1. at \in Subjects /\ IsRowOf(ma_mon[at], at)
        BY <2>0, <3>3, WatchedAssumption DEF ExportFilesDies, Subjects
      <4>2. Right(Sample(at, TRUE)) /\ Right(Sample(at, FALSE))
        BY <4>1 DEF Sample, Content
      <4>3. PICK files \in {samples[FileOf(at)],
                            [samples[FileOf(at)] EXCEPT !.csv = Sample(at, FALSE)],
                            [samples[FileOf(at)] EXCEPT !.csv = Sample(at, TRUE)],
                            [csv |-> Sample(at, TRUE), xlsx |-> Sample(at, FALSE)]} :
                 samples' = [samples EXCEPT ![FileOf(at)] = files]
        BY <3>3 DEF ExportFilesDies
      <4>4. \A f \in FileNames : samples'[f] = samples[f] \/ samples'[f] = files
        BY <4>3 DEF TypeOK
      <4> HIDE DEF Right
      <4>5. Right(files.csv) /\ Right(files.xlsx)
        <5>1. FileOf(at) \in FileNames /\ samples[FileOf(at)] \in [csv: Samples, xlsx: Samples]
          BY <4>1, Dictionary DEF TypeOK
        <5>2. Right(samples[FileOf(at)].csv) /\ Right(samples[FileOf(at)].xlsx)
          BY <2>0, <5>1
        <5>3. /\ files.csv \in {samples[FileOf(at)].csv, Sample(at, TRUE), Sample(at, FALSE)}
              /\ files.xlsx \in {samples[FileOf(at)].xlsx, Sample(at, FALSE)}
          <6>1. CASE files = samples[FileOf(at)]
            BY <6>1
          <6>2. CASE files = [samples[FileOf(at)] EXCEPT !.csv = Sample(at, FALSE)]
            BY <5>1, <6>2
          <6>3. CASE files = [samples[FileOf(at)] EXCEPT !.csv = Sample(at, TRUE)]
            BY <5>1, <6>3
          <6>4. CASE files = [csv |-> Sample(at, TRUE), xlsx |-> Sample(at, FALSE)]
            BY <6>4
          <6> QED
            BY <6>1, <6>2, <6>3, <6>4
        <5>4. Right(files.csv)
          <6>1. CASE files.csv = samples[FileOf(at)].csv
            BY <5>2, <6>1
          <6>2. CASE files.csv = Sample(at, TRUE)
            BY <4>2, <6>2
          <6>3. CASE files.csv = Sample(at, FALSE)
            BY <4>2, <6>3
          <6> QED
            BY <5>3, <6>1, <6>2, <6>3
        <5>5. Right(files.xlsx)
          <6>1. CASE files.xlsx = samples[FileOf(at)].xlsx
            BY <5>2, <6>1
          <6>2. CASE files.xlsx = Sample(at, FALSE)
            BY <4>2, <6>2
          <6> QED
            BY <5>3, <6>1, <6>2
        <5> QED
          BY <5>4, <5>5
      <4>6. \A f \in FileNames : Right(samples'[f].csv) /\ Right(samples'[f].xlsx)
        BY <2>0, <4>4, <4>5
      <4> QED
        BY <2>b, <4>6
    <3> QED
      BY <3>1, <3>2, <3>3, SamplesKept
  <2> QED
    BY <2>0, <2>1, <2>2, <2>3, <2>4
<1> QED
  BY <1>1, <1>2, TypeCorrect, PTL DEF Spec

\* No question is loaded under the subject of another, whatever names have in
\* common but for their marks.
THEOREM LoadedUnderOwnSubject == Spec => []UnderOwnSubject
<1>1. SubjectsFound => UnderOwnSubject
  BY DEF SubjectsFound, UnderOwnSubject, IsRowOf
<1> QED
  BY <1>1, FoundSubjects, PTL

\* A sample file names the subject its rows are of, also when a script died in
\* the middle of it and another subject shares the name of the file.
THEOREM SamplesNameTheirSubject == Spec => []SampleNamesItsSubject
<1>1. TypeOK /\ SubjectsFound => SampleNamesItsSubject
  <2> SUFFICES ASSUME TypeOK, SubjectsFound,
                      NEW f \in FileNames, NEW s \in {samples[f].csv, samples[f].xlsx},
                      s.content.of # NoId
               PROVE  s.id # NoId /\ subjects[s.id].of = s.content.of
    BY DEF SampleNamesItsSubject
  <2>1. IsRowOf(s.id, s.content.of)
    BY DEF SubjectsFound
  <2>2. DOMAIN subjects = 1..Len(subjects) /\ Len(subjects) \in Nat
    BY DEF TypeOK
  <2> QED
    BY <2>1, <2>2 DEF IsRowOf, NoId
<1> QED
  BY <1>1, TypeCorrect, FoundSubjects, PTL

\* A Delete that counted and met no load finds no question; so as long as every
\* Delete was of that kind no question is left without its subject.
THEOREM OrphansOnlyByARace == Spec => []OrphansNeedARace
<1> DEFINE Inv == DeletesCounted /\ OrphansNeedARace
<1>1. Init => Inv
  BY DEF Init, DeletesCounted, OrphansNeedARace, Loading
<1>2. TypeOK /\ SubjectsFound /\ Inv /\ [Next]_vars => Inv'
  <2> SUFFICES ASSUME TypeOK, SubjectsFound, DeletesCounted, OrphansNeedARace, [Next]_vars,
                      calm'
               PROVE  /\ Loading' => doomed' = NoId
                      /\ doomed' # NoId => \A q \in questions' : q.under # doomed'
                      /\ pc' = "insert" /\ sid' # NoId => subjects'[sid'].state # "gone"
                      /\ \A q \in questions' : q.under # NoId => subjects'[q.under].state # "gone"
    BY DEF DeletesCounted, OrphansNeedARace
  <2>1. calm
    <3>1. CASE Build
      BY <3>1 DEF Build, BuildStart, BuildFiles, BuildFilesDies, BuildSeed, BuildSeedDies, db
    <3>2. CASE Load
      BY <3>2 DEF Load, LoadStart, LoadLookup, LoadInsert, LoadDies, LoadEnd, db
    <3>3. CASE Export
      BY <3>3 DEF Export, ExportStart, ExportFiles, ExportFilesDies, ExportEnd, db
    <3>4. CASE Authors \/ Administrators \/ Rest \/ UNCHANGED vars
      BY <3>4 DEF Authors, Administrators, Edit, SubjectCreate, SubjectHide, SubjectCount,
                  SubjectDelete, Rest, db, vars
    <3> QED
      BY <3>1, <3>2, <3>3, <3>4 DEF Next
  <2>2. /\ Loading => doomed = NoId
        /\ doomed # NoId => \A q \in questions : q.under # doomed
        /\ pc = "insert" /\ sid # NoId => subjects[sid].state # "gone" /\ sid \in DOMAIN subjects
        /\ \A q \in questions : q.under # NoId =>
               subjects[q.under].state # "gone" /\ q.under \in DOMAIN subjects
    BY <2>1 DEF DeletesCounted, OrphansNeedARace, SubjectsFound, IsRowOf
  <2>3. ASSUME NEW i \in DOMAIN subjects, subjects[i].state # "gone", ~SubjectDelete \/ i # doomed
        PROVE  subjects'[i].state # "gone"
    BY <2>3, RowsStay
  <2>4. CASE SubjectDelete
    <3>1. /\ doomed # NoId /\ doomed' = NoId /\ questions' = questions
          /\ pc' = pc /\ sid' = sid
      BY <2>4 DEF SubjectDelete, script
    <3>2. pc # "insert"
      BY <2>2, <3>1 DEF Loading
    <3> QED
      BY <2>2, <2>3, <3>1, <3>2
  <2>5. ASSUME NEW i \in DOMAIN subjects, SubjectCount(i) PROVE
           /\ Loading' => doomed' = NoId
           /\ doomed' # NoId => \A q \in questions' : q.under # doomed'
           /\ pc' = "insert" /\ sid' # NoId => subjects'[sid'].state # "gone"
           /\ \A q \in questions' : q.under # NoId => subjects'[q.under].state # "gone"
    <3>1. (\A q \in questions : q.under # i) /\ ~Loading
      BY <2>5 DEF SubjectCount
    <3>2. doomed' = i /\ questions' = questions /\ subjects' = subjects /\ pc' = pc /\ sid' = sid
      BY <2>5 DEF SubjectCount, script
    <3> QED
      BY <2>2, <3>1, <3>2 DEF Loading
  <2>6. CASE ~SubjectDelete /\ doomed' = doomed
    <3>1. CASE UNCHANGED <<pc, sid, questions>>
      BY <2>2, <2>3, <2>6, <3>1 DEF Loading
    <3>2. CASE pc' \in {"idle", "build", "export"} /\ questions' = questions
      BY <2>2, <2>3, <2>6, <3>2 DEF Loading
    <3>3. CASE LoadStart
      BY <2>2, <2>3, <2>6, <3>3 DEF LoadStart, Loading
    <3>4. CASE LoadLookup
      <4>1. subjects' = subjects /\ questions' = questions /\ pc = "lookup"
        BY <3>4 DEF LoadLookup, db
      <4>2. sid' # NoId => subjects[sid'].state # "gone"
        BY <3>4 DEF LoadLookup, Named
      <4> QED
        BY <2>2, <2>6, <4>1, <4>2 DEF Loading
    <3>5. CASE LoadInsert \/ LoadDies
      <4>1. pc = "insert" /\ pc' # "insert" /\ doomed = NoId
        BY <2>2, <3>5 DEF LoadInsert, LoadDies, Stop, Loading
      <4>2. \A q \in questions' : q \in questions \/ q.under = sid
        <5>1. \A n, a : \A q \in Inserted(n, a) : q \in questions \/ q.under = sid
          BY DEF Inserted
        <5> QED
          BY <3>5, <5>1 DEF LoadInsert, LoadDies
      <4> QED
        BY <2>2, <2>3, <2>6, <4>1, <4>2
    <3> QED
      <4>1. CASE Build
        BY <4>1, <3>1, <3>2 DEF Build, BuildStart, BuildFiles, BuildFilesDies, BuildSeed,
                                BuildSeedDies, Stop, Start, db
      <4>2. CASE Load
        BY <4>2, <3>2, <3>3, <3>4, <3>5 DEF Load, LoadEnd, Stop, db
      <4>3. CASE Export
        BY <4>3, <3>1, <3>2 DEF Export, ExportStart, ExportFiles, ExportFilesDies, ExportEnd,
                                Stop, Start, db
      <4>4. CASE Authors \/ Administrators \/ Rest \/ UNCHANGED vars
        <5>1. ASSUME NEW i \in DOMAIN subjects, SubjectCount(i)
              PROVE  UNCHANGED <<pc, sid, questions>>
          BY <5>1 DEF SubjectCount, script
        <5> QED
          BY <4>4, <5>1, <3>1, <2>6 DEF Authors, Administrators, Edit, SubjectCreate,
             SubjectHide, Rest, db, script, vars
      <4> QED
        BY <4>1, <4>2, <4>3, <4>4 DEF Next
  <2>7. \/ SubjectDelete
        \/ \E i \in DOMAIN subjects : SubjectCount(i)
        \/ ~SubjectDelete /\ doomed' = doomed
    <3>1. CASE Build
      BY <3>1 DEF Build, BuildStart, BuildFiles, BuildFilesDies, BuildSeed, BuildSeedDies, db
    <3>2. CASE Load
      BY <3>2 DEF Load, LoadStart, LoadLookup, LoadInsert, LoadDies, LoadEnd, db
    <3>3. CASE Export
      BY <3>3 DEF Export, ExportStart, ExportFiles, ExportFilesDies, ExportEnd, db
    <3>4. CASE Authors \/ Administrators \/ Rest \/ UNCHANGED vars
      BY <3>4 DEF Authors, Administrators, Edit, SubjectCreate, SubjectHide, Rest, db, vars
    <3> QED
      BY <3>1, <3>2, <3>3, <3>4 DEF Next
  <2> QED
    BY <2>4, <2>5, <2>6, <2>7
<1> QED
  BY <1>1, <1>2, TypeCorrect, FoundSubjects, PTL DEF Spec

\* Every row the SQL holds, and every row a question was loaded from, passed the
\* check of the build that wrote it.
THEOREM CheckedBeforeLoaded == Spec => []LoadsChecked
<1>1. Init => LoadsChecked
  BY DEF Init, LoadsChecked, Loading
<1>2. TypeOK /\ LoadsChecked /\ [Next]_vars => LoadsChecked'
  <2> SUFFICES ASSUME TypeOK, LoadsChecked, [Next]_vars PROVE LoadsChecked'
    OBVIOUS
  <2> DEFINE Row(q) == /\ q.rows <= Len(BANKS[q.of].rows)
                       /\ \A i \in DOMAIN BANKS[q.of].rows : WellFormed(RowOf(q.of, q.edit, i))
  <2>0. /\ pc = "build" => RowsChecked(edit)
        /\ seed.state # "none" => RowsChecked(seed.edit)
        /\ Loading => seed.state # "none"
        /\ \A q \in questions : Row(q)
    BY DEF LoadsChecked, Acceptable
  <2>1. pc' = "build" => RowsChecked(edit')
    <3>1. CASE BuildStart
      BY <2>0, <3>1 DEF BuildStart, Start, authors, Acceptable, RowsChecked
    <3>2. CASE edit' = edit /\ (pc' # "build" \/ pc' = pc)
      BY <2>0, <3>2
    <3>3. ASSUME NEW m \in Watched, Edit(m) PROVE pc' # "build"
      BY <3>3 DEF Edit, script
    <3> QED
      <4>1. CASE Build
        BY <4>1, <3>1, <3>2 DEF Build, BuildFiles, BuildFilesDies, BuildSeed, BuildSeedDies,
                                Stop, authors
      <4>2. CASE Load
        BY <4>2, <3>2 DEF Load, LoadStart, LoadLookup, LoadInsert, LoadDies, LoadEnd, Stop,
                          authors
      <4>3. CASE Export
        BY <4>3, <3>2 DEF Export, ExportStart, ExportFiles, ExportFilesDies, ExportEnd, Stop,
                          authors
      <4>4. CASE Authors \/ Administrators \/ Rest \/ UNCHANGED vars
        BY <4>4, <3>2, <3>3 DEF Authors, Administrators, SubjectCreate, SubjectHide,
           SubjectCount, SubjectDelete, Rest, authors, script, vars
      <4> QED
        BY <4>1, <4>2, <4>3, <4>4 DEF Next
  <2>2. (seed'.state # "none" => RowsChecked(seed'.edit)) /\ (Loading' => seed'.state # "none")
    <3>1. CASE seed' = seed /\ (pc' = pc \/ pc' \in {"idle", "build", "export"})
      BY <2>0, <3>1 DEF Loading
    <3>2. CASE BuildSeed \/ BuildSeedDies
      <4>1. RowsChecked(edit) /\ pc' = "idle"
        BY <2>0, <3>2 DEF BuildSeed, BuildSeedDies, Stop
      <4>2. seed' = seed \/ seed'.edit = edit
        BY <3>2 DEF BuildSeed, BuildSeedDies
      <4> QED
        BY <2>0, <4>1, <4>2 DEF Loading
    <3>3. CASE LoadStart \/ LoadLookup \/ LoadInsert
      BY <2>0, <3>3 DEF LoadStart, LoadLookup, LoadInsert, Loading, disk
    <3> QED
      <4>1. CASE Build
        BY <4>1, <3>1, <3>2 DEF Build, BuildStart, BuildFiles, BuildFilesDies, Start, Stop, disk
      <4>2. CASE Load
        BY <4>2, <3>1, <3>3 DEF Load, LoadDies, LoadEnd, Stop, disk
      <4>3. CASE Export
        BY <4>3, <3>1 DEF Export, ExportStart, ExportFiles, ExportFilesDies, ExportEnd, Stop,
                          disk
      <4>4. CASE Authors \/ Administrators \/ Rest \/ UNCHANGED vars
        BY <4>4, <3>1 DEF Authors, Administrators, Edit, SubjectCreate, SubjectHide,
           SubjectCount, SubjectDelete, Rest, disk, script, vars
      <4> QED
        BY <4>1, <4>2, <4>3, <4>4 DEF Next
  <2>3. \A q \in questions' : Row(q)
    <3>1. ASSUME NEW n, NEW a, pc = "insert", n <= Len(BANKS[at].rows),
                 questions' = Inserted(n, a)
          PROVE  \A q \in questions' : Row(q)
      <4> DEFINE new == [load |-> starts, of |-> at, under |-> sid, edit |-> seed.edit[at],
                         rows |-> n, answers |-> a]
      <4>1. at \in Subjects /\ RowsChecked(seed.edit)
        BY <2>0, <3>1 DEF TypeOK, Loading
      <4>2. Row(new)
        BY <3>1, <4>1 DEF RowsChecked
      <4> HIDE DEF new
      <4>3. \A q \in questions' : q \in questions \/ q = new
        BY <3>1 DEF Inserted, new
      <4> HIDE DEF Row
      <4> QED
        BY <2>0, <4>2, <4>3
    <3>2. CASE LoadInsert \/ LoadDies
      <4>1. at \in Subjects /\ Len(BANKS[at].rows) \in Nat
        <5>1. at \in Subjects
          BY <3>2 DEF LoadInsert, LoadDies, TypeOK
        <5>2. BANKS[at].rows \in Seq(Rows0)
          BY <5>1, Dictionary
        <5> QED
          BY <5>1, <5>2
      <4>2. \A n \in CutAt \cap (1..Len(BANKS[at].rows)) : n <= Len(BANKS[at].rows)
        BY <4>1
      <4>3. Len(BANKS[at].rows) <= Len(BANKS[at].rows)
        BY <4>1
      <4> HIDE DEF Row
      <4> QED
        BY <2>0, <3>1, <3>2, <4>2, <4>3, QuestionsKept DEF LoadInsert, LoadDies
    <3> QED
      BY <2>0, <3>2, QuestionsKept
  <2> QED
    BY <2>1, <2>2, <2>3 DEF LoadsChecked, Acceptable, RowsChecked
<1> QED
  BY <1>1, <1>2, TypeCorrect, PTL DEF Spec

\* A question with its four answers has one right one; a load that died left at
\* most one question without all of them.
THEOREM OneRightAnswerAlways == Spec => []OneRightAnswer
<1> DEFINE OneCut == \A p, q \in questions :
                        p.load = q.load /\ p.answers < 4 /\ q.answers < 4 => p = q
           Inv == LoadsCut /\ OneCut
<1>1. Init => Inv
  BY DEF Init, LoadsCut, Loading
<1>2. TypeOK /\ Inv /\ [Next]_vars => Inv'
  <2> SUFFICES ASSUME TypeOK, LoadsCut, OneCut, [Next]_vars PROVE LoadsCut' /\ OneCut'
    OBVIOUS
  <2>0. /\ \A q \in questions : q.load <= starts /\ q.load \in Nat /\ q.answers \in 0..4
        /\ Loading => \A q \in questions : q.load = starts => q.answers = 4
        /\ starts \in Nat
    BY DEF LoadsCut, TypeOK, Groups
  <2>1. CASE questions' = questions /\ starts' = starts /\ (Loading' => Loading)
    BY <2>1, <2>0 DEF LoadsCut
  <2>2. CASE questions' = questions /\ starts' = starts + 1
    <3>1. \A q \in questions' : q.load <= starts' /\ q.load # starts'
      BY <2>0, <2>2
    <3> QED
      BY <2>2, <3>1 DEF LoadsCut
  <2>3. ASSUME NEW n, NEW a \in 0..4, pc = "insert", starts' = starts,
               questions' = Inserted(n, a), Loading' => a = 4
        PROVE  LoadsCut' /\ OneCut'
    <3> DEFINE new == [load |-> starts, of |-> at, under |-> sid, edit |-> seed.edit[at],
                       rows |-> n, answers |-> a]
    <3>1. new.load = starts /\ new.answers = a
      OBVIOUS
    <3>2. \A q \in questions' : q \in questions \/ q = new
      BY <2>3 DEF Inserted
    <3> HIDE DEF new
    <3>3. Loading
      BY <2>3 DEF Loading
    <3>4. LoadsCut'
      BY <2>0, <2>3, <3>1, <3>2, <3>3 DEF LoadsCut
    <3>5. ASSUME NEW p \in questions', NEW q \in questions',
                 p.load = q.load, p.answers < 4, q.answers < 4
          PROVE  p = q
      BY <2>0, <2>3, <3>1, <3>2, <3>3, <3>5
    <3> QED
      BY <3>4, <3>5
  <2>4. CASE LoadInsert \/ LoadDies
    <3>1. CASE questions' = questions
      BY <2>1, <2>4, <3>1 DEF LoadInsert, LoadDies, Stop, Loading
    <3>2. CASE LoadInsert /\ questions' = Inserted(Len(BANKS[at].rows), 4)
      BY <2>3, <3>2 DEF LoadInsert
    <3>3. ASSUME LoadDies, NEW n, NEW a \in 0..4, questions' = Inserted(n, a)
          PROVE  LoadsCut' /\ OneCut'
      BY <2>3, <3>3 DEF LoadDies, Stop, Loading
    <3> QED
      BY <2>4, <3>1, <3>2, <3>3 DEF LoadInsert, LoadDies
  <2> HIDE DEF OneCut
  <2> QED
    <3>1. CASE Build
      BY <3>1, <2>1, <2>2 DEF Build, BuildStart, BuildFiles, BuildFilesDies, BuildSeed,
                              BuildSeedDies, Start, Stop, Loading, db
    <3>2. CASE Load
      BY <3>2, <2>1, <2>2, <2>4 DEF Load, LoadStart, LoadLookup, LoadEnd, Start, Stop, Loading,
                                    db
    <3>3. CASE Export
      BY <3>3, <2>1, <2>2 DEF Export, ExportStart, ExportFiles, ExportFilesDies, ExportEnd,
                              Start, Stop, Loading, db
    <3>4. CASE Authors \/ Administrators \/ Rest \/ UNCHANGED vars
      BY <3>4, <2>1 DEF Authors, Administrators, Edit, SubjectCreate, SubjectHide,
         SubjectCount, SubjectDelete, Rest, db, script, Loading, vars
    <3> QED
      BY <3>1, <3>2, <3>3, <3>4 DEF Next
<1>3. TypeOK /\ LoadsChecked /\ OneCut => OneRightAnswer
  <2> SUFFICES ASSUME TypeOK, LoadsChecked, NEW q \in questions, NEW c \in CorrectOf(q)
               PROVE  Cardinality({k \in 1..4 : Labels[k] = c}) = 1
    BY DEF OneRightAnswer
  <2>1. PICK i \in 1..q.rows : c = RowOf(q.of, q.edit, i).correct
    BY DEF CorrectOf
  <2>2. i \in DOMAIN BANKS[q.of].rows
    <3>1. q.of \in Subjects /\ q.rows \in Nat
      BY DEF TypeOK, Groups
    <3>2. BANKS[q.of].rows \in Seq(Rows0)
      BY <3>1, Dictionary
    <3>3. q.rows <= Len(BANKS[q.of].rows)
      BY DEF LoadsChecked
    <3> QED
      BY <2>1, <3>1, <3>2, <3>3
  <2>3. c \in Letters
    BY <2>1, <2>2 DEF LoadsChecked, WellFormed
  <2>4. PICK j \in 1..4 : {k \in 1..4 : Labels[k] = c} = {j}
    BY <2>3 DEF Letters, Labels
  <2> QED
    BY <2>4, FS_Singleton
<1> QED
  BY <1>1, <1>2, <1>3, TypeCorrect, CheckedBeforeLoaded, PTL DEF Spec

\* Once a build has ended, files and SQL are of the same checked rows, until the
\* next build that writes anything begins.
THEOREM FinishedBuildAgreesAlways == Spec => []FinishedBuildAgrees
<1> DEFINE Inv == BuildWritten /\ FinishedBuildAgrees
<1>1. Init => Inv
  BY DEF Init, BuildWritten, FinishedBuildAgrees
<1>2. TypeOK /\ LoadsChecked /\ Inv /\ [Next]_vars => Inv'
  <2> SUFFICES ASSUME TypeOK, LoadsChecked, BuildWritten, FinishedBuildAgrees, [Next]_vars
               PROVE  BuildWritten' /\ FinishedBuildAgrees'
    OBVIOUS
  <2>1. CASE UNCHANGED <<finished, seed, out>> /\ pc' # "build"
    BY <2>1 DEF BuildWritten, FinishedBuildAgrees
  <2>2. CASE UNCHANGED <<finished, seed, out, pc, at, edit>>
    BY <2>2 DEF BuildWritten, FinishedBuildAgrees, Content
  <2>3. CASE BuildStart
    <3>1. at' = 1 /\ out' = out /\ seed' = seed
      BY <2>3 DEF BuildStart, Start, disk
    <3>2. CASE Acceptable
      <4>1. finished' = FALSE
        BY <2>3, <3>2 DEF BuildStart
      <4>2. \A m \in Subjects : ~(m < at')
        BY <3>1, Dictionary
      <4> QED
        BY <4>1, <4>2 DEF BuildWritten, FinishedBuildAgrees
    <3>3. CASE ~Acceptable
      <4>1. finished' = finished /\ pc' = "idle"
        BY <2>3, <3>3 DEF BuildStart, Start
      <4> QED
        BY <3>1, <2>1, <4>1
    <3> QED
      BY <3>2, <3>3
  <2>4. CASE BuildFiles
    <3>1. /\ ~finished /\ finished' = finished /\ edit' = edit /\ pc = "build" /\ pc' = pc
          /\ at \in Subjects /\ at' = at + 1
          /\ out' = [out EXCEPT ![FileOf(at)] = Pair(Content(at, TRUE))]
      BY <2>4 DEF BuildFiles, BuildWritten, authors
    <3>2. ASSUME NEW m \in Subjects, m < at', \A k \in OfName(FileOf(m)) : k < at' => k <= m
          PROVE  out'[FileOf(m)] = Pair(Content(m, TRUE))
      <4>1. m \in Nat /\ at \in Nat /\ FileOf(m) \in FileNames /\ FileOf(at) \in FileNames
            /\ DOMAIN out = FileNames
        BY <3>1, Dictionary DEF TypeOK
      <4>2. CASE FileOf(m) = FileOf(at)
        <5>1. at \in OfName(FileOf(m))
          BY <3>1, <4>2 DEF OfName
        <5>2. m = at
          BY <3>1, <3>2, <4>1, <5>1
        <5> QED
          BY <3>1, <4>1, <5>2
      <4>3. CASE FileOf(m) # FileOf(at)
        <5>1. m # at /\ m < at
          BY <3>1, <3>2, <4>1, <4>3
        <5>2. \A k \in OfName(FileOf(m)) : k < at => k <= m
          BY <3>1, <3>2, <4>1, Dictionary DEF OfName
        <5>3. out[FileOf(m)] = Pair(Content(m, TRUE))
          BY <3>1, <5>1, <5>2 DEF BuildWritten
        <5> QED
          BY <3>1, <4>1, <4>3, <5>3
      <4> QED
        BY <4>2, <4>3
    <3>3. \A m : Content(m, TRUE)' = Content(m, TRUE)
      BY <3>1 DEF Content
    <3> QED
      BY <3>1, <3>2, <3>3 DEF BuildWritten, FinishedBuildAgrees
  <2>5. CASE BuildFilesDies \/ BuildSeedDies
    <3>1. ~finished /\ finished' = finished /\ pc' = "idle"
      BY <2>5 DEF BuildFilesDies, BuildSeedDies, BuildWritten, Stop
    <3> QED
      BY <3>1 DEF BuildWritten, FinishedBuildAgrees
  <2>6. CASE BuildSeed
    <3>1. /\ pc = "build" /\ pc' = "idle" /\ at \notin Subjects /\ out' = out
          /\ seed' = [state |-> "whole", edit |-> edit]
      BY <2>6 DEF BuildSeed, Stop
    <3>2. \A m \in Subjects : m < at
      BY <3>1, Dictionary DEF TypeOK
    <3>3. RowsChecked(edit)
      BY <3>1 DEF LoadsChecked, Acceptable
    <3>4. ASSUME NEW f \in FileNames, NEW m \in LastOfName(f)
          PROVE  out[f] = Pair([of |-> m, edit |-> edit[m], whole |-> TRUE])
      <4>1. m \in Subjects /\ FileOf(m) = f /\ \A k \in OfName(f) : k <= m
        BY DEF LastOfName, OfName
      <4> QED
        BY <3>1, <3>2, <4>1 DEF BuildWritten, Content
    <3> QED
      BY <3>1, <3>3, <3>4 DEF BuildWritten, FinishedBuildAgrees, RowsChecked
  <2> QED
    <3>1. CASE Build
      BY <3>1, <2>3, <2>4, <2>5, <2>6 DEF Build
    <3>2. CASE Load
      BY <3>2, <2>1 DEF Load, LoadStart, LoadLookup, LoadInsert, LoadDies, LoadEnd, Stop, disk
    <3>3. CASE Export
      <4>1. CASE ExportStart
        BY <4>1, <2>1 DEF ExportStart, Start, disk
      <4> QED
        BY <3>3, <4>1, <2>1 DEF Export, ExportFiles, ExportFilesDies, ExportEnd, Stop, disk
    <3>4. CASE Authors
      <4>1. PICK m \in Watched : Edit(m)
        BY <3>4 DEF Authors
      <4> QED
        BY <4>1, <2>1 DEF Edit, disk, script
    <3>5. CASE Administrators \/ Rest \/ UNCHANGED vars
      BY <3>5, <2>2 DEF Administrators, SubjectCreate, SubjectHide, SubjectCount,
         SubjectDelete, Rest, authors, disk, script, vars
    <3> QED
      BY <3>1, <3>2, <3>3, <3>4, <3>5 DEF Next
<1> QED
  BY <1>1, <1>2, TypeCorrect, CheckedBeforeLoaded, PTL DEF Spec
===============================================================================
