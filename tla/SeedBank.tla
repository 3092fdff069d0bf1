-------------------------------- MODULE SeedBank --------------------------------
(***************************************************************************)
(* The scripts that fill the bank of a new installation                    *)
(* (database/ngan-hang/build.py and xuat-file-mau.py), the load of the SQL *)
(* they make, and the administration of the subjects it goes to            *)
(* (subject_service.go).                                                   *)
(*                                                                         *)
(* An operator runs one script at a time; authors edit the rows between    *)
(* runs (a script reads them when it starts); administrators change the    *)
(* subjects at any moment.  A script may die at any file or statement of a *)
(* watched subject: nothing it did is undone.                              *)
(*                                                                         *)
(* A subject of BANKS is known by its place there, a row of `subjects` by  *)
(* its id, which is its place in the sequence of all rows ever inserted.   *)
(***************************************************************************)
EXTENDS Integers, Sequences, FiniteSets

CONSTANTS
    BANKS,       \* the subjects in the order of the dictionary, with their rows
    Watched,     \* the subjects where scripts die, rows are edited, administrators act
    CutAt,       \* how many questions of a subject a dying load may have inserted
    MaxStarts,   \* bound on the scripts started
    MaxChanges   \* bound on what authors and administrators do

Names == [plain: STRING, exact: STRING]
Rows0 == [columns: Nat, options: Nat, correct: STRING, difficulty: STRING]

\* Keys of a dictionary differ.
ASSUME KeysAssumption ==
    \A m, k \in 1..Len(BANKS) : BANKS[m].name.exact = BANKS[k].name.exact => m = k
ASSUME BanksAssumption == BANKS \in Seq([name: Names, rows: Seq(Rows0)])
ASSUME WatchedAssumption == Watched \subseteq 1..Len(BANKS) /\ CutAt \subseteq Nat
ASSUME BoundsAssumption == MaxStarts \in Nat /\ MaxChanges \in Nat

VARIABLES
    edit,       \* what an author did to the first row of each subject
    out,        \* out/<name>.csv and .xlsx
    seed,       \* out/seed-cau-hoi.sql
    samples,    \* file-mau-import/<name>.csv and .xlsx
    subjects,   \* the table
    questions,  \* the questions loaded, those of one subject and load together
    pc,         \* the script running and where it stands
    at,         \* mon: the subject of its loop
    ma_mon,     \* export: the ids it read
    sid,        \* load: @sid
    starts,     \* scripts started
    changes,    \* changes of authors and administrators
    doomed,     \* the subject a Delete has counted the questions of
    finished,   \* the last build to write anything has ended (history)
    calm        \* no Delete overlapped a load or failed to count (history)

authors == <<edit, changes>>
disk == <<out, seed, samples>>
db == <<subjects, questions, doomed, calm>>
script == <<pc, at, ma_mon, sid, starts>>
vars == <<edit, out, seed, samples, subjects, questions, pc, at, ma_mon, sid, starts,
          changes, doomed, finished, calm>>

Subjects == 1..Len(BANKS)
NoId == 0  \* NULL, None

\* What khong_dau leaves of a name, and MySQL's default comparison of it.
khong_dau(name) == name.plain

FileOf(m) == khong_dau(BANKS[m].name)
FileNames == {FileOf(m) : m \in Subjects}
OfName(f) == {m \in Subjects : FileOf(m) = f}
LastOfName(f) == {m \in OfName(f) : \A k \in OfName(f) : k <= m}

Edits == {"none", "reworded", "columns", "letter", "difficulty", "options"}
Edited(row, e) ==
    [row EXCEPT !.columns = IF e = "columns" THEN 6 ELSE @,
                !.correct = IF e = "letter" THEN "E" ELSE @,
                !.difficulty = IF e = "difficulty" THEN "very hard" ELSE @,
                !.options = IF e = "options" THEN 3 ELSE @]
\* The i-th row of m after that edit.
RowOf(m, e, i) == IF i = 1 THEN Edited(BANKS[m].rows[i], e) ELSE BANKS[m].rows[i]

Labels == <<"A", "B", "C", "D">>
Letters == {Labels[i] : i \in 1..4}

\* A bug: the letter of the right answer goes unchecked.
WellFormedAnyLetter(row) ==
    row.columns = 7 /\ row.difficulty \in {"easy", "medium", "hard"} /\ row.options = 4
WellFormed(row) ==
    /\ row.columns = 7
    /\ row.correct \in Letters
    /\ row.difficulty \in {"easy", "medium", "hard"}
    /\ row.options = 4
\* loi: no row of any subject is refused.
RowsChecked(edits) ==
    \A m \in Subjects : \A i \in DOMAIN BANKS[m].rows : WellFormed(RowOf(m, edits[m], i))
Acceptable == RowsChecked(edit)

\* The rows of m as they are now, in a file of its own.
Content(m, whole) == [of |-> m, edit |-> edit[m], whole |-> whole]
Pair(content) == [csv |-> content, xlsx |-> content]
NoContent == [of |-> NoId, edit |-> "none", whole |-> FALSE]
Contents == [of: Subjects \cup {NoId}, edit: Edits, whole: BOOLEAN]
Sample(m, whole) == [content |-> Content(m, whole), id |-> ma_mon[m]]
NoSample == [content |-> NoContent, id |-> NoId]
Samples == [content: Contents, id: Nat]

SubjectRows == [of: Subjects, state: {"shown", "hidden", "gone"}]
Groups == [load: Nat, of: Subjects, under: Nat, edit: Edits, rows: Nat, answers: 0..4]
Scripts == {"idle", "build", "lookup", "insert", "export"}

TypeOK ==
    /\ edit \in [Subjects -> Edits]
    /\ out \in [FileNames -> [csv: Contents, xlsx: Contents]]
    /\ seed \in [state: {"none", "torn", "whole"}, edit: [Subjects -> Edits]]
    /\ samples \in [FileNames -> [csv: Samples, xlsx: Samples]]
    /\ subjects \in Seq(SubjectRows)
    /\ questions \in SUBSET Groups
    /\ pc \in Scripts
    /\ at \in 1..(Len(BANKS) + 1)
    /\ pc \in {"insert"} => at \in Subjects
    /\ ma_mon \in [Subjects -> Nat]
    /\ sid \in Nat
    /\ starts \in Nat
    /\ changes \in Nat
    /\ doomed \in Nat
    /\ finished \in BOOLEAN
    /\ calm \in BOOLEAN

\* The subjects of the installation: those of BANKS (seed-mon-dai-hoc.sql).
Init ==
    /\ edit = [m \in Subjects |-> "none"]
    /\ out = [f \in FileNames |-> Pair(NoContent)]
    /\ seed = [state |-> "none", edit |-> edit]
    /\ samples = [f \in FileNames |-> Pair(NoSample)]
    /\ subjects = [m \in Subjects |-> [of |-> m, state |-> "shown"]]
    /\ questions = {}
    /\ pc = "idle"
    /\ at = 1
    /\ ma_mon = [m \in Subjects |-> NoId]
    /\ sid = NoId
    /\ starts = 0
    /\ changes = 0
    /\ doomed = NoId
    /\ finished = FALSE
    /\ calm = TRUE

Start ==
    /\ pc = "idle"
    /\ starts < MaxStarts
    /\ starts' = starts + 1
    /\ at' = 1

Stop ==
    /\ pc' = "idle"
    /\ at' = 1
    /\ sid' = NoId
    /\ ma_mon' = [m \in Subjects |-> NoId]

(***************************************************************************)
(* build.py                                                                *)
(***************************************************************************)
\* One row that is not well formed, and nothing is written.
BuildStart ==
    /\ Start
    /\ IF Acceptable THEN pc' = "build" /\ finished' = FALSE
       ELSE UNCHANGED <<pc, finished>>
    /\ UNCHANGED <<authors, disk, db, ma_mon, sid>>

\* A bug: files that are there already are left as they are.
BuildMissingFiles ==
    /\ pc = "build"
    /\ at \in Subjects
    /\ IF out[FileOf(at)].csv.whole THEN UNCHANGED out
       ELSE out' = [out EXCEPT ![FileOf(at)] = Pair(Content(at, TRUE))]
    /\ at' = at + 1
    /\ UNCHANGED <<authors, seed, samples, db, pc, ma_mon, sid, starts, finished>>
BuildFiles ==
    /\ pc = "build"
    /\ at \in Subjects
    /\ out' = [out EXCEPT ![FileOf(at)] = Pair(Content(at, TRUE))]
    /\ at' = at + 1
    /\ UNCHANGED <<authors, seed, samples, db, pc, ma_mon, sid, starts, finished>>

\* Before the csv, with the csv torn or written, with the xlsx torn.
BuildFilesDies ==
    /\ pc = "build"
    /\ at \in Watched
    /\ LET old == out[FileOf(at)]
       IN \E files \in {old,
                        [old EXCEPT !.csv = Content(at, FALSE)],
                        [old EXCEPT !.csv = Content(at, TRUE)],
                        [csv |-> Content(at, TRUE), xlsx |-> Content(at, FALSE)]} :
              out' = [out EXCEPT ![FileOf(at)] = files]
    /\ Stop
    /\ UNCHANGED <<authors, seed, samples, db, starts, finished>>

BuildSeed ==
    /\ pc = "build"
    /\ at \notin Subjects
    /\ seed' = [state |-> "whole", edit |-> edit]
    /\ finished' = TRUE
    /\ Stop
    /\ UNCHANGED <<authors, out, samples, db, starts>>

BuildSeedDies ==
    /\ pc = "build"
    /\ at \notin Subjects
    /\ seed' \in {seed, [state |-> "torn", edit |-> edit]}
    /\ Stop
    /\ UNCHANGED <<authors, out, samples, db, starts, finished>>

(***************************************************************************)
(* mysql < seed-cau-hoi.sql: every statement commits on its own, the first *)
(* error ends the load.                                                    *)
(***************************************************************************)
LoadStart ==
    /\ seed.state # "none"
    /\ Start
    /\ pc' = "lookup"
    /\ UNCHANGED <<authors, disk, subjects, questions, doomed, ma_mon, sid, finished>>
    /\ calm' = (calm /\ doomed = NoId)

\* A bug: the default collation, which compares names without their marks.
NamedWithoutMarks(m) ==
    {i \in DOMAIN subjects : /\ subjects[i].state # "gone"
                             /\ FileOf(subjects[i].of) = FileOf(m)}
\* WHERE name COLLATE utf8mb4_bin = the name of m
Named(m) ==
    {i \in DOMAIN subjects : /\ subjects[i].state # "gone"
                             /\ BANKS[subjects[i].of].name.exact = BANKS[m].name.exact}

\* SET @sid = (SELECT ... LIMIT 1): NULL when there is none.
LoadLookup ==
    /\ pc = "lookup"
    /\ at \in Subjects
    /\ sid' \in IF Named(at) = {} THEN {NoId} ELSE Named(at)
    /\ pc' = "insert"
    /\ UNCHANGED <<authors, disk, db, at, ma_mon, starts, finished>>

\* The questions of `at`: that many inserted, with so many answers of the last.
Inserted(rows, answers) ==
    questions \cup
        {[load |-> starts, of |-> at, under |-> sid, edit |-> seed.edit[at],
          rows |-> rows, answers |-> answers]}

\* A bug: @sid is set once, before the loop.
LoadInsertNoLookup ==
    /\ pc = "insert"
    /\ questions' = Inserted(Len(BANKS[at].rows), 4)
    /\ at' = at + 1
    /\ UNCHANGED <<authors, disk, subjects, doomed, calm, pc, ma_mon, sid, starts, finished>>
\* A torn file ends before its last question.
LoadInsert ==
    /\ pc = "insert"
    /\ seed.state = "torn" => at # Len(BANKS)
    /\ questions' = Inserted(Len(BANKS[at].rows), 4)
    /\ at' = at + 1
    /\ pc' = "lookup"
    /\ UNCHANGED <<authors, disk, subjects, doomed, calm, ma_mon, sid, starts, finished>>

LoadDies ==
    /\ pc = "insert"
    /\ \/ at \in Watched
       \/ seed.state = "torn" /\ at = Len(BANKS)
    /\ \/ UNCHANGED questions
       \/ \E rows \in CutAt \cap (1..Len(BANKS[at].rows)), answers \in 0..4 :
              questions' = Inserted(rows, answers)
    /\ Stop
    /\ UNCHANGED <<authors, disk, subjects, doomed, calm, starts, finished>>

LoadEnd ==
    /\ pc = "lookup"
    /\ at \notin Subjects
    /\ Stop
    /\ UNCHANGED <<authors, disk, db, starts, finished>>

(***************************************************************************)
(* xuat-file-mau.py                                                        *)
(***************************************************************************)
\* A bug: the ids are kept by the name of the file.
ShownOfFile(m) ==
    {i \in DOMAIN subjects : /\ subjects[i].state = "shown"
                             /\ FileOf(subjects[i].of) = FileOf(m)}
Shown(m) ==
    {i \in DOMAIN subjects : /\ subjects[i].state = "shown"
                             /\ BANKS[subjects[i].of].name.exact = BANKS[m].name.exact}

\* lay_ma_mon: of two subjects of a name the one listed last, which has the greater id.
lay_ma_mon ==
    [m \in Subjects |->
        IF Shown(m) = {} THEN NoId ELSE CHOOSE i \in Shown(m) : \A j \in Shown(m) : j <= i]

\* Without the database the script ends.
ExportStart ==
    /\ Start
    /\ \/ pc' = "export" /\ ma_mon' = lay_ma_mon
       \/ UNCHANGED <<pc, ma_mon>>
    /\ UNCHANGED <<authors, disk, db, sid, finished>>

\* A subject without id is left out (thieu).
ExportFiles ==
    /\ pc = "export"
    /\ at \in Subjects
    /\ IF ma_mon[at] = NoId THEN UNCHANGED samples
       ELSE samples' = [samples EXCEPT ![FileOf(at)] =
                            Pair(Sample(at, TRUE))]
    /\ at' = at + 1
    /\ UNCHANGED <<authors, out, seed, db, pc, ma_mon, sid, starts, finished>>

ExportFilesDies ==
    /\ pc = "export"
    /\ at \in Watched
    /\ ma_mon[at] # NoId
    /\ LET old == samples[FileOf(at)]
       IN \E files \in {old,
                        [old EXCEPT !.csv = Sample(at, FALSE)],
                        [old EXCEPT !.csv = Sample(at, TRUE)],
                        [csv |-> Sample(at, TRUE), xlsx |-> Sample(at, FALSE)]} :
              samples' = [samples EXCEPT ![FileOf(at)] = files]
    /\ Stop
    /\ UNCHANGED <<authors, out, seed, db, starts, finished>>

ExportEnd ==
    /\ pc = "export"
    /\ at \notin Subjects
    /\ Stop
    /\ UNCHANGED <<authors, disk, db, starts, finished>>

(***************************************************************************)
(* Authors and administrators                                              *)
(***************************************************************************)
Change == changes < MaxChanges /\ changes' = changes + 1

\* mon_*.py: a script at work has read the rows already.
Edit(m) ==
    /\ Change
    /\ pc = "idle"
    /\ \E e \in Edits \ {edit[m]} : edit' = [edit EXCEPT ![m] = e]
    /\ UNCHANGED <<disk, db, script, finished>>

SubjectCreate(m) ==
    /\ Change
    /\ subjects' = Append(subjects, [of |-> m, state |-> "shown"])
    /\ UNCHANGED <<edit, disk, questions, doomed, calm, script, finished>>

\* Update of `hidden`
SubjectHide(i) ==
    /\ Change
    /\ \/ subjects[i].state = "shown" /\ subjects' = [subjects EXCEPT ![i].state = "hidden"]
       \/ subjects[i].state = "hidden" /\ subjects' = [subjects EXCEPT ![i].state = "shown"]
    /\ UNCHANGED <<edit, disk, questions, doomed, calm, script, finished>>

Loading == pc \in {"lookup", "insert"}

\* A bug: the questions found are not looked at.
SubjectCountOnly(i) ==
    /\ Change
    /\ doomed = NoId
    /\ subjects[i].state # "gone"
    /\ calm' = (calm /\ ~Loading)
    /\ doomed' = i
    /\ UNCHANGED <<edit, disk, subjects, questions, script, finished>>
\* CountUsage: a COUNT that fails reads as zero.
SubjectCount(i) ==
    /\ Change
    /\ doomed = NoId
    /\ subjects[i].state # "gone"
    /\ \/ /\ \A q \in questions : q.under # i
          /\ calm' = (calm /\ ~Loading)
       \/ calm' = FALSE
    /\ doomed' = i
    /\ UNCHANGED <<edit, disk, subjects, questions, script, finished>>

SubjectDelete ==
    /\ doomed # NoId
    /\ subjects' = [subjects EXCEPT ![doomed].state = "gone"]
    /\ doomed' = NoId
    /\ UNCHANGED <<authors, disk, questions, calm, script, finished>>

Build == BuildStart \/ BuildFiles \/ BuildFilesDies \/ BuildSeed \/ BuildSeedDies
Load == LoadStart \/ LoadLookup \/ LoadInsert \/ LoadDies \/ LoadEnd
Export == ExportStart \/ ExportFiles \/ ExportFilesDies \/ ExportEnd
Authors == \E m \in Watched : Edit(m)
Administrators ==
    \/ \E m \in Watched : SubjectCreate(m)
    \/ \E i \in DOMAIN subjects : subjects[i].of \in Watched /\ (SubjectHide(i) \/ SubjectCount(i))
    \/ SubjectDelete

\* Nobody need run anything more; a script at work may not get stuck.
Rest == pc = "idle" /\ UNCHANGED vars

Next == Build \/ Load \/ Export \/ Authors \/ Administrators \/ Rest
Spec == Init /\ [][Next]_vars

(***************************************************************************)
(* Properties                                                              *)
(***************************************************************************)
\* Whatever authors did to the rows, every question loaded with its four
\* answers has exactly one right one, and a load that dies leaves at most one
\* question short of answers (build.py checks all rows before it writes any).
CorrectOf(q) == {RowOf(q.of, q.edit, i).correct : i \in 1..q.rows}
OneRightAnswer ==
    /\ \A q \in questions :
           \A c \in CorrectOf(q) : Cardinality({k \in 1..4 : Labels[k] = c}) = 1
    /\ \A p, q \in questions : p.load = q.load /\ p.answers < 4 /\ q.answers < 4 => p = q

\* No question is loaded under the subject of another, though two of them have
\* the same name but for the marks (build.py:107, the binary comparison).
UnderOwnSubject ==
    \A q \in questions : q.under # NoId => subjects[q.under].of = q.of

\* In a sample file that is whole, rows and id are those of one subject
\* (xuat-file-mau.py), whichever of the subjects of that file name it is.
SampleNamesItsSubject ==
    \A f \in FileNames :
        \A s \in {samples[f].csv, samples[f].xlsx} :
            s.content.of # NoId => s.id # NoId /\ subjects[s.id].of = s.content.of

\* After a build that ended, the files and the SQL are of the same rows, all
\* well formed: each pair of files those of the last subject of that name.
FinishedBuildAgrees ==
    finished =>
        /\ seed.state = "whole"
        /\ RowsChecked(seed.edit)
        /\ \A f \in FileNames : \A m \in LastOfName(f) :
               out[f] = Pair([of |-> m, edit |-> seed.edit[m], whole |-> TRUE])

\* A deleted subject has no questions, unless its deletion overlapped a load
\* or could not count them (subject_service.go:72).
OrphansNeedARace ==
    calm => \A q \in questions : q.under # NoId => subjects[q.under].state # "gone"

(***************************************************************************)
(* What makes those properties inductive                                   *)
(***************************************************************************)
IsRowOf(i, m) == i \in DOMAIN subjects /\ subjects[i].of = m

\* An id at work, kept or written is that of a row of its subject: rows are
\* never taken out, only marked gone.
SubjectsFound ==
    /\ pc = "insert" /\ sid # NoId => IsRowOf(sid, at)
    /\ pc = "export" => \A m \in Subjects : ma_mon[m] # NoId => IsRowOf(ma_mon[m], m)
    /\ \A q \in questions : q.under # NoId => IsRowOf(q.under, q.of)
    /\ \A f \in FileNames : \A s \in {samples[f].csv, samples[f].xlsx} :
           s.content.of # NoId => IsRowOf(s.id, s.content.of)

\* A Delete that is sure of what it counted has nobody loading beside it.
DeletesCounted ==
    calm =>
        /\ Loading => doomed = NoId
        /\ doomed # NoId => \A q \in questions : q.under # doomed
        /\ pc = "insert" /\ sid # NoId => subjects[sid].state # "gone"

\* Rows are checked before a build writes, and what is loaded was written so.
LoadsChecked ==
    /\ pc = "build" => Acceptable
    /\ seed.state # "none" => RowsChecked(seed.edit)
    /\ Loading => seed.state # "none"
    /\ \A q \in questions :
           /\ q.rows <= Len(BANKS[q.of].rows)
           /\ \A i \in DOMAIN BANKS[q.of].rows : WellFormed(RowOf(q.of, q.edit, i))
\* Only the last group of a load can be short of answers.
LoadsCut ==
    /\ \A q \in questions : q.load <= starts
    /\ Loading => \A q \in questions : q.load = starts => q.answers = 4

\* What the build at work has left in the files so far.
BuildWritten ==
    pc = "build" =>
        /\ ~finished
        /\ \A m \in Subjects :
               m < at /\ (\A k \in OfName(FileOf(m)) : k < at => k <= m)
                   => out[FileOf(m)] = Pair(Content(m, TRUE))

\* build.py:7, "<ten-mon>.csv / .xlsx": after a build that ended every subject
\* has its file.
EverySubjectHasItsFile ==
    finished => \A m \in Subjects : out[FileOf(m)].csv.of = m
=============================================================================
