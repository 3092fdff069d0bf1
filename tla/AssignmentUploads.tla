--------------------------- MODULE AssignmentUploads ---------------------------
(***************************************************************************)
(* One student's file for one assignment: the resumable upload, the        *)
(* completed submission and its grade (assignment_service.go).             *)
(*                                                                         *)
(* Three stores are written without a common transaction: the tables       *)
(* `upload_sessions` and `assignment_submissions`, the directory of chunks *)
(* of each session, and the directory of encrypted files.  A member of     *)
(* Requests is a goroutine slot, as in ExamAttempts; each action is one    *)
(* statement or one file operation with the code up to the next one.       *)
(*                                                                         *)
(* A name made by randomID is never made twice: sessions and stored files  *)
(* are used once.  A chunk stands for its content: PUTs of one chunk of    *)
(* one session carry the same bytes.                                       *)
(***************************************************************************)
EXTENDS Integers, FiniteSets

CONSTANTS
    Requests,        \* goroutine slots
    Sessions,        \* ids StartUpload may draw
    NoSession,       \* the id of none of them
    Chunks,          \* chunk indexes of the file
    Standings,       \* what may become of the assignment
    MaxActive,       \* maxActiveUploadSessions
    StatementsFail,  \* TRUE: a statement may return an error
    DiskFails,       \* TRUE: the removal of a file or directory may
    MaxFiles         \* bound on the number of files stored

ASSUME SetsAssumption ==
    /\ IsFiniteSet(Requests) /\ Requests # {}
    /\ IsFiniteSet(Sessions) /\ NoSession \notin Sessions
    /\ Chunks # {}
    /\ "open" \in Standings /\ Standings \subseteq {"open", "closed", "deleted"}

ASSUME BoundsAssumption ==
    /\ MaxActive \in Nat /\ MaxFiles \in Nat
    /\ StatementsFail \in BOOLEAN /\ DiskFails \in BOOLEAN

VARIABLES
    assignment,  \* it takes submissions ("open"), is closed or deleted
    session,     \* `upload_sessions`
    dirs,        \* session directories on disk
    parts,       \* the .part files of each session
    remains,     \* history: the directories whose last removal failed
    row,         \* the row of `assignment_submissions` of this student
    files,       \* the stored files
    nextFile,    \* how many names were drawn for them
    pc,          \* where each request stands
    sess,        \* the session a request is about
    seen,        \* the submission a request read
    own,         \* the file a request stored
    stale        \* the expired sessions a request still has to clean up

vars == <<assignment, session, dirs, parts, remains, row, files, nextFile,
          pc, sess, seen, own, stale>>

Files == 1..MaxFiles

\* A stored file holds the merged chunks of a session; a submission names a
\* file, carries the name and size its session declared, and has a score.
File(s, chunks) == [of |-> s, chunks |-> chunks]
Whole(s) == File(s, Chunks)
NoFile == File(NoSession, {})
FileType == [of: Sessions \cup {NoSession}, chunks: SUBSET Chunks]

Submission(file, s, graded) == [file |-> file, of |-> s, graded |-> graded]
NoRow == Submission(0, NoSession, FALSE)
Exists(r) == r.file # 0
Row == [file: 0..MaxFiles, of: Sessions \cup {NoSession}, graded: BOOLEAN]

PCs == {"idle", "start_sweep", "start_forget", "start_count", "start_mkdir",
        "start_create", "chunk_write", "complete_seen", "complete_store",
        "complete_save", "complete_previous", "complete_sweep",
        "complete_forget", "grade_save"}

TypeOK ==
    /\ assignment \in Standings
    /\ session \in [Sessions -> {"none", "active", "expired", "deleted"}]
    /\ dirs \in SUBSET Sessions
    /\ parts \in [Sessions -> SUBSET Chunks]
    /\ remains \in SUBSET Sessions
    /\ row \in Row
    /\ files \in [Files -> FileType]
    /\ nextFile \in 1..(MaxFiles + 1)
    /\ pc \in [Requests -> PCs]
    /\ sess \in [Requests -> Sessions \cup {NoSession}]
    /\ seen \in [Requests -> Row]
    /\ own \in [Requests -> 0..MaxFiles]
    /\ stale \in [Requests -> SUBSET Sessions]

Init ==
    /\ assignment = "open"
    /\ session = [s \in Sessions |-> "none"]
    /\ dirs = {}
    /\ parts = [s \in Sessions |-> {}]
    /\ remains = {}
    /\ row = NoRow
    /\ files = [f \in Files |-> NoFile]
    /\ nextFile = 1
    /\ pc = [r \in Requests |-> "idle"]
    /\ sess = [r \in Requests |-> NoSession]
    /\ seen = [r \in Requests |-> NoRow]
    /\ own = [r \in Requests |-> 0]
    /\ stale = [r \in Requests |-> {}]

-----------------------------------------------------------------------------
(* Helpers *)

store == <<assignment, session, dirs, parts, remains, row, files, nextFile>>
memory == <<sess, seen, own, stale>>

Goto(r, label) == pc' = [pc EXCEPT ![r] = label]
Finish(r) ==
    /\ Goto(r, "idle")
    /\ sess' = [sess EXCEPT ![r] = NoSession]
    /\ seen' = [seen EXCEPT ![r] = NoRow]
    /\ own' = [own EXCEPT ![r] = 0]
    /\ stale' = [stale EXCEPT ![r] = {}]

\* CountActiveSessions counts these.
Active == {s \in Sessions : session[s] = "active"}

\* A PUT has its file open in the directory of the session.
Writing(s) == \E r \in Requests : pc[r] = "chunk_write" /\ sess[r] = s

\* os.RemoveAll(sessionPath(s)) empties the directory, then removes it; its
\* error is dropped by every caller.  A file created in between (by a PUT at
\* work) or an error of the disk leaves the directory, with any of the chunks.
\* (RemoveEmptyDir and the other definitions that no action uses are slips of
\* the definition after them, for mutants.)
RemoveEmptyDir(s) ==
    /\ dirs' = IF parts[s] = {} THEN dirs \ {s} ELSE dirs
    /\ UNCHANGED <<parts, remains>>
RemoveAll(s) ==
    \/ /\ dirs' = dirs \ {s}
       /\ parts' = [parts EXCEPT ![s] = {}]
       /\ remains' = remains \ {s}
    \/ /\ s \in dirs /\ (DiskFails \/ Writing(s))
       /\ \E C \in SUBSET parts[s] : parts' = [parts EXCEPT ![s] = C]
       /\ remains' = remains \cup {s}
       /\ UNCHANGED dirs

\* DeleteSession; its error is dropped by every caller.
SoftDeleteSession(s) == session' = [session EXCEPT ![s] = "archived"]
DeleteSession(s) ==
    \/ session' = [session EXCEPT ![s] = "deleted"]
    \/ StatementsFail /\ UNCHANGED session

\* os.Remove of a stored file; its error is dropped as well.
RemoveFile(f) ==
    \/ files' = [files EXCEPT ![f] = NoFile]
    \/ DiskFails /\ UNCHANGED files

-----------------------------------------------------------------------------
(* StartUpload *)

\* cleanupExpiredUploads reads the list of expired sessions once.
StartUpload(r) ==
    /\ pc[r] = "idle"
    /\ \E S \in {{s \in Sessions : session[s] = "expired"}}
                   \cup (IF StatementsFail THEN {{}} ELSE {}) :
         stale' = [stale EXCEPT ![r] = S]
    /\ Goto(r, "start_sweep")
    /\ UNCHANGED <<store, sess, seen, own>>

StartSweep(r) ==
    /\ pc[r] = "start_sweep"
    /\ \/ \E s \in stale[r] :
            /\ RemoveAll(s)
            /\ sess' = [sess EXCEPT ![r] = s]
            /\ stale' = [stale EXCEPT ![r] = @ \ {s}]
            /\ Goto(r, "start_forget")
       \/ /\ stale[r] = {}
          /\ Goto(r, "start_count")
          /\ UNCHANGED <<dirs, parts, remains, sess, stale>>
    /\ UNCHANGED <<assignment, session, row, files, nextFile, seen, own>>

StartForget(r) ==
    /\ pc[r] = "start_forget"
    /\ DeleteSession(sess[r])
    /\ sess' = [sess EXCEPT ![r] = NoSession]
    /\ Goto(r, "start_sweep")
    /\ UNCHANGED <<assignment, dirs, parts, remains, row, files, nextFile>>
    /\ UNCHANGED <<seen, own, stale>>

\* The assignment is open, its class has the student, the file's declared
\* type and size are allowed and the student has not too many sessions: draw
\* the id of a new one.
TooManyOffByOne == Cardinality(Active) > MaxActive
TooMany == Cardinality(Active) >= MaxActive
StartCount(r) ==
    /\ pc[r] = "start_count"
    /\ assignment = "open" /\ ~TooMany
    /\ \E s \in Sessions \ dirs :
         /\ session[s] = "none" /\ \A q \in Requests : sess[q] # s
         /\ sess' = [sess EXCEPT ![r] = s]
    /\ Goto(r, "start_mkdir")
    /\ UNCHANGED <<store, seen, own, stale>>

StartMkdir(r) ==
    /\ pc[r] = "start_mkdir"
    /\ dirs' = dirs \cup {sess[r]}
    /\ Goto(r, "start_create")
    /\ UNCHANGED <<assignment, session, parts, remains, row, files, nextFile>>
    /\ UNCHANGED memory

StartCreate(r) ==
    /\ pc[r] = "start_create"
    /\ session' = [session EXCEPT ![sess[r]] = "active"]
    /\ Finish(r)
    /\ UNCHANGED <<assignment, dirs, parts, remains, row, files, nextFile>>

StartCreateFails(r) ==
    /\ StatementsFail /\ pc[r] = "start_create"
    /\ RemoveAll(sess[r])
    /\ Finish(r)
    /\ UNCHANGED <<assignment, session, row, files, nextFile>>

-----------------------------------------------------------------------------
(* SaveChunk *)

ChunkFind(r, s) ==
    /\ pc[r] = "idle"
    /\ session[s] = "active"
    /\ sess' = [sess EXCEPT ![r] = s]
    /\ Goto(r, "chunk_write")
    /\ UNCHANGED <<store, seen, own, stale>>

\* The chunk is written beside its place and renamed into it.  A chunk of the
\* wrong index or size is refused; without the directory, or when a removal
\* took the file before it got its name, the write fails.
ChunkWrite(r) ==
    /\ pc[r] = "chunk_write"
    /\ \/ /\ sess[r] \in dirs
          /\ \E c \in Chunks : parts' = [parts EXCEPT ![sess[r]] = @ \cup {c}]
       \/ UNCHANGED parts
    /\ Finish(r)
    /\ UNCHANGED <<assignment, session, dirs, remains, row, files, nextFile>>

-----------------------------------------------------------------------------
(* CompleteUpload *)

\* FindSession, FindByID and the window.  Expiry is not looked at.
CompleteFind(r, s) ==
    /\ pc[r] = "idle"
    /\ session[s] \in {"active", "expired"}
    /\ assignment = "open"
    /\ sess' = [sess EXCEPT ![r] = s]
    /\ Goto(r, "complete_seen")
    /\ UNCHANGED <<store, seen, own, stale>>

\* FindSubmission: a graded submission refuses the upload; an error is taken
\* for "none yet".
GradeNotLookedAt(copy) == FALSE
AlreadyGraded(copy) == copy.graded
CompleteSeen(r) ==
    /\ pc[r] = "complete_seen"
    /\ \E copy \in {row} \cup (IF StatementsFail THEN {NoRow} ELSE {}) :
         IF AlreadyGraded(copy)
         THEN Finish(r)
         ELSE /\ seen' = [seen EXCEPT ![r] = copy]
              /\ Goto(r, "complete_store")
              /\ UNCHANGED <<sess, own, stale>>
    /\ UNCHANGED store

\* chunkCount, mergeChunks and the size check let only a whole file through;
\* it is stored under a new name.
AnyPart(s) == parts[s] # {}
AllParts(s) == parts[s] = Chunks
CompleteStore(r) ==
    /\ pc[r] = "complete_store"
    /\ AllParts(sess[r])
    /\ nextFile <= MaxFiles
    /\ files' = [files EXCEPT ![nextFile] = File(sess[r], parts[sess[r]])]
    /\ own' = [own EXCEPT ![r] = nextFile]
    /\ nextFile' = nextFile + 1
    /\ Goto(r, "complete_save")
    /\ UNCHANGED <<assignment, session, dirs, parts, remains, row>>
    /\ UNCHANGED <<sess, seen, stale>>

\* SaveSubmission writes every column: an update of the row that was seen, or
\* an insert, which the unique index refuses when there is a row by now.
SaveAccepted(r) == Exists(seen[r]) \/ ~Exists(row)
CompleteSave(r) ==
    /\ pc[r] = "complete_save"
    /\ SaveAccepted(r)
    /\ row' = Submission(own[r], sess[r], FALSE)
    /\ own' = [own EXCEPT ![r] = 0]
    /\ Goto(r, "complete_previous")
    /\ UNCHANGED <<assignment, session, dirs, parts, remains, files, nextFile>>
    /\ UNCHANGED <<sess, seen, stale>>

UnsavedPrevious(r) == seen[r].file
Unsaved(r) == own[r]
CompleteSaveFails(r) ==
    /\ pc[r] = "complete_save"
    /\ ~SaveAccepted(r) \/ StatementsFail
    /\ RemoveFile(Unsaved(r))
    /\ Finish(r)
    /\ UNCHANGED <<assignment, session, dirs, parts, remains, row, nextFile>>

CompletePrevious(r) ==
    /\ pc[r] = "complete_previous"
    /\ IF Exists(seen[r]) THEN RemoveFile(seen[r].file) ELSE UNCHANGED files
    /\ seen' = [seen EXCEPT ![r] = NoRow]
    /\ Goto(r, "complete_sweep")
    /\ UNCHANGED <<assignment, session, dirs, parts, remains, row, nextFile>>
    /\ UNCHANGED <<sess, own, stale>>

CompleteSweep(r) ==
    /\ pc[r] = "complete_sweep"
    /\ RemoveAll(sess[r])
    /\ Goto(r, "complete_forget")
    /\ UNCHANGED <<assignment, session, row, files, nextFile, memory>>

CompleteForget(r) ==
    /\ pc[r] = "complete_forget"
    /\ DeleteSession(sess[r])
    /\ Finish(r)
    /\ UNCHANGED <<assignment, dirs, parts, remains, row, files, nextFile>>

-----------------------------------------------------------------------------
(* Grade *)

GradeFind(r) ==
    /\ pc[r] = "idle"
    /\ Exists(row) /\ assignment # "deleted"
    /\ seen' = [seen EXCEPT ![r] = row]
    /\ Goto(r, "grade_save")
    /\ UNCHANGED <<store, sess, own, stale>>

\* SaveSubmission writes every column of the copy, not only the score.
GradeSave(r) ==
    /\ pc[r] = "grade_save"
    /\ \/ row' = [seen[r] EXCEPT !.graded = TRUE]
       \/ StatementsFail /\ UNCHANGED row
    /\ Finish(r)
    /\ UNCHANGED <<assignment, session, dirs, parts, remains, files, nextFile>>

-----------------------------------------------------------------------------
(* Refusals *)

\* Not a member of the class, a file type that is not allowed, too many
\* sessions; no directory; an incomplete file, a wrong signature, a key or a
\* disk that fails: the request is answered with an error and has left
\* nothing behind (but the torn file of a disk that is full, which nothing
\* names and this module leaves out).
Refused(r) ==
    /\ pc[r] \in {"start_count", "start_mkdir", "complete_store"}
    /\ Finish(r)
    /\ UNCHANGED store

-----------------------------------------------------------------------------
(* The rest of the system *)

\* Time passes the due date, the teacher moves it, or deletes the assignment
\* (only its own row: sessions and submissions stay).
AssignmentChanges ==
    /\ assignment # "deleted"
    /\ assignment' \in Standings \ {assignment}
    /\ UNCHANGED <<session, dirs, parts, remains, row, files, nextFile>>
    /\ UNCHANGED <<pc, memory>>

\* The session's 24 hours are over.
SessionExpires(s) ==
    /\ session[s] = "active"
    /\ session' = [session EXCEPT ![s] = "expired"]
    /\ UNCHANGED <<assignment, dirs, parts, remains, row, files, nextFile>>
    /\ UNCHANGED <<pc, memory>>

\* The process dies; tables and disk stay as they are.
Crash ==
    /\ pc' = [r \in Requests |-> "idle"]
    /\ sess' = [r \in Requests |-> NoSession]
    /\ seen' = [r \in Requests |-> NoRow]
    /\ own' = [r \in Requests |-> 0]
    /\ stale' = [r \in Requests |-> {}]
    /\ UNCHANGED store

Start(r) ==
    \/ StartUpload(r) \/ StartSweep(r) \/ StartForget(r) \/ StartCount(r)
    \/ StartMkdir(r) \/ StartCreate(r) \/ StartCreateFails(r)

Complete(r) ==
    \/ CompleteSeen(r) \/ CompleteStore(r) \/ CompleteSave(r)
    \/ CompleteSaveFails(r) \/ CompletePrevious(r) \/ CompleteSweep(r)
    \/ CompleteForget(r)

Next ==
    \/ \E r \in Requests :
         \/ Start(r)
         \/ \E s \in Sessions : ChunkFind(r, s) \/ CompleteFind(r, s)
         \/ ChunkWrite(r) \/ Complete(r)
         \/ GradeFind(r) \/ GradeSave(r)
         \/ Refused(r)
    \/ \E s \in Sessions : SessionExpires(s)
    \/ AssignmentChanges \/ Crash

Spec == Init /\ [][Next]_vars

-----------------------------------------------------------------------------
(* Properties *)

\* Whoever uploads, replaces, sweeps or grades meanwhile, the file a
\* submission names is the whole file of the very upload whose name and size
\* the submission shows.  It is missing only when a teacher's grade, read
\* before a resubmission and saved after it, brought back the old row.
RowFile ==
    Exists(row) =>
        \/ files[row.file] = Whole(row.of)
        \/ row.graded /\ files[row.file] = NoFile

\* However StartUpload requests interleave, a student has at most
\* MaxActive unfinished sessions and one more for each other request in
\* flight (the count and the insert are two statements).
Starting == {r \in Requests : pc[r] \in {"start_mkdir", "start_create"}}
ActiveWithinRace ==
    Cardinality(Active) + Cardinality(Starting)
        <= MaxActive + Cardinality(Requests) - 1

\* Chunks that lost their session's row, the only thing that leads
\* cleanupExpiredUploads to them, were left by a removal that failed while the
\* row went all the same (both errors are dropped).  Nothing else leaves any:
\* no crash between the removal and the row, no deletion that fails, no second
\* sweep or completion of the session, no PUT that comes after the removal.
HasRow(s) == session[s] \in {"active", "expired"}
PartsHaveTheirSession ==
    \A s \in Sessions : parts[s] # {} => HasRow(s) \/ s \in remains

\* No chunks are left at all, as long as no removal fails.
NothingRemains == \A s \in Sessions : parts[s] # {} => HasRow(s)

\* The file of a submission can be read by Download.
Downloadable == Exists(row) => files[row.file] # NoFile

\* CompleteUpload refuses a graded submission ("Bài đã được chấm điểm, không
\* thể nộp lại"): once graded, it keeps its file and a grade.
GradedIsFinal ==
    [][Exists(row) /\ row.graded => row'.graded /\ row'.file = row.file]_vars

\* maxActiveUploadSessions bounds the unfinished sessions of a student.
ActiveLimit == Cardinality(Active) <= MaxActive

-----------------------------------------------------------------------------
(* What makes RowFile and PartsHaveTheirSession inductive *)

\* Past the choice of a session, a request has one.
WithSession == {"start_forget", "start_mkdir", "start_create", "chunk_write",
                "complete_seen", "complete_store", "complete_save",
                "complete_previous", "complete_sweep", "complete_forget"}
SessionChosen == \A r \in Requests : pc[r] \in WithSession => sess[r] \in Sessions

\* The same, for the copy of a submission a request holds.
CopyFile ==
    \A r \in Requests : Exists(seen[r]) =>
        /\ seen[r].file < nextFile
        /\ files[seen[r].file] \in {NoFile, Whole(seen[r].of)}

RowFileStored == Exists(row) => row.file < nextFile

\* A file just stored belongs to one request, and nothing names it yet.
OwnFile ==
    \A r \in Requests : pc[r] = "complete_save" =>
        /\ own[r] \in 1..(nextFile - 1)
        /\ files[own[r]] = Whole(sess[r])
        /\ row.file # own[r]
        /\ \A q \in Requests :
             /\ seen[q].file # own[r]
             /\ pc[q] = "complete_save" /\ q # r => own[q] # own[r]

\* The file a request is about to remove is no longer the submission's,
\* unless a grade brought it back.
Replaced ==
    \A r \in Requests : pc[r] = "complete_previous" /\ Exists(seen[r]) =>
        row.graded \/ row.file # seen[r].file

\* A request that is grading holds a submission.
GradingCopy == \A r \in Requests : pc[r] = "grade_save" => Exists(seen[r])

\* When requests come one at a time, the copy a request acts on is the row:
\* what completes was not graded, unless the look at it failed, and a grade is
\* saved on what it was given for.
CopyIsCurrent ==
    \A r \in Requests :
        /\ pc[r] \in {"complete_store", "complete_save"} =>
             seen[r] \in {row, NoRow} /\ ~seen[r].graded
        /\ pc[r] = "complete_previous" => ~row.graded
        /\ pc[r] = "grade_save" => seen[r] = row

FilesInv ==
    /\ RowFile /\ CopyFile /\ RowFileStored
    /\ OwnFile /\ Replaced /\ GradingCopy

\* The session a starting request is about to create is known to no one else.
FreshSession ==
    \A r \in Starting :
        /\ session[sess[r]] = "none"
        /\ \A q \in Starting \ {r} : sess[q] # sess[r]

\* Every other request, and every list to clean up, is of sessions created.
KnownSession ==
    /\ \A r \in Requests : pc[r] \in WithSession /\ r \notin Starting =>
         session[sess[r]] # "none"
    /\ \A r \in Requests : \A s \in stale[r] : session[s] # "none"

\* The directory goes before the row, unless its removal failed.
Gone(s) == s \notin dirs /\ parts[s] = {}
SweptFirst ==
    /\ \A r \in Requests : pc[r] \in {"start_forget", "complete_forget"} =>
         Gone(sess[r]) \/ sess[r] \in remains
    /\ \A s \in dirs : session[s] = "deleted" => s \in remains

SessionsInv == FreshSession /\ KnownSession /\ SweptFirst /\ PartsHaveTheirSession
=============================================================================
