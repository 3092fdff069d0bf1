------------------------ MODULE AssignmentUploadsProofs ------------------------
(***************************************************************************)
(* Proofs about AssignmentUploads, for every set of requests, sessions and *)
(* chunks and every bound.                                                 *)
(***************************************************************************)
EXTENDS AssignmentUploads, FiniteSetTheorems, TLAPS

\* The fields of the rows and files the actions write.
LEMMA RecordFields ==
  /\ \A f, s, g : /\ Submission(f, s, g).file = f
                  /\ Submission(f, s, g).of = s
                  /\ Submission(f, s, g).graded = g
  /\ \A f \in 0..MaxFiles, s \in Sessions \cup {NoSession}, g \in BOOLEAN :
       Submission(f, s, g) \in Row
  /\ \A s \in Sessions \cup {NoSession}, C \in SUBSET Chunks :
       File(s, C) \in FileType
  /\ NoFile \in FileType /\ NoRow \in Row /\ NoRow.file = 0
BY BoundsAssumption DEF Submission, Row, File, FileType, NoFile, NoRow

\* What is known of a row, and of the row with a grade put on it.
LEMMA RowFields ==
  ASSUME NEW copy \in Row
  PROVE  /\ copy.file \in 0..MaxFiles
         /\ copy.of \in Sessions \cup {NoSession}
         /\ copy.graded \in BOOLEAN
         /\ [copy EXCEPT !.graded = TRUE] \in Row
         /\ [copy EXCEPT !.graded = TRUE].file = copy.file
         /\ [copy EXCEPT !.graded = TRUE].of = copy.of
         /\ [copy EXCEPT !.graded = TRUE].graded = TRUE
BY DEF Row

-----------------------------------------------------------------------------
(* Type correctness *)

\* Every reachable state of the upload tables, directories, files and request
\* slots has its type, and a request past the choice of a session has one.
THEOREM Typing == Spec => [](TypeOK /\ SessionChosen)
<1>1. Init => TypeOK /\ SessionChosen
  BY RecordFields, SetsAssumption, BoundsAssumption
     DEF Init, TypeOK, PCs, SessionChosen, WithSession
<1>2. TypeOK /\ SessionChosen /\ [Next]_vars => TypeOK'
  <2> SUFFICES ASSUME TypeOK, SessionChosen, [Next]_vars PROVE TypeOK'
    OBVIOUS
  <2> USE DEF TypeOK, store, memory
  <2>a. ASSUME NEW r \in Requests, NEW l \in PCs, Goto(r, l)
        PROVE  pc' \in [Requests -> PCs]
    BY <2>a DEF Goto
  <2>b. ASSUME NEW r \in Requests, Finish(r)
        PROVE  /\ pc' \in [Requests -> PCs]
               /\ sess' \in [Requests -> Sessions \cup {NoSession}]
               /\ seen' \in [Requests -> Row]
               /\ own' \in [Requests -> 0..MaxFiles]
               /\ stale' \in [Requests -> SUBSET Sessions]
    BY <2>b, RecordFields, BoundsAssumption DEF Finish, Goto, PCs
  <2>c. ASSUME NEW s, RemoveAll(s)
        PROVE  /\ dirs' \in SUBSET Sessions /\ parts' \in [Sessions -> SUBSET Chunks]
               /\ remains' \in SUBSET Sessions
    <3>1. dirs' \in SUBSET Sessions /\ remains' \in SUBSET Sessions
      BY <2>c DEF RemoveAll
    <3>2. PICK C \in SUBSET Chunks : parts' = [parts EXCEPT ![s] = C]
      <4>1. CASE parts' = [parts EXCEPT ![s] = {}]
        BY <4>1
      <4>2. CASE s \in dirs /\ \E C \in SUBSET parts[s] : parts' = [parts EXCEPT ![s] = C]
        BY <4>2
      <4> QED
        BY <2>c, <4>1, <4>2 DEF RemoveAll
    <3> QED
      BY <3>1, <3>2
  <2>d. ASSUME NEW s, DeleteSession(s)
        PROVE  session' \in [Sessions -> {"none", "active", "expired", "deleted"}]
    BY <2>d DEF DeleteSession
  <2>e. ASSUME NEW f, RemoveFile(f)
        PROVE  files' \in [Files -> FileType]
    BY <2>e, RecordFields DEF RemoveFile
  <2>1. ASSUME NEW r \in Requests, StartUpload(r) PROVE TypeOK'
    <3>1. PICK S \in SUBSET Sessions : stale' = [stale EXCEPT ![r] = S]
      BY <2>1 DEF StartUpload
    <3> QED
      BY <2>1, <2>a, <3>1 DEF StartUpload, PCs
  <2>2. ASSUME NEW r \in Requests, StartSweep(r) PROVE TypeOK'
    <3>1. CASE /\ stale[r] = {} /\ Goto(r, "start_count")
               /\ UNCHANGED <<dirs, parts, remains, sess, stale>>
      BY <2>2, <2>a, <3>1 DEF StartSweep, PCs
    <3>2. CASE \E s \in stale[r] :
                 /\ RemoveAll(s)
                 /\ sess' = [sess EXCEPT ![r] = s]
                 /\ stale' = [stale EXCEPT ![r] = @ \ {s}]
                 /\ Goto(r, "start_forget")
      BY <2>2, <2>a, <2>c, <3>2 DEF StartSweep, PCs
    <3> QED
      BY <2>2, <3>1, <3>2 DEF StartSweep
  <2>3. ASSUME NEW r \in Requests, StartForget(r) PROVE TypeOK'
    BY <2>3, <2>a, <2>d DEF StartForget, PCs
  <2>4. ASSUME NEW r \in Requests, StartCount(r) PROVE TypeOK'
    BY <2>4, <2>a DEF StartCount, PCs
  <2>5. ASSUME NEW r \in Requests, StartMkdir(r) PROVE TypeOK'
    <3>1. sess[r] \in Sessions
      BY <2>5 DEF StartMkdir, SessionChosen, WithSession
    <3> QED
      BY <2>5, <2>a, <3>1 DEF StartMkdir, PCs
  <2>6. ASSUME NEW r \in Requests, StartCreate(r) PROVE TypeOK'
    BY <2>6, <2>b DEF StartCreate
  <2>7. ASSUME NEW r \in Requests, StartCreateFails(r) PROVE TypeOK'
    <3>1. /\ dirs' \in SUBSET Sessions /\ parts' \in [Sessions -> SUBSET Chunks]
          /\ remains' \in SUBSET Sessions
      BY <2>7, <2>c DEF StartCreateFails
    <3> QED
      BY <2>7, <2>b, <3>1 DEF StartCreateFails
  <2>8. ASSUME NEW r \in Requests, NEW s \in Sessions, ChunkFind(r, s) PROVE TypeOK'
    BY <2>8, <2>a DEF ChunkFind, PCs
  <2>9. ASSUME NEW r \in Requests, ChunkWrite(r) PROVE TypeOK'
    <3>1. parts' \in [Sessions -> SUBSET Chunks]
      BY <2>9 DEF ChunkWrite
    <3> QED
      BY <2>9, <2>b, <3>1 DEF ChunkWrite
  <2>10. ASSUME NEW r \in Requests, NEW s \in Sessions, CompleteFind(r, s) PROVE TypeOK'
    BY <2>10, <2>a DEF CompleteFind, PCs
  <2>11. ASSUME NEW r \in Requests, CompleteSeen(r) PROVE TypeOK'
    <3>1. CASE Finish(r)
      BY <2>11, <2>b, <3>1 DEF CompleteSeen
    <3>2. CASE ~Finish(r)
      <4>1. PICK copy \in Row : /\ seen' = [seen EXCEPT ![r] = copy]
                                /\ Goto(r, "complete_store")
                                /\ UNCHANGED <<sess, own, stale>>
        BY <2>11, <3>2, RecordFields DEF CompleteSeen
      <4> QED
        BY <2>11, <2>a, <4>1 DEF CompleteSeen, PCs
    <3> QED
      BY <3>1, <3>2
  <2>12. ASSUME NEW r \in Requests, CompleteStore(r) PROVE TypeOK'
    <3>1. File(sess[r], parts[sess[r]]) \in FileType
      BY <2>12, RecordFields DEF CompleteStore, AllParts
    <3>2. files' \in [Files -> FileType]
      BY <2>12, <3>1 DEF CompleteStore
    <3>3. own' \in [Requests -> 0..MaxFiles] /\ nextFile' \in 1..(MaxFiles + 1)
      BY <2>12, BoundsAssumption DEF CompleteStore
    <3> QED
      BY <2>12, <2>a, <3>2, <3>3 DEF CompleteStore, PCs
  <2>13. ASSUME NEW r \in Requests, CompleteSave(r) PROVE TypeOK'
    <3>1. row' \in Row
      BY <2>13, RecordFields DEF CompleteSave
    <3>2. own' \in [Requests -> 0..MaxFiles]
      BY <2>13, BoundsAssumption DEF CompleteSave
    <3> QED
      BY <2>13, <2>a, <3>1, <3>2 DEF CompleteSave, PCs
  <2>14. ASSUME NEW r \in Requests, CompleteSaveFails(r) PROVE TypeOK'
    BY <2>14, <2>b, <2>e DEF CompleteSaveFails
  <2>15. ASSUME NEW r \in Requests, CompletePrevious(r) PROVE TypeOK'
    <3>1. files' \in [Files -> FileType]
      BY <2>15, <2>e DEF CompletePrevious
    <3>2. seen' \in [Requests -> Row]
      BY <2>15, RecordFields DEF CompletePrevious
    <3> QED
      BY <2>15, <2>a, <3>1, <3>2 DEF CompletePrevious, PCs
  <2>16. ASSUME NEW r \in Requests, CompleteSweep(r) PROVE TypeOK'
    BY <2>16, <2>a, <2>c DEF CompleteSweep, PCs
  <2>17. ASSUME NEW r \in Requests, CompleteForget(r) PROVE TypeOK'
    BY <2>17, <2>b, <2>d DEF CompleteForget
  <2>18. ASSUME NEW r \in Requests, GradeFind(r) PROVE TypeOK'
    BY <2>18, <2>a DEF GradeFind, PCs
  <2>19. ASSUME NEW r \in Requests, GradeSave(r) PROVE TypeOK'
    <3>1. row' \in Row
      BY <2>19, RowFields DEF GradeSave
    <3> QED
      BY <2>19, <2>b, <3>1 DEF GradeSave
  <2>20. ASSUME NEW s \in Sessions, SessionExpires(s) PROVE TypeOK'
    BY <2>20 DEF SessionExpires
  <2>21. CASE AssignmentChanges
    BY <2>21 DEF AssignmentChanges
  <2>22. CASE Crash
    BY <2>22, RecordFields, BoundsAssumption DEF Crash, PCs
  <2>23. CASE UNCHANGED vars
    BY <2>23 DEF vars
  <2>24. ASSUME NEW r \in Requests, Refused(r) PROVE TypeOK'
    BY <2>24, <2>b DEF Refused
  <2> QED
    BY <2>1, <2>2, <2>3, <2>4, <2>5, <2>6, <2>7, <2>8, <2>9, <2>10, <2>11,
       <2>12, <2>13, <2>14, <2>15, <2>16, <2>17, <2>18, <2>19, <2>20, <2>21,
       <2>22, <2>23, <2>24 DEF Next, Start, Complete
<1>3. TypeOK /\ SessionChosen /\ [Next]_vars => SessionChosen'
  <2> SUFFICES ASSUME TypeOK, SessionChosen, [Next]_vars,
                      NEW q \in Requests, pc'[q] \in WithSession
               PROVE  sess'[q] \in Sessions
    BY DEF SessionChosen
  <2> USE DEF TypeOK, store, memory, WithSession, SessionChosen
  <2>a. ASSUME NEW r \in Requests, NEW l, Goto(r, l)
        PROVE  pc'[r] = l /\ \A p \in Requests \ {r} : pc'[p] = pc[p]
    BY <2>a DEF Goto
  <2>b. ASSUME NEW r \in Requests, Finish(r)
        PROVE  q # r /\ pc'[q] = pc[q] /\ sess'[q] = sess[q]
    BY <2>b DEF Finish, Goto
  <2>1. ASSUME NEW r \in Requests, Start(r) PROVE sess'[q] \in Sessions
    <3>1. CASE StartUpload(r)
      BY <2>a, <3>1 DEF StartUpload
    <3>2. CASE StartSweep(r)
      BY <2>a, <3>2 DEF StartSweep
    <3>3. CASE StartForget(r) \/ StartMkdir(r)
      BY <2>a, <3>3 DEF StartForget, StartMkdir
    <3>4. CASE StartCount(r)
      BY <2>a, <3>4 DEF StartCount
    <3>5. CASE StartCreate(r) \/ StartCreateFails(r)
      BY <2>b, <3>5 DEF StartCreate, StartCreateFails
    <3> QED
      BY <2>1, <3>1, <3>2, <3>3, <3>4, <3>5 DEF Start
  <2>2. ASSUME NEW r \in Requests, NEW s \in Sessions, ChunkFind(r, s) \/ CompleteFind(r, s)
        PROVE  sess'[q] \in Sessions
    BY <2>a, <2>2 DEF ChunkFind, CompleteFind
  <2>3. ASSUME NEW r \in Requests, Complete(r) PROVE sess'[q] \in Sessions
    <3>1. CASE CompleteSeen(r)
      BY <2>a, <2>b, <3>1 DEF CompleteSeen
    <3>2. CASE CompleteStore(r)
      BY <2>a, <3>2 DEF CompleteStore
    <3>3. CASE CompleteSave(r) \/ CompletePrevious(r) \/ CompleteSweep(r)
      BY <2>a, <3>3 DEF CompleteSave, CompletePrevious, CompleteSweep
    <3>4. CASE CompleteSaveFails(r) \/ CompleteForget(r)
      BY <2>b, <3>4 DEF CompleteSaveFails, CompleteForget
    <3> QED
      BY <2>3, <3>1, <3>2, <3>3, <3>4 DEF Complete
  <2>4. ASSUME NEW r \in Requests,
               ChunkWrite(r) \/ GradeFind(r) \/ GradeSave(r) \/ Refused(r)
        PROVE  sess'[q] \in Sessions
    BY <2>a, <2>b, <2>4 DEF ChunkWrite, GradeFind, GradeSave, Refused
  <2>5. CASE Crash
    BY <2>5 DEF Crash
  <2>6. CASE \/ \E s \in Sessions : SessionExpires(s)
             \/ AssignmentChanges \/ UNCHANGED vars
    BY <2>6 DEF SessionExpires, AssignmentChanges, vars
  <2> QED
    BY <2>1, <2>2, <2>3, <2>4, <2>5, <2>6 DEF Next
<1> QED
  BY <1>1, <1>2, <1>3, PTL DEF Spec

\* Every reachable state has its type.
THEOREM TypeCorrect == Spec => []TypeOK
<1>1. TypeOK /\ SessionChosen => TypeOK
  OBVIOUS
<1> QED
  BY <1>1, Typing, PTL

-----------------------------------------------------------------------------
(* The file of a submission *)

\* FilesInv is inductive: the copies requests hold, the files they have just
\* stored and the ones they are about to remove are kept apart by every step.
THEOREM FilesInvariant == Spec => []FilesInv
<1> USE DEF FilesInv
<1>1. Init => FilesInv
  BY RecordFields DEF Init, RowFile, CopyFile, RowFileStored, OwnFile, Replaced,
     GradingCopy, Exists
<1>2. TypeOK /\ TypeOK' /\ FilesInv /\ [Next]_vars => FilesInv'
  <2> SUFFICES ASSUME TypeOK, TypeOK', FilesInv, [Next]_vars PROVE FilesInv'
    OBVIOUS
  \* A step that keeps row and files, and gives no request a new copy, a new
  \* file or a place where it saves, removes or grades.
  <2>a. ASSUME UNCHANGED <<row, files, nextFile>>,
               \A q \in Requests :
                 \/ seen'[q] = seen[q] /\ own'[q] = own[q] /\ sess'[q] = sess[q]
                    /\ pc'[q] = pc[q]
                 \/ seen'[q] \in {seen[q], NoRow}
                    /\ pc'[q] \notin {"complete_save", "complete_previous", "grade_save"}
        PROVE  FilesInv'
    <3>1. \A q \in Requests : seen'[q] \in {seen[q], NoRow}
      BY <2>a
    <3>2. RowFile' /\ RowFileStored'
      BY <2>a DEF RowFile, RowFileStored, Exists, Whole, File
    <3>3. CopyFile'
      BY <2>a, <3>1, RecordFields DEF CopyFile, Exists, Whole, File
    <3>4. OwnFile'
      <4> SUFFICES ASSUME NEW r \in Requests, pc'[r] = "complete_save"
                   PROVE  /\ own'[r] \in 1..(nextFile - 1)
                          /\ files[own'[r]] = Whole(sess'[r])
                          /\ row.file # own'[r]
                          /\ \A q \in Requests :
                               /\ seen'[q].file # own'[r]
                               /\ pc'[q] = "complete_save" /\ q # r => own'[q] # own'[r]
        BY <2>a DEF OwnFile, Whole, File
      <4>1. pc[r] = "complete_save" /\ own'[r] = own[r] /\ sess'[r] = sess[r]
        BY <2>a
      <4>2. own[r] # 0
        BY <4>1 DEF OwnFile, TypeOK
      <4>3. \A q \in Requests : seen'[q].file # own[r]
        BY <3>1, <4>1, <4>2, RecordFields DEF OwnFile
      <4>4. \A q \in Requests : pc'[q] = "complete_save" =>
              pc[q] = "complete_save" /\ own'[q] = own[q]
        BY <2>a
      <4> QED
        BY <4>1, <4>3, <4>4 DEF OwnFile
    <3>5. Replaced' /\ GradingCopy'
      BY <2>a, RecordFields DEF Replaced, GradingCopy, Exists
    <3> QED
      BY <3>2, <3>3, <3>4, <3>5
  \* What Goto and Finish leave to the other requests.
  <2>b. ASSUME NEW r \in Requests, NEW l, Goto(r, l)
        PROVE  pc'[r] = l /\ \A q \in Requests \ {r} : pc'[q] = pc[q]
    BY <2>b DEF Goto, TypeOK
  <2>c. ASSUME NEW r \in Requests, Finish(r)
        PROVE  /\ pc'[r] = "idle" /\ seen'[r] = NoRow
               /\ \A q \in Requests \ {r} :
                    pc'[q] = pc[q] /\ sess'[q] = sess[q] /\ seen'[q] = seen[q] /\ own'[q] = own[q]
    BY <2>c DEF Finish, Goto, TypeOK
  \* A finishing request that wrote neither row nor files.
  <2>d. ASSUME NEW r \in Requests, Finish(r), UNCHANGED <<row, files, nextFile>>
        PROVE  FilesInv'
    BY <2>a, <2>c, <2>d
  \* A request that goes on, with a new session in mind at most.
  <2>e. ASSUME NEW r \in Requests, NEW l, Goto(r, l),
               l \notin {"complete_save", "complete_previous", "grade_save"},
               UNCHANGED <<row, files, nextFile, seen, own>>,
               \A q \in Requests \ {r} : sess'[q] = sess[q]
        PROVE  FilesInv'
    BY <2>a, <2>b, <2>e
  <2>1. ASSUME NEW r \in Requests, Start(r) PROVE FilesInv'
    <3>1. CASE StartUpload(r)
      BY <2>e, <3>1 DEF StartUpload, store
    <3>2. CASE StartSweep(r)
      BY <2>e, <3>2 DEF StartSweep, TypeOK
    <3>3. CASE StartForget(r)
      BY <2>e, <3>3 DEF StartForget, memory
    <3>4. CASE StartCount(r)
      BY <2>e, <3>4 DEF StartCount, store, TypeOK
    <3>5. CASE StartMkdir(r)
      BY <2>e, <3>5 DEF StartMkdir, memory
    <3>6. CASE StartCreate(r) \/ StartCreateFails(r)
      BY <2>d, <3>6 DEF StartCreate, StartCreateFails
    <3> QED
      BY <2>1, <3>1, <3>2, <3>3, <3>4, <3>5, <3>6 DEF Start
  <2>2. ASSUME NEW r \in Requests, NEW s \in Sessions, ChunkFind(r, s) \/ CompleteFind(r, s)
        PROVE  FilesInv'
    BY <2>e, <2>2 DEF ChunkFind, CompleteFind, store, TypeOK
  <2>3. ASSUME NEW r \in Requests, ChunkWrite(r) \/ Refused(r) PROVE FilesInv'
    BY <2>d, <2>3 DEF ChunkWrite, Refused, store
  <2>4. ASSUME NEW r \in Requests, CompleteSeen(r) PROVE FilesInv'
    <3>1. CASE Finish(r)
      BY <2>d, <2>4, <3>1 DEF CompleteSeen, store
    <3>2. CASE ~Finish(r)
      <4>1. PICK copy \in {row, NoRow} : seen' = [seen EXCEPT ![r] = copy]
        BY <2>4, <3>2 DEF CompleteSeen
      <4>2. /\ Goto(r, "complete_store")
            /\ UNCHANGED <<sess, own, row, files, nextFile>>
        BY <2>4, <3>2 DEF CompleteSeen, store
      <4>3. /\ seen'[r] = copy /\ \A q \in Requests \ {r} : seen'[q] = seen[q]
            /\ pc'[r] = "complete_store" /\ \A q \in Requests \ {r} : pc'[q] = pc[q]
        BY <2>b, <4>1, <4>2 DEF TypeOK
      <4>4. Exists(copy) => copy.file < nextFile /\ files[copy.file] \in {NoFile, Whole(copy.of)}
        BY RecordFields DEF Exists, RowFile, RowFileStored
      <4>5. CopyFile'
        BY <4>2, <4>3, <4>4 DEF CopyFile, Exists, Whole, File
      <4>6. RowFile' /\ RowFileStored' /\ Replaced' /\ GradingCopy'
        BY <4>2, <4>3 DEF RowFile, RowFileStored, Replaced, GradingCopy, Exists, Whole, File
      <4>7. OwnFile'
        <5>1. \A q \in Requests : pc[q] = "complete_save" => own[q] # 0 /\ row.file # own[q]
          BY DEF OwnFile, TypeOK
        <5>2. \A q \in Requests : pc[q] = "complete_save" => copy.file # own[q]
          BY <5>1, RecordFields
        <5> QED
          BY <4>2, <4>3, <5>2 DEF OwnFile, Whole, File
      <4> QED
        BY <4>5, <4>6, <4>7
    <3> QED
      BY <3>1, <3>2
  <2>5. ASSUME NEW r \in Requests, CompleteStore(r) PROVE FilesInv'
    <3>1. /\ nextFile \in Files /\ nextFile' = nextFile + 1
          /\ files' = [files EXCEPT ![nextFile] = Whole(sess[r])]
          /\ own' = [own EXCEPT ![r] = nextFile]
          /\ Goto(r, "complete_save")
          /\ UNCHANGED <<sess, seen, row>>
      BY <2>5, BoundsAssumption DEF CompleteStore, AllParts, Whole, Files, TypeOK
    <3>2. /\ files'[nextFile] = Whole(sess[r])
          /\ \A f \in Files \ {nextFile} : files'[f] = files[f]
      BY <3>1 DEF TypeOK
    <3>3. /\ own'[r] = nextFile /\ \A q \in Requests \ {r} : own'[q] = own[q]
          /\ pc'[r] = "complete_save" /\ \A q \in Requests \ {r} : pc'[q] = pc[q]
      BY <2>b, <3>1 DEF TypeOK
    <3>4. /\ row.file \in 0..(nextFile - 1)
          /\ \A q \in Requests : seen[q].file \in 0..(nextFile - 1)
      <4>1. row.file \in Nat /\ \A q \in Requests : seen[q].file \in Nat
        <5>1. row \in Row /\ \A q \in Requests : seen[q] \in Row
          BY DEF TypeOK
        <5>2. 0..MaxFiles \subseteq Nat
          BY BoundsAssumption
        <5> QED
          BY <5>1, <5>2, RowFields
      <4>2. nextFile \in Nat \ {0}
        BY BoundsAssumption DEF TypeOK
      <4> QED
        BY <4>1, <4>2 DEF RowFileStored, CopyFile, Exists
    <3>5. RowFile' /\ RowFileStored'
      BY <3>1, <3>2, <3>4 DEF RowFile, RowFileStored, Exists, Files, Whole, File
    <3>6. CopyFile'
      BY <3>1, <3>2, <3>4 DEF CopyFile, Exists, Files, Whole, File
    <3>7. Replaced' /\ GradingCopy'
      BY <3>1, <3>3 DEF Replaced, GradingCopy, Exists
    <3>8. OwnFile'
      <4>1. /\ own'[r] \in 1..(nextFile' - 1)
            /\ files'[own'[r]] = Whole(sess'[r])
            /\ row'.file # own'[r]
            /\ \A q \in Requests : seen'[q].file # own'[r]
        BY <3>1, <3>2, <3>3, <3>4 DEF Files
      <4>2. ASSUME NEW q \in Requests \ {r}, pc'[q] = "complete_save"
            PROVE  /\ own'[q] \in 1..(nextFile' - 1) /\ own'[q] # nextFile
                   /\ files'[own'[q]] = Whole(sess'[q])
                   /\ row'.file # own'[q]
                   /\ \A p \in Requests : seen'[p].file # own'[q]
        <5>1. pc[q] = "complete_save" /\ own'[q] = own[q] /\ own[q] \in 1..(nextFile - 1)
          BY <3>3, <4>2 DEF OwnFile
        <5> QED
          BY <3>1, <3>2, <5>1 DEF OwnFile, Files
      <4>3. \A p, q \in Requests \ {r} :
              pc'[p] = "complete_save" /\ pc'[q] = "complete_save" /\ p # q => own'[p] # own'[q]
        BY <3>3 DEF OwnFile
      <4> QED
        BY <3>3, <4>1, <4>2, <4>3 DEF OwnFile, Whole, File
    <3> QED
      BY <3>5, <3>6, <3>7, <3>8
  <2>6. ASSUME NEW r \in Requests, CompleteSave(r) PROVE FilesInv'
    <3>1. /\ row'.file = own[r] /\ row'.of = sess[r] /\ row'.graded = FALSE
          /\ UNCHANGED <<files, nextFile, sess, seen>>
          /\ \A q \in Requests \ {r} : own'[q] = own[q]
          /\ pc'[r] = "complete_previous" /\ \A q \in Requests \ {r} : pc'[q] = pc[q]
      <4>1. row' = Submission(own[r], sess[r], FALSE)
        BY <2>6 DEF CompleteSave
      <4>2. pc'[r] = "complete_previous" /\ \A q \in Requests \ {r} : pc'[q] = pc[q]
        BY <2>6, <2>b DEF CompleteSave
      <4>3. /\ UNCHANGED <<files, nextFile, sess, seen>>
            /\ \A q \in Requests \ {r} : own'[q] = own[q]
        BY <2>6 DEF CompleteSave, TypeOK
      <4>4. row'.file = own[r] /\ row'.of = sess[r] /\ row'.graded = FALSE
        BY <4>1 DEF Submission
      <4> QED
        BY <4>2, <4>3, <4>4
    <3>2. /\ own[r] \in 1..(nextFile - 1) /\ files[own[r]] = Whole(sess[r])
          /\ \A q \in Requests :
               /\ seen[q].file # own[r]
               /\ pc[q] = "complete_save" /\ q # r => own[q] # own[r]
      BY <2>6 DEF CompleteSave, OwnFile
    <3>3. RowFile' /\ RowFileStored'
      <4>1. own[r] < nextFile
        BY <3>2 DEF TypeOK
      <4> QED
        BY <3>1, <3>2, <4>1 DEF RowFile, RowFileStored, Whole, File
    <3>4. CopyFile' /\ GradingCopy'
      BY <3>1 DEF CopyFile, GradingCopy, Exists, Whole, File
    <3>5. OwnFile'
      BY <3>1, <3>2 DEF OwnFile, Whole, File
    <3>6. Replaced'
      BY <3>1, <3>2 DEF Replaced, Exists
    <3> QED
      BY <3>3, <3>4, <3>5, <3>6
  \* Removing a file that the submission no longer names, or that a grade
  \* brought back, and that is not another request's new file.
  <2>f. ASSUME NEW f, RemoveFile(f), UNCHANGED <<row, nextFile>>,
               Exists(row) => row.graded \/ row.file # f,
               \A q \in Requests : pc[q] = "complete_save" => own[q] # f \/ pc'[q] = "idle",
               \A q \in Requests :
                 \/ seen'[q] = seen[q] /\ own'[q] = own[q] /\ sess'[q] = sess[q]
                    /\ pc'[q] = pc[q]
                 \/ seen'[q] \in {seen[q], NoRow}
                    /\ pc'[q] \notin {"complete_save", "complete_previous", "grade_save"}
        PROVE  FilesInv'
    <3> SUFFICES ASSUME files' = [files EXCEPT ![f] = NoFile] PROVE FilesInv'
      BY <2>f, <2>a DEF RemoveFile
    <3>1. \A g \in Files : files'[g] = IF g = f THEN NoFile ELSE files[g]
      BY DEF TypeOK
    <3>2. /\ Exists(row) => row.file \in Files
          /\ \A q \in Requests : Exists(seen[q]) => seen[q].file \in Files
      <4>1. row \in Row /\ \A q \in Requests : seen[q] \in Row
        BY DEF TypeOK
      <4>2. \A g \in 0..MaxFiles : g # 0 => g \in Files
        BY BoundsAssumption DEF Files
      <4> QED
        BY <4>1, <4>2, RowFields DEF Exists
    <3>3. RowFile' /\ RowFileStored'
      BY <2>f, <3>1, <3>2 DEF RowFile, RowFileStored, Exists, Whole, File
    <3>4. CopyFile'
      <4> SUFFICES ASSUME NEW q \in Requests, Exists(seen'[q])
                   PROVE  /\ seen'[q].file < nextFile
                          /\ files'[seen'[q].file] \in {NoFile, Whole(seen'[q].of)}
        BY <2>f DEF CopyFile, Exists, Whole, File
      <4>1. seen'[q] = seen[q]
        BY <2>f, RecordFields DEF Exists
      <4> QED
        BY <3>1, <3>2, <4>1 DEF CopyFile
    <3>5. OwnFile'
      <4> SUFFICES ASSUME NEW r \in Requests, pc'[r] = "complete_save"
                   PROVE  /\ own'[r] \in 1..(nextFile - 1)
                          /\ files'[own'[r]] = Whole(sess'[r])
                          /\ row.file # own'[r]
                          /\ \A q \in Requests :
                               /\ seen'[q].file # own'[r]
                               /\ pc'[q] = "complete_save" /\ q # r => own'[q] # own'[r]
        BY <2>f DEF OwnFile, Whole, File
      <4>1. pc[r] = "complete_save" /\ own'[r] = own[r] /\ sess'[r] = sess[r]
        BY <2>f
      <4>2. own[r] \in Files /\ own[r] # 0 /\ own[r] # f
        BY <2>f, <4>1 DEF OwnFile, TypeOK, Files
      <4>3. \A q \in Requests : seen'[q].file # own[r]
        <5>1. \A q \in Requests : seen'[q] \in {seen[q], NoRow}
          BY <2>f
        <5> QED
          BY <4>1, <4>2, <5>1, RecordFields DEF OwnFile
      <4>4. \A q \in Requests : pc'[q] = "complete_save" =>
              pc[q] = "complete_save" /\ own'[q] = own[q]
        BY <2>f
      <4> QED
        BY <3>1, <4>1, <4>2, <4>3, <4>4 DEF OwnFile
    <3>6. Replaced' /\ GradingCopy'
      BY <2>f, RecordFields DEF Replaced, GradingCopy, Exists
    <3> QED
      BY <3>3, <3>4, <3>5, <3>6
  <2>7. ASSUME NEW r \in Requests, CompleteSaveFails(r) PROVE FilesInv'
    <3>1. /\ pc[r] = "complete_save" /\ RemoveFile(own[r]) /\ Finish(r)
          /\ UNCHANGED <<row, nextFile>>
      BY <2>7 DEF CompleteSaveFails, Unsaved
    <3>2. row.file # own[r] /\ \A q \in Requests \ {r} : pc[q] = "complete_save" => own[q] # own[r]
      BY <3>1 DEF OwnFile
    <3> QED
      BY <2>c, <2>f, <3>1, <3>2
  <2>8. ASSUME NEW r \in Requests, CompletePrevious(r) PROVE FilesInv'
    <3>1. /\ pc[r] = "complete_previous" /\ UNCHANGED <<row, nextFile, sess, own>>
          /\ pc'[r] = "complete_sweep" /\ seen'[r] = NoRow
          /\ \A q \in Requests \ {r} : pc'[q] = pc[q] /\ seen'[q] = seen[q]
      BY <2>8, <2>b DEF CompletePrevious, TypeOK
    <3>2. CASE ~Exists(seen[r])
      <4>1. UNCHANGED files
        BY <2>8, <3>2 DEF CompletePrevious
      <4> QED
        BY <2>a, <3>1, <4>1
    <3>3. CASE Exists(seen[r])
      <4>1. RemoveFile(seen[r].file)
        BY <2>8, <3>3 DEF CompletePrevious
      <4>2. Exists(row) => row.graded \/ row.file # seen[r].file
        BY <3>1, <3>3 DEF Replaced
      <4>3. \A q \in Requests : pc[q] = "complete_save" => own[q] # seen[r].file
        BY DEF OwnFile
      <4> QED
        BY <2>f, <3>1, <4>1, <4>2, <4>3
    <3> QED
      BY <3>2, <3>3
  <2>9. ASSUME NEW r \in Requests, CompleteSweep(r) PROVE FilesInv'
    BY <2>9, <2>e DEF CompleteSweep, memory
  <2>10. ASSUME NEW r \in Requests, CompleteForget(r) PROVE FilesInv'
    BY <2>10, <2>d DEF CompleteForget
  <2>11. ASSUME NEW r \in Requests, GradeFind(r) PROVE FilesInv'
    <3>1. /\ Exists(row) /\ pc'[r] = "grade_save"
          /\ seen'[r] = row
          /\ \A q \in Requests \ {r} : pc'[q] = pc[q] /\ seen'[q] = seen[q]
          /\ UNCHANGED <<sess, own, row, files, nextFile>>
      BY <2>11, <2>b DEF GradeFind, store, TypeOK
    <3>2. CopyFile'
      BY <3>1 DEF CopyFile, RowFile, RowFileStored, Exists, Whole, File
    <3>3. OwnFile'
      BY <3>1 DEF OwnFile, Whole, File
    <3>4. RowFile' /\ RowFileStored' /\ Replaced' /\ GradingCopy'
      BY <3>1 DEF RowFile, RowFileStored, Replaced, GradingCopy, Exists, Whole, File
    <3> QED
      BY <3>2, <3>3, <3>4
  <2>12. ASSUME NEW r \in Requests, GradeSave(r) PROVE FilesInv'
    <3>1. CASE UNCHANGED row
      BY <2>12, <2>d, <3>1 DEF GradeSave
    <3>2. CASE row' = [seen[r] EXCEPT !.graded = TRUE]
      <4>1. row'.file = seen[r].file /\ row'.of = seen[r].of /\ row'.graded
        BY <3>2, RowFields DEF TypeOK
      <4>2. /\ pc[r] = "grade_save" /\ UNCHANGED <<files, nextFile>>
            /\ pc'[r] = "idle" /\ seen'[r] = NoRow
            /\ \A q \in Requests \ {r} :
                 pc'[q] = pc[q] /\ sess'[q] = sess[q] /\ seen'[q] = seen[q] /\ own'[q] = own[q]
        BY <2>12, <2>c DEF GradeSave
      <4>3. RowFile' /\ RowFileStored'
        BY <4>1, <4>2 DEF RowFile, RowFileStored, CopyFile, GradingCopy, Exists, Whole, File
      <4>4. CopyFile' /\ GradingCopy'
        BY <4>2, RecordFields DEF CopyFile, GradingCopy, Exists, Whole, File
      <4>5. OwnFile'
        <5>1. \A q \in Requests : pc[q] = "complete_save" => own[q] # 0
          BY DEF OwnFile, TypeOK
        <5> QED
          BY <4>1, <4>2, <5>1, RecordFields DEF OwnFile, Whole, File
      <4>6. Replaced'
        BY <4>1, <4>2 DEF Replaced
      <4> QED
        BY <4>3, <4>4, <4>5, <4>6
    <3> QED
      BY <2>12, <3>1, <3>2 DEF GradeSave
  <2>13. ASSUME NEW s \in Sessions, SessionExpires(s) PROVE FilesInv'
    BY <2>13, <2>a DEF SessionExpires, memory
  <2>14. CASE AssignmentChanges
    BY <2>14, <2>a DEF AssignmentChanges, memory
  <2>15. CASE Crash
    BY <2>15, <2>a DEF Crash, store
  <2>16. CASE UNCHANGED vars
    BY <2>16, <2>a DEF vars
  <2> QED
    BY <2>1, <2>2, <2>3, <2>4, <2>5, <2>6, <2>7, <2>8, <2>9, <2>10, <2>11,
       <2>12, <2>13, <2>14, <2>15, <2>16 DEF Next, Complete
<1> QED
  BY <1>1, <1>2, TypeCorrect, PTL DEF Spec

\* The file a submission names is the whole file of the upload whose name and
\* size it shows, unless a late grade brought back a row whose file is gone.
THEOREM RowFileAlways == Spec => []RowFile
<1>1. FilesInv => RowFile
  BY DEF FilesInv
<1> QED
  BY <1>1, FilesInvariant, PTL

-----------------------------------------------------------------------------
(* Sessions, their directories and their chunks *)

\* SessionsInv is inductive: directories go before rows, or are among those
\* whose removal failed, and a session is known to one request before it has
\* a row.
THEOREM SessionsInvariant == Spec => []SessionsInv
<1> USE DEF SessionsInv
<1>1. Init => SessionsInv
  BY DEF Init, FreshSession, KnownSession, SweptFirst, Gone, PartsHaveTheirSession, HasRow,
     Starting, WithSession
<1>2. TypeOK /\ SessionChosen /\ SessionsInv /\ [Next]_vars => SessionsInv'
  <2> SUFFICES ASSUME TypeOK, SessionChosen, SessionsInv, [Next]_vars PROVE SessionsInv'
    OBVIOUS
  <2> DEFINE Forgets == {"start_forget", "complete_forget"}
             Starts == {"start_mkdir", "start_create"}
  <2>b. ASSUME NEW r \in Requests, NEW l, Goto(r, l)
        PROVE  pc'[r] = l /\ \A q \in Requests \ {r} : pc'[q] = pc[q]
    BY <2>b DEF Goto, TypeOK
  <2>c. ASSUME NEW r \in Requests, Finish(r)
        PROVE  /\ pc'[r] = "idle" /\ stale'[r] = {}
               /\ \A q \in Requests \ {r} :
                    pc'[q] = pc[q] /\ sess'[q] = sess[q] /\ stale'[q] = stale[q]
    BY <2>c DEF Finish, Goto, TypeOK
  \* A step that touches neither sessions nor directories nor chunks, and
  \* after which each request either forgets its session, keeps it outside
  \* the two sensitive places, or takes one that was created.
  <2>a. ASSUME UNCHANGED <<session, dirs, parts, remains>>,
               \A q \in Requests :
                 \/ pc'[q] = pc[q] /\ sess'[q] = sess[q]
                 \/ pc'[q] \notin WithSession
                 \/ /\ pc'[q] \notin Forgets \cup Starts
                    /\ session[sess'[q]] # "none"
                    /\ sess'[q] \in Sessions,
               \A q \in Requests : stale'[q] \subseteq stale[q]
                                     \/ \A s \in stale'[q] : session[s] # "none"
        PROVE  SessionsInv'
    <3>1. FreshSession'
      BY <2>a DEF FreshSession, Starting, WithSession
    <3>2. KnownSession'
      BY <2>a DEF KnownSession, Starting
    <3>3. SweptFirst' /\ PartsHaveTheirSession'
      BY <2>a DEF SweptFirst, Gone, PartsHaveTheirSession, HasRow, WithSession
    <3> QED
      BY <3>1, <3>2, <3>3
  <2>d. ASSUME NEW r \in Requests, Finish(r), UNCHANGED <<session, dirs, parts, remains>>
        PROVE  SessionsInv'
    BY <2>a, <2>c, <2>d DEF WithSession
  \* Sessions known before a removal or a deletion.
  <2>e. ASSUME NEW r \in Requests, pc[r] \in WithSession, r \notin Starting
        PROVE  sess[r] \in Sessions /\ session[sess[r]] # "none"
    BY <2>e DEF SessionChosen, KnownSession
  \* Removing the directory of a session, or leaving some of it behind.
  <2>f. ASSUME NEW s \in Sessions, RemoveAll(s)
        PROVE  /\ Gone(s)' \/ s \in remains'
               /\ dirs' \subseteq dirs
               /\ \A t \in Sessions : parts'[t] \subseteq parts[t]
               /\ \A t : t # s => (t \in remains' <=> t \in remains)
    <3>1. CASE /\ dirs' = dirs \ {s} /\ parts' = [parts EXCEPT ![s] = {}]
               /\ remains' = remains \ {s}
      BY <3>1 DEF Gone, TypeOK
    <3>2. CASE /\ \E C \in SUBSET parts[s] : parts' = [parts EXCEPT ![s] = C]
               /\ remains' = remains \cup {s} /\ UNCHANGED dirs
      BY <3>2 DEF TypeOK
    <3> QED
      BY <2>f, <3>1, <3>2 DEF RemoveAll
  \* Every other session keeps what is known of it.
  <2>i. ASSUME NEW s \in Sessions, RemoveAll(s), NEW t \in Sessions,
               Gone(t) \/ t \in remains
        PROVE  Gone(t)' \/ t \in remains'
    BY <2>f, <2>i DEF Gone
  \* Deleting a session's row once its directory is gone.
  <2>g. ASSUME NEW r \in Requests, pc[r] \in Forgets, DeleteSession(sess[r]),
               UNCHANGED <<dirs, parts, remains>>,
               pc'[r] \notin WithSession,
               \A q \in Requests \ {r} : pc'[q] = pc[q] /\ sess'[q] = sess[q],
               \A q \in Requests : stale'[q] \subseteq stale[q]
        PROVE  SessionsInv'
    <3>1. /\ sess[r] \in Sessions /\ session[sess[r]] # "none"
          /\ Gone(sess[r]) \/ sess[r] \in remains
      BY <2>g, <2>e DEF SweptFirst, WithSession, Starting
    <3>2. \A t \in Sessions : \/ session'[t] = session[t]
                              \/ t = sess[r] /\ session'[t] = "deleted"
      BY <2>g DEF DeleteSession, TypeOK
    <3>3. FreshSession'
      BY <2>g, <3>1, <3>2 DEF FreshSession, Starting, WithSession, SessionChosen
    <3>4. KnownSession'
      <4>1. ASSUME NEW q \in Requests, pc'[q] \in WithSession, q \notin Starting'
            PROVE  session'[sess'[q]] # "none"
        <5>1. q # r /\ pc[q] \in WithSession /\ q \notin Starting /\ sess'[q] = sess[q]
          BY <2>g, <4>1 DEF Starting
        <5> QED
          BY <2>e, <3>2, <5>1
      <4>2. ASSUME NEW q \in Requests, NEW t \in stale'[q]
            PROVE  session'[t] # "none"
        <5>1. t \in stale[q] /\ t \in Sessions
          BY <2>g, <4>2 DEF TypeOK
        <5> QED
          BY <3>2, <5>1 DEF KnownSession
      <4> QED
        BY <4>1, <4>2 DEF KnownSession
    <3>5. SweptFirst'
      BY <2>g, <3>1, <3>2 DEF SweptFirst, Gone, WithSession, TypeOK
    <3>6. PartsHaveTheirSession'
      BY <2>g, <3>1, <3>2 DEF PartsHaveTheirSession, HasRow, Gone
    <3> QED
      BY <3>3, <3>4, <3>5, <3>6
  \* A directory removed before the row goes.
  <2>h. ASSUME NEW r \in Requests, NEW s \in Sessions, RemoveAll(s), session[s] # "none",
               UNCHANGED session,
               \A q \in Requests \ {r} : pc'[q] = pc[q] /\ sess'[q] = sess[q],
               pc'[r] \notin WithSession \/ (pc'[r] \in Forgets /\ sess'[r] = s),
               \A q \in Requests : stale'[q] \subseteq stale[q]
        PROVE  SessionsInv'
    <3>1. FreshSession'
      BY <2>h DEF FreshSession, Starting, WithSession
    <3>2. KnownSession'
      BY <2>h DEF KnownSession, Starting, WithSession
    <3>3. SweptFirst'
      <4>1. ASSUME NEW q \in Requests, pc'[q] \in Forgets
            PROVE  (Gone(sess[q]) \/ sess[q] \in remains)'
        <5>1. CASE q = r
          BY <2>f, <2>h, <4>1, <5>1 DEF Gone, WithSession
        <5>2. CASE q # r
          <6>1. pc[q] \in Forgets /\ sess'[q] = sess[q]
            BY <2>h, <4>1, <5>2
          <6>2. sess[q] \in Sessions /\ (Gone(sess[q]) \/ sess[q] \in remains)
            BY <6>1 DEF SweptFirst, SessionChosen, WithSession
          <6> QED
            BY <2>h, <2>i, <6>1, <6>2 DEF Gone
        <5> QED
          BY <5>1, <5>2
      <4>2. \A t \in dirs' : session'[t] = "deleted" => t \in remains'
        BY <2>f, <2>h DEF SweptFirst, Gone, TypeOK
      <4> QED
        BY <4>1, <4>2 DEF SweptFirst
    <3>4. PartsHaveTheirSession'
      BY <2>f, <2>h DEF PartsHaveTheirSession, HasRow, Gone
    <3> QED
      BY <3>1, <3>2, <3>3, <3>4
  <2>1. ASSUME NEW r \in Requests, StartUpload(r) PROVE SessionsInv'
    <3>1. PICK S : /\ stale' = [stale EXCEPT ![r] = S]
                   /\ \A s \in S : session[s] = "expired"
      BY <2>1 DEF StartUpload
    <3>2. \A q \in Requests : stale'[q] = stale[q] \/ \A s \in stale'[q] : session[s] # "none"
      BY <3>1 DEF TypeOK
    <3> QED
      BY <2>1, <2>a, <2>b, <3>2 DEF StartUpload, store, WithSession
  <2>2. ASSUME NEW r \in Requests, StartSweep(r) PROVE SessionsInv'
    <3>1. CASE /\ stale[r] = {} /\ Goto(r, "start_count")
               /\ UNCHANGED <<dirs, parts, remains, sess, stale>>
      BY <2>2, <2>a, <2>b, <3>1 DEF StartSweep, WithSession
    <3>2. ASSUME NEW s \in stale[r],
                 RemoveAll(s),
                 sess' = [sess EXCEPT ![r] = s],
                 stale' = [stale EXCEPT ![r] = @ \ {s}],
                 Goto(r, "start_forget")
          PROVE  SessionsInv'
      <4>1. s \in Sessions /\ session[s] # "none"
        BY <3>2 DEF KnownSession, TypeOK
      <4>2. /\ sess'[r] = s /\ \A q \in Requests \ {r} : sess'[q] = sess[q]
            /\ \A q \in Requests : stale'[q] \subseteq stale[q]
        BY <3>2 DEF TypeOK
      <4>3. pc'[r] = "start_forget" /\ \A q \in Requests \ {r} : pc'[q] = pc[q]
        BY <2>b, <3>2
      <4>4. UNCHANGED session
        BY <2>2 DEF StartSweep
      <4> QED
        BY <2>h, <3>2, <4>1, <4>2, <4>3, <4>4
    <3> QED
      BY <2>2, <3>1, <3>2 DEF StartSweep
  <2>3. ASSUME NEW r \in Requests, StartForget(r) PROVE SessionsInv'
    BY <2>3, <2>b, <2>g DEF StartForget, memory, WithSession
  <2>4. ASSUME NEW r \in Requests, StartCount(r) PROVE SessionsInv'
    <3>1. PICK s \in Sessions \ dirs :
            /\ session[s] = "none" /\ \A q \in Requests : sess[q] # s
            /\ sess' = [sess EXCEPT ![r] = s]
            /\ Goto(r, "start_mkdir")
      BY <2>4 DEF StartCount
    <3>2. UNCHANGED <<session, dirs, parts, remains, stale>> /\ pc[r] = "start_count"
      BY <2>4 DEF StartCount, store
    <3>3. /\ sess'[r] = s /\ \A q \in Requests \ {r} : sess'[q] = sess[q]
          /\ pc'[r] = "start_mkdir" /\ \A q \in Requests \ {r} : pc'[q] = pc[q]
      BY <2>b, <3>1 DEF TypeOK
    <3>4. FreshSession'
      BY <3>1, <3>2, <3>3 DEF FreshSession, Starting
    <3>5. KnownSession'
      BY <3>2, <3>3 DEF KnownSession, Starting
    <3>6. SweptFirst' /\ PartsHaveTheirSession'
      BY <3>2, <3>3 DEF SweptFirst, Gone, PartsHaveTheirSession, HasRow
    <3> QED
      BY <3>4, <3>5, <3>6
  <2>5. ASSUME NEW r \in Requests, StartMkdir(r) PROVE SessionsInv'
    <3>1. /\ r \in Starting /\ dirs' = dirs \cup {sess[r]}
          /\ UNCHANGED <<session, parts, remains, sess, stale>>
          /\ pc'[r] = "start_create" /\ \A q \in Requests \ {r} : pc'[q] = pc[q]
      BY <2>5, <2>b DEF StartMkdir, Starting, memory
    <3>2. session[sess[r]] = "none"
      BY <3>1 DEF FreshSession
    <3>3. FreshSession' /\ KnownSession'
      BY <3>1 DEF FreshSession, KnownSession, Starting
    <3>4. \A q \in Requests : pc[q] \in Forgets => sess[q] # sess[r]
      BY <3>2, <2>e DEF WithSession, Starting
    <3>5. SweptFirst' /\ PartsHaveTheirSession'
      BY <3>1, <3>2, <3>4 DEF SweptFirst, Gone, PartsHaveTheirSession, HasRow
    <3> QED
      BY <3>3, <3>5
  <2>6. ASSUME NEW r \in Requests, StartCreate(r) PROVE SessionsInv'
    <3>1. /\ r \in Starting /\ session' = [session EXCEPT ![sess[r]] = "active"]
          /\ sess[r] \in Sessions
          /\ UNCHANGED <<dirs, parts, remains>> /\ Finish(r)
      BY <2>6 DEF StartCreate, Starting, SessionChosen, WithSession
    <3>2. \A t \in Sessions : session'[t] = IF t = sess[r] THEN "active" ELSE session[t]
      BY <3>1 DEF TypeOK
    <3>3. FreshSession'
      <4>1. \A q \in Starting' : q \in Starting /\ q # r /\ sess'[q] = sess[q]
        BY <2>c, <3>1 DEF Starting
      <4>2. \A q \in Starting : q # r => sess[q] \in Sessions /\ sess[q] # sess[r]
        BY <3>1 DEF FreshSession, SessionChosen, WithSession, Starting
      <4> QED
        BY <3>2, <4>1, <4>2 DEF FreshSession
    <3>4. KnownSession'
      <4>1. ASSUME NEW q \in Requests, pc'[q] \in WithSession, q \notin Starting'
            PROVE  session'[sess'[q]] # "none"
        <5>1. q # r /\ pc[q] \in WithSession /\ q \notin Starting /\ sess'[q] = sess[q]
          BY <2>c, <3>1, <4>1 DEF Starting, WithSession
        <5> QED
          BY <2>e, <3>2, <5>1
      <4>2. ASSUME NEW q \in Requests, NEW t \in stale'[q]
            PROVE  session'[t] # "none"
        <5>1. t \in stale[q] /\ t \in Sessions
          BY <2>c, <3>1, <4>2 DEF TypeOK
        <5> QED
          BY <3>2, <5>1 DEF KnownSession
      <4> QED
        BY <4>1, <4>2 DEF KnownSession
    <3>5. SweptFirst'
      BY <2>c, <3>1, <3>2 DEF SweptFirst, Gone, TypeOK
    <3>6. PartsHaveTheirSession'
      BY <3>1, <3>2 DEF PartsHaveTheirSession, HasRow
    <3> QED
      BY <3>3, <3>4, <3>5, <3>6
  <2>7. ASSUME NEW r \in Requests, StartCreateFails(r) PROVE SessionsInv'
    <3>1. /\ RemoveAll(sess[r]) /\ Finish(r) /\ UNCHANGED session
      BY <2>7 DEF StartCreateFails
    <3>0. sess[r] \in Sessions
      BY <2>7 DEF StartCreateFails, SessionChosen, WithSession
    <3>2. FreshSession' /\ KnownSession'
      BY <2>c, <3>1 DEF FreshSession, KnownSession, Starting, WithSession
    <3>3. SweptFirst'
      <4>1. ASSUME NEW q \in Requests, pc'[q] \in Forgets
            PROVE  (Gone(sess[q]) \/ sess[q] \in remains)'
        <5>1. q # r /\ pc[q] \in Forgets /\ sess'[q] = sess[q]
          BY <2>c, <3>1, <4>1
        <5>2. sess[q] \in Sessions /\ (Gone(sess[q]) \/ sess[q] \in remains)
          BY <5>1 DEF SweptFirst, SessionChosen, WithSession
        <5> QED
          BY <2>i, <3>1, <3>0, <5>1, <5>2 DEF Gone
      <4>2. \A t \in dirs' : session'[t] = "deleted" => t \in remains'
        BY <2>f, <3>1, <3>0 DEF SweptFirst, Gone, TypeOK
      <4> QED
        BY <4>1, <4>2 DEF SweptFirst
    <3>4. PartsHaveTheirSession'
      BY <2>f, <3>1, <3>0 DEF PartsHaveTheirSession, HasRow, Gone
    <3> QED
      BY <3>2, <3>3, <3>4
  <2>8. ASSUME NEW r \in Requests, NEW s \in Sessions, ChunkFind(r, s) \/ CompleteFind(r, s)
        PROVE  SessionsInv'
    <3>1. /\ session[s] # "none" /\ UNCHANGED <<session, dirs, parts, remains, stale>>
          /\ sess'[r] = s /\ \A q \in Requests \ {r} : sess'[q] = sess[q]
      BY <2>8 DEF ChunkFind, CompleteFind, store, TypeOK
    <3>2. /\ pc'[r] \notin Forgets \cup Starts
          /\ \A q \in Requests \ {r} : pc'[q] = pc[q]
      BY <2>8, <2>b DEF ChunkFind, CompleteFind
    <3> QED
      BY <2>a, <3>1, <3>2
  <2>9. ASSUME NEW r \in Requests, ChunkWrite(r) PROVE SessionsInv'
    <3>1. CASE UNCHANGED parts
      BY <2>9, <2>d, <3>1 DEF ChunkWrite
    <3>2. CASE sess[r] \in dirs
      <4>1. sess[r] \in Sessions /\ (HasRow(sess[r]) \/ sess[r] \in remains)
        BY <2>9, <2>e, <3>2 DEF ChunkWrite, SweptFirst, HasRow, WithSession, Starting, TypeOK
      <4>2. UNCHANGED <<session, dirs, remains>> /\ Finish(r)
        BY <2>9 DEF ChunkWrite
      <4>3. \A t \in Sessions : t # sess[r] => parts'[t] = parts[t]
        BY <2>9, <3>2 DEF ChunkWrite, TypeOK
      <4>4. FreshSession' /\ KnownSession'
        BY <2>c, <4>2 DEF FreshSession, KnownSession, Starting, WithSession
      <4>5. SweptFirst'
        <5>1. \A q \in Requests \ {r} : pc[q] \in Forgets =>
                /\ sess[q] \in Sessions
                /\ sess[q] \in remains \/ (sess[q] # sess[r] /\ Gone(sess[q]))
          BY <3>2 DEF SweptFirst, Gone, SessionChosen, WithSession
        <5> QED
          BY <2>c, <4>2, <4>3, <5>1 DEF SweptFirst, Gone
      <4>6. PartsHaveTheirSession'
        BY <4>1, <4>2, <4>3 DEF PartsHaveTheirSession, HasRow
      <4> QED
        BY <4>4, <4>5, <4>6
    <3> QED
      BY <2>9, <3>1, <3>2 DEF ChunkWrite
  <2>10. ASSUME NEW r \in Requests,
                CompleteSeen(r) \/ CompleteStore(r) \/ CompleteSaveFails(r)
                  \/ GradeFind(r) \/ GradeSave(r) \/ Refused(r)
         PROVE  SessionsInv'
    <3>1. UNCHANGED <<session, dirs, parts, remains>>
      BY <2>10 DEF CompleteSeen, CompleteStore, CompleteSaveFails, GradeFind, GradeSave,
           Refused, store
    <3>2. CASE Finish(r)
      BY <2>d, <3>1, <3>2
    <3>3. CASE ~Finish(r)
      <4>1. UNCHANGED <<sess, stale>>
        BY <2>10, <3>3 DEF CompleteSeen, CompleteStore, CompleteSaveFails, GradeFind, GradeSave,
           Refused
      <4>2. \/ Goto(r, "grade_save")
            \/ /\ pc[r] \in {"complete_seen", "complete_store"}
               /\ Goto(r, "complete_store") \/ Goto(r, "complete_save")
        BY <2>10, <3>3 DEF CompleteSeen, CompleteStore, CompleteSaveFails, GradeFind, GradeSave,
           Refused
      <4>3. CASE Goto(r, "grade_save")
        BY <2>a, <2>b, <3>1, <4>1, <4>3 DEF WithSession
      <4>4. CASE /\ pc[r] \in {"complete_seen", "complete_store"}
                 /\ Goto(r, "complete_store") \/ Goto(r, "complete_save")
        <5>1. sess[r] \in Sessions /\ session[sess[r]] # "none"
          BY <2>e, <4>4 DEF WithSession, Starting
        <5>2. /\ pc'[r] \notin Forgets \cup Starts
              /\ \A q \in Requests \ {r} : pc'[q] = pc[q]
          BY <2>b, <4>4
        <5> QED
          BY <2>a, <3>1, <4>1, <5>1, <5>2
      <4> QED
        BY <4>2, <4>3, <4>4
    <3> QED
      BY <3>2, <3>3
  <2>11. ASSUME NEW r \in Requests, CompleteSave(r) \/ CompletePrevious(r) PROVE SessionsInv'
    <3>1. /\ UNCHANGED <<session, dirs, parts, remains, sess, stale>>
          /\ pc[r] \in {"complete_save", "complete_previous"}
          /\ pc'[r] \notin Forgets \cup Starts
          /\ \A q \in Requests \ {r} : pc'[q] = pc[q]
      <4>1. CASE CompleteSave(r)
        BY <2>b, <4>1 DEF CompleteSave, memory
      <4>2. CASE CompletePrevious(r)
        BY <2>b, <4>2 DEF CompletePrevious, memory
      <4> QED
        BY <2>11, <4>1, <4>2
    <3>2. sess[r] \in Sessions /\ session[sess[r]] # "none"
      BY <2>e, <3>1 DEF WithSession, Starting
    <3> QED
      BY <2>a, <3>1, <3>2
  <2>12. ASSUME NEW r \in Requests, CompleteSweep(r) PROVE SessionsInv'
    <3>1. sess[r] \in Sessions /\ session[sess[r]] # "none"
      BY <2>12, <2>e DEF CompleteSweep, WithSession, Starting
    <3>2. /\ RemoveAll(sess[r]) /\ UNCHANGED <<session, sess, stale>>
          /\ pc'[r] = "complete_forget" /\ \A q \in Requests \ {r} : pc'[q] = pc[q]
      BY <2>12, <2>b DEF CompleteSweep, memory
    <3> QED
      BY <2>h, <3>1, <3>2
  <2>13. ASSUME NEW r \in Requests, CompleteForget(r) PROVE SessionsInv'
    <3>1. /\ pc[r] = "complete_forget" /\ DeleteSession(sess[r])
          /\ UNCHANGED <<dirs, parts, remains>> /\ Finish(r)
      BY <2>13 DEF CompleteForget
    <3>2. pc'[r] \notin WithSession /\ \A q \in Requests : stale'[q] \subseteq stale[q]
      BY <2>c, <3>1 DEF WithSession
    <3> QED
      BY <2>c, <2>g, <3>1, <3>2
  <2>14. ASSUME NEW s \in Sessions, SessionExpires(s) PROVE SessionsInv'
    <3>1. /\ session[s] = "active" /\ UNCHANGED <<dirs, parts, remains, pc, sess, stale>>
          /\ \A t \in Sessions : session'[t] = IF t = s THEN "expired" ELSE session[t]
      BY <2>14 DEF SessionExpires, memory, TypeOK
    <3>2. FreshSession' /\ KnownSession'
      BY <3>1 DEF FreshSession, KnownSession, Starting, SessionChosen, WithSession, TypeOK
    <3>3. SweptFirst' /\ PartsHaveTheirSession'
      BY <3>1 DEF SweptFirst, Gone, PartsHaveTheirSession, HasRow, TypeOK
    <3> QED
      BY <3>2, <3>3
  <2>15. CASE AssignmentChanges
    BY <2>15, <2>a DEF AssignmentChanges, memory
  <2>16. CASE Crash
    BY <2>16, <2>a DEF Crash, store, WithSession
  <2>17. CASE UNCHANGED vars
    BY <2>17, <2>a DEF vars
  <2> QED
    BY <2>1, <2>2, <2>3, <2>4, <2>5, <2>6, <2>7, <2>8, <2>9, <2>10, <2>11,
       <2>12, <2>13, <2>14, <2>15, <2>16, <2>17 DEF Next, Start, Complete
<1> QED
  BY <1>1, <1>2, Typing, PTL DEF Spec

\* Chunks on disk have the row of their session, unless the last removal of
\* their directory failed and the row went all the same, whatever crashes,
\* failing deletions, late PUTs and overlapping sweeps and completions do.
THEOREM PartsHaveTheirSessionAlways == Spec => []PartsHaveTheirSession
<1>1. SessionsInv => PartsHaveTheirSession
  BY DEF SessionsInv
<1> QED
  BY <1>1, SessionsInvariant, PTL

-----------------------------------------------------------------------------
(* Unfinished sessions *)

\* A step that adds no starting request and no active session keeps the bound.
LEMMA NoMoreSessions ==
  ASSUME TypeOK, ActiveWithinRace, Active' \subseteq Active, Starting' \subseteq Starting
  PROVE  ActiveWithinRace'
<1>1. /\ IsFiniteSet(Active) /\ IsFiniteSet(Starting) /\ IsFiniteSet(Requests)
  BY SetsAssumption, FS_Subset DEF Active, Starting
<1>2. /\ Cardinality(Active') <= Cardinality(Active)
      /\ Cardinality(Starting') <= Cardinality(Starting)
      /\ Cardinality(Active') \in Nat /\ Cardinality(Starting') \in Nat
      /\ Cardinality(Active) \in Nat /\ Cardinality(Starting) \in Nat
      /\ Cardinality(Requests) \in Nat
  BY <1>1, FS_Subset, FS_CardinalityType
<1> QED
  BY <1>2, BoundsAssumption DEF ActiveWithinRace

\* The unfinished sessions of a student, with those being created, exceed
\* MaxActive by less than the number of requests in flight.
THEOREM ActiveWithinRaceAlways == Spec => []ActiveWithinRace
<1>a. IsFiniteSet(Requests) /\ Cardinality(Requests) \in Nat \ {0}
  BY SetsAssumption, FS_CardinalityType, FS_EmptySet
<1>1. Init => ActiveWithinRace
  <2> SUFFICES ASSUME Init PROVE ActiveWithinRace
    OBVIOUS
  <2>1. Active = {} /\ Starting = {}
    BY DEF Init, Active, Starting
  <2> QED
    BY <1>a, <2>1, FS_EmptySet, BoundsAssumption DEF ActiveWithinRace
<1>2. TypeOK /\ TypeOK' /\ ActiveWithinRace /\ [Next]_vars => ActiveWithinRace'
  <2> SUFFICES ASSUME TypeOK, TypeOK', ActiveWithinRace, [Next]_vars PROVE ActiveWithinRace'
    OBVIOUS
  <2>a. ASSUME NEW r \in Requests, NEW l, Goto(r, l), l \notin {"start_mkdir", "start_create"}
        PROVE  Starting' \subseteq Starting
    BY <2>a DEF Goto, Starting, TypeOK
  <2>b. ASSUME NEW r \in Requests, Finish(r)
        PROVE  Starting' \subseteq Starting
    BY <2>a, <2>b DEF Finish
  <2>c. ASSUME NEW s, DeleteSession(s)
        PROVE  Active' \subseteq Active
    BY <2>c DEF DeleteSession, Active, TypeOK
  <2>1. ASSUME NEW r \in Requests, StartCreate(r) PROVE ActiveWithinRace'
    <3>1. Active' \subseteq Active \cup {sess[r]}
      BY <2>1 DEF StartCreate, Active, TypeOK
    <3>2. r \in Starting /\ Starting' \subseteq Starting \ {r}
      BY <2>1 DEF StartCreate, Finish, Goto, Starting, TypeOK
    <3>3. IsFiniteSet(Active) /\ IsFiniteSet(Starting)
      BY <1>a, SetsAssumption, FS_Subset DEF Active, Starting
    <3>4. /\ Cardinality(Active \cup {sess[r]}) <= Cardinality(Active) + 1
          /\ IsFiniteSet(Active \cup {sess[r]})
      <4>1. Cardinality(Active) \in Nat
        BY <3>3, FS_CardinalityType
      <4>2. /\ IsFiniteSet(Active \cup {sess[r]})
            /\ \/ Cardinality(Active \cup {sess[r]}) = Cardinality(Active)
               \/ Cardinality(Active \cup {sess[r]}) = Cardinality(Active) + 1
        BY <3>3, FS_AddElement
      <4> QED
        BY <4>1, <4>2
    <3>5. /\ Cardinality(Starting \ {r}) = Cardinality(Starting) - 1
          /\ IsFiniteSet(Starting \ {r})
      BY <3>2, <3>3, FS_RemoveElement
    <3>6. /\ Cardinality(Active') <= Cardinality(Active \cup {sess[r]})
          /\ Cardinality(Starting') <= Cardinality(Starting \ {r})
          /\ Cardinality(Active') \in Nat /\ Cardinality(Starting') \in Nat
          /\ Cardinality(Active \cup {sess[r]}) \in Nat /\ Cardinality(Starting \ {r}) \in Nat
          /\ Cardinality(Active) \in Nat /\ Cardinality(Starting) \in Nat
      BY <3>1, <3>2, <3>3, <3>4, <3>5, FS_Subset, FS_CardinalityType
    <3> QED
      BY <1>a, <3>4, <3>5, <3>6, BoundsAssumption DEF ActiveWithinRace
  <2>2. ASSUME NEW r \in Requests, StartCount(r) PROVE ActiveWithinRace'
    <3>1. Active' = Active
      BY <2>2 DEF StartCount, store, Active
    <3>2. ~(Cardinality(Active) >= MaxActive)
      BY <2>2 DEF StartCount, TooMany
    <3>3. IsFiniteSet(Active) /\ Cardinality(Active) \in Nat
      BY SetsAssumption, FS_Subset, FS_CardinalityType DEF Active
    <3>4. Cardinality(Starting') \in Nat /\ Cardinality(Starting') <= Cardinality(Requests)
      <4>1. Starting' \subseteq Requests
        BY DEF Starting
      <4> QED
        BY <1>a, <4>1, FS_Subset, FS_CardinalityType
    <3> QED
      BY <1>a, <3>1, <3>2, <3>3, <3>4, BoundsAssumption DEF ActiveWithinRace
  <2>3. ASSUME NEW r \in Requests, StartMkdir(r) PROVE ActiveWithinRace'
    <3>1. Active' = Active
      BY <2>3 DEF StartMkdir, Active
    <3>2. Starting' \subseteq Starting
      BY <2>3 DEF StartMkdir, Goto, Starting, TypeOK
    <3> QED
      BY <3>1, <3>2, NoMoreSessions
  <2>4. ASSUME NEW r \in Requests,
               StartUpload(r) \/ StartSweep(r) \/ StartForget(r) \/ StartCreateFails(r)
        PROVE  ActiveWithinRace'
    <3>1. Active' \subseteq Active
      BY <2>4, <2>c DEF StartUpload, StartSweep, StartForget, StartCreateFails, store, Active
    <3>2. Starting' \subseteq Starting
      BY <2>4, <2>a, <2>b DEF StartUpload, StartSweep, StartForget, StartCreateFails
    <3> QED
      BY <3>1, <3>2, NoMoreSessions
  <2>5. ASSUME NEW r \in Requests, Complete(r) PROVE ActiveWithinRace'
    <3>1. Active' \subseteq Active
      BY <2>5, <2>c DEF Complete, CompleteSeen, CompleteStore, CompleteSave, CompleteSaveFails,
         CompletePrevious, CompleteSweep, CompleteForget, store, Active
    <3>2. Starting' \subseteq Starting
      BY <2>5, <2>a, <2>b DEF Complete, CompleteSeen, CompleteStore, CompleteSave,
         CompleteSaveFails, CompletePrevious, CompleteSweep, CompleteForget
    <3> QED
      BY <3>1, <3>2, NoMoreSessions
  <2>6. ASSUME NEW r \in Requests,
               \/ \E s \in Sessions : ChunkFind(r, s) \/ CompleteFind(r, s)
               \/ ChunkWrite(r) \/ GradeFind(r) \/ GradeSave(r) \/ Refused(r)
        PROVE  ActiveWithinRace'
    <3>1. Active' = Active
      BY <2>6 DEF ChunkFind, CompleteFind, ChunkWrite, GradeFind, GradeSave, Refused,
         store, Active
    <3>2. Starting' \subseteq Starting
      BY <2>6, <2>a, <2>b DEF ChunkFind, CompleteFind, ChunkWrite, GradeFind, GradeSave,
         Refused
    <3> QED
      BY <3>1, <3>2, NoMoreSessions
  <2>7. ASSUME NEW s \in Sessions, SessionExpires(s) PROVE ActiveWithinRace'
    <3>1. Active' \subseteq Active /\ Starting' = Starting
      BY <2>7 DEF SessionExpires, Active, Starting, TypeOK
    <3> QED
      BY <3>1, NoMoreSessions
  <2>8. CASE AssignmentChanges \/ Crash \/ UNCHANGED vars
    <3>1. Active' = Active /\ Starting' \subseteq Starting
      BY <2>8 DEF AssignmentChanges, Crash, vars, store, Active, Starting
    <3> QED
      BY <3>1, NoMoreSessions
  <2> QED
    BY <2>1, <2>2, <2>3, <2>4, <2>5, <2>6, <2>7, <2>8 DEF Next, Start
<1> QED
  BY <1>1, <1>2, TypeCorrect, PTL DEF Spec

-----------------------------------------------------------------------------
(* Requests that come one at a time *)

\* With one request slot, the limit on unfinished sessions is kept: it takes
\* two StartUpload requests in flight to pass it.
THEOREM ActiveLimitAlone ==
  ASSUME \A p, q \in Requests : p = q
  PROVE  Spec => []ActiveLimit
<1>1. Cardinality(Requests) <= 1
  <2>1. PICK r : r \in Requests
    BY SetsAssumption
  <2>2. Requests = {r}
    BY <2>1
  <2>3. Cardinality({r}) = 1
    BY FS_Singleton
  <2> QED
    BY <2>2, <2>3
<1>2. TypeOK /\ ActiveWithinRace => ActiveLimit
  <2>1. IsFiniteSet(Active) /\ IsFiniteSet(Starting) /\ IsFiniteSet(Requests)
    BY SetsAssumption, FS_Subset DEF Active, Starting
  <2>2. /\ Cardinality(Active) \in Nat /\ Cardinality(Starting) \in Nat
        /\ Cardinality(Requests) \in Nat
    BY <2>1, FS_CardinalityType
  <2> QED
    BY <1>1, <2>2, BoundsAssumption DEF ActiveWithinRace, ActiveLimit
<1> QED
  BY <1>2, TypeCorrect, ActiveWithinRaceAlways, PTL

\* No removal failed, or the next one of the same directory succeeded.
AllRemoved == remains = {}

\* With one request slot and a disk that does not fail, no removal fails: no
\* PUT is at work beside it, and no chunks are left without their session,
\* wherever the process dies and whatever statements fail.
THEOREM NothingRemainsAlone ==
  ASSUME \A p, q \in Requests : p = q, ~DiskFails
  PROVE  Spec => []NothingRemains
<1>1. Init => AllRemoved
  BY DEF Init, AllRemoved
<1>2. AllRemoved /\ [Next]_vars => AllRemoved'
  <2> SUFFICES ASSUME remains = {}, [Next]_vars PROVE remains' = {}
    BY DEF AllRemoved
  <2>1. ASSUME NEW r \in Requests, pc[r] # "chunk_write", NEW s, RemoveAll(s)
        PROVE  remains' = {}
    BY <2>1 DEF RemoveAll, Writing
  <2>2. ASSUME NEW r \in Requests,
               StartSweep(r) \/ StartCreateFails(r) \/ CompleteSweep(r)
        PROVE  remains' = {}
    BY <2>1, <2>2 DEF StartSweep, StartCreateFails, CompleteSweep
  <2>3. CASE UNCHANGED remains
    BY <2>3
  <2> QED
    BY <2>2, <2>3 DEF Next, Start, StartUpload, StartForget, StartCount, StartMkdir,
       StartCreate, ChunkFind, CompleteFind, ChunkWrite, Complete, CompleteSeen,
       CompleteStore, CompleteSave, CompleteSaveFails, CompletePrevious,
       CompleteForget, GradeFind, GradeSave, Refused, SessionExpires,
       AssignmentChanges, Crash, store, vars
<1>3. SessionsInv /\ AllRemoved => NothingRemains
  BY DEF AllRemoved, SessionsInv, PartsHaveTheirSession, NothingRemains
<1> QED
  BY <1>1, <1>2, <1>3, SessionsInvariant, PTL DEF Spec

\* With one slot, what a request knows of the submission is still the row
\* when it writes, and the row's file is there.
THEOREM CopyIsCurrentAlone ==
  ASSUME \A p, q \in Requests : p = q
  PROVE  Spec => [](CopyIsCurrent /\ Downloadable)
<1>1. Init => CopyIsCurrent /\ Downloadable
  BY RecordFields DEF Init, CopyIsCurrent, Downloadable, Exists
<1>2. TypeOK /\ TypeOK' /\ SessionChosen /\ FilesInv /\ CopyIsCurrent /\ Downloadable
        /\ [Next]_vars => CopyIsCurrent' /\ Downloadable'
  <2> SUFFICES ASSUME TypeOK, TypeOK', SessionChosen, FilesInv, CopyIsCurrent, Downloadable,
                      [Next]_vars
               PROVE  CopyIsCurrent' /\ Downloadable'
    OBVIOUS
  <2> DEFINE Acts == {"complete_store", "complete_save", "complete_previous", "grade_save"}
  <2>a. ASSUME NEW r \in Requests, NEW l, Goto(r, l) PROVE pc'[r] = l
    BY <2>a DEF Goto, TypeOK
  <2>b. ASSUME NEW r \in Requests, Finish(r) PROVE pc'[r] = "idle"
    BY <2>a, <2>b DEF Finish
  \* Nobody is left who acts on a copy.
  <2>c. ASSUME NEW r \in Requests, pc'[r] \notin Acts
        PROVE  CopyIsCurrent'
    BY <2>c DEF CopyIsCurrent
  <2>d. ASSUME UNCHANGED <<row, files>> PROVE Downloadable'
    BY <2>d DEF Downloadable, Exists
  \* A step that leaves the submission and its file alone.
  <2>e. ASSUME NEW r \in Requests, pc'[r] \notin Acts, UNCHANGED <<row, files>>
        PROVE  CopyIsCurrent' /\ Downloadable'
    BY <2>c, <2>d, <2>e
  <2>f. ASSUME NEW f, RemoveFile(f), row.file # f, UNCHANGED row
        PROVE  Downloadable'
    <3>1. row.file # 0 => row.file \in Files
      <4>1. row.file \in 0..MaxFiles
        BY RowFields DEF TypeOK
      <4> QED
        BY <4>1, BoundsAssumption DEF Files
    <3>2. \A g \in Files : g # f => files'[g] = files[g]
      BY <2>f DEF RemoveFile, TypeOK
    <3> QED
      BY <2>f, <3>1, <3>2 DEF Downloadable, Exists
  <2>1. ASSUME NEW r \in Requests, Start(r) PROVE CopyIsCurrent' /\ Downloadable'
    <3>1. UNCHANGED <<row, files>>
      BY <2>1 DEF Start, StartUpload, StartSweep, StartForget, StartCount, StartMkdir,
         StartCreate, StartCreateFails, store
    <3>2. pc'[r] \notin Acts
      BY <2>1, <2>a, <2>b DEF Start, StartUpload, StartSweep, StartForget, StartCount,
         StartMkdir, StartCreate, StartCreateFails
    <3> QED
      BY <2>e, <3>1, <3>2
  <2>2. ASSUME NEW r \in Requests, NEW s \in Sessions, ChunkFind(r, s) \/ CompleteFind(r, s)
        PROVE  CopyIsCurrent' /\ Downloadable'
    BY <2>2, <2>a, <2>e DEF ChunkFind, CompleteFind, store
  <2>3. ASSUME NEW r \in Requests, ChunkWrite(r) \/ Refused(r)
        PROVE  CopyIsCurrent' /\ Downloadable'
    BY <2>3, <2>b, <2>e DEF ChunkWrite, Refused, store
  <2>4. ASSUME NEW r \in Requests, CompleteSeen(r)
        PROVE  CopyIsCurrent' /\ Downloadable'
    <3>1. UNCHANGED <<row, files>>
      BY <2>4 DEF CompleteSeen, store
    <3>2. CASE Finish(r)
      BY <2>b, <2>e, <3>1, <3>2
    <3>3. CASE ~Finish(r)
      <4>1. PICK copy \in {row, NoRow} :
              /\ ~AlreadyGraded(copy)
              /\ seen' = [seen EXCEPT ![r] = copy]
              /\ Goto(r, "complete_store")
        BY <2>4, <3>3 DEF CompleteSeen
      <4>2. seen'[r] = copy /\ ~copy.graded /\ pc'[r] = "complete_store"
        BY <2>a, <4>1 DEF AlreadyGraded, TypeOK
      <4> QED
        BY <2>d, <3>1, <4>2 DEF CopyIsCurrent
    <3> QED
      BY <3>2, <3>3
  <2>5. ASSUME NEW r \in Requests, CompleteStore(r)
        PROVE  CopyIsCurrent' /\ Downloadable'
    <3>1. /\ pc[r] = "complete_store" /\ pc'[r] = "complete_save"
          /\ UNCHANGED <<row, seen>>
      BY <2>5, <2>a DEF CompleteStore
    <3>2. files' = [files EXCEPT ![nextFile] = File(sess[r], parts[sess[r]])]
      BY <2>5 DEF CompleteStore
    <3>3. Exists(row) => row.file \in Files /\ row.file # nextFile
      <4>1. row.file \in 0..MaxFiles /\ nextFile \in 1..(MaxFiles + 1)
        BY RowFields DEF TypeOK
      <4>2. Exists(row) => row.file < nextFile
        BY DEF FilesInv, RowFileStored
      <4> QED
        BY <4>1, <4>2, BoundsAssumption DEF Exists, Files
    <3>4. Downloadable'
      BY <3>1, <3>2, <3>3 DEF Downloadable, Exists, TypeOK
    <3> QED
      BY <3>1, <3>4 DEF CopyIsCurrent
  <2>6. ASSUME NEW r \in Requests, CompleteSave(r)
        PROVE  CopyIsCurrent' /\ Downloadable'
    <3>1. /\ pc[r] = "complete_save" /\ pc'[r] = "complete_previous" /\ UNCHANGED files
          /\ row' = Submission(own[r], sess[r], FALSE)
      BY <2>6, <2>a DEF CompleteSave
    <3>2. row'.file = own[r] /\ ~row'.graded
      BY <3>1 DEF Submission
    <3>3. files[own[r]] = Whole(sess[r]) /\ sess[r] \in Sessions
      BY <3>1 DEF FilesInv, OwnFile, SessionChosen, WithSession
    <3>4. files[own[r]] # NoFile
      BY <3>3, SetsAssumption DEF Whole, NoFile, File
    <3> QED
      BY <3>1, <3>2, <3>4 DEF CopyIsCurrent, Downloadable
  <2>7. ASSUME NEW r \in Requests, CompleteSaveFails(r)
        PROVE  CopyIsCurrent' /\ Downloadable'
    <3>1. /\ pc[r] = "complete_save" /\ pc'[r] = "idle" /\ UNCHANGED row /\ RemoveFile(own[r])
      BY <2>7, <2>b DEF CompleteSaveFails, Unsaved
    <3>2. row.file # own[r]
      BY <3>1 DEF FilesInv, OwnFile
    <3> QED
      BY <2>c, <2>f, <3>1, <3>2
  <2>8. ASSUME NEW r \in Requests, CompletePrevious(r)
        PROVE  CopyIsCurrent' /\ Downloadable'
    <3>1. pc[r] = "complete_previous" /\ pc'[r] = "complete_sweep" /\ UNCHANGED row
      BY <2>8, <2>a DEF CompletePrevious
    <3>2. CASE Exists(seen[r])
      <4>1. RemoveFile(seen[r].file)
        BY <2>8, <3>2 DEF CompletePrevious
      <4>2. row.file # seen[r].file
        BY <3>1, <3>2 DEF CopyIsCurrent, FilesInv, Replaced
      <4> QED
        BY <2>c, <2>f, <3>1, <4>1, <4>2
    <3>3. CASE ~Exists(seen[r])
      BY <2>8, <2>e, <3>1, <3>3 DEF CompletePrevious
    <3> QED
      BY <3>2, <3>3
  <2>9. ASSUME NEW r \in Requests, CompleteSweep(r) \/ CompleteForget(r)
        PROVE  CopyIsCurrent' /\ Downloadable'
    BY <2>9, <2>a, <2>b, <2>e DEF CompleteSweep, CompleteForget
  <2>10. ASSUME NEW r \in Requests, GradeFind(r)
         PROVE  CopyIsCurrent' /\ Downloadable'
    <3>1. UNCHANGED <<row, files>> /\ seen'[r] = row /\ pc'[r] = "grade_save"
      BY <2>10, <2>a DEF GradeFind, store, TypeOK
    <3> QED
      BY <2>d, <3>1 DEF CopyIsCurrent
  <2>11. ASSUME NEW r \in Requests, GradeSave(r)
         PROVE  CopyIsCurrent' /\ Downloadable'
    <3>1. pc[r] = "grade_save" /\ pc'[r] = "idle" /\ UNCHANGED files
      BY <2>11, <2>b DEF GradeSave
    <3>2. row'.file = row.file
      <4>1. row \in Row /\ seen[r] = row
        BY <3>1 DEF CopyIsCurrent, TypeOK
      <4>2. row' = [row EXCEPT !.graded = TRUE] \/ row' = row
        BY <2>11, <4>1 DEF GradeSave
      <4> QED
        BY <4>1, <4>2, RowFields
    <3> QED
      BY <2>c, <3>1, <3>2 DEF Downloadable, Exists
  <2>12. CASE Crash
    BY <2>12, <2>d DEF Crash, CopyIsCurrent, store
  <2>13. CASE \/ \E s \in Sessions : SessionExpires(s)
              \/ AssignmentChanges \/ UNCHANGED vars
    <3>1. UNCHANGED <<row, files, pc, seen>>
      BY <2>13 DEF SessionExpires, AssignmentChanges, vars, memory
    <3> QED
      BY <2>d, <3>1 DEF CopyIsCurrent
  <2> QED
    BY <2>1, <2>2, <2>3, <2>4, <2>5, <2>6, <2>7, <2>8, <2>9, <2>10, <2>11, <2>12, <2>13
       DEF Next, Complete
<1> QED
  BY <1>1, <1>2, Typing, FilesInvariant, PTL DEF Spec

\* When requests come one at a time, the file of a submission can always be
\* downloaded, whatever statements fail and wherever the process dies.
THEOREM DownloadableAlone ==
  ASSUME \A p, q \in Requests : p = q
  PROVE  Spec => []Downloadable
<1>1. Spec => [](CopyIsCurrent /\ Downloadable)
  BY CopyIsCurrentAlone
<1> QED
  BY <1>1, PTL

\* And a graded submission is never replaced: CompleteUpload looked at the
\* grade, and no grade came in between.
THEOREM GradedIsFinalAlone ==
  ASSUME \A p, q \in Requests : p = q
  PROVE  Spec => GradedIsFinal
<1>1. TypeOK /\ TypeOK' /\ CopyIsCurrent /\ [Next]_vars
        => [Exists(row) /\ row.graded => row'.graded /\ row'.file = row.file]_vars
  <2> SUFFICES ASSUME TypeOK, CopyIsCurrent, Next, Exists(row), row.graded
               PROVE  row'.graded /\ row'.file = row.file
    BY DEF vars
  <2>1. ASSUME NEW r \in Requests, CompleteSave(r) PROVE FALSE
    <3>1. SaveAccepted(r) /\ seen[r] \in {row, NoRow} /\ ~seen[r].graded
      BY <2>1 DEF CompleteSave, CopyIsCurrent
    <3> QED
      BY <3>1, RecordFields DEF SaveAccepted, Exists
  <2>2. ASSUME NEW r \in Requests, GradeSave(r) PROVE row'.graded /\ row'.file = row.file
    <3>1. row \in Row /\ seen[r] = row
      BY <2>2 DEF GradeSave, CopyIsCurrent, TypeOK
    <3>2. row' = [row EXCEPT !.graded = TRUE] \/ row' = row
      BY <2>2, <3>1 DEF GradeSave
    <3> QED
      BY <3>1, <3>2, RowFields
  <2>3. CASE UNCHANGED row
    BY <2>3
  <2> QED
    BY <2>1, <2>2, <2>3 DEF Next, Start, StartUpload, StartSweep, StartForget, StartCount,
       StartMkdir, StartCreate, StartCreateFails, ChunkFind, CompleteFind, ChunkWrite,
       Complete, CompleteSeen, CompleteStore, CompleteSaveFails, CompletePrevious,
       CompleteSweep, CompleteForget, GradeFind, Refused, SessionExpires,
       AssignmentChanges, Crash, store
<1>2. Spec => [](CopyIsCurrent /\ Downloadable)
  BY CopyIsCurrentAlone
<1> QED
  BY <1>1, <1>2, TypeCorrect, PTL DEF Spec, GradedIsFinal
=============================================================================
