------------------------------ MODULE AttemptLedger ------------------------------
(***************************************************************************)
(* What the server promises of the attempts of one student at one exam,    *)
(* whatever requests are under way: attempts get fresh ids, are opened     *)
(* while there is room for them, closed once, graded even after they were  *)
(* closed, and go only when the exam goes.  A hand-in that was under way   *)
(* then may still leave its attempt behind, graded.                        *)
(*                                                                         *)
(* ExamAttempts implements it, statement by statement.                     *)
(***************************************************************************)
EXTENDS Integers, FiniteSets

CONSTANTS
    MaxIds,   \* bound of the ids
    Limited,  \* there is a limit, and the counts that keep it do not fail
    Most      \* the limit, and what requests in flight may add to it

VARIABLES
    standing,  \* of each attempt, by id
    last,      \* the last id given out, to anyone
    exam       \* the exam is there

ledger == <<standing, last, exam>>

Ids == 1..MaxIds
Room == Limited => Cardinality({i \in Ids : standing[i] # "absent"}) < Most

Init ==
    /\ standing = [i \in Ids |-> "absent"]
    /\ last = 0
    /\ exam = TRUE

Opens ==
    /\ last < MaxIds /\ Room
    /\ last' = last + 1
    /\ standing' = [standing EXCEPT ![last + 1] = "in_progress"]
    /\ UNCHANGED exam

\* A guest takes an id.
Passes ==
    /\ last < MaxIds
    /\ last' = last + 1
    /\ UNCHANGED <<standing, exam>>

Closes(i) ==
    /\ standing[i] = "in_progress"
    /\ standing' = [standing EXCEPT ![i] = "expired"]
    /\ UNCHANGED <<last, exam>>

Grades(i) ==
    /\ standing[i] \in {"in_progress", "expired"}
    /\ standing' = [standing EXCEPT ![i] = "graded"]
    /\ UNCHANGED <<last, exam>>

\* The exam is deleted, with all attempts.
Vanishes ==
    /\ exam
    /\ exam' = FALSE
    /\ standing' = [i \in Ids |-> "absent"]
    /\ UNCHANGED last

Returns(i) ==
    /\ ~exam /\ i <= last /\ standing[i] = "absent" /\ Room
    /\ standing' = [standing EXCEPT ![i] = "graded"]
    /\ UNCHANGED <<last, exam>>

Next ==
    \/ Opens \/ Passes \/ Vanishes
    \/ \E i \in Ids : Closes(i) \/ Grades(i) \/ Returns(i)

Spec == Init /\ [][Next]_ledger
=============================================================================
