------------------------- MODULE MCAssignmentUploads -------------------------
(***************************************************************************)
(* AssignmentUploads on small instances.  Goroutine slots are              *)
(* interchangeable, and so are session ids and chunk indexes (a file is    *)
(* whole when it has all of them, in whatever order they came).            *)
(***************************************************************************)
EXTENDS AssignmentUploads, TLC

Symmetric ==
    Permutations(Requests) \cup Permutations(Sessions)
        \cup Permutations(Chunks)
=============================================================================
