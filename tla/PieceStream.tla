----------------------------- MODULE PieceStream -----------------------------
(***************************************************************************)
(* What the download engine promises the disk writer and its caller, with  *)
(* no peers in it: every piece is verified at most once, every verified    *)
(* piece is handed to the writer exactly once, and the caller is told      *)
(* "complete" only when every piece has been written.  Coordinator is      *)
(* shown to implement it.                                                  *)
(***************************************************************************)
CONSTANT Pieces

VARIABLES
    verified,   \* pieces whose hash has been checked
    pending,    \* verified, on their way to the writer
    stored,     \* handed to Storage::write_piece with success
    sink,       \* the writer: "open", "failed" or "closed"
    result      \* what the caller has been told

streamVars == <<verified, pending, stored, sink, result>>

StreamInit ==
    /\ verified = {}
    /\ pending = {}
    /\ stored = {}
    /\ sink = "open"
    /\ result = "pending"

Verify(i) ==
    /\ sink # "closed"
    /\ i \notin verified
    /\ verified' = verified \cup {i}
    /\ pending' = pending \cup {i}
    /\ UNCHANGED <<stored, sink, result>>

Store(i) ==
    /\ sink = "open"
    /\ i \in pending
    /\ pending' = pending \ {i}
    /\ stored' = stored \cup {i}
    /\ UNCHANGED <<verified, sink, result>>

\* The writer stops on an I/O error and loses some of what was pending.
Fail ==
    /\ sink = "open"
    /\ sink' = "failed"
    /\ pending' \in SUBSET pending
    /\ UNCHANGED <<verified, stored, result>>

\* A piece verified after the writer has stopped goes nowhere.
Discard(i) ==
    /\ sink = "failed"
    /\ i \in pending
    /\ pending' = pending \ {i}
    /\ UNCHANGED <<verified, stored, sink, result>>

Close ==
    /\ sink = "open"
    /\ pending = {}
    /\ sink' = "closed"
    /\ UNCHANGED <<verified, pending, stored, result>>

Report ==
    /\ result = "pending"
    /\ sink # "open"
    /\ result' = IF sink = "failed" THEN "writer_error"
                 ELSE IF verified = Pieces THEN "complete" ELSE "stalled"
    /\ UNCHANGED <<verified, pending, stored, sink>>

StreamNext ==
    \/ \E i \in Pieces : Verify(i) \/ Store(i) \/ Discard(i)
    \/ Fail \/ Close \/ Report

StreamSpec == StreamInit /\ [][StreamNext]_streamVars
=============================================================================
