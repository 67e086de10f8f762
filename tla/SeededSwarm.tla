----------------------------- MODULE SeededSwarm -----------------------------
(***************************************************************************)
(* A Coordinator some of whose peers are seeds: they accept the            *)
(* connection, stay, send the full bitfield, unchoke us, and answer every  *)
(* request with the right bytes before the request timer fires.  We send   *)
(* no cancel, so requests made before a pause are answered as well, while  *)
(* the session is at another piece, at the same one again, or at none.     *)
(* All other peers remain arbitrary: silent, corrupt, leaving, malformed.  *)
(***************************************************************************)
EXTENDS Coordinator

CONSTANT Seeds
ASSUME SeedsAssumption == Seeds \subseteq Peers /\ Pieces \in Bitfields

VARIABLE open   \* open[p]: requests for the current piece that seed p is yet to answer

seededVars == <<vars, open>>

SeededInit == Init /\ open = [p \in Seeds |-> {}]

\* The wire after a step that answers the open requests <<p, b>> in A.  With the
\* piece they were made for, open requests are forgotten on our side.
Wire(A) ==
    open' = [p \in Seeds |->
        IF requested'[p] = {} THEN {}
        ELSE {b \in open[p] : <<p, b>> \notin A} \cup (requested'[p] \ requested[p])]

\* What a seed has to tell us.
SeedTells(p) ==
    \/ peer_has[p] # Pieces /\ RecvBitfield(p, Pieces)
    \/ p \in choked /\ RecvUnchoke(p)

SeedAnswers(p) == \E b \in open[p] : BlockArrives(p, b, b, TRUE) /\ Wire({<<p, b>>})

\* The answer to a request that was forgotten.  Which ones are still to come is
\* not recorded: any block may, at any time and any number of times.
LateBlock(p) == RecvIgnored(p) \/ \E b \in AnyBlock : BlockArrives(p, b, b, TRUE)

\* Steps that answer no open request.
OtherStep ==
    \/ \E v \in ControlCalls : ControlCall(v)
    \/ \E p \in Peers : TaskStep(p) \/ SelectStep(p)
    \/ \E p \in Seeds : SeedTells(p) \/ LateBlock(p)
    \/ \E p \in Peers \ Seeds : SocketFails(p) \/ PeerStep(p)
    \/ WriterStep
    \/ Terminated

SeededNext == (OtherStep /\ Wire({})) \/ \E p \in Seeds : SeedAnswers(p)

\* A seed's answer is in the byte stream behind finitely many other messages,
\* so it is received if the session comes back to select! again and again.
SeededSpec ==
    /\ SeededInit /\ [][SeededNext]_seededVars
    /\ \A p \in Peers : SF_vars(SelectControl(p)) /\ SF_vars(SelectDone(p))
    /\ \A p \in Peers \ Seeds : WF_vars(TaskStep(p) \/ SocketFails(p))
    /\ \A p \in Seeds : WF_vars(TaskStep(p)) /\ SF_vars(SeedTells(p))
    /\ \A p \in Seeds : SF_seededVars(SeedAnswers(p))
    /\ WF_vars(WriterStep)
-----------------------------------------------------------------------------
\* One seed is enough: whatever claims the other peers hold, leak or time out
\* on, every piece is fetched and the caller is told so, unless the disk fails
\* or the download is cancelled or left paused.  This is the "stuck at 99.9%" property.
SeedCompletes ==
    SpawnedInTime /\ [](control # "Cancelled") /\ <>[](control = "Running")
    => <>(outcome \in {"complete", "writer_error"})

\* A session that waits with a piece does not wait for nothing: although late
\* answers count in_flight down, to zero if need be, the seed still owes it a
\* block it asked for since the claim, and in_flight never exceeds what is owed.
SeedStillOwes ==
    \A p \in Seeds : pc[p] = "select" /\ current[p] # NoPiece =>
        /\ open[p] # {}
        /\ in_flight[p] <= Cardinality(open[p])
=============================================================================
