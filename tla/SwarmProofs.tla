---------------------------- MODULE SwarmProofs ----------------------------
(***************************************************************************)
(* Two results about the whole engine. Coordinator implements PieceStream: *)
(* every verified piece is handed to the writer exactly once, and          *)
(* "complete" is only reported for a torrent whose every piece has been    *)
(* written. And a swarm with seeds implements Coordinator, and keeps exact *)
(* books of the requests it has open at a seed.                            *)
(***************************************************************************)
EXTENDS CoordinatorProofs, SeededSwarm

(***************************************************************************)
(* The channel as a set.                                                   *)
(***************************************************************************)
\* Sending puts one piece in.
LEMMA AppendedChannel ==
    ASSUME channel \in Seq(Pieces), NEW x \in Pieces, channel' = Append(channel, x)
    PROVE  /\ inChannel' = inChannel \cup {x}
           /\ (\A m, n \in DOMAIN channel : m # n => channel[m] # channel[n]) /\ x \notin inChannel
                => (\A m, n \in DOMAIN channel' : m # n => channel'[m] # channel'[n])
<1>1. Len(channel) \in Nat /\ DOMAIN channel = 1 .. Len(channel)  OBVIOUS
<1>2. DOMAIN channel' = 1 .. Len(channel) + 1  OBVIOUS
<1>3. \A n \in 1 .. Len(channel) : channel'[n] = channel[n]  OBVIOUS
<1>4. channel'[Len(channel) + 1] = x  OBVIOUS
<1>5. inChannel' = inChannel \cup {x}  BY <1>1, <1>2, <1>3, <1>4 DEF inChannel
<1>6. ASSUME \A m, n \in DOMAIN channel : m # n => channel[m] # channel[n], x \notin inChannel,
             NEW m \in DOMAIN channel', NEW n \in DOMAIN channel', m # n
      PROVE  channel'[m] # channel'[n]
  BY <1>1, <1>2, <1>3, <1>4, <1>6 DEF inChannel
<1>. QED  BY <1>5, <1>6

\* Receiving takes exactly one piece out when no piece is in twice.
LEMMA TailedChannel ==
    ASSUME channel \in Seq(Pieces), channel # <<>>, channel' = Tail(channel),
           \A m, n \in DOMAIN channel : m # n => channel[m] # channel[n]
    PROVE  /\ Head(channel) \in inChannel
           /\ inChannel' = inChannel \ {Head(channel)}
           /\ \A m, n \in DOMAIN channel' : m # n => channel'[m] # channel'[n]
<1>1. Len(channel) \in Nat \ {0} /\ DOMAIN channel = 1 .. Len(channel)  OBVIOUS
<1>2. DOMAIN channel' = 1 .. Len(channel) - 1  OBVIOUS
<1>3. \A n \in 1 .. Len(channel) - 1 : channel'[n] = channel[n + 1]  OBVIOUS
<1>4. Head(channel) = channel[1]  OBVIOUS
<1>5. Head(channel) \in inChannel  BY <1>1, <1>4 DEF inChannel
<1>6. \A m, n \in DOMAIN channel' : m # n => channel'[m] # channel'[n]
  BY <1>1, <1>2, <1>3
<1>7. inChannel' \subseteq inChannel \ {Head(channel)}
  BY <1>1, <1>2, <1>3, <1>4 DEF inChannel
<1>8. ASSUME NEW y \in inChannel, y # Head(channel) PROVE y \in inChannel'
  <2>1. PICK n \in 1 .. Len(channel) : y = channel[n]  BY <1>1 DEF inChannel
  <2>2. n - 1 \in 1 .. Len(channel) - 1  BY <1>1, <1>4, <1>8, <2>1
  <2>3. channel'[n - 1] = y  BY <1>1, <1>3, <2>1, <2>2
  <2>. QED  BY <1>2, <2>2, <2>3 DEF inChannel
<1>. QED  BY <1>5, <1>6, <1>7, <1>8

\* The empty channel.
LEMMA EmptyChannel == channel = <<>> => inChannel = {}
  BY DEF inChannel

-----------------------------------------------------------------------------
(***************************************************************************)
(* The steps that move a piece.                                            *)
(***************************************************************************)
\* Nothing that the hand-over talks about changes.
KeepsStream == UNCHANGED <<have, outgoing, channel, written, writer, outcome>>

\* A verified piece starts its way with one sender that had none.
LEMMA VerifiedMoves ==
    ASSUME SafetyInv, NEW p \in Peers, NEW b, NEW e, NEW right, PieceVerified(p, b, e, right)
    PROVE  /\ current[p] \in Pieces \ have
           /\ have' = have \cup {current[p]}
           /\ outgoing[p] = NoPiece /\ outgoing' = [outgoing EXCEPT ![p] = current[p]]
           /\ pendingOut' = pendingOut \cup {current[p]}
           /\ UNCHANGED <<channel, written, writer, outcome, inChannel>>
           /\ pc[p] = "select"
<1>. USE DEF SafetyInv, TypeOK, SinkTypeOK
<1>1. current[p] \in Pieces \ have /\ pc[p] = "select"
  BY TakeWholeTyped DEF PieceVerified, TakeWhole, BlockFor
<1>2. have' = have \cup {current[p]}  BY DEF PieceVerified, mark_have
<1>3. outgoing[p] = NoPiece  BY <1>1 DEF SenderHoldsPiece
<1>4. outgoing' = [outgoing EXCEPT ![p] = current[p]]  BY DEF PieceVerified
<1>5. NoPiece \notin Pieces  BY NumPiecesAssumption DEF Pieces, NoPiece
<1>6. pendingOut' = pendingOut \cup {current[p]}  BY <1>1, <1>3, <1>4, <1>5 DEF pendingOut
<1>7. UNCHANGED <<channel, written, writer, outcome, inChannel>>
  BY DEF PieceVerified, TakeWhole, sinkVars, inChannel
<1>. QED  BY <1>1, <1>2, <1>3, <1>4, <1>6, <1>7

\* A send, whether it succeeds or not, takes the piece from its only sender.
LEMMA SenderLetsGo ==
    ASSUME SafetyInv, HandedOverOnce, NEW p \in Peers, pc[p] \in {"sending", "sendingLast"},
           outgoing' = [outgoing EXCEPT ![p] = NoPiece]
    PROVE  /\ outgoing[p] \in Pieces
           /\ outgoing[p] \in pendingOut
           /\ pendingOut' = pendingOut \ {outgoing[p]}
<1>1. outgoing[p] \in Pieces /\ outgoing[p] # NoPiece
  BY DEF SafetyInv, SenderHoldsPiece, TypeOK, SinkTypeOK
<1>2. outgoing \in [Peers -> Pieces \cup {NoPiece}]  BY DEF SafetyInv, TypeOK, SinkTypeOK
<1>3. \A q \in Peers \ {p} : outgoing[q] # outgoing[p]  BY <1>1 DEF HandedOverOnce
<1>. QED  BY <1>1, <1>2, <1>3 DEF pendingOut

\* Once every task has stopped nobody is sending.
LEMMA StoppedSendNothing ==
    ASSUME SafetyInv, AllStopped
    PROVE  pendingOut = {}
  BY DEF SafetyInv, SenderHoldsPiece, AllStopped, Stopped, pendingOut

-----------------------------------------------------------------------------
(***************************************************************************)
(* Every step either moves a piece, ends the writer, reports, or leaves    *)
(* the hand-over alone; and a task that has stopped takes no step.         *)
(***************************************************************************)
\* A step that leaves the hand-over alone.
QuietStep == KeepsStream /\ (AllStopped => AllStopped')

\* The classification of the steps.
LEMMA StepKinds ==
    ASSUME [Next]_vars
    PROVE  \/ QuietStep
           \/ \E p \in Peers : \/ \E b, e \in AnyBlock : \E right \in BOOLEAN :
                                      PieceVerified(p, b, e, right)
                              \/ SendPiece(p) \/ SendFails(p)
           \/ WritePiece \/ WriterFails \/ WriterFinishes \/ Report
<1>. USE DEF QuietStep, KeepsStream, AllStopped, Stopped, trackerVars, sinkVars
<1>1. ASSUME NEW v \in ControlCalls, ControlCall(v) PROVE QuietStep
  BY <1>1 DEF ControlCall
<1>2. ASSUME NEW p \in Peers, Spawn(p) PROVE QuietStep
  BY <1>2 DEF Spawn
<1>3. ASSUME NEW p \in Peers, Connect(p) PROVE QuietStep
  BY <1>3 DEF Connect
<1>4. ASSUME NEW p \in Peers, ConnectFails(p) PROVE QuietStep
  BY <1>4 DEF ConnectFails
<1>5. ASSUME NEW p \in Peers, ObserveControl(p) PROVE QuietStep
  BY <1>5 DEF ObserveControl
<1>6. ASSUME NEW p \in Peers, CancelSession(p) PROVE QuietStep
  BY <1>6 DEF CancelSession, ReleaseCurrent, release_piece
<1>7. ASSUME NEW p \in Peers, PauseSession(p) PROVE QuietStep
  BY <1>7 DEF PauseSession, ReleaseCurrent, release_piece
<1>8. ASSUME NEW p \in Peers, WakePaused(p) PROVE QuietStep
  BY <1>8 DEF WakePaused
<1>9. ASSUME NEW p \in Peers, ReserveExclusive(p) PROVE QuietStep
  BY <1>9 DEF ReserveExclusive, claim
<1>10. ASSUME NEW p \in Peers, ReserveFindsComplete(p) PROVE QuietStep
  BY <1>10 DEF ReserveFindsComplete
<1>11. ASSUME NEW p \in Peers, ReserveEndgame(p) PROVE QuietStep
  BY <1>11 DEF ReserveEndgame
<1>12. ASSUME NEW p \in Peers, Fill(p) PROVE QuietStep
  BY <1>12 DEF Fill
<1>13. ASSUME NEW p \in Peers, FillFails(p) PROVE QuietStep
  BY <1>13 DEF FillFails
<1>14. ASSUME NEW p \in Peers, BroadcastDone(p) PROVE QuietStep
  BY <1>14 DEF BroadcastDone
<1>15. ASSUME NEW p \in Peers, Cleanup(p) PROVE QuietStep
  BY <1>15 DEF Cleanup, replace_bitfield
<1>16. ASSUME NEW p \in Peers, SelectControl(p) PROVE QuietStep
  BY <1>16 DEF SelectControl
<1>17. ASSUME NEW p \in Peers, SelectDone(p) PROVE QuietStep
  BY <1>17 DEF SelectDone
<1>18. ASSUME NEW p \in Peers, SelectTimeout(p) PROVE QuietStep
  BY <1>18 DEF SelectTimeout, ReleaseCurrent, release_piece
<1>19. ASSUME NEW p \in Peers, RecvIgnored(p) PROVE QuietStep
  BY <1>19 DEF RecvIgnored
<1>20. ASSUME NEW p \in Peers, PeerCloses(p) PROVE QuietStep
  BY <1>20 DEF PeerCloses, ReleaseCurrent, release_piece
<1>21. ASSUME NEW p \in Peers, SessionFails(p) PROVE QuietStep
  BY <1>21 DEF SessionFails
<1>22. ASSUME NEW p \in Peers, RecvChoke(p) PROVE QuietStep
  BY <1>22 DEF RecvChoke, ReleaseCurrent, release_piece
<1>23. ASSUME NEW p \in Peers, RecvUnchoke(p) PROVE QuietStep
  BY <1>23 DEF RecvUnchoke
<1>24. ASSUME NEW p \in Peers, NEW i \in HaveIndices, RecvHave(p, i) PROVE QuietStep
  BY <1>24 DEF RecvHave, add_availability
<1>25. ASSUME NEW p \in Peers, NEW new_has \in Bitfields, RecvBitfield(p, new_has)
       PROVE QuietStep
  BY <1>25 DEF RecvBitfield, replace_bitfield
<1>26. ASSUME NEW p \in Peers, NEW b, NEW e, NEW right, BlockStored(p, b, e, right)
       PROVE QuietStep
  BY <1>26 DEF BlockStored, BlockFor
<1>27. ASSUME NEW p \in Peers, NEW b, NEW e, PieceAlreadyHave(p, b, e) PROVE QuietStep
  BY <1>27 DEF PieceAlreadyHave, BlockFor, TakeWhole
<1>28. ASSUME NEW p \in Peers, NEW b, NEW e, NEW right, PieceRejected(p, b, e, right)
       PROVE QuietStep
  BY <1>28 DEF PieceRejected, BlockFor, TakeWhole, release_piece
<1>29. ASSUME NEW p \in Peers, BlockPanics(p) PROVE QuietStep
  BY <1>29 DEF BlockPanics
<1>30. CASE UNCHANGED vars
  BY <1>30 DEF vars
<1>. HIDE DEF QuietStep, KeepsStream, AllStopped, Stopped, trackerVars, sinkVars
<1>. QED
  BY <1>1, <1>2, <1>3, <1>4, <1>5, <1>6, <1>7, <1>8, <1>9, <1>10, <1>11,
     <1>12, <1>13, <1>14, <1>15, <1>16, <1>17, <1>18, <1>19, <1>20, <1>21,
     <1>22, <1>23, <1>24, <1>25, <1>26, <1>27, <1>28, <1>29, <1>30
     DEF Next, TaskStep, SelectStep, SocketFails, PeerStep, BlockArrives, WriterStep,
        Terminated

-----------------------------------------------------------------------------
(***************************************************************************)
(* A verified piece is in one place.                                       *)
(***************************************************************************)
\* HandedOverOnce is preserved by every step.
LEMMA HandedOverStep ==
    ASSUME SafetyInv, HandedOverOnce, [Next]_vars
    PROVE  HandedOverOnce'
<1>. USE DEF HandedOverOnce
<1>1. CASE QuietStep
  BY <1>1 DEF QuietStep, KeepsStream, pendingOut, inChannel, is_complete
<1>2. ASSUME NEW p \in Peers, NEW b, NEW e, NEW right, PieceVerified(p, b, e, right)
      PROVE  HandedOverOnce'
  <2>1. /\ current[p] \in Pieces \ have
        /\ have' = have \cup {current[p]}
        /\ outgoing[p] = NoPiece /\ outgoing' = [outgoing EXCEPT ![p] = current[p]]
        /\ pendingOut' = pendingOut \cup {current[p]}
        /\ UNCHANGED <<channel, written, writer, outcome, inChannel>>
        /\ pc[p] = "select"
    BY <1>2, VerifiedMoves
  <2>2. writer # "finished"  BY <2>1 DEF AllStopped, Stopped
  <2>3. \A q \in Peers : outgoing[q] # current[p]
    BY <2>1, NumPiecesAssumption DEF pendingOut, NoPiece, Pieces
  <2>4. outgoing \in [Peers -> Pieces \cup {NoPiece}]  BY DEF SafetyInv, TypeOK, SinkTypeOK
  <2>5. \A q, r \in Peers : q # r /\ outgoing'[q] # NoPiece => outgoing'[q] # outgoing'[r]
    BY <2>1, <2>3, <2>4
  <2>. QED  BY <2>1, <2>2, <2>5
<1>3. ASSUME NEW p \in Peers, SendPiece(p) PROVE HandedOverOnce'
  <2>1. /\ pc[p] \in {"sending", "sendingLast"} /\ writer = "writing"
        /\ channel' = Append(channel, outgoing[p])
        /\ outgoing' = [outgoing EXCEPT ![p] = NoPiece]
        /\ UNCHANGED <<have, written, writer, outcome>>
    BY <1>3 DEF SendPiece, AfterSend, trackerVars
  <2>2. /\ outgoing[p] \in Pieces
        /\ outgoing[p] \in pendingOut
        /\ pendingOut' = pendingOut \ {outgoing[p]}
    BY <2>1, SenderLetsGo
  <2>3. channel \in Seq(Pieces)  BY DEF SafetyInv, TypeOK, SinkTypeOK
  <2>4. /\ inChannel' = inChannel \cup {outgoing[p]}
        /\ \A m, n \in DOMAIN channel' : m # n => channel'[m] # channel'[n]
    <3>1. outgoing[p] \notin inChannel  BY <2>2
    <3>2. \A m, n \in DOMAIN channel : m # n => channel[m] # channel[n]  OBVIOUS
    <3>. HIDE DEF HandedOverOnce
    <3>. QED  BY <2>1, <2>2, <2>3, <3>1, <3>2, AppendedChannel
  <2>5. \A q, r \in Peers : q # r /\ outgoing'[q] # NoPiece => outgoing'[q] # outgoing'[r]
    BY <2>1 DEF SafetyInv, TypeOK, SinkTypeOK
  <2>. QED  BY <2>1, <2>2, <2>4, <2>5 DEF is_complete
<1>4. ASSUME NEW p \in Peers, SendFails(p) PROVE HandedOverOnce'
  <2>1. /\ pc[p] \in {"sending", "sendingLast"} /\ writer = "failed"
        /\ outgoing' = [outgoing EXCEPT ![p] = NoPiece]
        /\ UNCHANGED <<have, channel, inChannel, written, writer, outcome>>
    BY <1>4 DEF SendFails, AfterSend, trackerVars, inChannel
  <2>2. pendingOut' = pendingOut \ {outgoing[p]}  BY <2>1, SenderLetsGo
  <2>3. \A q, r \in Peers : q # r /\ outgoing'[q] # NoPiece => outgoing'[q] # outgoing'[r]
    BY <2>1 DEF SafetyInv, TypeOK, SinkTypeOK
  <2>. QED  BY <2>1, <2>2, <2>3 DEF is_complete
<1>5. CASE WritePiece
  <2>1. /\ writer = "writing" /\ channel # <<>> /\ channel' = Tail(channel)
        /\ written' = written \cup {Head(channel)}
        /\ UNCHANGED <<have, outgoing, pendingOut, writer, outcome>>
    BY <1>5 DEF WritePiece, engineVars, trackerVars, pendingOut
  <2>2. /\ Head(channel) \in inChannel
        /\ inChannel' = inChannel \ {Head(channel)}
        /\ \A m, n \in DOMAIN channel' : m # n => channel'[m] # channel'[n]
    BY <2>1, TailedChannel DEF SafetyInv, TypeOK, SinkTypeOK
  <2>. QED  BY <2>1, <2>2 DEF is_complete
<1>6. CASE WriterFails
  <2>1. /\ writer' = "failed" /\ channel' = <<>> /\ writer = "writing"
        /\ UNCHANGED <<have, outgoing, pendingOut, written, outcome>>
    BY <1>6 DEF WriterFails, engineVars, trackerVars, pendingOut
  <2>2. inChannel' = {} /\ DOMAIN channel' = {}  BY <2>1 DEF inChannel
  <2>. QED  BY <2>1, <2>2
<1>7. CASE WriterFinishes
  <2>1. /\ writer' = "finished" /\ writer = "writing" /\ channel = <<>> /\ AllStopped /\ AllStopped'
        /\ UNCHANGED <<have, outgoing, pendingOut, channel, inChannel, written, outcome>>
    BY <1>7 DEF WriterFinishes, engineVars, trackerVars, pendingOut, inChannel, AllStopped
  <2>. QED  BY <2>1
<1>8. CASE Report
  <2>1. /\ outcome' = "complete" => is_complete' /\ writer = "finished"
        /\ UNCHANGED <<have, outgoing, pendingOut, channel, inChannel, written, writer, AllStopped>>
    BY <1>8
       DEF Report, engineVars, trackerVars, pendingOut, inChannel, AllStopped,
           is_complete,
                SafetyInv, TypeOK, SinkTypeOK
  <2>. QED  BY <2>1
<1>. HIDE DEF HandedOverOnce
<1>. QED  BY <1>1, <1>2, <1>3, <1>4, <1>5, <1>6, <1>7, <1>8, StepKinds

\* Nothing has been verified yet.
LEMMA HandedOverInit == Init => HandedOverOnce
  BY DEF Init, TrackerInit, HandedOverOnce, pendingOut, inChannel

\* A verified piece is with one sender, in one slot of the channel or written,
\* never in two places, and never nowhere while the writer works.
THEOREM HandedOver == Spec => [](SafetyInv /\ HandedOverOnce)
  BY SafetyInit, SafetyStep, HandedOverInit, HandedOverStep, PTL DEF Spec

\* main reports "Download complete" only if every piece has been written.
THEOREM CompleteIsWritten == Spec => []CompleteMeansWritten
<1>1. SafetyInv /\ HandedOverOnce => CompleteMeansWritten
  <2>. SUFFICES ASSUME SafetyInv, HandedOverOnce, outcome = "complete" PROVE written = Pieces
    BY DEF CompleteMeansWritten
  <2>1. AllStopped /\ channel = <<>> /\ writer = "finished" /\ have = Pieces
    BY DEF HandedOverOnce, is_complete
  <2>2. pendingOut = {} /\ inChannel = {}  BY <2>1, StoppedSendNothing, EmptyChannel
  <2>3. have \subseteq written /\ written \subseteq have  BY <2>1, <2>2 DEF HandedOverOnce
  <2>. QED  BY <2>1, <2>3
<1>. QED  BY <1>1, HandedOver, PTL

-----------------------------------------------------------------------------
(***************************************************************************)
(* Refinement.  The mapping keeps `have` and `written`, forgets where a    *)
(* piece waits, and renames the states of the writer.                      *)
(***************************************************************************)
\* What the mapping makes of the writer's state.
LEMMA SinkOf ==
    /\ writer = "writing" => Sink = "open"
    /\ writer = "failed" => Sink = "failed"
    /\ writer = "finished" => Sink = "closed"
  BY DEF Sink

\* Nothing verified, nothing on its way.
LEMMA StreamStarts == Init => Stream!StreamInit
<1>. SUFFICES ASSUME Init PROVE Stream!StreamInit
  OBVIOUS
<1>1. pendingOut = {} /\ inChannel = {} /\ Sink = "open"
  BY SinkOf DEF Init, pendingOut, inChannel
<1>. QED  BY <1>1 DEF Init, TrackerInit, Stream!StreamInit

\* Every step of the engine is a step of the stream or leaves it alone.
LEMMA StreamSteps ==
    ASSUME SafetyInv, HandedOverOnce, [Next]_vars
    PROVE  [Stream!StreamNext]_Stream!streamVars
<1>. USE DEF Stream!StreamNext
<1>t. /\ writer \in {"writing", "failed", "finished"}
      /\ channel \in Seq(Pieces)
  BY DEF SafetyInv, TypeOK, SinkTypeOK
<1>1. CASE QuietStep
  BY <1>1 DEF QuietStep, KeepsStream, pendingOut, inChannel, Sink, Stream!streamVars
<1>2. ASSUME NEW p \in Peers, NEW b, NEW e, NEW right, PieceVerified(p, b, e, right)
      PROVE  Stream!StreamNext
  <2>1. /\ current[p] \in Pieces \ have
        /\ have' = have \cup {current[p]}
        /\ pendingOut' = pendingOut \cup {current[p]}
        /\ UNCHANGED <<channel, written, writer, outcome, inChannel>>
        /\ pc[p] = "select"
    BY <1>2, VerifiedMoves
  <2>2. writer # "finished"  BY <2>1 DEF AllStopped, Stopped, HandedOverOnce
  <2>3. Sink # "closed"  BY <1>t, <2>2, SinkOf
  <2>4. UNCHANGED Sink  BY <2>1 DEF Sink
  <2>5. Stream!Verify(current[p])  BY <2>1, <2>3, <2>4 DEF Stream!Verify
  <2>. QED  BY <2>1, <2>5
<1>3. ASSUME NEW p \in Peers, SendPiece(p) PROVE UNCHANGED Stream!streamVars
  <2>1. /\ pc[p] \in {"sending", "sendingLast"}
        /\ channel' = Append(channel, outgoing[p])
        /\ outgoing' = [outgoing EXCEPT ![p] = NoPiece]
        /\ UNCHANGED <<have, written, writer, outcome>>
    BY <1>3 DEF SendPiece, AfterSend, trackerVars
  <2>2. /\ outgoing[p] \in Pieces
        /\ outgoing[p] \in pendingOut
        /\ pendingOut' = pendingOut \ {outgoing[p]}
    BY <2>1, SenderLetsGo
  <2>3. inChannel' = inChannel \cup {outgoing[p]}  BY <1>t, <2>1, <2>2, AppendedChannel
  <2>4. UNCHANGED Sink  BY <2>1 DEF Sink
  <2>. QED  BY <2>1, <2>2, <2>3, <2>4 DEF Stream!streamVars
<1>4. ASSUME NEW p \in Peers, SendFails(p) PROVE Stream!StreamNext
  <2>1. /\ pc[p] \in {"sending", "sendingLast"} /\ writer = "failed"
        /\ outgoing' = [outgoing EXCEPT ![p] = NoPiece]
        /\ UNCHANGED <<have, channel, inChannel, written, writer, outcome>>
    BY <1>4 DEF SendFails, AfterSend, trackerVars, inChannel
  <2>2. /\ outgoing[p] \in Pieces
        /\ outgoing[p] \in pendingOut
        /\ pendingOut' = pendingOut \ {outgoing[p]}
    BY <2>1, SenderLetsGo
  <2>3. outgoing[p] \notin inChannel  BY <2>2 DEF HandedOverOnce
  <2>4. Sink = "failed" /\ UNCHANGED Sink  BY <2>1 DEF Sink
  <2>5. Stream!Discard(outgoing[p])  BY <2>1, <2>2, <2>3, <2>4 DEF Stream!Discard
  <2>. QED  BY <2>2, <2>5
<1>5. CASE WritePiece
  <2>1. /\ writer = "writing" /\ channel # <<>> /\ channel' = Tail(channel)
        /\ written' = written \cup {Head(channel)}
        /\ UNCHANGED <<have, pendingOut, writer, outcome>>
    BY <1>5 DEF WritePiece, engineVars, trackerVars, pendingOut
  <2>2. Head(channel) \in inChannel /\ inChannel' = inChannel \ {Head(channel)}
    BY <1>t, <2>1, TailedChannel DEF HandedOverOnce
  <2>3. Head(channel) \notin pendingOut  BY <2>2 DEF HandedOverOnce
  <2>4. Sink = "open" /\ UNCHANGED Sink  BY <2>1 DEF Sink
  <2>5. Stream!Store(Head(channel))  BY <2>1, <2>2, <2>3, <2>4 DEF Stream!Store
  <2>6. Head(channel) \in Pieces  BY <1>t, <2>1
  <2>. QED  BY <2>5, <2>6
<1>6. CASE WriterFails
  <2>1. /\ writer = "writing" /\ writer' = "failed" /\ channel' = <<>>
        /\ UNCHANGED <<have, pendingOut, written, outcome>>
    BY <1>6 DEF WriterFails, engineVars, trackerVars, pendingOut
  <2>2. inChannel' = {}  BY <2>1 DEF inChannel
  <2>3. Sink = "open" /\ Sink' = "failed"  BY <2>1 DEF Sink
  <2>4. Stream!Fail  BY <2>1, <2>2, <2>3 DEF Stream!Fail
  <2>. QED  BY <2>4
<1>7. CASE WriterFinishes
  <2>1. /\ writer = "writing" /\ writer' = "finished" /\ channel = <<>> /\ AllStopped
        /\ UNCHANGED <<have, pendingOut, inChannel, written, outcome>>
    BY <1>7 DEF WriterFinishes, engineVars, trackerVars, pendingOut, inChannel
  <2>2. pendingOut = {} /\ inChannel = {}  BY <2>1, StoppedSendNothing, EmptyChannel
  <2>3. Sink = "open" /\ Sink' = "closed"  BY <2>1 DEF Sink
  <2>4. Stream!Close  BY <2>1, <2>2, <2>3 DEF Stream!Close
  <2>. QED  BY <2>4
<1>8. CASE Report
  <2>1. /\ writer # "writing" /\ outcome = "pending"
        /\ outcome' = IF writer = "failed" THEN "writer_error"
                      ELSE IF have = Pieces THEN "complete" ELSE "stalled"
        /\ UNCHANGED <<have, pendingOut, inChannel, written, writer>>
    BY <1>8 DEF Report, engineVars, trackerVars, pendingOut, inChannel, is_complete
  <2>2. Sink # "open" /\ (Sink = "failed" <=> writer = "failed") /\ UNCHANGED Sink
    BY <1>t, <2>1, SinkOf DEF Sink
  <2>3. Stream!Report  BY <2>1, <2>2 DEF Stream!Report
  <2>. QED  BY <2>3
<1>. QED  BY <1>1, <1>2, <1>3, <1>4, <1>5, <1>6, <1>7, <1>8, StepKinds

\* The engine implements PieceStream, for every swarm and every torrent.
THEOREM EngineImplementsStream == Spec => ImplementsPieceStream
  BY SafetyInit, SafetyStep, HandedOverInit, HandedOverStep, StreamStarts, StreamSteps, PTL
     DEF Spec, ImplementsPieceStream, Stream!StreamSpec

-----------------------------------------------------------------------------
(***************************************************************************)
(* Swarms with seeds.                                                      *)
(***************************************************************************)
\* A seed is one of the peers Coordinator allows for, so everything proved of the
\* engine holds of a swarm with seeds.
LEMMA SeedIsPeer ==
    ASSUME TypeOK, NEW p \in Seeds
    PROVE  /\ SeedTells(p) \/ LateBlock(p) => PeerStep(p)
           /\ \A b \in open[p] : BlockArrives(p, b, b, TRUE) => PeerStep(p)
<1>1. ASSUME NEW b, BlockArrives(p, b, b, TRUE) PROVE PeerStep(p)
  <2>1. BlockFor(p, b, b)
    BY <1>1 DEF BlockArrives, BlockStored, PieceAlreadyHave, PieceVerified, PieceRejected, TakeWhole
  <2>2. b \in AnyBlock
    <3>1. current[p] \in Pieces
      BY <2>1, SeedsAssumption DEF BlockFor, TypeOK, AssemblerTypeOK
    <3>. QED  BY <2>1, <3>1 DEF BlockFor, AnyBlock
  <2>. QED  BY <1>1, <2>2 DEF PeerStep
<1>2. SeedTells(p) => PeerStep(p)  BY SeedsAssumption DEF SeedTells, PeerStep
<1>3. LateBlock(p) => PeerStep(p)  BY <1>1 DEF LateBlock, PeerStep
<1>. QED  BY <1>1, <1>2, <1>3

\* Hence a swarm with seeds makes steps of a swarm of arbitrary peers.
LEMMA SeededIsAllowed == TypeOK /\ SeededNext => Next
  BY SeedIsPeer, SeedsAssumption DEF SeededNext, OtherStep, SeedAnswers, Next

\* What a session knows of its piece and what it has asked for.
SameSession(p) ==
    /\ pc'[p] = pc[p] /\ current'[p] = current[p] /\ received'[p] = received[p]
    /\ next_block'[p] = next_block[p] /\ in_flight'[p] = in_flight[p]
    /\ requested'[p] = requested[p] /\ (p \in choked' <=> p \in choked)

\* A step of one session leaves the others alone.
LEMMA OthersAlone ==
    ASSUME TypeOK, NEW q \in Peers, NEW p \in Peers, p # q,
           TaskStep(q) \/ SelectStep(q) \/ SocketFails(q) \/ PeerStep(q)
    PROVE  SameSession(p)
<1>. USE DEF SameSession, TypeOK, SessionTypeOK, AssemblerTypeOK, Goto, Assemble, asmVars
<1>1. CASE Spawn(q)
  BY <1>1 DEF Spawn
<1>2. CASE Connect(q)
  BY <1>2 DEF Connect
<1>3. CASE ConnectFails(q)
  BY <1>3 DEF ConnectFails
<1>4. CASE ObserveControl(q)
  BY <1>4 DEF ObserveControl
<1>5. CASE CancelSession(q)
  BY <1>5 DEF CancelSession, ReleaseCurrent, TakeCurrent
<1>6. CASE PauseSession(q)
  BY <1>6 DEF PauseSession, ReleaseCurrent, TakeCurrent
<1>7. CASE WakePaused(q)
  BY <1>7 DEF WakePaused
<1>8. CASE ReserveExclusive(q)
  BY <1>8 DEF ReserveExclusive
<1>9. CASE ReserveFindsComplete(q)
  BY <1>9 DEF ReserveFindsComplete
<1>10. CASE ReserveEndgame(q)
  BY <1>10 DEF ReserveEndgame
<1>11. CASE Fill(q)
  BY <1>11 DEF Fill
<1>12. CASE FillFails(q)
  BY <1>12 DEF FillFails
<1>13. CASE SendPiece(q)
  BY <1>13 DEF SendPiece, AfterSend
<1>14. CASE SendFails(q)
  BY <1>14 DEF SendFails, AfterSend
<1>15. CASE BroadcastDone(q)
  BY <1>15 DEF BroadcastDone
<1>16. CASE Cleanup(q)
  BY <1>16 DEF Cleanup
<1>17. CASE SelectControl(q)
  BY <1>17 DEF SelectControl
<1>18. CASE SelectDone(q)
  BY <1>18 DEF SelectDone, TakeCurrent
<1>19. CASE SelectTimeout(q)
  BY <1>19 DEF SelectTimeout, ReleaseCurrent, TakeCurrent
<1>20. CASE RecvIgnored(q)
  BY <1>20 DEF RecvIgnored
<1>21. CASE PeerCloses(q)
  BY <1>21 DEF PeerCloses, ReleaseCurrent, TakeCurrent
<1>22. CASE SessionFails(q)
  BY <1>22 DEF SessionFails
<1>23. CASE RecvChoke(q)
  BY <1>23 DEF RecvChoke, ReleaseCurrent, TakeCurrent
<1>24. CASE RecvUnchoke(q)
  BY <1>24 DEF RecvUnchoke
<1>25. CASE BlockPanics(q)
  BY <1>25 DEF BlockPanics
<1>26. ASSUME NEW i, RecvHave(q, i) PROVE SameSession(p)
  BY <1>26 DEF RecvHave
<1>27. ASSUME NEW S, RecvBitfield(q, S) PROVE SameSession(p)
  BY <1>27 DEF RecvBitfield
<1>28. ASSUME NEW b, NEW e, NEW right, BlockArrives(q, b, e, right) PROVE SameSession(p)
  BY <1>28 DEF BlockArrives, BlockStored, PieceAlreadyHave, PieceVerified, PieceRejected, TakeWhole
<1>. QED
  BY <1>1, <1>2, <1>3, <1>4, <1>5, <1>6, <1>7, <1>8, <1>9, <1>10, <1>11, <1>12, <1>13, <1>14,
     <1>15, <1>16, <1>17, <1>18, <1>19, <1>20, <1>21, <1>22, <1>23, <1>24, <1>25, <1>26,
     <1>27, <1>28
     DEF TaskStep, SelectStep, SocketFails, PeerStep

\* The books of a session with a piece: it has asked for the blocks below
\* next_block; what the seed has answered of them has been received, as other
\* blocks may have been, but not all; and in_flight is no more than what is open.
Booked(p) ==
    current[p] # NoPiece =>
        /\ p \notin choked
        /\ next_block[p] \in 0 .. NumBlocks[current[p]]
        /\ requested[p] = 0 .. next_block[p] - 1
        /\ open[p] \subseteq requested[p]
        /\ requested[p] \ open[p] \subseteq received[p]
        /\ received[p] \subseteq Blocks(current[p])
        /\ received[p] # Blocks(current[p])
        /\ in_flight[p] <= Cardinality(open[p])
Leaving == Stopped \cup {"cleanup"}
SeedInv(p) ==
    /\ pc[p] \notin Leaving => Booked(p)
    /\ pc[p] = "reserve" => p \notin choked
    /\ pc[p] = "select" /\ current[p] # NoPiece => open[p] # {}
SeedsInv == \A p \in Seeds : SeedInv(p)

\* What the wire of one seed is after a step in which it answered B.
OpenAfter(p, B) ==
    open'[p] = IF requested'[p] = {} THEN {}
               ELSE (open[p] \ B) \cup (requested'[p] \ requested[p])

\* A step answers the request it answers and no other.
LEMMA WireOfOne ==
    ASSUME NEW p \in Seeds
    PROVE  /\ Wire({}) => OpenAfter(p, {})
           /\ \A q, b : Wire({<<q, b>>}) => OpenAfter(p, IF p = q THEN {b} ELSE {})
<1>1. Wire({}) => OpenAfter(p, {})
  <2>1. {b \in open[p] : <<p, b>> \notin {}} = open[p] \ {}  OBVIOUS
  <2>. QED  BY <2>1 DEF Wire, OpenAfter
<1>2. ASSUME NEW q, NEW b, Wire({<<q, b>>}) PROVE OpenAfter(p, IF p = q THEN {b} ELSE {})
  <2>1. {c \in open[p] : <<p, c>> \notin {<<q, b>>}} = open[p] \ (IF p = q THEN {b} ELSE {})
    OBVIOUS
  <2>. QED  BY <1>2, <2>1 DEF Wire, OpenAfter
<1>. QED  BY <1>1, <1>2

\* The open requests can be counted.
LEMMA OpenFinite ==
    ASSUME TypeOK, NEW p \in Peers, Booked(p), current[p] # NoPiece
    PROVE  IsFiniteSet(open[p]) /\ Cardinality(open[p]) \in Nat
           /\ IsFiniteSet(requested[p]) /\ NumBlocks[current[p]] \in Nat \ {0}
<1>1. current[p] \in Pieces  BY DEF TypeOK, AssemblerTypeOK
<1>2. NumBlocks[current[p]] \in Nat \ {0}  BY <1>1, ConstantsAssumption
<1>3. /\ next_block[p] \in Nat /\ requested[p] = 0 .. next_block[p] - 1
      /\ open[p] \subseteq requested[p]
  BY <1>2 DEF Booked
<1>4. IsFiniteSet(requested[p])  BY <1>3, FS_Interval
<1>. QED  BY <1>2, <1>3, <1>4, FS_Subset, FS_CardinalityType

\* A step after which the session is where no request is open.
LEMMA PieceGone ==
    ASSUME NEW p \in Peers, current'[p] = NoPiece, pc'[p] # "reserve"
    PROVE  SeedInv(p)'
BY DEF SeedInv, Booked

\* Without new requests and answers the wire stays as it is.
LEMMA OpenStays ==
    ASSUME NEW p \in Peers, Booked(p), current[p] # NoPiece, OpenAfter(p, {}),
           requested'[p] = requested[p]
    PROVE  open'[p] = open[p]
BY DEF OpenAfter, Booked

\* A step that leaves the books as they are, away from the select!.
LEMMA BooksKept ==
    ASSUME NEW p \in Peers, SeedInv(p), pc[p] \notin Leaving, pc'[p] # "select",
           OpenAfter(p, {}),
           UNCHANGED asmVars, p \in choked' => p \in choked,
           pc'[p] = "reserve" => p \notin choked'
    PROVE  SeedInv(p)'
<1>1. CASE current[p] = NoPiece  BY <1>1 DEF SeedInv, Booked, asmVars
<1>2. CASE current[p] # NoPiece
  <2>1. open'[p] = open[p]  BY <1>2, OpenStays DEF SeedInv, asmVars
  <2>. QED  BY <1>2, <2>1 DEF SeedInv, Booked, asmVars, Blocks
<1>. QED  BY <1>1, <1>2

\* A session that takes up a piece opens new books.
LEMMA StartsEmpty ==
    ASSUME TypeOK, NEW p \in Peers, NEW i \in Pieces, Assemble(p, i), OpenAfter(p, {}),
           pc'[p] = "fill", p \notin choked'
    PROVE  SeedInv(p)'
<1>1. /\ current'[p] = i /\ received'[p] = {} /\ next_block'[p] = 0 /\ in_flight'[p] = 0
      /\ requested'[p] = {}
  BY DEF Assemble, TypeOK, AssemblerTypeOK
<1>2. NumBlocks[i] \in Nat \ {0}  BY ConstantsAssumption
<1>3. Blocks(i) # {} /\ 0 .. 0 - 1 = {} /\ 0 \in 0 .. NumBlocks[i]
  BY <1>2 DEF Blocks
<1>4. open'[p] = {} /\ Cardinality({}) = 0  BY <1>1, FS_EmptySet DEF OpenAfter
<1>5. Booked(p)'
  BY <1>1, <1>3, <1>4 DEF Booked, Blocks
<1>. QED  BY <1>5 DEF SeedInv

\* The loop that fills the pipeline asks for blocks it has not asked for, and
\* leaves the session with an open request: if late answers have counted
\* in_flight down to zero, it has gone on to the last block.
LEMMA FillBooks ==
    ASSUME TypeOK, NEW p \in Peers, SeedInv(p), Fill(p), OpenAfter(p, {})
    PROVE  SeedInv(p)'
<1>. DEFINE n == next_block[p]
            r == refill(p)
            N == NumBlocks[current[p]]
<1>1. /\ pc[p] = "fill" /\ pc'[p] = "select" /\ current' = current /\ received' = received
      /\ choked' = choked
      /\ next_block'[p] = n + r /\ in_flight'[p] = in_flight[p] + r
      /\ requested'[p] = requested[p] \cup (n .. n + r - 1)
  BY DEF Fill, Goto, TypeOK, AssemblerTypeOK, SessionTypeOK
<1>2. CASE current[p] = NoPiece  BY <1>1, <1>2, PieceGone
<1>3. CASE current[p] # NoPiece
  <2>1. Booked(p)  BY <1>1 DEF SeedInv, Leaving, Stopped
  <2>2. N \in Nat \ {0} /\ IsFiniteSet(open[p]) /\ Cardinality(open[p]) \in Nat
    BY <1>3, <2>1, OpenFinite
  <2>3. /\ p \notin choked /\ n \in 0 .. N /\ requested[p] = 0 .. n - 1
        /\ open[p] \subseteq requested[p] /\ requested[p] \ open[p] \subseteq received[p]
        /\ received[p] \subseteq Blocks(current[p]) /\ received[p] # Blocks(current[p])
        /\ in_flight[p] <= Cardinality(open[p])
    BY <1>3, <2>1 DEF Booked
  <2>4. r \in Nat /\ in_flight[p] \in Nat /\ in_flight[p] <= MaxPipelined
    BY RefillBounded, ConstantsAssumption DEF TypeOK, AssemblerTypeOK
  <2>5. n + r <= N /\ (in_flight[p] = 0 /\ n < N => r > 0)
    <3>1. MaxPipelined \in Nat \ {0}  BY ConstantsAssumption
    <3>. HIDE DEF n, N
    <3>2. r = IF n >= N THEN 0 ELSE IF MaxPipelined - in_flight[p] <= N - n
                                    THEN MaxPipelined - in_flight[p] ELSE N - n
      BY <1>3, <2>3 DEF refill, n, N
    <3>. HIDE DEF r
    <3>. QED  BY <2>2, <2>3, <2>4, <3>1, <3>2
  <2>. HIDE DEF n, r, N
  <2>6. requested'[p] = 0 .. n + r - 1  BY <1>1, <2>2, <2>3, <2>4
  <2>. DEFINE new == n .. n + r - 1
  <2>7. open'[p] = open[p] \cup new /\ open[p] \cap new = {}
        /\ requested'[p] = requested[p] \cup new
    <3>1. requested'[p] \ requested[p] = new /\ open[p] \cap new = {}
          /\ requested'[p] = requested[p] \cup new
      BY <1>1, <2>2, <2>3, <2>4, <2>6
    <3>. QED  BY <2>3, <3>1 DEF OpenAfter
  <2>8. IsFiniteSet(new) /\ Cardinality(new) = r
    <3>1. n \in Int /\ n + r - 1 \in Int  BY <2>2, <2>3, <2>4
    <3>2. IsFiniteSet(new) /\ Cardinality(new) = IF n > n + r - 1 THEN 0 ELSE (n + r - 1) - n + 1
      BY <3>1, FS_Interval
    <3>. QED  BY <2>3, <2>4, <3>1, <3>2
  <2>. HIDE DEF new
  <2>9. Cardinality(open'[p]) = Cardinality(open[p]) + r
    <3>1. Cardinality(open[p] \cup new) =
              Cardinality(open[p]) + Cardinality(new) - Cardinality(open[p] \cap new)
      BY <2>2, <2>8, FS_Union
    <3>2. Cardinality(open[p] \cap new) = 0  BY <2>7, FS_EmptySet
    <3>. QED  BY <2>2, <2>4, <2>7, <2>8, <3>1, <3>2
  <2>10. open'[p] # {}
    <3>. SUFFICES ASSUME open'[p] = {} PROVE FALSE
      OBVIOUS
    <3>1. open[p] = {} /\ Cardinality(open[p]) = 0 /\ Cardinality(open'[p]) = 0
      BY <2>7, FS_EmptySet
    <3>2. r = 0
      <4>1. 0 = 0 + r  BY <2>9, <3>1
      <4>. QED  BY <2>4, <4>1
    <3>3. in_flight[p] = 0
      <4>1. in_flight[p] <= 0  BY <2>3, <3>1
      <4>. QED  BY <2>4, <4>1
    <3>4. n = N  BY <2>2, <2>3, <2>5, <3>2, <3>3
    <3>5. requested[p] = Blocks(current[p])  BY <2>3, <3>4 DEF Blocks, N
    <3>. QED  BY <2>3, <3>1, <3>5
  <2>11. Booked(p)'
    <3>1. next_block'[p] \in 0 .. NumBlocks[current'[p]]
      BY <1>1, <2>2, <2>3, <2>4, <2>5 DEF N
    <3>2. open'[p] \subseteq requested'[p] /\ requested'[p] \ open'[p] \subseteq received'[p]
      BY <1>1, <2>3, <2>7
    <3>3. in_flight'[p] <= Cardinality(open'[p])
      BY <1>1, <2>2, <2>3, <2>4, <2>9
    <3>4. requested'[p] = 0 .. next_block'[p] - 1
      <4>1. next_block'[p] = n + r  BY <1>1
      <4>. QED  BY <2>2, <2>3, <2>4, <2>6, <4>1
    <3>5. /\ received'[p] \subseteq (Blocks(current[p]))'
          /\ received'[p] # (Blocks(current[p]))' /\ p \notin choked'
      BY <1>1, <2>3 DEF Blocks
    <3>. QED  BY <3>1, <3>2, <3>3, <3>4, <3>5 DEF Booked
  <2>. QED  BY <1>1, <2>10, <2>11 DEF SeedInv
<1>. QED  BY <1>2, <1>3

\* A block that does not complete the piece: the answer to an open request, which
\* is then closed (B = {b}), or a late one (B = {}).
LEMMA StoredBooks ==
    ASSUME TypeOK, NEW p \in Peers, SeedInv(p), NEW b, BlockStored(p, b, b, TRUE),
           NEW B, B \in {{}, open[p] \cap {b}}, OpenAfter(p, B)
    PROVE  SeedInv(p)'
<1>1. /\ pc[p] = "select" /\ current[p] # NoPiece /\ pc'[p] = "top"
      /\ current' = current /\ next_block' = next_block /\ requested' = requested
      /\ choked' = choked /\ b \in Blocks(current[p])
      /\ received'[p] = received[p] \cup {b} /\ received'[p] # Blocks(current[p])
      /\ in_flight'[p] = saturating_dec(in_flight[p])
  BY DEF BlockStored, BlockFor, ReceivedWith, Goto, TypeOK, AssemblerTypeOK, SessionTypeOK
<1>2. Booked(p)  BY <1>1 DEF SeedInv, Leaving, Stopped
<1>3. IsFiniteSet(open[p]) /\ Cardinality(open[p]) \in Nat  BY <1>1, <1>2, OpenFinite
<1>4. open'[p] = open[p] \ B
  BY <1>1, <1>2 DEF OpenAfter, Booked
<1>5. in_flight[p] \in Nat /\ in_flight'[p] <= in_flight[p]
      /\ (in_flight[p] > 0 => in_flight'[p] = in_flight[p] - 1)
      /\ (in_flight[p] = 0 => in_flight'[p] = 0)
  BY <1>1, ConstantsAssumption DEF saturating_dec, TypeOK, AssemblerTypeOK
<1>6. in_flight[p] <= Cardinality(open[p])  BY <1>1, <1>2 DEF Booked
<1>7. in_flight'[p] <= Cardinality(open'[p])
  <2>1. CASE B = {}  BY <1>3, <1>4, <1>5, <1>6, <2>1
  <2>2. CASE B = {b} /\ b \in open[p]
    <3>1. Cardinality(open[p] \ {b}) = Cardinality(open[p]) - 1
          /\ IsFiniteSet(open[p] \ {b})
      BY <1>3, <2>2, FS_RemoveElement
    <3>2. Cardinality(open[p] \ {b}) \in Nat  BY <3>1, FS_CardinalityType
    <3>3. open'[p] = open[p] \ {b}  BY <1>4, <2>2
    <3>. QED  BY <1>3, <1>5, <1>6, <3>1, <3>2, <3>3
  <2>3. B = {} \/ (B = {b} /\ b \in open[p])  OBVIOUS
  <2>. QED  BY <2>1, <2>2, <2>3
<1>8. Booked(p)'
  BY <1>1, <1>2, <1>4, <1>7 DEF Booked, Blocks
<1>. QED  BY <1>1, <1>8 DEF SeedInv

\* A session that is about to leave has no books to keep.
LEMMA NothingOwed ==
    ASSUME NEW p \in Peers, pc'[p] \in Leaving
    PROVE  SeedInv(p)'
BY DEF SeedInv, Leaving, Stopped

\* What a seed's own task does keeps its books.
LEMMA SeedTaskStep ==
    ASSUME TypeOK, NEW p \in Peers, SeedInv(p), OpenAfter(p, {}),
           TaskStep(p) \/ SelectStep(p) \/ RecvIgnored(p)
    PROVE  SeedInv(p)'
<1>. USE DEF Goto, TypeOK, SessionTypeOK
<1>1. CASE Spawn(p)
  BY <1>1, BooksKept DEF Spawn, Leaving, Stopped
<1>2. CASE Connect(p)
  BY <1>2, BooksKept DEF Connect, Leaving, Stopped
<1>3. CASE ObserveControl(p)
  <2>1. /\ pc[p] = "top" /\ pc'[p] # "select" /\ UNCHANGED <<asmVars, choked>>
        /\ pc'[p] = "reserve" => p \notin choked
    BY <1>3 DEF ObserveControl, WatchTypeOK, ControlState
  <2>. QED  BY <2>1, BooksKept DEF Leaving, Stopped
<1>4. CASE CancelSession(p)
  BY <1>4, NothingOwed DEF CancelSession, Leaving
<1>5. CASE PauseSession(p)
  <2>1. pc[p] = "pausing" /\ pc'[p] = "paused" /\ choked' = choked  BY <1>5 DEF PauseSession
  <2>2. CASE current[p] = NoPiece
    BY <1>5, <2>1, <2>2, BooksKept DEF PauseSession, ReleaseCurrent, Leaving, Stopped
  <2>3. CASE current[p] # NoPiece
    <3>1. current'[p] = NoPiece
      BY <1>5, <2>3 DEF PauseSession, ReleaseCurrent, TakeCurrent, Assemble, AssemblerTypeOK
    <3>. QED  BY <2>1, <3>1, PieceGone
  <2>. QED  BY <2>2, <2>3
<1>6. CASE WakePaused(p)
  BY <1>6, BooksKept DEF WakePaused, Leaving, Stopped
<1>7. CASE ReserveExclusive(p)
  <2>1. PICK i \in Pieces : Assemble(p, i)  BY <1>7, ReservedPiece
  <2>2. pc[p] = "reserve" /\ pc'[p] = "fill" /\ choked' = choked
    BY <1>7 DEF ReserveExclusive
  <2>. QED  BY <2>1, <2>2, StartsEmpty DEF SeedInv
<1>8. CASE ReserveFindsComplete(p)
  BY <1>8, BooksKept DEF ReserveFindsComplete, Leaving, Stopped
<1>9. CASE ReserveEndgame(p)
  <2>. DEFINE i == reserve_piece_endgame(peer_has[p])
  <2>1. pc[p] = "reserve" /\ pc'[p] = "fill" /\ choked' = choked
    BY <1>9 DEF ReserveEndgame
  <2>2. CASE i = NoPiece
    BY <1>9, <2>1, <2>2, BooksKept DEF ReserveEndgame, Leaving, Stopped
  <2>3. CASE i # NoPiece
    <3>1. i \in Pieces  BY <2>3, RarestNeededSound DEF reserve_piece_endgame
    <3>2. Assemble(p, i)  BY <1>9, <2>3 DEF ReserveEndgame
    <3>. HIDE DEF i
    <3>. QED  BY <2>1, <3>1, <3>2, StartsEmpty DEF SeedInv
  <2>. QED  BY <2>2, <2>3
<1>10. CASE Fill(p)
  BY <1>10, FillBooks
<1>11. CASE SendPiece(p) \/ SendFails(p)
  <2>1. /\ pc[p] \in {"sending", "sendingLast"} /\ pc'[p] \in {"announce", "top"}
        /\ UNCHANGED <<asmVars, choked>>
    BY <1>11 DEF SendPiece, SendFails, AfterSend
  <2>. QED  BY <2>1, BooksKept DEF Leaving, Stopped
<1>12. CASE BroadcastDone(p)
  BY <1>12, NothingOwed DEF BroadcastDone, Leaving
<1>13. CASE Cleanup(p)
  BY <1>13, NothingOwed DEF Cleanup, Leaving, Stopped
<1>14. CASE SelectControl(p)
  BY <1>14, BooksKept DEF SelectControl, Leaving, Stopped
<1>15. CASE SelectDone(p)
  BY <1>15, NothingOwed DEF SelectDone, Leaving
<1>16. CASE RecvIgnored(p)
  BY <1>16, BooksKept DEF RecvIgnored, Leaving, Stopped
<1>. QED
  BY <1>1, <1>2, <1>3, <1>4, <1>5, <1>6, <1>7, <1>8, <1>9, <1>10, <1>11, <1>12, <1>13, <1>14,
     <1>15, <1>16
     DEF TaskStep, SelectStep

\* What a seed sends keeps them: what it tells, ...
LEMMA SeedTellsStep ==
    ASSUME TypeOK, NEW p \in Peers, SeedInv(p), SeedTells(p), OpenAfter(p, {})
    PROVE  SeedInv(p)'
<1>. USE DEF Goto, TypeOK, SessionTypeOK
<1>1. CASE RecvBitfield(p, Pieces)
  BY <1>1, BooksKept DEF RecvBitfield, Leaving, Stopped
<1>2. CASE RecvUnchoke(p)
  BY <1>2, BooksKept DEF RecvUnchoke, Leaving, Stopped
<1>. QED  BY <1>1, <1>2 DEF SeedTells

\* ... and its blocks, late or not.
LEMMA SeedBlockStep ==
    ASSUME TypeOK, NEW p \in Peers, SeedInv(p), NEW b, BlockArrives(p, b, b, TRUE),
           NEW B, B \in {{}, open[p] \cap {b}}, OpenAfter(p, B)
    PROVE  SeedInv(p)'
<1>. USE DEF Goto, TypeOK, SessionTypeOK
<1>1. CASE BlockStored(p, b, b, TRUE)
  BY <1>1, StoredBooks
<1>2. CASE TakeWhole(p, b, b) /\ pc'[p] \in {"announce", "top", "sending", "sendingLast"}
  <2>1. current'[p] = NoPiece  BY <1>2 DEF TakeWhole, AssemblerTypeOK
  <2>. QED  BY <1>2, <2>1, PieceGone
<1>3. PieceAlreadyHave(p, b, b) \/ PieceVerified(p, b, b, TRUE) \/ PieceRejected(p, b, b, TRUE)
      => TakeWhole(p, b, b) /\ pc'[p] \in {"announce", "top", "sending", "sendingLast"}
  <2>1. TakeWhole(p, b, b) => pc[p] = "select"  BY DEF TakeWhole, BlockFor
  <2>. QED  BY <2>1 DEF PieceAlreadyHave, PieceVerified, PieceRejected
<1>. QED  BY <1>1, <1>2, <1>3 DEF BlockArrives

\* A session whose locals do not change keeps its books.
LEMMA SameBooks ==
    ASSUME NEW p \in Peers, SeedInv(p), SameSession(p), OpenAfter(p, {})
    PROVE  SeedInv(p)'
<1>1. CASE current[p] = NoPiece  BY <1>1 DEF SeedInv, SameSession, Booked
<1>2. CASE pc[p] \in Leaving  BY <1>2 DEF SeedInv, SameSession, Leaving, Stopped
<1>3. CASE current[p] # NoPiece /\ pc[p] \notin Leaving
  <2>1. Booked(p) /\ open'[p] = open[p]
    BY <1>3, OpenStays DEF SeedInv, SameSession
  <2>2. Booked(p)'  BY <1>3, <2>1 DEF SameSession, Booked, Blocks
  <2>. QED  BY <2>1, <2>2 DEF SeedInv, SameSession
<1>. QED  BY <1>1, <1>2, <1>3

\* Every step of the swarm keeps the books of the seeds.
LEMMA SeedsStep ==
    ASSUME TypeOK, SeedsInv, [SeededNext]_seededVars
    PROVE  SeedsInv'
<1>. SUFFICES ASSUME NEW p \in Seeds PROVE SeedInv(p)'
  BY DEF SeedsInv
<1>0. p \in Peers /\ SeedInv(p)  BY SeedsAssumption DEF SeedsInv
<1>1. CASE UNCHANGED seededVars
  <2>1. SameSession(p) /\ open' = open
    BY <1>1 DEF seededVars, vars, SameSession, asmVars
  <2>2. Booked(p) => Booked(p)'  BY <2>1 DEF SameSession, Booked, Blocks
  <2>. QED  BY <1>0, <2>1, <2>2 DEF SeedInv, SameSession
<1>2. ASSUME OpenAfter(p, {}), UNCHANGED <<pc, asmVars, choked>> PROVE SeedInv(p)'
  BY <1>0, <1>2, SameBooks DEF SameSession, asmVars
<1>3. ASSUME OpenAfter(p, {}), NEW q \in Peers, q # p,
             TaskStep(q) \/ SelectStep(q) \/ SocketFails(q) \/ PeerStep(q)
      PROVE  SeedInv(p)'
  BY <1>0, <1>3, OthersAlone, SameBooks
<1>4. CASE OtherStep /\ Wire({})
  <2>0. OpenAfter(p, {})  BY <1>4, WireOfOne
  <2>1. ASSUME NEW v \in ControlCalls, ControlCall(v) PROVE SeedInv(p)'
    BY <1>2, <2>0, <2>1 DEF ControlCall
  <2>2. ASSUME NEW q \in Peers, TaskStep(q) \/ SelectStep(q) PROVE SeedInv(p)'
    BY <1>0, <1>3, <2>0, <2>2, SeedTaskStep
  <2>3. ASSUME NEW q \in Seeds, SeedTells(q) \/ LateBlock(q) PROVE SeedInv(p)'
    <3>1. CASE q # p
      <4>1. PeerStep(q) /\ q \in Peers  BY <2>3, SeedIsPeer, SeedsAssumption
      <4>. QED  BY <1>3, <2>0, <3>1, <4>1
    <3>2. CASE q = p /\ SeedTells(p)  BY <1>0, <2>0, <3>2, SeedTellsStep
    <3>3. CASE q = p /\ RecvIgnored(p)  BY <1>0, <2>0, <3>3, SeedTaskStep
    <3>4. ASSUME q = p, NEW b \in AnyBlock, BlockArrives(p, b, b, TRUE) PROVE SeedInv(p)'
      BY <1>0, <2>0, <3>4, SeedBlockStep
    <3>. QED  BY <2>3, <3>1, <3>2, <3>3, <3>4 DEF LateBlock
  <2>4. ASSUME NEW q \in Peers \ Seeds, SocketFails(q) \/ PeerStep(q) PROVE SeedInv(p)'
    BY <1>3, <2>0, <2>4
  <2>5. CASE WriterStep
    BY <1>2, <2>0, <2>5 DEF WriterStep, WritePiece, WriterFails, WriterFinishes, Report, engineVars
  <2>6. CASE Terminated
    BY <1>2, <2>0, <2>6 DEF Terminated, vars
  <2>. QED  BY <1>4, <2>1, <2>2, <2>3, <2>4, <2>5, <2>6 DEF OtherStep
<1>5. ASSUME NEW q \in Seeds, SeedAnswers(q) PROVE SeedInv(p)'
  <2>1. PICK b \in open[q] : BlockArrives(q, b, b, TRUE) /\ Wire({<<q, b>>})
    BY <1>5 DEF SeedAnswers
  <2>2. OpenAfter(p, IF p = q THEN {b} ELSE {})  BY <2>1, WireOfOne
  <2>3. CASE q = p
    <3>1. {b} = open[p] \cap {b} /\ OpenAfter(p, {b})  BY <2>2, <2>3
    <3>. QED  BY <1>0, <2>1, <2>3, <3>1, SeedBlockStep
  <2>4. CASE q # p
    <3>1. PeerStep(q) /\ q \in Peers /\ OpenAfter(p, {})
      BY <2>1, <2>2, <2>4, SeedIsPeer, SeedsAssumption
    <3>. QED  BY <1>3, <2>4, <3>1
  <2>. QED  BY <2>3, <2>4
<1>. QED  BY <1>1, <1>4, <1>5 DEF SeededNext

\* No session has books at the start.
LEMMA SeedsInit == Init => SeedsInv
  BY SeedsAssumption DEF Init, SeedsInv, SeedInv, Booked

SeededInv == TypeOK /\ SenderHoldsPiece /\ SeedsInv

\* A step of the swarm is one of the engine.
LEMMA SeededEngineStep == TypeOK /\ [SeededNext]_seededVars => [Next]_vars
BY SeededIsAllowed DEF seededVars

\* The inductive invariant is kept.
LEMMA SeededStep == SeededInv /\ [SeededNext]_seededVars => SeededInv'
<1>. SUFFICES ASSUME SeededInv, [SeededNext]_seededVars PROVE SeededInv'
  OBVIOUS
<1>1. [Next]_vars  BY SeededEngineStep DEF SeededInv
<1>. QED  BY <1>1, TypeStep, SenderStep, SeedsStep DEF SeededInv

\* A session that waits for a seed with a piece in hand is owed a block, although
\* late answers spoil in_flight, which never exceeds what is owed.
THEOREM SeedAlwaysOwes == SeededSpec => []SeedStillOwes
<1>1. SeededInit => SeededInv  BY TypeInit, SeedsInit DEF SeededInv, SeededInit
<1>2. SeededInv => SeedStillOwes
  <2>. SUFFICES ASSUME SeededInv, NEW p \in Seeds, pc[p] = "select", current[p] # NoPiece
                PROVE  open[p] # {} /\ in_flight[p] <= Cardinality(open[p])
    BY DEF SeedStillOwes
  <2>. QED  BY DEF SeededInv, SeedsInv, SeedInv, Booked, Leaving, Stopped
<1>. QED  BY <1>1, <1>2, SeededStep, PTL DEF SeededSpec

\* Everything proved of the engine holds of a swarm with seeds.
THEOREM SeededSwarmIsCoordinator == SeededSpec => Spec
<1>1. SeededInit => SeededInv /\ Init  BY TypeInit, SeedsInit DEF SeededInv, SeededInit
<1>2. SeededInv /\ [SeededNext]_seededVars => [Next]_vars
  BY SeededEngineStep DEF SeededInv
<1>. QED  BY <1>1, <1>2, SeededStep, PTL DEF SeededSpec, Spec
=============================================================================
