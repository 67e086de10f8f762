------------------------- MODULE CoordinatorProofs -------------------------
(***************************************************************************)
(* The engine, proved for every set of peers, every torrent and every      *)
(* input: which piece is claimed, that every variable has its type, and    *)
(* the safety invariants. No verified piece is claimed, no session idles   *)
(* on a peer that could help, claims have holders, completion is announced *)
(* only once it is true, and availability counts exactly.                  *)
(***************************************************************************)
EXTENDS Coordinator, FiniteSetTheorems, WellFoundedInduction, TLAPS

(***************************************************************************)
(* What reserve_piece and reserve_piece_endgame return, for every number   *)
(* of pieces, every tracker state and every peer bitfield.                 *)
(***************************************************************************)
\* A nonempty set of natural numbers has a least element.
LEMMA LeastNat ==
    ASSUME NEW T, T \subseteq Nat, T # {}
    PROVE  \E x \in T : \A y \in T : x <= y
<1>1. \E x \in T : \A y \in T : ~ (<<y, x>> \in OpToRel(<, Nat))
  BY NatLessThanWellFounded, WFMin
<1>2. ASSUME NEW x \in T, NEW y \in T, ~ (<<y, x>> \in OpToRel(<, Nat))
      PROVE  x <= y
  BY <1>2 DEF OpToRel
<1>. QED  BY <1>1, <1>2

\* The order of the scan has a first element in every nonempty set of pieces.
LEMMA RarestExists ==
    ASSUME availability \in [Pieces -> Nat], NEW C, C \subseteq Pieces, C # {}
    PROVE  \E i \in C : \A j \in C : rarer(i, j)
<1>. DEFINE counts == {availability[i] : i \in C}
<1>1. PICK least \in counts : \A n \in counts : least <= n
  <2>1. counts \subseteq Nat  OBVIOUS
  <2>2. counts # {}  OBVIOUS
  <2>. HIDE DEF counts
  <2>. QED  BY <2>1, <2>2, LeastNat
<1>. DEFINE rarest == {i \in C : availability[i] = least}
<1>2. PICK i \in rarest : \A j \in rarest : i <= j
  <2>1. rarest \subseteq Nat
    <3>1. Pieces \subseteq Nat  BY NumPiecesAssumption DEF Pieces
    <3>. QED  BY <3>1
  <2>2. rarest # {}  BY <1>1
  <2>. HIDE DEF rarest
  <2>. QED  BY <2>1, <2>2, LeastNat
<1>3. i \in C  BY <1>2
<1>4. \A j \in C : rarer(i, j)
  <2>. SUFFICES ASSUME NEW j \in C PROVE rarer(i, j)
    OBVIOUS
  <2>1. availability[i] = least  BY <1>2
  <2>2. least <= availability[j]  BY <1>1
  <2>3. availability[j] \in Nat /\ availability[i] \in Nat  BY <1>3
  <2>4. CASE availability[j] = least  BY <2>1, <2>4, <1>2 DEF rarer
  <2>5. CASE availability[j] # least  BY <2>1, <2>2, <2>3, <2>5 DEF rarer
  <2>. QED  BY <2>4, <2>5
<1>. QED  BY <1>3, <1>4

\* rarest_needed returns None exactly if there is no candidate, and a rarest
\* candidate otherwise: rarest_needed never panics, never picks a verified
\* piece or one the peer lacks and, asked to skip them, never a claimed one.
THEOREM RarestNeededSound ==
    ASSUME TrackerTypeOK, NEW S \in SUBSET Pieces, NEW skip \in BOOLEAN
    PROVE  LET r == rarest_needed(S, skip)
               C == needed_from(S, skip)
           IN  /\ C \subseteq Pieces
               /\ r = NoPiece <=> C = {}
               /\ r # NoPiece => r \in C /\ \A j \in C : rarer(r, j)
<1>. DEFINE C == needed_from(S, skip)
            r == rarest_needed(S, skip)
<1>1. C \subseteq Pieces  BY DEF needed_from
<1>2. NoPiece \notin Pieces  BY NumPiecesAssumption DEF NoPiece, Pieces
<1>3. CASE C = {}  BY <1>1, <1>3 DEF rarest_needed
<1>4. CASE C # {}
  <2>1. \E i \in C : \A j \in C : rarer(i, j)
    <3>. HIDE DEF C
    <3>. QED  BY <1>1, <1>4, RarestExists DEF TrackerTypeOK
  <2>2. r = CHOOSE i \in C : \A j \in C : rarer(i, j)
    BY <1>4 DEF rarest_needed
  <2>3. r \in C /\ \A j \in C : rarer(r, j)
    <3>. HIDE DEF C, r
    <3>. QED  BY <2>1, <2>2
  <2>. QED  BY <2>3, <1>1, <1>2, <1>4
<1>. QED  BY <1>3, <1>4

-----------------------------------------------------------------------------
(***************************************************************************)
(* Type correctness: first the helpers the actions are built from.         *)
(***************************************************************************)
\* Block numbers are natural numbers.
LEMMA AnyBlockNat == AnyBlock \subseteq Nat
  BY ConstantsAssumption DEF AnyBlock, Blocks

\* A fresh assembler, or none, is well typed.
LEMMA AssembleTyped ==
    ASSUME AssemblerTypeOK, NEW p \in Peers, NEW i \in Pieces \cup {NoPiece}, Assemble(p, i)
    PROVE  AssemblerTypeOK'
  BY ConstantsAssumption DEF AssemblerTypeOK, Assemble

\* Releasing the current piece, if there is one.
LEMMA ReleaseTyped ==
    ASSUME TypeOK, NEW p \in Peers, ReleaseCurrent(p)
    PROVE  TrackerTypeOK' /\ AssemblerTypeOK'
<1>1. CASE current[p] = NoPiece
  BY <1>1 DEF TypeOK, TrackerTypeOK, AssemblerTypeOK, ReleaseCurrent, trackerVars, asmVars
<1>2. CASE current[p] # NoPiece
  <2>1. AssemblerTypeOK'  BY <1>2, AssembleTyped DEF TypeOK, ReleaseCurrent, TakeCurrent
  <2>2. TrackerTypeOK'  BY <1>2 DEF TypeOK, TrackerTypeOK, ReleaseCurrent, release_piece
  <2>. QED  BY <2>1, <2>2
<1>. QED  BY <1>1, <1>2

\* Replacing one bitfield's contribution by another's.
LEMMA ReplaceTyped ==
    ASSUME TrackerTypeOK, NEW old \in SUBSET Pieces, NEW new \in SUBSET Pieces,
           replace_bitfield(old, new)
    PROVE  TrackerTypeOK'
<1>. USE DEF TrackerTypeOK, replace_bitfield
<1>1. \A i \in Pieces : saturating_dec(availability[i]) \in Nat
  <2>. SUFFICES ASSUME NEW n \in Nat PROVE saturating_dec(n) \in Nat
    OBVIOUS
  <2>. QED  BY DEF saturating_dec
<1>2. ASSUME NEW i \in Pieces PROVE availability'[i] \in Nat
  BY <1>1
<1>3. availability' \in [Pieces -> Nat]  BY <1>2
<1>. QED  BY <1>3

\* The while loop of the pipeline never sends more requests than fit.
LEMMA RefillBounded ==
    ASSUME TypeOK, NEW p \in Peers
    PROVE  refill(p) \in Nat /\ in_flight[p] + refill(p) \in 0 .. MaxPipelined
<1>1. in_flight[p] \in 0 .. MaxPipelined /\ MaxPipelined \in Nat /\ next_block[p] \in Nat
  BY ConstantsAssumption DEF TypeOK, AssemblerTypeOK
<1>2. CASE current[p] = NoPiece \/ p \in choked \/ next_block[p] >= NumBlocks[current[p]]
  BY <1>1, <1>2 DEF refill
<1>3. CASE ~ (current[p] = NoPiece \/ p \in choked \/ next_block[p] >= NumBlocks[current[p]])
  <2>1. current[p] \in Pieces  BY <1>3 DEF TypeOK, AssemblerTypeOK
  <2>2. NumBlocks[current[p]] \in Nat  BY <2>1, ConstantsAssumption
  <2>. QED  BY <1>1, <1>3, <2>2 DEF refill
<1>. QED  BY <1>2, <1>3

\* A whole piece is taken out of the session.
LEMMA TakeWholeTyped ==
    ASSUME TypeOK, NEW p \in Peers, NEW b, NEW e, TakeWhole(p, b, e)
    PROVE  AssemblerTypeOK' /\ current[p] \in Pieces
<1>1. current[p] \in Pieces  BY DEF TypeOK, AssemblerTypeOK, TakeWhole, BlockFor
<1>2. saturating_dec(in_flight[p]) \in 0 .. MaxPipelined
  BY ConstantsAssumption DEF TypeOK, AssemblerTypeOK, saturating_dec
<1>. QED  BY <1>1, <1>2 DEF TypeOK, AssemblerTypeOK, TakeWhole

\* Every step of every task, of the user and of the writer keeps TypeOK.
LEMMA TypeStep ==
    ASSUME TypeOK, SenderHoldsPiece, [Next]_vars
    PROVE  TypeOK'
<1>. USE DEF Goto, trackerVars, watchVars, asmVars, sinkVars, engineVars, Location, Stopped
<1>1. ASSUME NEW v \in ControlCalls, ControlCall(v) PROVE TypeOK'
  BY <1>1, ConstantsAssumption, NumPiecesAssumption
     DEF TypeOK, TrackerTypeOK, WatchTypeOK, SessionTypeOK, AssemblerTypeOK, SinkTypeOK,
     ControlCall, Receivers
<1>2. ASSUME NEW p \in Peers, Spawn(p) PROVE TypeOK'
  BY <1>2, NumPiecesAssumption
     DEF TypeOK, TrackerTypeOK, WatchTypeOK, SessionTypeOK, AssemblerTypeOK, SinkTypeOK,
     Spawn
<1>3. ASSUME NEW p \in Peers, Connect(p) PROVE TypeOK'
  BY <1>3, NumPiecesAssumption
     DEF TypeOK, TrackerTypeOK, WatchTypeOK, SessionTypeOK, AssemblerTypeOK, SinkTypeOK,
     Connect
<1>4. ASSUME NEW p \in Peers, ConnectFails(p) PROVE TypeOK'
  BY <1>4, NumPiecesAssumption
     DEF TypeOK, TrackerTypeOK, WatchTypeOK, SessionTypeOK, AssemblerTypeOK, SinkTypeOK,
     ConnectFails
<1>5. ASSUME NEW p \in Peers, ObserveControl(p) PROVE TypeOK'
  BY <1>5, NumPiecesAssumption
     DEF TypeOK, TrackerTypeOK, WatchTypeOK, SessionTypeOK, AssemblerTypeOK, SinkTypeOK,
     ObserveControl
<1>6. ASSUME NEW p \in Peers, CancelSession(p) PROVE TypeOK'
  <2>1. TrackerTypeOK' /\ AssemblerTypeOK'  BY <1>6, ReleaseTyped DEF CancelSession
  <2>. QED  BY <1>6, <2>1 DEF TypeOK, WatchTypeOK, SessionTypeOK, SinkTypeOK, CancelSession
<1>7. ASSUME NEW p \in Peers, PauseSession(p) PROVE TypeOK'
  <2>1. TrackerTypeOK' /\ AssemblerTypeOK'  BY <1>7, ReleaseTyped DEF PauseSession
  <2>. QED  BY <1>7, <2>1 DEF TypeOK, WatchTypeOK, SessionTypeOK, SinkTypeOK, PauseSession
<1>8. ASSUME NEW p \in Peers, WakePaused(p) PROVE TypeOK'
  BY <1>8, NumPiecesAssumption
     DEF TypeOK, TrackerTypeOK, WatchTypeOK, SessionTypeOK, AssemblerTypeOK, SinkTypeOK,
     WakePaused
<1>9. ASSUME NEW p \in Peers, ReserveExclusive(p) PROVE TypeOK'
  <2>. DEFINE i == reserve_piece(peer_has[p])
  <2>1. i \in Pieces
    BY <1>9, RarestNeededSound DEF TypeOK, SessionTypeOK, ReserveExclusive, reserve_piece
  <2>2. AssemblerTypeOK'
    <3>1. Assemble(p, i)  BY <1>9 DEF ReserveExclusive
    <3>. HIDE DEF i
    <3>. QED  BY <2>1, <3>1, AssembleTyped DEF TypeOK
  <2>3. TrackerTypeOK'
    <3>1. claim(i)  BY <1>9 DEF ReserveExclusive
    <3>. HIDE DEF i
    <3>. QED  BY <2>1, <3>1 DEF TypeOK, TrackerTypeOK, claim
  <2>. QED  BY <1>9, <2>2, <2>3 DEF TypeOK, WatchTypeOK, SessionTypeOK, SinkTypeOK, ReserveExclusive
<1>10. ASSUME NEW p \in Peers, ReserveFindsComplete(p) PROVE TypeOK'
  BY <1>10, NumPiecesAssumption
     DEF TypeOK, TrackerTypeOK, WatchTypeOK, SessionTypeOK, AssemblerTypeOK, SinkTypeOK,
     ReserveFindsComplete
<1>11. ASSUME NEW p \in Peers, ReserveEndgame(p) PROVE TypeOK'
  <2>. DEFINE i == reserve_piece_endgame(peer_has[p])
  <2>1. i \in Pieces \cup {NoPiece}
    BY RarestNeededSound DEF TypeOK, SessionTypeOK, reserve_piece_endgame
  <2>2. AssemblerTypeOK'
    <3>1. IF i = NoPiece THEN UNCHANGED asmVars ELSE Assemble(p, i)
      BY <1>11 DEF ReserveEndgame
    <3>. HIDE DEF i
    <3>2. CASE i = NoPiece  BY <3>1, <3>2 DEF TypeOK, AssemblerTypeOK
    <3>3. CASE i # NoPiece  BY <2>1, <3>1, <3>3, AssembleTyped DEF TypeOK
    <3>. QED  BY <3>2, <3>3
  <2>. QED  BY <1>11, <2>2 DEF TypeOK, TrackerTypeOK, WatchTypeOK, SessionTypeOK, SinkTypeOK, ReserveEndgame
<1>12. ASSUME NEW p \in Peers, Fill(p) PROVE TypeOK'
  <2>1. AssemblerTypeOK'
    BY <1>12, RefillBounded DEF TypeOK, AssemblerTypeOK, Fill
  <2>. QED  BY <1>12, <2>1 DEF TypeOK, TrackerTypeOK, WatchTypeOK, SessionTypeOK, SinkTypeOK, Fill
<1>13. ASSUME NEW p \in Peers, FillFails(p) PROVE TypeOK'
  BY <1>13, NumPiecesAssumption
     DEF TypeOK, TrackerTypeOK, WatchTypeOK, SessionTypeOK, AssemblerTypeOK, SinkTypeOK,
     FillFails
<1>14. ASSUME NEW p \in Peers, SendPiece(p) PROVE TypeOK'
  <2>1. channel' \in Seq(Pieces) /\ Len(channel') <= Capacity
    <3>1. outgoing[p] \in Pieces
      BY <1>14 DEF TypeOK, SinkTypeOK, SendPiece, SenderHoldsPiece
    <3>2. channel' = Append(channel, outgoing[p]) /\ Len(channel) < Capacity
      BY <1>14 DEF SendPiece
    <3>. QED  BY <3>1, <3>2, ConstantsAssumption DEF TypeOK, SinkTypeOK
  <2>. QED  BY <1>14, <2>1 DEF TypeOK, TrackerTypeOK, WatchTypeOK, SessionTypeOK, AssemblerTypeOK, SinkTypeOK, SendPiece, AfterSend
<1>15. ASSUME NEW p \in Peers, SendFails(p) PROVE TypeOK'
  BY <1>15, NumPiecesAssumption
     DEF TypeOK, TrackerTypeOK, WatchTypeOK, SessionTypeOK, AssemblerTypeOK, SinkTypeOK,
     SendFails, AfterSend
<1>16. ASSUME NEW p \in Peers, BroadcastDone(p) PROVE TypeOK'
  BY <1>16, NumPiecesAssumption
     DEF TypeOK, TrackerTypeOK, WatchTypeOK, SessionTypeOK, AssemblerTypeOK, SinkTypeOK,
     BroadcastDone, Receivers
<1>17. ASSUME NEW p \in Peers, Cleanup(p) PROVE TypeOK'
  <2>1. TrackerTypeOK'
    BY <1>17, ReplaceTyped, ConstantsAssumption DEF TypeOK, SessionTypeOK, Cleanup
  <2>2. SessionTypeOK' /\ AssemblerTypeOK'
    BY <1>17, ConstantsAssumption DEF TypeOK, SessionTypeOK, AssemblerTypeOK, Cleanup
  <2>. QED  BY <1>17, <2>1, <2>2 DEF TypeOK, WatchTypeOK, SinkTypeOK, Cleanup
<1>18. ASSUME NEW p \in Peers, SelectControl(p) PROVE TypeOK'
  BY <1>18, NumPiecesAssumption
     DEF TypeOK, TrackerTypeOK, WatchTypeOK, SessionTypeOK, AssemblerTypeOK, SinkTypeOK,
     SelectControl
<1>19. ASSUME NEW p \in Peers, SelectDone(p) PROVE TypeOK'
  <2>1. AssemblerTypeOK'  BY <1>19, AssembleTyped DEF TypeOK, SelectDone, TakeCurrent
  <2>. QED  BY <1>19, <2>1 DEF TypeOK, TrackerTypeOK, WatchTypeOK, SessionTypeOK, SinkTypeOK, SelectDone
<1>20. ASSUME NEW p \in Peers, SelectTimeout(p) PROVE TypeOK'
  <2>1. TrackerTypeOK' /\ AssemblerTypeOK'  BY <1>20, ReleaseTyped DEF SelectTimeout
  <2>. QED  BY <1>20, <2>1 DEF TypeOK, WatchTypeOK, SessionTypeOK, SinkTypeOK, SelectTimeout
<1>21. ASSUME NEW p \in Peers, RecvIgnored(p) PROVE TypeOK'
  BY <1>21, NumPiecesAssumption
     DEF TypeOK, TrackerTypeOK, WatchTypeOK, SessionTypeOK, AssemblerTypeOK, SinkTypeOK,
     RecvIgnored
<1>22. ASSUME NEW p \in Peers, PeerCloses(p) PROVE TypeOK'
  <2>1. TrackerTypeOK' /\ AssemblerTypeOK'  BY <1>22, ReleaseTyped DEF PeerCloses
  <2>. QED  BY <1>22, <2>1 DEF TypeOK, WatchTypeOK, SessionTypeOK, SinkTypeOK, PeerCloses
<1>23. ASSUME NEW p \in Peers, SessionFails(p) PROVE TypeOK'
  BY <1>23, NumPiecesAssumption
     DEF TypeOK, TrackerTypeOK, WatchTypeOK, SessionTypeOK, AssemblerTypeOK, SinkTypeOK,
     SessionFails
<1>24. ASSUME NEW p \in Peers, RecvChoke(p) PROVE TypeOK'
  <2>1. TrackerTypeOK' /\ AssemblerTypeOK'  BY <1>24, ReleaseTyped DEF RecvChoke
  <2>. QED  BY <1>24, <2>1 DEF TypeOK, WatchTypeOK, SessionTypeOK, SinkTypeOK, RecvChoke
<1>25. ASSUME NEW p \in Peers, RecvUnchoke(p) PROVE TypeOK'
  BY <1>25, NumPiecesAssumption
     DEF TypeOK, TrackerTypeOK, WatchTypeOK, SessionTypeOK, AssemblerTypeOK, SinkTypeOK,
     RecvUnchoke
<1>26. ASSUME NEW p \in Peers, NEW i \in HaveIndices, RecvHave(p, i) PROVE TypeOK'
  BY <1>26, ConstantsAssumption, NumPiecesAssumption
     DEF TypeOK, TrackerTypeOK, WatchTypeOK, SessionTypeOK, AssemblerTypeOK, SinkTypeOK,
     RecvHave, add_availability
<1>27. ASSUME NEW p \in Peers, NEW new_has \in Bitfields, RecvBitfield(p, new_has)
       PROVE TypeOK'
  <2>1. TrackerTypeOK'
    BY <1>27, ReplaceTyped, ConstantsAssumption DEF TypeOK, SessionTypeOK, RecvBitfield
  <2>2. SessionTypeOK' /\ AssemblerTypeOK'
    BY <1>27, ConstantsAssumption DEF TypeOK, SessionTypeOK, AssemblerTypeOK, RecvBitfield
  <2>. QED  BY <1>27, <2>1, <2>2 DEF TypeOK, WatchTypeOK, SinkTypeOK, RecvBitfield
<1>28. ASSUME NEW p \in Peers, NEW b \in AnyBlock, NEW e \in AnyBlock, NEW right \in BOOLEAN, BlockStored(p, b, e, right)
       PROVE TypeOK'
  <2>1. saturating_dec(in_flight[p]) \in 0 .. MaxPipelined
    BY ConstantsAssumption DEF TypeOK, AssemblerTypeOK, saturating_dec
  <2>2. b \in Nat /\ b .. e \subseteq Nat  BY AnyBlockNat
  <2>3. ReceivedWith(p, b) \in SUBSET Nat /\ GoodWith(p, b, e, right) \in SUBSET Nat
    BY <2>2 DEF TypeOK, AssemblerTypeOK, ReceivedWith, GoodWith
  <2>4. AssemblerTypeOK'
    BY <1>28, <2>1, <2>3 DEF TypeOK, AssemblerTypeOK, BlockStored
  <2>. QED  BY <1>28, <2>4 DEF TypeOK, TrackerTypeOK, WatchTypeOK, SessionTypeOK, SinkTypeOK, BlockStored
<1>29. ASSUME NEW p \in Peers, NEW b \in AnyBlock, NEW e \in AnyBlock, NEW right \in BOOLEAN, PieceAlreadyHave(p, b, e)
       PROVE TypeOK'
  <2>1. AssemblerTypeOK' /\ current[p] \in Pieces
    BY <1>29, TakeWholeTyped DEF PieceAlreadyHave
  <2>2. TrackerTypeOK'
    BY <1>29, <2>1 DEF TypeOK, TrackerTypeOK, PieceAlreadyHave, mark_have, release_piece
  <2>. QED  BY <1>29, <2>1, <2>2 DEF TypeOK, WatchTypeOK, SessionTypeOK, SinkTypeOK, PieceAlreadyHave, TakeWhole
<1>30. ASSUME NEW p \in Peers, NEW b \in AnyBlock, NEW e \in AnyBlock, NEW right \in BOOLEAN, PieceVerified(p, b, e, right)
       PROVE TypeOK'
  <2>1. AssemblerTypeOK' /\ current[p] \in Pieces
    BY <1>30, TakeWholeTyped DEF PieceVerified
  <2>2. TrackerTypeOK'
    BY <1>30, <2>1 DEF TypeOK, TrackerTypeOK, PieceVerified, mark_have, release_piece
  <2>. QED  BY <1>30, <2>1, <2>2 DEF TypeOK, WatchTypeOK, SessionTypeOK, SinkTypeOK, PieceVerified, TakeWhole
<1>31. ASSUME NEW p \in Peers, NEW b \in AnyBlock, NEW e \in AnyBlock, NEW right \in BOOLEAN, PieceRejected(p, b, e, right)
       PROVE TypeOK'
  <2>1. AssemblerTypeOK' /\ current[p] \in Pieces
    BY <1>31, TakeWholeTyped DEF PieceRejected
  <2>2. TrackerTypeOK'
    BY <1>31, <2>1 DEF TypeOK, TrackerTypeOK, PieceRejected, mark_have, release_piece
  <2>. QED  BY <1>31, <2>1, <2>2 DEF TypeOK, WatchTypeOK, SessionTypeOK, SinkTypeOK, PieceRejected, TakeWhole
<1>32. ASSUME NEW p \in Peers, BlockPanics(p) PROVE TypeOK'
  BY <1>32, NumPiecesAssumption
     DEF TypeOK, TrackerTypeOK, WatchTypeOK, SessionTypeOK, AssemblerTypeOK, SinkTypeOK,
     BlockPanics
<1>33. ASSUME WritePiece PROVE TypeOK'
  BY <1>33, ConstantsAssumption, NumPiecesAssumption
     DEF TypeOK, TrackerTypeOK, WatchTypeOK, SessionTypeOK, AssemblerTypeOK, SinkTypeOK,
     WritePiece
<1>34. ASSUME WriterFails PROVE TypeOK'
  BY <1>34, ConstantsAssumption, NumPiecesAssumption
     DEF TypeOK, TrackerTypeOK, WatchTypeOK, SessionTypeOK, AssemblerTypeOK, SinkTypeOK,
     WriterFails
<1>35. ASSUME WriterFinishes PROVE TypeOK'
  BY <1>35, NumPiecesAssumption
     DEF TypeOK, TrackerTypeOK, WatchTypeOK, SessionTypeOK, AssemblerTypeOK, SinkTypeOK,
     WriterFinishes
<1>36. ASSUME Report PROVE TypeOK'
  BY <1>36, NumPiecesAssumption
     DEF TypeOK, TrackerTypeOK, WatchTypeOK, SessionTypeOK, AssemblerTypeOK, SinkTypeOK,
     Report
<1>37. CASE UNCHANGED vars
  BY <1>37
     DEF vars, TypeOK, TrackerTypeOK, WatchTypeOK, SessionTypeOK, AssemblerTypeOK,
         SinkTypeOK
<1>. QED
  BY <1>1, <1>2, <1>3, <1>4, <1>5, <1>6, <1>7, <1>8, <1>9, <1>10, <1>11, <1>12, <1>13,
     <1>14, <1>15, <1>16, <1>17, <1>18, <1>19, <1>20, <1>21, <1>22, <1>23, <1>24, <1>25,
     <1>26, <1>27, <1>28, <1>29, <1>30, <1>31, <1>32, <1>33, <1>34, <1>35, <1>36, <1>37
     DEF Next, TaskStep, SelectStep, SocketFails, PeerStep, BlockArrives, WriterStep,
        Terminated

\* TypeOK holds initially.
LEMMA TypeInit == Init => TypeOK /\ SenderHoldsPiece
  BY NumPiecesAssumption, ConstantsAssumption
     DEF Init, TrackerInit, TypeOK, TrackerTypeOK, WatchTypeOK, SessionTypeOK,
        AssemblerTypeOK,
         SinkTypeOK, SenderHoldsPiece, Location, Stopped, ControlState


\* Only the steps around completed.send move a session in or out of the
\* sending states, and they set or clear its piece.
LEMMA SenderStep ==
    ASSUME TypeOK, SenderHoldsPiece, [Next]_vars
    PROVE  SenderHoldsPiece'
<1>. USE DEF TypeOK, SessionTypeOK, SinkTypeOK, SenderHoldsPiece, Goto, sinkVars, engineVars
<1>1. ASSUME NEW v \in ControlCalls, ControlCall(v) PROVE SenderHoldsPiece'
  BY <1>1 DEF ControlCall
<1>2. ASSUME NEW p \in Peers, Spawn(p) PROVE SenderHoldsPiece'
  BY <1>2 DEF Spawn
<1>3. ASSUME NEW p \in Peers, Connect(p) PROVE SenderHoldsPiece'
  BY <1>3 DEF Connect
<1>4. ASSUME NEW p \in Peers, ConnectFails(p) PROVE SenderHoldsPiece'
  BY <1>4 DEF ConnectFails
<1>5. ASSUME NEW p \in Peers, ObserveControl(p) PROVE SenderHoldsPiece'
  BY <1>5 DEF ObserveControl
<1>6. ASSUME NEW p \in Peers, CancelSession(p) PROVE SenderHoldsPiece'
  BY <1>6 DEF CancelSession
<1>7. ASSUME NEW p \in Peers, PauseSession(p) PROVE SenderHoldsPiece'
  BY <1>7 DEF PauseSession
<1>8. ASSUME NEW p \in Peers, WakePaused(p) PROVE SenderHoldsPiece'
  BY <1>8 DEF WakePaused
<1>9. ASSUME NEW p \in Peers, ReserveExclusive(p) PROVE SenderHoldsPiece'
  BY <1>9 DEF ReserveExclusive
<1>10. ASSUME NEW p \in Peers, ReserveFindsComplete(p) PROVE SenderHoldsPiece'
  BY <1>10 DEF ReserveFindsComplete
<1>11. ASSUME NEW p \in Peers, ReserveEndgame(p) PROVE SenderHoldsPiece'
  BY <1>11 DEF ReserveEndgame
<1>12. ASSUME NEW p \in Peers, Fill(p) PROVE SenderHoldsPiece'
  BY <1>12 DEF Fill
<1>13. ASSUME NEW p \in Peers, FillFails(p) PROVE SenderHoldsPiece'
  BY <1>13 DEF FillFails
<1>14. ASSUME NEW p \in Peers, SendPiece(p) PROVE SenderHoldsPiece'
  BY <1>14 DEF SendPiece, AfterSend
<1>15. ASSUME NEW p \in Peers, SendFails(p) PROVE SenderHoldsPiece'
  BY <1>15 DEF SendFails, AfterSend
<1>16. ASSUME NEW p \in Peers, BroadcastDone(p) PROVE SenderHoldsPiece'
  BY <1>16 DEF BroadcastDone
<1>17. ASSUME NEW p \in Peers, Cleanup(p) PROVE SenderHoldsPiece'
  BY <1>17 DEF Cleanup
<1>18. ASSUME NEW p \in Peers, SelectControl(p) PROVE SenderHoldsPiece'
  BY <1>18 DEF SelectControl
<1>19. ASSUME NEW p \in Peers, SelectDone(p) PROVE SenderHoldsPiece'
  BY <1>19 DEF SelectDone
<1>20. ASSUME NEW p \in Peers, SelectTimeout(p) PROVE SenderHoldsPiece'
  BY <1>20 DEF SelectTimeout
<1>21. ASSUME NEW p \in Peers, RecvIgnored(p) PROVE SenderHoldsPiece'
  BY <1>21 DEF RecvIgnored
<1>22. ASSUME NEW p \in Peers, PeerCloses(p) PROVE SenderHoldsPiece'
  BY <1>22 DEF PeerCloses
<1>23. ASSUME NEW p \in Peers, SessionFails(p) PROVE SenderHoldsPiece'
  BY <1>23 DEF SessionFails
<1>24. ASSUME NEW p \in Peers, RecvChoke(p) PROVE SenderHoldsPiece'
  BY <1>24 DEF RecvChoke
<1>25. ASSUME NEW p \in Peers, RecvUnchoke(p) PROVE SenderHoldsPiece'
  BY <1>25 DEF RecvUnchoke
<1>26. ASSUME NEW p \in Peers, NEW i \in HaveIndices, RecvHave(p, i) PROVE SenderHoldsPiece'
  BY <1>26 DEF RecvHave
<1>27. ASSUME NEW p \in Peers, NEW new_has \in Bitfields, RecvBitfield(p, new_has)
       PROVE SenderHoldsPiece'
  BY <1>27 DEF RecvBitfield
<1>28. ASSUME NEW p \in Peers, NEW b \in AnyBlock, NEW e \in AnyBlock, NEW right \in BOOLEAN, BlockStored(p, b, e, right)
       PROVE SenderHoldsPiece'
  BY <1>28 DEF BlockStored, BlockFor
<1>29. ASSUME NEW p \in Peers, NEW b \in AnyBlock, NEW e \in AnyBlock, NEW right \in BOOLEAN, PieceAlreadyHave(p, b, e)
       PROVE SenderHoldsPiece'
  BY <1>29 DEF PieceAlreadyHave, TakeWhole, BlockFor
<1>30. ASSUME NEW p \in Peers, NEW b \in AnyBlock, NEW e \in AnyBlock, NEW right \in BOOLEAN, PieceVerified(p, b, e, right)
       PROVE SenderHoldsPiece'
  <2>1. current[p] \in Pieces /\ NoPiece \notin Pieces
    BY <1>30, TakeWholeTyped, NumPiecesAssumption DEF PieceVerified, Pieces, NoPiece
  <2>. QED  BY <1>30, <2>1 DEF PieceVerified
<1>31. ASSUME NEW p \in Peers, NEW b \in AnyBlock, NEW e \in AnyBlock, NEW right \in BOOLEAN, PieceRejected(p, b, e, right)
       PROVE SenderHoldsPiece'
  BY <1>31 DEF PieceRejected, TakeWhole, BlockFor
<1>32. ASSUME NEW p \in Peers, BlockPanics(p) PROVE SenderHoldsPiece'
  BY <1>32 DEF BlockPanics
<1>33. ASSUME WritePiece PROVE SenderHoldsPiece'
  BY <1>33 DEF WritePiece
<1>34. ASSUME WriterFails PROVE SenderHoldsPiece'
  BY <1>34 DEF WriterFails
<1>35. ASSUME WriterFinishes PROVE SenderHoldsPiece'
  BY <1>35 DEF WriterFinishes
<1>36. ASSUME Report PROVE SenderHoldsPiece'
  BY <1>36 DEF Report
<1>37. CASE UNCHANGED vars
  BY <1>37 DEF vars
<1>. QED
  BY <1>1, <1>2, <1>3, <1>4, <1>5, <1>6, <1>7, <1>8, <1>9, <1>10, <1>11, <1>12, <1>13,
     <1>14, <1>15, <1>16, <1>17, <1>18, <1>19, <1>20, <1>21, <1>22, <1>23, <1>24, <1>25,
     <1>26, <1>27, <1>28, <1>29, <1>30, <1>31, <1>32, <1>33, <1>34, <1>35, <1>36, <1>37
     DEF Next, TaskStep, SelectStep, SocketFails, PeerStep, BlockArrives, WriterStep,
        Terminated

\* The type invariant: in particular the request counter stays within
\* MAX_PIPELINED_REQUESTS and the channel within its capacity.
THEOREM TypeCorrect == Spec => []TypeOK
<1>1. TypeOK /\ SenderHoldsPiece /\ [Next]_vars => TypeOK' /\ SenderHoldsPiece'
  BY TypeStep, SenderStep
<1>. QED  BY TypeInit, <1>1, PTL DEF Spec

-----------------------------------------------------------------------------
(***************************************************************************)
(* Claims.                                                                 *)
(***************************************************************************)
\* What an exclusive reservation returns.
LEMMA ReservedPiece ==
    ASSUME TypeOK, NEW p \in Peers, ReserveExclusive(p)
    PROVE  \E i \in Pieces : /\ i \in peer_has[p] \ (have \cup claimed)
                             /\ claim(i) /\ Assemble(p, i)
<1>. DEFINE i == reserve_piece(peer_has[p])
<1>1. i \in needed_from(peer_has[p], TRUE) /\ needed_from(peer_has[p], TRUE) \subseteq Pieces
  BY RarestNeededSound DEF TypeOK, SessionTypeOK, ReserveExclusive, reserve_piece
<1>2. i \in Pieces /\ i \in peer_has[p] \ (have \cup claimed)  BY <1>1 DEF needed_from
<1>3. claim(i) /\ Assemble(p, i)  BY DEF ReserveExclusive
<1>. QED  BY <1>2, <1>3

\* Claims are taken on needed pieces only and mark_have drops them.
LEMMA HaveNotClaimedStep ==
    ASSUME TypeOK, HaveNotClaimed, [Next]_vars
    PROVE  HaveNotClaimed'
<1>. USE DEF HaveNotClaimed, trackerVars, engineVars
<1>1. ASSUME NEW v \in ControlCalls, ControlCall(v) PROVE HaveNotClaimed'
  BY <1>1 DEF ControlCall
<1>2. ASSUME NEW p \in Peers, Spawn(p) PROVE HaveNotClaimed'
  BY <1>2 DEF Spawn
<1>3. ASSUME NEW p \in Peers, Connect(p) PROVE HaveNotClaimed'
  BY <1>3 DEF Connect
<1>4. ASSUME NEW p \in Peers, ConnectFails(p) PROVE HaveNotClaimed'
  BY <1>4 DEF ConnectFails
<1>5. ASSUME NEW p \in Peers, ObserveControl(p) PROVE HaveNotClaimed'
  BY <1>5 DEF ObserveControl
<1>6. ASSUME NEW p \in Peers, CancelSession(p) PROVE HaveNotClaimed'
  BY <1>6 DEF CancelSession, ReleaseCurrent, release_piece
<1>7. ASSUME NEW p \in Peers, PauseSession(p) PROVE HaveNotClaimed'
  BY <1>7 DEF PauseSession, ReleaseCurrent, release_piece
<1>8. ASSUME NEW p \in Peers, WakePaused(p) PROVE HaveNotClaimed'
  BY <1>8 DEF WakePaused
<1>9. ASSUME NEW p \in Peers, ReserveExclusive(p) PROVE HaveNotClaimed'
  <2>1. PICK i \in Pieces : i \notin have /\ claim(i)  BY <1>9, ReservedPiece
  <2>. QED  BY <2>1 DEF claim
<1>10. ASSUME NEW p \in Peers, ReserveFindsComplete(p) PROVE HaveNotClaimed'
  BY <1>10 DEF ReserveFindsComplete
<1>11. ASSUME NEW p \in Peers, ReserveEndgame(p) PROVE HaveNotClaimed'
  BY <1>11 DEF ReserveEndgame
<1>12. ASSUME NEW p \in Peers, Fill(p) PROVE HaveNotClaimed'
  BY <1>12 DEF Fill
<1>13. ASSUME NEW p \in Peers, FillFails(p) PROVE HaveNotClaimed'
  BY <1>13 DEF FillFails
<1>14. ASSUME NEW p \in Peers, SendPiece(p) PROVE HaveNotClaimed'
  BY <1>14 DEF SendPiece, AfterSend
<1>15. ASSUME NEW p \in Peers, SendFails(p) PROVE HaveNotClaimed'
  BY <1>15 DEF SendFails, AfterSend
<1>16. ASSUME NEW p \in Peers, BroadcastDone(p) PROVE HaveNotClaimed'
  BY <1>16 DEF BroadcastDone
<1>17. ASSUME NEW p \in Peers, Cleanup(p) PROVE HaveNotClaimed'
  BY <1>17 DEF Cleanup, replace_bitfield
<1>18. ASSUME NEW p \in Peers, SelectControl(p) PROVE HaveNotClaimed'
  BY <1>18 DEF SelectControl
<1>19. ASSUME NEW p \in Peers, SelectDone(p) PROVE HaveNotClaimed'
  BY <1>19 DEF SelectDone
<1>20. ASSUME NEW p \in Peers, SelectTimeout(p) PROVE HaveNotClaimed'
  BY <1>20 DEF SelectTimeout, ReleaseCurrent, release_piece
<1>21. ASSUME NEW p \in Peers, RecvIgnored(p) PROVE HaveNotClaimed'
  BY <1>21 DEF RecvIgnored
<1>22. ASSUME NEW p \in Peers, PeerCloses(p) PROVE HaveNotClaimed'
  BY <1>22 DEF PeerCloses, ReleaseCurrent, release_piece
<1>23. ASSUME NEW p \in Peers, SessionFails(p) PROVE HaveNotClaimed'
  BY <1>23 DEF SessionFails
<1>24. ASSUME NEW p \in Peers, RecvChoke(p) PROVE HaveNotClaimed'
  BY <1>24 DEF RecvChoke, ReleaseCurrent, release_piece
<1>25. ASSUME NEW p \in Peers, RecvUnchoke(p) PROVE HaveNotClaimed'
  BY <1>25 DEF RecvUnchoke
<1>26. ASSUME NEW p \in Peers, NEW i \in HaveIndices, RecvHave(p, i) PROVE HaveNotClaimed'
  BY <1>26 DEF RecvHave, add_availability
<1>27. ASSUME NEW p \in Peers, NEW new_has \in Bitfields, RecvBitfield(p, new_has)
       PROVE HaveNotClaimed'
  BY <1>27 DEF RecvBitfield, replace_bitfield
<1>28. ASSUME NEW p \in Peers, NEW b, NEW e, NEW right, BlockStored(p, b, e, right)
       PROVE HaveNotClaimed'
  BY <1>28 DEF BlockStored
<1>29. ASSUME NEW p \in Peers, NEW b, NEW e, NEW right, PieceAlreadyHave(p, b, e)
       PROVE HaveNotClaimed'
  BY <1>29 DEF PieceAlreadyHave
<1>30. ASSUME NEW p \in Peers, NEW b, NEW e, NEW right, PieceVerified(p, b, e, right)
       PROVE HaveNotClaimed'
  BY <1>30 DEF PieceVerified, mark_have
<1>31. ASSUME NEW p \in Peers, NEW b, NEW e, NEW right, PieceRejected(p, b, e, right)
       PROVE HaveNotClaimed'
  BY <1>31 DEF PieceRejected, release_piece
<1>32. ASSUME NEW p \in Peers, BlockPanics(p) PROVE HaveNotClaimed'
  BY <1>32 DEF BlockPanics
<1>33. ASSUME WritePiece PROVE HaveNotClaimed'
  BY <1>33 DEF WritePiece
<1>34. ASSUME WriterFails PROVE HaveNotClaimed'
  BY <1>34 DEF WriterFails
<1>35. ASSUME WriterFinishes PROVE HaveNotClaimed'
  BY <1>35 DEF WriterFinishes
<1>36. ASSUME Report PROVE HaveNotClaimed'
  BY <1>36 DEF Report
<1>37. CASE UNCHANGED vars
  BY <1>37 DEF vars
<1>. QED
  BY <1>1, <1>2, <1>3, <1>4, <1>5, <1>6, <1>7, <1>8, <1>9, <1>10, <1>11, <1>12, <1>13,
     <1>14, <1>15, <1>16, <1>17, <1>18, <1>19, <1>20, <1>21, <1>22, <1>23, <1>24, <1>25,
     <1>26, <1>27, <1>28, <1>29, <1>30, <1>31, <1>32, <1>33, <1>34, <1>35, <1>36, <1>37
     DEF Next, TaskStep, SelectStep, SocketFails, PeerStep, BlockArrives, WriterStep,
        Terminated

\* "reserve" is entered from the top of the loop only, with no piece in hand.
LEMMA ReservesStep ==
    ASSUME TypeOK, ReservesEmptyHanded, [Next]_vars
    PROVE  ReservesEmptyHanded'
<1>. USE DEF TypeOK, SessionTypeOK, AssemblerTypeOK, ReservesEmptyHanded, Goto, asmVars, engineVars
<1>1. ASSUME NEW v \in ControlCalls, ControlCall(v) PROVE ReservesEmptyHanded'
  BY <1>1 DEF ControlCall
<1>2. ASSUME NEW p \in Peers, Spawn(p) PROVE ReservesEmptyHanded'
  BY <1>2 DEF Spawn
<1>3. ASSUME NEW p \in Peers, Connect(p) PROVE ReservesEmptyHanded'
  BY <1>3 DEF Connect
<1>4. ASSUME NEW p \in Peers, ConnectFails(p) PROVE ReservesEmptyHanded'
  BY <1>4 DEF ConnectFails
<1>5. ASSUME NEW p \in Peers, ObserveControl(p) PROVE ReservesEmptyHanded'
  BY <1>5 DEF ObserveControl
<1>6. ASSUME NEW p \in Peers, CancelSession(p) PROVE ReservesEmptyHanded'
  BY <1>6 DEF CancelSession, ReleaseCurrent, TakeCurrent, Assemble
<1>7. ASSUME NEW p \in Peers, PauseSession(p) PROVE ReservesEmptyHanded'
  BY <1>7 DEF PauseSession, ReleaseCurrent, TakeCurrent, Assemble
<1>8. ASSUME NEW p \in Peers, WakePaused(p) PROVE ReservesEmptyHanded'
  BY <1>8 DEF WakePaused
<1>9. ASSUME NEW p \in Peers, ReserveExclusive(p) PROVE ReservesEmptyHanded'
  BY <1>9 DEF ReserveExclusive, Assemble
<1>10. ASSUME NEW p \in Peers, ReserveFindsComplete(p) PROVE ReservesEmptyHanded'
  BY <1>10 DEF ReserveFindsComplete
<1>11. ASSUME NEW p \in Peers, ReserveEndgame(p) PROVE ReservesEmptyHanded'
  BY <1>11 DEF ReserveEndgame, Assemble
<1>12. ASSUME NEW p \in Peers, Fill(p) PROVE ReservesEmptyHanded'
  BY <1>12 DEF Fill
<1>13. ASSUME NEW p \in Peers, FillFails(p) PROVE ReservesEmptyHanded'
  BY <1>13 DEF FillFails
<1>14. ASSUME NEW p \in Peers, SendPiece(p) PROVE ReservesEmptyHanded'
  BY <1>14 DEF SendPiece, AfterSend
<1>15. ASSUME NEW p \in Peers, SendFails(p) PROVE ReservesEmptyHanded'
  BY <1>15 DEF SendFails, AfterSend
<1>16. ASSUME NEW p \in Peers, BroadcastDone(p) PROVE ReservesEmptyHanded'
  BY <1>16 DEF BroadcastDone
<1>17. ASSUME NEW p \in Peers, Cleanup(p) PROVE ReservesEmptyHanded'
  BY <1>17 DEF Cleanup
<1>18. ASSUME NEW p \in Peers, SelectControl(p) PROVE ReservesEmptyHanded'
  BY <1>18 DEF SelectControl
<1>19. ASSUME NEW p \in Peers, SelectDone(p) PROVE ReservesEmptyHanded'
  BY <1>19 DEF SelectDone, TakeCurrent, Assemble
<1>20. ASSUME NEW p \in Peers, SelectTimeout(p) PROVE ReservesEmptyHanded'
  BY <1>20 DEF SelectTimeout, ReleaseCurrent, TakeCurrent, Assemble
<1>21. ASSUME NEW p \in Peers, RecvIgnored(p) PROVE ReservesEmptyHanded'
  BY <1>21 DEF RecvIgnored
<1>22. ASSUME NEW p \in Peers, PeerCloses(p) PROVE ReservesEmptyHanded'
  BY <1>22 DEF PeerCloses, ReleaseCurrent, TakeCurrent, Assemble
<1>23. ASSUME NEW p \in Peers, SessionFails(p) PROVE ReservesEmptyHanded'
  BY <1>23 DEF SessionFails
<1>24. ASSUME NEW p \in Peers, RecvChoke(p) PROVE ReservesEmptyHanded'
  BY <1>24 DEF RecvChoke, ReleaseCurrent, TakeCurrent, Assemble
<1>25. ASSUME NEW p \in Peers, RecvUnchoke(p) PROVE ReservesEmptyHanded'
  BY <1>25 DEF RecvUnchoke
<1>26. ASSUME NEW p \in Peers, NEW i \in HaveIndices, RecvHave(p, i)
       PROVE ReservesEmptyHanded'
  BY <1>26 DEF RecvHave
<1>27. ASSUME NEW p \in Peers, NEW new_has \in Bitfields, RecvBitfield(p, new_has)
       PROVE ReservesEmptyHanded'
  BY <1>27 DEF RecvBitfield
<1>28. ASSUME NEW p \in Peers, NEW b, NEW e, NEW right, BlockStored(p, b, e, right)
       PROVE ReservesEmptyHanded'
  BY <1>28 DEF BlockStored, BlockFor
<1>29. ASSUME NEW p \in Peers, NEW b, NEW e, NEW right, PieceAlreadyHave(p, b, e)
       PROVE ReservesEmptyHanded'
  BY <1>29 DEF PieceAlreadyHave, TakeWhole, BlockFor
<1>30. ASSUME NEW p \in Peers, NEW b, NEW e, NEW right, PieceVerified(p, b, e, right)
       PROVE ReservesEmptyHanded'
  BY <1>30 DEF PieceVerified, TakeWhole, BlockFor
<1>31. ASSUME NEW p \in Peers, NEW b, NEW e, NEW right, PieceRejected(p, b, e, right)
       PROVE ReservesEmptyHanded'
  BY <1>31 DEF PieceRejected, TakeWhole, BlockFor
<1>32. ASSUME NEW p \in Peers, BlockPanics(p) PROVE ReservesEmptyHanded'
  BY <1>32 DEF BlockPanics
<1>33. ASSUME WritePiece PROVE ReservesEmptyHanded'
  BY <1>33 DEF WritePiece
<1>34. ASSUME WriterFails PROVE ReservesEmptyHanded'
  BY <1>34 DEF WriterFails
<1>35. ASSUME WriterFinishes PROVE ReservesEmptyHanded'
  BY <1>35 DEF WriterFinishes
<1>36. ASSUME Report PROVE ReservesEmptyHanded'
  BY <1>36 DEF Report
<1>37. CASE UNCHANGED vars
  BY <1>37 DEF vars
<1>. QED
  BY <1>1, <1>2, <1>3, <1>4, <1>5, <1>6, <1>7, <1>8, <1>9, <1>10, <1>11, <1>12, <1>13,
     <1>14, <1>15, <1>16, <1>17, <1>18, <1>19, <1>20, <1>21, <1>22, <1>23, <1>24, <1>25,
     <1>26, <1>27, <1>28, <1>29, <1>30, <1>31, <1>32, <1>33, <1>34, <1>35, <1>36, <1>37
     DEF Next, TaskStep, SelectStep, SocketFails, PeerStep, BlockArrives, WriterStep,
        Terminated

\* A session gets past "reserve" with nothing only if nothing is needed from it,
\* and `have` only grows while it waits.
LEMMA NoIdleStep ==
    ASSUME TypeOK, NoIdleWhileNeeded, [Next]_vars
    PROVE  NoIdleWhileNeeded'
<1>. USE DEF TypeOK, SessionTypeOK, AssemblerTypeOK, NoIdleWhileNeeded, Goto, trackerVars, asmVars, engineVars
<1>1. ASSUME NEW v \in ControlCalls, ControlCall(v) PROVE NoIdleWhileNeeded'
  BY <1>1 DEF ControlCall
<1>2. ASSUME NEW p \in Peers, Spawn(p) PROVE NoIdleWhileNeeded'
  BY <1>2 DEF Spawn
<1>3. ASSUME NEW p \in Peers, Connect(p) PROVE NoIdleWhileNeeded'
  BY <1>3 DEF Connect
<1>4. ASSUME NEW p \in Peers, ConnectFails(p) PROVE NoIdleWhileNeeded'
  BY <1>4 DEF ConnectFails
<1>5. ASSUME NEW p \in Peers, ObserveControl(p) PROVE NoIdleWhileNeeded'
  <2>1. pc'[p] \in {"fill", "select"} => p \in choked \/ current[p] # NoPiece
    BY <1>5 DEF ObserveControl, WatchTypeOK, ControlState
  <2>2. \A q \in Peers \ {p} : pc'[q] = pc[q]  BY <1>5 DEF ObserveControl
  <2>. QED  BY <1>5, <2>1, <2>2 DEF ObserveControl
<1>6. ASSUME NEW p \in Peers, CancelSession(p) PROVE NoIdleWhileNeeded'
  BY <1>6 DEF CancelSession, ReleaseCurrent, TakeCurrent, Assemble, release_piece
<1>7. ASSUME NEW p \in Peers, PauseSession(p) PROVE NoIdleWhileNeeded'
  BY <1>7 DEF PauseSession, ReleaseCurrent, TakeCurrent, Assemble, release_piece
<1>8. ASSUME NEW p \in Peers, WakePaused(p) PROVE NoIdleWhileNeeded'
  BY <1>8 DEF WakePaused
<1>9. ASSUME NEW p \in Peers, ReserveExclusive(p) PROVE NoIdleWhileNeeded'
  <2>1. PICK i \in Pieces : claim(i) /\ Assemble(p, i)  BY <1>9, ReservedPiece
  <2>2. current'[p] # NoPiece
    BY <2>1, NumPiecesAssumption DEF Assemble, Pieces, NoPiece
  <2>. QED  BY <1>9, <2>1, <2>2 DEF ReserveExclusive, Assemble, claim
<1>10. ASSUME NEW p \in Peers, ReserveFindsComplete(p) PROVE NoIdleWhileNeeded'
  BY <1>10 DEF ReserveFindsComplete
<1>11. ASSUME NEW p \in Peers, ReserveEndgame(p) PROVE NoIdleWhileNeeded'
  <2>. DEFINE i == reserve_piece_endgame(peer_has[p])
  <2>1. i = NoPiece => peer_has[p] \subseteq have
    BY RarestNeededSound DEF reserve_piece_endgame, needed_from
  <2>2. i # NoPiece => current'[p] # NoPiece  BY <1>11 DEF ReserveEndgame, Assemble
  <2>3. \A q \in Peers \ {p} : current'[q] = current[q] /\ pc'[q] = pc[q]
    BY <1>11 DEF ReserveEndgame, Assemble
  <2>. HIDE DEF i
  <2>. QED  BY <1>11, <2>1, <2>2, <2>3 DEF ReserveEndgame
<1>12. ASSUME NEW p \in Peers, Fill(p) PROVE NoIdleWhileNeeded'
  BY <1>12 DEF Fill
<1>13. ASSUME NEW p \in Peers, FillFails(p) PROVE NoIdleWhileNeeded'
  BY <1>13 DEF FillFails
<1>14. ASSUME NEW p \in Peers, SendPiece(p) PROVE NoIdleWhileNeeded'
  BY <1>14 DEF SendPiece, AfterSend
<1>15. ASSUME NEW p \in Peers, SendFails(p) PROVE NoIdleWhileNeeded'
  BY <1>15 DEF SendFails, AfterSend
<1>16. ASSUME NEW p \in Peers, BroadcastDone(p) PROVE NoIdleWhileNeeded'
  BY <1>16 DEF BroadcastDone
<1>17. ASSUME NEW p \in Peers, Cleanup(p) PROVE NoIdleWhileNeeded'
  BY <1>17 DEF Cleanup, replace_bitfield
<1>18. ASSUME NEW p \in Peers, SelectControl(p) PROVE NoIdleWhileNeeded'
  BY <1>18 DEF SelectControl
<1>19. ASSUME NEW p \in Peers, SelectDone(p) PROVE NoIdleWhileNeeded'
  BY <1>19 DEF SelectDone, TakeCurrent, Assemble
<1>20. ASSUME NEW p \in Peers, SelectTimeout(p) PROVE NoIdleWhileNeeded'
  BY <1>20 DEF SelectTimeout, ReleaseCurrent, TakeCurrent, Assemble, release_piece
<1>21. ASSUME NEW p \in Peers, RecvIgnored(p) PROVE NoIdleWhileNeeded'
  BY <1>21 DEF RecvIgnored
<1>22. ASSUME NEW p \in Peers, PeerCloses(p) PROVE NoIdleWhileNeeded'
  BY <1>22 DEF PeerCloses, ReleaseCurrent, TakeCurrent, Assemble, release_piece
<1>23. ASSUME NEW p \in Peers, SessionFails(p) PROVE NoIdleWhileNeeded'
  BY <1>23 DEF SessionFails
<1>24. ASSUME NEW p \in Peers, RecvChoke(p) PROVE NoIdleWhileNeeded'
  BY <1>24 DEF RecvChoke, ReleaseCurrent, TakeCurrent, Assemble, release_piece
<1>25. ASSUME NEW p \in Peers, RecvUnchoke(p) PROVE NoIdleWhileNeeded'
  BY <1>25 DEF RecvUnchoke
<1>26. ASSUME NEW p \in Peers, NEW i \in HaveIndices, RecvHave(p, i)
       PROVE NoIdleWhileNeeded'
  BY <1>26 DEF RecvHave, add_availability
<1>27. ASSUME NEW p \in Peers, NEW new_has \in Bitfields, RecvBitfield(p, new_has)
       PROVE NoIdleWhileNeeded'
  BY <1>27 DEF RecvBitfield, replace_bitfield
<1>28. ASSUME NEW p \in Peers, NEW b, NEW e, NEW right, BlockStored(p, b, e, right)
       PROVE NoIdleWhileNeeded'
  BY <1>28 DEF BlockStored, BlockFor
<1>29. ASSUME NEW p \in Peers, NEW b, NEW e, NEW right, PieceAlreadyHave(p, b, e)
       PROVE NoIdleWhileNeeded'
  BY <1>29 DEF PieceAlreadyHave, TakeWhole, BlockFor
<1>30. ASSUME NEW p \in Peers, NEW b, NEW e, NEW right, PieceVerified(p, b, e, right)
       PROVE NoIdleWhileNeeded'
  BY <1>30 DEF PieceVerified, TakeWhole, BlockFor, mark_have
<1>31. ASSUME NEW p \in Peers, NEW b, NEW e, NEW right, PieceRejected(p, b, e, right)
       PROVE NoIdleWhileNeeded'
  BY <1>31 DEF PieceRejected, TakeWhole, BlockFor, release_piece
<1>32. ASSUME NEW p \in Peers, BlockPanics(p) PROVE NoIdleWhileNeeded'
  BY <1>32 DEF BlockPanics
<1>33. ASSUME WritePiece PROVE NoIdleWhileNeeded'
  BY <1>33 DEF WritePiece
<1>34. ASSUME WriterFails PROVE NoIdleWhileNeeded'
  BY <1>34 DEF WriterFails
<1>35. ASSUME WriterFinishes PROVE NoIdleWhileNeeded'
  BY <1>35 DEF WriterFinishes
<1>36. ASSUME Report PROVE NoIdleWhileNeeded'
  BY <1>36 DEF Report
<1>37. CASE UNCHANGED vars
  BY <1>37 DEF vars
<1>. QED
  BY <1>1, <1>2, <1>3, <1>4, <1>5, <1>6, <1>7, <1>8, <1>9, <1>10, <1>11, <1>12, <1>13,
     <1>14, <1>15, <1>16, <1>17, <1>18, <1>19, <1>20, <1>21, <1>22, <1>23, <1>24, <1>25,
     <1>26, <1>27, <1>28, <1>29, <1>30, <1>31, <1>32, <1>33, <1>34, <1>35, <1>36, <1>37
     DEF Next, TaskStep, SelectStep, SocketFails, PeerStep, BlockArrives, WriterStep,
        Terminated

\* `done` is sent after a lock section that saw the torrent complete.
LEMMA DoneStep ==
    ASSUME TypeOK, DoneMeansComplete, [Next]_vars
    PROVE  DoneMeansComplete'
<1>. USE DEF TypeOK, TrackerTypeOK, SessionTypeOK, DoneMeansComplete, Goto, is_complete, trackerVars, watchVars, engineVars
<1>1. ASSUME NEW v \in ControlCalls, ControlCall(v) PROVE DoneMeansComplete'
  BY <1>1 DEF ControlCall
<1>2. ASSUME NEW p \in Peers, Spawn(p) PROVE DoneMeansComplete'
  BY <1>2 DEF Spawn
<1>3. ASSUME NEW p \in Peers, Connect(p) PROVE DoneMeansComplete'
  BY <1>3 DEF Connect
<1>4. ASSUME NEW p \in Peers, ConnectFails(p) PROVE DoneMeansComplete'
  BY <1>4 DEF ConnectFails
<1>5. ASSUME NEW p \in Peers, ObserveControl(p) PROVE DoneMeansComplete'
  BY <1>5 DEF ObserveControl
<1>6. ASSUME NEW p \in Peers, CancelSession(p) PROVE DoneMeansComplete'
  BY <1>6 DEF CancelSession, ReleaseCurrent, TakeCurrent, Assemble, release_piece
<1>7. ASSUME NEW p \in Peers, PauseSession(p) PROVE DoneMeansComplete'
  BY <1>7 DEF PauseSession, ReleaseCurrent, TakeCurrent, Assemble, release_piece
<1>8. ASSUME NEW p \in Peers, WakePaused(p) PROVE DoneMeansComplete'
  BY <1>8 DEF WakePaused
<1>9. ASSUME NEW p \in Peers, ReserveExclusive(p) PROVE DoneMeansComplete'
  BY <1>9 DEF ReserveExclusive, claim
<1>10. ASSUME NEW p \in Peers, ReserveFindsComplete(p) PROVE DoneMeansComplete'
  BY <1>10 DEF ReserveFindsComplete
<1>11. ASSUME NEW p \in Peers, ReserveEndgame(p) PROVE DoneMeansComplete'
  BY <1>11 DEF ReserveEndgame
<1>12. ASSUME NEW p \in Peers, Fill(p) PROVE DoneMeansComplete'
  BY <1>12 DEF Fill
<1>13. ASSUME NEW p \in Peers, FillFails(p) PROVE DoneMeansComplete'
  BY <1>13 DEF FillFails
<1>14. ASSUME NEW p \in Peers, SendPiece(p) PROVE DoneMeansComplete'
  BY <1>14 DEF SendPiece, AfterSend
<1>15. ASSUME NEW p \in Peers, SendFails(p) PROVE DoneMeansComplete'
  BY <1>15 DEF SendFails, AfterSend
<1>16. ASSUME NEW p \in Peers, BroadcastDone(p) PROVE DoneMeansComplete'
  BY <1>16 DEF BroadcastDone
<1>17. ASSUME NEW p \in Peers, Cleanup(p) PROVE DoneMeansComplete'
  BY <1>17 DEF Cleanup, replace_bitfield
<1>18. ASSUME NEW p \in Peers, SelectControl(p) PROVE DoneMeansComplete'
  BY <1>18 DEF SelectControl
<1>19. ASSUME NEW p \in Peers, SelectDone(p) PROVE DoneMeansComplete'
  BY <1>19 DEF SelectDone, TakeCurrent, Assemble
<1>20. ASSUME NEW p \in Peers, SelectTimeout(p) PROVE DoneMeansComplete'
  BY <1>20 DEF SelectTimeout, ReleaseCurrent, TakeCurrent, Assemble, release_piece
<1>21. ASSUME NEW p \in Peers, RecvIgnored(p) PROVE DoneMeansComplete'
  BY <1>21 DEF RecvIgnored
<1>22. ASSUME NEW p \in Peers, PeerCloses(p) PROVE DoneMeansComplete'
  BY <1>22 DEF PeerCloses, ReleaseCurrent, TakeCurrent, Assemble, release_piece
<1>23. ASSUME NEW p \in Peers, SessionFails(p) PROVE DoneMeansComplete'
  BY <1>23 DEF SessionFails
<1>24. ASSUME NEW p \in Peers, RecvChoke(p) PROVE DoneMeansComplete'
  BY <1>24 DEF RecvChoke, ReleaseCurrent, TakeCurrent, Assemble, release_piece
<1>25. ASSUME NEW p \in Peers, RecvUnchoke(p) PROVE DoneMeansComplete'
  BY <1>25 DEF RecvUnchoke
<1>26. ASSUME NEW p \in Peers, NEW i \in HaveIndices, RecvHave(p, i)
       PROVE DoneMeansComplete'
  BY <1>26 DEF RecvHave, add_availability
<1>27. ASSUME NEW p \in Peers, NEW new_has \in Bitfields, RecvBitfield(p, new_has)
       PROVE DoneMeansComplete'
  BY <1>27 DEF RecvBitfield, replace_bitfield
<1>28. ASSUME NEW p \in Peers, NEW b, NEW e, NEW right, BlockStored(p, b, e, right)
       PROVE DoneMeansComplete'
  BY <1>28 DEF BlockStored, BlockFor
<1>29. ASSUME NEW p \in Peers, NEW b, NEW e, NEW right, PieceAlreadyHave(p, b, e)
       PROVE DoneMeansComplete'
  BY <1>29 DEF PieceAlreadyHave, TakeWhole, BlockFor
<1>30. ASSUME NEW p \in Peers, NEW b, NEW e, NEW right, PieceVerified(p, b, e, right)
       PROVE DoneMeansComplete'
  <2>1. current[p] \in Pieces  BY <1>30, TakeWholeTyped DEF PieceVerified
  <2>. QED  BY <1>30, <2>1 DEF PieceVerified, TakeWhole, mark_have
<1>31. ASSUME NEW p \in Peers, NEW b, NEW e, NEW right, PieceRejected(p, b, e, right)
       PROVE DoneMeansComplete'
  BY <1>31 DEF PieceRejected, TakeWhole, BlockFor, release_piece
<1>32. ASSUME NEW p \in Peers, BlockPanics(p) PROVE DoneMeansComplete'
  BY <1>32 DEF BlockPanics
<1>33. ASSUME WritePiece PROVE DoneMeansComplete'
  BY <1>33 DEF WritePiece
<1>34. ASSUME WriterFails PROVE DoneMeansComplete'
  BY <1>34 DEF WriterFails
<1>35. ASSUME WriterFinishes PROVE DoneMeansComplete'
  BY <1>35 DEF WriterFinishes
<1>36. ASSUME Report PROVE DoneMeansComplete'
  BY <1>36 DEF Report
<1>37. CASE UNCHANGED vars
  BY <1>37 DEF vars
<1>. QED
  BY <1>1, <1>2, <1>3, <1>4, <1>5, <1>6, <1>7, <1>8, <1>9, <1>10, <1>11, <1>12, <1>13,
     <1>14, <1>15, <1>16, <1>17, <1>18, <1>19, <1>20, <1>21, <1>22, <1>23, <1>24, <1>25,
     <1>26, <1>27, <1>28, <1>29, <1>30, <1>31, <1>32, <1>33, <1>34, <1>35, <1>36, <1>37
     DEF Next, TaskStep, SelectStep, SocketFails, PeerStep, BlockArrives, WriterStep,
        Terminated

\* A claim disappears with the last step that drops its piece.
LEMMA ClaimHolderStep ==
    ASSUME TypeOK, HaveNotClaimed, ReservesEmptyHanded, DoneMeansComplete, ClaimHasHolder, [Next]_vars
    PROVE  ClaimHasHolder'
<1>. USE DEF TypeOK, SessionTypeOK, AssemblerTypeOK, ClaimHasHolder, trackerVars, asmVars, engineVars
<1>1. ASSUME NEW v \in ControlCalls, ControlCall(v) PROVE ClaimHasHolder'
  BY <1>1 DEF ControlCall
<1>2. ASSUME NEW p \in Peers, Spawn(p) PROVE ClaimHasHolder'
  BY <1>2 DEF Spawn
<1>3. ASSUME NEW p \in Peers, Connect(p) PROVE ClaimHasHolder'
  BY <1>3 DEF Connect
<1>4. ASSUME NEW p \in Peers, ConnectFails(p) PROVE ClaimHasHolder'
  BY <1>4 DEF ConnectFails
<1>5. ASSUME NEW p \in Peers, ObserveControl(p) PROVE ClaimHasHolder'
  BY <1>5 DEF ObserveControl
<1>6. ASSUME NEW p \in Peers, CancelSession(p) PROVE ClaimHasHolder'
  BY <1>6 DEF CancelSession, ReleaseCurrent, TakeCurrent, Assemble, release_piece
<1>7. ASSUME NEW p \in Peers, PauseSession(p) PROVE ClaimHasHolder'
  BY <1>7 DEF PauseSession, ReleaseCurrent, TakeCurrent, Assemble, release_piece
<1>8. ASSUME NEW p \in Peers, WakePaused(p) PROVE ClaimHasHolder'
  BY <1>8 DEF WakePaused
<1>9. ASSUME NEW p \in Peers, ReserveExclusive(p) PROVE ClaimHasHolder'
  <2>1. PICK i \in Pieces : claim(i) /\ Assemble(p, i)  BY <1>9, ReservedPiece
  <2>2. current[p] = NoPiece /\ NoPiece \notin Pieces
    BY <1>9, NumPiecesAssumption DEF ReserveExclusive, ReservesEmptyHanded, Pieces, NoPiece
  <2>3. current'[p] = i /\ \A q \in Peers \ {p} : current'[q] = current[q]  BY <2>1 DEF Assemble
  <2>4. claimed' = claimed \cup {i} /\ claimed \subseteq Pieces
    BY <2>1 DEF claim, TrackerTypeOK
  <2>. QED  BY <2>2, <2>3, <2>4
<1>10. ASSUME NEW p \in Peers, ReserveFindsComplete(p) PROVE ClaimHasHolder'
  BY <1>10 DEF ReserveFindsComplete
<1>11. ASSUME NEW p \in Peers, ReserveEndgame(p) PROVE ClaimHasHolder'
  <2>1. current[p] = NoPiece /\ NoPiece \notin Pieces
    BY <1>11, NumPiecesAssumption DEF ReserveEndgame, ReservesEmptyHanded, Pieces, NoPiece
  <2>2. claimed' = claimed /\ claimed \subseteq Pieces  BY <1>11 DEF ReserveEndgame, TrackerTypeOK
  <2>3. \A q \in Peers \ {p} : current'[q] = current[q]  BY <1>11 DEF ReserveEndgame, Assemble
  <2>. QED  BY <2>1, <2>2, <2>3
<1>12. ASSUME NEW p \in Peers, Fill(p) PROVE ClaimHasHolder'
  BY <1>12 DEF Fill
<1>13. ASSUME NEW p \in Peers, FillFails(p) PROVE ClaimHasHolder'
  BY <1>13 DEF FillFails
<1>14. ASSUME NEW p \in Peers, SendPiece(p) PROVE ClaimHasHolder'
  BY <1>14 DEF SendPiece, AfterSend
<1>15. ASSUME NEW p \in Peers, SendFails(p) PROVE ClaimHasHolder'
  BY <1>15 DEF SendFails, AfterSend
<1>16. ASSUME NEW p \in Peers, BroadcastDone(p) PROVE ClaimHasHolder'
  BY <1>16 DEF BroadcastDone
<1>17. ASSUME NEW p \in Peers, Cleanup(p) PROVE ClaimHasHolder'
  BY <1>17 DEF Cleanup, replace_bitfield
<1>18. ASSUME NEW p \in Peers, SelectControl(p) PROVE ClaimHasHolder'
  BY <1>18 DEF SelectControl
<1>19. ASSUME NEW p \in Peers, SelectDone(p) PROVE ClaimHasHolder'
  <2>1. claimed = {}
    BY <1>19 DEF SelectDone, DoneMeansComplete, is_complete, HaveNotClaimed, TrackerTypeOK
  <2>. QED  BY <1>19, <2>1 DEF SelectDone
<1>20. ASSUME NEW p \in Peers, SelectTimeout(p) PROVE ClaimHasHolder'
  BY <1>20 DEF SelectTimeout, ReleaseCurrent, TakeCurrent, Assemble, release_piece
<1>21. ASSUME NEW p \in Peers, RecvIgnored(p) PROVE ClaimHasHolder'
  BY <1>21 DEF RecvIgnored
<1>22. ASSUME NEW p \in Peers, PeerCloses(p) PROVE ClaimHasHolder'
  BY <1>22 DEF PeerCloses, ReleaseCurrent, TakeCurrent, Assemble, release_piece
<1>23. ASSUME NEW p \in Peers, SessionFails(p) PROVE ClaimHasHolder'
  BY <1>23 DEF SessionFails
<1>24. ASSUME NEW p \in Peers, RecvChoke(p) PROVE ClaimHasHolder'
  BY <1>24 DEF RecvChoke, ReleaseCurrent, TakeCurrent, Assemble, release_piece
<1>25. ASSUME NEW p \in Peers, RecvUnchoke(p) PROVE ClaimHasHolder'
  BY <1>25 DEF RecvUnchoke
<1>26. ASSUME NEW p \in Peers, NEW i \in HaveIndices, RecvHave(p, i) PROVE ClaimHasHolder'
  BY <1>26 DEF RecvHave, add_availability
<1>27. ASSUME NEW p \in Peers, NEW new_has \in Bitfields, RecvBitfield(p, new_has)
       PROVE ClaimHasHolder'
  BY <1>27 DEF RecvBitfield, replace_bitfield
<1>28. ASSUME NEW p \in Peers, NEW b, NEW e, NEW right, BlockStored(p, b, e, right)
       PROVE ClaimHasHolder'
  BY <1>28 DEF BlockStored, BlockFor
<1>29. ASSUME NEW p \in Peers, NEW b, NEW e, NEW right, PieceAlreadyHave(p, b, e)
       PROVE ClaimHasHolder'
  <2>1. current[p] \notin claimed  BY <1>29 DEF PieceAlreadyHave, HaveNotClaimed
  <2>. QED  BY <1>29, <2>1 DEF PieceAlreadyHave, TakeWhole
<1>30. ASSUME NEW p \in Peers, NEW b, NEW e, NEW right, PieceVerified(p, b, e, right)
       PROVE ClaimHasHolder'
  BY <1>30 DEF PieceVerified, TakeWhole, BlockFor, mark_have
<1>31. ASSUME NEW p \in Peers, NEW b, NEW e, NEW right, PieceRejected(p, b, e, right)
       PROVE ClaimHasHolder'
  BY <1>31 DEF PieceRejected, TakeWhole, BlockFor, release_piece
<1>32. ASSUME NEW p \in Peers, BlockPanics(p) PROVE ClaimHasHolder'
  BY <1>32 DEF BlockPanics
<1>33. ASSUME WritePiece PROVE ClaimHasHolder'
  BY <1>33 DEF WritePiece
<1>34. ASSUME WriterFails PROVE ClaimHasHolder'
  BY <1>34 DEF WriterFails
<1>35. ASSUME WriterFinishes PROVE ClaimHasHolder'
  BY <1>35 DEF WriterFinishes
<1>36. ASSUME Report PROVE ClaimHasHolder'
  BY <1>36 DEF Report
<1>37. CASE UNCHANGED vars
  BY <1>37 DEF vars
<1>. QED
  BY <1>1, <1>2, <1>3, <1>4, <1>5, <1>6, <1>7, <1>8, <1>9, <1>10, <1>11, <1>12, <1>13,
     <1>14, <1>15, <1>16, <1>17, <1>18, <1>19, <1>20, <1>21, <1>22, <1>23, <1>24, <1>25,
     <1>26, <1>27, <1>28, <1>29, <1>30, <1>31, <1>32, <1>33, <1>34, <1>35, <1>36, <1>37
     DEF Next, TaskStep, SelectStep, SocketFails, PeerStep, BlockArrives, WriterStep,
        Terminated

-----------------------------------------------------------------------------
(***************************************************************************)
(* Availability.                                                           *)
(***************************************************************************)
\* Subtracting a session's old bitfield and adding its new one moves the
\* session in or out of the advertisers of exactly the pieces that changed.
LEMMA ReplaceExact ==
    ASSUME TypeOK, AvailabilityExact, NEW p \in Peers, NEW new \in SUBSET Pieces,
           replace_bitfield(peer_has[p], new),
           peer_has' = [peer_has EXCEPT ![p] = new]
    PROVE  AvailabilityExact'
<1>. SUFFICES ASSUME NEW k \in Pieces
              PROVE  availability'[k] = Cardinality(Advertisers(k)')
  BY DEF AvailabilityExact
<1>. DEFINE A == Advertisers(k)
<1>1. IsFiniteSet(A) /\ A \subseteq Peers
  BY ConstantsAssumption, FS_Subset DEF Advertisers
<1>2. availability[k] = Cardinality(A) /\ availability[k] \in Nat
  BY DEF AvailabilityExact, TypeOK, TrackerTypeOK
<1>3. p \in A <=> k \in peer_has[p]  BY DEF Advertisers
<1>4. Advertisers(k)' = IF k \in new THEN A \cup {p} ELSE A \ {p}
  BY DEF Advertisers, TypeOK, SessionTypeOK
<1>5. Cardinality(A \cup {p}) = IF p \in A THEN Cardinality(A) ELSE Cardinality(A) + 1
  BY <1>1, FS_AddElement
<1>6. Cardinality(A \ {p}) = IF p \in A THEN Cardinality(A) - 1 ELSE Cardinality(A)
  BY <1>1, FS_RemoveElement
<1>7. p \in A => Cardinality(A) # 0  BY <1>1, FS_EmptySet
<1>8. availability'[k] =
        (IF k \in peer_has[p] THEN saturating_dec(availability[k]) ELSE availability[k])
        + (IF k \in new THEN 1 ELSE 0)
  BY DEF replace_bitfield
<1>9. k \in peer_has[p] => saturating_dec(availability[k]) = availability[k] - 1
  BY <1>2, <1>3, <1>7 DEF saturating_dec
<1>. HIDE DEF A
<1>10. CASE k \in new /\ k \in peer_has[p]  BY <1>2, <1>3, <1>4, <1>5, <1>8, <1>9, <1>10
<1>11. CASE k \in new /\ k \notin peer_has[p]  BY <1>2, <1>3, <1>4, <1>5, <1>8, <1>11
<1>12. CASE k \notin new /\ k \in peer_has[p]  BY <1>2, <1>3, <1>4, <1>6, <1>8, <1>9, <1>12
<1>13. CASE k \notin new /\ k \notin peer_has[p]  BY <1>2, <1>3, <1>4, <1>6, <1>8, <1>13
<1>. QED  BY <1>10, <1>11, <1>12, <1>13

\* A `have` counts once, and only for a piece of the torrent.
LEMMA HaveExact ==
    ASSUME TypeOK, AvailabilityExact, NEW p \in Peers, NEW i, RecvHave(p, i)
    PROVE  AvailabilityExact'
<1>. USE DEF TypeOK, SessionTypeOK, TrackerTypeOK, AvailabilityExact, Advertisers, trackerVars
<1>1. CASE i \in peer_has[p]
  <2>1. peer_has' = peer_has  BY <1>1 DEF RecvHave
  <2>. QED  BY <1>1, <2>1 DEF RecvHave
<1>2. CASE i \notin Pieces
  <2>1. peer_has' = peer_has  BY <1>2 DEF RecvHave
  <2>2. availability' = availability  BY <1>2 DEF RecvHave, add_availability
  <2>. QED  BY <2>1, <2>2
<1>3. CASE i \in Pieces /\ i \notin peer_has[p]
  <2>1. peer_has' = [peer_has EXCEPT ![p] = @ \cup {i}]  BY <1>3 DEF RecvHave
  <2>2. availability' = [availability EXCEPT ![i] = @ + 1]
    BY <1>3 DEF RecvHave, add_availability
  <2>3. ASSUME NEW k \in Pieces, k # i PROVE Advertisers(k)' = Advertisers(k)
    BY <2>1, <2>3
  <2>4. Advertisers(i)' = Advertisers(i) \cup {p} /\ p \notin Advertisers(i)
    BY <1>3, <2>1
  <2>5. IsFiniteSet(Advertisers(i))  BY ConstantsAssumption, FS_Subset
  <2>6. Cardinality(Advertisers(i)') = Cardinality(Advertisers(i)) + 1
    <3>. HIDE DEF Advertisers
    <3>. QED  BY <2>4, <2>5, FS_AddElement
  <2>. HIDE DEF Advertisers
  <2>. QED  BY <2>2, <2>3, <2>6
<1>. QED  BY <1>1, <1>2, <1>3

\* Only the three steps that change a bitfield touch the counts.
LEMMA AvailabilityStep ==
    ASSUME TypeOK, AvailabilityExact, [Next]_vars
    PROVE  AvailabilityExact'
<1>. USE DEF AvailabilityExact, Advertisers, trackerVars, engineVars
<1>1. ASSUME NEW v \in ControlCalls, ControlCall(v) PROVE AvailabilityExact'
  BY <1>1 DEF ControlCall
<1>2. ASSUME NEW p \in Peers, Spawn(p) PROVE AvailabilityExact'
  BY <1>2 DEF Spawn
<1>3. ASSUME NEW p \in Peers, Connect(p) PROVE AvailabilityExact'
  BY <1>3 DEF Connect
<1>4. ASSUME NEW p \in Peers, ConnectFails(p) PROVE AvailabilityExact'
  BY <1>4 DEF ConnectFails
<1>5. ASSUME NEW p \in Peers, ObserveControl(p) PROVE AvailabilityExact'
  BY <1>5 DEF ObserveControl
<1>6. ASSUME NEW p \in Peers, CancelSession(p) PROVE AvailabilityExact'
  BY <1>6 DEF CancelSession, ReleaseCurrent, release_piece
<1>7. ASSUME NEW p \in Peers, PauseSession(p) PROVE AvailabilityExact'
  BY <1>7 DEF PauseSession, ReleaseCurrent, release_piece
<1>8. ASSUME NEW p \in Peers, WakePaused(p) PROVE AvailabilityExact'
  BY <1>8 DEF WakePaused
<1>9. ASSUME NEW p \in Peers, ReserveExclusive(p) PROVE AvailabilityExact'
  BY <1>9 DEF ReserveExclusive, claim
<1>10. ASSUME NEW p \in Peers, ReserveFindsComplete(p) PROVE AvailabilityExact'
  BY <1>10 DEF ReserveFindsComplete
<1>11. ASSUME NEW p \in Peers, ReserveEndgame(p) PROVE AvailabilityExact'
  BY <1>11 DEF ReserveEndgame
<1>12. ASSUME NEW p \in Peers, Fill(p) PROVE AvailabilityExact'
  BY <1>12 DEF Fill
<1>13. ASSUME NEW p \in Peers, FillFails(p) PROVE AvailabilityExact'
  BY <1>13 DEF FillFails
<1>14. ASSUME NEW p \in Peers, SendPiece(p) PROVE AvailabilityExact'
  BY <1>14 DEF SendPiece, AfterSend
<1>15. ASSUME NEW p \in Peers, SendFails(p) PROVE AvailabilityExact'
  BY <1>15 DEF SendFails, AfterSend
<1>16. ASSUME NEW p \in Peers, BroadcastDone(p) PROVE AvailabilityExact'
  BY <1>16 DEF BroadcastDone
<1>17. ASSUME NEW p \in Peers, Cleanup(p) PROVE AvailabilityExact'
  <2>1. replace_bitfield(peer_has[p], {}) /\ peer_has' = [peer_has EXCEPT ![p] = {}]
    BY <1>17 DEF Cleanup
  <2>2. {} \in SUBSET Pieces  OBVIOUS
  <2>. QED  BY <2>1, <2>2, ReplaceExact
<1>18. ASSUME NEW p \in Peers, SelectControl(p) PROVE AvailabilityExact'
  BY <1>18 DEF SelectControl
<1>19. ASSUME NEW p \in Peers, SelectDone(p) PROVE AvailabilityExact'
  BY <1>19 DEF SelectDone
<1>20. ASSUME NEW p \in Peers, SelectTimeout(p) PROVE AvailabilityExact'
  BY <1>20 DEF SelectTimeout, ReleaseCurrent, release_piece
<1>21. ASSUME NEW p \in Peers, RecvIgnored(p) PROVE AvailabilityExact'
  BY <1>21 DEF RecvIgnored
<1>22. ASSUME NEW p \in Peers, PeerCloses(p) PROVE AvailabilityExact'
  BY <1>22 DEF PeerCloses, ReleaseCurrent, release_piece
<1>23. ASSUME NEW p \in Peers, SessionFails(p) PROVE AvailabilityExact'
  BY <1>23 DEF SessionFails
<1>24. ASSUME NEW p \in Peers, RecvChoke(p) PROVE AvailabilityExact'
  BY <1>24 DEF RecvChoke, ReleaseCurrent, release_piece
<1>25. ASSUME NEW p \in Peers, RecvUnchoke(p) PROVE AvailabilityExact'
  BY <1>25 DEF RecvUnchoke
<1>26. ASSUME NEW p \in Peers, NEW i \in HaveIndices, RecvHave(p, i)
       PROVE AvailabilityExact'
  BY <1>26, HaveExact
<1>27. ASSUME NEW p \in Peers, NEW new_has \in Bitfields, RecvBitfield(p, new_has)
       PROVE AvailabilityExact'
  BY <1>27, ReplaceExact, ConstantsAssumption DEF RecvBitfield
<1>28. ASSUME NEW p \in Peers, NEW b, NEW e, NEW right, BlockStored(p, b, e, right)
       PROVE AvailabilityExact'
  BY <1>28 DEF BlockStored
<1>29. ASSUME NEW p \in Peers, NEW b, NEW e, NEW right, PieceAlreadyHave(p, b, e)
       PROVE AvailabilityExact'
  BY <1>29 DEF PieceAlreadyHave, TakeWhole
<1>30. ASSUME NEW p \in Peers, NEW b, NEW e, NEW right, PieceVerified(p, b, e, right)
       PROVE AvailabilityExact'
  BY <1>30 DEF PieceVerified, TakeWhole, mark_have
<1>31. ASSUME NEW p \in Peers, NEW b, NEW e, NEW right, PieceRejected(p, b, e, right)
       PROVE AvailabilityExact'
  BY <1>31 DEF PieceRejected, TakeWhole, release_piece
<1>32. ASSUME NEW p \in Peers, BlockPanics(p) PROVE AvailabilityExact'
  BY <1>32 DEF BlockPanics
<1>33. ASSUME WritePiece PROVE AvailabilityExact'
  BY <1>33 DEF WritePiece
<1>34. ASSUME WriterFails PROVE AvailabilityExact'
  BY <1>34 DEF WriterFails
<1>35. ASSUME WriterFinishes PROVE AvailabilityExact'
  BY <1>35 DEF WriterFinishes
<1>36. ASSUME Report PROVE AvailabilityExact'
  BY <1>36 DEF Report
<1>37. CASE UNCHANGED vars
  BY <1>37 DEF vars
<1>. QED
  BY <1>1, <1>2, <1>3, <1>4, <1>5, <1>6, <1>7, <1>8, <1>9, <1>10, <1>11, <1>12, <1>13,
     <1>14, <1>15, <1>16, <1>17, <1>18, <1>19, <1>20, <1>21, <1>22, <1>23, <1>24, <1>25,
     <1>26, <1>27, <1>28, <1>29, <1>30, <1>31, <1>32, <1>33, <1>34, <1>35, <1>36, <1>37
     DEF Next, TaskStep, SelectStep, SocketFails, PeerStep, BlockArrives, WriterStep,
        Terminated

-----------------------------------------------------------------------------
(***************************************************************************)
(* The inductive invariant and the theorems.                               *)
(***************************************************************************)
\* Claims need the other parts: a claim is dropped without release_piece only
\* when `done` is known to mean complete and complete to mean unclaimed.
SafetyInv ==
    /\ TypeOK
    /\ SenderHoldsPiece
    /\ HaveNotClaimed
    /\ ReservesEmptyHanded
    /\ NoIdleWhileNeeded
    /\ DoneMeansComplete
    /\ ClaimHasHolder
    /\ AvailabilityExact

\* The invariant holds when the coordinator has been built.
LEMMA SafetyInit == Init => SafetyInv
<1>. SUFFICES ASSUME Init PROVE SafetyInv
  OBVIOUS
<1>1. TypeOK /\ SenderHoldsPiece  BY TypeInit
<1>2. HaveNotClaimed /\ ReservesEmptyHanded /\ NoIdleWhileNeeded /\ ClaimHasHolder
  BY DEF Init, TrackerInit, HaveNotClaimed, ReservesEmptyHanded, NoIdleWhileNeeded,
     ClaimHasHolder
<1>3. DoneMeansComplete  BY DEF Init, DoneMeansComplete
<1>4. AvailabilityExact
  <2>1. \A i \in Pieces : Advertisers(i) = {}  BY DEF Init, Advertisers
  <2>. QED  BY <2>1, FS_EmptySet DEF Init, TrackerInit, AvailabilityExact
<1>. QED  BY <1>1, <1>2, <1>3, <1>4 DEF SafetyInv

\* The invariant is inductive.
LEMMA SafetyStep == SafetyInv /\ [Next]_vars => SafetyInv'
  BY TypeStep, SenderStep, HaveNotClaimedStep, ReservesStep, NoIdleStep, DoneStep,
     ClaimHolderStep, AvailabilityStep
     DEF SafetyInv

\* All parts together, for the refinement proof as well.
THEOREM Safety == Spec => []SafetyInv
  BY SafetyInit, SafetyStep, PTL DEF Spec

\* A verified piece is never claimed, for any number of peers and pieces.
THEOREM VerifiedNeverClaimed == Spec => []HaveNotClaimed
<1>1. SafetyInv => HaveNotClaimed  BY DEF SafetyInv
<1>. QED  BY <1>1, Safety, PTL

\* No session ever waits empty-handed on an unchoking peer that has a piece we
\* need: with the request timer and endgame this is what keeps a download from
\* stopping short of its last pieces.
THEOREM NeverIdleWhileNeeded == Spec => []NoIdleWhileNeeded
<1>1. SafetyInv => NoIdleWhileNeeded  BY DEF SafetyInv
<1>. QED  BY <1>1, Safety, PTL

\* Every claim belongs to a session that took the piece up.
THEOREM ClaimsHaveHolders == Spec => []ClaimHasHolder
<1>1. SafetyInv => ClaimHasHolder  BY DEF SafetyInv
<1>. QED  BY <1>1, Safety, PTL

\* `done` is never announced early.
THEOREM DoneIsTrue == Spec => []DoneMeansComplete
<1>1. SafetyInv => DoneMeansComplete  BY DEF SafetyInv
<1>. QED  BY <1>1, Safety, PTL

\* Availability is exact, so the saturating subtraction never saturates.
THEOREM AvailabilityCounts == Spec => []AvailabilityExact
<1>1. SafetyInv => AvailabilityExact  BY DEF SafetyInv
<1>. QED  BY <1>1, Safety, PTL
=============================================================================
