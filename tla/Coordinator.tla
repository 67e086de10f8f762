----------------------------- MODULE Coordinator -----------------------------
(***************************************************************************)
(* The download manager of src/src/download/mod.rs: run() spawns one task  *)
(* per peer; every task runs run_session over one connection and shares    *)
(* the PieceTracker, a watch channel for pause/resume/cancel, a watch      *)
(* channel that announces completion, and the bounded mpsc channel whose   *)
(* other end is the disk writer of src/src/main.rs.                        *)
(*                                                                         *)
(* Atomicity.  A step is one lock section of the tracker, one access to a  *)
(* watch or mpsc channel, or a stretch of task-local code ending in an     *)
(* await.  Receiving a message is merged with the lock section it leads    *)
(* to, since nothing shared is read in between; reading the control state  *)
(* and acting on it under the lock are two steps.                          *)
(*                                                                         *)
(* A peer is an arbitrary environment: any message, in any order, repeated *)
(* or never sent, with right or wrong content.                             *)
(***************************************************************************)
EXTENDS PieceTracker, Sequences

CONSTANTS
    Peers,          \* the peer addresses passed to run
    NumBlocks,      \* NumBlocks[i]: Geometry::num_blocks(i)
    Aligned,        \* pieces whose length is a multiple of BLOCK_SIZE
    MaxPipelined,   \* MAX_PIPELINED_REQUESTS
    Capacity,       \* capacity of the channel of verified pieces
    Bitfields,      \* the well-formed bitfields a peer may send
    HaveIndices,    \* the indices a peer may announce with `have`
    ControlCalls    \* the states the user may ask for

ControlState == {"Running", "Paused", "Cancelled"}

ASSUME ConstantsAssumption ==
    /\ IsFiniteSet(Peers)
    /\ NumBlocks \in [Pieces -> Nat \ {0}]
    /\ Aligned \subseteq Pieces
    /\ MaxPipelined \in Nat \ {0}
    /\ Capacity \in Nat \ {0}
    /\ Bitfields \subseteq SUBSET Pieces
    /\ HaveIndices \subseteq Nat
    /\ ControlCalls \subseteq ControlState

Blocks(i) == 0 .. NumBlocks[i] - 1
AnyBlock == UNION {Blocks(i) : i \in Pieces}

VARIABLES
    control,        \* value of the control watch channel
    ctlNew,         \* sessions whose receiver has not seen its last version
    lastCall,       \* history: what the user asked for last
    doneNew,        \* sessions whose `done` receiver has an unseen version
    pc,             \* where each session stands
    peer_has,       \* locals of run_session ...
    choked,         \* ... the set of sessions whose peer chokes us
    current,        \* ... index of the piece being assembled, or NoPiece
    received,       \* ... its blocks flagged as received
    good,           \* ... its blocks whose bytes are the torrent's
    next_block,
    in_flight,
    requested,      \* the wire: blocks of `current` requested from the peer
    outgoing,       \* the piece a session is sending on `completed`
    channel,        \* the channel of verified pieces
    written,        \* pieces the writer has written
    writer,         \* "writing", "failed" or "finished"
    outcome         \* what main reports once run has returned

watchVars == <<control, ctlNew, lastCall, doneNew>>
asmVars == <<current, received, good, next_block, in_flight, requested>>
sinkVars == <<channel, written, writer, outcome>>
vars == <<trackerVars, watchVars, pc, peer_has, choked, asmVars, outgoing, sinkVars>>

Stopped == {"exited", "panicked"}
Location == Stopped \cup
    {"unspawned", "connecting", "top", "cancelling", "pausing", "paused", "reserve",
     "fill", "select", "sending", "sendingLast", "announce", "cleanup"}

WatchTypeOK ==
    /\ control \in ControlState
    /\ lastCall \in ControlState
    /\ ctlNew \in SUBSET Peers
    /\ doneNew \in SUBSET Peers

SessionTypeOK ==
    /\ pc \in [Peers -> Location]
    /\ peer_has \in [Peers -> SUBSET Pieces]
    /\ choked \in SUBSET Peers

AssemblerTypeOK ==
    /\ current \in [Peers -> Pieces \cup {NoPiece}]
    /\ received \in [Peers -> SUBSET Nat]
    /\ good \in [Peers -> SUBSET Nat]
    /\ next_block \in [Peers -> Nat]
    /\ in_flight \in [Peers -> 0 .. MaxPipelined]
    /\ requested \in [Peers -> SUBSET Nat]

SinkTypeOK ==
    /\ outgoing \in [Peers -> Pieces \cup {NoPiece}]
    /\ channel \in Seq(Pieces)
    /\ Len(channel) <= Capacity
    /\ written \in SUBSET Pieces
    /\ writer \in {"writing", "failed", "finished"}
    /\ outcome \in {"pending", "complete", "stalled", "writer_error"}

\* Every variable has its type; the request counter never exceeds
\* MAX_PIPELINED_REQUESTS and the channel never exceeds its capacity.
TypeOK ==
    /\ TrackerTypeOK
    /\ WatchTypeOK
    /\ SessionTypeOK
    /\ AssemblerTypeOK
    /\ SinkTypeOK

\* A session holds a verified piece exactly while it is in completed.send.
SenderHoldsPiece ==
    \A p \in Peers : outgoing[p] # NoPiece <=> pc[p] \in {"sending", "sendingLast"}

\* Coordinator::new, and the locals of run_session as it declares them.
Init ==
    /\ TrackerInit
    /\ control = "Running"
    /\ ctlNew = {}
    /\ lastCall = "Running"
    /\ doneNew = {}
    /\ pc = [p \in Peers |-> "unspawned"]
    /\ peer_has = [p \in Peers |-> {}]
    /\ choked = Peers
    /\ current = [p \in Peers |-> NoPiece]
    /\ received = [p \in Peers |-> {}]
    /\ good = [p \in Peers |-> {}]
    /\ next_block = [p \in Peers |-> 0]
    /\ in_flight = [p \in Peers |-> 0]
    /\ requested = [p \in Peers |-> {}]
    /\ outgoing = [p \in Peers |-> NoPiece]
    /\ channel = <<>>
    /\ written = {}
    /\ writer = "writing"
    /\ outcome = "pending"
-----------------------------------------------------------------------------
(***************************************************************************)
(* Helpers.                                                                *)
(***************************************************************************)
Goto(p, l) == pc' = [pc EXCEPT ![p] = l]

\* Tasks that hold watch receivers: from subscribe() in run to their end.
Receivers == {p \in Peers : pc[p] \notin Stopped \cup {"unspawned"}}

AllStopped == \A p \in Peers : pc[p] \in Stopped

\* A new PieceAssembler for piece i, and the counters reset with it.
Assemble(p, i) ==
    /\ current' = [current EXCEPT ![p] = i]
    /\ received' = [received EXCEPT ![p] = {}]
    /\ good' = [good EXCEPT ![p] = {}]
    /\ next_block' = [next_block EXCEPT ![p] = 0]
    /\ in_flight' = [in_flight EXCEPT ![p] = 0]
    /\ requested' = [requested EXCEPT ![p] = {}]

\* current.take(), the assembler dropped, both counters zeroed.
TakeCurrent(p) == Assemble(p, NoPiece)

\* `if let Some(asm) = current.take() { release_piece(asm.index()) }`
ReleaseCurrent(p) ==
    IF current[p] = NoPiece
    THEN UNCHANGED <<trackerVars, asmVars>>
    ELSE release_piece(current[p]) /\ TakeCurrent(p)
-----------------------------------------------------------------------------
(***************************************************************************)
(* The user: pause, resume and cancel.  watch::Sender::send fails, and     *)
(* leaves the value alone, when no receiver exists.                        *)
(***************************************************************************)
ControlCall(v) ==
    /\ lastCall' = v
    /\ IF Receivers = {}
       THEN UNCHANGED <<control, ctlNew>>
       ELSE control' = v /\ ctlNew' = ctlNew \cup Receivers
    /\ UNCHANGED <<trackerVars, doneNew, pc, peer_has, choked, asmVars, outgoing, sinkVars>>
-----------------------------------------------------------------------------
(***************************************************************************)
(* Starting a task: subscribe and spawn, connect and handshake, and the    *)
(* first `Interested`.                                                     *)
(***************************************************************************)
Spawn(p) ==
    /\ pc[p] = "unspawned"
    /\ Goto(p, "connecting")
    /\ UNCHANGED <<trackerVars, watchVars, peer_has, choked, asmVars, outgoing, sinkVars>>

Connect(p) ==
    /\ pc[p] = "connecting"
    /\ Goto(p, "top")
    /\ UNCHANGED <<trackerVars, watchVars, peer_has, choked, asmVars, outgoing, sinkVars>>

\* Dropping the receivers leaves nothing unseen.
ConnectFails(p) ==
    /\ pc[p] = "connecting"
    /\ Goto(p, "exited")
    /\ ctlNew' = ctlNew \ {p}
    /\ doneNew' = doneNew \ {p}
    /\ UNCHANGED <<trackerVars, control, lastCall, peer_has, choked, asmVars, outgoing, sinkVars>>
-----------------------------------------------------------------------------
(***************************************************************************)
(* The top of the session loop: borrow_and_update, then the match on the   *)
(* state that was read.                                                    *)
(***************************************************************************)
ObserveControl(p) ==
    /\ pc[p] = "top"
    /\ ctlNew' = ctlNew \ {p}
    /\ Goto(p, CASE control = "Cancelled" /\ current[p] # NoPiece -> "cancelling"
                 [] control = "Cancelled" /\ current[p] = NoPiece -> "cleanup"
                 [] control = "Paused" /\ current[p] # NoPiece -> "pausing"
                 [] control = "Paused" /\ current[p] = NoPiece -> "paused"
                 [] control = "Running" /\ current[p] = NoPiece /\ p \notin choked -> "reserve"
                 [] OTHER -> "fill")
    /\ UNCHANGED <<trackerVars, control, lastCall, doneNew, peer_has, choked, asmVars,
                   outgoing, sinkVars>>

CancelSession(p) ==
    /\ pc[p] = "cancelling"
    /\ ReleaseCurrent(p)
    /\ Goto(p, "cleanup")
    /\ UNCHANGED <<watchVars, peer_has, choked, outgoing, sinkVars>>

PauseSession(p) ==
    /\ pc[p] = "pausing"
    /\ ReleaseCurrent(p)
    /\ Goto(p, "paused")
    /\ UNCHANGED <<watchVars, peer_has, choked, outgoing, sinkVars>>

WakePaused_resume_only(p) ==
    /\ pc[p] = "paused"
    /\ p \in ctlNew
    /\ control = "Running"
    /\ ctlNew' = ctlNew \ {p}
    /\ Goto(p, "top")
    /\ UNCHANGED <<trackerVars, control, lastCall, doneNew, peer_has, choked, asmVars,
                   outgoing, sinkVars>>
\* `control.changed().await`: the only thing a paused session waits for.
WakePaused(p) ==
    /\ pc[p] = "paused"
    /\ p \in ctlNew
    /\ ctlNew' = ctlNew \ {p}
    /\ Goto(p, "top")
    /\ UNCHANGED <<trackerVars, control, lastCall, doneNew, peer_has, choked, asmVars,
                   outgoing, sinkVars>>
-----------------------------------------------------------------------------
(***************************************************************************)
(* Claiming a piece, under the tracker's lock.                             *)
(***************************************************************************)
ReserveExclusive(p) ==
    /\ pc[p] = "reserve"
    /\ reserve_piece(peer_has[p]) # NoPiece
    /\ claim(reserve_piece(peer_has[p]))
    /\ Assemble(p, reserve_piece(peer_has[p]))
    /\ Goto(p, "fill")
    /\ UNCHANGED <<watchVars, peer_has, choked, outgoing, sinkVars>>

ReserveFindsComplete(p) ==
    /\ pc[p] = "reserve"
    /\ reserve_piece(peer_has[p]) = NoPiece
    /\ is_complete
    /\ Goto(p, "announce")
    /\ UNCHANGED <<trackerVars, watchVars, peer_has, choked, asmVars, outgoing, sinkVars>>

ReserveEndgame(p) ==
    /\ pc[p] = "reserve"
    /\ reserve_piece(peer_has[p]) = NoPiece
    /\ ~ is_complete
    /\ IF reserve_piece_endgame(peer_has[p]) = NoPiece
       THEN UNCHANGED asmVars
       ELSE Assemble(p, reserve_piece_endgame(peer_has[p]))
    /\ Goto(p, "fill")
    /\ UNCHANGED <<trackerVars, watchVars, peer_has, choked, outgoing, sinkVars>>
-----------------------------------------------------------------------------
(***************************************************************************)
(* Refilling the request pipeline.                                         *)
(***************************************************************************)
\* How many requests the while loop sends.
refill(p) ==
    IF current[p] = NoPiece \/ p \in choked \/ next_block[p] >= NumBlocks[current[p]]
    THEN 0
    ELSE LET room == MaxPipelined - in_flight[p]
             left == NumBlocks[current[p]] - next_block[p]
         IN  IF room <= left THEN room ELSE left

Fill(p) ==
    /\ pc[p] = "fill"
    /\ next_block' = [next_block EXCEPT ![p] = @ + refill(p)]
    /\ in_flight' = [in_flight EXCEPT ![p] = @ + refill(p)]
    /\ requested' = [requested EXCEPT ![p] =
            @ \cup (next_block[p] .. next_block[p] + refill(p) - 1)]
    /\ Goto(p, "select")
    /\ UNCHANGED <<trackerVars, watchVars, peer_has, choked, current, received, good,
                   outgoing, sinkVars>>

\* conn.send(Request)? fails: the `?` leaves the loop with `current` unreleased.
FillFails(p) ==
    /\ pc[p] = "fill"
    /\ refill(p) > 0
    /\ Goto(p, "cleanup")
    /\ UNCHANGED <<trackerVars, watchVars, peer_has, choked, asmVars, outgoing, sinkVars>>
-----------------------------------------------------------------------------
(***************************************************************************)
(* The select! of the session loop: control, done, timer.                  *)
(***************************************************************************)
SelectControl(p) ==
    /\ pc[p] = "select"
    /\ p \in ctlNew
    /\ ctlNew' = ctlNew \ {p}
    /\ Goto(p, "top")
    /\ UNCHANGED <<trackerVars, control, lastCall, doneNew, peer_has, choked, asmVars,
                   outgoing, sinkVars>>

\* `break` without releasing: the assembler just goes out of scope.
SelectDone(p) ==
    /\ pc[p] = "select"
    /\ p \in doneNew
    /\ TakeCurrent(p)
    /\ Goto(p, "cleanup")
    /\ UNCHANGED <<trackerVars, watchVars, peer_has, choked, outgoing, sinkVars>>

SelectTimeout(p) ==
    /\ pc[p] = "select"
    /\ current[p] # NoPiece
    /\ in_flight[p] > 0
    /\ ReleaseCurrent(p)
    /\ Goto(p, "top")
    /\ UNCHANGED <<watchVars, peer_has, choked, outgoing, sinkVars>>
-----------------------------------------------------------------------------
(***************************************************************************)
(* The messages of the peer.                                               *)
(***************************************************************************)
\* Interest, requests, keep-alives, and blocks of any piece but the current one.
RecvIgnored(p) ==
    /\ pc[p] = "select"
    /\ Goto(p, "top")
    /\ UNCHANGED <<trackerVars, watchVars, peer_has, choked, asmVars, outgoing, sinkVars>>

PeerCloses(p) ==
    /\ pc[p] = "select"
    /\ ReleaseCurrent(p)
    /\ Goto(p, "cleanup")
    /\ UNCHANGED <<watchVars, peer_has, choked, outgoing, sinkVars>>

\* `recv_result?`, `Bitfield::from_bytes(..)?` and `add_block(..)?` inside
\* handle_block all leave the loop at once; `current` is not released.
SessionFails(p) ==
    /\ pc[p] = "select"
    /\ Goto(p, "cleanup")
    /\ UNCHANGED <<trackerVars, watchVars, peer_has, choked, asmVars, outgoing, sinkVars>>

RecvChoke(p) ==
    /\ pc[p] = "select"
    /\ choked' = choked \cup {p}
    /\ ReleaseCurrent(p)
    /\ Goto(p, "top")
    /\ UNCHANGED <<watchVars, peer_has, outgoing, sinkVars>>

RecvUnchoke(p) ==
    /\ pc[p] = "select"
    /\ choked' = choked \ {p}
    /\ Goto(p, "top")
    /\ UNCHANGED <<trackerVars, watchVars, peer_has, asmVars, outgoing, sinkVars>>

RecvHave(p, i) ==
    /\ pc[p] = "select"
    /\ peer_has' = [peer_has EXCEPT ![p] = @ \cup ({i} \cap Pieces)]
    /\ IF i \in peer_has[p] THEN UNCHANGED trackerVars ELSE add_availability(i)
    /\ Goto(p, "top")
    /\ UNCHANGED <<watchVars, choked, asmVars, outgoing, sinkVars>>

RecvBitfield(p, new_has) ==
    /\ pc[p] = "select"
    /\ replace_bitfield(peer_has[p], new_has)
    /\ peer_has' = [peer_has EXCEPT ![p] = new_has]
    /\ Goto(p, "top")
    /\ UNCHANGED <<watchVars, choked, asmVars, outgoing, sinkVars>>
-----------------------------------------------------------------------------
(***************************************************************************)
(* Blocks of the current piece: handle_block and add_block.  The data of a *)
(* block at b may run over the following blocks up to e; only b is flagged *)
(* as received.  An answer shorter than its block leaves the rest of the   *)
(* buffer as it was, so it has the effect of a right or of a wrong block.  *)
(***************************************************************************)
BlockFor(p, b, e) ==
    /\ pc[p] = "select"
    /\ current[p] # NoPiece
    /\ b \in Blocks(current[p])
    /\ e \in b .. NumBlocks[current[p]] - 1

ReceivedWith(p, b) == received[p] \cup {b}
GoodWith(p, b, e, right) == IF right THEN good[p] \cup (b .. e) ELSE good[p] \ (b .. e)

BlockStored_keeps_in_flight(p, b, e, right) ==
    /\ BlockFor(p, b, e)
    /\ ReceivedWith(p, b) # Blocks(current[p])
    /\ received' = [received EXCEPT ![p] = ReceivedWith(p, b)]
    /\ good' = [good EXCEPT ![p] = GoodWith(p, b, e, right)]
    /\ Goto(p, "top")
    /\ UNCHANGED <<trackerVars, watchVars, peer_has, choked, current, next_block, in_flight,
                   requested, outgoing, sinkVars>>
BlockStored(p, b, e, right) ==
    /\ BlockFor(p, b, e)
    /\ ReceivedWith(p, b) # Blocks(current[p])
    /\ received' = [received EXCEPT ![p] = ReceivedWith(p, b)]
    /\ good' = [good EXCEPT ![p] = GoodWith(p, b, e, right)]
    /\ in_flight' = [in_flight EXCEPT ![p] = saturating_dec(@)]
    /\ Goto(p, "top")
    /\ UNCHANGED <<trackerVars, watchVars, peer_has, choked, current, next_block, requested,
                   outgoing, sinkVars>>

\* The last missing block: the assembler is taken, the counters are not reset.
TakeWhole(p, b, e) ==
    /\ BlockFor(p, b, e)
    /\ ReceivedWith(p, b) = Blocks(current[p])
    /\ current' = [current EXCEPT ![p] = NoPiece]
    /\ received' = [received EXCEPT ![p] = {}]
    /\ good' = [good EXCEPT ![p] = {}]
    /\ in_flight' = [in_flight EXCEPT ![p] = saturating_dec(@)]
    /\ requested' = [requested EXCEPT ![p] = {}]
    /\ UNCHANGED <<next_block, watchVars, peer_has, choked, sinkVars>>

PieceAlreadyHave(p, b, e) ==
    /\ TakeWhole(p, b, e)
    /\ current[p] \in have
    /\ Goto(p, IF is_complete THEN "announce" ELSE "top")
    /\ UNCHANGED <<trackerVars, outgoing>>

PieceVerified_again(p, b, e, right) ==
    /\ TakeWhole(p, b, e)
    /\ GoodWith(p, b, e, right) = Blocks(current[p])
    /\ mark_have(current[p])
    /\ outgoing' = [outgoing EXCEPT ![p] = current[p]]
    /\ Goto(p, IF have \cup {current[p]} = Pieces THEN "sendingLast" ELSE "sending")
PieceVerified(p, b, e, right) ==
    /\ TakeWhole(p, b, e)
    /\ current[p] \notin have
    /\ GoodWith(p, b, e, right) = Blocks(current[p])
    /\ mark_have(current[p])
    /\ outgoing' = [outgoing EXCEPT ![p] = current[p]]
    /\ Goto(p, IF have \cup {current[p]} = Pieces THEN "sendingLast" ELSE "sending")

PieceRejected(p, b, e, right) ==
    /\ TakeWhole(p, b, e)
    /\ current[p] \notin have
    /\ GoodWith(p, b, e, right) # Blocks(current[p])
    /\ release_piece(current[p])
    /\ Goto(p, "top")
    /\ UNCHANGED outgoing

\* An empty block at begin = length of a piece that is a whole number of blocks
\* passes both checks of add_block and indexes received[] past its end: the
\* task panics, and nothing after the loop runs.
BlockPanics(p) ==
    /\ pc[p] = "select"
    /\ current[p] \in Aligned
    /\ Goto(p, "panicked")
    /\ ctlNew' = ctlNew \ {p}
    /\ doneNew' = doneNew \ {p}
    /\ UNCHANGED <<trackerVars, control, lastCall, peer_has, choked, asmVars, outgoing, sinkVars>>
-----------------------------------------------------------------------------
(***************************************************************************)
(* completed.send(..).await: blocks while the channel is full, and its     *)
(* error is ignored once the writer has dropped the receiver.              *)
(***************************************************************************)
AfterSend_always_done(p) ==
    /\ outgoing' = [outgoing EXCEPT ![p] = NoPiece]
    /\ Goto(p, "announce")
    /\ UNCHANGED <<trackerVars, watchVars, peer_has, choked, asmVars, written, writer, outcome>>
AfterSend(p) ==
    /\ outgoing' = [outgoing EXCEPT ![p] = NoPiece]
    /\ Goto(p, IF pc[p] = "sendingLast" THEN "announce" ELSE "top")
    /\ UNCHANGED <<trackerVars, watchVars, peer_has, choked, asmVars, written, writer, outcome>>

SendPiece_overfull(p) ==
    /\ pc[p] \in {"sending", "sendingLast"}
    /\ writer = "writing"
    /\ channel' = Append(channel, outgoing[p])
    /\ AfterSend(p)
SendPiece(p) ==
    /\ pc[p] \in {"sending", "sendingLast"}
    /\ writer = "writing"
    /\ Len(channel) < Capacity
    /\ channel' = Append(channel, outgoing[p])
    /\ AfterSend(p)

SendFails(p) ==
    /\ pc[p] \in {"sending", "sendingLast"}
    /\ writer = "failed"
    /\ UNCHANGED channel
    /\ AfterSend(p)

BroadcastDone_alone(p) ==
    /\ pc[p] = "announce"
    /\ Goto(p, "cleanup")
    /\ UNCHANGED <<trackerVars, watchVars, peer_has, choked, asmVars, outgoing, sinkVars>>
\* done_tx.send(true)
BroadcastDone(p) ==
    /\ pc[p] = "announce"
    /\ doneNew' = doneNew \cup Receivers
    /\ Goto(p, "cleanup")
    /\ UNCHANGED <<trackerVars, control, ctlNew, lastCall, peer_has, choked, asmVars,
                   outgoing, sinkVars>>

\* The epilogue of run_session.  The locals go out of scope; `current` keeps
\* the index of a piece the session held when an error made it leave.
Cleanup(p) ==
    /\ pc[p] = "cleanup"
    /\ replace_bitfield(peer_has[p], {})
    /\ peer_has' = [peer_has EXCEPT ![p] = {}]
    /\ choked' = choked \cup {p}
    /\ received' = [received EXCEPT ![p] = {}]
    /\ good' = [good EXCEPT ![p] = {}]
    /\ next_block' = [next_block EXCEPT ![p] = 0]
    /\ in_flight' = [in_flight EXCEPT ![p] = 0]
    /\ requested' = [requested EXCEPT ![p] = {}]
    /\ ctlNew' = ctlNew \ {p}
    /\ doneNew' = doneNew \ {p}
    /\ Goto(p, "exited")
    /\ UNCHANGED <<control, lastCall, current, outgoing, sinkVars>>
-----------------------------------------------------------------------------
(***************************************************************************)
(* The disk writer (consume_to_disk) and the end of main.                  *)
(***************************************************************************)
engineVars == <<trackerVars, watchVars, pc, peer_has, choked, asmVars, outgoing>>

WritePiece ==
    /\ writer = "writing"
    /\ channel # <<>>
    /\ written' = written \cup {Head(channel)}
    /\ channel' = Tail(channel)
    /\ UNCHANGED <<engineVars, writer, outcome>>

\* write_piece or finish returns an error: the receiver is dropped with
\* whatever it still held.
WriterFails ==
    /\ writer = "writing"
    /\ channel # <<>> \/ AllStopped
    /\ writer' = "failed"
    /\ channel' = <<>>
    /\ UNCHANGED <<engineVars, written, outcome>>

\* recv() returns None once every sender is gone and the channel is empty.
WriterFinishes ==
    /\ writer = "writing"
    /\ channel = <<>>
    /\ AllStopped
    /\ writer' = "finished"
    /\ UNCHANGED <<engineVars, channel, written, outcome>>

Report_ignores_writer ==
    /\ AllStopped
    /\ writer # "writing"
    /\ outcome = "pending"
    /\ outcome' = IF is_complete THEN "complete" ELSE "stalled"
    /\ UNCHANGED <<engineVars, channel, written, writer>>
\* run has returned and the writer has been joined.
Report ==
    /\ AllStopped
    /\ writer # "writing"
    /\ outcome = "pending"
    /\ outcome' = IF writer = "failed" THEN "writer_error"
                  ELSE IF is_complete THEN "complete" ELSE "stalled"
    /\ UNCHANGED <<engineVars, channel, written, writer>>

Terminated == outcome # "pending" /\ UNCHANGED vars
-----------------------------------------------------------------------------
\* Steps a task takes by itself, whatever its peer does.
TaskStep(p) ==
    \/ Spawn(p) \/ Connect(p)
    \/ ObserveControl(p) \/ CancelSession(p) \/ PauseSession(p) \/ WakePaused(p)
    \/ ReserveExclusive(p) \/ ReserveFindsComplete(p) \/ ReserveEndgame(p)
    \/ Fill(p)
    \/ SendPiece(p) \/ SendFails(p) \/ BroadcastDone(p) \/ Cleanup(p)

\* The two branches of select! that no message is needed for.
SelectStep(p) == SelectControl(p) \/ SelectDone(p)

SocketFails(p) == ConnectFails(p) \/ FillFails(p)

BlockArrives(p, b, e, right) ==
    \/ BlockStored(p, b, e, right)
    \/ PieceAlreadyHave(p, b, e)
    \/ PieceVerified(p, b, e, right)
    \/ PieceRejected(p, b, e, right)

\* Steps the peer or the clock decides.
PeerStep(p) ==
    \/ SelectTimeout(p)
    \/ RecvIgnored(p) \/ PeerCloses(p) \/ SessionFails(p)
    \/ RecvChoke(p) \/ RecvUnchoke(p)
    \/ \E i \in HaveIndices : RecvHave(p, i)
    \/ \E new_has \in Bitfields : RecvBitfield(p, new_has)
    \/ \E b, e \in AnyBlock : \E right \in BOOLEAN : BlockArrives(p, b, e, right)
    \/ BlockPanics(p)

WriterStep == WritePiece \/ WriterFails \/ WriterFinishes \/ Report

Next ==
    \/ \E v \in ControlCalls : ControlCall(v)
    \/ \E p \in Peers : TaskStep(p) \/ SelectStep(p) \/ SocketFails(p) \/ PeerStep(p)
    \/ WriterStep
    \/ Terminated

Spec == Init /\ [][Next]_vars

(***************************************************************************)
(* Fairness: the runtime polls every ready task, connect and the socket    *)
(* writes end (they succeed, fail or, for connect, time out after 10 s),   *)
(* the writer makes progress, and select! picks among its ready branches   *)
(* at random, so a branch that is ready again and again is taken.  Nothing *)
(* is assumed of peers.                                                    *)
(***************************************************************************)
Fairness ==
    /\ \A p \in Peers :
        /\ WF_vars(TaskStep(p) \/ SocketFails(p))
        /\ SF_vars(SelectControl(p))
        /\ SF_vars(SelectDone(p))
    /\ WF_vars(WriterStep)

FairSpec == Spec /\ Fairness
-----------------------------------------------------------------------------
(***************************************************************************)
(* Safety.                                                                 *)
(***************************************************************************)
\* A piece that is verified is not claimed, whatever order endgame duplicates,
\* time-outs and completions come in: otherwise is_complete could hold while
\* a claim survives, or a piece could be fetched again for ever.
HaveNotClaimed == have \cap claimed = {}

\* A session goes to wait in select! without a piece only if its peer chokes it
\* or has nothing we need: the engine never idles on a peer that could help.
NoIdleWhileNeeded ==
    \A p \in Peers :
        pc[p] \in {"fill", "select"} /\ p \notin choked /\ current[p] = NoPiece
            => peer_has[p] \subseteq have

\* availability[i] is exactly the number of sessions whose peer advertises i.
\* Hence saturating_sub never saturates, and a departed peer leaves no trace
\* (a session that panicked never subtracts its share and still counts).
Advertisers(i) == {p \in Peers : i \in peer_has[p]}
AvailabilityExact == \A i \in Pieces : availability[i] = Cardinality(Advertisers(i))

\* The comment where endgame begins says that "every remaining piece is already
\* claimed" by then: no piece that has a claim is taken up by a second session
\* while some other piece that is needed has none.
EndgameWhenAllClaimed ==
    [][\A p \in Peers :
        current[p] = NoPiece /\ current'[p] \in claimed => Pieces \ have \subseteq claimed]_vars

\* A claim always belongs to a session that took it up: the piece is, or was
\* when the session failed, the current piece of somebody.
ClaimHasHolder == \A i \in claimed : \E p \in Peers : current[p] = i

\* A session that is about to claim a piece has none.
ReservesEmptyHanded == \A p \in Peers : pc[p] = "reserve" => current[p] = NoPiece

\* Completion is announced only when every piece is verified.
DoneMeansComplete ==
    /\ doneNew # {} => is_complete
    /\ \A p \in Peers : pc[p] \in {"sendingLast", "announce"} => is_complete

pendingOut == {outgoing[p] : p \in Peers} \ {NoPiece}
inChannel == {channel[n] : n \in DOMAIN channel}

\* A verified piece is in one place: with one sender, in one slot of the
\* channel, or written; and in some place while the writer works.
HandedOverOnce ==
    /\ \A p, q \in Peers : p # q /\ outgoing[p] # NoPiece => outgoing[p] # outgoing[q]
    /\ \A m, n \in DOMAIN channel : m # n => channel[m] # channel[n]
    /\ pendingOut \cap (inChannel \cup written) = {}
    /\ inChannel \cap written = {}
    /\ pendingOut \cup inChannel \cup written \subseteq have
    /\ writer # "failed" => have \subseteq pendingOut \cup inChannel \cup written
    /\ writer = "failed" => channel = <<>>
    /\ writer = "finished" => AllStopped /\ channel = <<>>
    /\ outcome = "complete" => is_complete /\ writer = "finished"

\* main prints "Download complete" only if every piece is on disk.
CompleteMeansWritten == outcome = "complete" => written = Pieces

Sink == CASE writer = "writing" -> "open"
          [] writer = "failed" -> "failed"
          [] writer = "finished" -> "closed"

\* The engine implements PieceStream: every verified piece reaches the writer
\* exactly once unless the writer fails, and "complete" means written.
Stream == INSTANCE PieceStream WITH
            verified <- have,
            pending <- pendingOut \cup inChannel,
            stored <- written,
            sink <- Sink,
            result <- outcome
ImplementsPieceStream == Stream!StreamSpec
-----------------------------------------------------------------------------
(***************************************************************************)
(* Liveness.                                                               *)
(***************************************************************************)
Reported == outcome # "pending"

\* Once the engine is, and stays, cancelled, every task ends, run returns and
\* the caller gets its answer, whatever the peers do or fail to do.
CancelStops == <>[](control = "Cancelled") => <>Reported

\* run spawns its tasks without awaiting; a task that subscribes only after
\* completion was announced has already "seen" it.
SpawnedInTime == [](is_complete => \A p \in Peers : pc[p] # "unspawned")

\* Once the last piece is verified the whole download ends by itself, even if
\* every other peer keeps silent or keeps sending, provided it is not left paused.
CompletionStops ==
    SpawnedInTime /\ <>[](control # "Paused") => (is_complete ~> Reported)
-----------------------------------------------------------------------------
(***************************************************************************)
(* Statements of the code's own comments that the code does not keep.      *)
(***************************************************************************)
\* mod.rs: "release the piece on bad hash or disconnect so another peer can
\* retry".  A claim is always held by a session that is still there.
ReleasedOnDisconnect ==
    \A i \in claimed : \E p \in Peers : pc[p] \notin Stopped /\ current[p] = i

\* state.rs: a claimed piece is one "currently being downloaded by some peer",
\* "so two peers don't redundantly download the same one".  A piece still needed
\* that some session is fetching is claimed.
DownloadingImpliesClaimed ==
    \A p \in Peers : pc[p] = "select" /\ current[p] \in Pieces \ have => current[p] \in claimed

\* mod.rs: "however it exits ... we still reach the availability cleanup".
\* Only sessions that still run count towards availability.
AvailabilityOfTheLiving ==
    \A i \in Pieces :
        availability[i] = Cardinality({p \in Advertisers(i) : pc[p] \notin Stopped})

\* mod.rs: `done` is flipped "so every other peer task wakes ... and exits
\* promptly".  Completion ends the download even while it is paused.
CompletionWakesEveryone == SpawnedInTime => (is_complete ~> AllStopped)

\* mod.rs: cancel() means "every peer task shuts down and run returns".
CancelTakesEffect == <>[](lastCall = "Cancelled") => <>AllStopped
=============================================================================
