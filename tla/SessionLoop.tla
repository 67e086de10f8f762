---------------------------- MODULE SessionLoop ----------------------------
(***************************************************************************)
(* One peer session with a clock and a socket (run_session of src/src/     *)
(* download/mod.rs): the select! with its request timer, the requests it   *)
(* writes before it, and a peer that reads them, answers them or does not. *)
(* The torrent has one piece; Coordinator has the rest.                    *)
(***************************************************************************)
EXTENDS Naturals, Sequences, SequencesExt

CONSTANTS
    NumBlocks,
    MAX_PIPELINED_REQUESTS,
    REQUEST_TIMEOUT,    \* in ticks of the clock
    SendBuffer,         \* requests the socket takes before the peer reads them
    PeerReads,          \* the peer reads what it is sent
    Calls,              \* control calls the user makes
    MaxClaims           \* bound on how often the piece is claimed

ASSUME LoopAssumption ==
    /\ NumBlocks \in Nat \ {0} /\ MAX_PIPELINED_REQUESTS \in Nat \ {0}
    /\ REQUEST_TIMEOUT \in Nat \ {0} /\ SendBuffer \in Nat \ {0} /\ MaxClaims \in Nat
    /\ PeerReads \in BOOLEAN /\ Calls \subseteq {"Running", "Paused", "Cancelled"}

VARIABLES
    pc,             \* "top", "paused", "claim", "refill", "select", "exited"
    control, changed,   \* the watch channel: its value, and whether it is news
    choked, held, got,  \* held: a piece is in progress, with the blocks `got` of it
    next_block, in_flight,
    timer,          \* ticks since the select! was entered
    quiet,          \* ticks since the claim or the last block
    stirred,        \* since then another message, or a control call, has woken the
                    \* loop, or it has waited for room in the socket
    claims,
    outbox,         \* requests in the socket
    asked           \* requests the peer has read and not answered

pieceVars == <<held, got, next_block, in_flight, quiet, stirred>>
linkVars == <<outbox, asked>>
loopVars == <<pc, control, changed, choked, pieceVars, timer, claims, linkVars>>

LoopInit ==
    /\ pc = "top" /\ control = "Running" /\ changed = FALSE
    /\ choked = TRUE /\ held = FALSE /\ got = {}
    /\ next_block = 0 /\ in_flight = 0 /\ timer = 0 /\ quiet = 0 /\ stirred = FALSE /\ claims = 0
    /\ outbox = <<>> /\ asked = <<>>

\* The session lets go of its piece; the counters go with it.
Release ==
    /\ held' = FALSE /\ got' = {} /\ quiet' = 0 /\ stirred' = FALSE
    /\ IF held THEN next_block' = 0 /\ in_flight' = 0 ELSE UNCHANGED <<next_block, in_flight>>

Goto(place) == pc' = place
---------------------------------------------------------------------------
Top ==
    /\ pc = "top"
    /\ changed' = FALSE
    /\ CASE control = "Cancelled" -> Release /\ Goto("exited")
         [] control = "Paused" -> Release /\ Goto("paused")
         [] control = "Running" -> UNCHANGED pieceVars /\ Goto("claim")
    /\ UNCHANGED <<control, choked, timer, claims, linkVars>>

\* The Paused branch: wait for the control state to change.
Resumed ==
    /\ pc = "paused" /\ changed
    /\ Goto("top")
    /\ UNCHANGED <<control, changed, choked, pieceVars, timer, claims, linkVars>>

\* The piece is taken if it is to be had; others may have it.
Claim ==
    /\ pc = "claim"
    /\ \/ /\ ~ held /\ ~ choked /\ claims < MaxClaims
          /\ held' = TRUE /\ got' = {} /\ next_block' = 0 /\ in_flight' = 0
          /\ quiet' = 0 /\ stirred' = FALSE
          /\ claims' = claims + 1
       \/ UNCHANGED <<pieceVars, claims>>
    /\ Goto("refill")
    /\ UNCHANGED <<control, changed, choked, timer, linkVars>>

wants_more == ~ choked /\ held /\ in_flight < MAX_PIPELINED_REQUESTS /\ next_block < NumBlocks

\* conn.send(..).await, which waits for room in the socket and for nothing else.
SendRequest ==
    /\ pc = "refill" /\ wants_more
    /\ Len(outbox) < SendBuffer
    /\ outbox' = Append(outbox, next_block)
    /\ next_block' = next_block + 1 /\ in_flight' = in_flight + 1
    /\ UNCHANGED <<pc, control, changed, choked, held, got, quiet, stirred, timer, claims, asked>>

Select ==
    /\ pc = "refill" /\ ~ wants_more
    /\ timer' = 0
    /\ Goto("select")
    /\ UNCHANGED <<control, changed, choked, pieceVars, claims, linkVars>>
---------------------------------------------------------------------------
(* The arms of the select! *)

\* control.changed()
ControlWakes_never == FALSE /\ UNCHANGED loopVars
ControlWakes ==
    /\ pc = "select" /\ changed
    /\ stirred' = held
    /\ Goto("top")
    /\ UNCHANGED <<control, changed, choked, held, got, next_block, in_flight, quiet, timer,
                   claims, linkVars>>

\* done_rx.changed(): another session has completed the torrent.
DoneWakes ==
    /\ pc = "select"
    /\ Release
    /\ Goto("exited")
    /\ UNCHANGED <<control, changed, choked, timer, claims, linkVars>>

\* sleep(request_timeout), made anew each time the select! is entered.
armed_when_full == held /\ in_flight = MAX_PIPELINED_REQUESTS
armed == held /\ in_flight > 0
TimerFires ==
    /\ pc = "select" /\ armed /\ timer = REQUEST_TIMEOUT
    /\ Release
    /\ Goto("top")
    /\ UNCHANGED <<control, changed, choked, timer, claims, linkVars>>

\* conn.recv(): a block, for the piece in progress or for none ...
Kept(k) ==
    /\ got' = got \cup {asked[k]}
    /\ in_flight' = IF in_flight = 0 THEN 0 ELSE in_flight - 1
    /\ quiet' = 0 /\ stirred' = FALSE
RecvBlock(k) ==
    /\ pc = "select"
    /\ asked' = RemoveAt(asked, k)
    /\ IF ~ held THEN Goto("top") /\ UNCHANGED pieceVars
       ELSE /\ Kept(k)
            /\ held' = (got' # 0 .. NumBlocks - 1)
            /\ UNCHANGED next_block
            /\ pc' \in IF held' THEN {"top"} ELSE {"top", "exited"}    \* by its hash
    /\ UNCHANGED <<control, changed, choked, timer, claims, outbox>>

RecvChoke ==
    /\ pc = "select" /\ ~ choked
    /\ choked' = TRUE
    /\ Release
    /\ asked' \in {asked, <<>>}
    /\ Goto("top")
    /\ UNCHANGED <<control, changed, timer, claims, outbox>>

RecvUnchoke ==
    /\ pc = "select" /\ choked
    /\ choked' = FALSE
    /\ Goto("top")
    /\ UNCHANGED <<control, changed, pieceVars, timer, claims, linkVars>>

\* ... or a message that changes nothing here: keep-alive, have, interested, port.
RecvOther ==
    /\ pc = "select"
    /\ stirred' = held
    /\ Goto("top")
    /\ UNCHANGED <<control, changed, choked, held, got, next_block, in_flight, quiet, timer,
                   claims, linkVars>>
---------------------------------------------------------------------------
PeerTakesRequest ==
    /\ PeerReads
    /\ outbox # <<>>
    /\ asked' = Append(asked, Head(outbox))
    /\ outbox' = Tail(outbox)
    /\ UNCHANGED <<pc, control, changed, choked, pieceVars, timer, claims>>

\* watch::Sender::send: news even if the value is the one it was.
ControlCall(c) ==
    /\ control' = c /\ changed' = TRUE
    /\ UNCHANGED <<pc, choked, pieceVars, timer, claims, linkVars>>

\* Time passes while the session waits; a timer that is due fires first.
Blocked == pc = "refill" /\ wants_more /\ Len(outbox) = SendBuffer
Tick ==
    /\ \/ pc = "select" /\ ~ changed /\ (armed => timer < REQUEST_TIMEOUT)
       \/ Blocked
    /\ timer' = IF pc = "select" /\ armed THEN timer + 1 ELSE timer
    /\ quiet' = IF held /\ quiet <= REQUEST_TIMEOUT THEN quiet + 1 ELSE quiet
    /\ stirred' = (stirred \/ Blocked)
    /\ UNCHANGED <<pc, control, changed, choked, held, got, next_block, in_flight, claims, linkVars>>

Session == Top \/ Resumed \/ Claim \/ SendRequest \/ Select \/ ControlWakes \/ TimerFires
Messages == RecvChoke \/ RecvUnchoke \/ RecvOther \/ \E k \in DOMAIN asked : RecvBlock(k)

LoopNext ==
    \/ Session \/ DoneWakes \/ Messages \/ PeerTakesRequest \/ Tick
    \/ \E c \in Calls : ControlCall(c)

LoopSpec == LoopInit /\ [][LoopNext]_loopVars

\* The runtime polls the session when it is ready, and its timers run.  Of the
\* peer no more is asked than that it goes on reading, if PeerReads.
LoopFairness == WF_loopVars(Session) /\ WF_loopVars(Tick) /\ WF_loopVars(PeerTakesRequest)

FairLoopSpec == LoopSpec /\ LoopFairness
-----------------------------------------------------------------------------
\* A peer that falls silent loses its piece in time: with blocks in flight none
\* is held longer than REQUEST_TIMEOUT, unless something else wakes the loop (a
\* pause undone before the session sees it restarts the timer as well) or the
\* socket is full.
SilenceBounded == held /\ in_flight > 0 /\ ~ stirred => quiet <= REQUEST_TIMEOUT

\* Pause and cancel "take effect without waiting on the peer": a cancel that is
\* not taken back ends the session, wherever in the loop it finds it.  With a full
\* socket the session waits for the peer to read all the same.
CancelHeeded == <>[](control = "Cancelled") => <>(pc = "exited")
-----------------------------------------------------------------------------
(***************************************************************************)
(* Statements of the code's own comments that the code does not keep.      *)
(***************************************************************************)
\* mod.rs: REQUEST_TIMEOUT is "how long a peer may hold an in-flight piece without
\* delivering any block".
QuietBounded == held /\ in_flight > 0 => quiet <= REQUEST_TIMEOUT

\* mod.rs: in_flight counts "outstanding (requested, unanswered) blocks", and "a
\* silent peer must not strand its piece forever".  A session that waits for the
\* blocks of a piece has its timer running.
OpenRequestTimed == pc = "select" /\ held => armed

\* mod.rs: MAX_PIPELINED_REQUESTS is "how many block requests we keep in flight
\* per peer at once".  No more than that are with the peer or on the way to it.
PipelineBounded == Len(outbox) + Len(asked) <= MAX_PIPELINED_REQUESTS
=============================================================================
