----------------------------- MODULE SwarmStats -----------------------------
(***************************************************************************)
(* The live statistics of a download (src/src/download/stats.rs), the peer *)
(* sessions that write them and the snapshot a frontend polls (snapshot of *)
(* src/src/download/mod.rs), which reads them in several steps.  Which     *)
(* piece a session works on, and when, is Coordinator's matter: here a     *)
(* session takes any piece that is not verified.  A byte is a pair of a    *)
(* piece and an offset in it; all pieces have the same length.             *)
(***************************************************************************)
EXTENDS Integers, FiniteSets, FiniteSetsExt, Functions

CONSTANTS
    Peers, Pieces,
    NumBlocks,      \* blocks of a piece
    BLOCK_SIZE,     \* bytes of a block
    NonZero,        \* the bytes of the torrent that are not zero
    BlockLengths,   \* lengths of the data peers deliver in a block
    MaxWire         \* bound on the bytes received

Blocks == 0 .. NumBlocks - 1
piece_length == NumBlocks * BLOCK_SIZE
Bytes(i) == {i} \X (0 .. piece_length - 1)

ASSUME StatsAssumption ==
    /\ IsFiniteSet(Peers) /\ IsFiniteSet(Pieces)
    /\ NumBlocks \in Nat \ {0} /\ BLOCK_SIZE \in Nat \ {0}
    /\ NonZero \subseteq Pieces \X (0 .. piece_length - 1)
    /\ BlockLengths \subseteq Nat /\ MaxWire \in Nat

VARIABLES
    total_downloaded, entries,      \* SwarmStats; entries maps the peers in it
    session,                        \* per peer: its local state, and what it received
    have,                           \* PieceTracker: pieces verified
    reading, shown                  \* the snapshot being taken, the last one returned

statsVars == <<total_downloaded, entries, session, have, reading, shown>>

PeerEntry == [choked |-> TRUE, have_pieces |-> 0, downloaded |-> 0]
piece_bytes(S) == Cardinality(S) * piece_length
content(S) == Cardinality({c \in NonZero : c[1] \in S})

\* PieceAssembler: its piece, the blocks flagged as received, and the bytes of its
\* buffer that are right.  The buffer starts as zeros.
Idle == [piece |-> {}, blocks |-> {}, right |-> {}]       \* no piece in progress
Assembler(i) == [piece |-> {i}, blocks |-> {}, right |-> Bytes(i) \ NonZero]
Span(i, b, n) == {i} \X (b * BLOCK_SIZE .. b * BLOCK_SIZE + n - 1)
WithBlock(asm, b, n, W) ==
    [asm EXCEPT !.blocks = @ \cup {b}, !.right = (@ \ UNION {Span(i, b, n) : i \in asm.piece}) \cup W]

\* A snapshot; `content` says how many bytes of its pieces are not zero.
NoSnapshot == [at |-> "none", bytes_done |-> 0, content |-> 0, complete |-> FALSE,
               wire_bytes |-> 0, connected_peers |-> 0, peers |-> {}]
NewSession == [pc |-> "dialing", choked |-> TRUE, has |-> {}, news |-> {}, bytes |-> 0,
               length |-> 0, asm |-> Idle]

StatsInit ==
    /\ total_downloaded = 0
    /\ entries = <<>>
    /\ session = [p \in Peers |-> NewSession]
    /\ have = {}
    /\ reading = NoSnapshot
    /\ shown = NoSnapshot

\* A snapshot holds the lock of the tracker from its first step to its last.
locked == reading.at # "none"

Set(p, s) == session' = [session EXCEPT ![p] = s]
At(p, pc) == session[p].pc = pc
Known(p) == p \in DOMAIN entries
Rest == UNCHANGED <<total_downloaded, have, reading, shown>>
---------------------------------------------------------------------------
\* SwarmStats, each method atomic for the others.
peer_connected(p) == entries' = [q \in DOMAIN entries \cup {p} |-> IF q = p THEN PeerEntry ELSE entries[q]]
peer_disconnected_not(p) == UNCHANGED entries
peer_disconnected(p) == entries' = Restrict(entries, DOMAIN entries \ {p})
set_choked(p, c) == entries' = IF Known(p) THEN [entries EXCEPT ![p].choked = c] ELSE entries
set_have_count(p, n) ==
    entries' = IF Known(p) THEN [entries EXCEPT ![p].have_pieces = n] ELSE entries
add_downloaded(p, n) ==
    entries' = IF Known(p) THEN [entries EXCEPT ![p].downloaded = @ + n] ELSE entries
---------------------------------------------------------------------------
(* A session (peer_task and run_session), as far as the statistics see it. *)

Connect(p) ==
    /\ At(p, "dialing")
    /\ peer_connected(p)
    /\ Set(p, [session[p] EXCEPT !.pc = "running"])
    /\ Rest

DialFails(p) ==
    /\ At(p, "dialing")
    /\ Set(p, [session[p] EXCEPT !.pc = "ended"])
    /\ UNCHANGED entries /\ Rest

\* The loop ends, for whatever reason, a block that add_block refuses included; the
\* availability is taken back under the lock, and run_session returns to peer_task.
Leave(p) ==
    /\ At(p, "running") \/ (At(p, "handling") /\ session[p].asm # Idle)
    /\ Set(p, [session[p] EXCEPT !.pc = "leaving", !.asm = Idle, !.length = 0])
    /\ UNCHANGED entries /\ Rest
CleanUp(p) ==
    /\ At(p, "leaving") /\ ~ locked
    /\ Set(p, [session[p] EXCEPT !.pc = "closing"])
    /\ UNCHANGED entries /\ Rest
Disconnect(p) ==
    /\ At(p, "closing")
    /\ peer_disconnected(p)
    /\ Set(p, [session[p] EXCEPT !.pc = "ended"])
    /\ Rest

\* A choke takes the piece away, as a pause or the request timer does; the claim
\* is released under the lock.
Choke(p) ==
    /\ At(p, "running")
    /\ set_choked(p, TRUE)
    /\ Set(p, [session[p] EXCEPT !.choked = TRUE, !.asm = Idle,
                                 !.pc = IF session[p].asm = Idle THEN "running" ELSE "releasing"])
    /\ Rest
GiveUp(p) ==
    /\ At(p, "running") /\ session[p].asm # Idle
    /\ Set(p, [session[p] EXCEPT !.asm = Idle, !.pc = "releasing"])
    /\ UNCHANGED entries /\ Rest
Release(p) ==
    /\ At(p, "releasing") /\ ~ locked
    /\ Set(p, [session[p] EXCEPT !.pc = "running"])
    /\ UNCHANGED entries /\ Rest

Unchoke(p) ==
    /\ At(p, "running")
    /\ set_choked(p, FALSE)
    /\ Set(p, [session[p] EXCEPT !.choked = FALSE])
    /\ Rest

\* Message::Have: the session knows of a new piece before it has the lock.
Have(p, i) ==
    /\ At(p, "running")
    /\ Set(p, [session[p] EXCEPT !.has = @ \cup {i}, !.news = session[p].has \cup {i},
                                 !.pc = IF i \in session[p].has THEN "noting" ELSE "updating"])
    /\ UNCHANGED entries /\ Rest

\* Message::Bitfield: the new bits replace the old ones after the lock section.
NewBitfield(p, S) ==
    /\ At(p, "running")
    /\ Set(p, [session[p] EXCEPT !.news = S, !.pc = "updating"])
    /\ UNCHANGED entries /\ Rest

\* The availability is updated under the lock, and then the entry.
UpdateAvailability(p) ==
    /\ At(p, "updating") /\ ~ locked
    /\ Set(p, [session[p] EXCEPT !.has = session[p].news, !.pc = "noting"])
    /\ UNCHANGED entries /\ Rest
NoteHave(p) ==
    /\ At(p, "noting")
    /\ set_have_count(p, Cardinality(session[p].has))
    /\ Set(p, [session[p] EXCEPT !.pc = "running", !.news = {}])
    /\ Rest

\* A piece is claimed; several sessions may have the same one in the endgame.
Claim(p, i) ==
    /\ At(p, "running") /\ ~ locked
    /\ ~ session[p].choked /\ session[p].asm = Idle
    /\ i \in session[p].has \ have
    /\ Set(p, [session[p] EXCEPT !.asm = Assembler(i)])
    /\ UNCHANGED entries /\ Rest

\* Message::Piece, record_block: first the total, which is atomic, ...
CountTotal(p, n) ==
    /\ At(p, "running")
    /\ total_downloaded + n <= MaxWire
    /\ total_downloaded' = total_downloaded + n
    /\ Set(p, [session[p] EXCEPT !.pc = "counted", !.bytes = @ + n, !.length = n])
    /\ UNCHANGED <<entries, have, reading, shown>>

\* ... then the peer's entry, ...
CountPeer(p) ==
    /\ At(p, "counted")
    /\ add_downloaded(p, session[p].length)
    /\ Set(p, [session[p] EXCEPT !.pc = "handling"])
    /\ Rest

\* ... and then handle_block.  A block for no piece, or for another one, is dropped.
DropBlock(p) ==
    /\ At(p, "handling")
    /\ Set(p, [session[p] EXCEPT !.pc = "running", !.length = 0])
    /\ UNCHANGED entries /\ Rest

\* A block for the piece at hand, of which the bytes W are right, is copied into the
\* buffer and flagged as received, whole or not, ...
Fits(p, b, W) ==
    /\ At(p, "handling") /\ session[p].asm # Idle
    /\ b * BLOCK_SIZE + session[p].length <= piece_length
    /\ \E i \in session[p].asm.piece : W \subseteq Span(i, b, session[p].length)
AddBlock(p, b, W) ==
    LET asm == WithBlock(session[p].asm, b, session[p].length, W)
    IN  /\ Fits(p, b, W) /\ asm.blocks # Blocks
        /\ Set(p, [session[p] EXCEPT !.pc = "running", !.length = 0, !.asm = asm])
        /\ UNCHANGED entries /\ Rest

\* ... and when there is one for every place, the piece is verified by its bytes.
FinishPiece(p, b, W) ==
    LET asm == WithBlock(session[p].asm, b, session[p].length, W)
    IN  /\ Fits(p, b, W) /\ asm.blocks = Blocks
        /\ ~ locked
        /\ have' = have \cup {i \in asm.piece : Bytes(i) \subseteq asm.right}
        /\ Set(p, [session[p] EXCEPT !.pc = "running", !.length = 0, !.asm = Idle])
        /\ UNCHANGED <<total_downloaded, entries, reading, shown>>

\* add_block panics on an empty block at the end of the piece: the task is gone.
Panic(p) ==
    /\ At(p, "handling") /\ session[p].asm # Idle /\ session[p].length = 0
    /\ Set(p, [session[p] EXCEPT !.pc = "panicked", !.asm = Idle])
    /\ UNCHANGED entries /\ Rest
---------------------------------------------------------------------------
\* snapshot: with the tracker locked throughout, the pieces, the total, the
\* number of peers and the peers, each read when its turn comes.
Read(from, next) ==
    /\ reading.at = from
    /\ reading' = next
    /\ UNCHANGED <<total_downloaded, entries, session, have, shown>>

ReadPieces ==
    Read("none", [NoSnapshot EXCEPT !.at = "wire", !.bytes_done = piece_bytes(have),
                                    !.content = content(have), !.complete = (have = Pieces)])

wire_of_entries == MapThenSumSet(LAMBDA p : entries[p].downloaded, DOMAIN entries)
wire_bytes == total_downloaded
ReadWire == Read("wire", [reading EXCEPT !.at = "count", !.wire_bytes = wire_bytes])

ReadCount ==
    Read("count", [reading EXCEPT !.at = "peers", !.connected_peers = Cardinality(DOMAIN entries)])

ReadPeers ==
    /\ reading.at = "peers"
    /\ shown' = [reading EXCEPT !.at = "none", !.peers = DOMAIN entries]
    /\ reading' = NoSnapshot
    /\ UNCHANGED <<total_downloaded, entries, session, have>>

snapshot == ReadPieces \/ ReadWire \/ ReadCount \/ ReadPeers

SessionStep(p) ==
    \/ Connect(p) \/ DialFails(p) \/ Leave(p) \/ CleanUp(p) \/ Disconnect(p)
    \/ Choke(p) \/ GiveUp(p) \/ Release(p) \/ Unchoke(p)
    \/ \E i \in Pieces : Have(p, i) \/ Claim(p, i)
    \/ \E S \in SUBSET Pieces : NewBitfield(p, S)
    \/ UpdateAvailability(p) \/ NoteHave(p)
    \/ \E n \in BlockLengths : CountTotal(p, n)
    \/ CountPeer(p) \/ DropBlock(p) \/ Panic(p)
    \/ \E b \in Blocks : \E i \in session[p].asm.piece :
           \E W \in SUBSET Span(i, b, session[p].length) : AddBlock(p, b, W) \/ FinishPiece(p, b, W)

StatsNext == snapshot \/ \E p \in Peers : SessionStep(p)

StatsSpec == StatsInit /\ [][StatsNext]_statsVars
-----------------------------------------------------------------------------
\* What a snapshot calls done has come over the wire and was counted before it was
\* verified, except for the zeros an assembler starts with: blocks may be short,
\* long, empty, wrong or repeated, and sessions may fetch the same piece.
WireCoversContent == shown.wire_bytes >= shown.content

\* A frontend takes the rate from two snapshots in a row: what they count never
\* goes back, with peers coming, going and failing in between.
SnapshotsAdvance ==
    [][ /\ shown'.wire_bytes >= shown.wire_bytes
        /\ shown'.bytes_done >= shown.bytes_done
        /\ shown.complete => shown'.complete
        /\ shown'.complete <=> shown'.bytes_done = piece_bytes(Pieces)]_shown

Connected == {p \in Peers : session[p].pc \notin {"dialing", "ended", "panicked"}}
Panicked == {p \in Peers : At(p, "panicked")}

\* Every session that is connected has its entry, and of the others at most those
\* lost to a panic.  The entry of a connected session has the pieces its peer
\* advertises, unless a message about them is being handled, and the bytes it
\* received, but for the block being counted.
EntriesFollowSessions ==
    /\ Connected \subseteq DOMAIN entries /\ DOMAIN entries \subseteq Connected \cup Panicked
    /\ \A p \in Connected :
        /\ session[p].pc \notin {"updating", "noting"} =>
               entries[p].have_pieces = Cardinality(session[p].has)
        /\ entries[p].downloaded =
               session[p].bytes - IF At(p, "counted") THEN session[p].length ELSE 0
-----------------------------------------------------------------------------
(***************************************************************************)
(* Statements of the code's own comments that the code does not keep.      *)
(***************************************************************************)
\* stats.rs: wire_bytes is "Total wire bytes received (>= bytes_done ...)".
WireCoversDone == shown.wire_bytes >= shown.bytes_done

\* stats.rs: connected_count is the "number of currently connected peers"; mod.rs:
\* peer_task keeps the registry "in sync for the lifetime of the connection".
EntriesAreConnected == DOMAIN entries \subseteq Connected

\* stats.rs calls a snapshot a "point-in-time view": the number of connected
\* peers is the number of peers it lists.
SnapshotCoherent == shown.connected_peers = Cardinality(shown.peers)
=============================================================================
