# A TLA+ model of Torrentina

Torrentina is a BitTorrent leecher written in Rust: a library (`src/src`), a
command line program (`src/src/main.rs`) and a Tauri desktop program
(`src/gui`). This directory holds TLA+ modules translated from that code, the
TLC configurations that check them on small instances, and TLAPS proofs for
every size. Paths below are relative to the directory that contains `src/`;
`mod.rs` alone is `src/src/download/mod.rs`, `main.rs` of the GUI is written
`gui/src/main.rs`.

## 1. The system

| component | state it keeps | operations | who it talks to |
|---|---|---|---|
| metainfo (`src/src/metainfo.rs`) | none (parsed torrent) | raw info dictionary, layout and lengths, file paths, tracker list | everybody reads it |
| HTTP / UDP trackers (`src/src/tracker`) | a socket and three random numbers per announce | announce with retries, parse the reply | the search for peers |
| search for peers (`collect_peers` in `src/src/main.rs`, the loop in `gui/src/main.rs`) | trackers left to ask | ask one after another | trackers |
| peer wire (`src/src/peer`) | per connection: the decoder's buffer | connect, handshake, send, recv | one session each |
| piece tracker (`src/src/download/state.rs`) | `have`, `claimed`, `availability` | reserve, endgame reserve, release, mark_have, availability bookkeeping | all sessions, behind one tokio `Mutex` |
| coordinator and sessions (`mod.rs`) | two watch channels; per session `peer_has`, `choked`, `current`, `next_block`, `in_flight`, a timer | `run`, `pause`, `resume`, `cancel`; the session loop; `handle_block` | tracker, peers, writer |
| piece assembler and geometry (`src/src/download/piece.rs`) | buffer, `received`, `remaining` | `add_block`; lengths and offsets | its session |
| bitfield (`src/src/download/bitfield.rs`) | packed bits and a cached count | `from_bytes`, `set`, `has` | session, tracker |
| statistics (`src/src/download/stats.rs`, `snapshot` in `mod.rs`) | a counter, an entry per connected peer | record, snapshot | sessions, GUI |
| disk (`src/src/disk.rs`) | file map, handles | `create`, `write_piece`, `finish` | the writer task |
| command line (`src/src/main.rs`) | bounded channel of verified pieces | `consume_to_disk`, the final verdict | coordinator, disk |
| GUI backend (`gui/src/main.rs`) | registry of torrents behind one `Mutex`, `torrents.json` | add, start, pause, resume, cancel, remove, restore; one pipeline task per start | coordinator, disk, window |
| GUI front end (`src/gui/dist/app.js`) | one row with a badge per torrent | buttons, replies, `stats` and `finished` events | backend |

What interacts. `run` spawns one task per peer. The tasks share the tracker
(a lock), a `watch` channel carrying Running / Paused / Cancelled from the user
to the tasks, a `watch` channel `done` by which a task that sees the torrent
complete wakes the others, and the `mpsc` channel of verified pieces, which is
bounded and read by the disk writer. `run` returns when every task has ended;
then the writer sees its channel close, flushes and ends; then the caller is
told "complete", "stalled", or the writer's error. In the desktop program that
caller is a pipeline task: it announces, creates the files, publishes its
coordinator in the registry, runs the engine, waits for the writer and for the
task that emits statistics, sets the final status, saves the list and emits
`finished`. Commands of the window work on the same registry meanwhile, and
every change is saved to one file by whoever made it.

What is hard: tasks interleave at every `await`; the peer at the other end is
arbitrary, TCP cuts its bytes anywhere, and UDP loses and repeats datagrams; a
session may end through a break, a `?`, or a panic; two sessions may fetch one
piece (endgame); control changes race with all of it; the writer may be slow or
fail; saves overlap; the program may end between any two steps and be started
again.

What makes it correct: the tracker's three vectors agree with the sessions; a
piece is verified once and written once, to the right bytes of the right files;
nobody waits for something that can not come; completion is announced when it
is true and then ends the download; "complete" in the window and in the saved
list is earned; a removed torrent stays removed.

## 2. Modules

### The engine

* `PieceTracker` - the tracker. One operator per method; each is the body of a
  lock section. A `Bitfield` is a set of indices here.
* `RarestScan` - the loop of `rarest_needed`, one iteration per step, checked
  against the definition by choice that `PieceTracker` uses.
* `PieceStream` - abstract: pieces are verified, pending, stored; the sink is
  open, failed or closed; the result is reported once. No peers, no channels.
* `Coordinator` - `run`, `peer_task`, `run_session`, `handle_block`, the writer
  and the end of `main`. Extends `PieceTracker`, implements `PieceStream`.
* `SeededSwarm` - `Coordinator` with some peers that behave as seeds do, for the
  liveness of the download itself. `open[p]` are the requests for the current
  piece that seed `p` has yet to answer. The code sends no cancel message, so a
  seed also answers what was asked before a pause (`LateBlock`): those blocks may
  come at any time, for the piece at hand or not, and count `in_flight` down.
* `SessionLoop` - the same session loop seen from the other side: one piece, but
  with a clock, a socket that fills, and the peer's queue of requests. Ticks
  pass only while the session waits; `timer` is the `sleep` of the `select!`,
  which is made anew each time it is entered, `quiet` the time since the claim
  or the last block. `stirred` says that since then something other than a block
  has woken the loop, or that it has waited for room in the socket, when no timer
  runs. Control calls may come at any time and in any order, a resume after a
  cancel included. The piece is claimed at most `MaxClaims` times.
* `SwarmStats` - the counters, the sessions that write them lock section by lock
  section, and `snapshot`, which reads them in four: pieces, wire bytes, number
  of peers, list of peers. A message that needs the tracker's lock is three steps:
  the session knows (`Have`, `NewBitfield`), it gets the lock
  (`UpdateAvailability`), the entry is changed (`NoteHave`). Blocks have any
  length and any of their bytes may be right; `NonZero` are the bytes of the
  torrent that are not zero, since the buffer of an assembler starts as zeros and
  a short block leaves them. A session takes any piece (who takes which is
  `Coordinator`'s matter), and all pieces have one size.

#### State and actions of Coordinator

`pc[p]` says where the task of peer `p` stands:

| `pc` | place in mod.rs | leaves by |
|---|---|---|
| unspawned | before line 176 | `Spawn` |
| connecting | 214, 244 | `Connect`, `ConnectFails` |
| top | 258 | `ObserveControl` |
| cancelling / pausing | 262 / 270, waiting for the lock | `CancelSession` / `PauseSession` |
| paused | 274 | `WakePaused` |
| reserve | 284, waiting for the lock | `ReserveExclusive`, `ReserveFindsComplete`, `ReserveEndgame` |
| fill | 308 | `Fill`, `FillFails` |
| select | 325 | `SelectControl`, `SelectDone`, `SelectTimeout`, and the messages `Recv...`, `PeerCloses`, `SessionFails`, `BlockStored`, `PieceAlreadyHave`, `PieceVerified`, `PieceRejected`, `BlockPanics` |
| sending / sendingLast | 448 | `SendPiece`, `SendFails` |
| announce | 294, 392 | `BroadcastDone` |
| cleanup | 406 | `Cleanup` |
| exited / panicked | task ended | - |

Other state: `ctlNew` and `doneNew` are the receivers with an unseen version
(tokio's `watch`: `changed()` is ready exactly for these; `send` without any
receiver fails and leaves the value; `subscribe` marks the present version
seen). `received[p]` are the assembler's flags, `good[p]` the blocks whose bytes
are the torrent's, so a piece passes SHA-1 exactly if `good` is all of it. A
block's data may run over the following blocks (`e > b`) because `add_block`
only bounds its end. `requested[p]` is a view of the wire used by properties and
by seeds. `lastCall` is a history variable: what the user asked for last.
`current[p]` of an ended session keeps the piece it held when it failed, which
is how `ClaimHasHolder` can speak about leaked claims.

A step is one lock section, one channel operation, or task-local code up to the
next `await`. Receiving a message and the lock section it leads to are one step,
since the code in between touches nothing shared. An armed timer may fire at any
time here; `SessionLoop` has the clock.

### What comes from outside

* `Geometry` - layout and lengths of an info dictionary, pieces and blocks, with
  the widths of the code: `total_length` wraps modulo U64, `i + 1` and block
  offsets modulo U32, and the file map uses checked additions.
* `Storage` - `file_paths`, `build_file_map`, `create` (over older content),
  `map_region`, `write_piece` one positioned write at a time, `finish`. Each may
  fail: `CreateFails` leaves the files before the failing one sized, and
  `WriteFails` and `FlushFails` may be about an earlier write, which tokio's `File`
  reports at the next operation on its handle and whose bytes are then missing
  (`WriteLost`). The writes of a piece are a set (`overlap` is one of them), taken in the order of
  the files. Byte `g` of the torrent is the number `g`, so a file shows where its
  bytes came from.
* `Assembler` - `PieceAssembler` byte by byte, with `begin` and data of a peer.
* `Bitfield` - the packed bytes, most significant bit first, with spare bits and
  cached count, next to the set of pieces the peer has told us of.
* `PeerWire` - encoder and decoder of every message and the handshake, over a
  stream that arrives in any cuts and may end anywhere. `recv` is `Receive`
  (a whole frame), `ReceiveFails`, `ReceiveEnd`; the bytes behind a handshake in
  the same segment stay in the buffer. What a peer sends is described without the
  decoder: `IsMessage` is a message whose numbers fit, `IsMalformed` a frame that
  is too long, has an unknown id or a payload no message has.
* `RawInfo` - the walk of `raw_info_bytes` with `skip_value` and
  `read_byte_string`, over encoded and truncated dictionaries. It uses recursive
  operators, so nothing is proved about it.
* `PeerDiscovery` - `all_trackers`, the loop over them, the dispatch on the
  scheme and the parsing of what they answer (compact v4 and v6, lists of
  dictionaries taken entry by entry, failure reasons). `contacted` records who
  was asked. `Over6` are the UDP trackers reached over IPv6, whose answers have
  longer entries than `parse_announce_response` reads.
* `UdpAnnounce` - connect and announce, each with its attempts and time-outs.
  Datagrams on their way are sets: one may be lost (never taken), delayed,
  overtaken, and taken again. The tracker is external: it hands out connection
  ids, forgets them, answers or refuses. `EarlierTxns` are announces made
  before from the same port.

### The desktop program

* `Registry` - the backend. `pc[a]` is where an actor stands: `main` runs the
  synchronous commands one after another on the main thread, `add` is
  `add_torrent` on the async runtime, and each pipeline is a task.

| place | code (`gui/src/main.rs`) | leaves by |
|---|---|---|
| idle (main, add) | - | `pause_download`, `resume_download`, `cancel_download`, `remove_torrent`, `start_torrent`; `add_torrent` |
| status | the lock section of `set_status` | `set_status` |
| drop, dropAndDelete, delete | second lock section of `remove_torrent`, deletion of the files | `DropEntry`, `delete_data` |
| collect, truncate, write | `persist`: records under the lock, `File::create`, the write | `Collect`, `Truncate`, `Write`, `SaveFails` |
| spawn | `spawn_pipeline` | `spawn_pipeline` |
| announcing, publishing, published | `run_pipeline` up to `run` | `CreateStorage`, `Publish`, `RunStarts`, `PipelineFails` |
| running, flushing | `run`, the writer | `EngineCompletes`, `RunReturns`; `WriterEnds`, `PipelineFails` |
| settling | final status and coordinator | `Settle` |
| emit, ended | the `finished` event; the task is gone | `EmitFinished`; - |

  `job[a]` is what an actor carries from step to step: the torrent, a status to
  set, the records it has collected, and where it goes after saving. `Restart`
  is the program being ended, by its user or not, at any moment and started
  again. `earned` and `spoiled` are history variables. The engine is reduced to
  what its caller sees: it hears control calls while it runs, may complete, and
  returns.
* `Desktop` - `Registry` with the window: `rows` and badges, the buttons a badge
  offers (`ClickStart`, `togglePause`, `doRemove`, `ClickAdd`), the replies
  (`CreateRow`, `RemoveReplies`), the emitter task of each pipeline and the
  events on their way to the window.

### Instances and proofs

`MCCoordinator`, `MCSeededSwarm`, `MCSessionLoop`, `MCSwarmStats`, `MCRegistry`,
`MCDesktop` instantiate one specification each. `MCBytePath` (`PeerWire`,
`Bitfield`, `RarestScan`, `Assembler`, `Storage`) and `MCNetwork` (`RawInfo`,
`PeerDiscovery`, `UdpAnnounce`, `SessionLoop`) put small components that share no
state in one run: the variable `subject` says which of them moves in a
behaviour, the others keep a fixed initial state.

| proof module | proves about |
|---|---|
| `FoldTheorems` | sums over finite sets, folds over sequences, digits and powers, flattening; used by those marked * |
| `CoordinatorProofs` | `PieceTracker`, `Coordinator` |
| `SwarmProofs` | `Coordinator` as an implementation of `PieceStream`, `SeededSwarm` |
| `StorageProofs` * | `Geometry`, `Storage` |
| `PeerInputProofs` * | `RarestScan`, `Assembler`, `Bitfield`, `PeerWire` |
| `NetworkProofs` * | `SessionLoop`, `UdpAnnounce`, `PeerDiscovery` |
| `SwarmStatsProofs` * | `SwarmStats` |
| `RegistryProofs` * | `Registry`, `Desktop` |

### What is abstracted

Byte contents in `Coordinator` (right or wrong; `Assembler` and `Storage` have
the bytes), SHA-1 (a piece passes exactly if its bytes are right), bytes and
numbers on the wire (a small radix and few digits instead of 256 and 4, a
handshake of five), names and addresses, log lines, rendering and number
formatting, the order in which peers are listed. In the saved file a record's
text differs in length only by its status. A save is a truncation followed by
one write at offset 0, so that of two overlapping ones the later lies over the
earlier and a longer tail remains. Transaction ids of 32 random bits are taken
not to collide. In `Desktop` the window's requests are handled in the order they
were made, on the main thread, as Tauri does for synchronous commands.

## 3. Runs

| run | instance | what it shows |
|---|---|---|
| `swarm` | 2 peers (symmetric), pieces of 2 and of 1 blocks, pipeline of 2, capacity 1, full and partial bitfields, `have` in and out of range, all control calls; 1.9 million states | the tracker and the sessions agree (`HaveNotClaimed`, `AvailabilityExact`, `ClaimHasHolder`, `NoIdleWhileNeeded`), completion is true and durable (`DoneMeansComplete`, `CompleteMeansWritten`), and the engine implements `PieceStream` |
| `seeded` | 1 seed, 1 arbitrary peer, pieces of 2 and of 1 blocks, pauses and resumes, late answers, fairness; 132 000 states | `SeedCompletes`: one seed is enough whatever the other peer does; `SeedStillOwes`: a session never waits with a piece for a seed that owes it nothing, whatever late answers have done to `in_flight` |
| `stopping` | 2 arbitrary peers, 2 pieces of 1 block, all control calls, fairness; 85 000 states | `CompletionStops`, `CancelStops`: a download that is complete or cancelled ends and reports |
| `swarm_stats` | 2 peers (symmetric), 1 piece of 2 blocks of which the second is zero, blocks empty, whole and too long, 2 bytes on the wire; 4.6 million states | `SnapshotsAdvance`: counters of two successive snapshots never go back; `WireCoversContent`: of what is done, all but zeros was received; `EntriesFollowSessions`: connected sessions have entries that follow them from message to message, and only panicked ones leave theirs behind |
| `registry` | 1 torrent, 1 pipeline, all commands but `data_only` and `list` (see below), failing saves, restarts; 5.1 million states | `CompleteEarned`, `NoResurrection`, `DownloadingIsAttended`: no end of a pipeline leaves a torrent downloading for ever; `SerialSavesExact`: a save that neither overlaps nor fails holds exactly the registry |
| `desktop` | 1 torrent, 1 pipeline, add, start, toggle and remove buttons, 1 event on its way, fairness; 393 000 states | `RowsMatchRegistry`; `FinishedReported`: a pipeline whose engine has returned gets past its writer, its emitter and its save |
| `byte_path` | see the constants of `MCBytePath.cfg`: two messages or bad frames, bitfields of up to 7 pieces, pieces of 4 and 5 bytes in blocks of 2; torrents of up to 3 files with empty ones, lengths up to 62, all small piece lengths and hash counts, u32 of 3 bits and u64 of 6, older content, unsafe paths, errors of creating, writing and flushing; 442 000 states | `StreamFaithful`: the messages returned are those sent, in order, up to the first bad frame, however the stream is cut; `EndsForCause`; `HasExact`, `CountExact`: the packed bits and the cached count are the set of pieces announced; `ScanCorrect`; `RemainingExact`, `GenuineAssembles`, `PanicsOnlyAtTail` of the assembler; `FilesAreSlices`: what `finish` leaves is each file's part of the torrent; `BytesInPlace`: no byte is ever out of place, errors or not; `GeometryAgrees`: the pieces and blocks of an accepted torrent tile it and the file map covers them |
| `network` | see the constants of `MCNetwork.cfg`: files of two entries, five trackers, announces of three attempts; 1 session with a piece of 3 blocks claimed at most twice, pipeline of 2, a socket that holds 1 request, time-out of 2 ticks, all control calls in any order; fairness; 254 000 states | `SpanIsInfo`: the bytes hashed are those of the first top-level `info`; `PeersNamed`, `NoneOverlooked`: every peer is used once and, except over IPv6 UDP, was named by the tracker, and none that would have answered was passed over; `OkIsRegistered`, `AnnounceEnds`: an announce ends, and succeeds only if the tracker took it; `SilenceBounded`: a silent peer loses its piece within the time-out; `CancelHeeded`: a cancel that is not taken back is heeded in any state of the loop, also with a full socket, provided the peer reads |
| the four of section 6 | the smallest instance of each | violations |

### Bounds

Two peers give every pairwise race (endgame partners, finisher and sleeper,
claimer and releaser); the engine has no operation in which three sessions take
part at once. Two pieces separate "the last piece" from "another piece" and let
claims differ. Two blocks with a pipeline of two, and three in `network`, make
the pipeline fill, drain and run out; `stopping` has one block per piece, which
suffices for what ends a task. The bitfields of `swarm` with a `have` of the last
piece let a peer have any of the pieces. Capacity 1 makes every second send block. In
`network` a second claim is what lets late blocks of a first one arrive; a
time-out of two ticks lets a message come before, at and after half of it. The
socket takes one request less than the pipeline, so that filling it must wait for
the peer. In `swarm_stats` a block of one byte may come empty, whole or run over
the next; that is short, right and long.

`registry` has one torrent and one pipeline slot at a time (reused without
limit), because a second one is out of TLC's reach with every command and fault
switched on. Races of a pipeline with the commands, of saves of the three
actors, and of restarts with all of it happen there. Two pipelines on one
torrent are what `two_engines` is about, and all four properties of the run are
theorems for any number of torrents and pipelines. The remove
modes take the same path of three steps: `list_and_data` passes through all of
them, `list` skips the deletion, `data_only` (in `two_engines`) the second.

Numbers are scaled so that a wrap takes a handful of bytes: in `byte_path` sums
of lengths exceed 2^6, `begin` plus length exceeds 2^3 and a message can be one byte too long. Bitfields of up to 7 pieces with 3-bit bytes
have none, some and all spare bits. Bounds that cap something unbounded are
named: `MaxClaims`, `MaxWire`, `MaxEvents` (an emitter waits for room),
`MaxItems`, `Pipelines` (a start waits for a slot). Nothing else grows, so there
are no state constraints. Symmetry is used where only safety is checked and
peers are treated alike.

Deadlock is checked, except where the system may stop: a stream or a scan that is
over (`byte_path`), a walk, a search or an announce that is over (`network`), and
in some violation runs.

### Fairness

* `FairSpec`, `SeededSpec`. Weak fairness of each task's own steps: the tokio
  runtime polls ready tasks; `connect` and the handshake run under 10 s
  time-outs; a lock is always released because no lock section awaits. Writing
  a request is assumed to end, with success or an error: the code puts no limit
  on `conn.send`. `SessionLoop` is without this assumption. Strong fairness of
  `SelectControl` and `SelectDone`: `select!` starts at a random branch, so a
  branch ready again and again is taken even if the peer keeps sending. Weak
  fairness of the writer. Nothing is assumed of peers, of the user, or of the
  timer, except of seeds: they accept, stay, send bitfield and unchoke, and answer
  every request with the right bytes. An answer lies in the stream behind finitely
  many other messages, so it is received if the session returns to its `select!`
  again and again (strong fairness of `SeedTells` and `SeedAnswers`). What a seed
  answers late may come or not.
* `FairLoopSpec`: the session is polled, the clock runs, and a peer with
  `PeerReads` goes on reading; without that, section 6 shows what happens.
* `UdpFairness`: the client sends when it is its turn, and its time-outs fire.
  Nothing is assumed of the network or the tracker.
* `FairDesktopSpec`: handlers and pipelines are polled, the window is handed its
  events, and the emitter, which competes with others for the bounded queue of
  the model, gets its turn. Nothing is assumed of the engine or the user.

`CompletionStops` and `SeedCompletes` have the premise `SpawnedInTime`: `run`
spawns its tasks in a loop without `await`, so all of them have subscribed long
before any connection exists; the premise says just that. They also exclude a
download that is left paused, which `paused_completion` is about. `AnnounceEnds`
speaks of an announce that has sent its first request, because binding and
connecting the socket may fail before.

## 4. Proofs

Every theorem holds for every value of the constants. What is assumed of them:
`NumPiecesAssumption` (`Geometry::from_info` refuses zero pieces),
`ConstantsAssumption` (finitely many peers, no piece without a block, positive
limits), `SeedsAssumption` (a peer may have every piece), `WidthAssumption` and
`AssemblerAssumption` (a piece has at least one byte and fits a u32),
`LoopAssumption`, `StatsAssumption` and `UdpAssumption` (limits and lengths are
natural numbers, sets are finite, a piece has a block, transaction ids are new),
`PipelinesAssumption` (pipelines are not called `main` or `add`, nor like a mark
in a handle), `IdsAssumption` (the saved list of an earlier session is a list of
torrents with statuses), `ToggleAssumption` (a window with a toggle button can
send what it toggles), `InfosAssumption` (lengths are naturals, paths sequences
of strings: what the parser produces), `BitfieldAssumption` (a byte has bits),
`DiscoveryAssumption` (bytes are digits, answers have the forms bencode allows),
`WireAssumption` (the ids fit a byte, the longest message a u32),
`SentAssumption` (what a peer sends are messages whose numbers fit, no longer
than `MAX_MESSAGE_LEN`, and malformed frames), and `RadixPowers` and
`WirePowers`, which are the recursion of `^` for the few exponents in use: the
provers know nothing of it. TLC evaluates each of them in a run.

### The engine (`CoordinatorProofs`, `SwarmProofs`)

* `RarestNeededSound`: `rarest_needed` returns a minimum whenever there is a
  candidate. A non-empty set of naturals has a least element; that is used twice
  (least count, then least index).
* `TypeCorrect`: `TypeOK` is inductive only together with `SenderHoldsPiece`
  (otherwise `SendPiece` might append `NoPiece`).
* `SafetyInv` is the conjunction of the safety invariants with
  `SenderHoldsPiece` and `ReservesEmptyHanded`. The latter is what makes
  `ClaimHasHolder` inductive (a session that takes a new piece drops no other
  one), and `DoneMeansComplete` is needed as well: `SelectDone` drops a piece
  without releasing it, which is sound only because nothing is claimed once
  everything is verified. `NoIdleWhileNeeded` rests on endgame: reserving fails
  only if the peer has nothing we still need, and `have` only grows.
  `AvailabilityExact` counts sets of advertisers and uses the cardinality
  theorems of the library.
* `CompleteIsWritten`, `EngineImplementsStream`: `HandedOverOnce` (a verified
  piece is with one sender, in one slot of the channel, or written) on top of
  `SafetyInv`. The refinement maps `PieceVerified` to `Verify`, `WritePiece` to
  `Store`, `SendFails` to `Discard`, `WriterFails` to `Fail`, `WriterFinishes` to
  `Close`, `Report` to `Report`, and everything else to a stutter.
* `SeededSwarmIsCoordinator`: what a seed sends is among what any peer may send,
  so all of the above holds of a swarm with seeds.
* `SeedAlwaysOwes`: the invariant is `SeedsInv`, for each seed `Booked`. A session
  with a piece has asked exactly for the blocks below `next_block`; every one of
  these that has not been received is open, and `in_flight` is at most the number
  of open ones, since an answer to an open request takes one from both and a late
  answer only from `in_flight`. The piece is not whole, so after refilling either
  a request is open or the pipeline had room for one more. A session about to
  reserve is not choked. Sessions of other peers do not touch the books
  (`OthersAlone`).

### A session's clock and the trackers (`NetworkProofs`)

* `SilenceIsBounded`: `ClockInv` says that in the `select!`, with blocks in
  flight and nothing stirred, `quiet = timer`, and that away from it no time has
  passed. `ChokedInv` (a choked session has no piece) is needed for an unchoke.
* `OkIsEarned`: the strengthening is `RepliesEarned`: a reply to our announce is
  on its way only if the tracker has taken it.
* `DiscoveryPeersNamed`, `DiscoveryNoneOverlooked`: one invariant,
  `DiscoveryInv`. Trackers are contacted in the order of `all_trackers`, which
  has each tracker of each tier once (`TrackersOnce`); while no peer is known the
  queue is the rest of that list and nobody contacted had one to name; the first
  peers empty it. What a reply names is the work of the lemmas: `CompactNames`
  cuts a byte string into entries and puts a port back into the bytes it was got
  from, `DictNames` follows the loop over a list entry by entry, `AnnounceNames`
  puts the cases of `announce` together, except for the trackers of `Over6`.

### What peers send (`PeerInputProofs`)

* `ScanComputesRarestNeeded`: the loop computes the minimum. Inductive invariant
  `BestSoFar`: `best` is the minimum of the candidates below the loop counter.
* `RemainingIsExact`, `GenuinePieceAssembles`, `PanicOnlyAtTail`: one invariant,
  `AssemblerInv`. `ReceivedRight` says that as long as all blocks were genuine
  every byte of a block flagged as received is the torrent's; with `remaining`
  exact, a piece without missing blocks is right. The arithmetic is in lemmas on
  quotients: byte `k` belongs to block `q` exactly if `q * BLOCK_SIZE <= k <
  (q + 1) * BLOCK_SIZE`, and `div_ceil` counts the blocks that hold a byte.
* `BitsMeanPieces`, `CachedCountIsExact`: `BitfieldInv` adds that a byte stays a
  byte. Setting a bit adds its mask to a byte whose bit is clear, which is the
  `|=` of the code only because nothing is carried: the bits below and above are
  the same afterwards (`AddMaskLower`, `AddMaskHigher`), since a larger power of
  two is an even multiple of a smaller one.
* `WireStreamFaithful`, `WireEndsForCause`: `WireInv` says that the items already
  returned, the buffer, the bytes on their way and, after a cut, some bytes that
  will never come, make up in this order what the peer meant to send. Its steps
  rest on `DecodeNext`: given the front of what is left of the stream, `decode`
  returns the next message with the rest of the buffer, or fails at a malformed
  frame, or has too little. That comes from `DecodeMessage` (a buffer that begins
  with an encoded message yields that message, a part of one makes it wait),
  `DecodeMalformed`, and `PutGet` (numbers are read back from their digits).

### The files (`StorageProofs`)

* `PiecesAreCovered`: for a torrent that `create` accepts, no sum wraps, so the
  total of `Geometry` and the offsets of the file map are the same sums; pieces
  tile the total, blocks each piece. `CoverInv` is what keeps the check of
  `write_piece` from firing: the bytes counted are at any moment the part of the
  piece that lies before the first file left to write.
* `StorageBytesInPlace`, `StorageFilesAreSlices`: `ContentInv`. In every file a
  byte is old, a zero of `set_len`, or right; unless a write was lost, and then
  the download has failed, the bytes of every piece written are right, and those
  of the piece at hand are unless their write is still to come. Hypothesis `PathsDiffer`: with two entries of one path the second theorem
  is false, as section 6 shows.

### Statistics (`SwarmStatsProofs`)

* `EntriesAgree`: `EntriesInv` is the property with the types of the entries and
  of the sessions. A session whose message waits for the lock may be ahead of its
  entry; when it has the lock, what it knows is what the entry will say. Sessions
  that panic keep the entry they had, which nobody changes any more.
* `SnapshotsOnlyAdvance`: what a snapshot under way has read lies between what
  was shown last and what the counters are now (`ReadingInv`, `ShownInv`).
* `WireCovers`: the total is at least the non-zero bytes of the verified pieces
  plus what every session has to its credit (`WireInv`): the non-zero bytes in its
  assembler that are right, and the length of the block at hand. A block brings at
  most its length of right bytes. The sum over all sessions is what makes it
  inductive: two sessions may fetch one piece, and only one of them turns its
  credit into a verified piece.

### The desktop program (`RegistryProofs`)

* `CompleteIsEarned`: `CompleteEarned` alone is not inductive: a record
  collected before a save reaches the file steps later, and a pipeline about to
  settle has a verdict nobody has seen yet. `RegistryInv` adds that records on
  their way are earned (`JobsInv`), that no command or error path carries the
  status "complete", and that a completed pipeline that is settling has been
  flushed (`SettlingInv`).
* `RemovedStaysRemoved` needs no invariant: every action but `add_torrent` and
  `Restart` leaves the entries or fewer.
* `RegistryTyped`: `TypeInv` says for each place of an actor what its job looks
  like there (`PlaceOK`).
* `SerialSavesLoseNothing`: as long as saves have not been spoiled (`SerialInv`)
  at most one actor is saving, the file is empty when it writes, and unless
  somebody has a change yet to collect, what it saves, or what the file holds if
  nobody saves, are the records of the registry.
* `DownloadsAreAttended`: from the same types, action by action.
* `DesktopImplementsRegistry`: every step of the window with its backend is a
  step of the backend or none, so the theorems on `Registry` hold of `Desktop`.
* `RowsFollowRegistry`: at any moment the rows are the entries, less what
  `add_torrent` has entered and not yet answered, plus what `remove_torrent` has
  dropped and not yet answered (`RowsInv`).

### Folds, digits and powers (`FoldTheorems`)

Lengths of lists and totals over peers are folds over a set in an order that is
left open, which the library defines by a recursive function and a choice. That
such a function exists, is unique, is a number, and changes by the difference
when one summand changes, is proved by taking a smallest subset for which it
fails: strict inclusion of the subsets of a finite set is well-founded, and the
library's theorem on minimal elements takes a set, not an operator.

`FoldLeft` is such a fold over the positions of a sequence, the largest last. A
run (`Run`) lists its values after each prefix; `PrefixesRun` says that the fold
passes through one, and `RunsAgree` that there is only one. The sums of lengths,
reading a number from its digits, collecting what appears for the first time,
the loop over peer dictionaries and `FlattenSeq` are all reduced to runs, and what
a run does is again proved by its first failing place (`LeastNat`). Digits and
numbers undo each other (`DigitsBack`, `NumberBack`) for any radix whose powers
are given; powers of two come from the number of subsets of a finite set, which
the library knows.

### Only model-checked

* All liveness properties: `SeedCompletes`, `CompletionStops`, `CancelStops`,
  `CancelHeeded`, `FinishedReported`, `AnnounceEnds`. Fairness is out of the
  prover's reach.
* `SpanIsInfo`: the walk of `RawInfo` is made of recursive operators, for which
  the prover has no backend.
* The properties of section 6, which do not hold.

## 5. Hazards

`PROJECT.json` lists them with their lines and the properties that would catch
them. Those the code does not withstand have a note instead, which names the
property of section 6 that states what goes wrong. One is assumed away: a task
that subscribes to `done` after it was announced (mod.rs:328), by
`SpawnedInTime`, for the reason given in section 3.

## 6. Where the code and its comments disagree

Four runs end with a counterexample; `PROJECT.json` quotes the comments they
refute.

| run | property | what the trace shows |
|---|---|---|
| `paused_completion` | `CompletionWakesEveryone` | completion does not wake a session that is paused, so `run` hangs until the user resumes or cancels |
| `late_answers` | `OpenRequestTimed` | mod.rs:428: answers to requests of an earlier claim bring `in_flight` to zero with requests open, and the timer is off. `SeedStillOwes` shows that this does no harm with a seed |
| `two_engines` | `OneEngine` | gui/src/main.rs:315: `start_torrent` looks for a coordinator that is only published after the announce; a second start in that time runs a second engine on the same files |
| `stale_save` | `ListSurvives` | gui/src/main.rs:119: of two saves that overlap the one with the older list may write last, or both texts may end up in the file |

The others are stated in the modules as well. To see the trace, let the named
configuration check that property instead of its own, with the change given.
Each has been seen to fail this way.

| property | configuration and change | what the trace shows |
|---|---|---|
| `ReleasedOnDisconnect` | `MCSwarm.cfg` | mod.rs:339: a session that ends through `?` keeps its claim, against mod.rs:11 "release the piece on bad hash or disconnect". `SeedCompletes` shows that endgame still gets such pieces, so the cost is exclusivity, not completion |
| `EndgameWhenAllClaimed` | `MCSwarm.cfg` | mod.rs:297: endgame begins when this peer has nothing unclaimed, while other pieces are, against mod.rs:289 "every remaining piece is already claimed" |
| `DownloadingImpliesClaimed` | `MCSwarm.cfg` | mod.rs:331: an endgame helper that gives up clears the owner's claim, against state.rs:23 |
| `AvailabilityOfTheLiving` | `MCSwarm.cfg` | piece.rs:160: an empty block exactly at the end of a piece of whole blocks panics past the cleanup, against mod.rs:251 "however it exits" |
| `CancelTakesEffect` | `Stopping.cfg` | mod.rs:121: a cancel before the first task has subscribed meets a channel without receivers and is lost, against mod.rs:119 "every peer task shuts down" |
| `QuietBounded` | `LateAnswers.cfg` | mod.rs:329: any message restarts the timer, against mod.rs:42 "without delivering any block" |
| `PipelineBounded` | `LateAnswers.cfg` | mod.rs:312: blocks of an earlier claim are still owed when the pipeline is filled again, against mod.rs:38 "in flight per peer at once" |
| `CancelHeeded` | `MCNetwork.cfg`, `PeerReads = FALSE` | mod.rs:313: a request to a peer that does not read waits beyond any cancel, against mod.rs:322 "without waiting on the peer" |
| `WireCoversDone` | `MCSwarmStats.cfg` | piece.rs:160: a short block counts as received, and if what it omits are zeros, of whatever piece, that piece verifies from fewer bytes than it has, against stats.rs:134 ">= `bytes_done`" |
| `EntriesAreConnected` | `MCSwarmStats.cfg` | piece.rs:160: a session that panics is never taken from the list, against stats.rs:83 "currently connected peers" |
| `SnapshotCoherent` | `MCSwarmStats.cfg` | mod.rs:159: the number of peers and their list are read in two lock sections, against stats.rs:121 "point-in-time view" |
| `RedeliveryHarmless` | `MCBytePath.cfg` | piece.rs:159: a second delivery overwrites the first, against piece.rs:139 "a harmless no-op" |
| `FilesAreSlices` | `MCBytePath.cfg`, `Infos <- SharedInfos` | disk.rs:105: two entries with one path share one file |
| `AllPeersNamed` | `MCNetwork.cfg` | udp.rs:127: the 18-byte entries a tracker sends over IPv6 (udp.rs:165) are cut into three IPv4 peers each, against tracker/mod.rs:3 "which peers are sharing a torrent" |
| `LateReplyHarmless` | `MCNetwork.cfg` | udp.rs:143: the second answer to a retried connect is taken for the answer to the announce and fails it, against udp.rs:137 "await a reply, retrying on timeout" |
| `PausedIsHeld` | `MCRegistry.cfg` | gui/src/main.rs:208: a torrent paused during the announce is shown as paused and downloads |
| `PausedIsRunning` | `MCRegistry.cfg` | gui/src/main.rs:208: pausing a torrent that does not run sets its status, against line 196 "no-op if not running" |
| `CoordinatorIsRunning` | `MCRegistry.cfg` | gui/src/main.rs:506: after a writer error the handle keeps its coordinator and the torrent can not be started, against line 53 "absent when stopped/restored" |
| `RunningHasCoordinator` | `TwoEngines.cfg` | gui/src/main.rs:536: a pipeline that ends clears the coordinator of a newer one, which can then not be stopped |
| `CompleteHasFiles` | `TwoEngines.cfg` | gui/src/main.rs:537: a pipeline settles to complete after `data_only` deleted its files, against line 246 "keep the entry (stopped)" |
| `FinishedIsLast` | `MCDesktop.cfg`, `DesktopSpec`, `MaxEvents = 2` | gui/src/main.rs:506: after a writer error a snapshot follows `finished`, against line 480 "until finished" |
| `CompletionNotReverted` | `MCDesktop.cfg`, `DesktopSpec`, `Pipelines = {k1, k2}` | app.js:136: a snapshot of a second engine reverts a completion, against app.js:138 |

Besides, the comment of `status` (gui/src/main.rs:48) does not list "stalled",
which line 528 sets.

## 7. Plan

Every component with behaviour of its own is modelled. What would come next:

1. Larger instances: two torrents in `registry`, `data_only` with every other
   command, three peers in `swarm`, if time allows.
2. A refinement from `SessionLoop` to a session of `Coordinator`.
3. `RawInfo` with an explicit stack instead of recursion, to prove `SpanIsInfo`.

### Not modelled

* Query strings of HTTP announces and the layout of request datagrams: text and
  byte formatting of values that decide nothing here.
* Deserialisation of typed fields (`serde_bencode`), SHA-1, HTTP and TCP
  themselves: libraries, taken at what the code uses of them. Counts of seeders
  and leechers and the interval of an announce are parsed and only displayed; a
  port in a peer dictionary is taken modulo 2^16 by a cast, as modelled.
* Arguments, progress bar and log output of the command line program; pickers,
  dialogs, number formatting and the style sheet of the window.
* Error types, re-exports and the example program.
