--------------------------- MODULE NetworkProofs ---------------------------
(***************************************************************************)
(* What a session and an announce can count on from the network: the       *)
(* session loop gives a silent peer no more than REQUEST_TIMEOUT, an       *)
(* announce that succeeds after any number of attempts was taken by the    *)
(* tracker, and the search for peers overlooks no tracker and returns only *)
(* peers that the tracker named.                                           *)
(***************************************************************************)
EXTENDS SessionLoop, UdpAnnounce, PeerDiscovery, FoldTheorems

(***************************************************************************)
(* The session loop.                                                       *)
(***************************************************************************)
LoopTypeInv ==
    /\ control \in {"Running", "Paused", "Cancelled"}
    /\ held \in BOOLEAN /\ stirred \in BOOLEAN
    /\ in_flight \in Nat /\ timer \in Nat /\ quiet \in Nat
\* No tick has passed since the last sign of life while the loop was on its way
\* to the select!, and in the select! the timer has counted every one.
ClockInv ==
    held /\ ~ stirred =>
        IF pc = "select" THEN in_flight > 0 => quiet = timer /\ timer <= REQUEST_TIMEOUT
                         ELSE quiet = 0
LoopInv == LoopTypeInv /\ ClockInv
\* A choke takes the piece away.
ChokedInv == choked => ~ held

\* It is kept.
LEMMA ChokedInvInductive == LoopTypeInv /\ ChokedInv /\ [LoopNext]_loopVars => ChokedInv'
<1>. SUFFICES ASSUME LoopTypeInv, ChokedInv, [LoopNext]_loopVars PROVE ChokedInv'
  OBVIOUS
<1>1. Release => ChokedInv'  BY Zenon DEF Release, ChokedInv
<1>2. UNCHANGED <<choked, held>> => ChokedInv'  BY Zenon DEF ChokedInv
<1>3. CASE Top
  <2>1. Release \/ UNCHANGED <<choked, held>>  BY <1>3 DEF Top, pieceVars, LoopTypeInv
  <2>. QED  BY <2>1, <1>1, <1>2
<1>4. CASE Claim
  <2>1. choked' = choked /\ (~ choked \/ held' = held)  BY <1>4 DEF Claim, pieceVars
  <2>. QED  BY <2>1, Zenon DEF ChokedInv
<1>5. ASSUME NEW k, RecvBlock(k) PROVE ChokedInv'
  <2>1. choked' = choked /\ (held \/ held' = held)  BY <1>5, Zenon DEF RecvBlock, pieceVars
  <2>. QED  BY <2>1, Zenon DEF ChokedInv
<1>6. CASE RecvUnchoke
  <2>1. choked' = FALSE  BY <1>6 DEF RecvUnchoke
  <2>. QED  BY <2>1, Zenon DEF ChokedInv
<1>7. CASE DoneWakes \/ TimerFires \/ RecvChoke
  BY <1>1, <1>7 DEF DoneWakes, TimerFires, RecvChoke
<1>8. CASE \/ Resumed \/ SendRequest \/ Select \/ ControlWakes \/ RecvOther \/ PeerTakesRequest
          \/ Tick \/ (\E c \in Calls : ControlCall(c)) \/ UNCHANGED loopVars
  BY <1>2, <1>8 DEF Resumed, SendRequest, Select, ControlWakes, RecvOther, PeerTakesRequest,
     Tick, ControlCall, loopVars, pieceVars
<1>. QED
  BY <1>3, <1>4, <1>5, <1>6, <1>7, <1>8 DEF LoopNext, Session, Messages

\* Giving the piece back keeps the clocks: there is nothing to time.
LEMMA ReleaseInv ==
    ASSUME LoopInv, Release, UNCHANGED <<timer, control>> PROVE LoopInv'
<1>1. ~ held' /\ held' \in BOOLEAN /\ stirred' \in BOOLEAN /\ quiet' = 0
  BY Zenon DEF Release
<1>2. in_flight' \in Nat
  BY DEF LoopInv, LoopTypeInv, Release
<1>. QED  BY <1>1, <1>2 DEF LoopInv, LoopTypeInv, ClockInv

\* A step that leaves the piece alone, away from the select! before and after.
LEMMA ElsewhereInv ==
    ASSUME LoopInv, control' \in {"Running", "Paused", "Cancelled"}, timer' \in Nat,
           UNCHANGED <<held, stirred, quiet>>, in_flight' \in Nat,
           pc # "select", pc' = "select" => timer' = 0
    PROVE  LoopInv'
BY LoopAssumption DEF LoopInv, LoopTypeInv, ClockInv

\* Every step keeps the clocks.
LEMMA LoopInvInductive == LoopInv /\ ChokedInv /\ [LoopNext]_loopVars => LoopInv'
<1>. SUFFICES ASSUME LoopInv, ChokedInv, [LoopNext]_loopVars PROVE LoopInv'
  OBVIOUS
<1>ty. LoopTypeInv  BY DEF LoopInv
<1>1. CASE Top
  <2>1. CASE control = "Running"
    <3>1. UNCHANGED <<held, stirred, quiet, in_flight, control, timer>>
          /\ pc = "top" /\ pc' = "claim"
      BY <1>1, <2>1 DEF Top, Goto, pieceVars
    <3>. QED  BY <3>1, <1>ty, ElsewhereInv DEF LoopTypeInv
  <2>2. CASE control # "Running"
    <3>1. Release /\ UNCHANGED <<timer, control>>
      BY <1>ty, <1>1, <2>2 DEF Top, LoopTypeInv
    <3>. QED  BY <3>1, ReleaseInv
  <2>. QED  BY <2>1, <2>2
<1>2. CASE Resumed
  <2>1. UNCHANGED <<held, stirred, quiet, in_flight, control, timer>>
        /\ pc = "paused" /\ pc' = "top"
    BY <1>2 DEF Resumed, Goto, pieceVars
  <2>. QED  BY <2>1, <1>ty, ElsewhereInv DEF LoopTypeInv
<1>3. CASE Claim
  <2>1. UNCHANGED <<control, timer>> /\ pc = "claim" /\ pc' = "refill"
    BY <1>3 DEF Claim, Goto
  <2>2. CASE UNCHANGED pieceVars
    BY <2>1, <2>2, <1>ty, ElsewhereInv DEF LoopTypeInv, pieceVars
  <2>3. CASE ~ UNCHANGED pieceVars
    <3>1. held' = TRUE /\ stirred' = FALSE /\ quiet' = 0 /\ in_flight' = 0
      BY <1>3, <2>3 DEF Claim
    <3>. QED  BY <3>1, <2>1, <1>ty DEF LoopInv, LoopTypeInv, ClockInv
  <2>. QED  BY <2>2, <2>3
<1>4. CASE SendRequest
  <2>1. UNCHANGED <<held, stirred, quiet, control, timer, pc>>
        /\ pc = "refill" /\ in_flight' \in Nat
    BY <1>4, <1>ty DEF SendRequest, LoopTypeInv
  <2>. QED  BY <2>1, <1>ty, ElsewhereInv DEF LoopTypeInv
<1>5. CASE Select
  <2>1. UNCHANGED <<held, stirred, quiet, in_flight, control>>
        /\ pc = "refill" /\ timer' = 0
    BY <1>5 DEF Select, pieceVars
  <2>. QED  BY <2>1, <1>ty, ElsewhereInv DEF LoopTypeInv
<1>6. CASE ControlWakes \/ RecvOther
  <2>1. stirred' = held /\ UNCHANGED <<held, quiet, in_flight, control, timer>>
    BY <1>6 DEF ControlWakes, RecvOther
  <2>2. ~ (held' /\ ~ stirred')  BY <2>1, Zenon
  <2>. QED  BY <2>1, <2>2, <1>ty DEF LoopInv, LoopTypeInv, ClockInv
<1>7. CASE DoneWakes \/ TimerFires \/ RecvChoke
  BY <1>7, ReleaseInv DEF DoneWakes, TimerFires, RecvChoke
<1>8. ASSUME NEW k, RecvBlock(k) PROVE LoopInv'
  <2>1. CASE held
    <3>1. stirred' = FALSE /\ quiet' = 0 /\ held' \in BOOLEAN /\ UNCHANGED <<control, timer>>
      BY <1>8, <2>1, Zenon DEF RecvBlock, Kept
    <3>2. in_flight' \in Nat  BY <1>8, <2>1, <1>ty DEF RecvBlock, Kept, LoopTypeInv
    <3>3. pc' # "select"  BY <1>8, <2>1 DEF RecvBlock
    <3>. QED  BY <3>1, <3>2, <3>3, <1>ty DEF LoopInv, LoopTypeInv, ClockInv
  <2>2. CASE ~ held
    BY <1>8, <2>2, <1>ty DEF RecvBlock, Goto, pieceVars, LoopInv, LoopTypeInv, ClockInv
  <2>. QED  BY <2>1, <2>2
<1>9. CASE RecvUnchoke
  <2>1. UNCHANGED <<held, stirred, quiet, in_flight, control, timer>>
    BY <1>9 DEF RecvUnchoke, pieceVars
  <2>2. ~ held  BY <1>9, Zenon DEF RecvUnchoke, ChokedInv
  <2>. QED  BY <2>1, <2>2, <1>ty DEF LoopInv, LoopTypeInv, ClockInv
<1>10. CASE PeerTakesRequest
  BY <1>10 DEF PeerTakesRequest, pieceVars, LoopInv, LoopTypeInv, ClockInv
<1>11. ASSUME NEW c \in Calls, ControlCall(c) PROVE LoopInv'
  BY <1>11, LoopAssumption DEF ControlCall, pieceVars, LoopInv, LoopTypeInv, ClockInv
<1>12. CASE Tick
  <2>1. UNCHANGED <<held, in_flight, control, pc>>
    BY <1>12 DEF Tick
  <2>2. stirred' = (stirred \/ Blocked) /\ stirred' \in BOOLEAN
    BY <1>12, Zenon DEF Tick
  <2>3. timer' \in Nat /\ quiet' \in Nat
    BY <1>12, <1>ty DEF Tick, LoopTypeInv
  <2>4. ASSUME held', ~ stirred'
        PROVE  pc = "select" /\ (in_flight > 0 => quiet' = timer' /\ timer' <= REQUEST_TIMEOUT)
    <3>1. held /\ ~ stirred /\ ~ Blocked  BY <2>1, <2>2, <2>4, Zenon
    <3>2. pc = "select" /\ (held /\ in_flight > 0 => timer < REQUEST_TIMEOUT)
      BY <1>12, <3>1 DEF Tick, armed
    <3>3. CASE in_flight > 0
      <4>1. armed  BY <3>1, <3>3 DEF armed
      <4>2. quiet = timer /\ timer < REQUEST_TIMEOUT
        BY <3>1, <3>2, <3>3 DEF LoopInv, ClockInv
      <4>3. timer' = timer + 1 /\ quiet' = quiet + 1
        BY <1>12, <1>ty, <3>1, <3>2, <4>1, <4>2, LoopAssumption DEF Tick, LoopTypeInv
      <4>. QED  BY <3>2, <4>2, <4>3, <1>ty, LoopAssumption DEF LoopTypeInv
    <3>. QED  BY <3>2, <3>3
  <2>. QED  BY <2>1, <2>2, <2>3, <2>4, <1>ty DEF LoopInv, LoopTypeInv, ClockInv
<1>13. CASE UNCHANGED loopVars
  BY <1>13 DEF loopVars, pieceVars, LoopInv, LoopTypeInv, ClockInv
<1>. QED
  BY <1>1, <1>2, <1>3, <1>4, <1>5, <1>6, <1>7, <1>8, <1>9, <1>10, <1>11, <1>12, <1>13
  DEF LoopNext, Session, Messages

\* A silent peer keeps its piece no longer than REQUEST_TIMEOUT, for any numbers
\* of blocks, of requests in flight and of ticks.
THEOREM SilenceIsBounded == LoopSpec => []SilenceBounded
<1>1. LoopInit => LoopInv /\ ChokedInv
  <2>. SUFFICES ASSUME LoopInit PROVE LoopInv /\ ChokedInv
    OBVIOUS
  <2>1. ~ held /\ held \in BOOLEAN /\ stirred \in BOOLEAN  BY Zenon DEF LoopInit
  <2>. QED  BY <2>1 DEF LoopInit, LoopInv, LoopTypeInv, ClockInv, ChokedInv
<1>2. LoopInv => SilenceBounded
  BY LoopAssumption DEF LoopInv, LoopTypeInv, ClockInv, SilenceBounded
<1>3. LoopInv => LoopTypeInv  BY DEF LoopInv
<1>. QED  BY <1>1, <1>2, <1>3, LoopInvInductive, ChokedInvInductive, PTL DEF LoopSpec

-----------------------------------------------------------------------------
(***************************************************************************)
(* The UDP tracker.                                                        *)
(***************************************************************************)
\* What makes it inductive: a reply to our announce is only ever on its way once
\* the tracker has taken the announce.
RepliesEarned ==
    \A r \in replies :
        /\ r.size \in Nat
        /\ r.action = "announce" /\ r.txn = announce_txn => announce_txn \in registered

UdpInv == RepliesEarned /\ OkIsRegistered

\* At the start there is no reply.
LEMMA UdpInitInv == UdpInit => UdpInv
  BY UdpAssumption
  DEF UdpInit, UdpInv, RepliesEarned, OkIsRegistered, Reply, ANNOUNCE_RESPONSE_HEADER_LEN

\* A reply that parse_announce_response accepts answers our announce.
LEMMA AcceptedIsOurs ==
    ASSUME NEW r, r.size \in Nat, parse_announce_response(r) = "none"
    PROVE  r.action = "announce" /\ r.txn = announce_txn
  BY DEF parse_announce_response

\* Every step keeps it.
LEMMA UdpStepInv == UdpInv /\ [UdpNext]_udpVars => UdpInv'
<1>. SUFFICES ASSUME UdpInv, [UdpNext]_udpVars PROVE UdpInv'
  OBVIOUS
<1>. USE DEF UdpInv, RepliesEarned, OkIsRegistered
<1>1. CASE Send  BY <1>1 DEF Send
<1>2. CASE Timeout  BY <1>2 DEF Timeout, Fail
<1>3. CASE SocketError  BY <1>3 DEF SocketError, Fail
<1>4. CASE Receive
  <2>. PICK r \in replies : (ConnectReply(r) \/ AnnounceReply(r)) /\ replies' \in {replies, replies \ {r}}
    BY <1>4 DEF Receive
  <2>1. RepliesEarned'  BY DEF ConnectReply, AnnounceReply
  <2>2. CASE ConnectReply(r)
    <3>1. step' # "ok"  BY <2>2 DEF ConnectReply, Fail
    <3>. QED  BY <2>1, <3>1
  <2>3. CASE AnnounceReply(r)
    <3>1. CASE parse_announce_response(r) = "none"
      <4>1. announce_txn \in registered  BY <3>1, AcceptedIsOurs
      <4>. QED  BY <2>1, <2>3, <4>1 DEF AnnounceReply
    <3>2. CASE parse_announce_response(r) # "none"
      <4>1. step' = "failed"  BY <2>3, <3>2 DEF AnnounceReply, Fail
      <4>. QED  BY <2>1, <4>1
    <3>. QED  BY <3>1, <3>2
  <2>. QED  BY <2>2, <2>3
<1>5. ASSUME NEW c \in ConnectionIds, TrackerConnects(c) PROVE UdpInv'
  BY <1>5 DEF TrackerConnects, Reply, clientVars, CONNECT_RESPONSE_LEN
<1>6. ASSUME NEW c \in ConnectionIds, Expire(c) PROVE UdpInv'
  BY <1>6 DEF Expire, clientVars
<1>7. ASSUME NEW q \in requests, TrackerRefuses(q) PROVE UdpInv'
  BY <1>7 DEF TrackerRefuses, Reply, clientVars
<1>8. ASSUME NEW q \in requests, NEW n \in Answers, TrackerAnswers(q, n) PROVE UdpInv'
  BY <1>8, UdpAssumption DEF TrackerAnswers, Reply, clientVars
<1>9. CASE UNCHANGED udpVars  BY <1>9 DEF udpVars, clientVars
<1>. QED
  BY <1>1, <1>2, <1>3, <1>4, <1>5, <1>6, <1>7, <1>8, <1>9 DEF UdpNext, Client, Tracker

\* udp::announce returns Ok only if the tracker took this very announce: no late
\* reply of the connect exchange or of an earlier announce can stand in for it.
THEOREM OkIsEarned == UdpSpec => []OkIsRegistered
<1>1. UdpInv => OkIsRegistered  BY DEF UdpInv
<1>. QED  BY UdpInitInv, UdpStepInv, <1>1, PTL DEF UdpSpec

-----------------------------------------------------------------------------
(***************************************************************************)
(* The search for peers.                                                   *)
(***************************************************************************)
\* append_new as a step over the elements of s.
add_new(X, s) == [p \in Seq(X) \X DOMAIN s |-> append_new(p[1], s[p[2]])]
\* No element occurs twice.
NoRepetition(s) == \A j, k \in DOMAIN s : s[j] = s[k] => j = k

\* One element more.
LEMMA AppendNewStep ==
    ASSUME NEW X, NEW s \in Seq(X), NEW x \in X
    PROVE  /\ append_new(s, x) \in Seq(X)
           /\ ToSet(append_new(s, x)) = ToSet(s) \cup {x}
           /\ NoRepetition(s) => NoRepetition(append_new(s, x))
<1>1. CASE Contains(s, x)
  <2>1. append_new(s, x) = s  BY <1>1 DEF append_new
  <2>2. x \in ToSet(s)  BY <1>1, LenProperties DEF Contains, ToSet
  <2>. QED  BY <2>1, <2>2
<1>2. CASE ~ Contains(s, x)
  <2>. DEFINE t == Append(s, x)
              n == Len(s)
  <2>1. append_new(s, x) = t  BY <1>2 DEF append_new
  <2>2. /\ t \in Seq(X) /\ Len(t) = n + 1 /\ n \in Nat
        /\ DOMAIN t = 1 .. n + 1 /\ DOMAIN s = 1 .. n
        /\ \A i \in 1 .. n : t[i] = s[i]
        /\ t[n + 1] = x
    BY AppendProperties, LenProperties
  <2>3. \A i \in 1 .. n : s[i] # x  BY <1>2 DEF Contains
  <2>. HIDE DEF t, n
  <2>4. \A i \in 1 .. n + 1 : i \in 1 .. n \/ i = n + 1  BY <2>2
  <2>5. \A i \in 1 .. n : i \in 1 .. n + 1  BY <2>2
  <2>6. n + 1 \in 1 .. n + 1  BY <2>2
  <2>7. ToSet(t) = ToSet(s) \cup {x}
    <3>1. ASSUME NEW y \in ToSet(t) PROVE y \in ToSet(s) \cup {x}
      <4>1. PICK i \in 1 .. n + 1 : y = t[i]  BY <2>2 DEF ToSet
      <4>. QED  BY <2>2, <2>4, <4>1 DEF ToSet
    <3>2. ASSUME NEW y \in ToSet(s) PROVE y \in ToSet(t)
      <4>1. PICK i \in 1 .. n : y = s[i]  BY <2>2 DEF ToSet
      <4>. QED  BY <2>2, <2>5, <4>1 DEF ToSet
    <3>3. x \in ToSet(t)  BY <2>2, <2>6 DEF ToSet
    <3>. QED  BY <3>1, <3>2, <3>3
  <2>8. NoRepetition(s) => NoRepetition(t)  BY <2>2, <2>3, <2>4 DEF NoRepetition
  <2>. QED  BY <2>1, <2>2, <2>7, <2>8
<1>. QED  BY <1>1, <1>2

\* first_appearances takes an element at a time.
LEMMA AppendNewRuns ==
    ASSUME NEW X, NEW base \in Seq(X), NEW n \in Nat, NEW s \in [1 .. n -> X]
    PROVE  \E r : RunTo(FoldLeft(append_new, base, s), r, n, Seq(X), base, add_new(X, s))
<1>. DEFINE Rec(i) == i = [t \in SUBSET (1 .. n) |->
                            IF t = {} THEN base ELSE append_new(i[t \ {Max(t)}], s[Max(t)])]
            it == CHOOSE i : Rec(i)
            st == add_new(X, s)
<1>1. /\ st \in [Seq(X) \X (1 .. n) -> Seq(X)]
      /\ \A v \in Seq(X), k \in 1 .. n : st[<<v, k>>] = append_new(v, s[k])
  <2>1. \A v \in Seq(X), k \in 1 .. n : append_new(v, s[k]) \in Seq(X)
    BY AppendNewStep
  <2>. QED  BY <2>1 DEF add_new
<1>. HIDE DEF st
<1>2. ASSUME NEW t \in SUBSET (1 .. n), t # {} PROVE Max(t) \in 1 .. n  BY <1>2, LargestOf
<1>3. \E i : Rec(i)
  <2>1. PICK i \in [SUBSET (1 .. n) -> Seq(X)] : Accumulates(i, n, base, st)
    BY <1>1, AccumulationExists
  <2>2. ASSUME NEW t \in SUBSET (1 .. n)
        PROVE  i[t] = IF t = {} THEN base ELSE append_new(i[t \ {Max(t)}], s[Max(t)])
    <3>1. i[t] = IF t = {} THEN base ELSE st[<<i[t \ {Max(t)}], Max(t)>>]
      BY <2>1 DEF Accumulates
    <3>. QED  BY <1>1, <1>2, <3>1
  <2>3. i = [t \in SUBSET (1 .. n) |-> i[t]]  OBVIOUS
  <2>. QED  BY <2>2, <2>3
<1>4. Rec(it)  BY <1>3
<1>5. FoldLeft(append_new, base, s) = it[1 .. n]  BY DEF FoldLeft, MapThenFoldSet
<1>. HIDE DEF it
<1>6. Iterates(it, n, Seq(X), base, st)
  <2>1. \A t \in SUBSET (1 .. n) :
            it[t] = IF t = {} THEN base ELSE append_new(it[t \ {Max(t)}], s[Max(t)])
    BY <1>4
  <2>. QED  BY <1>1, <1>2, <2>1 DEF Iterates
<1>7. \E r : RunTo(it[1 .. n], r, n, Seq(X), base, st)  BY <1>1, <1>6, PrefixesRun
<1>. QED  BY <1>5, <1>7, Zenon DEF st

\* Adding a sequence keeps what is there, takes everything in, and nothing twice.
LEMMA AppendNewAll ==
    ASSUME NEW X, NEW base \in Seq(X), NoRepetition(base), NEW s \in Seq(X)
    PROVE  LET v == FoldLeft(append_new, base, s)
           IN  v \in Seq(X) /\ ToSet(v) = ToSet(base) \cup ToSet(s) /\ NoRepetition(v)
<1>. DEFINE n == Len(s)
            v == FoldLeft(append_new, base, s)
            Upto(k) == {s[i] : i \in 1 .. k}
<1>1. n \in Nat /\ s \in [1 .. n -> X] /\ DOMAIN s = 1 .. n  BY LenProperties
<1>2. PICK r : RunTo(FoldLeft(append_new, base, s), r, n, Seq(X), base, add_new(X, s))
  <2>. HIDE DEF n
  <2>. QED  BY <1>1, AppendNewRuns
<1>3. r \in [0 .. n -> Seq(X)] /\ r[0] = base /\ r[n] = v
      /\ \A k \in 1 .. n : r[k] = add_new(X, s)[<<r[k - 1], k>>]
  BY <1>2, Zenon DEF RunTo, Run, Steps
<1>. HIDE DEF n, v
<1>4. ASSUME NEW k \in 1 .. n PROVE r[k] = append_new(r[k - 1], s[k]) /\ r[k - 1] \in Seq(X) /\ s[k] \in X
  <2>1. k - 1 \in 0 .. n  BY <1>1
  <2>2. r[k - 1] \in Seq(X) /\ s[k] \in X  BY <1>1, <1>3, <2>1
  <2>. QED  BY <1>1, <1>3, <2>2 DEF add_new
<1>. DEFINE Good(k) == ToSet(r[k]) = ToSet(base) \cup Upto(k) /\ NoRepetition(r[k])
            T == {k \in 0 .. n : ~ Good(k)}
<1>5. Good(0)
  <2>1. Upto(0) = {}  OBVIOUS
  <2>. QED  BY <1>3, <2>1
<1>6. ASSUME NEW k \in 1 .. n, Good(k - 1) PROVE Good(k)
  <2>1. Upto(k) = Upto(k - 1) \cup {s[k]}
    <3>1. \A i \in 1 .. k : i \in 1 .. (k - 1) \/ i = k  BY <1>1
    <3>2. \A i \in 1 .. (k - 1) : i \in 1 .. k  BY <1>1
    <3>3. k \in 1 .. k  BY <1>1
    <3>. QED  BY <3>1, <3>2, <3>3
  <2>2. /\ ToSet(r[k]) = ToSet(r[k - 1]) \cup {s[k]}
        /\ NoRepetition(r[k - 1]) => NoRepetition(r[k])
    BY <1>4, AppendNewStep
  <2>. HIDE DEF Upto
  <2>. QED  BY <1>6, <2>1, <2>2
<1>. HIDE DEF Good
<1>7. T = {}
  <2>. SUFFICES ASSUME T # {} PROVE FALSE
    OBVIOUS
  <2>1. PICK k \in T : \A i \in Nat : i < k => i \notin T
    <3>1. T \in SUBSET Nat  BY <1>1
    <3>. HIDE DEF T
    <3>. QED  BY <3>1, LeastNat
  <2>2. k # 0  BY <1>5
  <2>3. k \in 1 .. n /\ k - 1 \in 0 .. n /\ k - 1 \in Nat /\ k - 1 < k  BY <1>1, <2>2
  <2>4. Good(k - 1)  BY <2>1, <2>3
  <2>. QED  BY <1>6, <2>3, <2>4
<1>8. n \in 0 .. n  BY <1>1
<1>9. Good(n)  BY <1>7, <1>8
<1>10. Upto(n) = ToSet(s)  BY <1>1 DEF ToSet
<1>11. v \in Seq(X)  BY <1>3, <1>8
<1>. QED  BY <1>3, <1>9, <1>10, <1>11 DEF Good, v

\* The values of a byte.
digit == 0 .. RADIX - 1

\* A port is put into the bytes it was got from.
LEMMA PutGet ==
    ASSUME NEW ds \in [1 .. HALF -> digit]
    PROVE  put(get(ds)) = ds
<1>1. \A n : put(n) = digits_of(n, RADIX, HALF)  BY DEF put, digits_of
<1>2. get(ds) = number_of(RADIX, ds)  BY DEF get, number_of
<1>3. RADIX \in Nat \ {0} /\ HALF \in Nat  BY DiscoveryAssumption
<1>4. RaisesTo(RADIX, HALF)  BY RadixPowers, Zenon DEF RaisesTo
<1>5. AreDigits(ds, RADIX, HALF)  BY DEF AreDigits, digit
<1>6. digits_of(number_of(RADIX, ds), RADIX, HALF) = ds  BY <1>3, <1>4, <1>5, DigitsBack
<1>. QED  BY <1>1, <1>2, <1>6

\* A sequence of its own elements.
IsSeq(s) == s \in Seq(ToSet(s))

\* A compact list is cut into entries whose address and port are read as they stand.
LEMMA CompactNames ==
    ASSUME NEW bs \in Seq(digit), NEW w \in Nat
    PROVE  LET resp == parse_compact_peers(bs, w)
           IN  /\ IsSeq(resp.peers) /\ (~ resp.ok => resp.peers = <<>>)
               /\ \A a \in ToSet(resp.peers) : StandsIn(a, bs, w)
<1>. DEFINE e == w + HALF
            resp == parse_compact_peers(bs, w)
            n == Len(bs) \div e
<1>0. HALF \in Nat \ {0} /\ e \in Nat \ {0} /\ Len(bs) \in Nat  BY DiscoveryAssumption, LenProperties
<1>1. CASE Len(bs) % e # 0
  <2>1. resp.peers = <<>>  BY <1>1 DEF parse_compact_peers, NoAnswer
  <2>2. ToSet(<<>>) = {} /\ IsSeq(<<>>)  BY DEF ToSet, IsSeq
  <2>. QED  BY <2>1, <2>2
<1>2. CASE Len(bs) % e = 0
  <2>1. resp = Ok([k \in 1 .. n |-> peer_of(chunk(bs, w, k), w)])
    BY <1>2 DEF parse_compact_peers
  <2>2. resp.ok /\ resp.peers = [k \in 1 .. n |-> peer_of(chunk(bs, w, k), w)]
    BY <2>1 DEF Ok
  <2>3. n \in Nat /\ n * e <= Len(bs)
    <3>. HIDE DEF e
    <3>. QED  BY <1>0, DivMod
  <2>. HIDE DEF n, resp
  <2>4. IsSeq(resp.peers)
    <3>1. \A k \in 1 .. n : peer_of(chunk(bs, w, k), w) \in ToSet(resp.peers)  BY <2>2 DEF ToSet
    <3>. QED  BY <2>2, <2>3, <3>1 DEF IsSeq
  <2>5. ASSUME NEW k \in 1 .. n
        PROVE  StandsIn(peer_of(chunk(bs, w, k), w), bs, w)
    <3>. DEFINE c == chunk(bs, w, k)
                lo == (k - 1) * e + 1
                hi == k * e
    <3>1. lo \in Nat \ {0} /\ hi \in Nat /\ hi <= Len(bs) /\ hi - lo + 1 = e /\ lo <= hi
      <4>. HIDE DEF e
      <4>1. k * e <= n * e /\ (k - 1) * e + e = k * e /\ (k - 1) * e \in Nat /\ k * e \in Nat /\ n * e \in Nat
        BY <1>0, <2>3
      <4>. QED  BY <1>0, <2>3, <4>1
    <3>2. c = SubSeq(bs, lo, hi)  BY DEF chunk
    <3>. HIDE DEF lo, hi, e
    <3>3. c \in Seq(digit) /\ Len(c) = e
      <4>1. \A i \in lo .. hi : bs[i] \in digit  BY <1>0, <3>1, LenProperties
      <4>2. SubSeq(bs, lo, hi) \in Seq(digit)
            /\ Len(SubSeq(bs, lo, hi)) = IF lo <= hi THEN hi - lo + 1 ELSE 0
        BY <3>1, <4>1, SubSeqProperties
      <4>. QED  BY <3>1, <3>2, <4>2
    <3>. HIDE DEF c
    <3>. DEFINE ip == SubSeq(c, 1, w)
                d == SubSeq(c, w + 1, w + HALF)
    <3>4. Len(c) = w + HALF  BY <3>3 DEF e
    <3>5. ip \o d = c
      <4>1. 1 \in 1 .. Len(c) + 1 /\ w \in 1 - 1 .. Len(c) /\ Len(c) \in w .. Len(c)  BY <1>0, <3>4
      <4>2. SubSeq(c, 1, w) \o SubSeq(c, w + 1, Len(c)) = SubSeq(c, 1, Len(c))
        BY <3>3, <4>1, ConcatAdjacentSubSeq
      <4>. QED  BY <3>3, <3>4, <4>2, SubSeqFull
    <3>6. d \in [1 .. HALF -> digit]
      <4>1. \A i \in w + 1 .. w + HALF : c[i] \in digit  BY <1>0, <3>3, <3>4, LenProperties
      <4>2. d \in Seq(digit) /\ Len(d) = IF w + 1 <= w + HALF THEN (w + HALF) - (w + 1) + 1 ELSE 0
        BY <1>0, <4>1, SubSeqProperties
      <4>3. Len(d) = HALF  BY <1>0, <4>2
      <4>. QED  BY <4>2, <4>3, LenProperties
    <3>7. put(get(d)) = d  BY <3>6, PutGet
    <3>. DEFINE a == peer_of(c, w)
    <3>8. a.ip = ip /\ a.port = get(d)  BY DEF peer_of, SocketAddr
    <3>9. c = a.ip \o put(a.port)  BY <3>5, <3>7, <3>8
    <3>10. k \in 1 .. Len(bs) \div (w + HALF)  BY DEF n, e
    <3>. HIDE DEF a
    <3>11. StandsIn(a, bs, w)  BY <3>9, <3>10 DEF StandsIn, c
    <3>. QED  BY <3>11 DEF a, c
  <2>6. \A a \in ToSet(resp.peers) : StandsIn(a, bs, w)  BY <2>2, <2>5 DEF ToSet
  <2>. QED  BY <2>2, <2>4, <2>6 DEF resp
<1>. QED  BY <1>1, <1>2

\* The addresses that a list of dictionaries has usable entries for.
addresses(list) ==
    {SocketAddr(list[i].ip.bytes, list[i].port.int % U16) :
        i \in {j \in DOMAIN list : usable(list[j])}}
\* push_usable as a step over the entries of a list.
push(list) ==
    [p \in Seq(addresses(list)) \X DOMAIN list |-> push_usable(p[1], list[p[2]])]

\* parse_peer_dicts takes an entry at a time.
LEMMA PushRuns ==
    ASSUME NEW n \in Nat, NEW list, DOMAIN list = 1 .. n, list = [i \in 1 .. n |-> list[i]],
           Len(list) = n
    PROVE  \E r : RunTo(FoldLeft(push_usable, <<>>, list), r, n, Seq(addresses(list)), <<>>, push(list))
<1>. DEFINE X == addresses(list)
            Rec(i) == i = [t \in SUBSET (1 .. n) |->
                            IF t = {} THEN <<>> ELSE push_usable(i[t \ {Max(t)}], list[Max(t)])]
            it == CHOOSE i : Rec(i)
            st == push(list)
<1>0. <<>> \in Seq(X)  BY EmptySeq
<1>1. /\ st \in [Seq(X) \X (1 .. n) -> Seq(X)]
      /\ \A v \in Seq(X), k \in 1 .. n : st[<<v, k>>] = push_usable(v, list[k])
  <2>1. ASSUME NEW v \in Seq(X), NEW k \in 1 .. n PROVE push_usable(v, list[k]) \in Seq(X)
    <3>1. usable(list[k]) => SocketAddr(list[k].ip.bytes, list[k].port.int % U16) \in X
      BY DEF addresses
    <3>. HIDE DEF X
    <3>. QED  BY <3>1, AppendProperties DEF push_usable
  <2>2. st = [p \in Seq(X) \X (1 .. n) |-> push_usable(p[1], list[p[2]])]  BY DEF push
  <2>. HIDE DEF st, X
  <2>. QED  BY <2>1, <2>2
<1>. HIDE DEF st, X
<1>2. ASSUME NEW t \in SUBSET (1 .. n), t # {} PROVE Max(t) \in 1 .. n  BY <1>2, LargestOf
<1>3. \E i : Rec(i)
  <2>1. PICK i \in [SUBSET (1 .. n) -> Seq(X)] : Accumulates(i, n, <<>>, st)
    BY <1>0, <1>1, AccumulationExists
  <2>2. ASSUME NEW t \in SUBSET (1 .. n)
        PROVE  i[t] = IF t = {} THEN <<>> ELSE push_usable(i[t \ {Max(t)}], list[Max(t)])
    <3>1. i[t] = IF t = {} THEN <<>> ELSE st[<<i[t \ {Max(t)}], Max(t)>>]
      BY <2>1 DEF Accumulates
    <3>. QED  BY <1>1, <1>2, <3>1
  <2>3. i = [t \in SUBSET (1 .. n) |-> i[t]]  OBVIOUS
  <2>. QED  BY <2>2, <2>3, ZenonT(60)
<1>4. Rec(it)  BY <1>3
<1>5. FoldLeft(push_usable, <<>>, list) = it[1 .. n]  BY DEF FoldLeft, MapThenFoldSet
<1>. HIDE DEF it
<1>6. Iterates(it, n, Seq(X), <<>>, st)
  <2>1. \A t \in SUBSET (1 .. n) :
            it[t] = IF t = {} THEN <<>> ELSE push_usable(it[t \ {Max(t)}], list[Max(t)])
    BY <1>4
  <2>. QED  BY <1>0, <1>1, <1>2, <2>1 DEF Iterates
<1>7. \E r : RunTo(it[1 .. n], r, n, Seq(X), <<>>, st)  BY <1>0, <1>1, <1>6, PrefixesRun
<1>. QED  BY <1>5, <1>7, Zenon DEF st, X

\* Every address of a list of dictionaries stands in an entry.
LEMMA DictNames ==
    ASSUME NEW b, b.kind = "list", IsPeerList(b)
    PROVE  LET resp == parse_peer_dicts(b.list)
           IN  /\ resp.ok /\ IsSeq(resp.peers)
               /\ \A a \in ToSet(resp.peers) : \E k \in DOMAIN b.list :
                      /\ b.list[k].ip = Bytes(a.ip)
                      /\ b.list[k].port.kind = "int"
                      /\ b.list[k].port.int % U16 = a.port
<1>. DEFINE list == b.list
            n == Len(list)
            X == addresses(list)
            v == FoldLeft(push_usable, <<>>, list)
<1>1. list \in Seq(ToSet(list)) /\ \A e \in ToSet(list) : e.ip.kind = "bytes" => e.ip = Bytes(e.ip.bytes)
  BY DEF IsPeerList
<1>. HIDE DEF list
<1>2. n \in Nat /\ DOMAIN list = 1 .. n /\ list = [i \in 1 .. n |-> list[i]]
  BY <1>1, LenProperties
<1>3. PICK r : RunTo(v, r, n, Seq(X), <<>>, push(list))
  <2>. HIDE DEF n
  <2>. QED  BY <1>2, PushRuns DEF n
<1>4. v \in Seq(X)
  <2>1. r \in [0 .. n -> Seq(X)] /\ r[n] = v  BY <1>3, Zenon DEF RunTo, Run
  <2>2. n \in 0 .. n  BY <1>2
  <2>. QED  BY <2>1, <2>2
<1>. DEFINE resp == parse_peer_dicts(list)
<1>5. resp.ok /\ resp.peers = v  BY DEF parse_peer_dicts, Ok
<1>. HIDE DEF v, n, resp
<1>6. ToSet(v) \subseteq X /\ v \in Seq(ToSet(v))
  <2>1. Len(v) \in Nat /\ v \in [1 .. Len(v) -> X] /\ DOMAIN v = 1 .. Len(v)  BY <1>4, LenProperties
  <2>2. v \in [1 .. Len(v) -> ToSet(v)]  BY <2>1 DEF ToSet
  <2>3. v \in Seq(ToSet(v))  BY <2>1, <2>2, SeqDef
  <2>. QED  BY <2>1, <2>3 DEF ToSet
<1>7. ASSUME NEW a \in ToSet(v)
      PROVE  \E k \in DOMAIN list :
                 /\ list[k].ip = Bytes(a.ip)
                 /\ list[k].port.kind = "int"
                 /\ list[k].port.int % U16 = a.port
  <2>1. PICK k \in DOMAIN list : usable(list[k]) /\ a = SocketAddr(list[k].ip.bytes, list[k].port.int % U16)
    BY <1>6 DEF addresses
  <2>2. a.ip = list[k].ip.bytes /\ a.port = list[k].port.int % U16  BY <2>1 DEF SocketAddr
  <2>3. list[k].ip = Bytes(list[k].ip.bytes)  BY <1>1, <2>1 DEF usable, ToSet
  <2>4. list[k].port.kind = "int"  BY <2>1 DEF usable
  <2>5. list[k].ip = Bytes(a.ip) /\ list[k].port.int % U16 = a.port  BY <2>2, <2>3, Zenon
  <2>. QED  BY <2>4, <2>5
<1>8. resp.ok /\ IsSeq(resp.peers)  BY <1>5, <1>6 DEF IsSeq
<1>. QED  BY <1>5, <1>7, <1>8 DEF resp, list

\* What both lists name, one after the other.
LEMMA BothNames ==
    ASSUME NEW s, IsSeq(s), NEW t, IsSeq(t)
    PROVE  IsSeq(s \o t) /\ ToSet(s \o t) = ToSet(s) \cup ToSet(t)
<1>. DEFINE X == ToSet(s) \cup ToSet(t)
            m == Len(s)
            n == Len(t)
            u == s \o t
<1>1. s \in Seq(X) /\ t \in Seq(X)
  <2>1. s \in Seq(ToSet(s)) /\ t \in Seq(ToSet(t))  BY DEF IsSeq
  <2>2. ToSet(s) \subseteq X /\ ToSet(t) \subseteq X  OBVIOUS
  <2>. QED  BY <2>1, <2>2
<1>. HIDE DEF X
<1>2. /\ u \in Seq(X) /\ Len(u) = m + n /\ m \in Nat /\ n \in Nat
      /\ DOMAIN u = 1 .. m + n /\ DOMAIN s = 1 .. m /\ DOMAIN t = 1 .. n
      /\ \A i \in 1 .. m + n : u[i] = IF i <= m THEN s[i] ELSE t[i - m]
  BY <1>1, ConcatProperties, LenProperties
<1>. HIDE DEF u, m, n
<1>3. ToSet(u) \subseteq X
  <2>1. Len(u) \in Nat /\ u \in [1 .. Len(u) -> X]  BY <1>2, LenProperties
  <2>. QED  BY <1>2, <2>1 DEF ToSet
<1>4. \A x \in ToSet(s) : x \in ToSet(u)
  <2>1. \A i \in 1 .. m : i \in 1 .. m + n /\ i <= m  BY <1>2
  <2>2. \A i \in 1 .. m : u[i] = s[i]  BY <1>2, <2>1
  <2>. QED  BY <1>2, <2>1, <2>2 DEF ToSet
<1>5. \A x \in ToSet(t) : x \in ToSet(u)
  <2>1. \A i \in 1 .. n : m + i \in 1 .. m + n /\ ~ (m + i <= m) /\ (m + i) - m = i  BY <1>2
  <2>2. \A i \in 1 .. n : u[m + i] = t[i]  BY <1>2, <2>1
  <2>3. \A i \in 1 .. n : \E j \in 1 .. m + n : u[j] = t[i]  BY <2>1, <2>2
  <2>. QED  BY <1>2, <2>3, ZenonT(60) DEF ToSet
<1>6. ToSet(u) = ToSet(s) \cup ToSet(t)  BY <1>3, <1>4, <1>5 DEF X
<1>. QED  BY <1>2, <1>6 DEF u, X, IsSeq

\* The answers to an announce that are acceptable hold addresses only.
AnswersTyped(f) ==
    \A u \in Urls : f[u] \in (IF scheme(u) = "http" THEN Bodies ELSE Outcomes)

\* An empty list names nobody.
LEMMA EmptyNames == IsSeq(<<>>) /\ ToSet(<<>>) = {}
BY DEF IsSeq, ToSet

\* parse_http_response gives the addresses that stand in the body.
LEMMA HttpNames ==
    ASSUME NEW u, answer[u] \in Bodies
    PROVE  LET resp == parse_http_response(answer[u])
           IN  /\ IsSeq(resp.peers) /\ (~ resp.ok => resp.peers = <<>>)
               /\ \A a \in ToSet(resp.peers) : Names(u, a)
<1>. DEFINE b == answer[u]
            resp == parse_http_response(b)
            Fine(x) == /\ IsSeq(x.peers)
                       /\ \A a \in ToSet(x.peers) : Names(u, a)
<1>0. NoAnswer.peers = <<>> /\ Ok(<<>>).peers = <<>> /\ Ok(<<>>).ok /\ ~ NoAnswer.ok
  BY DEF NoAnswer, Ok
<1>1. CASE resp = NoAnswer
  BY <1>0, <1>1, EmptyNames
<1>2. CASE resp # NoAnswer
  <2>. DEFINE p == CASE b.peers.kind = "bytes" -> parse_compact_peers(b.peers.bytes, V4)
                     [] b.peers.kind = "list" -> parse_peer_dicts(b.peers.list)
                     [] OTHER -> Ok(<<>>)
              q == IF b.peers6.kind = "bytes" THEN parse_compact_peers(b.peers6.bytes, V6)
                                              ELSE Ok(<<>>)
  <2>1. b.kind = "dict" /\ resp = both(p, q)
    BY <1>2 DEF parse_http_response
  <2>2. IsBytes(b.peers) /\ IsPeerList(b.peers) /\ IsBytes(b.peers6) /\ V4 \in Nat /\ V6 \in Nat
    BY <2>1, DiscoveryAssumption
  <2>3. \A a : \/ b.peers.kind = "bytes" /\ StandsIn(a, b.peers.bytes, V4)
               \/ b.peers.kind = "list" /\ \E k \in DOMAIN b.peers.list :
                        /\ b.peers.list[k].ip = Bytes(a.ip)
                        /\ b.peers.list[k].port.kind = "int"
                        /\ b.peers.list[k].port.int % U16 = a.port
               \/ b.peers6.kind = "bytes" /\ StandsIn(a, b.peers6.bytes, V6)
               => Names(u, a)
    BY <2>1 DEF Names
  <2>. HIDE DEF b
  <2>4. Fine(p)
    <3>1. CASE b.peers.kind = "bytes"
      <4>1. p = parse_compact_peers(b.peers.bytes, V4)  BY <3>1
      <4>2. b.peers.bytes \in Seq(digit)  BY <2>2, <3>1 DEF IsBytes, digit
      <4>3. IsSeq(p.peers) /\ \A a \in ToSet(p.peers) : StandsIn(a, b.peers.bytes, V4)
        BY <2>2, <4>1, <4>2, CompactNames
      <4>. QED  BY <2>3, <3>1, <4>3, Zenon
    <3>2. CASE b.peers.kind = "list"
      <4>1. p = parse_peer_dicts(b.peers.list)  BY <3>2
      <4>2. /\ IsSeq(p.peers)
            /\ \A a \in ToSet(p.peers) : \E k \in DOMAIN b.peers.list :
                   /\ b.peers.list[k].ip = Bytes(a.ip)
                   /\ b.peers.list[k].port.kind = "int"
                   /\ b.peers.list[k].port.int % U16 = a.port
        <5>. HIDE DEF p
        <5>. QED  BY <2>2, <3>2, <4>1, DictNames
      <4>. HIDE DEF p
      <4>. QED  BY <2>3, <3>2, <4>2, Zenon
    <3>3. CASE b.peers.kind # "bytes" /\ b.peers.kind # "list"
      <4>1. p = Ok(<<>>)  BY <3>3
      <4>. HIDE DEF p
      <4>. QED  BY <1>0, <4>1, EmptyNames
    <3>. QED  BY <3>1, <3>2, <3>3
  <2>5. Fine(q)
    <3>1. CASE b.peers6.kind = "bytes"
      <4>1. q = parse_compact_peers(b.peers6.bytes, V6)  BY <3>1
      <4>2. b.peers6.bytes \in Seq(digit)  BY <2>2, <3>1 DEF IsBytes, digit
      <4>3. IsSeq(q.peers) /\ \A a \in ToSet(q.peers) : StandsIn(a, b.peers6.bytes, V6)
        BY <2>2, <4>1, <4>2, CompactNames
      <4>. QED  BY <2>3, <3>1, <4>3, Zenon
    <3>2. CASE b.peers6.kind # "bytes"
      <4>1. q = Ok(<<>>)  BY <3>2
      <4>. HIDE DEF q
      <4>. QED  BY <1>0, <4>1, EmptyNames
    <3>. QED  BY <3>1, <3>2
  <2>. HIDE DEF p, q
  <2>6. resp.ok /\ resp.peers = p.peers \o q.peers
    <3>1. resp = Ok(p.peers \o q.peers)  BY <1>2, <2>1, Zenon DEF both
    <3>2. \A s : Ok(s).ok /\ Ok(s).peers = s  BY DEF Ok
    <3>. HIDE DEF resp
    <3>. QED  BY <3>1, <3>2
  <2>7. IsSeq(p.peers \o q.peers) /\ ToSet(p.peers \o q.peers) = ToSet(p.peers) \cup ToSet(q.peers)
    BY <2>4, <2>5, BothNames
  <2>. HIDE DEF resp
  <2>8. IsSeq(resp.peers) /\ \A a \in ToSet(resp.peers) : Names(u, a)
    BY <2>4, <2>5, <2>6, <2>7
  <2>. QED  BY <2>6, <2>8 DEF resp, b
<1>. QED  BY <1>1, <1>2

\* announce gives the addresses that stand in the tracker's answer, if it is read in
\* the family the tracker answers in, and none on an error.
LEMMA AnnounceNames ==
    ASSUME AnswersTyped(answer), NEW u \in Urls
    PROVE  /\ IsSeq(announce(u).peers) /\ (~ announce(u).ok => announce(u).peers = <<>>)
           /\ \A a \in ToSet(announce(u).peers) : u \in Over6 \/ Names(u, a)
<1>0. NoAnswer.peers = <<>>  BY DEF NoAnswer
<1>1. CASE scheme(u) = "http"
  <2>1. answer[u] \in Bodies  BY <1>1 DEF AnswersTyped
  <2>2. announce(u) = parse_http_response(answer[u])  BY <1>1 DEF announce
  <2>. QED  BY <2>1, <2>2, HttpNames
<1>2. CASE scheme(u) = "udp" /\ answer[u].kind = "bytes"
  <2>1. answer[u] \in Outcomes  BY <1>2 DEF AnswersTyped
  <2>2. answer[u].bytes \in Seq(digit) /\ V4 \in Nat
    BY <1>2, <2>1, DiscoveryAssumption DEF IsBytes, digit
  <2>3. announce(u) = parse_compact_peers(answer[u].bytes, V4)  BY <1>2 DEF announce
  <2>4. \A a : StandsIn(a, answer[u].bytes, V4) => u \in Over6 \/ Names(u, a)
    BY <1>2 DEF Names, width
  <2>. QED  BY <2>2, <2>3, <2>4, CompactNames
<1>3. CASE scheme(u) # "http" /\ ~ (scheme(u) = "udp" /\ answer[u].kind = "bytes")
  <2>1. announce(u) = NoAnswer  BY <1>3 DEF announce
  <2>. QED  BY <1>0, <2>1, EmptyNames
<1>. QED  BY <1>1, <1>2, <1>3

\* all_trackers names every tracker of the torrent, once.
LEMMA TrackersOnce ==
    ASSUME NEW t \in Torrents
    PROVE  /\ all_trackers(t) \in Seq(Urls) /\ NoRepetition(all_trackers(t))
           /\ ToSet(all_trackers(t)) = ToSet(t.announce \o FlattenSeq(t.announce_list))
<1>. DEFINE s == t.announce \o FlattenSeq(t.announce_list)
<1>1. s \in Seq(Urls)  BY DiscoveryAssumption
<1>2. all_trackers(t) = FoldLeft(append_new, <<>>, s)  BY DEF all_trackers, first_appearances
<1>. HIDE DEF s
<1>3. <<>> \in Seq(Urls) /\ NoRepetition(<<>>)  BY EmptySeq DEF NoRepetition
<1>4. FoldLeft(append_new, <<>>, s) \in Seq(Urls) /\ NoRepetition(FoldLeft(append_new, <<>>, s))
      /\ ToSet(FoldLeft(append_new, <<>>, s)) = ToSet(<<>>) \cup ToSet(s)
  BY <1>1, <1>3, AppendNewAll
<1>. QED  BY <1>2, <1>4, EmptyNames DEF s

\* The trackers are asked in the order of the list; while no peer is known, the
\* queue is what is left of it and nobody asked had an answer; the first peers
\* empty the queue.
InOrder ==
    /\ contacted \in Seq(Urls) /\ Len(contacted) <= Len(all_trackers(torrent))
    /\ \A i \in 1 .. Len(contacted) : contacted[i] = all_trackers(torrent)[i]
RestQueued ==
    peers = <<>> =>
        /\ Len(queue) = Len(all_trackers(torrent)) - Len(contacted)
        /\ \A i \in 1 .. Len(queue) : queue[i] = all_trackers(torrent)[Len(contacted) + i]
        /\ \A i \in 1 .. Len(contacted) : announce(contacted[i]).peers = <<>>
DiscoveryInv ==
    /\ torrent \in Torrents /\ AnswersTyped(answer) /\ queue \in Seq(Urls)
    /\ InOrder
    /\ RestQueued
    /\ queue # <<>> => peers = <<>>
    /\ phase = "none" => peers = <<>> /\ queue = <<>>
    /\ PeersNamed

\* It holds before the first announce ...
LEMMA DiscoveryInitInv == DiscoveryInit => DiscoveryInv
<1>. SUFFICES ASSUME DiscoveryInit PROVE DiscoveryInv
  OBVIOUS
<1>. DEFINE A == all_trackers(torrent)
<1>1. torrent \in Torrents /\ AnswersTyped(answer) /\ queue = A /\ contacted = <<>> /\ peers = <<>>
      /\ phase = "asking"
  BY DEF DiscoveryInit, AnswersTyped
<1>2. A \in Seq(Urls)  BY <1>1, TrackersOnce
<1>. HIDE DEF A
<1>3. Len(A) \in Nat /\ Len(<<>>) = 0 /\ <<>> \in Seq(Urls) /\ 1 .. 0 = {}
  BY <1>2, LenProperties, EmptySeq
<1>4. InOrder  BY <1>1, <1>3 DEF InOrder, A
<1>5. RestQueued
  <2>1. Len(queue) = Len(A) - Len(contacted)  BY <1>1, <1>3
  <2>2. \A i \in 1 .. Len(A) : Len(contacted) + i = i  BY <1>1, <1>3
  <2>3. \A i \in 1 .. Len(queue) : queue[i] = A[Len(contacted) + i]  BY <1>1, <2>2
  <2>4. 1 .. Len(contacted) = {}  BY <1>1, <1>3
  <2>. QED  BY <2>1, <2>3, <2>4 DEF RestQueued, A
<1>6. PeersNamed  BY <1>1 DEF PeersNamed
<1>. QED  BY <1>1, <1>2, <1>4, <1>5, <1>6 DEF DiscoveryInv

\* ... an announce keeps it ...
LEMMA AskInv == DiscoveryInv /\ Ask => DiscoveryInv'
<1>. SUFFICES ASSUME DiscoveryInv, Ask PROVE DiscoveryInv'
  OBVIOUS
<1>. DEFINE A == all_trackers(torrent)
            u == Head(queue)
            resp == announce(u)
            n == Len(contacted)
<1>1. /\ torrent' = torrent /\ answer' = answer /\ phase' = phase /\ phase = "asking"
      /\ queue # <<>> /\ contacted' = Append(contacted, u)
      /\ peers' = FoldLeft(append_new, peers, resp.peers)
      /\ queue' = IF enough(resp, peers') THEN <<>> ELSE Tail(queue)
  BY DEF Ask
<1>2. torrent \in Torrents /\ AnswersTyped(answer) /\ queue \in Seq(Urls) /\ peers = <<>>
  BY <1>1 DEF DiscoveryInv
<1>3. u \in Urls /\ Tail(queue) \in Seq(Urls) /\ Len(queue) \in Nat \ {0} /\ Len(Tail(queue)) = Len(queue) - 1
      /\ u = queue[1] /\ \A i \in 1 .. Len(queue) - 1 : Tail(queue)[i] = queue[i + 1]
  BY <1>1, <1>2, HeadTailProperties, LenProperties, EmptySeq
<1>4. IsSeq(resp.peers) /\ (~ resp.ok => resp.peers = <<>>) /\ \A a \in ToSet(resp.peers) : u \in Over6 \/ Names(u, a)
  BY <1>2, <1>3, AnnounceNames
<1>5. A' = A /\ \A x : announce(x)' = announce(x)
  BY <1>1 DEF all_trackers, announce
<1>6. A \in Seq(Urls) /\ Len(A) \in Nat  BY <1>2, TrackersOnce, LenProperties
<1>7. /\ contacted \in Seq(Urls) /\ n \in Nat /\ n <= Len(A)
      /\ \A i \in 1 .. n : contacted[i] = A[i]
      /\ Len(queue) = Len(A) - n
      /\ \A i \in 1 .. Len(queue) : queue[i] = A[n + i]
      /\ \A i \in 1 .. n : announce(contacted[i]).peers = <<>>
  BY <1>2, LenProperties DEF DiscoveryInv, InOrder, RestQueued
<1>8. ToSet(peers') = ToSet(resp.peers) /\ peers' \in Seq(ToSet(resp.peers)) /\ NoRepetition(peers')
  <2>1. resp.peers \in Seq(ToSet(resp.peers)) /\ <<>> \in Seq(ToSet(resp.peers)) /\ NoRepetition(<<>>)
    BY <1>4, EmptySeq DEF IsSeq, NoRepetition
  <2>. DEFINE s == resp.peers
              X == ToSet(s)
              w == FoldLeft(append_new, <<>>, s)
  <2>2. peers' = w  BY <1>1, <1>2
  <2>3. w \in Seq(X) /\ ToSet(w) = ToSet(<<>>) \cup ToSet(s) /\ NoRepetition(w)
    <3>. HIDE DEF s, X
    <3>1. s \in Seq(X) /\ <<>> \in Seq(X)  BY <2>1 DEF s, X
    <3>. QED  BY <2>1, <3>1, AppendNewAll
  <2>. HIDE DEF w
  <2>. QED  BY <2>2, <2>3, EmptyNames
<1>. HIDE DEF A, u, resp, n
<1>9. /\ contacted' \in Seq(Urls) /\ Len(contacted') = n + 1
      /\ (\A i \in 1 .. n : contacted'[i] = contacted[i]) /\ contacted'[n + 1] = u
  BY <1>1, <1>3, <1>7, AppendProperties DEF n
<1>10. \A i \in 1 .. n + 1 : i \in 1 .. n \/ i = n + 1  BY <1>7
<1>11. InOrder'
  <2>1. n + 1 <= Len(A)  BY <1>3, <1>6, <1>7
  <2>2. u = A[n + 1]
    <3>1. 1 \in 1 .. Len(queue)  BY <1>3
    <3>. QED  BY <1>3, <1>7, <3>1
  <2>3. \A i \in 1 .. n + 1 : contacted'[i] = A[i]  BY <1>7, <1>9, <1>10, <2>2
  <2>4. contacted' \in Seq(Urls) /\ Len(contacted') <= Len(A') /\ \A i \in 1 .. Len(contacted') : contacted'[i] = A'[i]
    BY <1>5, <1>9, <2>1, <2>3
  <2>. QED  BY <2>4 DEF InOrder, A
<1>12. peers' = <<>> => resp.peers = <<>>
  <2>. SUFFICES ASSUME peers' = <<>> PROVE resp.peers = <<>>
    OBVIOUS
  <2>1. ToSet(resp.peers) = {}  BY <1>8, EmptyNames
  <2>2. resp.peers \in Seq({})  BY <1>4, <2>1 DEF IsSeq
  <2>3. Len(resp.peers) = 0
    <3>1. Len(resp.peers) \in Nat /\ resp.peers \in [1 .. Len(resp.peers) -> {}]  BY <2>2, LenProperties
    <3>2. 1 \notin 1 .. Len(resp.peers)  BY <3>1
    <3>. QED  BY <3>1, <3>2
  <2>. QED  BY <2>2, <2>3, EmptySeq
<1>13. resp.peers = <<>> => peers' = <<>>  BY <1>1, <1>2, <1>8, EmptyNames, EmptySeq
<1>14. CASE peers' = <<>>
  <2>1. queue' = Tail(queue)  BY <1>1, <1>14 DEF enough
  <2>2. Len(queue') = Len(A) - (n + 1)  BY <1>3, <1>6, <1>7, <2>1
  <2>3. ASSUME NEW i \in 1 .. Len(queue') PROVE queue'[i] = A[(n + 1) + i]
    <3>1. i \in 1 .. Len(queue) - 1 /\ i + 1 \in 1 .. Len(queue) /\ n + (i + 1) = (n + 1) + i
      BY <1>3, <1>7, <2>1
    <3>. QED  BY <1>3, <1>7, <2>1, <3>1
  <2>4. \A i \in 1 .. n + 1 : announce(contacted'[i]).peers = <<>>
    <3>1. announce(u).peers = <<>>  BY <1>12, <1>14 DEF resp
    <3>. QED  BY <1>7, <1>9, <1>10, <3>1
  <2>5. \A i \in 1 .. n + 1 : (announce(contacted[i]).peers)' = <<>>
    <3>1. \A x : (announce(x).peers)' = announce(x).peers  BY <1>5
    <3>2. ASSUME NEW i \in 1 .. n + 1 PROVE (announce(contacted[i]).peers)' = announce(contacted'[i]).peers
      BY <1>1 DEF announce
    <3>. QED  BY <2>4, <3>2
  <2>6. RestQueued'
    <3>1. Len(contacted)' = n + 1 /\ A' = A  BY <1>5, <1>9
    <3>. QED  BY <2>2, <2>3, <2>5, <3>1 DEF RestQueued, A
  <2>7. PeersNamed'  BY <1>14 DEF PeersNamed
  <2>8. (torrent \in Torrents)' /\ AnswersTyped(answer)' /\ (queue \in Seq(Urls))'  BY <1>1, <1>2, <1>3, <2>1 DEF AnswersTyped
  <2>. QED  BY <1>1, <1>11, <1>14, <2>6, <2>7, <2>8 DEF DiscoveryInv
<1>15. CASE peers' # <<>>
  <2>1. resp.ok  BY <1>4, <1>13, <1>15
  <2>2. queue' = <<>>  BY <1>1, <1>15, <2>1 DEF enough
  <2>3. RestQueued'  BY <1>15 DEF RestQueued
  <2>4. Last(contacted') = u  BY <1>9 DEF Last
  <2>5. ASSUME NEW k \in DOMAIN peers' PROVE u \in Over6 \/ Names(u, peers'[k])
    <3>1. peers'[k] \in ToSet(peers')  BY DEF ToSet
    <3>. QED  BY <1>4, <1>8, <3>1
  <2>6. \A k \in DOMAIN peers' : (Last(contacted) \in Over6 \/ Names(Last(contacted), peers[k]))'
    <3>. TAKE k \in DOMAIN peers'
    <3>1. u \in Over6 \/ Names(u, peers'[k])  BY <2>5
    <3>. QED  BY <1>1, <2>4, <3>1 DEF Names, width
  <2>7. PeersNamed'  BY <1>8, <2>6 DEF PeersNamed, NoRepetition
  <2>8. (torrent \in Torrents)' /\ AnswersTyped(answer)' /\ (queue \in Seq(Urls))'
    BY <1>1, <1>2, <2>2, EmptySeq DEF AnswersTyped
  <2>. QED  BY <1>1, <1>11, <1>15, <2>2, <2>3, <2>7, <2>8 DEF DiscoveryInv
<1>. QED  BY <1>14, <1>15

\* ... and so does a step that asks nobody.
LEMMA DiscoveryStill ==
    DiscoveryInv /\ UNCHANGED <<torrent, answer, queue, contacted, peers>>
        /\ (phase' = "none" => peers = <<>> /\ queue = <<>>) => DiscoveryInv'
BY DEF DiscoveryInv, InOrder, RestQueued, PeersNamed, AnswersTyped, all_trackers, announce, Names,
       width

\* What the search has done so far is right at every point.
LEMMA DiscoveryInvHolds == DiscoverySpec => []DiscoveryInv
<1>1. DiscoveryInv /\ [DiscoveryNext]_discoveryVars => DiscoveryInv'
  <2>. SUFFICES ASSUME DiscoveryInv, [DiscoveryNext]_discoveryVars PROVE DiscoveryInv'
    OBVIOUS
  <2>1. CASE Ask  BY <2>1, AskInv
  <2>2. CASE Conclude
    <3>1. UNCHANGED <<torrent, answer, queue, contacted, peers>>
          /\ (phase' = "none" => peers = <<>> /\ queue = <<>>)
      BY <2>2 DEF Conclude
    <3>. QED  BY <3>1, DiscoveryStill
  <2>3. CASE UNCHANGED discoveryVars
    <3>1. UNCHANGED <<torrent, answer, queue, contacted, peers>>
          /\ (phase' = "none" => peers = <<>> /\ queue = <<>>)
      BY <2>3 DEF discoveryVars, DiscoveryInv
    <3>. QED  BY <3>1, DiscoveryStill
  <2>. QED  BY <2>1, <2>2, <2>3 DEF DiscoveryNext
<1>. QED  BY <1>1, DiscoveryInitInv, PTL DEF DiscoverySpec

\* The engine is given every peer once, and unless the tracker asked last is a UDP
\* tracker over IPv6, only peers that it has named, with the port the answer gives:
\* for every torrent, every answer of the trackers, every size of addresses and ports.
THEOREM DiscoveryPeersNamed == DiscoverySpec => []PeersNamed
<1>1. DiscoveryInv => PeersNamed  BY DEF DiscoveryInv
<1>. QED  BY <1>1, DiscoveryInvHolds, PTL

\* The search gives up only when all the trackers of all the tiers were asked
\* and none of them had an acceptable answer with a peer, and it asks none twice.
THEOREM DiscoveryNoneOverlooked == DiscoverySpec => []NoneOverlooked
<1>1. DiscoveryInv => NoneOverlooked
  <2>. SUFFICES ASSUME DiscoveryInv PROVE NoneOverlooked
    OBVIOUS
  <2>. DEFINE A == all_trackers(torrent)
              n == Len(contacted)
  <2>1. torrent \in Torrents /\ InOrder  BY DEF DiscoveryInv
  <2>2. A \in Seq(Urls) /\ NoRepetition(A)
        /\ ToSet(A) = ToSet(torrent.announce \o FlattenSeq(torrent.announce_list))
    BY <2>1, TrackersOnce
  <2>. HIDE DEF A
  <2>3. Len(A) \in Nat /\ DOMAIN A = 1 .. Len(A) /\ n \in Nat /\ n <= Len(A) /\ DOMAIN contacted = 1 .. n
        /\ \A i \in 1 .. n : contacted[i] = A[i]
    BY <2>1, <2>2, LenProperties DEF InOrder, A
  <2>. HIDE DEF n
  <2>4. ASSUME NEW j \in DOMAIN contacted, NEW k \in DOMAIN contacted, contacted[j] = contacted[k]
        PROVE  j = k
    <3>1. j \in DOMAIN A /\ k \in DOMAIN A  BY <2>3
    <3>2. A[j] = A[k]  BY <2>3, <2>4
    <3>. QED  BY <2>2, <3>1, <3>2 DEF NoRepetition
  <2>5. ASSUME phase = "none", NEW u \in ToSet(A) PROVE announce(u).peers = <<>>
    <3>1. peers = <<>> /\ queue = <<>>  BY <2>5 DEF DiscoveryInv
    <3>2. Len(queue) = Len(A) - n /\ \A i \in 1 .. n : announce(contacted[i]).peers = <<>>
      BY <3>1 DEF DiscoveryInv, RestQueued, A, n
    <3>3. n = Len(A)
      <4>1. Len(queue) = 0  BY <3>1
      <4>2. Len(A) \in Nat /\ n \in Nat /\ 0 = Len(A) - n  BY <2>3, <3>2, <4>1
      <4>. QED  BY <4>2
    <3>4. PICK i \in 1 .. Len(A) : u = A[i]  BY <2>3 DEF ToSet
    <3>. QED  BY <2>3, <3>2, <3>3, <3>4
  <2>. QED  BY <2>2, <2>4, <2>5 DEF NoneOverlooked
<1>. QED  BY <1>1, DiscoveryInvHolds, PTL
=============================================================================
