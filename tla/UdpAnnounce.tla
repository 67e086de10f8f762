---------------------------- MODULE UdpAnnounce ----------------------------
(***************************************************************************)
(* One announce to a UDP tracker (src/src/tracker/udp.rs): connect, then   *)
(* announce, each with retries, over a network that loses, delays,         *)
(* reorders and duplicates datagrams.  The tracker is external.            *)
(***************************************************************************)
EXTENDS Naturals, FiniteSets

CONSTANTS
    MAX_ATTEMPTS,
    ConnectionIds,      \* what the tracker hands out: bounds its answers to connects
    Answers,            \* sizes of the tracker's replies to a good announce, in bytes
    EarlierTxns         \* announces made before from the same local port

VARIABLES
    step,       \* "connect", "announce", "ok" or "failed"
    error,      \* the error of a failed announce, else "none"
    attempts,   \* requests sent in this exchange
    waiting,    \* recv is pending
    connection_id,
    requests, replies,  \* datagrams on their way; one stays as long as copies may come
    issued,     \* tracker: connection ids it has given out and still takes
    registered  \* tracker: transactions of the announces it has taken

clientVars == <<step, error, attempts, waiting, connection_id>>
udpVars == <<clientVars, requests, replies, issued, registered>>

\* The transaction ids drawn up front; ids of 32 random bits are taken not to
\* collide with earlier ones.
connect_txn == "c"
announce_txn == "a"

ASSUME UdpAssumption ==
    /\ MAX_ATTEMPTS \in Nat \ {0} /\ Answers \subseteq Nat
    /\ announce_txn \notin EarlierTxns /\ connect_txn \notin EarlierTxns

NoId == "no id"
CONNECT_RESPONSE_LEN == 16
ANNOUNCE_RESPONSE_HEADER_LEN == 20
COMPACT_PEER_V4_LEN == 6

Reply(action, txn, payload, size) ==
    [action |-> action, txn |-> txn, payload |-> payload, size |-> size]
build_connect_request == [action |-> "connect", txn |-> connect_txn]
build_announce_request == [action |-> "announce", txn |-> announce_txn, id |-> connection_id]

UdpInit ==
    /\ step = "connect"
    /\ error = "none"
    /\ attempts = 0
    /\ waiting = FALSE
    /\ connection_id = NoId
    /\ requests = {}
    /\ replies = {Reply("announce", t, "peers", ANNOUNCE_RESPONSE_HEADER_LEN) : t \in EarlierTxns}
    /\ issued = {}
    /\ registered = EarlierTxns
---------------------------------------------------------------------------
\* exchange: send, and wait for a datagram until ATTEMPT_TIMEOUT.
Send ==
    /\ step \in {"connect", "announce"}
    /\ ~ waiting
    /\ attempts < MAX_ATTEMPTS
    /\ requests' = requests \cup {IF step = "connect" THEN build_connect_request
                                                    ELSE build_announce_request}
    /\ attempts' = attempts + 1
    /\ waiting' = TRUE
    /\ UNCHANGED <<step, error, connection_id, replies, issued, registered>>

Fail(e) ==
    /\ step' = "failed" /\ error' = e
    /\ UNCHANGED connection_id

\* The time of an attempt is over; after the last one the exchange gives up.
Timeout_forever ==
    /\ waiting
    /\ waiting' = FALSE
    /\ attempts' = 0
    /\ UNCHANGED <<step, error, connection_id, requests, replies, issued, registered>>
Timeout ==
    /\ waiting
    /\ waiting' = FALSE
    /\ IF attempts = MAX_ATTEMPTS THEN Fail("timeout") ELSE UNCHANGED <<step, error, connection_id>>
    /\ UNCHANGED <<attempts, requests, replies, issued, registered>>

\* The name does not resolve, the socket cannot be bound, or it reports an error,
\* such as the ICMP answer of a closed port, when sending or receiving.
SocketError ==
    /\ step \in {"connect", "announce"}
    /\ waiting' = FALSE
    /\ Fail("io")
    /\ UNCHANGED <<attempts, requests, replies, issued, registered>>

parse_connect_response(r) ==
    CASE r.size < CONNECT_RESPONSE_LEN -> "protocol"
      [] r.size >= CONNECT_RESPONSE_LEN /\ r.txn # connect_txn -> "mismatch"
      [] OTHER -> IF r.action = "connect" THEN "none" ELSE "protocol"

parse_announce_response_any(r) ==
    IF r.size < ANNOUNCE_RESPONSE_HEADER_LEN \/ r.action # "announce" THEN "protocol" ELSE "none"
parse_announce_response(r) ==
    CASE r.size < 8 -> "protocol"
      [] r.size >= 8 /\ r.txn # announce_txn -> "mismatch"
      [] r.size >= 8 /\ r.txn = announce_txn /\ r.action = "error" -> "tracker"
      [] OTHER ->
             IF r.action # "announce" \/ r.size < ANNOUNCE_RESPONSE_HEADER_LEN THEN "protocol"
             ELSE IF (r.size - ANNOUNCE_RESPONSE_HEADER_LEN) % COMPACT_PEER_V4_LEN = 0
             THEN "none" ELSE "peers data"

\* recv returns the first datagram to come, whatever it answers.
ConnectReply(r) ==
    /\ step = "connect" /\ waiting
    /\ waiting' = FALSE
    /\ LET e == parse_connect_response(r)
       IN  IF e # "none" THEN Fail(e) /\ UNCHANGED attempts
           ELSE /\ step' = "announce"
                /\ connection_id' = r.payload
                /\ attempts' = 0
                /\ UNCHANGED error
    /\ UNCHANGED <<requests, issued, registered>>

AnnounceReply(r) ==
    /\ step = "announce" /\ waiting
    /\ waiting' = FALSE
    /\ LET e == parse_announce_response(r)
       IN  IF e # "none" THEN Fail(e) ELSE step' = "ok" /\ UNCHANGED <<error, connection_id>>
    /\ UNCHANGED <<attempts, requests, issued, registered>>

\* The datagram may come again later.
Receive ==
    \E r \in replies :
        /\ ConnectReply(r) \/ AnnounceReply(r)
        /\ replies' \in {replies, replies \ {r}}
---------------------------------------------------------------------------
\* The tracker.  It gives every connect request it sees a connection id.
TrackerConnects(c) ==
    /\ build_connect_request \in requests
    /\ c \notin issued
    /\ issued' = issued \cup {c}
    /\ replies' = replies \cup {Reply("connect", connect_txn, c, CONNECT_RESPONSE_LEN)}
    /\ UNCHANGED <<clientVars, requests, registered>>

TrackerAnswers(q, n) ==
    /\ q.action = "announce" /\ q.id \in issued
    /\ registered' = registered \cup {q.txn}
    /\ replies' = replies \cup {Reply("announce", q.txn, "peers", n)}
    /\ UNCHANGED <<clientVars, requests, issued>>

\* It does not know the torrent, or not (any more) the connection id.
TrackerRefuses(q) ==
    /\ q.action = "announce"
    /\ replies' = replies \cup {Reply("error", q.txn, "reason", 12)}
    /\ UNCHANGED <<clientVars, requests, issued, registered>>

Expire(c) ==
    /\ c \in issued
    /\ issued' = issued \ {c}
    /\ UNCHANGED <<clientVars, requests, replies, registered>>

Tracker ==
    \/ \E c \in ConnectionIds : TrackerConnects(c) \/ Expire(c)
    \/ \E q \in requests : TrackerRefuses(q) \/ \E n \in Answers : TrackerAnswers(q, n)

Client == Send \/ Timeout \/ SocketError \/ Receive

UdpNext == Client \/ Tracker

UdpSpec == UdpInit /\ [][UdpNext]_udpVars

\* tokio runs the client's task and its timers; nothing is asked of the network.
UdpFairness == WF_udpVars(Send) /\ WF_udpVars(Timeout)
FairUdpSpec == UdpSpec /\ UdpFairness
-----------------------------------------------------------------------------
Done == step \in {"ok", "failed"}

\* An announce that succeeds has been taken by the tracker: no reply to an
\* earlier announce, or to the connect, can stand in for the answer.
OkIsRegistered == step = "ok" => announce_txn \in registered

\* However little of the network works, an announce that has sent its first
\* request comes to an end.
AnnounceEnds == waiting ~> Done

\* The comment on `exchange` says it awaits a reply to its request and retries
\* on time-outs: a transaction of some other exchange is then no reply to it, and
\* no well-behaved tracker makes the announce fail.
LateReplyHarmless == error # "mismatch"
=============================================================================
