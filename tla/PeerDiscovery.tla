--------------------------- MODULE PeerDiscovery ---------------------------
(***************************************************************************)
(* How a download finds its peers: the trackers a .torrent names           *)
(* (all_trackers of src/src/metainfo.rs), the loop that asks them one by   *)
(* one (collect_peers of src/src/main.rs, the same loop in gui/src/main.rs)*)
(* and what their answers mean (src/src/tracker/mod.rs).  A byte is a      *)
(* number below RADIX; an address takes V4 or V6 bytes and a port HALF.    *)
(***************************************************************************)
EXTENDS Integers, Sequences, SequencesExt

CONSTANTS
    RADIX, V4, V6, HALF,
    Urls,           \* tracker URLs
    scheme(_),      \* of a URL: "http", "udp" or another
    Over6,          \* the UDP trackers whose name resolves to an IPv6 address first
    Torrents,       \* [announce, announce_list] of the torrents looked at
    Bodies,         \* answers of an HTTP tracker, as bencode values
    Outcomes        \* of a UDP announce: Bytes(compact peers), or Nothing

VARIABLES
    torrent,
    answer,     \* what each tracker would answer
    queue,      \* trackers still to ask
    contacted,  \* trackers asked, in order
    peers,
    phase       \* "asking", "found", "none"

discoveryVars == <<torrent, answer, queue, contacted, peers, phase>>

Nothing == [kind |-> "nothing"]     \* an absent key, or a request that failed
Bytes(b) == [kind |-> "bytes", bytes |-> b]
Int64(n) == [kind |-> "int", int |-> n]
List(l) == [kind |-> "list", list |-> l]

\* Bytes are digits, and an answer is one of the bencode values a key may have.
IsBytes(v) == v.kind = "bytes" => v.bytes \in Seq(0 .. RADIX - 1)
IsPeerList(v) ==
    v.kind = "list" =>
        /\ v.list \in Seq(ToSet(v.list))
        /\ \A e \in ToSet(v.list) : e.ip.kind = "bytes" => e.ip = Bytes(e.ip.bytes)

ASSUME DiscoveryAssumption ==
    /\ RADIX \in Nat \ {0} /\ HALF \in Nat \ {0} /\ V4 \in Nat /\ V6 \in Nat
    /\ Over6 \subseteq {u \in Urls : scheme(u) = "udp"}
    /\ \A t \in Torrents : t.announce \o FlattenSeq(t.announce_list) \in Seq(Urls)
    /\ \A o \in Outcomes : o.kind \in {"bytes", "nothing"} /\ IsBytes(o)
    /\ \A b \in Bodies :
          /\ b.kind \in {"dict", "nothing"}
          /\ b.kind = "dict" => IsBytes(b.peers) /\ IsPeerList(b.peers) /\ IsBytes(b.peers6)

\* What ^ means, as far as the digits of a port need it.
ASSUME RadixPowers ==
    RADIX^0 = 1 /\ \A k \in 0 .. HALF - 1 : RADIX^(k + 1) = RADIX * RADIX^k

U16 == RADIX^HALF
put(n) == [k \in 1 .. HALF |-> (n \div RADIX^(HALF - k)) % RADIX]
get(bs) == FoldLeft(LAMBDA n, b : n * RADIX + b, 0, bs)
SocketAddr(ip, port) == [ip |-> ip, port |-> port]
---------------------------------------------------------------------------
NoAnswer == [ok |-> FALSE, peers |-> <<>>]
Ok(ps) == [ok |-> TRUE, peers |-> ps]

\* parse_compact_peers_v4 and _v6: entries of w address bytes and a port.
chunk(bs, w, k) == SubSeq(bs, (k - 1) * (w + HALF) + 1, k * (w + HALF))
peer_of_swapped(c, w) == SocketAddr(SubSeq(c, 1, w), get(Reverse(SubSeq(c, w + 1, w + HALF))))
peer_of(c, w) == SocketAddr(SubSeq(c, 1, w), get(SubSeq(c, w + 1, w + HALF)))
parse_compact_peers(bs, w) ==
    IF Len(bs) % (w + HALF) # 0 THEN NoAnswer
    ELSE Ok([k \in 1 .. Len(bs) \div (w + HALF) |-> peer_of(chunk(bs, w, k), w)])

\* parse_peer_dicts: entries of another shape, or whose `ip` is no literal
\* address (here the empty sequence), are left out; the port is cast `as u16`.
usable(e) == e.ip.kind = "bytes" /\ e.port.kind = "int" /\ e.ip.bytes # <<>>
push_usable(ps, e) ==
    IF usable(e) THEN Append(ps, SocketAddr(e.ip.bytes, e.port.int % U16)) ELSE ps
parse_peer_dicts(list) == Ok(FoldLeft(push_usable, <<>>, list))

\* parse_http_response.  A body is Nothing when it is no bencode dictionary.
both(a, b) == IF a.ok /\ b.ok THEN Ok(a.peers \o b.peers) ELSE NoAnswer
parse_http_response(body) ==
    IF body.kind # "dict" THEN NoAnswer
    ELSE IF body.failure.kind = "bytes" THEN NoAnswer
    ELSE both(CASE body.peers.kind = "bytes" -> parse_compact_peers(body.peers.bytes, V4)
                [] body.peers.kind = "list" -> parse_peer_dicts(body.peers.list)
                [] OTHER -> Ok(<<>>),
              IF body.peers6.kind = "bytes" THEN parse_compact_peers(body.peers6.bytes, V6)
                                            ELSE Ok(<<>>))

\* tracker::announce: by the scheme of the URL.  parse_announce_response takes the
\* entries of a UDP tracker for IPv4 ones, over IPv6 too.
announce(url) ==
    CASE scheme(url) = "http" -> parse_http_response(answer[url])
      [] scheme(url) = "udp" -> IF answer[url].kind = "bytes"
                                THEN parse_compact_peers(answer[url].bytes, V4) ELSE NoAnswer
      [] OTHER -> NoAnswer
---------------------------------------------------------------------------
\* A sequence without the repetitions of what it had before.
append_new(s, x) == IF Contains(s, x) THEN s ELSE Append(s, x)
first_appearances(s) == FoldLeft(append_new, <<>>, s)

all_trackers(t) == first_appearances(t.announce \o FlattenSeq(t.announce_list))

DiscoveryInit ==
    /\ torrent \in Torrents
    /\ answer \in {f \in [Urls -> Bodies \cup Outcomes] :
                      \A u \in Urls : f[u] \in (IF scheme(u) = "http" THEN Bodies ELSE Outcomes)}
    /\ queue = all_trackers(torrent)
    /\ contacted = <<>>
    /\ peers = <<>>
    /\ phase = "asking"

\* One turn of collect_peers: a tracker that fails, or has no peers, is passed
\* over, and the first peers end the search.
enough_ok(resp, ps) == resp.ok
enough(resp, ps) == resp.ok /\ ps # <<>>

Ask ==
    /\ phase = "asking" /\ queue # <<>>
    /\ LET resp == announce(Head(queue))
       IN  /\ peers' = FoldLeft(append_new, peers, resp.peers)
           /\ queue' = IF enough(resp, peers') THEN <<>> ELSE Tail(queue)
    /\ contacted' = Append(contacted, Head(queue))
    /\ UNCHANGED <<torrent, answer, phase>>

Conclude ==
    /\ phase = "asking" /\ queue = <<>>
    /\ phase' = IF peers = <<>> THEN "none" ELSE "found"
    /\ UNCHANGED <<torrent, answer, queue, contacted, peers>>

DiscoveryNext == Ask \/ Conclude

DiscoverySpec == DiscoveryInit /\ [][DiscoveryNext]_discoveryVars
-----------------------------------------------------------------------------
\* The address a stands in bs, at the place of an entry.
StandsIn(a, bs, w) ==
    \E k \in 1 .. Len(bs) \div (w + HALF) : chunk(bs, w, k) = a.ip \o put(a.port)

\* A tracker's answer names a peer.  By the protocol the entries of a UDP tracker are
\* of the family it was reached over, as those of the two HTTP keys are of theirs; the
\* port of a dictionary entry counts modulo the range of u16.
width(url) == IF url \in Over6 THEN V6 ELSE V4
Names(url, a) ==
    LET r == answer[url]
    IN  CASE r.kind = "bytes" -> StandsIn(a, r.bytes, width(url))
          [] r.kind = "dict" ->
                 \/ r.peers.kind = "bytes" /\ StandsIn(a, r.peers.bytes, V4)
                 \/ r.peers.kind = "list" /\ \E k \in DOMAIN r.peers.list :
                        /\ r.peers.list[k].ip = Bytes(a.ip)
                        /\ r.peers.list[k].port.kind = "int"
                        /\ r.peers.list[k].port.int % U16 = a.port
                 \/ r.peers6.kind = "bytes" /\ StandsIn(a, r.peers6.bytes, V6)
          [] OTHER -> FALSE

\* The engine is given every peer once: it would otherwise open two sessions to one
\* peer.  Unless they come from a UDP tracker reached over IPv6, the tracker asked
\* last named each of them, with its port.
PeersNamed ==
    /\ \A k \in DOMAIN peers : Last(contacted) \in Over6 \/ Names(Last(contacted), peers[k])
    /\ \A j, k \in DOMAIN peers : peers[j] = peers[k] => j = k

\* The search fails only when no tracker of the torrent, in any tier, has an
\* acceptable answer with a peer in it, and asks none of them twice.
NoneOverlooked ==
    /\ phase = "none" => \A u \in ToSet(torrent.announce \o FlattenSeq(torrent.announce_list)) :
                             announce(u).peers = <<>>
    /\ \A j, k \in DOMAIN contacted : contacted[j] = contacted[k] => j = k
-----------------------------------------------------------------------------
(***************************************************************************)
(* A statement of the code's own comments that the code does not keep.     *)
(***************************************************************************)
\* tracker/mod.rs: "A tracker tells us which peers are sharing a torrent.  We support
\* both transports": whatever the tracker, it named the peers the engine is given.
AllPeersNamed == \A k \in DOMAIN peers : Names(Last(contacted), peers[k])
=============================================================================
