------------------------------ MODULE PeerWire ------------------------------
(***************************************************************************)
(* The receiving half of a peer connection: the handshake (src/src/peer/   *)
(* handshake.rs, connection.rs) and the framed messages after it (PeerCodec*)
(* of src/src/peer/message.rs), over a TCP stream that cuts the bytes into *)
(* pieces as it likes.  A byte is a number below RADIX, a u32 takes WORD   *)
(* bytes and a u16 HALF.                                                   *)
(***************************************************************************)
EXTENDS Naturals, Sequences, SequencesExt

CONSTANTS
    RADIX, WORD, HALF,
    MAX_MESSAGE_LEN,
    Messages,           \* messages a peer may send
    Malformed,          \* frames no client should send
    MaxItems            \* bound on what a peer sends after its handshake

ASSUME WireAssumption ==
    /\ RADIX \in Nat /\ RADIX > 10 /\ WORD \in Nat \ {0} /\ HALF \in Nat \ {0}
    /\ MAX_MESSAGE_LEN \in Nat /\ MAX_MESSAGE_LEN < RADIX^WORD

\* What ^ means, as far as numbers of WORD and of HALF bytes need it.
ASSUME WirePowers ==
    RADIX^0 = 1 /\ \A k \in 0 .. WORD + HALF : RADIX^(k + 1) = RADIX * RADIX^k

VARIABLES
    script,     \* what the peer sends: its handshake, then messages and bad frames
    wire,       \* bytes sent and not yet arrived; the peer closes after the last
    src,        \* bytes arrived and not yet consumed
    cut,        \* the peer went away before it had sent everything
    phase,      \* "dialing", "handshake", "refused", "open", "closed", "failed"
    delivered    \* the messages recv has returned

wireVars == <<script, wire, cut, src, phase, delivered>>

---------------------------------------------------------------------------
\* Big-endian numbers of w bytes: put_u32 and get_u32, put_u16 and get_u16.
put(n, w) == [k \in 1 .. w |-> (n \div RADIX^(w - k)) % RADIX]
get(bs) == FoldLeft(LAMBDA n, b : n * RADIX + b, 0, bs)
get_at(bs, k) == get(SubSeq(bs, k * WORD + 1, (k + 1) * WORD))

\* The message ids, and which of them carry nothing but their id.
id == [choke |-> 0, unchoke |-> 1, interested |-> 2, not_interested |-> 3,
       have |-> 4, bitfield |-> 5, request |-> 6, piece |-> 7, cancel |-> 8, port |-> 9]
Simple == {"choke", "unchoke", "interested", "not_interested"}

\* The payload after the id byte; the numbers of a message are its `args`.
payload(m) ==
    CASE m.type \in Simple -> <<>>
      [] m.type = "port" -> put(m.args[1], HALF)
      [] m.type \in {"have", "request", "cancel"} ->
             FlattenSeq([k \in DOMAIN m.args |-> put(m.args[k], WORD)])
      [] m.type = "bitfield" -> m.data
      [] m.type = "piece" -> put(m.args[1], WORD) \o put(m.args[2], WORD) \o m.data

encode(m) ==
    IF m.type = "keep_alive" THEN put(0, WORD)
    ELSE put(1 + Len(payload(m)), WORD) \o <<id[m.type]>> \o payload(m)

\* The payload lengths expect_empty, expect_len and expect_min_len ask for.
arity(type) == CASE type \in Simple -> 0 [] type = "have" -> 1 [] OTHER -> 3
well_sized_min(type, n) ==
    CASE type = "bitfield" -> TRUE
      [] type = "piece" -> n >= 2 * WORD
      [] type = "port" -> n >= HALF
      [] OTHER -> n >= arity(type) * WORD
well_sized(type, n) ==
    CASE type = "bitfield" -> TRUE
      [] type = "piece" -> n >= 2 * WORD
      [] type = "port" -> n = HALF
      [] OTHER -> n = arity(type) * WORD

\* A message from the payload of a frame of a known id and the right size.
parsed(type, body) ==
    CASE type \in Simple -> [type |-> type]
      [] type = "port" -> [type |-> type, args |-> <<get(SubSeq(body, 1, HALF))>>]
      [] type = "bitfield" -> [type |-> type, data |-> body]
      [] type = "piece" -> [type |-> type, args |-> <<get_at(body, 0), get_at(body, 1)>>,
                            data |-> SubSeq(body, 2 * WORD + 1, Len(body))]
      [] OTHER -> [type |-> type,
                   args |-> [k \in 1 .. arity(type) |-> get_at(body, k - 1)]]

\* What one call of decode does with the buffer: it waits, it fails, or it takes
\* a frame off the front.
Waits == [kind |-> "none"]
Fails == [kind |-> "err"]
Gives(m, n) == [kind |-> "some", message |-> m, used |-> n]

frame_ready(bs, len) == Len(bs) >= WORD + len

decode_body(body) ==
    IF \E type \in DOMAIN id : id[type] = body[1] /\ well_sized(type, Len(body) - 1)
    THEN LET type == CHOOSE t \in DOMAIN id : id[t] = body[1]
         IN  Gives(parsed(type, Tail(body)), WORD + Len(body))
    ELSE Fails

decode(bs) ==
    IF Len(bs) < WORD THEN Waits
    ELSE LET len == get(SubSeq(bs, 1, WORD))
         IN  CASE len = 0 -> Gives([type |-> "keep_alive"], WORD)
               [] len > MAX_MESSAGE_LEN -> Fails
               [] len \in 1 .. MAX_MESSAGE_LEN /\ ~ frame_ready(bs, len) -> Waits
               [] OTHER -> decode_body(SubSeq(bs, WORD + 1, WORD + len))

\* What a peer may send: the messages of the protocol, no longer than allowed,
\* and frames too long, of an unknown id, or with a payload no message has.
WireByte == 0 .. RADIX - 1
IsMessage(m) ==
    \/ m.type \in Simple \cup {"keep_alive"} /\ m = [type |-> m.type]
    \/ m.type = "bitfield" /\ m = [type |-> m.type, data |-> m.data] /\ m.data \in Seq(WireByte)
    \/ /\ m.type = "port" /\ m = [type |-> m.type, args |-> <<m.args[1]>>]
       /\ m.args[1] \in 0 .. RADIX^HALF - 1
    \/ /\ m.type \in {"have", "request", "cancel"} /\ m = [type |-> m.type, args |-> m.args]
       /\ m.args \in [1 .. arity(m.type) -> 0 .. RADIX^WORD - 1]
    \/ /\ m.type = "piece"
       /\ m = [type |-> m.type, args |-> <<m.args[1], m.args[2]>>, data |-> m.data]
       /\ m.args[1] \in 0 .. RADIX^WORD - 1 /\ m.args[2] \in 0 .. RADIX^WORD - 1
       /\ m.data \in Seq(WireByte)

Carries(type, n) ==
    \/ type \in Simple /\ n = 0
    \/ type = "have" /\ n = WORD
    \/ type \in {"request", "cancel"} /\ n = 3 * WORD
    \/ type = "port" /\ n = HALF
    \/ type = "piece" /\ n >= 2 * WORD
    \/ type = "bitfield"
IsMalformed(f) ==
    /\ f \in Seq(WireByte) /\ Len(f) >= WORD
    /\ LET len == get(SubSeq(f, 1, WORD))
       IN  \/ len > MAX_MESSAGE_LEN
           \/ /\ len \in 1 .. MAX_MESSAGE_LEN /\ Len(f) = WORD + len
              /\ \A type \in DOMAIN id : id[type] = f[WORD + 1] => ~ Carries(type, len - 1)

ASSUME SentAssumption ==
    /\ \A m \in Messages : /\ IsMessage(m)
                           /\ m.type # "keep_alive" => 1 + Len(payload(m)) <= MAX_MESSAGE_LEN
    /\ \A f \in Malformed : IsMalformed(f)
---------------------------------------------------------------------------
\* A handshake: one byte for each of its fields.  Ours comes first on the wire
\* and the peer's answer is read whole.
PSTR_LEN == 1
PSTR == 9
OurTorrent == 3
Handshake == [pstrlen : {0, PSTR_LEN}, pstr : {PSTR, 8}, reserved : {0, 1},
              info_hash : {OurTorrent, 4}, peer_id : {5}]
HANDSHAKE_LEN == 5
to_bytes(h) == <<h.pstrlen, h.pstr, h.reserved, h.info_hash, h.peer_id>>
from_bytes_ok(bs) == bs[1] = PSTR_LEN /\ bs[2] = PSTR
same_torrent(bs) == bs[4] = OurTorrent

BadItem(f) == [type |-> "malformed", frame |-> f]
Items == Messages \cup {BadItem(f) : f \in Malformed}
bytes_of(item) == IF item.type = "malformed" THEN item.frame ELSE encode(item)

WireInit ==
    /\ script \in [handshake : Handshake, items : BoundedSeq(Items, MaxItems)]
    /\ wire = to_bytes(script.handshake)
                  \o FlattenSeq([k \in DOMAIN script.items |-> bytes_of(script.items[k])])
    /\ cut = FALSE
    /\ src = <<>>
    /\ phase = "dialing"
    /\ delivered = <<>>

\* PeerConnection::connect: the dial succeeds, or fails, at the latest when
\* CONNECT_TIMEOUT has passed.
connect ==
    /\ phase = "dialing"
    /\ phase' \in {"handshake", "refused"}
    /\ UNCHANGED <<script, cut, wire, src, delivered>>

Reading == phase \in {"handshake", "open"}

\* Some of the bytes arrive.
Arrive(n) ==
    /\ Reading
    /\ n \in 1 .. Len(wire)
    /\ src' = src \o SubSeq(wire, 1, n)
    /\ wire' = SubSeq(wire, n + 1, Len(wire))
    /\ UNCHANGED <<script, cut, phase, delivered>>

\* The peer stops in the middle: the rest of what it meant to send never comes.
Cut ==
    /\ Reading
    /\ wire # <<>>
    /\ wire' = <<>>
    /\ cut' = TRUE
    /\ UNCHANGED <<script, src, phase, delivered>>

\* read_exact takes HANDSHAKE_LEN bytes and leaves what came with them to Framed.
after_handshake_dropped(bs) == <<>>
after_handshake(bs) == SubSeq(bs, HANDSHAKE_LEN + 1, Len(bs))

handshake ==
    /\ phase = "handshake"
    /\ Len(src) >= HANDSHAKE_LEN
    /\ phase' = IF from_bytes_ok(src) /\ same_torrent(src) THEN "open" ELSE "refused"
    /\ src' = after_handshake(src)
    /\ UNCHANGED <<script, cut, wire, delivered>>

\* The connection ends, or HANDSHAKE_TIMEOUT passes, before the handshake is in.
HandshakeEnds ==
    /\ phase = "handshake"
    /\ Len(src) < HANDSHAKE_LEN
    /\ phase' = "refused"
    /\ UNCHANGED <<script, cut, wire, src, delivered>>

\* recv: Framed calls decode until it stops giving messages.  A call dropped
\* by the session's select! leaves the bytes where they are.
Receive ==
    /\ phase = "open"
    /\ decode(src).kind = "some"
    /\ delivered' = Append(delivered, decode(src).message)
    /\ src' = SubSeq(src, decode(src).used + 1, Len(src))
    /\ UNCHANGED <<script, cut, wire, phase>>

ReceiveFails ==
    /\ phase = "open"
    /\ decode(src).kind = "err"
    /\ phase' = "failed"
    /\ UNCHANGED <<script, cut, wire, src, delivered>>

\* End of the stream: clean between two frames, an error inside one.
ReceiveEnd ==
    /\ phase = "open"
    /\ wire = <<>>
    /\ decode(src).kind = "none"
    /\ phase' = IF src = <<>> THEN "closed" ELSE "failed"
    /\ UNCHANGED <<script, cut, wire, src, delivered>>

WireNext ==
    \/ \E n \in 1 .. Len(wire) : Arrive(n)
    \/ connect \/ Cut \/ handshake \/ HandshakeEnds \/ Receive \/ ReceiveFails \/ ReceiveEnd

WireSpec == WireInit /\ [][WireNext]_wireVars
-----------------------------------------------------------------------------
\* The messages the peer sent before its first malformed frame.
GoodPrefix ==
    LET bad == {k \in DOMAIN script.items : script.items[k].type = "malformed"}
        n == IF bad = {} THEN Len(script.items) ELSE CHOOSE k \in bad : \A j \in bad : k <= j
    IN  IF bad = {} THEN script.items ELSE SubSeq(script.items, 1, n - 1)

\* However TCP cuts the stream, recv returns the messages of the peer as they
\* were encoded: in order, none lost, none made up, none from a peer of another
\* torrent, and nothing after a malformed frame.
StreamFaithful ==
    /\ IsPrefix(delivered, GoodPrefix)
    /\ delivered # <<>> => script.handshake.info_hash = OurTorrent

\* The connection ends for the right reason, with everything before the end
\* delivered: in good order after the last message, with an error at a malformed
\* frame.  Only a peer that went away can end it otherwise.
EndsForCause ==
    /\ phase = "closed" /\ ~ cut => delivered = script.items
    /\ phase = "failed" /\ ~ cut => delivered = GoodPrefix /\ GoodPrefix # script.items
=============================================================================
