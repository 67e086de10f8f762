------------------------------ MODULE Bitfield ------------------------------
(***************************************************************************)
(* Bitfield of src/src/download/bitfield.rs as it is used for a peer's     *)
(* pieces (src/src/download/mod.rs): packed bytes, most significant bit    *)
(* first, with a cached count, next to the set of pieces they stand for.   *)
(***************************************************************************)
EXTENDS Naturals, FiniteSets, Sequences, SequencesExt

CONSTANTS
    BITS,           \* bits in a byte (8)
    MaxPieces,      \* largest torrent looked at
    MaxIndex        \* largest index a `have` carries

ASSUME BitfieldAssumption == BITS \in Nat \ {0} /\ MaxPieces \in Nat /\ MaxIndex \in Nat

VARIABLES
    n_pieces, bytes, count,   \* the fields of the bitfield
    told                        \* the pieces the peer has told us it has

bitfieldVars == <<n_pieces, bytes, count, told>>

Byte == 0 .. 2^BITS - 1
byte_len(n) == (n + BITS - 1) \div BITS

\* The bit that `0x80 >> (index % 8)` masks in a byte.
mask_lsb(i) == 2^(i % BITS)
mask(i) == 2^(BITS - 1 - (i % BITS))
bit(b, i) == (b \div mask(i)) % 2 = 1

\* `has` of a bitfield of n pieces in bs; TLA+ sequences start at 1.
has_of(bs, n, i) == i < n /\ bit(bs[(i \div BITS) + 1], i)
members(bs, n) == {i \in 0 .. n - 1 : has_of(bs, n, i)}
count_of_spare(bs, n) ==
    Cardinality({i \in 0 .. Len(bs) * BITS - 1 : bit(bs[(i \div BITS) + 1], i)})
count_of(bs, n) == Cardinality(members(bs, n))

BitfieldInit ==
    /\ n_pieces \in 0 .. MaxPieces
    /\ bytes = [k \in 1 .. byte_len(n_pieces) |-> 0]
    /\ count = 0
    /\ told = {}

\* is_complete.
is_full == count = n_pieces

\* The pieces a `bitfield` message announces: bit j of byte k, counted from the
\* left, is piece k * BITS + j (BEP 3); the bits past the last piece say nothing.
Announced(bs) ==
    {i \in 0 .. n_pieces - 1 :
        (bs[(i \div BITS) + 1] \div 2^(BITS - 1 - (i % BITS))) % 2 = 1}

\* Message::Bitfield: the bytes replace everything known of the peer.  A message
\* of another length than byte_len is refused and ends the session.
FromBytes ==
    \E bs \in [1 .. byte_len(n_pieces) -> Byte] :
        /\ bytes' = bs
        /\ count' = count_of(bs, n_pieces)
        /\ told' = Announced(bs)
        /\ UNCHANGED n_pieces

\* `set`: the bit and the count change together, once per piece.
set(i) ==
    IF has_of(bytes, n_pieces, i) THEN UNCHANGED <<bytes, count>>
    ELSE /\ bytes' = [bytes EXCEPT ![(i \div BITS) + 1] = @ + mask(i)]
         /\ count' = count + 1

\* Message::Have(index), and marking a piece verified; an index out of range is
\* ignored.
Have(i) ==
    /\ i < n_pieces
    /\ set(i)
    /\ told' = told \cup {i}
    /\ UNCHANGED n_pieces

HaveOutOfRange(i) == i >= n_pieces /\ UNCHANGED bitfieldVars

BitfieldNext == FromBytes \/ \E i \in 0 .. MaxIndex : Have(i) \/ HaveOutOfRange(i)

BitfieldSpec == BitfieldInit /\ [][BitfieldNext]_bitfieldVars
-----------------------------------------------------------------------------
\* The packed bytes mean what the peer said: `has` is true of exactly the pieces
\* announced, in the wire's bit order and whatever the spare bits hold.
HasExact == members(bytes, n_pieces) = told

\* The cached count is the number of pieces present after any mix of bitfields
\* and haves, so is_complete is true of a seed and of nobody else.
CountExact == count = Cardinality(told) /\ (is_full <=> told = 0 .. n_pieces - 1)
=============================================================================
