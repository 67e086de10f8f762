----------------------------- MODULE Assembler -----------------------------
(***************************************************************************)
(* PieceAssembler of src/src/download/piece.rs, byte by byte: one piece is *)
(* put together from the blocks a peer delivers, which may come in any     *)
(* order, more than once, short, misplaced or with other bytes.            *)
(***************************************************************************)
EXTENDS Geometry, FiniteSetsExt

CONSTANTS
    Lengths,    \* the piece lengths to look at
    Bytes,      \* byte values; 0 is what a new buffer holds
    truth(_),   \* the byte of the piece at an offset
    MaxData     \* longest block a peer sends

ASSUME AssemblerAssumption == 0 \in Bytes /\ \A n \in Lengths : n \in 1 .. U32 - 1

VARIABLES
    length, buf, received, remaining,   \* the fields of the assembler
    outcome,    \* what the last add_block did: "ok", "err" or "panicked"
    genuine     \* every block taken so far was the whole block as it should be

assemblerVars == <<length, buf, received, remaining, outcome, genuine>>

AssemblerInit ==
    /\ length \in Lengths
    /\ buf = [k \in 0 .. length - 1 |-> 0]
    /\ received = [b \in 0 .. div_ceil(length, BLOCK_SIZE) - 1 |-> FALSE]
    /\ remaining = div_ceil(length, BLOCK_SIZE)
    /\ outcome = "ok"
    /\ genuine = TRUE

aligned(begin) == begin % BLOCK_SIZE = 0

\* checked_add in u32, then the comparison with the length of the piece.
in_piece_wrapping(begin, data) == (begin + Len(data)) % U32 <= length
in_piece(begin, data) == begin + Len(data) < U32 /\ begin + Len(data) <= length

copied_in_turn(begin, data) ==
    LET at == BLOCK_SIZE * Cardinality({b \in DOMAIN received : received[b]})
    IN  [k \in DOMAIN buf |->
            IF k \in at .. at + Len(data) - 1 THEN data[k - at + 1] ELSE buf[k]]

\* The bytes of `data` laid over the buffer from `begin` on.
copied(begin, data) ==
    [k \in DOMAIN buf |->
        IF k \in begin .. begin + Len(data) - 1 THEN data[k - begin + 1] ELSE buf[k]]

\* is_complete.
assembled == remaining = 0

whole_block(begin, data) ==
    /\ Len(data) = IF length - begin < BLOCK_SIZE THEN length - begin ELSE BLOCK_SIZE
    /\ \A k \in DOMAIN data : data[k] = truth(begin + k - 1)

\* A block at an offset that starts no block of the piece: only an empty one can
\* get past the checks, at the end of a piece that is a multiple of BLOCK_SIZE.
Panic(begin, data) ==
    /\ aligned(begin) /\ in_piece(begin, data)
    /\ begin \div BLOCK_SIZE \notin DOMAIN received
    /\ outcome' = "panicked"
    /\ UNCHANGED <<length, buf, received, remaining, genuine>>

Refuse(begin, data) ==
    /\ ~ (aligned(begin) /\ in_piece(begin, data))
    /\ outcome' = "err"
    /\ UNCHANGED <<length, buf, received, remaining, genuine>>

first_time_always(begin) == TRUE
first_time(begin) == ~ received[begin \div BLOCK_SIZE]

Take(begin, data) ==
    LET b == begin \div BLOCK_SIZE
    IN  /\ aligned(begin) /\ in_piece(begin, data)
        /\ b \in DOMAIN received
        /\ buf' = copied(begin, data)
        /\ received' = [received EXCEPT ![b] = TRUE]
        /\ remaining' = (remaining - IF first_time(begin) THEN 1 ELSE 0) % U32
        /\ outcome' = "ok"
        /\ genuine' = (genuine /\ whole_block(begin, data))
        /\ UNCHANGED length

add_block(begin, data) ==
    Take(begin, data) \/ Refuse(begin, data) \/ Panic(begin, data)

\* The session drops the assembler when a block completes the piece, when
\* add_block fails and when it panics.
AssemblerNext ==
    /\ outcome = "ok" /\ ~ assembled
    /\ \E begin \in 0 .. U32 - 1, data \in BoundedSeq(Bytes, MaxData) :
           add_block(begin, data)

AssemblerSpec == AssemblerInit /\ [][AssemblerNext]_assemblerVars
-----------------------------------------------------------------------------
\* The count that decides when the hash is taken is the number of blocks still
\* missing, however often and in whatever order blocks were delivered.
RemainingExact ==
    remaining = Cardinality({b \in DOMAIN received : ~ received[b]})

\* A piece whose blocks were all delivered whole and unspoiled, in any order
\* and with any repetition, is complete exactly as it should be.
GenuineAssembles ==
    genuine /\ assembled => \A k \in DOMAIN buf : buf[k] = truth(k)

\* add_block can index past its tables only at the end of a piece whose length
\* is a multiple of the block size: no sum of u32 values gets past the check.
PanicsOnlyAtTail == outcome = "panicked" => length % BLOCK_SIZE = 0

\* piece.rs says delivering a block again is "a harmless no-op": the bytes of a
\* block that has been received do not change any more.
RedeliveryHarmless ==
    [][\A k \in DOMAIN buf : received[k \div BLOCK_SIZE] => buf'[k] = buf[k]]_assemblerVars
=============================================================================
