------------------------------ MODULE Geometry ------------------------------
(***************************************************************************)
(* The sizes of a torrent: the layout of an info dictionary (src/src/      *)
(* metainfo.rs) and the arithmetic of pieces and blocks derived from it    *)
(* (Geometry of src/src/download/piece.rs), with the widths of the code.   *)
(***************************************************************************)
EXTENDS Integers, Sequences, SequencesExt

CONSTANTS
    U32,            \* 2^32: u32 arithmetic is modulo this number
    BLOCK_SIZE,     \* bytes of a block
    SHA1_LEN        \* bytes of a digest in `pieces`

ASSUME WidthAssumption ==
    /\ U32 \in Nat \ {0, 1} /\ BLOCK_SIZE \in 1 .. U32 - 1 /\ SHA1_LEN \in Nat \ {0}

U64 == U32 * U32

\* An Info: piece_length, the length of `pieces`, and files.  `mode` says which
\* of the keys `length` and `files` are there; in single mode the name and the
\* length of the torrent stand for its one file.
well_formed(info) == info.mode \in {"single", "multi"}      \* Info::layout
lengths(info) == [f \in DOMAIN info.files |-> info.files[f].length]

\* Info::total_length; the sum wraps in a release build.
total_length(info) == FoldLeft(LAMBDA s, n : (s + n) % U64, 0, lengths(info))

num_pieces(info) == (info.pieces_len \div SHA1_LEN) % U32      \* `as u32`

\* Geometry::from_info: the length of the last piece, and the torrents it takes.
last_piece_length(info) ==
    total_length(info) - (num_pieces(info) - 1) * info.piece_length
from_info_ok(info) ==
    /\ well_formed(info)
    /\ info.piece_length \in 1 .. U32 - 1
    /\ num_pieces(info) # 0
    /\ last_piece_length(info) \in 1 .. info.piece_length

piece_indices(info) == 0 .. num_pieces(info) - 1
piece_offset(info, i) == i * info.piece_length
piece_length_short(info, i) == info.piece_length
piece_length(info, i) ==
    IF (i + 1) % U32 = num_pieces(info) THEN last_piece_length(info)
                                              ELSE info.piece_length

div_ceil(n, d) == (n + d - 1) \div d
num_blocks(info, i) == div_ceil(piece_length(info, i), BLOCK_SIZE)

\* block_info: offset (a u32 product) and length of block b of piece i.
block_begin(b) == (b * BLOCK_SIZE) % U32
block_length_full(info, i, b) == BLOCK_SIZE
block_length(info, i, b) ==
    LET rest == piece_length(info, i) - block_begin(b)
    IN  IF BLOCK_SIZE < rest THEN BLOCK_SIZE ELSE rest
-----------------------------------------------------------------------------
\* The intervals [start, start + length) of a sequence tile [0, total).
Tiles(n, start(_), len(_), total) ==
    /\ n > 0
    /\ start(0) = 0
    /\ \A k \in 0 .. n - 1 : len(k) > 0
    /\ \A k \in 0 .. n - 2 : start(k) + len(k) = start(k + 1)
    /\ start(n - 1) + len(n - 1) = total

PiecesTile(info) ==
    Tiles(num_pieces(info), LAMBDA i : piece_offset(info, i),
          LAMBDA i : piece_length(info, i), total_length(info))
BlocksTile(info) ==
    \A i \in piece_indices(info) :
        Tiles(num_blocks(info, i), block_begin,
              LAMBDA b : block_length(info, i, b), piece_length(info, i))
=============================================================================
