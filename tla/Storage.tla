------------------------------ MODULE Storage -------------------------------
(***************************************************************************)
(* The files of a torrent (src/src/disk.rs, Metainfo::file_paths): they    *)
(* are created over whatever is there, and verified pieces are written to  *)
(* them one positioned write at a time, in the order the pieces arrive.    *)
(* Byte g of the torrent is written as the number g, so that a file tells  *)
(* where each of its bytes came from.                                      *)
(***************************************************************************)
EXTENDS Geometry, FiniteSets

CONSTANTS
    Infos,          \* torrents
    Unsafe,         \* path components that are refused
    OldFiles        \* what may lie at a file's place: lengths of older content

ASSUME InfosAssumption ==
    /\ Infos \subseteq [mode : STRING, name : STRING, piece_length : Nat, pieces_len : Nat,
                        files : Seq([path : Seq(STRING), length : Nat])]
    /\ OldFiles \subseteq Nat

VARIABLES
    info,
    content,        \* content[path]: function from offsets to bytes
    todo,           \* pieces not yet received from the channel
    piece, ops,     \* the piece being written and the set of writes still to do
    covered,        \* bytes of it written
    stage

storageVars == <<info, content, todo, piece, ops, covered, stage>>

Zero == -1
Old == -2
filled(n, byte) == [b \in 0 .. n - 1 |-> byte]
Length(c) == Cardinality(DOMAIN c)

paths(inf) == {inf.files[f].path : f \in DOMAIN inf.files}

\* file_paths: every component is one plain segment.
validate_path_component(c) == c \notin Unsafe
file_paths_ok(inf) ==
    /\ validate_path_component(inf.name)
    /\ \A p \in paths(inf) : \A c \in DOMAIN p : validate_path_component(p[c])

\* build_file_map: offsets by checked additions.
file_offset(inf, f) == FoldLeft(+, 0, SubSeq(lengths(inf), 1, f - 1))
build_file_map_ok(inf) ==
    file_paths_ok(inf) /\ file_offset(inf, Len(inf.files) + 1) < U64

StorageInit ==
    /\ info \in Infos
    /\ \E n \in OldFiles : content = [p \in paths(info) |-> filled(n, Old)]
    /\ todo = {}
    /\ piece = -1 /\ ops = {} /\ covered = 0
    /\ stage = "create"

set_len_never(c, n) == c
set_len(c, n) == [b \in 0 .. n - 1 |-> IF b \in DOMAIN c THEN c[b] ELSE Zero]

\* The loop of Storage::create after its first k files; of files that share a
\* path the last size stays.
sized_to(k) ==
    [p \in paths(info) |->
        LET mine == {f \in 1 .. k : info.files[f].path = p}
        IN  IF mine = {} THEN content[p]
            ELSE set_len(content[p], info.files[CHOOSE f \in mine : \A g \in mine : g <= f].length)]
accepted == from_info_ok(info) /\ build_file_map_ok(info)
create ==
    /\ stage = "create"
    /\ IF accepted
       THEN /\ content' = sized_to(Len(info.files))
            /\ todo' = piece_indices(info)
            /\ stage' = "ready"
       ELSE /\ stage' = "refused"
            /\ UNCHANGED <<content, todo>>
    /\ UNCHANGED <<info, piece, ops, covered>>

\* create_dir_all, open or set_len fails for a file: those before it are sized.
CreateFails ==
    /\ stage = "create" /\ accepted
    /\ \E f \in DOMAIN info.files : content' = sized_to(f - 1)
    /\ stage' = "uncreated"
    /\ UNCHANGED <<info, todo, piece, ops, covered>>

MaxOf(a, b) == IF a < b THEN b ELSE a
MinOf(a, b) == IF a < b THEN a ELSE b

\* map_region: the part of [offset, offset + len) in each file, empty ones left
\* out.  Sums are modulo U64.
overlap(offset, len, f) ==
    LET at == file_offset(info, f)
        start == MaxOf(offset, at)
        end == MinOf((offset + len) % U64, (at + lengths(info)[f]) % U64)
    IN  [file |-> f, file_offset |-> start - at,
         src_start |-> start - offset, len |-> end - start]
map_region(offset, len) ==
    {op \in {overlap(offset, len, f) : f \in DOMAIN info.files} : op.len > 0}

\* write_piece, up to the first write.
ReceivePiece(i) ==
    /\ stage = "ready"
    /\ i \in todo
    /\ piece' = i
    /\ ops' = map_region(piece_offset(info, i), piece_length(info, i))
    /\ covered' = 0
    /\ stage' = "writing"
    /\ UNCHANGED <<info, content, todo>>

\* seek and write_all, file by file; a write behind the end of a file makes it longer.
WrittenAt_src_ignored(c, op) ==
    LET end == op.file_offset + op.len
        new == [b \in 0 .. MaxOf(Length(c), end) - 1 |->
                  IF b \in DOMAIN c THEN c[b] ELSE Zero]
    IN  [b \in DOMAIN new |->
            IF b \in op.file_offset .. end - 1
            THEN piece_offset(info, piece) + (b - op.file_offset)
            ELSE new[b]]
WrittenAt(c, op) ==
    LET end == op.file_offset + op.len
        new == [b \in 0 .. MaxOf(Length(c), end) - 1 |->
                  IF b \in DOMAIN c THEN c[b] ELSE Zero]
    IN  [b \in DOMAIN new |->
            IF b \in op.file_offset .. end - 1
            THEN piece_offset(info, piece) + op.src_start + (b - op.file_offset)
            ELSE new[b]]
write_op ==
    /\ stage = "writing"
    /\ \E op \in ops :
        /\ \A other \in ops : op.file <= other.file
        /\ content' = [content EXCEPT ![info.files[op.file].path] = WrittenAt(@, op)]
        /\ covered' = covered + op.len
        /\ ops' = ops \ {op}
    /\ UNCHANGED <<info, todo, piece, stage>>

\* The check at the end of write_piece.
PieceWritten ==
    /\ stage = "writing" /\ ops = {}
    /\ stage' = IF covered = piece_length(info, piece) THEN "ready" ELSE "uncovered"
    /\ todo' = todo \ {piece}
    /\ piece' = -1 /\ covered' = 0
    /\ UNCHANGED <<info, content, ops>>

\* tokio's File reports a write that failed in the background at the handle's next
\* seek, write or flush: a piece counted as written is then missing in that file.
Unwritten(c, op) ==
    [b \in DOMAIN c |->
        IF b \in op.file_offset .. op.file_offset + op.len - 1 THEN Zero ELSE c[b]]
WriteLost ==
    \E i \in piece_indices(info) \ todo :
    \E op \in map_region(piece_offset(info, i), piece_length(info, i)) :
        content' = [content EXCEPT ![info.files[op.file].path] = Unwritten(@, op)]

WriteFails ==
    /\ stage = "writing" /\ ops # {}
    /\ UNCHANGED content \/ WriteLost
    /\ stage' = "failed"
    /\ UNCHANGED <<info, todo, piece, ops, covered>>

\* The channel is closed, complete or not: flush.
finish ==
    /\ stage = "ready"
    /\ stage' = "finished"
    /\ UNCHANGED <<info, content, todo, piece, ops, covered>>

FlushFails ==
    /\ stage = "ready"
    /\ WriteLost
    /\ stage' = "failed"
    /\ UNCHANGED <<info, todo, piece, ops, covered>>

Ended ==
    /\ stage \in {"refused", "uncreated", "failed", "uncovered", "finished"}
    /\ UNCHANGED storageVars

\* assemble
StorageNext ==
    \/ create \/ CreateFails \/ write_op \/ PieceWritten \/ WriteFails
    \/ finish \/ FlushFails \/ Ended
    \/ \E i \in todo : ReceivePiece(i)

StorageSpec == StorageInit /\ [][StorageNext]_storageVars
-----------------------------------------------------------------------------
\* The byte the torrent has at offset b of file f.
RightByte(f, b) == file_offset(info, f) + b

\* When every piece has been written and the files are flushed, each file is
\* exactly its part of the torrent, old content, order of arrival and pieces
\* across files notwithstanding.
FilesAreSlices ==
    stage = "finished" /\ todo = {} =>
        \A f \in DOMAIN info.files :
            content[info.files[f].path] =
                [b \in 0 .. info.files[f].length - 1 |-> RightByte(f, b)]

\* At every moment, also when create, a write or the flush has failed, a byte of
\* the torrent on disk is in its place: no other file's or offset's byte is there.
BytesInPlace ==
    stage # "create" =>
        \A f \in DOMAIN info.files :
            LET c == content[info.files[f].path]
            IN  \A b \in DOMAIN c : c[b] < 0 \/ c[b] = RightByte(f, b)

\* The check of write_piece never fires: once create has accepted a torrent, its
\* pieces and its files are two partitions of the same bytes, although one is
\* derived from the number of hashes and a wrapping sum and the other from
\* checked sums.  The pieces are tiled by the blocks that will be requested.
GeometryAgrees ==
    stage \notin {"create", "refused", "uncreated"} =>
        stage # "uncovered" /\ PiecesTile(info) /\ BlocksTile(info)
=============================================================================
