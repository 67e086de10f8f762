----------------------------- MODULE MCBytePath -----------------------------
(***************************************************************************)
(* Instances for TLC of the components that what a peer sends passes on    *)
(* its way to the files: the decoder, the bitfield, the scan for the       *)
(* rarest piece, the assembler and the storage.  They share no state: in a *)
(* behaviour one of them, the subject, moves and the others keep an        *)
(* initial state.  Widths of 3 and 6 bits let sums wrap with few bytes.    *)
(***************************************************************************)
EXTENDS PeerWire, Assembler, Bitfield, RarestScan, Storage

VARIABLE subject

IdleScript ==
    [handshake |-> [pstrlen |-> 0, pstr |-> PSTR, reserved |-> 0, info_hash |-> 4, peer_id |-> 5],
     items |-> <<>>]
IdleScan ==
    /\ have = {} /\ claimed = {} /\ peer_has = {} /\ skip_claimed = FALSE
    /\ availability = [k \in Pieces |-> 0]

IdleStorage ==
    /\ info \in Infos /\ info.mode = "neither" /\ info.piece_length = 0 /\ info.pieces_len = 0
    /\ info.files[1].length = 0
    /\ content = [p \in paths(info) |-> filled(0, Old)]

PathInit ==
    /\ subject \in {"wire", "bitfield", "scan", "assembler", "storage"}
    /\ subject # "wire" => script = IdleScript
    /\ subject # "bitfield" => n_pieces = 0
    /\ subject # "scan" => IdleScan
    /\ subject # "assembler" => length = CHOOSE n \in Lengths : TRUE
    /\ subject # "storage" => IdleStorage
    /\ StorageInit /\ WireInit /\ BitfieldInit /\ ScanInit /\ AssemblerInit

inputVars == <<wireVars, bitfieldVars, scanVars, assemblerVars>>

PathNext ==
    /\ \/ subject = "wire" /\ WireNext
                           /\ UNCHANGED <<bitfieldVars, scanVars, assemblerVars, storageVars>>
       \/ subject = "bitfield" /\ BitfieldNext
                           /\ UNCHANGED <<wireVars, scanVars, assemblerVars, storageVars>>
       \/ subject = "scan" /\ (ScanStep \/ ScanDone)
                           /\ UNCHANGED <<wireVars, bitfieldVars, assemblerVars, storageVars>>
       \/ subject = "assembler" /\ AssemblerNext
                           /\ UNCHANGED <<wireVars, bitfieldVars, scanVars, storageVars>>
       \/ subject = "storage" /\ StorageNext /\ UNCHANGED inputVars
    /\ UNCHANGED subject

PathSpec == PathInit /\ [][PathNext]_<<subject, inputVars, storageVars>>
-----------------------------------------------------------------------------
(* For PeerWire, Assembler and RarestScan *)

\* Every type of message, with numbers of one and of two bytes, payloads that
\* look like frames, and the longest message allowed.
SomeMessages ==
    {[type |-> "keep_alive"], [type |-> "choke"], [type |-> "not_interested"],
     [type |-> "have", args |-> <<13>>], [type |-> "port", args |-> <<7>>],
     [type |-> "bitfield", data |-> <<>>], [type |-> "bitfield", data |-> <<0, 0, 0>>],
     [type |-> "request", args |-> <<1, 12, 0>>], [type |-> "cancel", args |-> <<0, 2, 11>>],
     [type |-> "piece", args |-> <<1, 2>>, data |-> <<>>],
     [type |-> "piece", args |-> <<0, 11>>, data |-> <<0, 1, 0>>]}

\* An unknown id, a payload that should not be there, payloads too short and too
\* long, and a length past the maximum.
BadFrames ==
    {<<0, 1, 10>>, <<0, 2, 1, 0>>, <<0, 2, 4, 0>>, <<0, 8, 6, 0, 0, 0, 0, 0, 0, 0>>,
     <<0, 4, 7, 0, 0, 0>>, <<0, 3, 9, 0, 0>>, <<0, 9>>}

\* Adjacent blocks differ, and so do the bytes of a block.
Pattern(k) == IF k \in {0, 3, 4} THEN 1 ELSE 2

\* Counts that allow ties and strict orders.
SmallCounts == 0 .. 2
-----------------------------------------------------------------------------
(* For Storage *)

File(p, n) == [path |-> p, length |-> n]
Torrent(mode, files, pl, hashes) ==
    [mode |-> mode, name |-> "t", files |-> files, piece_length |-> pl, pieces_len |-> hashes]

\* Two files of these lengths with an empty one between, and three files.
SomeLengths == {0, 1, 3, 4, 7, 62}
Layouts(P) ==
    {<<File(P[1], m), File(P[2], 0), File(P[3], n)>> : m, n \in SomeLengths}
    \cup {<<File(P[1], m), File(P[2], 1), File(P[3], n)>> : m, n \in SomeLengths}
DistinctPaths == <<<<"a">>, <<"d", "b">>, <<"d", "c">>>>
SharedPaths == <<<<"a">>, <<"d", "b">>, <<"a">>>>

PieceLengths == {0, 2, 3, 5, 8}
HashBytes == {0, 2, 4, 5, 6, 8, 16}
OfLayouts(ls) == {Torrent("multi", l, pl, h) : l \in ls, pl \in PieceLengths, h \in HashBytes}
AllInfos ==
    OfLayouts(Layouts(DistinctPaths))
    \cup OfLayouts({<<File(<<"a">>, 1), File(<<"..", "b">>, 1)>>})
    \cup {Torrent(m, <<File(<<"t">>, n)>>, pl, h) :
            m \in {"single", "neither", "both"}, n \in SomeLengths,
            pl \in PieceLengths, h \in HashBytes}
SharedInfos == OfLayouts(Layouts(SharedPaths))
UnsafeComponents == {"", ".", "..", "a/b"}
NoneOrLonger == {0, 9}
=============================================================================
