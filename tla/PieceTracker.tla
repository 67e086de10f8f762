---------------------------- MODULE PieceTracker ----------------------------
(***************************************************************************)
(* The shared download state of one torrent (src/src/download/state.rs):   *)
(* which pieces are verified, which are claimed, and how many connected    *)
(* peers advertise each one.  The code keeps it behind one tokio Mutex, so *)
(* every operator below is the body of one lock section.                   *)
(*                                                                         *)
(* A Bitfield is the set of the piece indices whose bit is set: has() is   *)
(* FALSE and set() is a no-op outside 0 .. NumPieces - 1, hence a bitfield *)
(* never holds a foreign index.                                            *)
(***************************************************************************)
EXTENDS Integers, FiniteSets

CONSTANT NumPieces      \* number of SHA-1 hashes in the metainfo

\* Geometry::from_info refuses a torrent with zero pieces.
ASSUME NumPiecesAssumption == NumPieces \in Nat \ {0}

Pieces == 0 .. NumPieces - 1
NoPiece == -1           \* Option::None where the code has Option<u32>

VARIABLES
    have,           \* set of verified pieces
    claimed,        \* set of pieces whose `claimed` flag is up
    availability    \* availability[i]: how many peers advertise piece i

trackerVars == <<have, claimed, availability>>

TrackerTypeOK ==
    /\ have \in SUBSET Pieces
    /\ claimed \in SUBSET Pieces
    /\ availability \in [Pieces -> Nat]

\* PieceTracker::from_info
TrackerInit ==
    /\ have = {}
    /\ claimed = {}
    /\ availability = [i \in Pieces |-> 0]

is_complete == have = Pieces
-----------------------------------------------------------------------------
\* The pieces the scan of rarest_needed does not `continue` past.
needed_from(peer_has, skip_claimed) ==
    IF skip_claimed THEN peer_has \ (have \cup claimed) ELSE peer_has \ have

\* i precedes j in the scan's order: rarer first, the lower index on a tie
\* (the scan runs upwards and replaces its best only by a strictly rarer one).
rarer(i, j) ==
    \/ availability[i] < availability[j]
    \/ availability[i] = availability[j] /\ i <= j

rarest_needed(peer_has, skip_claimed) ==
    LET candidates == needed_from(peer_has, skip_claimed)
    IN  IF candidates = {}
        THEN NoPiece
        ELSE CHOOSE i \in candidates : \A j \in candidates : rarer(i, j)

\* reserve_piece and reserve_piece_endgame: the piece they would return.
reserve_piece(peer_has) == rarest_needed(peer_has, TRUE)
reserve_piece_endgame_none(peer_has) == NoPiece
reserve_piece_endgame(peer_has) == rarest_needed(peer_has, FALSE)

\* The write of reserve_piece; endgame leaves `claimed` as it is.
claim(i) ==
    /\ claimed' = claimed \cup {i}
    /\ UNCHANGED <<have, availability>>

release_piece_skipped(i) == UNCHANGED trackerVars
release_piece(i) ==
    /\ claimed' = claimed \ {i}
    /\ UNCHANGED <<have, availability>>

mark_have_keeps_claim(i) ==
    /\ have' = have \cup {i}
    /\ UNCHANGED <<claimed, availability>>
mark_have(i) ==
    /\ have' = have \cup {i}
    /\ claimed' = claimed \ {i}
    /\ UNCHANGED availability

\* add_availability: an index past the end is ignored.
add_availability(i) ==
    /\ availability' = IF i \in Pieces
                       THEN [availability EXCEPT ![i] = @ + 1]
                       ELSE availability
    /\ UNCHANGED <<have, claimed>>

\* u32::saturating_sub(1)
saturating_dec(n) == IF n = 0 THEN 0 ELSE n - 1

\* remove_bitfield_availability(old) followed by add_bitfield_availability(new)
\* in one lock section; disconnecting is the case new = {}.
replace_without_remove(old, new) ==
    /\ availability' = [i \in Pieces |->
            availability[i] + (IF i \in new THEN 1 ELSE 0)]
    /\ UNCHANGED <<have, claimed>>
replace_bitfield(old, new) ==
    /\ availability' = [i \in Pieces |->
            (IF i \in old THEN saturating_dec(availability[i]) ELSE availability[i])
            + (IF i \in new THEN 1 ELSE 0)]
    /\ UNCHANGED <<have, claimed>>
=============================================================================
