----------------------------- MODULE RarestScan -----------------------------
(***************************************************************************)
(* The loop of PieceTracker::rarest_needed, one iteration per step, over   *)
(* every tracker state and every peer bitfield.  PieceTracker states what  *)
(* the loop returns as a definition by choice; here the loop is shown to   *)
(* compute exactly that.                                                   *)
(***************************************************************************)
EXTENDS PieceTracker

CONSTANT Counts     \* the availability counts considered
ASSUME CountsAssumption == Counts \subseteq Nat

VARIABLES
    peer_has,       \* argument
    skip_claimed,   \* argument
    i,              \* the loop counter
    best            \* index part of `best`, whose count is availability[best]

inputs == <<trackerVars, peer_has, skip_claimed>>
scanVars == <<inputs, i, best>>

ScanInit ==
    /\ have \in SUBSET Pieces
    /\ claimed \in SUBSET (Pieces \ have)
    /\ availability \in [Pieces -> Counts]
    /\ peer_has \in SUBSET Pieces
    /\ skip_claimed \in BOOLEAN
    /\ i = 0
    /\ best = NoPiece

\* The `continue` of the loop.
skipped(k) ==
    \/ k \in have
    \/ k \notin peer_has
    \/ skip_claimed /\ k \in claimed

\* best.is_none_or(|(b, _)| avail < b)
improves_on_ties(k) == best = NoPiece \/ availability[k] <= availability[best]
improves(k) == best = NoPiece \/ availability[k] < availability[best]

ScanStep ==
    /\ i < NumPieces
    /\ best' = IF ~ skipped(i) /\ improves(i) THEN i ELSE best
    /\ i' = i + 1
    /\ UNCHANGED inputs

ScanDone == i = NumPieces /\ UNCHANGED scanVars

ScanSpec == ScanInit /\ [][ScanStep \/ ScanDone]_scanVars
-----------------------------------------------------------------------------
\* When the loop ends, `best` is the rarest piece the peer can give us, the
\* lowest index among equally rare ones, and None exactly if there is none.
ScanCorrect == i = NumPieces => best = rarest_needed(peer_has, skip_claimed)

\* The loop's invariant: `best` is the first in that order among the pieces
\* scanned so far.
Scanned == {k \in needed_from(peer_has, skip_claimed) : k < i}
BestSoFar ==
    /\ i \in 0 .. NumPieces
    /\ best = NoPiece => Scanned = {}
    /\ best # NoPiece => best \in Scanned /\ \A k \in Scanned : rarer(best, k)
=============================================================================
