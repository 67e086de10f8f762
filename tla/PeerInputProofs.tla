-------------------------- MODULE PeerInputProofs --------------------------
(***************************************************************************)
(* What the code makes of the bytes of a peer, for every size and all      *)
(* inputs: the loop of rarest_needed computes its definition, the          *)
(* assembler of a piece keeps count of what is missing and puts every byte *)
(* in its place, a bitfield has the bits the peer told, and recv returns   *)
(* the messages the peer sent however the stream is cut.                   *)
(***************************************************************************)
EXTENDS RarestScan, Assembler, Bitfield, PeerWire, FoldTheorems

(***************************************************************************)
(* The scan.                                                               *)
(***************************************************************************)
\* The inputs are typed and no step changes them.
ScanTypeOK ==
    /\ have \in SUBSET Pieces
    /\ claimed \in SUBSET Pieces
    /\ availability \in [Pieces -> Nat]
    /\ peer_has \in SUBSET Pieces
    /\ skip_claimed \in BOOLEAN

\* The body of the loop keeps the loop invariant.
LEMMA ScanStepKeepsBest ==
    ASSUME ScanTypeOK, BestSoFar, ScanStep
    PROVE  ScanTypeOK' /\ BestSoFar'
<1>. USE NumPiecesAssumption DEF NoPiece
<1>1. ScanTypeOK'  BY DEF ScanTypeOK, ScanStep, inputs, trackerVars
<1>2. Pieces \subseteq Nat  BY DEF Pieces
<1>3. i \in Nat /\ i' = i + 1 /\ i' \in 0 .. NumPieces  BY DEF BestSoFar, ScanStep
<1>4. needed_from(peer_has, skip_claimed)' = needed_from(peer_has, skip_claimed)
  BY DEF ScanStep, inputs, trackerVars, needed_from
<1>5. i \in needed_from(peer_has, skip_claimed) <=> ~ skipped(i)
  BY DEF needed_from, skipped, ScanTypeOK
<1>6. needed_from(peer_has, skip_claimed) \subseteq Pieces
  BY DEF needed_from, ScanTypeOK
<1>7. Scanned' = IF skipped(i) THEN Scanned ELSE Scanned \cup {i}
  <2>. DEFINE C == needed_from(peer_has, skip_claimed)
  <2>1. Scanned = {k \in C : k < i} /\ Scanned' = {k \in C : k < i + 1}
    BY <1>3, <1>4 DEF Scanned
  <2>2. \A k \in C : k < i + 1 <=> k < i \/ k = i
    <3>. SUFFICES ASSUME NEW k \in C PROVE k < i + 1 <=> k < i \/ k = i
      OBVIOUS
    <3>1. k \in Nat  BY <1>2, <1>6
    <3>. QED  BY <1>3, <3>1
  <2>. HIDE DEF C
  <2>3. CASE skipped(i)  BY <1>5, <2>1, <2>2, <2>3 DEF C
  <2>4. CASE ~ skipped(i)  BY <1>5, <2>1, <2>2, <2>4 DEF C
  <2>. QED  BY <2>3, <2>4
<1>8. \A j, k : rarer(j, k)' <=> rarer(j, k)
  BY DEF ScanStep, inputs, trackerVars, rarer
<1>9. \A k \in Scanned : k \in Nat /\ k < i /\ k \in Pieces /\ availability[k] \in Nat
  BY <1>2, <1>6 DEF Scanned, ScanTypeOK
<1>10. CASE skipped(i)
  BY <1>1, <1>3, <1>7, <1>8, <1>10 DEF BestSoFar, ScanStep
<1>11. CASE ~ skipped(i) /\ improves(i)
  <2>1. best' = i  BY <1>11 DEF ScanStep
  <2>2. i \in Pieces /\ availability[i] \in Nat  BY <1>5, <1>6, <1>11 DEF ScanTypeOK
  <2>3. \A k \in Scanned \cup {i} : rarer(i, k)
    BY <1>9, <1>11, <2>2 DEF improves, BestSoFar, rarer
  <2>. QED  BY <1>1, <1>2, <1>3, <1>7, <1>8, <1>11, <2>1, <2>2, <2>3 DEF BestSoFar
<1>12. CASE ~ skipped(i) /\ ~ improves(i)
  <2>1. best' = best /\ best # NoPiece  BY <1>12 DEF ScanStep, improves
  <2>2. i \in Pieces /\ availability[i] \in Nat  BY <1>5, <1>6, <1>12 DEF ScanTypeOK
  <2>3. best \in Scanned  BY <2>1 DEF BestSoFar
  <2>4. rarer(best, i)
    <3>1. ~ (availability[i] < availability[best])  BY <1>12 DEF improves
    <3>2. availability[best] \in Nat /\ best \in Nat /\ best < i  BY <1>9, <2>3
    <3>3. availability[best] <= availability[i] /\ best <= i  BY <1>3, <2>2, <3>1, <3>2
    <3>. QED  BY <2>2, <3>2, <3>3 DEF rarer
  <2>5. \A k \in Scanned \cup {i} : rarer(best, k)  BY <2>1, <2>4 DEF BestSoFar
  <2>. QED  BY <1>1, <1>3, <1>7, <1>8, <1>12, <2>1, <2>3, <2>5 DEF BestSoFar
<1>. QED  BY <1>10, <1>11, <1>12

\* At the end of the loop the invariant leaves only one possible answer.
LEMMA BestIsRarestNeeded ==
    ASSUME ScanTypeOK, BestSoFar
    PROVE  ScanCorrect
<1>. USE NumPiecesAssumption DEF NoPiece
<1>. SUFFICES ASSUME i = NumPieces PROVE best = rarest_needed(peer_has, skip_claimed)
  BY DEF ScanCorrect
<1>. DEFINE C == needed_from(peer_has, skip_claimed)
<1>1. C \subseteq Pieces  BY DEF needed_from, ScanTypeOK
<1>2. Scanned = C  BY <1>1 DEF Scanned, Pieces
<1>3. CASE best = NoPiece
  BY <1>2, <1>3 DEF BestSoFar, rarest_needed
<1>4. CASE best # NoPiece
  <2>1. best \in C /\ \A k \in C : rarer(best, k)  BY <1>2, <1>4 DEF BestSoFar
  <2>2. \A j \in C : (\A k \in C : rarer(j, k)) => j = best
    <3>. SUFFICES ASSUME NEW j \in C, \A k \in C : rarer(j, k) PROVE j = best
      OBVIOUS
    <3>1. rarer(j, best) /\ rarer(best, j)  BY <2>1
    <3>2. j \in Nat /\ best \in Nat  BY <1>1, <2>1 DEF Pieces
    <3>3. availability[j] \in Nat /\ availability[best] \in Nat
      BY <1>1, <2>1 DEF ScanTypeOK
    <3>. QED  BY <3>1, <3>2, <3>3 DEF rarer
  <2>3. rarest_needed(peer_has, skip_claimed) = CHOOSE k \in C : \A j \in C : rarer(k, j)
    BY <2>1 DEF rarest_needed
  <2>. HIDE DEF C
  <2>. QED  BY <2>1, <2>2, <2>3
<1>. QED  BY <1>3, <1>4

\* The scan of rarest_needed returns what PieceTracker defines, for every
\* tracker state, every bitfield and both values of skip_claimed.
THEOREM ScanComputesRarestNeeded == ScanSpec => []ScanCorrect
<1>1. ScanInit => ScanTypeOK /\ BestSoFar
  <2>. SUFFICES ASSUME ScanInit PROVE ScanTypeOK /\ BestSoFar
    OBVIOUS
  <2>1. ScanTypeOK  BY CountsAssumption DEF ScanInit, ScanTypeOK
  <2>2. needed_from(peer_has, skip_claimed) \subseteq Pieces
    BY <2>1 DEF needed_from, ScanTypeOK
  <2>3. Pieces \subseteq Nat  BY NumPiecesAssumption DEF Pieces
  <2>4. Scanned = {}
    <3>1. \A k \in needed_from(peer_has, skip_claimed) : k \in Nat  BY <2>2, <2>3
    <3>2. \A k \in Nat : ~ (k < 0)  OBVIOUS
    <3>. QED  BY <3>1, <3>2 DEF ScanInit, Scanned
  <2>. QED  BY <2>1, <2>4, NumPiecesAssumption DEF ScanInit, BestSoFar
<1>2. ScanTypeOK /\ BestSoFar /\ [ScanStep \/ ScanDone]_scanVars => ScanTypeOK' /\ BestSoFar'
  <2>. SUFFICES ASSUME ScanTypeOK, BestSoFar, [ScanStep \/ ScanDone]_scanVars
                PROVE  ScanTypeOK' /\ BestSoFar'
    OBVIOUS
  <2>1. CASE ScanStep  BY <2>1, ScanStepKeepsBest
  <2>2. CASE UNCHANGED scanVars
    BY <2>2
       DEF scanVars, inputs, trackerVars, ScanTypeOK, BestSoFar, Scanned, needed_from,
           rarer
  <2>. QED  BY <2>1, <2>2 DEF ScanDone
<1>3. ScanTypeOK /\ BestSoFar => ScanCorrect  BY BestIsRarestNeeded
<1>. QED  BY <1>1, <1>2, <1>3, PTL DEF ScanSpec

-----------------------------------------------------------------------------
(***************************************************************************)
(* The assembler.                                                          *)
(***************************************************************************)
\* div_ceil(n, d) blocks of d bytes hold n bytes, and fewer do not.
LEMMA DivCeil ==
    ASSUME NEW n \in Nat \ {0}, NEW d \in Nat \ {0}
    PROVE  /\ div_ceil(n, d) \in 1 .. n
           /\ n <= div_ceil(n, d) * d /\ div_ceil(n, d) * d < n + d
<1>. DEFINE p == (n + d - 1) \div d
<1>1. n + d - 1 \in Nat  OBVIOUS
<1>2. p \in Nat /\ p * d <= n + d - 1 /\ n + d - 1 < p * d + d  BY <1>1, DivMod
<1>3. p \in 1 .. n  OBVIOUS
<1>. HIDE DEF p
<1>4. p * d \in Nat  BY <1>2
<1>5. n <= p * d /\ p * d < n + d  BY <1>2, <1>4
<1>. QED  BY <1>3, <1>5 DEF p, div_ceil
-----------------------------------------------------------------------------
Missing == {b \in DOMAIN received : ~ received[b]}
blocks == div_ceil(length, BLOCK_SIZE)

AssemblerTypeInv ==
    /\ length \in 1 .. U32 - 1
    /\ DOMAIN buf = 0 .. length - 1
    /\ received \in [0 .. blocks - 1 -> BOOLEAN]
    /\ genuine \in BOOLEAN
\* Once a block has come, its bytes are right if all that came was genuine.
ReceivedRight ==
    genuine => \A k \in DOMAIN buf : received[k \div BLOCK_SIZE] => buf[k] = truth(k)
AssemblerInv == AssemblerTypeInv /\ RemainingExact /\ ReceivedRight /\ PanicsOnlyAtTail

\* The sizes are positive.
LEMMA BlockSizes == BLOCK_SIZE \in Nat \ {0} /\ U32 \in Nat
BY WidthAssumption

\* A piece of at least one byte has its blocks within U32.
LEMMA BlocksOfPiece ==
    ASSUME AssemblerTypeInv
    PROVE  /\ length \in Nat \ {0} /\ length < U32
           /\ blocks \in Nat /\ blocks <= length /\ length <= blocks * BLOCK_SIZE
           /\ DOMAIN received = 0 .. blocks - 1
<1>1. length \in Nat \ {0} /\ length < U32 /\ DOMAIN received = 0 .. blocks - 1
  BY BlockSizes DEF AssemblerTypeInv
<1>2. blocks \in 1 .. length /\ length <= blocks * BLOCK_SIZE
  BY <1>1, BlockSizes, DivCeil, Zenon DEF blocks
<1>3. blocks \in Nat /\ blocks <= length  BY <1>1, <1>2
<1>. QED  BY <1>1, <1>2, <1>3

\* A byte of the piece is in one of its blocks.
LEMMA BlockOfByte ==
    ASSUME AssemblerTypeInv, NEW k \in DOMAIN buf
    PROVE  k \in Nat /\ k \div BLOCK_SIZE \in DOMAIN received
<1>2. blocks \in Nat /\ length <= blocks * BLOCK_SIZE  BY BlocksOfPiece
<1>1. k \in Nat /\ k < length /\ length \in Nat \ {0}  BY BlocksOfPiece DEF AssemblerTypeInv
<1>. DEFINE p == k \div BLOCK_SIZE
<1>3. p \in Nat /\ p * BLOCK_SIZE <= k  BY <1>1, BlockSizes, DivMod, Zenon
<1>. HIDE DEF p
<1>4. blocks <= p => blocks * BLOCK_SIZE <= p * BLOCK_SIZE  BY <1>2, <1>3, BlockSizes
<1>5. p * BLOCK_SIZE \in Nat /\ blocks * BLOCK_SIZE \in Nat  BY <1>2, <1>3, BlockSizes
<1>6. p \in 0 .. blocks - 1  BY <1>1, <1>2, <1>3, <1>4, <1>5
<1>. QED  BY <1>1, <1>6 DEF p, AssemblerTypeInv

\* What is missing can be counted, and the count fits a u32.
LEMMA MissingFinite ==
    ASSUME AssemblerTypeInv
    PROVE  IsFiniteSet(Missing) /\ Cardinality(Missing) \in Nat /\ Cardinality(Missing) < U32
<1>1. length \in Nat \ {0} /\ length < U32 /\ DOMAIN received = 0 .. blocks - 1
  BY BlocksOfPiece
<1>2. blocks \in Nat /\ blocks <= length  BY BlocksOfPiece
<1>3. IsFiniteSet(0 .. blocks - 1) /\ Cardinality(0 .. blocks - 1) = blocks
  BY <1>2, FS_Interval
<1>4. Missing \subseteq 0 .. blocks - 1  BY <1>1 DEF Missing
<1>5. IsFiniteSet(Missing) /\ Cardinality(Missing) <= blocks
  BY <1>3, <1>4, FS_Subset
<1>. QED  BY <1>1, <1>2, <1>5, FS_CardinalityType, BlockSizes

\* A new assembler.
LEMMA AssemblerInitInv == AssemblerInit => AssemblerInv
<1>. SUFFICES ASSUME AssemblerInit PROVE AssemblerInv
  OBVIOUS
<1>1. AssemblerTypeInv
  BY AssemblerAssumption DEF AssemblerInit, AssemblerTypeInv, blocks
<1>2. Missing = 0 .. blocks - 1  BY DEF AssemblerInit, Missing, blocks
<1>3. blocks \in Nat  BY <1>1, BlocksOfPiece
<1>4. Cardinality(Missing) = blocks  BY <1>2, <1>3, FS_Interval
<1>5. RemainingExact  BY <1>4 DEF RemainingExact, Missing, AssemblerInit, blocks
<1>6. ReceivedRight
  <2>1. ASSUME NEW k \in DOMAIN buf PROVE ~ received[k \div BLOCK_SIZE]
    BY <1>1, BlockOfByte DEF AssemblerInit
  <2>. QED  BY <2>1 DEF ReceivedRight
<1>7. PanicsOnlyAtTail  BY DEF AssemblerInit, PanicsOnlyAtTail
<1>. QED  BY <1>1, <1>5, <1>6, <1>7 DEF AssemblerInv

\* The data of a block is a sequence.
LEMMA DataTyped ==
    ASSUME NEW data \in BoundedSeq(Bytes, MaxData)
    PROVE  Len(data) \in Nat /\ DOMAIN data = 1 .. Len(data)
BY DEF BoundedSeq

\* A block that is taken starts where one of the piece does and does not run
\* into the next.
LEMMA TakeInv ==
    ASSUME AssemblerInv, NEW begin \in 0 .. U32 - 1, NEW data \in BoundedSeq(Bytes, MaxData),
           Take(begin, data)
    PROVE  AssemblerInv'
<1>ty. AssemblerTypeInv  BY DEF AssemblerInv
<1>. DEFINE b == begin \div BLOCK_SIZE
<1>1. begin \in Nat  BY BlockSizes
<1>2. b \in Nat /\ begin = b * BLOCK_SIZE
  BY <1>1, BlockSizes, DivMod, Zenon DEF Take, aligned
<1>3. /\ aligned(begin) /\ in_piece(begin, data) /\ b \in DOMAIN received
      /\ buf' = copied(begin, data)
      /\ received' = [received EXCEPT ![b] = TRUE]
      /\ remaining' = (remaining - IF first_time(begin) THEN 1 ELSE 0) % U32
      /\ outcome' = "ok" /\ length' = length
  BY DEF Take
<1>4. first_time(begin) <=> ~ received[b]  BY DEF first_time
<1>5. genuine' = (genuine /\ whole_block(begin, data))  BY DEF Take
<1>. HIDE DEF b
<1>6. genuine' \in BOOLEAN /\ (genuine' => genuine /\ whole_block(begin, data))
  BY <1>5, Zenon
<1>7. AssemblerTypeInv'
  BY <1>ty, <1>3, <1>6 DEF AssemblerTypeInv, copied, blocks
<1>8. RemainingExact'
  <2>1. remaining = Cardinality(Missing)  BY DEF AssemblerInv, RemainingExact, Missing
  <2>2. IsFiniteSet(Missing) /\ remaining \in Nat /\ remaining < U32
    BY <1>ty, <2>1, MissingFinite
  <2>3. CASE received[b]
    <3>1. received' = received  BY <1>ty, <1>3, <2>3 DEF AssemblerTypeInv
    <3>2. remaining' = remaining % U32  BY <1>3, <1>4, <2>2, <2>3
    <3>3. remaining' = remaining  BY <2>2, <3>2, BlockSizes
    <3>. QED  BY <2>1, <3>1, <3>3 DEF RemainingExact, Missing
  <2>4. CASE ~ received[b]
    <3>1. b \in Missing  BY <1>3, <2>4 DEF Missing
    <3>2. {c \in DOMAIN received' : ~ received'[c]} = Missing \ {b}
      BY <1>ty, <1>3 DEF Missing, AssemblerTypeInv
    <3>3. Cardinality(Missing \ {b}) = Cardinality(Missing) - 1
      BY <2>2, <3>1, FS_RemoveElement
    <3>4. Cardinality(Missing \ {b}) \in Nat
      BY <2>2, FS_Subset, FS_CardinalityType, FS_RemoveElement
    <3>5. remaining' = (remaining - 1) % U32  BY <1>3, <1>4, <2>4
    <3>6. remaining - 1 \in Nat  BY <2>1, <2>2, <3>3, <3>4
    <3>7. remaining' = remaining - 1  BY <2>2, <3>5, <3>6, BlockSizes
    <3>. QED  BY <2>1, <3>2, <3>3, <3>7 DEF RemainingExact
  <2>. QED  BY <2>3, <2>4
<1>9. ReceivedRight'
  <2>. SUFFICES ASSUME genuine', NEW k \in DOMAIN buf', received'[k \div BLOCK_SIZE]
                PROVE  buf'[k] = truth(k)
    BY DEF ReceivedRight
  <2>1. DOMAIN buf' = DOMAIN buf  BY <1>3 DEF copied
  <2>2. k \in Nat /\ k < length /\ k \div BLOCK_SIZE \in DOMAIN received
    BY <1>ty, <2>1, BlockOfByte DEF AssemblerTypeInv
  <2>3. genuine /\ whole_block(begin, data)  BY <1>6
  <2>4. Len(data) \in Nat /\ DOMAIN data = 1 .. Len(data)  BY DataTyped
  <2>5. /\ Len(data) = IF length - begin < BLOCK_SIZE THEN length - begin ELSE BLOCK_SIZE
        /\ \A j \in DOMAIN data : data[j] = truth(begin + j - 1)
    BY <2>3 DEF whole_block
  <2>6. k \div BLOCK_SIZE = b <=> begin <= k /\ k < begin + BLOCK_SIZE
    BY <1>2, <2>2, BlockSizes, DivIs
  <2>7. k \div BLOCK_SIZE = b <=> k \in begin .. begin + Len(data) - 1
    BY <1>1, <1>ty, <2>2, <2>4, <2>5, <2>6, BlockSizes DEF AssemblerTypeInv
  <2>8. buf'[k] = IF k \in begin .. begin + Len(data) - 1 THEN data[k - begin + 1] ELSE buf[k]
    BY <1>3, <2>1 DEF copied
  <2>9. CASE k \div BLOCK_SIZE = b
    <3>1. k - begin + 1 \in DOMAIN data /\ begin + (k - begin + 1) - 1 = k
      BY <1>1, <2>2, <2>4, <2>7, <2>9
    <3>2. data[k - begin + 1] = truth(k)
      <4>. DEFINE j == k - begin + 1
      <4>1. j \in DOMAIN data /\ begin + j - 1 = k  BY <3>1
      <4>. HIDE DEF j
      <4>2. data[j] = truth(begin + j - 1)  BY <2>5, <4>1
      <4>3. data[j] = truth(k)  BY <4>1, <4>2
      <4>. QED  BY <4>3 DEF j
    <3>. QED  BY <2>7, <2>8, <2>9, <3>2
  <2>10. CASE k \div BLOCK_SIZE # b
    <3>1. received[k \div BLOCK_SIZE]
      BY <1>3, <1>ty, <2>2, <2>10 DEF AssemblerTypeInv
    <3>2. buf[k] = truth(k)  BY <2>1, <2>3, <3>1 DEF AssemblerInv, ReceivedRight
    <3>. QED  BY <2>7, <2>8, <2>10, <3>2
  <2>. QED  BY <2>9, <2>10
<1>10. PanicsOnlyAtTail'  BY <1>3 DEF PanicsOnlyAtTail
<1>. QED  BY <1>7, <1>8, <1>9, <1>10 DEF AssemblerInv

\* A begin that passes both checks and is behind the last block is the length of a
\* piece of whole blocks.
LEMMA PanicAtTail ==
    ASSUME AssemblerTypeInv, NEW begin \in 0 .. U32 - 1,
           NEW data \in BoundedSeq(Bytes, MaxData), Panic(begin, data)
    PROVE  length % BLOCK_SIZE = 0
<1>. DEFINE b == begin \div BLOCK_SIZE
<1>1. begin \in Nat /\ length \in Nat \ {0} /\ DOMAIN received = 0 .. blocks - 1
  BY BlockSizes DEF AssemblerTypeInv
<1>2. b \in Nat /\ begin = b * BLOCK_SIZE
  BY <1>1, BlockSizes, DivMod, Zenon DEF Panic, aligned
<1>3. blocks \in Nat /\ length <= blocks * BLOCK_SIZE  BY BlocksOfPiece
<1>4. b \notin 0 .. blocks - 1  BY <1>1 DEF Panic
<1>5. begin <= length
  <2>1. Len(data) \in Nat  BY DataTyped
  <2>. QED  BY <1>1, <2>1 DEF Panic, in_piece
<1>. HIDE DEF b
<1>6. blocks <= b  BY <1>2, <1>3, <1>4
<1>7. blocks * BLOCK_SIZE <= b * BLOCK_SIZE  BY <1>2, <1>3, <1>6, BlockSizes
<1>8. length = b * BLOCK_SIZE
  <2>1. blocks * BLOCK_SIZE \in Nat /\ b * BLOCK_SIZE \in Nat  BY <1>2, <1>3, BlockSizes
  <2>. QED  BY <1>1, <1>2, <1>3, <1>5, <1>7, <2>1
<1>9. length \div BLOCK_SIZE = b
  <2>1. b * BLOCK_SIZE \in Nat  BY <1>2, BlockSizes
  <2>. QED  BY <1>1, <1>2, <1>8, <2>1, BlockSizes, DivIs
<1>10. length = (length \div BLOCK_SIZE) * BLOCK_SIZE + (length % BLOCK_SIZE) /\ length % BLOCK_SIZE \in Nat
  BY <1>1, BlockSizes, DivMod
<1>11. length = b * BLOCK_SIZE + (length % BLOCK_SIZE)  BY <1>9, <1>10
<1>. QED  BY <1>1, <1>8, <1>10, <1>11

\* Every call of add_block keeps the invariant.
LEMMA AssemblerInvInductive == AssemblerInv /\ [AssemblerNext]_assemblerVars => AssemblerInv'
<1>. SUFFICES ASSUME AssemblerInv, [AssemblerNext]_assemblerVars PROVE AssemblerInv'
  OBVIOUS
<1>1. UNCHANGED <<length, buf, received, remaining, genuine>> =>
          AssemblerTypeInv' /\ RemainingExact' /\ ReceivedRight'
  BY DEF AssemblerInv, AssemblerTypeInv, RemainingExact, ReceivedRight, blocks
<1>2. CASE UNCHANGED assemblerVars
  BY <1>1, <1>2 DEF assemblerVars, AssemblerInv, PanicsOnlyAtTail
<1>3. CASE AssemblerNext
  <2>1. PICK begin \in 0 .. U32 - 1, data \in BoundedSeq(Bytes, MaxData) : add_block(begin, data)
    BY <1>3 DEF AssemblerNext
  <2>2. CASE Take(begin, data)  BY <2>2, TakeInv
  <2>3. CASE Refuse(begin, data)
    BY <1>1, <2>3 DEF Refuse, AssemblerInv, PanicsOnlyAtTail
  <2>4. CASE Panic(begin, data)
    <3>1. length % BLOCK_SIZE = 0  BY <2>4, PanicAtTail DEF AssemblerInv
    <3>. QED  BY <1>1, <2>4, <3>1 DEF Panic, AssemblerInv, PanicsOnlyAtTail
  <2>. QED  BY <2>1, <2>2, <2>3, <2>4 DEF add_block
<1>. QED  BY <1>2, <1>3

\* The invariant holds throughout.
LEMMA AssemblerInvHolds == AssemblerSpec => []AssemblerInv
BY AssemblerInitInv, AssemblerInvInductive, PTL DEF AssemblerSpec

\* For every length of piece and of block, and whatever blocks come: `remaining` is
\* the number of blocks not received, repeated and overlapping ones counted once.
THEOREM RemainingIsExact == AssemblerSpec => []RemainingExact
<1>1. AssemblerInv => RemainingExact  BY DEF AssemblerInv
<1>. QED  BY <1>1, AssemblerInvHolds, PTL

\* For every length of piece and of block, add_block indexes `received` past its end
\* only for a piece that is a whole number of blocks.
THEOREM PanicOnlyAtTail == AssemblerSpec => []PanicsOnlyAtTail
<1>1. AssemblerInv => PanicsOnlyAtTail  BY DEF AssemblerInv
<1>. QED  BY <1>1, AssemblerInvHolds, PTL

\* For every length of piece and of block: a piece all of whose blocks came as the
\* torrent has them is assembled into the bytes of the torrent, in any order and with
\* any repetition.
THEOREM GenuinePieceAssembles == AssemblerSpec => []GenuineAssembles
<1>1. AssemblerInv => GenuineAssembles
  <2>. SUFFICES ASSUME AssemblerInv, genuine, assembled, NEW k \in DOMAIN buf
                PROVE  buf[k] = truth(k)
    BY DEF GenuineAssembles
  <2>1. IsFiniteSet(Missing) /\ Cardinality(Missing) = 0
    BY MissingFinite DEF AssemblerInv, RemainingExact, Missing, assembled
  <2>2. Missing = {}  BY <2>1, FS_EmptySet
  <2>3. received[k \div BLOCK_SIZE]  BY <2>2, BlockOfByte DEF AssemblerInv, Missing
  <2>. QED  BY <2>3 DEF AssemblerInv, ReceivedRight
<1>. QED  BY <1>1, AssemblerInvHolds, PTL

-----------------------------------------------------------------------------
(***************************************************************************)
(* The bitfield.                                                           *)
(***************************************************************************)
\* Adding a mask to a byte sets the bit ...
LEMMA AddMaskSets ==
    ASSUME NEW b \in Nat, NEW p \in Nat \ {0}, (b \div p) % 2 # 1
    PROVE  ((b + p) \div p) % 2 = 1
<1>. DEFINE a == b \div p
<1>1. a \in Nat /\ a * p <= b /\ b < a * p + p  BY DivMod
<1>2. a % 2 # 1  OBVIOUS
<1>. HIDE DEF a
<1>3. (a + 1) * p = a * p + p /\ a * p \in Nat  BY <1>1
<1>4. (b + p) \div p = a + 1
  <2>1. b + p \in Nat /\ a + 1 \in Nat /\ (a + 1) * p <= b + p /\ b + p < (a + 1) * p + p
    BY <1>1, <1>3
  <2>. QED  BY <2>1, DivIs
<1>5. (a + 1) % 2 = 1  BY <1>1, <1>2
<1>. QED  BY <1>4, <1>5

\* ... and leaves the lower bits ...
LEMMA AddMaskLower ==
    ASSUME NEW b \in Nat, NEW q \in Nat \ {0}, NEW c \in Nat
    PROVE  ((b + (2 * c) * q) \div q) % 2 = (b \div q) % 2
<1>. DEFINE a == b \div q
            n == a + 2 * c
            s == b + (2 * c) * q
<1>1. a \in Nat /\ a * q <= b /\ b < a * q + q  BY DivMod
<1>. HIDE DEF a
<1>2. n * q = a * q + (2 * c) * q /\ a * q \in Nat /\ (2 * c) * q \in Nat  BY <1>1
<1>3. n \in Nat /\ s \in Nat  BY <1>1, <1>2
<1>4. n * q <= s /\ s < n * q + q
  <2>. HIDE DEF n
  <2>. QED  BY <1>1, <1>2, <1>3
<1>5. s \div q = n
  <2>. HIDE DEF n, s
  <2>. QED  BY <1>3, <1>4, DivIs
<1>6. n % 2 = a % 2  BY <1>1
<1>. QED  BY <1>5, <1>6 DEF a

\* ... and, if it was clear, the higher ones: there is no carry.
LEMMA AddMaskHigher ==
    ASSUME NEW b \in Nat, NEW p \in Nat \ {0}, NEW c \in Nat \ {0}, (b \div p) % 2 # 1
    PROVE  (b + p) \div ((2 * c) * p) = b \div ((2 * c) * p)
<1>. DEFINE a == b \div p
            e == 2 * c
            q == e * p
            k == b \div q
<1>1. a \in Nat /\ a * p <= b /\ b < a * p + p  BY DivMod
<1>2. a % 2 # 1  OBVIOUS
<1>3. e \in Nat \ {0} /\ q \in Nat \ {0}  OBVIOUS
<1>4. k \in Nat /\ k * q <= b /\ b < k * q + q
  <2>. HIDE DEF q
  <2>. QED  BY <1>3, DivMod
<1>. DEFINE m == (k + 1) * e
<1>. HIDE DEF a, k
<1>5. m \in Nat /\ m % 2 = 0
  <2>1. m = 2 * ((k + 1) * c) /\ (k + 1) * c \in Nat  BY <1>4
  <2>. DEFINE h == (k + 1) * c
  <2>. HIDE DEF m, h
  <2>2. h \in Nat /\ m = 2 * h  BY <2>1 DEF h
  <2>. QED  BY <2>2
<1>6. k * q + q = m * p
  <2>. HIDE DEF e
  <2>. QED  BY <1>3, <1>4
<1>. HIDE DEF m, q, e
<1>7. a < m
  <2>. SUFFICES ASSUME m <= a PROVE FALSE
    BY <1>1, <1>5
  <2>1. m * p <= a * p  BY <1>1, <1>5
  <2>2. m * p \in Nat /\ a * p \in Nat  BY <1>1, <1>5
  <2>3. k * q + q <= b
    BY <1>1, <1>6, <2>1, <2>2
  <2>4. k * q \in Nat  BY <1>3, <1>4
  <2>. QED  BY <1>3, <1>4, <2>3, <2>4
<1>8. a + 2 <= m  BY <1>1, <1>2, <1>5, <1>7
<1>9. (a + 2) * p <= m * p  BY <1>1, <1>5, <1>8
<1>10. (a + 2) * p = a * p + p + p /\ a * p \in Nat  BY <1>1
<1>11. b + p < k * q + q
  <2>1. m * p \in Nat  BY <1>5
  <2>2. b + p < m * p  BY <1>1, <1>9, <1>10, <2>1
  <2>. QED  BY <1>6, <2>2
<1>12. k * q <= b + p
  <2>1. k * q \in Nat  BY <1>3, <1>4
  <2>. QED  BY <1>4, <2>1
<1>13. (b + p) \div q = k
  <2>1. b + p \in Nat  OBVIOUS
  <2>. QED  BY <1>3, <1>4, <1>11, <1>12, <2>1, DivIs
<1>. QED  BY <1>13 DEF q, e, k

\* Masks are the powers of two below that of a byte.
LEMMA MaskIsPower ==
    ASSUME NEW ix \in Nat
    PROVE  BITS - 1 - (ix % BITS) \in Nat /\ BITS - 1 - (ix % BITS) < BITS /\ mask(ix) \in Nat \ {0}
<1>1. BITS \in Nat \ {0}  BY BitfieldAssumption
<1>2. ix % BITS \in 0 .. BITS - 1  BY <1>1
<1>3. BITS - 1 - (ix % BITS) \in Nat /\ BITS - 1 - (ix % BITS) < BITS  BY <1>1, <1>2
<1>. QED  BY <1>3, PowerOfTwo DEF mask

\* set: a clear bit of a byte is set, and no other bit of the byte changes.
LEMMA SetBit ==
    ASSUME NEW b \in Byte, NEW ix \in Nat, ~ bit(b, ix)
    PROVE  /\ b + mask(ix) \in Byte
           /\ bit(b + mask(ix), ix)
           /\ \A j \in Nat : j % BITS # ix % BITS => (bit(b + mask(ix), j) <=> bit(b, j))
<1>. DEFINE x == BITS - 1 - (ix % BITS)
            p == mask(ix)
<1>0. BITS \in Nat \ {0} /\ 2^BITS \in Nat \ {0}  BY BitfieldAssumption, PowerOfTwo
<1>1. x \in Nat /\ x < BITS /\ p \in Nat \ {0} /\ p = 2^x  BY MaskIsPower DEF mask
<1>2. b \in Nat /\ b < 2^BITS  BY <1>0 DEF Byte
<1>3. (b \div p) % 2 # 1  BY DEF bit
<1>. HIDE DEF x, p
<1>4. bit(b + p, ix)  BY <1>1, <1>2, <1>3, AddMaskSets DEF bit, p
<1>5. ASSUME NEW n \in Nat, x < n PROVE (b + p) \div 2^n = b \div 2^n
  <2>1. PICK c \in Nat : 2^n = (2 * c) * p  BY <1>1, <1>5, EvenMultiple
  <2>2. c # 0
    <3>1. 2^n # 0  BY PowerOfTwo
    <3>2. c = 0 => (2 * c) * p = 0  BY <1>1
    <3>. QED  BY <2>1, <3>1, <3>2
  <2>3. c \in Nat \ {0}  BY <2>2
  <2>4. (b + p) \div ((2 * c) * p) = b \div ((2 * c) * p)
    BY <1>1, <1>2, <1>3, <2>3, AddMaskHigher, ZenonT(60)
  <2>. QED  BY <2>1, <2>4
<1>6. b + p \in Byte
  <2>. DEFINE q == 2^BITS
  <2>1. (b + p) \div q = b \div q  BY <1>0, <1>1, <1>5
  <2>2. q \in Nat \ {0} /\ b < q  BY <1>0, <1>2
  <2>. HIDE DEF q
  <2>3. b \div q = 0
    <3>1. 0 * q <= b /\ b < 0 * q + q  BY <1>2, <2>2
    <3>. QED  BY <1>2, <2>2, <3>1, DivIs
  <2>4. b + p \in Nat  BY <1>1, <1>2
  <2>5. b + p < 0 * q + q  BY <2>1, <2>2, <2>3, <2>4, DivIs
  <2>6. b + p \in 0 .. q - 1  BY <2>2, <2>4, <2>5
  <2>. QED  BY <2>6 DEF q, Byte
<1>7. ASSUME NEW j \in Nat, j % BITS # ix % BITS PROVE bit(b + p, j) <=> bit(b, j)
  <2>. DEFINE y == BITS - 1 - (j % BITS)
  <2>1. y \in Nat /\ mask(j) = 2^y /\ 2^y \in Nat \ {0}  BY MaskIsPower DEF mask
  <2>2. y # x
    <3>1. ix % BITS \in 0 .. BITS - 1 /\ j % BITS \in 0 .. BITS - 1  BY <1>0
    <3>. QED  BY <1>0, <1>7, <3>1 DEF x
  <2>. HIDE DEF y
  <2>3. CASE x < y
    <3>1. (b + p) \div 2^y = b \div 2^y  BY <1>5, <2>1, <2>3
    <3>. QED  BY <2>1, <3>1 DEF bit
  <2>4. CASE y < x
    <3>1. PICK c \in Nat : p = (2 * c) * 2^y  BY <1>1, <2>1, <2>4, EvenMultiple
    <3>2. ((b + (2 * c) * 2^y) \div 2^y) % 2 = (b \div 2^y) % 2
      BY <1>2, <2>1, AddMaskLower
    <3>3. ((b + p) \div 2^y) % 2 = (b \div 2^y) % 2  BY <3>1, <3>2
    <3>. QED  BY <2>1, <3>3 DEF bit
  <2>. QED  BY <1>1, <2>1, <2>2, <2>3, <2>4
<1>. QED  BY <1>4, <1>6, <1>7 DEF p

\* A piece has a byte, and two pieces in one byte have different bits.
LEMMA BitPlaces ==
    ASSUME NEW n \in Nat, NEW ix \in Nat, ix < n
    PROVE  /\ (ix \div BITS) + 1 \in 1 .. byte_len(n)
           /\ \A j \in Nat : j # ix /\ j \div BITS = ix \div BITS => j % BITS # ix % BITS
<1>1. BITS \in Nat \ {0}  BY BitfieldAssumption
<1>. DEFINE q == ix \div BITS
            l == byte_len(n)
            m == n + BITS - 1
<1>2. q \in Nat /\ q * BITS <= ix /\ ix = q * BITS + (ix % BITS)  BY <1>1, DivMod
<1>3. l \in Nat /\ l * BITS <= m /\ m < l * BITS + BITS
  <2>1. m \in Nat  BY <1>1
  <2>2. l = m \div BITS  BY DEF byte_len
  <2>. HIDE DEF m, l
  <2>. QED  BY <1>1, <2>1, <2>2, DivMod
<1>4. ASSUME NEW j \in Nat, j # ix, j \div BITS = q PROVE j % BITS # ix % BITS
  <2>1. j = q * BITS + (j % BITS)  BY <1>1, <1>4, DivMod
  <2>. QED  BY <1>2, <1>4, <2>1
<1>. HIDE DEF q, l
<1>5. q < l
  <2>. SUFFICES ASSUME l <= q PROVE FALSE
    BY <1>2, <1>3
  <2>1. l * BITS <= q * BITS /\ l * BITS \in Nat /\ q * BITS \in Nat  BY <1>1, <1>2, <1>3
  <2>. QED  BY <1>1, <1>2, <1>3, <2>1
<1>6. q + 1 \in 1 .. l  BY <1>2, <1>3, <1>5
<1>. QED  BY <1>4, <1>6 DEF q, l

\* Types, the two properties, and that a byte stays a byte: adding the mask of a
\* clear bit is the `|=` of the code.
BitfieldInv ==
    /\ n_pieces \in Nat
    /\ bytes \in [1 .. byte_len(n_pieces) -> Byte]
    /\ told = members(bytes, n_pieces)
    /\ count = Cardinality(told)

\* A zeroed bitfield has no piece.
LEMMA BitfieldInitInv == BitfieldInit => BitfieldInv
<1>. SUFFICES ASSUME BitfieldInit PROVE BitfieldInv
  OBVIOUS
<1>1. n_pieces \in Nat /\ told = {} /\ count = 0 /\ bytes = [k \in 1 .. byte_len(n_pieces) |-> 0]
  BY BitfieldAssumption DEF BitfieldInit
<1>2. 0 \in Byte
  <2>1. BITS \in Nat /\ 2^BITS \in Nat \ {0}  BY BitfieldAssumption, PowerOfTwo
  <2>. QED  BY <2>1 DEF Byte
<1>3. ASSUME NEW ix \in 0 .. n_pieces - 1 PROVE ~ has_of(bytes, n_pieces, ix)
  <2>1. ix \in Nat /\ ix < n_pieces  BY <1>1
  <2>2. bytes[(ix \div BITS) + 1] = 0  BY <1>1, <2>1, BitPlaces
  <2>3. mask(ix) \in Nat \ {0}  BY <2>1, MaskIsPower
  <2>4. 0 \div mask(ix) = 0
    <3>1. 0 * mask(ix) <= 0 /\ 0 < 0 * mask(ix) + mask(ix)  BY <2>3
    <3>. QED  BY <2>3, <3>1, DivIs
  <2>5. ~ bit(0, ix)  BY <2>4 DEF bit
  <2>. QED  BY <2>2, <2>5 DEF has_of
<1>4. members(bytes, n_pieces) = {}  BY <1>3 DEF members
<1>5. Cardinality(told) = 0  BY <1>1, FS_EmptySet
<1>. QED  BY <1>1, <1>2, <1>4, <1>5 DEF BitfieldInv

\* The members of a bitfield are finitely many.
LEMMA MembersFinite ==
    ASSUME NEW n \in Nat, NEW bs
    PROVE  /\ members(bs, n) \in SUBSET (0 .. n - 1)
           /\ IsFiniteSet(members(bs, n)) /\ IsFiniteSet(0 .. n - 1) /\ Cardinality(0 .. n - 1) = n
<1>1. members(bs, n) \in SUBSET (0 .. n - 1)  BY DEF members
<1>2. IsFiniteSet(0 .. n - 1)  BY FS_Interval
<1>3. Cardinality(0 .. n - 1) = IF 0 > n - 1 THEN 0 ELSE (n - 1) - 0 + 1  BY FS_Interval
<1>4. Cardinality(0 .. n - 1) = n  BY <1>3
<1>. QED  BY <1>1, <1>2, <1>4, FS_Subset

\* set: the piece is added, no other, and the count goes up if it is new.
LEMMA SetMembers ==
    ASSUME BitfieldInv, NEW ix \in Nat, Have(ix)
    PROVE  BitfieldInv'
<1>1. n_pieces \in Nat /\ n_pieces' = n_pieces /\ ix < n_pieces /\ told' = told \cup {ix}
  BY DEF BitfieldInv, Have
<1>. DEFINE k == (ix \div BITS) + 1
            b == bytes[k]
<1>2. k \in 1 .. byte_len(n_pieces)
      /\ \A j \in Nat : j # ix /\ j \div BITS = ix \div BITS => j % BITS # ix % BITS
  BY <1>1, BitPlaces
<1>3. b \in Byte /\ bytes \in [1 .. byte_len(n_pieces) -> Byte]  BY <1>2 DEF BitfieldInv
<1>4. ix \in 0 .. n_pieces - 1  BY <1>1
<1>5. CASE has_of(bytes, n_pieces, ix)
  <2>1. bytes' = bytes /\ count' = count  BY <1>5 DEF Have, set
  <2>2. ix \in told  BY <1>4, <1>5 DEF BitfieldInv, members
  <2>. QED  BY <1>1, <2>1, <2>2 DEF BitfieldInv
<1>6. CASE ~ has_of(bytes, n_pieces, ix)
  <2>1. bytes' = [bytes EXCEPT ![k] = b + mask(ix)] /\ count' = count + 1
    BY <1>6 DEF Have, set
  <2>2. ~ bit(b, ix)  BY <1>1, <1>6 DEF has_of
  <2>3. /\ b + mask(ix) \in Byte /\ bit(b + mask(ix), ix)
        /\ \A j \in Nat : j % BITS # ix % BITS => (bit(b + mask(ix), j) <=> bit(b, j))
    BY <1>3, <2>2, SetBit
  <2>4. bytes' \in [1 .. byte_len(n_pieces) -> Byte]  BY <1>3, <2>1, <2>3
  <2>5. ASSUME NEW j \in 0 .. n_pieces - 1
        PROVE  has_of(bytes', n_pieces, j) <=> j = ix \/ has_of(bytes, n_pieces, j)
    <3>. DEFINE m == (j \div BITS) + 1
    <3>1. j \in Nat /\ j < n_pieces  BY <1>1
    <3>2. m \in 1 .. byte_len(n_pieces)  BY <1>1, <3>1, BitPlaces
    <3>3. j \div BITS \in Nat /\ ix \div BITS \in Nat  BY <3>1, BitfieldAssumption, DivMod
    <3>4. m = k <=> j \div BITS = ix \div BITS  BY <3>3
    <3>5. CASE j = ix
      <4>1. bytes'[m] = b + mask(ix)  BY <1>2, <1>3, <2>1, <3>5
      <4>. QED  BY <2>3, <3>1, <3>5, <4>1 DEF has_of
    <3>6. CASE j # ix /\ m = k
      <4>1. bytes'[m] = b + mask(ix) /\ bytes[m] = b  BY <1>2, <1>3, <2>1, <3>6
      <4>2. bit(b + mask(ix), j) <=> bit(b, j)  BY <1>2, <2>3, <3>1, <3>4, <3>6
      <4>. QED  BY <3>1, <3>6, <4>1, <4>2 DEF has_of
    <3>7. CASE j # ix /\ m # k
      <4>1. bytes'[m] = bytes[m]  BY <1>3, <2>1, <3>2, <3>7
      <4>. QED  BY <3>7, <4>1 DEF has_of
    <3>. QED  BY <3>5, <3>6, <3>7
  <2>6. members(bytes', n_pieces) = members(bytes, n_pieces) \cup {ix}
    BY <1>4, <2>5 DEF members
  <2>7. ix \notin told  BY <1>6 DEF BitfieldInv, members
  <2>8. IsFiniteSet(told)  BY <1>1, MembersFinite DEF BitfieldInv
  <2>9. Cardinality(told \cup {ix}) = Cardinality(told) + 1  BY <2>7, <2>8, FS_AddElement
  <2>. QED  BY <1>1, <2>1, <2>4, <2>6, <2>9 DEF BitfieldInv
<1>. QED  BY <1>5, <1>6

\* from_bytes reads the pieces as the message means them.
LEMMA FromBytesInv ==
    ASSUME BitfieldInv, FromBytes
    PROVE  BitfieldInv'
<1>1. PICK bs \in [1 .. byte_len(n_pieces) -> Byte] :
          /\ bytes' = bs
          /\ count' = count_of(bs, n_pieces)
          /\ told' = Announced(bs)
          /\ n_pieces' = n_pieces
  BY DEF FromBytes
<1>2. Announced(bs) = members(bs, n_pieces)
  <2>1. n_pieces \in Nat  BY DEF BitfieldInv
  <2>2. \A ix \in 0 .. n_pieces - 1 : ix < n_pieces  BY <2>1
  <2>. QED  BY <2>2 DEF Announced, members, has_of, bit, mask
<1>. QED  BY <1>1, <1>2 DEF BitfieldInv, count_of

\* The invariant holds throughout.
LEMMA BitfieldInvHolds == BitfieldSpec => []BitfieldInv
<1>1. BitfieldInv /\ [BitfieldNext]_bitfieldVars => BitfieldInv'
  <2>. SUFFICES ASSUME BitfieldInv, [BitfieldNext]_bitfieldVars PROVE BitfieldInv'
    OBVIOUS
  <2>1. CASE UNCHANGED bitfieldVars  BY <2>1 DEF bitfieldVars, BitfieldInv
  <2>2. CASE FromBytes  BY <2>2, FromBytesInv
  <2>3. ASSUME NEW ix \in 0 .. MaxIndex, Have(ix) \/ HaveOutOfRange(ix) PROVE BitfieldInv'
    <3>1. ix \in Nat  BY BitfieldAssumption
    <3>2. CASE Have(ix)  BY <3>1, <3>2, SetMembers
    <3>3. CASE HaveOutOfRange(ix)  BY <2>1, <3>3 DEF HaveOutOfRange
    <3>. QED  BY <2>3, <3>2, <3>3
  <2>. QED  BY <2>1, <2>2, <2>3 DEF BitfieldNext
<1>. QED  BY <1>1, BitfieldInitInv, PTL DEF BitfieldSpec

\* The bits of the bitfield are the pieces the peer has told us it has, whatever
\* bytes it sent and in whatever order its have messages came (Bitfield::has).
THEOREM BitsMeanPieces == BitfieldSpec => []HasExact
<1>1. BitfieldInv => HasExact  BY DEF BitfieldInv, HasExact
<1>. QED  BY <1>1, BitfieldInvHolds, PTL

\* The cached count of Bitfield is the number of those pieces: no bit is counted
\* twice, and no spare bit of the last byte is counted.
THEOREM CachedCountIsExact == BitfieldSpec => []CountExact
<1>1. BitfieldInv => CountExact
  <2>. SUFFICES ASSUME BitfieldInv PROVE CountExact
    OBVIOUS
  <2>1. n_pieces \in Nat /\ count = Cardinality(told) /\ told = members(bytes, n_pieces)
    BY DEF BitfieldInv
  <2>2. /\ told \in SUBSET (0 .. n_pieces - 1)
        /\ IsFiniteSet(0 .. n_pieces - 1) /\ Cardinality(0 .. n_pieces - 1) = n_pieces
    BY <2>1, MembersFinite
  <2>3. Cardinality(0 .. n_pieces - 1) = Cardinality(told) => 0 .. n_pieces - 1 = told
    BY <2>2, FS_Subset
  <2>. QED  BY <2>1, <2>2, <2>3 DEF CountExact, is_full
<1>. QED  BY <1>1, BitfieldInvHolds, PTL

-----------------------------------------------------------------------------
(***************************************************************************)
(* The peer wire protocol: sequences of bytes, then encode and decode,     *)
(* then the stream.                                                        *)
(***************************************************************************)
\* The two parts of a concatenation.
LEMMA ConcatParts ==
    ASSUME NEW S, NEW s \in Seq(S), NEW t \in Seq(S)
    PROVE  /\ SubSeq(s \o t, 1, Len(s)) = s
           /\ SubSeq(s \o t, Len(s) + 1, Len(s \o t)) = t
<1>. DEFINE u == s \o t
            m == Len(s)
            n == Len(t)
<1>1. u \in Seq(S) /\ Len(u) = m + n /\ m \in Nat /\ n \in Nat
      /\ \A ix \in 1 .. m + n : u[ix] = IF ix <= m THEN s[ix] ELSE t[ix - m]
  BY ConcatProperties, LenProperties
<1>2. \A ix \in 1 .. m + n : u[ix] \in S
  <2>1. u \in [1 .. Len(u) -> S]  BY <1>1, LenProperties
  <2>. QED  BY <1>1, <2>1
<1>. HIDE DEF u, m, n
<1>3. SubSeq(u, 1, m) = s
  <2>1. \A ix \in 1 .. m : ix \in 1 .. m + n /\ ix <= m /\ 1 + ix - 1 = ix  BY <1>1
  <2>2. SubSeq(u, 1, m) \in Seq(S) /\ Len(SubSeq(u, 1, m)) = (IF 1 <= m THEN m - 1 + 1 ELSE 0)
        /\ \A ix \in 1 .. m - 1 + 1 : SubSeq(u, 1, m)[ix] = u[1 + ix - 1]
    BY <1>1, <1>2, <2>1, SubSeqProperties
  <2>3. Len(SubSeq(u, 1, m)) = m /\ \A ix \in 1 .. m : SubSeq(u, 1, m)[ix] = s[ix]
    BY <1>1, <2>1, <2>2
  <2>. QED  BY <2>2, <2>3, SeqEqual DEF m
<1>4. SubSeq(u, m + 1, m + n) = t
  <2>1. \A ix \in 1 .. n : m + ix \in 1 .. m + n /\ ~ (m + ix <= m) /\ (m + 1) + ix - 1 = m + ix /\ (m + ix) - m = ix
    BY <1>1
  <2>2. \A ix \in m + 1 .. m + n : ix \in 1 .. m + n  BY <1>1
  <2>3. SubSeq(u, m + 1, m + n) \in Seq(S)
        /\ Len(SubSeq(u, m + 1, m + n)) = (IF m + 1 <= m + n THEN (m + n) - (m + 1) + 1 ELSE 0)
        /\ \A ix \in 1 .. (m + n) - (m + 1) + 1 : SubSeq(u, m + 1, m + n)[ix] = u[(m + 1) + ix - 1]
    BY <1>1, <1>2, <2>2, SubSeqProperties
  <2>4. Len(SubSeq(u, m + 1, m + n)) = n  BY <1>1, <2>3
  <2>5. ASSUME NEW ix \in 1 .. n PROVE SubSeq(u, m + 1, m + n)[ix] = t[ix]
    <3>1. ix \in 1 .. (m + n) - (m + 1) + 1  BY <1>1
    <3>2. SubSeq(u, m + 1, m + n)[ix] = u[m + ix]  BY <2>1, <2>3, <3>1
    <3>. QED  BY <1>1, <2>1, <3>2
  <2>. QED  BY <2>3, <2>4, <2>5, SeqEqual DEF n
<1>. QED  BY <1>1, <1>3, <1>4 DEF u, m, n

\* A concatenation of three may be grouped either way.
Groups(u, v, w) == (u \o v) \o w = u \o (v \o w)

LEMMA Regroup == \A u, v, w \in Seq(WireByte) : Groups(u, v, w)
<1>. SUFFICES ASSUME NEW u \in Seq(WireByte), NEW v \in Seq(WireByte), NEW w \in Seq(WireByte)
     PROVE (u \o v) \o w = u \o (v \o w)
  BY DEF Groups
<1>. QED  BY ConcatAssociative

\* Two ways to cut a sequence: the parts agree as far as both go.
LEMMA SameFront ==
    ASSUME NEW s \in Seq(WireByte), NEW t \in Seq(WireByte), NEW x \in Seq(WireByte), NEW y \in Seq(WireByte),
           s \o x = t \o y, Len(t) <= Len(s)
    PROVE  SubSeq(s, 1, Len(t)) = t
           /\ SubSeq(s, Len(t) + 1, Len(s)) \o x = y
<1>. DEFINE u == SubSeq(s, 1, Len(t))
            v == SubSeq(s, Len(t) + 1, Len(s))
<1>1. Len(s) \in Nat /\ Len(t) \in Nat /\ \A ix \in 1 .. Len(s) : s[ix] \in WireByte  BY LenProperties
<1>2. u \in Seq(WireByte) /\ v \in Seq(WireByte) /\ Len(u) = Len(t)
  <2>1. u \in Seq(WireByte) /\ Len(u) = IF 1 <= Len(t) THEN Len(t) - 1 + 1 ELSE 0
    <3>1. \A ix \in 1 .. Len(t) : s[ix] \in WireByte  BY <1>1
    <3>. QED  BY <1>1, <3>1, SubSeqProperties
  <2>2. v \in Seq(WireByte)
    <3>1. \A ix \in Len(t) + 1 .. Len(s) : s[ix] \in WireByte  BY <1>1
    <3>. QED  BY <1>1, <3>1, SubSeqProperties
  <2>. QED  BY <1>1, <2>1, <2>2
<1>3. u \o v = s
  <2>1. 1 \in 1 .. Len(s) + 1 /\ Len(t) \in 1 - 1 .. Len(s) /\ Len(s) \in Len(t) .. Len(s)  BY <1>1
  <2>2. u \o v = SubSeq(s, 1, Len(s))  BY <2>1, ConcatAdjacentSubSeq
  <2>. QED  BY <2>2, SubSeqFull
<1>. HIDE DEF u, v
<1>4. u \o (v \o x) = t \o y
  <2>1. (u \o v) \o x = u \o (v \o x)
    <3>1. u \in Seq(WireByte) /\ v \in Seq(WireByte) /\ x \in Seq(WireByte)  BY <1>2
    <3>2. Groups(u, v, x)  BY <3>1, Regroup
    <3>. QED  BY <3>2, Zenon DEF Groups
  <2>. QED  BY <1>3, <2>1, Zenon
<1>5. v \o x \in Seq(WireByte)  BY <1>2, ConcatProperties
<1>6. SubSeq(u \o (v \o x), 1, Len(u)) = u
      /\ SubSeq(u \o (v \o x), Len(u) + 1, Len(u \o (v \o x))) = v \o x
  BY <1>2, <1>5, ConcatParts, ZenonT(60)
<1>7. SubSeq(t \o y, 1, Len(t)) = t /\ SubSeq(t \o y, Len(t) + 1, Len(t \o y)) = y
  BY ConcatParts
<1>8. u = t /\ v \o x = y  BY <1>2, <1>4, <1>6, <1>7, Zenon
<1>. QED  BY <1>8 DEF u, v

\* The constants.
LEMMA WireNumbers ==
    /\ RADIX \in Nat \ {0} /\ WORD \in Nat \ {0} /\ HALF \in Nat \ {0}
    /\ RaisesTo(RADIX, WORD) /\ RaisesTo(RADIX, HALF)
    /\ RADIX^WORD \in Nat \ {0} /\ RADIX^HALF \in Nat \ {0}
    /\ MAX_MESSAGE_LEN \in Nat /\ MAX_MESSAGE_LEN < RADIX^WORD
    /\ 0 .. 10 \subseteq WireByte
<1>1. RADIX \in Nat \ {0} /\ WORD \in Nat \ {0} /\ HALF \in Nat \ {0}
      /\ MAX_MESSAGE_LEN \in Nat /\ MAX_MESSAGE_LEN < RADIX^WORD /\ 0 .. 10 \subseteq WireByte
  <2>1. 0 .. 10 \subseteq WireByte  BY WireAssumption DEF WireByte
  <2>. QED  BY <2>1, WireAssumption
<1>2. RADIX^0 = 1 /\ \A k \in 0 .. WORD + HALF : RADIX^(k + 1) = RADIX * RADIX^k
  BY WirePowers, Zenon
<1>3. (\A k \in 0 .. WORD - 1 : k \in 0 .. WORD + HALF) /\ (\A k \in 0 .. HALF - 1 : k \in 0 .. WORD + HALF)
  BY <1>1
<1>4. RaisesTo(RADIX, WORD) /\ RaisesTo(RADIX, HALF)  BY <1>2, <1>3, Zenon DEF RaisesTo
<1>5. ASSUME NEW w \in Nat, RaisesTo(RADIX, w) PROVE RADIX^w \in Nat \ {0}
  <2>. DEFINE P == [k \in 0 .. w |-> RADIX^k]
  <2>1. Powers(P, RADIX, w)  BY <1>1, <1>5, PowersOf
  <2>2. w \in 0 .. w  OBVIOUS
  <2>3. P[w] = RADIX^w  BY <2>2, Zenon
  <2>. HIDE DEF P
  <2>4. P[w] \in Nat \ {0}  BY <2>1, <2>2 DEF Powers
  <2>. QED  BY <2>3, <2>4, Zenon
<1>6. RADIX^WORD \in Nat \ {0} /\ RADIX^HALF \in Nat \ {0}  BY <1>1, <1>4, <1>5
<1>. QED  BY <1>1, <1>4, <1>6

\* A number that fits is read back.
LEMMA PutGet ==
    ASSUME NEW w \in {WORD, HALF}, NEW n \in 0 .. RADIX^w - 1
    PROVE  put(n, w) \in Seq(WireByte) /\ Len(put(n, w)) = w /\ get(put(n, w)) = n
<1>1. put(n, w) = digits_of(n, RADIX, w)  BY DEF put, digits_of
<1>2. \A ds : get(ds) = number_of(RADIX, ds)  BY DEF get, number_of
<1>3. w \in Nat /\ RaisesTo(RADIX, w) /\ RADIX^w \in Nat /\ RADIX \in Nat \ {0}  BY WireNumbers
<1>4. n \in Nat /\ n < RADIX^w
  <2>. DEFINE M == RADIX^w
  <2>1. M \in Nat /\ n \in 0 .. M - 1  BY <1>3
  <2>. HIDE DEF M
  <2>2. n \in Nat /\ n < M  BY <2>1
  <2>. QED  BY <2>2 DEF M
<1>5. AreDigits(digits_of(n, RADIX, w), RADIX, w) /\ number_of(RADIX, digits_of(n, RADIX, w)) = n
  BY <1>3, <1>4, NumberBack
<1>6. put(n, w) \in [1 .. w -> WireByte]  BY <1>1, <1>5 DEF AreDigits, WireByte
<1>. HIDE DEF put
<1>7. put(n, w) \in Seq(WireByte) /\ Len(put(n, w)) = w  BY <1>3, <1>6
<1>. QED  BY <1>1, <1>2, <1>5, <1>7

\* The numbers of a message stand one after the other.
LEMMA WordsInPlace ==
    ASSUME NEW n \in Nat, NEW as \in [1 .. n -> 0 .. RADIX^WORD - 1]
    PROVE  LET b == FlattenSeq([k \in 1 .. n |-> put(as[k], WORD)])
           IN  /\ b \in Seq(WireByte) /\ Len(b) = n * WORD
               /\ \A k \in 1 .. n : get_at(b, k - 1) = as[k]
<1>. DEFINE q == [k \in 1 .. n |-> put(as[k], WORD)]
            b == FlattenSeq(q)
<1>0. WORD \in Nat \ {0}  BY WireNumbers
<1>1. \A k \in 1 .. n : q[k] \in Seq(WireByte) /\ Len(q[k]) = WORD /\ get(q[k]) = as[k]
  BY PutGet
<1>2. q \in [1 .. n -> Seq(WireByte)]  BY <1>1
<1>. HIDE DEF q
<1>3. PICK r : RunTo(b, r, n, Seq(WireByte), <<>>, join(WireByte, n, q))  BY <1>2, FlattenRuns
<1>4. r \in [0 .. n -> Seq(WireByte)] /\ r[0] = <<>> /\ r[n] = b
      /\ \A k \in 1 .. n : r[k] = join(WireByte, n, q)[<<r[k - 1], k>>]
  BY <1>3, Zenon DEF RunTo, Run, Steps
<1>5. ASSUME NEW k \in 1 .. n PROVE r[k] = r[k - 1] \o q[k] /\ r[k - 1] \in Seq(WireByte)
  <2>1. k - 1 \in 0 .. n  OBVIOUS
  <2>2. r[k - 1] \in Seq(WireByte)  BY <1>4, <2>1
  <2>3. join(WireByte, n, q)[<<r[k - 1], k>>] = r[k - 1] \o q[k]  BY <2>2 DEF join
  <2>. QED  BY <1>4, <2>2, <2>3
<1>. DEFINE Good(k) ==
              /\ Len(r[k]) = k * WORD
              /\ \A j \in 1 .. k : SubSeq(r[k], (j - 1) * WORD + 1, j * WORD) = q[j]
            T == {k \in 0 .. n : ~ Good(k)}
<1>6. Good(0)
  <2>1. Len(<<>>) = 0 /\ 0 * WORD = 0 /\ 1 .. 0 = {}  BY <1>0
  <2>. QED  BY <1>4, <2>1
<1>7. ASSUME NEW k \in 1 .. n, Good(k - 1) PROVE Good(k)
  <2>. DEFINE p == r[k - 1]
              c == q[k]
              L == (k - 1) * WORD
  <2>1. p \in Seq(WireByte) /\ c \in Seq(WireByte) /\ Len(c) = WORD /\ r[k] = p \o c /\ Len(p) = L
    BY <1>1, <1>5, <1>7
  <2>2. L \in Nat /\ k * WORD = L + WORD  BY <1>0
  <2>3. \A j \in 1 .. (k - 1) : SubSeq(p, (j - 1) * WORD + 1, j * WORD) = q[j]  BY <1>7
  <2>. HIDE DEF p, c
  <2>4. Len(r[k]) = k * WORD
    <3>1. Len(p \o c) = Len(p) + Len(c)  BY <2>1, ConcatProperties
    <3>. QED  BY <2>1, <2>2, <3>1
  <2>5. ASSUME NEW j \in 1 .. (k - 1)
        PROVE  SubSeq(r[k], (j - 1) * WORD + 1, j * WORD) = q[j]
    <3>. DEFINE lo == (j - 1) * WORD + 1
                hi == j * WORD
    <3>1. lo \in 1 .. L /\ hi \in 1 .. L
      <4>1. j * WORD <= (k - 1) * WORD  BY <1>0
      <4>2. (j - 1) * WORD \in Nat /\ j * WORD = (j - 1) * WORD + WORD  BY <1>0
      <4>. QED  BY <1>0, <4>1, <4>2
    <3>. HIDE DEF lo, hi, L
    <3>2. SubSeq(p \o c, lo, hi) = SubSeq(p, lo, hi)  BY <2>1, <3>1, SubSeqOfConcat1
    <3>3. SubSeq(p, lo, hi) = q[j]  BY <2>3 DEF lo, hi
    <3>4. SubSeq(r[k], lo, hi) = q[j]  BY <2>1, <3>2, <3>3, Zenon
    <3>. QED  BY <3>4 DEF lo, hi
  <2>6. SubSeq(r[k], (k - 1) * WORD + 1, k * WORD) = c
    <3>1. SubSeq(p \o c, Len(p) + 1, Len(p \o c)) = c  BY <2>1, ConcatParts
    <3>. QED  BY <2>1, <2>4, <3>1
  <2>7. \A j \in 1 .. k : j \in 1 .. (k - 1) \/ j = k  OBVIOUS
  <2>8. \A j \in 1 .. k : SubSeq(r[k], (j - 1) * WORD + 1, j * WORD) = q[j]
    BY <2>5, <2>6, <2>7, Zenon DEF c
  <2>. QED  BY <2>4, <2>8
<1>. HIDE DEF Good
<1>8. T = {}
  <2>. SUFFICES ASSUME T # {} PROVE FALSE
    OBVIOUS
  <2>1. PICK k \in T : \A ix \in Nat : ix < k => ix \notin T
    <3>1. T \in SUBSET Nat  OBVIOUS
    <3>. HIDE DEF T
    <3>. QED  BY <3>1, LeastNat
  <2>2. k # 0  BY <1>6
  <2>3. k \in 1 .. n /\ k - 1 \in 0 .. n /\ k - 1 \in Nat /\ k - 1 < k  BY <2>2
  <2>4. Good(k - 1)  BY <2>1, <2>3
  <2>. QED  BY <1>7, <2>3, <2>4
<1>9. n \in 0 .. n  OBVIOUS
<1>10. Good(n)  BY <1>8, <1>9
<1>11. b \in Seq(WireByte)  BY <1>4, <1>9
<1>12. ASSUME NEW k \in 1 .. n PROVE get_at(b, k - 1) = as[k]
  <2>1. SubSeq(b, (k - 1) * WORD + 1, k * WORD) = q[k]  BY <1>4, <1>10 DEF Good
  <2>2. (k - 1) + 1 = k  OBVIOUS
  <2>3. get_at(b, k - 1) = get(q[k])  BY <2>1, <2>2 DEF get_at
  <2>. QED  BY <1>1, <2>3
<1>. QED  BY <1>4, <1>10, <1>11, <1>12 DEF Good, q

\* A message is read back from its payload, whose size is the right one.
PayloadRight(m) ==
    /\ m.type \in DOMAIN id /\ payload(m) \in Seq(WireByte)
    /\ well_sized(m.type, Len(payload(m))) /\ parsed(m.type, payload(m)) = m

\* have, request and cancel
LEMMA WordsBack ==
    ASSUME NEW m, IsMessage(m), m.type \in {"have", "request", "cancel"} PROVE PayloadRight(m)
<1>. DEFINE n == arity(m.type)
            b == payload(m)
<1>1. m = [type |-> m.type, args |-> m.args] /\ m.args \in [1 .. n -> 0 .. RADIX^WORD - 1]
  BY DEF IsMessage, Simple
<1>2. n \in Nat  BY DEF arity, Simple
<1>3. b = FlattenSeq([k \in 1 .. n |-> put(m.args[k], WORD)])
  <2>1. b = FlattenSeq([k \in DOMAIN m.args |-> put(m.args[k], WORD)])  BY DEF payload, Simple
  <2>. QED  BY <1>1, <2>1
<1>. HIDE DEF n, b
<1>4. b \in Seq(WireByte) /\ Len(b) = n * WORD /\ \A k \in 1 .. n : get_at(b, k - 1) = m.args[k]
  BY <1>1, <1>2, <1>3, WordsInPlace
<1>5. well_sized(m.type, Len(b))  BY <1>4 DEF well_sized, n
<1>6. parsed(m.type, b) = m
  <2>1. parsed(m.type, b) = [type |-> m.type, args |-> [k \in 1 .. n |-> get_at(b, k - 1)]]
    BY DEF parsed, Simple, n
  <2>2. [k \in 1 .. n |-> get_at(b, k - 1)] = m.args  BY <1>1, <1>4
  <2>. QED  BY <1>1, <2>1, <2>2
<1>7. m.type \in DOMAIN id  BY DEF id
<1>. QED  BY <1>4, <1>5, <1>6, <1>7 DEF PayloadRight, b

\* piece
LEMMA PieceBack ==
    ASSUME NEW m, IsMessage(m), m.type = "piece" PROVE PayloadRight(m)
<1>. DEFINE x == put(m.args[1], WORD)
            y == put(m.args[2], WORD)
            z == m.data
            b == payload(m)
<1>0. WORD \in Nat \ {0}  BY WireNumbers
<1>1. m = [type |-> "piece", args |-> <<m.args[1], m.args[2]>>, data |-> z]
      /\ m.args[1] \in 0 .. RADIX^WORD - 1 /\ m.args[2] \in 0 .. RADIX^WORD - 1
      /\ z \in Seq(WireByte)
  BY DEF IsMessage, Simple
<1>2. x \in Seq(WireByte) /\ Len(x) = WORD /\ get(x) = m.args[1]  BY <1>1, PutGet
<1>3. y \in Seq(WireByte) /\ Len(y) = WORD /\ get(y) = m.args[2]  BY <1>1, PutGet
<1>4. b = x \o y \o z  BY DEF payload, Simple
<1>. HIDE DEF x, y, z, b
<1>5. x \o y \in Seq(WireByte) /\ Len(x \o y) = 2 * WORD
  <2>1. x \o y \in Seq(WireByte) /\ Len(x \o y) = Len(x) + Len(y)  BY <1>2, <1>3, ConcatProperties
  <2>. QED  BY <1>0, <1>2, <1>3, <2>1
<1>6. b \in Seq(WireByte) /\ Len(b) = 2 * WORD + Len(z) /\ Len(z) \in Nat
  <2>1. b \in Seq(WireByte) /\ Len(b) = Len(x \o y) + Len(z)  BY <1>1, <1>4, <1>5, ConcatProperties
  <2>. QED  BY <1>1, <1>5, <2>1, LenProperties
<1>7. SubSeq(b, 2 * WORD + 1, Len(b)) = z
  <2>1. SubSeq((x \o y) \o z, Len(x \o y) + 1, Len((x \o y) \o z)) = z  BY <1>1, <1>5, ConcatParts
  <2>. QED  BY <1>4, <1>5, <2>1
<1>8. get_at(b, 0) = m.args[1]
  <2>1. 1 \in 1 .. Len(x \o y) /\ WORD \in 1 .. Len(x \o y)  BY <1>0, <1>5
  <2>2. SubSeq((x \o y) \o z, 1, WORD) = SubSeq(x \o y, 1, WORD)  BY <1>1, <1>5, <2>1, SubSeqOfConcat1
  <2>3. SubSeq(x \o y, 1, Len(x)) = x  BY <1>2, <1>3, ConcatParts
  <2>4. SubSeq(b, 1, WORD) = x  BY <1>2, <1>4, <2>2, <2>3
  <2>5. 0 * WORD + 1 = 1 /\ (0 + 1) * WORD = WORD  BY <1>0
  <2>6. get_at(b, 0) = get(x)  BY <2>4, <2>5 DEF get_at
  <2>. QED  BY <1>2, <2>6
<1>9. get_at(b, 1) = m.args[2]
  <2>1. WORD + 1 \in 1 .. Len(x \o y) /\ 2 * WORD \in 1 .. Len(x \o y)  BY <1>0, <1>5
  <2>2. SubSeq((x \o y) \o z, WORD + 1, 2 * WORD) = SubSeq(x \o y, WORD + 1, 2 * WORD)
    BY <1>1, <1>5, <2>1, SubSeqOfConcat1
  <2>3. SubSeq(x \o y, Len(x) + 1, Len(x \o y)) = y  BY <1>2, <1>3, ConcatParts
  <2>4. SubSeq(b, WORD + 1, 2 * WORD) = y  BY <1>2, <1>4, <1>5, <2>2, <2>3
  <2>5. 1 * WORD + 1 = WORD + 1 /\ (1 + 1) * WORD = 2 * WORD  BY <1>0
  <2>6. get_at(b, 1) = get(y)  BY <2>4, <2>5 DEF get_at
  <2>. QED  BY <1>3, <2>6
<1>10. parsed("piece", b) = m
  <2>1. parsed("piece", b) = [type |-> "piece", args |-> <<get_at(b, 0), get_at(b, 1)>>,
                              data |-> SubSeq(b, 2 * WORD + 1, Len(b))]
    BY DEF parsed, Simple
  <2>. QED  BY <1>1, <1>7, <1>8, <1>9, <2>1
<1>11. well_sized("piece", Len(b))  BY <1>0, <1>6 DEF well_sized
<1>12. "piece" \in DOMAIN id  BY DEF id
<1>. QED  BY <1>6, <1>10, <1>11, <1>12 DEF PayloadRight, b

\* The messages with a shorter payload.
LEMMA ShortBack ==
    ASSUME NEW m, IsMessage(m), m.type \in Simple \cup {"port", "bitfield"} PROVE PayloadRight(m)
<1>1. CASE m.type \in Simple
  <2>1. m = [type |-> m.type] /\ payload(m) = <<>>  BY <1>1 DEF IsMessage, Simple, payload
  <2>2. parsed(m.type, <<>>) = [type |-> m.type]  BY <1>1 DEF parsed, Simple
  <2>3. well_sized(m.type, 0)
    <3>1. arity(m.type) = 0 /\ 0 * WORD = 0  BY <1>1, WireNumbers DEF arity, Simple
    <3>2. well_sized(m.type, 0) <=> 0 = arity(m.type) * WORD  BY <1>1 DEF well_sized, Simple
    <3>. QED  BY <3>1, <3>2
  <2>4. m.type \in DOMAIN id  BY <1>1 DEF id, Simple
  <2>5. Len(<<>>) = 0 /\ <<>> \in Seq(WireByte)  OBVIOUS
  <2>6. parsed(m.type, payload(m)) = m  BY <2>1, <2>2, Zenon
  <2>7. payload(m) \in Seq(WireByte) /\ Len(payload(m)) = 0  BY <2>1, <2>5, Zenon
  <2>. QED  BY <2>3, <2>4, <2>6, <2>7 DEF PayloadRight
<1>2. CASE m.type = "port"
  <2>. DEFINE p == m.args[1]
              b == payload(m)
  <2>1. m = [type |-> "port", args |-> <<p>>] /\ p \in 0 .. RADIX^HALF - 1  BY <1>2 DEF IsMessage, Simple
  <2>2. b = put(p, HALF)  BY <1>2 DEF payload, Simple
  <2>3. b \in Seq(WireByte) /\ Len(b) = HALF /\ get(b) = p  BY <2>1, <2>2, PutGet
  <2>. HIDE DEF b, p
  <2>4. SubSeq(b, 1, HALF) = b  BY <2>3, SubSeqFull
  <2>5. parsed("port", b) = [type |-> "port", args |-> <<get(SubSeq(b, 1, HALF))>>]  BY DEF parsed, Simple
  <2>6. parsed("port", b) = m  BY <2>1, <2>3, <2>4, <2>5
  <2>7. well_sized("port", Len(b)) /\ "port" \in DOMAIN id  BY <2>3 DEF well_sized, id
  <2>. QED  BY <1>2, <2>3, <2>6, <2>7 DEF PayloadRight, b
<1>3. CASE m.type = "bitfield"
  <2>1. m = [type |-> "bitfield", data |-> m.data] /\ m.data \in Seq(WireByte)  BY <1>3 DEF IsMessage, Simple
  <2>2. payload(m) = m.data  BY <1>3 DEF payload, Simple
  <2>3. parsed("bitfield", m.data) = [type |-> "bitfield", data |-> m.data]  BY DEF parsed, Simple
  <2>4. well_sized("bitfield", Len(m.data)) /\ "bitfield" \in DOMAIN id  BY DEF well_sized, id
  <2>. QED  BY <1>3, <2>1, <2>2, <2>3, <2>4 DEF PayloadRight
<1>. QED  BY <1>1, <1>2, <1>3

\* A payload is read back as the message it was made from.
LEMMA PayloadBack ==
    ASSUME NEW m, IsMessage(m), m.type # "keep_alive" PROVE PayloadRight(m)
<1>1. m.type \in {"have", "request", "cancel"} \/ m.type = "piece" \/ m.type \in Simple \cup {"port", "bitfield"}
  BY DEF IsMessage
<1>. QED  BY <1>1, WordsBack, PieceBack, ShortBack

\* Two ways to cut a stream of bytes show the same bytes where both go.
LEMMA SameRange ==
    ASSUME NEW s \in Seq(WireByte), NEW t \in Seq(WireByte), NEW x \in Seq(WireByte), NEW y \in Seq(WireByte),
           s \o x = t \o y, NEW a \in Nat \ {0}, NEW b \in Nat, a <= b, b <= Len(s), b <= Len(t)
    PROVE  SubSeq(s, a, b) = SubSeq(t, a, b)
<1>1. Len(s) \in Nat /\ Len(t) \in Nat  BY LenProperties
<1>2. a \in 1 .. Len(s) /\ b \in 1 .. Len(s) /\ a \in 1 .. Len(t) /\ b \in 1 .. Len(t)  BY <1>1
<1>3. SubSeq(s \o x, a, b) = SubSeq(s, a, b)  BY <1>2, SubSeqOfConcat1
<1>4. SubSeq(t \o y, a, b) = SubSeq(t, a, b)  BY <1>2, SubSeqOfConcat1
<1>. QED  BY <1>3, <1>4, Zenon

\* Bytes make a number.
LEMMA GetNat == ASSUME NEW ds \in Seq(WireByte) PROVE get(ds) \in Nat
<1>. DEFINE n == Len(ds)
<1>1. n \in Nat /\ ds \in [1 .. n -> WireByte]  BY LenProperties
<1>2. ds \in [1 .. n -> Nat]  BY <1>1, WireNumbers DEF WireByte
<1>. HIDE DEF n
<1>3. PICK v : Horner(v, RADIX, n, ds) /\ v[n] = number_of(RADIX, ds)
  BY <1>1, <1>2, WireNumbers, NumberRuns
<1>4. v \in [0 .. n -> Nat] /\ n \in 0 .. n  BY <1>1, <1>3 DEF Horner
<1>5. get(ds) = number_of(RADIX, ds)  BY DEF get, number_of
<1>. QED  BY <1>3, <1>4, <1>5

\* Ids are different.
LEMMA IdInjective ==
    /\ \A t \in DOMAIN id : id[t] \in 0 .. 9
    /\ \A a, b \in DOMAIN id : id[a] = id[b] => a = b
<1>1. DOMAIN id = {"choke", "unchoke", "interested", "not_interested", "have", "bitfield",
                   "request", "piece", "cancel", "port"}
  BY DEF id
<1>2. id["choke"] = 0 /\ id["unchoke"] = 1 /\ id["interested"] = 2 /\ id["not_interested"] = 3
      /\ id["have"] = 4 /\ id["bitfield"] = 5 /\ id["request"] = 6 /\ id["piece"] = 7
      /\ id["cancel"] = 8 /\ id["port"] = 9
  BY DEF id
<1>. QED  BY <1>1, <1>2

\* A frame with an id and a payload is its message.
LEMMA DecodeBody ==
    ASSUME NEW m, PayloadRight(m)
    PROVE  decode_body(<<id[m.type]>> \o payload(m)) = Gives(m, WORD + 1 + Len(payload(m)))
<1>. DEFINE p == payload(m)
            h == <<id[m.type]>>
            body == h \o p
<1>1. m.type \in DOMAIN id /\ p \in Seq(WireByte) /\ well_sized(m.type, Len(p)) /\ parsed(m.type, p) = m
  BY DEF PayloadRight
<1>2. id[m.type] \in WireByte
  <2>1. id[m.type] \in 0 .. 10  BY <1>1, IdInjective
  <2>. QED  BY <2>1, WireNumbers
<1>3. h \in Seq(WireByte) /\ Len(h) = 1 /\ h[1] = id[m.type]  BY <1>2
<1>4. Len(p) \in Nat  BY <1>1, LenProperties
<1>. HIDE DEF p, h
<1>5. body \in Seq(WireByte) /\ Len(body) = 1 + Len(p) /\ body[1] = id[m.type]
  <2>1. body \in Seq(WireByte) /\ Len(body) = Len(h) + Len(p)
        /\ \A ix \in 1 .. Len(h) + Len(p) : body[ix] = IF ix <= Len(h) THEN h[ix] ELSE p[ix - Len(h)]
    BY <1>1, <1>3, ConcatProperties
  <2>2. 1 \in 1 .. Len(h) + Len(p) /\ 1 <= Len(h)  BY <1>3, <1>4
  <2>. QED  BY <1>3, <2>1, <2>2
<1>6. Tail(body) = p
  <2>1. SubSeq(body, Len(h) + 1, Len(body)) = p  BY <1>1, <1>3, ConcatParts
  <2>2. Tail(body) = SubSeq(body, 2, Len(body))
    <3>1. body # <<>>  BY <1>4, <1>5
    <3>. QED  BY <1>5, <3>1, TailIsSubSeq
  <2>. QED  BY <1>3, <2>1, <2>2
<1>. HIDE DEF body
<1>7. Len(body) - 1 = Len(p)  BY <1>4, <1>5
<1>8. \E type \in DOMAIN id : id[type] = body[1] /\ well_sized(type, Len(body) - 1)
  BY <1>1, <1>5, <1>7
<1>9. (CHOOSE t \in DOMAIN id : id[t] = body[1]) = m.type
  <2>1. \A t \in DOMAIN id : id[t] = body[1] <=> t = m.type  BY <1>1, <1>5, IdInjective
  <2>. QED  BY <1>1, <2>1
<1>10. decode_body(body) = Gives(parsed(m.type, Tail(body)), WORD + Len(body))
  BY <1>8, <1>9 DEF decode_body
<1>11. WORD + Len(body) = WORD + 1 + Len(p)  BY <1>4, <1>5, WireNumbers
<1>. QED  BY <1>1, <1>6, <1>10, <1>11 DEF body, h, p

\* What decode does with the frame of a message, however much of it is there.
LEMMA DecodeMessage ==
    ASSUME NEW m \in Messages, NEW s \in Seq(WireByte), NEW x \in Seq(WireByte), NEW y \in Seq(WireByte),
           s \o x = encode(m) \o y
    PROVE  /\ Len(s) >= Len(encode(m)) => decode(s) = Gives(m, Len(encode(m)))
           /\ Len(s) < Len(encode(m)) => decode(s) = Waits
<1>0. WORD \in Nat \ {0} /\ RADIX^WORD \in Nat \ {0} /\ MAX_MESSAGE_LEN \in Nat
      /\ MAX_MESSAGE_LEN < RADIX^WORD /\ Len(s) \in Nat
  BY WireNumbers, LenProperties
<1>1. IsMessage(m)  BY SentAssumption
<1>2. CASE m.type = "keep_alive"
  <2>. DEFINE E == put(0, WORD)
  <2>1. encode(m) = E /\ m = [type |-> "keep_alive"]
    BY <1>1, <1>2 DEF encode, IsMessage, Simple
  <2>2. E \in Seq(WireByte) /\ Len(E) = WORD /\ get(E) = 0
    <3>1. 0 \in 0 .. RADIX^WORD - 1
      <4>. DEFINE M == RADIX^WORD
      <4>1. M \in Nat \ {0}  BY <1>0
      <4>. HIDE DEF M
      <4>2. 0 \in 0 .. M - 1  BY <4>1
      <4>. QED  BY <4>2 DEF M
    <3>. QED  BY <3>1, PutGet
  <2>. HIDE DEF E
  <2>3. CASE Len(s) < WORD  BY <1>0, <2>1, <2>2, <2>3 DEF decode
  <2>4. CASE Len(s) >= WORD
    <3>1. SubSeq(s, 1, WORD) = SubSeq(E, 1, WORD)
      <4>1. s \o x = E \o y  BY <2>1, Zenon
      <4>2. 1 \in Nat \ {0} /\ 1 <= WORD /\ WORD <= Len(s) /\ WORD <= Len(E)  BY <1>0, <2>2, <2>4
      <4>. QED  BY <1>0, <2>2, <4>1, <4>2, SameRange
    <3>2. SubSeq(E, 1, WORD) = E  BY <2>2, SubSeqFull
    <3>3. get(SubSeq(s, 1, WORD)) = 0  BY <2>2, <3>1, <3>2
    <3>4. decode(s) = Gives([type |-> "keep_alive"], WORD)
      <4>1. ~ (Len(s) < WORD)  BY <1>0, <2>4
      <4>2. ~ (0 > MAX_MESSAGE_LEN) /\ 0 \notin 1 .. MAX_MESSAGE_LEN  BY <1>0
      <4>. QED  BY <3>3, <4>1, <4>2 DEF decode
    <3>. QED  BY <1>0, <2>1, <2>2, <2>4, <3>4
  <2>. QED  BY <1>0, <2>3, <2>4
<1>3. CASE m.type # "keep_alive"
  <2>. DEFINE p == payload(m)
              len == 1 + Len(p)
              h == put(len, WORD)
              tag == <<id[m.type]>>
              E == encode(m)
  <2>1. PayloadRight(m)  BY <1>1, <1>3, PayloadBack
  <2>2. p \in Seq(WireByte) /\ Len(p) \in Nat /\ len \in 1 .. MAX_MESSAGE_LEN
    <3>1. p \in Seq(WireByte)  BY <2>1 DEF PayloadRight
    <3>2. Len(p) \in Nat  BY <3>1, LenProperties
    <3>3. len <= MAX_MESSAGE_LEN  BY <1>3, SentAssumption
    <3>. QED  BY <1>0, <3>1, <3>2, <3>3
  <2>3. h \in Seq(WireByte) /\ Len(h) = WORD /\ get(h) = len
    <3>. HIDE DEF len
    <3>1. len \in 0 .. RADIX^WORD - 1
      <4>. DEFINE M == RADIX^WORD
      <4>1. M \in Nat /\ MAX_MESSAGE_LEN < M  BY <1>0
      <4>. HIDE DEF M
      <4>2. len \in 0 .. M - 1  BY <1>0, <2>2, <4>1
      <4>. QED  BY <4>2 DEF M
    <3>. QED  BY <3>1, PutGet
  <2>4. tag \in Seq(WireByte) /\ Len(tag) = 1
    <3>1. m.type \in DOMAIN id  BY <2>1 DEF PayloadRight
    <3>2. id[m.type] \in 0 .. 10  BY <3>1, IdInjective
    <3>3. id[m.type] \in WireByte  BY <3>2, WireNumbers
    <3>. QED  BY <3>3
  <2>5. E = (h \o tag) \o p  BY <1>3, Zenon DEF encode
  <2>. HIDE DEF p, h, tag, E
  <2>6. E = h \o (tag \o p) /\ tag \o p \in Seq(WireByte) /\ Len(tag \o p) = len
    <3>0. h \in Seq(WireByte) /\ tag \in Seq(WireByte) /\ p \in Seq(WireByte)  BY <2>2, <2>3, <2>4
    <3>1. Groups(h, tag, p)  BY <3>0, Regroup
    <3>2. tag \o p \in Seq(WireByte) /\ Len(tag \o p) = Len(tag) + Len(p)  BY <2>2, <2>4, ConcatProperties
    <3>3. E = h \o (tag \o p)  BY <2>5, <3>1, Zenon DEF Groups
    <3>. QED  BY <2>4, <3>2, <3>3
  <2>7. E \in Seq(WireByte) /\ Len(E) = WORD + len
    <3>1. h \o (tag \o p) \in Seq(WireByte) /\ Len(h \o (tag \o p)) = Len(h) + Len(tag \o p)
      BY <2>3, <2>6, ConcatProperties
    <3>. QED  BY <2>3, <2>6, <3>1
  <2>8. s \o x = E \o y  BY DEF E
  <2>9. decode_body(tag \o p) = Gives(m, WORD + len)
    <3>1. decode_body(tag \o p) = Gives(m, WORD + 1 + Len(p))  BY <2>1, DecodeBody DEF tag, p
    <3>2. WORD + 1 + Len(p) = WORD + len  BY <1>0, <2>2
    <3>. QED  BY <3>1, <3>2
  <2>. HIDE DEF len
  <2>10. CASE Len(s) < WORD  BY <1>0, <2>2, <2>7, <2>10 DEF decode, E
  <2>11. CASE Len(s) >= WORD
    <3>1. get(SubSeq(s, 1, WORD)) = len
      <4>1. WORD <= Len(E)  BY <1>0, <2>2, <2>7
      <4>2. SubSeq(s, 1, WORD) = SubSeq(E, 1, WORD)  BY <1>0, <2>7, <2>8, <2>11, <4>1, SameRange
      <4>3. SubSeq(E, 1, WORD) = h
        <5>1. SubSeq(h \o (tag \o p), 1, Len(h)) = h  BY <2>3, <2>6, ConcatParts
        <5>. QED  BY <2>3, <2>6, <5>1, Zenon
      <4>. QED  BY <2>3, <4>2, <4>3, Zenon
    <3>2. ~ (Len(s) < WORD) /\ len # 0 /\ ~ (len > MAX_MESSAGE_LEN)  BY <1>0, <2>2, <2>11
    <3>3. CASE Len(s) < WORD + len
      <4>1. ~ frame_ready(s, len)  BY <1>0, <2>2, <3>3 DEF frame_ready
      <4>2. decode(s) = Waits  BY <2>2, <3>1, <3>2, <4>1 DEF decode
      <4>. QED  BY <1>0, <2>2, <2>7, <3>3, <4>2 DEF E
    <3>4. CASE Len(s) >= WORD + len
      <4>1. frame_ready(s, len)  BY <3>4 DEF frame_ready
      <4>2. SubSeq(s, WORD + 1, WORD + len) = tag \o p
        <5>1. WORD + 1 \in Nat \ {0} /\ WORD + len \in Nat /\ WORD + 1 <= WORD + len
              /\ WORD + len <= Len(s) /\ WORD + len <= Len(E)
          BY <1>0, <2>2, <2>7, <3>4
        <5>2. SubSeq(s, WORD + 1, WORD + len) = SubSeq(E, WORD + 1, WORD + len)
          BY <2>7, <2>8, <5>1, SameRange, SMTT(30)
        <5>3. SubSeq(h \o (tag \o p), Len(h) + 1, Len(h \o (tag \o p))) = tag \o p
          BY <2>3, <2>6, ConcatParts
        <5>4. SubSeq(E, WORD + 1, WORD + len) = tag \o p  BY <2>3, <2>6, <2>7, <5>3
        <5>. QED  BY <5>2, <5>4
      <4>3. decode(s) = decode_body(SubSeq(s, WORD + 1, WORD + len))
        BY <3>1, <3>2, <4>1 DEF decode
      <4>4. decode(s) = Gives(m, WORD + len)  BY <2>9, <4>2, <4>3
      <4>. QED  BY <1>0, <2>2, <2>7, <3>4, <4>4 DEF E
    <3>. QED  BY <1>0, <2>2, <3>3, <3>4
  <2>. QED  BY <1>0, <2>10, <2>11
<1>. QED  BY <1>2, <1>3

\* decode refuses a malformed frame.
LEMMA MalformedFails == ASSUME NEW f \in Malformed PROVE f \in Seq(WireByte) /\ decode(f) = Fails
<1>. DEFINE len == get(SubSeq(f, 1, WORD))
            body == SubSeq(f, WORD + 1, WORD + len)
<1>1. IsMalformed(f)  BY SentAssumption
<1>2. f \in Seq(WireByte) /\ Len(f) >= WORD /\ Len(f) \in Nat  BY <1>1, LenProperties DEF IsMalformed
<1>3. WORD \in Nat \ {0} /\ HALF \in Nat \ {0} /\ MAX_MESSAGE_LEN \in Nat  BY WireNumbers
<1>4. len \in Nat
  <2>1. \A k \in 1 .. WORD : f[k] \in WireByte  BY <1>2, <1>3, LenProperties
  <2>2. SubSeq(f, 1, WORD) \in Seq(WireByte)  BY <1>2, <1>3, <2>1, SubSeqProperties
  <2>. QED  BY <2>2, GetNat
<1>5. CASE len > MAX_MESSAGE_LEN
  <2>1. ~ (Len(f) < WORD) /\ len # 0 /\ ~ (len \in 1 .. MAX_MESSAGE_LEN)  BY <1>2, <1>3, <1>4, <1>5
  <2>. HIDE DEF len
  <2>. QED  BY <1>2, <1>5, <2>1 DEF decode, len
<1>6. CASE len \in 1 .. MAX_MESSAGE_LEN /\ Len(f) = WORD + len
           /\ \A type \in DOMAIN id : id[type] = f[WORD + 1] => ~ Carries(type, len - 1)
  <2>1. decode(f) = decode_body(body)
    <3>1. ~ (Len(f) < WORD) /\ len # 0 /\ ~ (len > MAX_MESSAGE_LEN) /\ frame_ready(f, len)
      <4>. HIDE DEF len
      <4>. QED  BY <1>2, <1>3, <1>6 DEF frame_ready
    <3>. QED  BY <3>1 DEF decode
  <2>2. body[1] = f[WORD + 1] /\ Len(body) - 1 = len - 1
    <3>. HIDE DEF len
    <3>1. \A k \in WORD + 1 .. WORD + len : f[k] \in WireByte  BY <1>2, <1>3, <1>6, LenProperties
    <3>2. WORD + 1 \in Nat /\ WORD + len \in Nat /\ WORD + 1 <= WORD + len
          /\ (WORD + len) - (WORD + 1) + 1 = len /\ 1 \in 1 .. (WORD + len) - (WORD + 1) + 1
          /\ (WORD + 1) + 1 - 1 = WORD + 1
      BY <1>3, <1>6
    <3>3. Len(body) = (IF WORD + 1 <= WORD + len THEN (WORD + len) - (WORD + 1) + 1 ELSE 0)
          /\ \A k \in 1 .. (WORD + len) - (WORD + 1) + 1 : body[k] = f[(WORD + 1) + k - 1]
      BY <1>2, <3>1, <3>2, SubSeqProperties
    <3>. QED  BY <3>2, <3>3
  <2>. HIDE DEF body, len
  <2>3. \A type \in DOMAIN id : well_sized(type, len - 1) => Carries(type, len - 1)
    BY <1>3, <1>6 DEF well_sized, Carries, arity, id, Simple
  <2>4. ~ \E type \in DOMAIN id : id[type] = body[1] /\ well_sized(type, Len(body) - 1)
    BY <1>6, <2>2, <2>3
  <2>5. decode_body(body) = Fails  BY <2>4, Zenon DEF decode_body
  <2>. QED  BY <1>2, <2>1, <2>5
<1>. QED  BY <1>1, <1>5, <1>6 DEF IsMalformed

\* What decode does with a malformed frame, however much of it is there.
LEMMA DecodeMalformed ==
    ASSUME NEW f \in Malformed, NEW s \in Seq(WireByte), NEW x \in Seq(WireByte), NEW y \in Seq(WireByte),
           s \o x = f \o y
    PROVE  decode(s) = Fails \/ (decode(s) = Waits /\ Len(s) < Len(f))
<1>0. WORD \in Nat \ {0} /\ MAX_MESSAGE_LEN \in Nat /\ Len(s) \in Nat /\ f \in Seq(WireByte)
      /\ Len(f) \in Nat /\ decode(f) = Fails
  <2>1. f \in Seq(WireByte) /\ decode(f) = Fails  BY MalformedFails
  <2>. QED  BY <2>1, WireNumbers, LenProperties
<1>00. ASSUME NEW a \in Nat \ {0}, NEW b \in Nat, a <= b, b <= Len(s), b <= Len(f)
       PROVE  SubSeq(s, a, b) = SubSeq(f, a, b)
  <2>1. f \in Seq(WireByte)  BY <1>0
  <2>. QED  BY <1>00, <2>1, SameRange, ZenonT(60)
<1>. DEFINE len == get(SubSeq(f, 1, WORD))
<1>1. Waits # Fails /\ \A m, n : Gives(m, n) # Fails  BY DEF Waits, Fails, Gives
<1>2. Len(f) >= WORD
  <2>1. Len(f) < WORD => decode(f) = Waits  BY DEF decode
  <2>. QED  BY <1>0, <1>1, <2>1
<1>3. len \in Nat
  <2>1. \A ix \in 1 .. WORD : f[ix] \in WireByte  BY <1>0, <1>2, LenProperties
  <2>2. SubSeq(f, 1, WORD) \in Seq(WireByte)  BY <1>0, <2>1, SubSeqProperties
  <2>. QED  BY <2>2, GetNat
<1>4. CASE Len(s) < WORD
  <2>1. decode(s) = Waits  BY <1>4 DEF decode
  <2>. QED  BY <1>0, <1>2, <1>4, <2>1
<1>5. CASE Len(s) >= WORD
  <2>1. get(SubSeq(s, 1, WORD)) = len
    <3>1. 1 \in Nat \ {0} /\ 1 <= WORD /\ WORD <= Len(s) /\ WORD <= Len(f)  BY <1>0, <1>2, <1>5
    <3>2. SubSeq(s, 1, WORD) = SubSeq(f, 1, WORD)  BY <1>0, <1>00, <3>1
    <3>. QED  BY <3>2
  <2>2. ~ (Len(s) < WORD) /\ ~ (Len(f) < WORD)  BY <1>0, <1>2, <1>5
  <2>. DEFINE branch(b) == decode(b) =
                CASE len = 0 -> Gives([type |-> "keep_alive"], WORD)
                  [] len > MAX_MESSAGE_LEN -> Fails
                  [] len \in 1 .. MAX_MESSAGE_LEN /\ ~ frame_ready(b, len) -> Waits
                  [] OTHER -> decode_body(SubSeq(b, WORD + 1, WORD + len))
  <2>3. branch(f)  BY <2>2 DEF decode
  <2>4. branch(s)
    <3>. HIDE DEF len
    <3>. QED  BY <2>1, <2>2 DEF decode
  <2>. HIDE DEF len
  <2>5. len # 0
    <3>1. len = 0 => ~ (len > MAX_MESSAGE_LEN) /\ len \notin 1 .. MAX_MESSAGE_LEN  BY <1>0
    <3>2. len = 0 => decode(f) = Gives([type |-> "keep_alive"], WORD)  BY <2>3, <3>1
    <3>. QED  BY <1>0, <1>1, <3>2
  <2>6. CASE len > MAX_MESSAGE_LEN
    <3>1. len \notin 1 .. MAX_MESSAGE_LEN  BY <1>0, <1>3, <2>6
    <3>2. decode(s) = Fails  BY <2>4, <2>5, <2>6, <3>1
    <3>. QED  BY <3>2
  <2>7. CASE ~ (len > MAX_MESSAGE_LEN)
    <3>1. len \in 1 .. MAX_MESSAGE_LEN  BY <1>0, <1>3, <2>5, <2>7
    <3>2. frame_ready(f, len)  BY <1>0, <1>1, <2>3, <2>5, <2>7, <3>1
    <3>3. WORD + len <= Len(f)  BY <1>0, <1>3, <3>2 DEF frame_ready
    <3>4. CASE ~ frame_ready(s, len)
      <4>1. decode(s) = Waits  BY <2>4, <2>5, <2>7, <3>1, <3>4
      <4>2. Len(s) < WORD + len  BY <1>0, <1>3, <3>4 DEF frame_ready
      <4>. QED  BY <1>0, <1>3, <3>3, <4>1, <4>2
    <3>5. CASE frame_ready(s, len)
      <4>1. decode(s) = decode_body(SubSeq(s, WORD + 1, WORD + len))  BY <2>4, <2>5, <2>7, <3>5
      <4>2. decode(f) = decode_body(SubSeq(f, WORD + 1, WORD + len))  BY <2>3, <2>5, <2>7, <3>2
      <4>3. WORD + 1 \in Nat \ {0} /\ WORD + len \in Nat /\ WORD + 1 <= WORD + len
            /\ WORD + len <= Len(s)
        BY <1>0, <1>3, <3>1, <3>5 DEF frame_ready
      <4>4. SubSeq(s, WORD + 1, WORD + len) = SubSeq(f, WORD + 1, WORD + len)
        BY <1>00, <3>3, <4>3
      <4>5. decode(s) = decode(f)  BY <4>1, <4>2, <4>4, Zenon
      <4>. QED  BY <1>0, <4>5
    <3>. QED  BY <3>4, <3>5
  <2>. QED  BY <2>6, <2>7
<1>. QED  BY <1>0, <1>4, <1>5

\* The bytes of the first k items.
sent(items, k) == FlattenSeq([j \in 1 .. k |-> bytes_of(items[j])])

\* The bytes of an item.
LEMMA ItemBytes ==
    ASSUME NEW e \in Items
    PROVE  bytes_of(e) \in Seq(WireByte) /\ Len(bytes_of(e)) \in Nat \ {0}
<1>1. CASE e \in Messages
  <2>1. IsMessage(e)  BY <1>1, SentAssumption
  <2>2. bytes_of(e) = encode(e)  BY <2>1 DEF bytes_of, IsMessage, Simple
  <2>3. WORD \in Nat \ {0} /\ RADIX^WORD \in Nat \ {0} /\ MAX_MESSAGE_LEN \in Nat
        /\ MAX_MESSAGE_LEN < RADIX^WORD
    BY WireNumbers
  <2>. DEFINE M == RADIX^WORD
  <2>4. M \in Nat \ {0} /\ MAX_MESSAGE_LEN < M  BY <2>3
  <2>5. CASE e.type = "keep_alive"
    <3>1. encode(e) = put(0, WORD)  BY <2>5 DEF encode
    <3>2. 0 \in 0 .. M - 1
      <4>. HIDE DEF M
      <4>. QED  BY <2>4
    <3>3. put(0, WORD) \in Seq(WireByte) /\ Len(put(0, WORD)) = WORD  BY <3>2, PutGet
    <3>. QED  BY <2>2, <2>3, <3>1, <3>3
  <2>6. CASE e.type # "keep_alive"
    <3>. DEFINE p == payload(e)
                h == put(1 + Len(p), WORD)
                ix == <<id[e.type]>>
    <3>1. PayloadRight(e)  BY <2>1, <2>6, PayloadBack
    <3>2. p \in Seq(WireByte) /\ e.type \in DOMAIN id /\ 1 + Len(p) <= MAX_MESSAGE_LEN
      BY <1>1, <2>6, <3>1, SentAssumption DEF PayloadRight
    <3>3. Len(p) \in Nat  BY <3>2, LenProperties
    <3>4. ix \in Seq(WireByte)
      <4>1. id[e.type] \in 0 .. 10  BY <3>2, IdInjective
      <4>. QED  BY <4>1, WireNumbers
    <3>5. encode(e) = (h \o ix) \o p  BY <2>6, Zenon DEF encode
    <3>6. h \in Seq(WireByte) /\ Len(h) = WORD
      <4>1. 1 + Len(p) \in 0 .. M - 1
        <5>. HIDE DEF M, p
        <5>. QED  BY <2>3, <2>4, <3>2, <3>3
      <4>. HIDE DEF p
      <4>. QED  BY <4>1, PutGet
    <3>. HIDE DEF p, h, ix
    <3>7. h \o ix \in Seq(WireByte) /\ Len(h \o ix) = Len(h) + Len(ix) /\ Len(ix) \in Nat
      BY <3>4, <3>6, ConcatProperties, LenProperties
    <3>8. (h \o ix) \o p \in Seq(WireByte) /\ Len((h \o ix) \o p) = Len(h \o ix) + Len(p)
      BY <3>2, <3>7, ConcatProperties
    <3>9. Len((h \o ix) \o p) \in Nat \ {0}  BY <2>3, <3>3, <3>6, <3>7, <3>8
    <3>. QED  BY <2>2, <3>5, <3>8, <3>9
  <2>. QED  BY <2>5, <2>6
<1>2. CASE e \notin Messages
  <2>1. PICK f \in Malformed : e = BadItem(f)  BY <1>2 DEF Items
  <2>2. bytes_of(e) = f  BY <2>1 DEF bytes_of, BadItem
  <2>3. f \in Seq(WireByte) /\ decode(f) = Fails  BY MalformedFails
  <2>4. Len(f) \in Nat  BY <2>3, LenProperties
  <2>5. Len(f) # 0
    <3>1. Len(f) < WORD => decode(f) = Waits  BY DEF decode
    <3>2. Waits # Fails  BY DEF Waits, Fails
    <3>. QED  BY <2>3, <2>4, <3>1, <3>2, WireNumbers
  <2>. QED  BY <2>2, <2>3, <2>4, <2>5
<1>. QED  BY <1>1, <1>2

\* Item after item.
LEMMA SentSteps ==
    ASSUME NEW items \in Seq(Items)
    PROVE  /\ sent(items, 0) = <<>>
           /\ \A k \in 0 .. Len(items) : sent(items, k) \in Seq(WireByte)
           /\ \A k \in 1 .. Len(items) : sent(items, k) = sent(items, k - 1) \o bytes_of(items[k])
<1>. DEFINE n == Len(items)
<1>1. n \in Nat /\ \A ix \in 1 .. n : items[ix] \in Items  BY LenProperties
<1>. HIDE DEF n
<1>2. sent(items, 0) = <<>>
  <2>. DEFINE q == [j \in 1 .. 0 |-> bytes_of(items[j])]
  <2>1. q = <<>> /\ Len(q) = 0  OBVIOUS
  <2>2. FlattenSeq(q) = q
    <3>. HIDE DEF q
    <3>. QED  BY <2>1 DEF FlattenSeq
  <2>. QED  BY <2>1, <2>2 DEF sent
<1>3. ASSUME NEW k \in 1 .. n
      PROVE  sent(items, k - 1) \in Seq(WireByte)
             /\ sent(items, k) = sent(items, k - 1) \o bytes_of(items[k])
  <2>. DEFINE q == [j \in 1 .. k |-> bytes_of(items[j])]
              p == [j \in 1 .. k - 1 |-> q[j]]
              c == [j \in 1 .. k - 1 |-> bytes_of(items[j])]
  <2>1. \A j \in 1 .. k : bytes_of(items[j]) \in Seq(WireByte)  BY <1>1, ItemBytes
  <2>2. q \in [1 .. k -> Seq(WireByte)] /\ k \in Nat \ {0} /\ q[k] = bytes_of(items[k])  BY <1>1, <2>1
  <2>3. p = c
    <3>1. \A j \in 1 .. k - 1 : j \in 1 .. k  BY <1>1
    <3>. QED  BY <3>1
  <2>4. sent(items, k) = FlattenSeq(q) /\ sent(items, k - 1) = FlattenSeq(c)  BY DEF sent
  <2>. HIDE DEF q, c
  <2>5. FlattenSeq(p) \in Seq(WireByte) /\ FlattenSeq(q) = FlattenSeq(p) \o q[k]  BY <2>2, FlattenStep
  <2>. HIDE DEF p
  <2>. QED  BY <2>2, <2>3, <2>4, <2>5
<1>4. ASSUME NEW k \in 0 .. n PROVE sent(items, k) \in Seq(WireByte)
  <2>1. CASE k = 0  BY <1>2, <2>1, EmptySeq
  <2>2. CASE k # 0
    <3>1. k \in 1 .. n  BY <1>1, <2>2
    <3>2. bytes_of(items[k]) \in Seq(WireByte)  BY <1>1, <3>1, ItemBytes
    <3>. QED  BY <1>3, <3>1, <3>2, ConcatProperties
  <2>. QED  BY <2>1, <2>2
<1>. QED  BY <1>2, <1>3, <1>4 DEF n

\* What was sent after the first k items.
LEMMA SentAfter ==
    ASSUME NEW items \in Seq(Items), NEW k \in 0 .. Len(items)
    PROVE  \E t \in Seq(WireByte) : sent(items, Len(items)) = sent(items, k) \o t
<1>. DEFINE n == Len(items)
            Goes(j) == \E t \in Seq(WireByte) : sent(items, j) = sent(items, k) \o t
            T == {j \in k .. n : ~ Goes(j)}
<1>1. n \in Nat /\ k \in 0 .. n /\ \A ix \in 1 .. n : items[ix] \in Items  BY LenProperties
<1>2. /\ \A j \in 0 .. n : sent(items, j) \in Seq(WireByte)
      /\ \A j \in 1 .. n : sent(items, j) = sent(items, j - 1) \o bytes_of(items[j])
  BY SentSteps
<1>. HIDE DEF n
<1>3. Goes(k)
  <2>1. sent(items, k) \o <<>> = sent(items, k) /\ <<>> \in Seq(WireByte)
    BY <1>1, <1>2, ConcatEmptySeq, EmptySeq
  <2>. QED  BY <2>1
<1>4. ASSUME NEW j \in k + 1 .. n, Goes(j - 1) PROVE Goes(j)
  <2>1. PICK t \in Seq(WireByte) : sent(items, j - 1) = sent(items, k) \o t  BY <1>4
  <2>2. j \in 1 .. n  BY <1>1
  <2>. DEFINE a == sent(items, k)
              b == bytes_of(items[j])
  <2>3. a \in Seq(WireByte) /\ b \in Seq(WireByte)  BY <1>1, <1>2, <2>2, ItemBytes
  <2>4. sent(items, j) = (a \o t) \o b  BY <1>2, <2>1, <2>2
  <2>. HIDE DEF a, b
  <2>5. Groups(a, t, b)  BY <2>3, Regroup
  <2>6. t \o b \in Seq(WireByte)  BY <2>3, ConcatProperties
  <2>7. sent(items, j) = a \o (t \o b)  BY <2>4, <2>5, Zenon DEF Groups
  <2>. QED  BY <2>6, <2>7 DEF a
<1>. HIDE DEF Goes
<1>5. T = {}
  <2>. SUFFICES ASSUME T # {} PROVE FALSE
    OBVIOUS
  <2>1. PICK j \in T : \A ix \in Nat : ix < j => ix \notin T
    <3>1. T \in SUBSET Nat  BY <1>1
    <3>. HIDE DEF T
    <3>. QED  BY <3>1, LeastNat
  <2>2. j # k  BY <1>3
  <2>3. j \in k + 1 .. n /\ j - 1 \in k .. n /\ j - 1 \in Nat /\ j - 1 < j  BY <1>1, <2>2
  <2>4. Goes(j - 1)  BY <2>1, <2>3
  <2>. QED  BY <1>4, <2>3, <2>4
<1>6. n \in k .. n  BY <1>1
<1>7. Goes(n)  BY <1>5, <1>6
<1>. QED  BY <1>7 DEF Goes, n

\* What is left of the stream begins with the next item, or is empty after the
\* last.
LEMMA NextItem ==
    ASSUME NEW items \in Seq(Items), NEW d \in 0 .. Len(items), NEW z \in Seq(WireByte),
           sent(items, d) \o z = sent(items, Len(items))
    PROVE  \/ d = Len(items) /\ z = <<>>
           \/ /\ d < Len(items) /\ z # <<>>
              /\ \E t \in Seq(WireByte) : z = bytes_of(items[d + 1]) \o t
<1>. DEFINE n == Len(items)
            a == sent(items, d)
<1>1. n \in Nat /\ d \in 0 .. n /\ \A ix \in 1 .. n : items[ix] \in Items  BY LenProperties
<1>2. a \in Seq(WireByte)  BY SentSteps
<1>3. CASE d = n
  <2>1. a \o z = a  BY <1>3
  <2>. HIDE DEF a
  <2>2. z = <<>>  BY <1>2, <2>1, ConcatEqualIffEmpty
  <2>. QED  BY <1>3, <2>2
<1>4. CASE d # n
  <2>. DEFINE b == bytes_of(items[d + 1])
  <2>1. d + 1 \in 0 .. n /\ d + 1 \in 1 .. n /\ (d + 1) - 1 = d /\ d < n  BY <1>1, <1>4
  <2>2. PICK t \in Seq(WireByte) : sent(items, n) = sent(items, d + 1) \o t  BY <2>1, SentAfter
  <2>3. sent(items, d + 1) = a \o b
    <3>1. sent(items, d + 1) = sent(items, (d + 1) - 1) \o bytes_of(items[d + 1])  BY <2>1, SentSteps
    <3>. QED  BY <2>1, <3>1
  <2>4. b \in Seq(WireByte) /\ Len(b) \in Nat \ {0}  BY <1>1, <2>1, ItemBytes
  <2>5. a \o z = sent(items, n)  OBVIOUS
  <2>. HIDE DEF a, b
  <2>6. Groups(a, b, t)  BY <1>2, <2>4, Regroup
  <2>7. b \o t \in Seq(WireByte) /\ Len(b \o t) = Len(b) + Len(t) /\ Len(t) \in Nat
    BY <2>4, ConcatProperties, LenProperties
  <2>8. a \o z = a \o (b \o t)  BY <2>2, <2>3, <2>5, <2>6, Zenon DEF Groups
  <2>9. z = b \o t
    <3>1. SubSeq(a \o z, Len(a) + 1, Len(a \o z)) = z  BY <1>2, ConcatParts
    <3>2. SubSeq(a \o (b \o t), Len(a) + 1, Len(a \o (b \o t))) = b \o t  BY <1>2, <2>7, ConcatParts, ZenonT(60)
    <3>. QED  BY <2>8, <3>1, <3>2, Zenon
  <2>10. z # <<>>
    <3>1. Len(z) # 0  BY <2>4, <2>7, <2>9
    <3>. QED  BY <3>1
  <2>. QED  BY <2>1, <2>9, <2>10 DEF b
<1>. QED  BY <1>3, <1>4

\* The buffer after decode has taken a frame off its front.
left(s) == SubSeq(s, decode(s).used + 1, Len(s))

\* With y, the bytes of the first k items make up all that was sent.
Completes(items, k, y) == sent(items, k) \o y = sent(items, Len(items))

\* The next call of decode, with the front s of what is left in the buffer: it
\* gives the next message, or fails at a malformed frame, or there is not enough.
LEMMA DecodeNext ==
    ASSUME NEW items \in Seq(Items), NEW d \in 0 .. Len(items), NEW s \in Seq(WireByte), NEW x \in Seq(WireByte),
           sent(items, d) \o (s \o x) = sent(items, Len(items))
    PROVE  /\ decode(s).kind = "some" =>
                /\ d < Len(items) /\ items[d + 1].type # "malformed"
                /\ decode(s).message = items[d + 1]
                /\ left(s) \in Seq(WireByte)
                /\ Completes(items, d + 1, left(s) \o x)
           /\ decode(s).kind = "err" => d < Len(items) /\ items[d + 1].type = "malformed"
           /\ decode(s).kind = "none" /\ x = <<>> => s = <<>> /\ d = Len(items)
           /\ x = <<>> /\ s = <<>> => d = Len(items)
<1>. DEFINE n == Len(items)
            a == sent(items, d)
            z == s \o x
<1>1. n \in Nat /\ d \in 0 .. n /\ (\A ix \in 1 .. n : items[ix] \in Items) /\ Len(s) \in Nat
  BY LenProperties
<1>2. a \in Seq(WireByte) /\ z \in Seq(WireByte) /\ a \o z = sent(items, n)  BY SentSteps, ConcatProperties
<1>k. \A m, k : Gives(m, k).kind = "some" /\ Gives(m, k).message = m /\ Gives(m, k).used = k
      /\ Waits.kind = "none" /\ Fails.kind = "err"
  BY DEF Gives, Waits, Fails
<1>3. CASE d = n
  <2>1. z = <<>>
    <3>. HIDE DEF z
    <3>. QED  BY <1>1, <1>2, <1>3, NextItem
  <2>2. s = <<>>  BY <2>1, ConcatEqualIffEmpty
  <2>3. decode(s) = Waits
    <3>1. Len(s) < WORD  BY <2>2, WireNumbers
    <3>. QED  BY <3>1 DEF decode
  <2>4. decode(s).kind = "none"  BY <1>k, <2>3
  <2>. QED  BY <1>3, <2>2, <2>4
<1>4. CASE d # n
  <2>. DEFINE e == items[d + 1]
              b == bytes_of(e)
  <2>1. d < n /\ d + 1 \in 1 .. n /\ z # <<>>
    <3>1. d < n /\ d + 1 \in 1 .. n  BY <1>1, <1>4
    <3>2. z # <<>>
      <4>. HIDE DEF z
      <4>. QED  BY <1>1, <1>2, <1>4, NextItem
    <3>. QED  BY <3>1, <3>2
  <2>2. PICK t \in Seq(WireByte) : z = b \o t
    <3>. HIDE DEF z
    <3>. QED  BY <1>1, <1>2, <1>4, NextItem
  <2>3. e \in Items /\ b \in Seq(WireByte) /\ Len(b) \in Nat \ {0}  BY <1>1, <2>1, ItemBytes
  <2>4. s \o x = b \o t  BY <2>2
  <2>5. ~ (x = <<>> /\ s = <<>>)
    <3>1. x = <<>> /\ s = <<>> => z = <<>>  OBVIOUS
    <3>. QED  BY <2>1, <3>1
  <2>6. x = <<>> => Len(s) >= Len(b)
    <3>1. x = <<>> => s = b \o t  BY <2>4, ConcatEmptySeq
    <3>. HIDE DEF b
    <3>2. Len(b \o t) = Len(b) + Len(t) /\ Len(t) \in Nat  BY <2>3, ConcatProperties, LenProperties
    <3>. QED  BY <2>3, <3>1, <3>2
  <2>7. CASE e \in Messages
    <3>1. IsMessage(e)  BY <2>7, SentAssumption
    <3>2. e.type # "malformed"  BY <3>1 DEF IsMessage, Simple
    <3>3. b = encode(e)  BY <3>2 DEF bytes_of
    <3>4. /\ Len(s) >= Len(b) => decode(s) = Gives(e, Len(b))
          /\ Len(s) < Len(b) => decode(s) = Waits
      <4>. HIDE DEF b, e, z
      <4>1. s \o x = encode(e) \o t  BY <2>4, <3>3, Zenon
      <4>2. /\ Len(s) >= Len(encode(e)) => decode(s) = Gives(e, Len(encode(e)))
            /\ Len(s) < Len(encode(e)) => decode(s) = Waits
        BY <2>7, <4>1, DecodeMessage
      <4>. QED  BY <3>3, <4>2
    <3>5. CASE Len(s) < Len(b)
      <4>1. decode(s).kind = "none"  BY <1>k, <3>4, <3>5
      <4>. HIDE DEF b
      <4>2. x # <<>>  BY <1>1, <2>3, <2>6, <3>5
      <4>. QED  BY <4>1, <4>2
    <3>6. CASE Len(s) >= Len(b)
      <4>. DEFINE r == SubSeq(s, Len(b) + 1, Len(s))
      <4>1. decode(s) = Gives(e, Len(b))  BY <3>4, <3>6
      <4>2. decode(s).kind = "some" /\ decode(s).message = e /\ decode(s).used = Len(b)
        <5>. HIDE DEF e, b
        <5>. QED  BY <1>k, <4>1
      <4>3. sent(items, d + 1) = a \o b
        <5>1. (d + 1) - 1 = d  BY <1>1
        <5>2. sent(items, d + 1) = sent(items, (d + 1) - 1) \o bytes_of(items[d + 1])  BY <2>1, SentSteps
        <5>. QED  BY <5>1, <5>2
      <4>. HIDE DEF a, b, e, z
      <4>4. SubSeq(s, 1, Len(b)) = b /\ r \o x = t
        <5>1. Len(b) <= Len(s)  BY <1>1, <2>3, <3>6
        <5>2. b \in Seq(WireByte) /\ s \o x = b \o t  BY <2>3, <2>4
        <5>. QED  BY <5>1, <5>2, SameFront
      <4>5. r \in Seq(WireByte)
        <5>1. \A ix \in Len(b) + 1 .. Len(s) : s[ix] \in WireByte  BY <1>1, <2>3, LenProperties
        <5>. QED  BY <1>1, <2>3, <5>1, SubSeqProperties
      <4>6. (a \o b) \o t = a \o (b \o t)
        <5>1. a \in Seq(WireByte) /\ b \in Seq(WireByte) /\ t \in Seq(WireByte)  BY <1>2, <2>3
        <5>2. Groups(a, b, t)  BY <5>1, Regroup
        <5>. QED  BY <5>2, Zenon DEF Groups
      <4>7. (a \o b) \o (r \o x) = sent(items, n)  BY <1>2, <2>2, <4>4, <4>6, Zenon
      <4>8. Completes(items, d + 1, left(s) \o x)  BY <4>2, <4>3, <4>7, Zenon DEF left, Completes
      <4>9. left(s) \in Seq(WireByte)  BY <4>2, <4>5, Zenon DEF left
      <4>. QED  BY <2>1, <2>5, <3>2, <4>2, <4>8, <4>9 DEF e
    <3>7. Len(s) < Len(b) \/ Len(s) >= Len(b)
      <4>. HIDE DEF b
      <4>. QED  BY <1>1, <2>3
    <3>. QED  BY <3>5, <3>6, <3>7
  <2>8. CASE e \notin Messages
    <3>1. PICK f \in Malformed : e = BadItem(f)  BY <2>3, <2>8 DEF Items
    <3>2. e.type = "malformed" /\ b = f  BY <3>1 DEF bytes_of, BadItem
    <3>3. decode(s) = Fails \/ (decode(s) = Waits /\ Len(s) < Len(b))
      <4>. HIDE DEF b, z
      <4>1. s \o x = f \o t  BY <2>4, <3>2, Zenon
      <4>2. decode(s) = Fails \/ (decode(s) = Waits /\ Len(s) < Len(f))  BY <4>1, DecodeMalformed
      <4>. QED  BY <3>2, <4>2
    <3>4. decode(s).kind = "err" \/ (decode(s).kind = "none" /\ Len(s) < Len(b))
      <4>. HIDE DEF b
      <4>. QED  BY <1>k, <3>3
    <3>5. decode(s).kind = "none" => x # <<>>
      <4>. HIDE DEF b
      <4>. QED  BY <1>1, <2>3, <2>6, <3>4
    <3>. HIDE DEF b
    <3>. QED  BY <2>1, <2>5, <3>2, <3>4, <3>5
  <2>. QED  BY <2>7, <2>8
<1>. QED  BY <1>3, <1>4

\* What recv has returned are the first items the peer has sent, none of them
\* malformed.
Delivering ==
    /\ delivered \in Seq(Items) /\ Len(delivered) <= Len(script.items)
    /\ \A ix \in 1 .. Len(delivered) :
           delivered[ix] = script.items[ix] /\ script.items[ix].type # "malformed"

\* With x still to come, the buffer holds what follows what has been consumed.
InStep(x) ==
    /\ phase \in {"dialing", "handshake"} =>
           src \o x = to_bytes(script.handshake) \o sent(script.items, Len(script.items))
    /\ phase = "open" =>
           sent(script.items, Len(delivered)) \o (src \o x) = sent(script.items, Len(script.items))

\* What has been consumed, the buffer, what is on its way and what a peer that went
\* away never sent make up what it meant to send.
WireInv ==
    /\ script.handshake \in Handshake /\ script.items \in Seq(Items)
    /\ src \in Seq(WireByte) /\ wire \in Seq(WireByte)
    /\ \E rest \in Seq(WireByte) : (cut \/ rest = <<>>) /\ InStep(wire \o rest)
    /\ Delivering
    /\ phase \in {"dialing", "handshake"} => delivered = <<>>
    /\ phase = "open" \/ delivered # <<>> => script.handshake.info_hash = OurTorrent
    /\ EndsForCause

\* The front of a sequence.
LEMMA FrontEqual ==
    ASSUME NEW S, NEW u \in Seq(S), NEW n \in Nat, n <= Len(u), NEW v \in Seq(S), Len(v) = n,
           \A ix \in 1 .. n : v[ix] = u[ix]
    PROVE  SubSeq(u, 1, n) = v
<1>1. Len(u) \in Nat /\ \A ix \in 1 .. Len(u) : u[ix] \in S  BY LenProperties
<1>2. \A ix \in 1 .. n : u[ix] \in S  BY <1>1
<1>3. SubSeq(u, 1, n) \in Seq(S) /\ Len(SubSeq(u, 1, n)) = (IF 1 <= n THEN n - 1 + 1 ELSE 0)
      /\ \A ix \in 1 .. n - 1 + 1 : SubSeq(u, 1, n)[ix] = u[1 + ix - 1]
  BY <1>2, SubSeqProperties
<1>4. Len(SubSeq(u, 1, n)) = n  BY <1>3
<1>5. ASSUME NEW ix \in 1 .. n PROVE SubSeq(u, 1, n)[ix] = v[ix]
  <2>1. ix \in 1 .. n - 1 + 1 /\ 1 + ix - 1 = ix  OBVIOUS
  <2>. QED  BY <1>3, <2>1
<1>. QED  BY <1>3, <1>4, <1>5, SeqEqual

\* The malformed items, and the first of them.
LEMMA FirstBad ==
    ASSUME script.items \in Seq(Items)
    PROVE  LET items == script.items
               bad == {k \in DOMAIN items : items[k].type = "malformed"}
           IN  \/ bad = {} /\ GoodPrefix = items
               \/ \E k \in bad : (\A j \in bad : k <= j) /\ GoodPrefix = SubSeq(items, 1, k - 1)
<1>. DEFINE items == script.items
            bad == {k \in DOMAIN items : items[k].type = "malformed"}
            least(k) == k \in bad /\ \A j \in bad : k <= j
            f == CHOOSE k \in bad : \A j \in bad : k <= j
<1>1. DOMAIN items = 1 .. Len(items) /\ Len(items) \in Nat  BY LenProperties
<1>2. CASE bad = {}
  <2>1. GoodPrefix = items  BY <1>2 DEF GoodPrefix
  <2>. QED  BY <1>2, <2>1
<1>3. CASE bad # {}
  <2>1. \E k \in bad : \A j \in bad : k <= j
    <3>1. bad \in SUBSET Nat  BY <1>1
    <3>2. \A j \in bad : j \in Nat  BY <1>1
    <3>. HIDE DEF bad
    <3>3. PICK k \in bad : \A j \in Nat : j < k => j \notin bad  BY <1>3, <3>1, LeastNat
    <3>4. \A j \in bad : k <= j  BY <3>2, <3>3
    <3>. QED  BY <3>4
  <2>2. f \in bad /\ \A j \in bad : f <= j
    <3>. HIDE DEF bad
    <3>. QED  BY <2>1
  <2>3. GoodPrefix = SubSeq(items, 1, f - 1)  BY <1>3 DEF GoodPrefix
  <2>. HIDE DEF f, bad
  <2>4. \E k \in bad : (\A j \in bad : k <= j) /\ GoodPrefix = SubSeq(items, 1, k - 1)
    BY <2>2, <2>3
  <2>. QED  BY <2>4 DEF bad
<1>. QED  BY <1>2, <1>3

\* What was returned is a prefix of what was sent before the first malformed
\* frame; all of it, when that frame comes next.
LEMMA DeliveredGood ==
    ASSUME script.items \in Seq(Items), Delivering
    PROVE  LET items == script.items
               d == Len(delivered)
           IN  /\ IsPrefix(delivered, GoodPrefix)
               /\ d < Len(items) /\ items[d + 1].type = "malformed" =>
                      delivered = GoodPrefix /\ GoodPrefix # items
               /\ d = Len(items) => delivered = items
<1>. DEFINE items == script.items
            n == Len(items)
            d == Len(delivered)
            bad == {k \in DOMAIN items : items[k].type = "malformed"}
<1>1. /\ n \in Nat /\ DOMAIN items = 1 .. n /\ delivered \in Seq(Items) /\ d \in Nat /\ d <= n
      /\ items \in Seq(Items) /\ \A ix \in 1 .. n : items[ix] \in Items
      /\ \A ix \in 1 .. d : delivered[ix] = items[ix] /\ items[ix].type # "malformed"
  BY LenProperties DEF Delivering
<1>2. SubSeq(delivered, 1, d) = delivered  BY <1>1, SubSeqFull
<1>3. SubSeq(items, 1, d) = delivered
  <2>. HIDE DEF items, d
  <2>. QED  BY <1>1, FrontEqual DEF d, n
<1>4. d = n => delivered = items  BY <1>1, <1>3, SubSeqFull
<1>5. \A k \in bad : k \in 1 .. n /\ k > d
  <2>. SUFFICES ASSUME NEW k \in bad PROVE k \in 1 .. n /\ k > d
    OBVIOUS
  <2>1. k \in 1 .. n /\ items[k].type = "malformed"  BY <1>1
  <2>2. k \notin 1 .. d  BY <1>1, <2>1
  <2>. HIDE DEF bad, n, d
  <2>. QED  BY <1>1, <2>1, <2>2
<1>6. CASE bad = {} /\ GoodPrefix = items
  <2>1. IsPrefix(delivered, GoodPrefix)  BY <1>1, <1>2, <1>3, <1>6 DEF IsPrefix
  <2>2. ~ (d < n /\ items[d + 1].type = "malformed")
    <3>1. d < n => d + 1 \in 1 .. n  BY <1>1
    <3>. QED  BY <1>1, <1>6, <3>1
  <2>. QED  BY <1>4, <2>1, <2>2
<1>7. ASSUME NEW k \in bad, \A j \in bad : k <= j, GoodPrefix = SubSeq(items, 1, k - 1)
      PROVE  /\ IsPrefix(delivered, GoodPrefix)
             /\ d < n /\ items[d + 1].type = "malformed" => delivered = GoodPrefix /\ GoodPrefix # items
  <2>. DEFINE g == SubSeq(items, 1, k - 1)
  <2>1. k \in 1 .. n /\ k > d /\ k - 1 \in Nat /\ k - 1 <= n /\ d <= k - 1  BY <1>1, <1>5
  <2>2. g \in Seq(Items) /\ Len(g) = k - 1 /\ \A ix \in 1 .. k - 1 : g[ix] = items[ix]
    <3>1. \A ix \in 1 .. k - 1 : items[ix] \in Items  BY <1>1, <2>1
    <3>. HIDE DEF bad
    <3>2. g \in Seq(Items) /\ Len(g) = (IF 1 <= k - 1 THEN (k - 1) - 1 + 1 ELSE 0)
          /\ \A ix \in 1 .. (k - 1) - 1 + 1 : g[ix] = items[1 + ix - 1]
      BY <2>1, <3>1, SubSeqProperties
    <3>3. Len(g) = k - 1  BY <2>1, <3>2
    <3>4. ASSUME NEW ix \in 1 .. k - 1 PROVE g[ix] = items[ix]
      <4>1. ix \in 1 .. (k - 1) - 1 + 1 /\ 1 + ix - 1 = ix  BY <2>1
      <4>. QED  BY <3>2, <4>1
    <3>. QED  BY <3>2, <3>3, <3>4
  <2>. HIDE DEF g
  <2>3. SubSeq(g, 1, d) = delivered
    <3>1. \A ix \in 1 .. d : delivered[ix] = g[ix]  BY <1>1, <2>1, <2>2
    <3>2. d <= Len(g)  BY <2>1, <2>2
    <3>. HIDE DEF d, bad
    <3>. QED  BY <1>1, <2>2, <3>1, <3>2, FrontEqual DEF d
  <2>4. IsPrefix(delivered, g)
    <3>1. d <= Len(g)  BY <2>1, <2>2
    <3>. QED  BY <1>2, <2>3, <3>1 DEF IsPrefix
  <2>5. ASSUME d < n, items[d + 1].type = "malformed" PROVE delivered = g /\ g # items
    <3>1. d + 1 \in bad  BY <1>1, <2>5
    <3>. HIDE DEF bad
    <3>2. k = d + 1  BY <1>1, <1>7, <2>1, <3>1
    <3>3. Len(g) = d  BY <1>1, <2>2, <3>2
    <3>4. SubSeq(g, 1, Len(g)) = g  BY <2>2, SubSeqFull
    <3>. HIDE DEF d, n
    <3>5. delivered = g  BY <2>3, <3>3, <3>4
    <3>6. Len(g) # n  BY <1>1, <2>5, <3>3
    <3>. QED  BY <3>5, <3>6 DEF n
  <2>6. GoodPrefix = g  BY <1>7 DEF g
  <2>. QED  BY <2>4, <2>5, <2>6
<1>8. \/ bad = {} /\ GoodPrefix = items
      \/ \E k \in bad : (\A j \in bad : k <= j) /\ GoodPrefix = SubSeq(items, 1, k - 1)
  BY FirstBad
<1>. HIDE DEF bad, items, d, n
<1>. QED  BY <1>4, <1>6, <1>7, <1>8 DEF items, d, n

\* A handshake is HANDSHAKE_LEN bytes, the torrent's the fourth.
LEMMA HandshakeBytes ==
    ASSUME NEW h \in Handshake
    PROVE  /\ to_bytes(h) \in Seq(WireByte) /\ Len(to_bytes(h)) = HANDSHAKE_LEN
           /\ to_bytes(h)[4] = h.info_hash
<1>1. h.pstrlen \in 0 .. 10 /\ h.pstr \in 0 .. 10 /\ h.reserved \in 0 .. 10 /\ h.info_hash \in 0 .. 10
      /\ h.peer_id \in 0 .. 10
  BY DEF Handshake, PSTR_LEN, PSTR, OurTorrent
<1>2. h.pstrlen \in WireByte /\ h.pstr \in WireByte /\ h.reserved \in WireByte /\ h.info_hash \in WireByte /\ h.peer_id \in WireByte
  BY <1>1, WireNumbers
<1>. QED  BY <1>2 DEF to_bytes, HANDSHAKE_LEN

\* InStep speaks of the items and of what was returned only through these.
LEMMA WireInitInv == WireInit => WireInv
<1>. SUFFICES ASSUME WireInit PROVE WireInv
  OBVIOUS
<1>. DEFINE items == script.items
            n == Len(items)
            h == to_bytes(script.handshake)
<1>1. script.handshake \in Handshake /\ items \in BoundedSeq(Items, MaxItems)
      /\ wire = h \o FlattenSeq([k \in DOMAIN items |-> bytes_of(items[k])])
      /\ src = <<>> /\ phase = "dialing" /\ delivered = <<>>
  BY DEF WireInit
<1>2. items \in Seq(Items)
  <2>1. PICK m \in 0 .. MaxItems : items \in [1 .. m -> Items]  BY <1>1 DEF BoundedSeq, SeqOf
  <2>2. m \in Nat  OBVIOUS
  <2>. HIDE DEF items
  <2>. QED  BY <2>1, <2>2
<1>3. DOMAIN items = 1 .. n /\ n \in Nat  BY <1>2, LenProperties
<1>4. wire = h \o sent(items, n)  BY <1>1, <1>3 DEF sent
<1>5. h \in Seq(WireByte)  BY <1>1, HandshakeBytes
<1>6. sent(items, n) \in Seq(WireByte)
  <2>1. n \in 0 .. n  BY <1>3
  <2>. HIDE DEF items
  <2>. QED  BY <1>2, <2>1, SentSteps DEF n
<1>7. wire \in Seq(WireByte) /\ src \in Seq(WireByte) /\ <<>> \in Seq(WireByte)
  BY <1>1, <1>4, <1>5, <1>6, ConcatProperties, EmptySeq, ZenonT(60)
<1>8. src \o (wire \o <<>>) = wire  BY <1>1, <1>7, ConcatEmptySeq
<1>9. InStep(wire \o <<>>)  BY <1>1, <1>4, <1>8 DEF InStep
<1>10. Delivering
  <2>1. Len(<<>>) = 0 /\ <<>> \in Seq(Items)  OBVIOUS
  <2>. QED  BY <1>1, <1>3, <2>1 DEF Delivering
<1>11. EndsForCause  BY <1>1 DEF EndsForCause
<1>. QED  BY <1>1, <1>2, <1>7, <1>9, <1>10, <1>11 DEF WireInv

\* A step that consumes nothing and returns nothing keeps what was returned.
LEMMA DeliveringKept == Delivering /\ UNCHANGED <<script, delivered>> => Delivering'
BY DEF Delivering

\* Bytes arrive, or never will.
LEMMA ArriveInv == ASSUME NEW k \in 1 .. Len(wire), WireInv, Arrive(k) PROVE WireInv'
<1>. DEFINE a == SubSeq(wire, 1, k)
            b == SubSeq(wire, k + 1, Len(wire))
<1>1. /\ script' = script /\ cut' = cut /\ phase' = phase /\ delivered' = delivered
      /\ src' = src \o a /\ wire' = b /\ phase \in {"handshake", "open"}
  BY DEF Arrive, Reading
<1>2. src \in Seq(WireByte) /\ wire \in Seq(WireByte) /\ Len(wire) \in Nat /\ \A ix \in 1 .. Len(wire) : wire[ix] \in WireByte
  BY LenProperties DEF WireInv
<1>3. a \in Seq(WireByte) /\ b \in Seq(WireByte)
  <2>1. (\A ix \in 1 .. k : wire[ix] \in WireByte) /\ (\A ix \in k + 1 .. Len(wire) : wire[ix] \in WireByte)  BY <1>2
  <2>2. a \in Seq(WireByte)  BY <1>2, <2>1, SubSeqProperties
  <2>3. b \in Seq(WireByte)  BY <1>2, <2>1, SubSeqProperties
  <2>. QED  BY <2>2, <2>3
<1>4. a \o b = wire
  <2>1. 1 \in 1 .. Len(wire) + 1 /\ k \in 1 - 1 .. Len(wire) /\ Len(wire) \in k .. Len(wire)  BY <1>2
  <2>2. a \o b = SubSeq(wire, 1, Len(wire))  BY <1>2, <2>1, ConcatAdjacentSubSeq
  <2>. QED  BY <1>2, <2>2, SubSeqFull
<1>. HIDE DEF a, b
<1>5. PICK rest \in Seq(WireByte) : (cut \/ rest = <<>>) /\ InStep(wire \o rest)  BY DEF WireInv
<1>6. src' \o (wire' \o rest) = src \o (wire \o rest)
  <2>1. b \o rest \in Seq(WireByte)  BY <1>3, ConcatProperties
  <2>2. (src \o a) \o (b \o rest) = src \o (a \o (b \o rest))
    <3>. DEFINE c == b \o rest
    <3>1. src \in Seq(WireByte) /\ a \in Seq(WireByte) /\ c \in Seq(WireByte)  BY <1>2, <1>3, <2>1
    <3>. HIDE DEF c
    <3>2. Groups(src, a, c)  BY <3>1, Regroup
    <3>. QED  BY <3>2, Zenon DEF Groups, c
  <2>3. Groups(a, b, rest)  BY <1>3, Regroup
  <2>. QED  BY <1>1, <1>4, <2>2, <2>3, Zenon DEF Groups
<1>7. InStep(wire \o rest)'
  <2>1. /\ phase \in {"dialing", "handshake"} =>
            src' \o (wire' \o rest) = to_bytes(script.handshake) \o sent(script.items, Len(script.items))
        /\ phase = "open" =>
            sent(script.items, Len(delivered)) \o (src' \o (wire' \o rest)) = sent(script.items, Len(script.items))
    BY <1>5, <1>6, Zenon DEF InStep
  <2>. QED  BY <1>1, <2>1 DEF InStep
<1>8. src' \in Seq(WireByte) /\ wire' \in Seq(WireByte)  BY <1>1, <1>2, <1>3, ConcatProperties
<1>9. Delivering'  BY <1>1, DeliveringKept DEF WireInv
<1>10. EndsForCause'  BY <1>1 DEF EndsForCause
<1>11. (\E y \in Seq(WireByte) : (cut \/ y = <<>>) /\ InStep(wire \o y))'
  <2>1. (cut' \/ rest = <<>>) /\ InStep(wire \o rest)'  BY <1>1, <1>5, <1>7
  <2>. QED  BY <2>1
<1>. QED  BY <1>1, <1>8, <1>9, <1>10, <1>11 DEF WireInv

\* The rest of what the peer meant to send will never come.
LEMMA CutInv == ASSUME WireInv, Cut PROVE WireInv'
<1>1. /\ script' = script /\ cut' = TRUE /\ phase' = phase /\ delivered' = delivered
      /\ src' = src /\ wire' = <<>> /\ phase \in {"handshake", "open"}
  BY DEF Cut, Reading
<1>2. PICK rest \in Seq(WireByte) : (cut \/ rest = <<>>) /\ InStep(wire \o rest)  BY DEF WireInv
<1>3. PICK y \in Seq(WireByte) : y = wire \o rest
  <2>1. wire \o rest \in Seq(WireByte)  BY ConcatProperties DEF WireInv
  <2>. QED  BY <2>1
<1>4. wire' \o y = wire \o rest
  <2>1. <<>> \o y = y  BY ConcatEmptySeq
  <2>. QED  BY <1>1, <1>3, <2>1
<1>5. InStep(wire \o y)'
  <2>1. /\ phase \in {"dialing", "handshake"} =>
            src \o (wire' \o y) = to_bytes(script.handshake) \o sent(script.items, Len(script.items))
        /\ phase = "open" =>
            sent(script.items, Len(delivered)) \o (src \o (wire' \o y)) = sent(script.items, Len(script.items))
    BY <1>2, <1>4, Zenon DEF InStep
  <2>. QED  BY <1>1, <2>1 DEF InStep
<1>6. src' \in Seq(WireByte) /\ wire' \in Seq(WireByte)  BY <1>1, EmptySeq DEF WireInv
<1>7. Delivering'  BY <1>1, DeliveringKept DEF WireInv
<1>8. EndsForCause'  BY <1>1 DEF EndsForCause
<1>9. (\E z \in Seq(WireByte) : (cut \/ z = <<>>) /\ InStep(wire \o z))'  BY <1>1, <1>5
<1>. QED  BY <1>1, <1>6, <1>7, <1>8, <1>9 DEF WireInv

\* The part of a buffer after its first n bytes.
LEMMA BackBytes ==
    ASSUME NEW s \in Seq(WireByte), NEW n \in Nat
    PROVE  SubSeq(s, n + 1, Len(s)) \in Seq(WireByte)
<1>1. Len(s) \in Nat /\ \A ix \in 1 .. Len(s) : s[ix] \in WireByte  BY LenProperties
<1>2. \A ix \in n + 1 .. Len(s) : s[ix] \in WireByte  BY <1>1
<1>. QED  BY <1>1, <1>2, SubSeqProperties

\* A dial, or a handshake that does not come, changes only the phase.
LEMMA DialInv == ASSUME WireInv, connect \/ HandshakeEnds PROVE WireInv'
<1>1. /\ script' = script /\ cut' = cut /\ delivered' = delivered /\ src' = src /\ wire' = wire
      /\ phase \in {"dialing", "handshake"} /\ phase' \in {"handshake", "refused"}
  BY DEF connect, HandshakeEnds
<1>2. PICK rest \in Seq(WireByte) : (cut \/ rest = <<>>) /\ InStep(wire \o rest)  BY DEF WireInv
<1>3. InStep(wire \o rest)'
  <2>1. src \o (wire \o rest) = to_bytes(script.handshake) \o sent(script.items, Len(script.items))
    BY <1>1, <1>2 DEF InStep
  <2>. QED  BY <1>1, <2>1 DEF InStep
<1>4. Delivering'  BY <1>1, DeliveringKept DEF WireInv
<1>5. EndsForCause'  BY <1>1 DEF EndsForCause
<1>6. (\E z \in Seq(WireByte) : (cut \/ z = <<>>) /\ InStep(wire \o z))'  BY <1>1, <1>2, <1>3
<1>. QED  BY <1>1, <1>4, <1>5, <1>6 DEF WireInv

\* The handshake is taken off the front of the stream, and the torrent it names
\* is the one the peer sent.
LEMMA HandshakeInv == ASSUME WireInv, handshake PROVE WireInv'
<1>. DEFINE items == script.items
            n == Len(items)
            h == to_bytes(script.handshake)
            r == SubSeq(src, HANDSHAKE_LEN + 1, Len(src))
<1>1. /\ script' = script /\ cut' = cut /\ delivered' = delivered /\ wire' = wire /\ src' = r
      /\ phase = "handshake" /\ Len(src) >= HANDSHAKE_LEN /\ phase' \in {"open", "refused"}
      /\ phase' = "open" => src[4] = OurTorrent
  BY DEF handshake, after_handshake, same_torrent
<1>2. PICK rest \in Seq(WireByte) : (cut \/ rest = <<>>) /\ InStep(wire \o rest)  BY DEF WireInv
<1>3. src \o (wire \o rest) = h \o sent(items, n)  BY <1>1, <1>2 DEF InStep
<1>4. /\ src \in Seq(WireByte) /\ wire \in Seq(WireByte) /\ items \in Seq(Items) /\ script.handshake \in Handshake
      /\ delivered = <<>> /\ Delivering
  BY <1>1 DEF WireInv
<1>5. h \in Seq(WireByte) /\ Len(h) = HANDSHAKE_LEN /\ h[4] = script.handshake.info_hash
  BY <1>4, HandshakeBytes
<1>6. sent(items, n) \in Seq(WireByte) /\ sent(items, 0) = <<>>
  <2>1. n \in 0 .. n  BY <1>4, LenProperties
  <2>. HIDE DEF items
  <2>. QED  BY <1>4, <2>1, SentSteps DEF n
<1>7. wire \o rest \in Seq(WireByte)  BY <1>4, ConcatProperties
<1>8. SubSeq(src, 1, HANDSHAKE_LEN) = h /\ r \o (wire \o rest) = sent(items, n)
  <2>. DEFINE x == wire \o rest
              y == sent(items, n)
  <2>1. Len(h) <= Len(src)  BY <1>1, <1>4, <1>5, LenProperties DEF HANDSHAKE_LEN
  <2>2. x \in Seq(WireByte) /\ y \in Seq(WireByte) /\ src \o x = h \o y  BY <1>3, <1>6, <1>7
  <2>. HIDE DEF x, y, h
  <2>3. SubSeq(src, 1, Len(h)) = h /\ SubSeq(src, Len(h) + 1, Len(src)) \o x = y
    BY <1>4, <1>5, <2>1, <2>2, SameFront
  <2>. QED  BY <1>5, <2>3 DEF x, y
<1>9. src[4] = h[4]
  <2>1. Len(src) \in Nat /\ \A ix \in 1 .. Len(src) : src[ix] \in WireByte  BY <1>4, LenProperties
  <2>2. 5 <= Len(src) /\ \A ix \in 1 .. 5 : src[ix] \in WireByte  BY <1>1, <2>1 DEF HANDSHAKE_LEN
  <2>3. \A ix \in 1 .. 5 - 1 + 1 : SubSeq(src, 1, 5)[ix] = src[1 + ix - 1]
    BY <1>4, <2>1, <2>2, SubSeqProperties
  <2>4. SubSeq(src, 1, 5)[4] = src[4]
    <3>1. 4 \in 1 .. 5 - 1 + 1 /\ 1 + 4 - 1 = 4  OBVIOUS
    <3>. QED  BY <2>3, <3>1
  <2>. QED  BY <1>8, <2>4 DEF HANDSHAKE_LEN
<1>10. r \in Seq(WireByte)  BY <1>4, BackBytes DEF HANDSHAKE_LEN
<1>11. InStep(wire \o rest)'
  <2>1. sent(items, Len(delivered)) \o (r \o (wire \o rest)) = sent(items, n)
    <3>1. <<>> \o sent(items, n) = sent(items, n)  BY <1>6, ConcatEmptySeq
    <3>2. Len(delivered) = 0  BY <1>4
    <3>. HIDE DEF r, items, n
    <3>. QED  BY <1>6, <1>8, <3>1, <3>2
  <2>. HIDE DEF r
  <2>. QED  BY <1>1, <2>1 DEF InStep
<1>12. Delivering'  BY <1>1, <1>4, DeliveringKept
<1>13. EndsForCause'  BY <1>1 DEF EndsForCause
<1>14. (\E z \in Seq(WireByte) : (cut \/ z = <<>>) /\ InStep(wire \o z))'  BY <1>1, <1>2, <1>11
<1>15. (phase = "open" \/ delivered # <<>> => script.handshake.info_hash = OurTorrent)'
  BY <1>1, <1>4, <1>5, <1>9
<1>. HIDE DEF r
<1>. QED  BY <1>1, <1>4, <1>10, <1>12, <1>13, <1>14, <1>15 DEF WireInv

\* An open connection: what decode is given next.
LEMMA OpenStep ==
    ASSUME WireInv, phase = "open"
    PROVE  LET items == script.items
               d == Len(delivered)
           IN  /\ script.handshake \in Handshake /\ items \in Seq(Items) /\ d \in 0 .. Len(items)
               /\ src \in Seq(WireByte) /\ wire \in Seq(WireByte) /\ Delivering
               /\ script.handshake.info_hash = OurTorrent
               /\ \E rest \in Seq(WireByte) :
                     /\ cut \/ rest = <<>>
                     /\ wire \o rest \in Seq(WireByte)
                     /\ sent(items, d) \o (src \o (wire \o rest)) = sent(items, Len(items))
<1>1. /\ script.handshake \in Handshake /\ script.items \in Seq(Items) /\ src \in Seq(WireByte)
      /\ wire \in Seq(WireByte) /\ Delivering /\ script.handshake.info_hash = OurTorrent
  BY DEF WireInv
<1>2. PICK rest \in Seq(WireByte) : (cut \/ rest = <<>>) /\ InStep(wire \o rest)  BY DEF WireInv
<1>3. sent(script.items, Len(delivered)) \o (src \o (wire \o rest)) = sent(script.items, Len(script.items))
  BY <1>2 DEF InStep
<1>4. wire \o rest \in Seq(WireByte)  BY <1>1, ConcatProperties
<1>5. Len(delivered) \in 0 .. Len(script.items)  BY <1>1, LenProperties DEF Delivering
<1>. QED  BY <1>1, <1>2, <1>3, <1>4, <1>5

\* recv returns the next message of the peer.
LEMMA ReceiveInv == ASSUME WireInv, Receive PROVE WireInv'
<1>. DEFINE items == script.items
            d == Len(delivered)
            r == left(src)
            e == decode(src).message
<1>1. /\ script' = script /\ cut' = cut /\ delivered' = Append(delivered, e) /\ wire' = wire /\ src' = r
      /\ phase = "open" /\ phase' = "open" /\ decode(src).kind = "some"
  BY DEF Receive, left
<1>2. /\ script.handshake \in Handshake /\ items \in Seq(Items) /\ d \in 0 .. Len(items)
      /\ src \in Seq(WireByte) /\ wire \in Seq(WireByte) /\ Delivering
      /\ script.handshake.info_hash = OurTorrent
  BY <1>1, OpenStep
<1>3. PICK rest \in Seq(WireByte) :
          /\ cut \/ rest = <<>>
          /\ wire \o rest \in Seq(WireByte)
          /\ sent(items, d) \o (src \o (wire \o rest)) = sent(items, Len(items))
  BY <1>1, OpenStep
<1>4. /\ d < Len(items) /\ items[d + 1].type # "malformed" /\ e = items[d + 1] /\ r \in Seq(WireByte)
      /\ sent(items, d + 1) \o (r \o (wire \o rest)) = sent(items, Len(items))
  <2>. DEFINE x == wire \o rest
  <2>1. x \in Seq(WireByte) /\ sent(items, d) \o (src \o x) = sent(items, Len(items))  BY <1>3
  <2>. HIDE DEF x, items, d
  <2>2. decode(src).kind = "some"  BY <1>1
  <2>3. /\ d < Len(items) /\ items[d + 1].type # "malformed" /\ decode(src).message = items[d + 1]
        /\ left(src) \in Seq(WireByte) /\ Completes(items, d + 1, left(src) \o x)
    BY <1>2, <2>1, <2>2, DecodeNext
  <2>. QED  BY <2>3 DEF x, Completes
<1>. HIDE DEF r, e
<1>5. /\ delivered \in Seq(Items) /\ Len(items) \in Nat /\ d \in Nat /\ d + 1 \in 1 .. Len(items)
      /\ e \in Items /\ \A ix \in 1 .. d : delivered[ix] = items[ix] /\ items[ix].type # "malformed"
  <2>1. Len(items) \in Nat /\ d \in Nat /\ d + 1 \in 1 .. Len(items)  BY <1>2, <1>4, LenProperties
  <2>2. e \in Items  BY <1>2, <1>4, <2>1, LenProperties
  <2>. QED  BY <1>2, <2>1, <2>2 DEF Delivering
<1>6. /\ delivered' \in Seq(Items) /\ Len(delivered') = d + 1
      /\ \A ix \in 1 .. d + 1 : delivered'[ix] = (IF ix <= d THEN delivered[ix] ELSE e)
  <2>1. Append(delivered, e) \in Seq(Items) /\ Len(Append(delivered, e)) = d + 1
        /\ \A ix \in 1 .. d + 1 : Append(delivered, e)[ix] = (IF ix <= d THEN delivered[ix] ELSE e)
    BY <1>5, AppendProperties
  <2>. QED  BY <1>1, <2>1
<1>7. Delivering'
  <2>1. ASSUME NEW ix \in 1 .. d + 1
        PROVE  delivered'[ix] = items[ix] /\ items[ix].type # "malformed"
    <3>1. CASE ix <= d  BY <1>5, <1>6, <3>1
    <3>2. CASE ~ (ix <= d)
      <4>1. ix = d + 1  BY <1>5, <3>2
      <4>. HIDE DEF d
      <4>. QED  BY <1>4, <1>6, <3>2, <4>1
    <3>. QED  BY <3>1, <3>2
  <2>2. d + 1 <= Len(items)  BY <1>5
  <2>. HIDE DEF d
  <2>. QED  BY <1>1, <1>6, <2>1, <2>2 DEF Delivering
<1>8. InStep(wire \o rest)'
  <2>1. sent(items, Len(delivered')) \o (r \o (wire \o rest)) = sent(items, Len(items))
    BY <1>4, <1>6, Zenon
  <2>. QED  BY <1>1, <2>1 DEF InStep
<1>9. (\E z \in Seq(WireByte) : (cut \/ z = <<>>) /\ InStep(wire \o z))'  BY <1>1, <1>3, <1>8
<1>10. EndsForCause'  BY <1>1 DEF EndsForCause
<1>11. src' \in Seq(WireByte) /\ wire' \in Seq(WireByte)  BY <1>1, <1>2, <1>4
<1>. QED  BY <1>1, <1>2, <1>7, <1>9, <1>10, <1>11 DEF WireInv

\* The end of an open connection keeps everything but the phase.
LEMMA OpenEnds ==
    ASSUME WireInv, phase = "open", phase' \in {"closed", "failed"},
           UNCHANGED <<script, cut, wire, src, delivered>>, EndsForCause'
    PROVE  WireInv'
<1>1. PICK rest \in Seq(WireByte) : cut \/ rest = <<>>  BY DEF WireInv
<1>2. InStep(wire \o rest)'  BY DEF InStep
<1>3. Delivering'  BY DeliveringKept DEF WireInv
<1>4. (\E z \in Seq(WireByte) : (cut \/ z = <<>>) /\ InStep(wire \o z))'  BY <1>1, <1>2
<1>. QED  BY <1>3, <1>4 DEF WireInv

\* recv fails: the item that comes next is malformed.
LEMMA ReceiveFailsInv == ASSUME WireInv, ReceiveFails PROVE WireInv'
<1>. DEFINE items == script.items
            d == Len(delivered)
<1>1. /\ script' = script /\ cut' = cut /\ delivered' = delivered /\ wire' = wire /\ src' = src
      /\ phase = "open" /\ phase' = "failed" /\ decode(src).kind = "err"
  BY DEF ReceiveFails
<1>2. items \in Seq(Items) /\ d \in 0 .. Len(items) /\ src \in Seq(WireByte) /\ Delivering
  BY <1>1, OpenStep
<1>3. PICK x \in Seq(WireByte) : sent(items, d) \o (src \o x) = sent(items, Len(items))
  BY <1>1, OpenStep
<1>4. d < Len(items) /\ items[d + 1].type = "malformed"
  <2>. HIDE DEF items, d
  <2>. QED  BY <1>1, <1>2, <1>3, DecodeNext
<1>5. delivered = GoodPrefix /\ GoodPrefix # items  BY <1>2, <1>4, DeliveredGood
<1>6. GoodPrefix' = GoodPrefix  BY <1>1 DEF GoodPrefix
<1>7. EndsForCause'  BY <1>1, <1>5, <1>6 DEF EndsForCause
<1>. QED  BY <1>1, <1>7, OpenEnds

\* The stream has ended and the buffer holds no whole frame: unless the peer went
\* away early, everything was returned.
LEMMA ReceiveEndInv == ASSUME WireInv, ReceiveEnd PROVE WireInv'
<1>. DEFINE items == script.items
            d == Len(delivered)
<1>1. /\ script' = script /\ cut' = cut /\ delivered' = delivered /\ wire' = wire /\ src' = src
      /\ phase = "open" /\ phase' = (IF src = <<>> THEN "closed" ELSE "failed")
      /\ decode(src).kind = "none" /\ wire = <<>>
  BY DEF ReceiveEnd
<1>2. items \in Seq(Items) /\ d \in 0 .. Len(items) /\ src \in Seq(WireByte) /\ Delivering
  BY <1>1, OpenStep
<1>3. ASSUME ~ cut PROVE src = <<>> /\ delivered = items
  <2>1. PICK rest \in Seq(WireByte) :
            /\ cut \/ rest = <<>>
            /\ wire \o rest \in Seq(WireByte)
            /\ sent(items, d) \o (src \o (wire \o rest)) = sent(items, Len(items))
    BY <1>1, OpenStep
  <2>2. rest = <<>> /\ wire \o rest = <<>>
    <3>1. rest = <<>>  BY <1>3, <2>1
    <3>. QED  BY <1>1, <3>1
  <2>3. sent(items, d) \o (src \o <<>>) = sent(items, Len(items)) /\ <<>> \in Seq(WireByte)
    BY <2>1, <2>2, Zenon
  <2>4. src = <<>> /\ d = Len(items)
    <3>. HIDE DEF items, d
    <3>. QED  BY <1>1, <1>2, <2>3, DecodeNext
  <2>. QED  BY <1>2, <2>4, DeliveredGood
<1>4. EndsForCause'  BY <1>1, <1>3 DEF EndsForCause
<1>5. phase' \in {"closed", "failed"}  BY <1>1
<1>. QED  BY <1>1, <1>4, <1>5, OpenEnds

\* Nothing happens.
LEMMA WireStill == ASSUME WireInv, UNCHANGED wireVars PROVE WireInv'
<1>1. /\ script' = script /\ cut' = cut /\ delivered' = delivered /\ wire' = wire /\ src' = src
      /\ phase' = phase
  BY DEF wireVars
<1>2. PICK rest \in Seq(WireByte) : (cut \/ rest = <<>>) /\ InStep(wire \o rest)  BY DEF WireInv
<1>3. InStep(wire \o rest)'  BY <1>1, <1>2 DEF InStep
<1>4. Delivering'  BY <1>1, DeliveringKept DEF WireInv
<1>5. GoodPrefix' = GoodPrefix  BY <1>1 DEF GoodPrefix
<1>6. EndsForCause'  BY <1>1, <1>5 DEF EndsForCause, WireInv
<1>7. (\E z \in Seq(WireByte) : (cut \/ z = <<>>) /\ InStep(wire \o z))'  BY <1>1, <1>2, <1>3
<1>. QED  BY <1>1, <1>4, <1>6, <1>7 DEF WireInv

\* Every step keeps the stream in order.
LEMMA WireInvHolds == WireSpec => []WireInv
<1>1. WireInv /\ [WireNext]_wireVars => WireInv'
  <2>. SUFFICES ASSUME WireInv, [WireNext]_wireVars PROVE WireInv'
    OBVIOUS
  <2>1. ASSUME NEW n \in 1 .. Len(wire), Arrive(n) PROVE WireInv'  BY <2>1, ArriveInv
  <2>2. CASE connect \/ HandshakeEnds  BY <2>2, DialInv
  <2>3. CASE Cut  BY <2>3, CutInv
  <2>4. CASE handshake  BY <2>4, HandshakeInv
  <2>5. CASE Receive  BY <2>5, ReceiveInv
  <2>6. CASE ReceiveFails  BY <2>6, ReceiveFailsInv
  <2>7. CASE ReceiveEnd  BY <2>7, ReceiveEndInv
  <2>8. CASE UNCHANGED wireVars  BY <2>8, WireStill
  <2>. QED  BY <2>1, <2>2, <2>3, <2>4, <2>5, <2>6, <2>7, <2>8 DEF WireNext
<1>. QED  BY <1>1, WireInitInv, PTL DEF WireSpec

\* However TCP cuts the bytes of a peer, recv returns the messages it sent: in
\* order, none lost, none made up, none from a peer of another torrent and none
\* after a malformed frame (PeerCodec::decode, PeerConnection::recv).
THEOREM WireStreamFaithful == WireSpec => []StreamFaithful
<1>1. WireInv => StreamFaithful
  <2>. SUFFICES ASSUME WireInv PROVE StreamFaithful
    OBVIOUS
  <2>1. IsPrefix(delivered, GoodPrefix)  BY DeliveredGood DEF WireInv
  <2>. QED  BY <2>1 DEF StreamFaithful, WireInv
<1>. QED  BY <1>1, WireInvHolds, PTL

\* A connection ends in good order only after every message of the peer, and with
\* an error only at a malformed frame, unless the peer went away early (the end
\* of the stream in Framed, the errors of decode).
THEOREM WireEndsForCause == WireSpec => []EndsForCause
<1>1. WireInv => EndsForCause  BY DEF WireInv
<1>. QED  BY <1>1, WireInvHolds, PTL
=============================================================================
