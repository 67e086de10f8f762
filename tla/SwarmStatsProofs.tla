-------------------------- MODULE SwarmStatsProofs --------------------------
(***************************************************************************)
(* The counters of the engine, for any number of peers, pieces and blocks, *)
(* any content and any lengths of what peers deliver: what the table of    *)
(* peers says, that a later snapshot is never behind an earlier one, and   *)
(* that the bytes counted cover the content of the pieces verified.        *)
(***************************************************************************)
EXTENDS SwarmStats, FoldTheorems

Places == {"dialing", "running", "releasing", "updating", "noting", "counted", "handling",
           "leaving", "closing", "ended", "panicked"}
Assemblers ==
    {Idle} \cup [piece : {{i} : i \in Pieces}, blocks : SUBSET Blocks, right : SUBSET (Pieces \X Int)]
Sessions ==
    [pc : Places, choked : BOOLEAN, has : SUBSET Pieces, news : SUBSET Pieces, bytes : Nat,
     length : Nat, asm : Assemblers]

\* A block is at hand from the moment it is counted until it is handled, and a
\* session that has not begun knows nothing.
Coherent(s) ==
    /\ s.pc \notin {"counted", "handling"} => s.length = 0
    /\ s.pc = "dialing" => s.has = {} /\ s.bytes = 0

StatsTypeInv ==
    /\ total_downloaded \in Nat /\ have \in SUBSET Pieces
    /\ session \in [Peers -> Sessions]
    /\ \A p \in Peers : Coherent(session[p])

\* A session record, field by field.
Record(q, c, h, w, n, l, a) ==
    [pc |-> q, choked |-> c, has |-> h, news |-> w, bytes |-> n, length |-> l, asm |-> a]
Becomes(p, s) == session' = [session EXCEPT ![p] = s]
-----------------------------------------------------------------------------
\* Block lengths are numbers.
LEMMA LengthsTyped == \A n \in BlockLengths : n \in Nat
BY StatsAssumption

\* A block of n bytes, those of W right, for an assembler that has piece i.
BlockFor(a, b, n, W, i) ==
    /\ a \in Assemblers /\ a # Idle /\ i \in a.piece
    /\ b \in Blocks /\ n \in Nat /\ W \subseteq Span(i, b, n)

\* The assembler after a block is an assembler of the same piece.
LEMMA WithBlockTyped ==
    ASSUME NEW a, NEW b, NEW n, NEW W, NEW i, BlockFor(a, b, n, W, i)
    PROVE  /\ i \in Pieces /\ a.piece = {i} /\ WithBlock(a, b, n, W) \in Assemblers
           /\ WithBlock(a, b, n, W).piece = {i}
           /\ WithBlock(a, b, n, W).right = (a.right \ Span(i, b, n)) \cup W
<1>0. a \in Assemblers /\ a # Idle /\ i \in a.piece /\ b \in Blocks /\ n \in Nat /\ W \subseteq Span(i, b, n)
  BY DEF BlockFor
<1>1. i \in Pieces /\ a.piece = {i} /\ a.blocks \in SUBSET Blocks
      /\ a.right \in SUBSET (Pieces \X Int)
      /\ a = [piece |-> a.piece, blocks |-> a.blocks, right |-> a.right]
  BY <1>0 DEF Assemblers
<1>2. UNION {Span(j, b, n) : j \in a.piece} = Span(i, b, n)
  <2>1. {Span(j, b, n) : j \in a.piece} = {Span(i, b, n)}  BY <1>1
  <2>. QED  BY <2>1
<1>3. Span(i, b, n) \subseteq Pieces \X Int
  <2>1. b * BLOCK_SIZE \in Int /\ b * BLOCK_SIZE + n - 1 \in Int
    BY <1>0, StatsAssumption DEF Blocks
  <2>. QED  BY <1>1, <2>1 DEF Span
<1>. DEFINE r == (a.right \ Span(i, b, n)) \cup W
<1>4. WithBlock(a, b, n, W) = [piece |-> {i}, blocks |-> a.blocks \cup {b}, right |-> r]
  <2>. HIDE DEF r
  <2>1. WithBlock(a, b, n, W) = [a EXCEPT !.blocks = @ \cup {b}, !.right = r]
    BY <1>2 DEF WithBlock, r
  <2>. QED  BY <1>1, <2>1
<1>5. r \in SUBSET (Pieces \X Int)  BY <1>0, <1>1, <1>3
<1>. HIDE DEF r
<1>. QED  BY <1>0, <1>1, <1>4, <1>5 DEF Assemblers, r

\* What each step of a session makes of its local state.
LEMMA SessionMoves ==
    ASSUME StatsTypeInv, NEW p \in Peers, NEW o, o = session[p]
    PROVE  /\ Connect(p) =>
                Becomes(p, Record("running", o.choked, o.has, o.news, o.bytes, o.length, o.asm))
           /\ DialFails(p) \/ Disconnect(p) =>
                Becomes(p, Record("ended", o.choked, o.has, o.news, o.bytes, o.length, o.asm))
           /\ Leave(p) => Becomes(p, Record("leaving", o.choked, o.has, o.news, o.bytes, 0, Idle))
           /\ CleanUp(p) =>
                Becomes(p, Record("closing", o.choked, o.has, o.news, o.bytes, o.length, o.asm))
           /\ Choke(p) => \E q \in {"running", "releasing"} :
                Becomes(p, Record(q, TRUE, o.has, o.news, o.bytes, o.length, Idle))
           /\ GiveUp(p) => Becomes(p, Record("releasing", o.choked, o.has, o.news, o.bytes, o.length, Idle))
           /\ Release(p) =>
                Becomes(p, Record("running", o.choked, o.has, o.news, o.bytes, o.length, o.asm))
           /\ Unchoke(p) => Becomes(p, Record(o.pc, FALSE, o.has, o.news, o.bytes, o.length, o.asm))
           /\ \A i \in Pieces : Have(p, i) => \E q \in {"noting", "updating"} :
                Becomes(p, Record(q, o.choked, o.has \cup {i}, o.has \cup {i}, o.bytes, o.length, o.asm))
           /\ \A S \in SUBSET Pieces : NewBitfield(p, S) =>
                Becomes(p, Record("updating", o.choked, o.has, S, o.bytes, o.length, o.asm))
           /\ UpdateAvailability(p) =>
                Becomes(p, Record("noting", o.choked, o.news, o.news, o.bytes, o.length, o.asm))
           /\ NoteHave(p) => Becomes(p, Record("running", o.choked, o.has, {}, o.bytes, o.length, o.asm))
           /\ \A i \in Pieces : Claim(p, i) =>
                Becomes(p, Record(o.pc, o.choked, o.has, o.news, o.bytes, o.length, Assembler(i)))
           /\ \A n \in BlockLengths : CountTotal(p, n) =>
                Becomes(p, Record("counted", o.choked, o.has, o.news, o.bytes + n, n, o.asm))
           /\ CountPeer(p) =>
                Becomes(p, Record("handling", o.choked, o.has, o.news, o.bytes, o.length, o.asm))
           /\ DropBlock(p) => Becomes(p, Record("running", o.choked, o.has, o.news, o.bytes, 0, o.asm))
           /\ \A b, W : AddBlock(p, b, W) =>
                Becomes(p, Record("running", o.choked, o.has, o.news, o.bytes, 0,
                                  WithBlock(o.asm, b, o.length, W)))
           /\ \A b, W : FinishPiece(p, b, W) =>
                Becomes(p, Record("running", o.choked, o.has, o.news, o.bytes, 0, Idle))
           /\ Panic(p) => Becomes(p, Record("panicked", o.choked, o.has, o.news, o.bytes, o.length, Idle))
<1>0. o \in Sessions  BY DEF StatsTypeInv
<1>1. o = Record(o.pc, o.choked, o.has, o.news, o.bytes, o.length, o.asm)
  BY <1>0 DEF Sessions, Record
<1>. USE DEF Set, Becomes
<1>2. Connect(p) =>
        Becomes(p, Record("running", o.choked, o.has, o.news, o.bytes, o.length, o.asm))
  BY <1>1 DEF Connect, Record
<1>3. DialFails(p) \/ Disconnect(p) =>
        Becomes(p, Record("ended", o.choked, o.has, o.news, o.bytes, o.length, o.asm))
  BY <1>1 DEF DialFails, Disconnect, Record
<1>4. Leave(p) => Becomes(p, Record("leaving", o.choked, o.has, o.news, o.bytes, 0, Idle))
  <2>. HIDE DEF Idle
  <2>. QED  BY <1>1 DEF Leave, Record
<1>5. CleanUp(p) =>
        Becomes(p, Record("closing", o.choked, o.has, o.news, o.bytes, o.length, o.asm))
  BY <1>1 DEF CleanUp, Record
<1>6. Choke(p) => \E q \in {"running", "releasing"} :
        Becomes(p, Record(q, TRUE, o.has, o.news, o.bytes, o.length, Idle))
  <2>. DEFINE q == IF o.asm = Idle THEN "running" ELSE "releasing"
              c == TRUE
  <2>1. Choke(p) => session' = [session EXCEPT ![p] = [o EXCEPT !.choked = c, !.asm = Idle, !.pc = q]]
    BY Zenon DEF Choke
  <2>2. q \in {"running", "releasing"}  OBVIOUS
  <2>. HIDE DEF q, c, Idle
  <2>3. [o EXCEPT !.choked = c, !.asm = Idle, !.pc = q] =
            Record(q, c, o.has, o.news, o.bytes, o.length, Idle)
    <3>. DEFINE x1 == [o EXCEPT !.choked = c]
    <3>1. x1 = Record(o.pc, c, o.has, o.news, o.bytes, o.length, o.asm)  BY <1>0 DEF Sessions, Record
    <3>. HIDE DEF x1
    <3>. DEFINE x2 == [x1 EXCEPT !.asm = Idle]
    <3>2. x2 = Record(o.pc, c, o.has, o.news, o.bytes, o.length, Idle)  BY <3>1 DEF Record
    <3>. HIDE DEF x2
    <3>3. [x2 EXCEPT !.pc = q] = Record(q, c, o.has, o.news, o.bytes, o.length, Idle)  BY <3>2 DEF Record
    <3>. QED  BY <3>3 DEF x1, x2
  <2>. QED  BY <2>1, <2>2, <2>3, Zenon DEF c
<1>7. GiveUp(p) => Becomes(p, Record("releasing", o.choked, o.has, o.news, o.bytes, o.length, Idle))
  BY <1>1 DEF GiveUp, Record
<1>8. Release(p) =>
        Becomes(p, Record("running", o.choked, o.has, o.news, o.bytes, o.length, o.asm))
  BY <1>1 DEF Release, Record
<1>9. Unchoke(p) => Becomes(p, Record(o.pc, FALSE, o.has, o.news, o.bytes, o.length, o.asm))
  BY <1>1 DEF Unchoke, Record
<1>10. ASSUME NEW i \in Pieces, Have(p, i)
       PROVE  \E q \in {"noting", "updating"} :
        Becomes(p, Record(q, o.choked, o.has \cup {i}, o.has \cup {i}, o.bytes, o.length, o.asm))
  <2>. DEFINE q == IF i \in o.has THEN "noting" ELSE "updating"
              h == o.has \cup {i}
  <2>1. session' = [session EXCEPT ![p] = [o EXCEPT !.has = h, !.news = h, !.pc = q]]
    BY <1>10 DEF Have
  <2>2. q \in {"noting", "updating"}  OBVIOUS
  <2>. HIDE DEF q, h
  <2>3. [o EXCEPT !.has = h, !.news = h, !.pc = q] =
            Record(q, o.choked, h, h, o.bytes, o.length, o.asm)
    <3>. DEFINE x1 == [o EXCEPT !.has = h]
    <3>1. x1 = Record(o.pc, o.choked, h, o.news, o.bytes, o.length, o.asm)  BY <1>0 DEF Sessions, Record
    <3>. HIDE DEF x1
    <3>. DEFINE x2 == [x1 EXCEPT !.news = h]
    <3>2. x2 = Record(o.pc, o.choked, h, h, o.bytes, o.length, o.asm)  BY <3>1 DEF Record
    <3>. HIDE DEF x2
    <3>3. [x2 EXCEPT !.pc = q] = Record(q, o.choked, h, h, o.bytes, o.length, o.asm)  BY <3>2 DEF Record
    <3>. QED  BY <3>3 DEF x1, x2
  <2>4. Becomes(p, Record(q, o.choked, h, h, o.bytes, o.length, o.asm))  BY <2>1, <2>3, Zenon
  <2>. QED  BY <2>2, <2>4 DEF h
<1>11. ASSUME NEW S \in SUBSET Pieces, NewBitfield(p, S)
       PROVE  Becomes(p, Record("updating", o.choked, o.has, S, o.bytes, o.length, o.asm))
  <2>1. [o EXCEPT !.news = S, !.pc = "updating"] =
            Record("updating", o.choked, o.has, S, o.bytes, o.length, o.asm)
    <3>. DEFINE x1 == [o EXCEPT !.news = S]
    <3>1. x1 = Record(o.pc, o.choked, o.has, S, o.bytes, o.length, o.asm)  BY <1>0 DEF Sessions, Record
    <3>. HIDE DEF x1
    <3>2. [x1 EXCEPT !.pc = "updating"] = Record("updating", o.choked, o.has, S, o.bytes, o.length, o.asm)  BY <3>1 DEF Record
    <3>. QED  BY <3>2 DEF x1
  <2>. QED  BY <1>11, <2>1, Zenon DEF NewBitfield
<1>12. UpdateAvailability(p) =>
        Becomes(p, Record("noting", o.choked, o.news, o.news, o.bytes, o.length, o.asm))
  BY <1>1 DEF UpdateAvailability, Record
<1>13. NoteHave(p) => Becomes(p, Record("running", o.choked, o.has, {}, o.bytes, o.length, o.asm))
  BY <1>1 DEF NoteHave, Record
<1>14. ASSUME NEW i \in Pieces, Claim(p, i)
       PROVE  Becomes(p, Record(o.pc, o.choked, o.has, o.news, o.bytes, o.length, Assembler(i)))
  <2>. DEFINE a == Assembler(i)
  <2>1. session' = [session EXCEPT ![p] = [o EXCEPT !.asm = a]]  BY <1>14, Zenon DEF Claim
  <2>. HIDE DEF a
  <2>2. [o EXCEPT !.asm = a] = Record(o.pc, o.choked, o.has, o.news, o.bytes, o.length, a)
    BY <1>0 DEF Sessions, Record
  <2>3. Becomes(p, Record(o.pc, o.choked, o.has, o.news, o.bytes, o.length, a))  BY <2>1, <2>2, Zenon
  <2>. QED  BY <2>3 DEF a
<1>15. ASSUME NEW n \in BlockLengths, CountTotal(p, n)
       PROVE  Becomes(p, Record("counted", o.choked, o.has, o.news, o.bytes + n, n, o.asm))
  <2>. DEFINE k == o.bytes + n
  <2>1. session' = [session EXCEPT ![p] = [o EXCEPT !.pc = "counted", !.bytes = k, !.length = n]]
    BY <1>15, Zenon DEF CountTotal
  <2>. HIDE DEF k
  <2>2. [o EXCEPT !.pc = "counted", !.bytes = k, !.length = n] =
            Record("counted", o.choked, o.has, o.news, k, n, o.asm)
    <3>. DEFINE x1 == [o EXCEPT !.pc = "counted"]
    <3>1. x1 = Record("counted", o.choked, o.has, o.news, o.bytes, o.length, o.asm)  BY <1>0 DEF Sessions, Record
    <3>. HIDE DEF x1
    <3>. DEFINE x2 == [x1 EXCEPT !.bytes = k]
    <3>2. x2 = Record("counted", o.choked, o.has, o.news, k, o.length, o.asm)  BY <3>1 DEF Record
    <3>. HIDE DEF x2
    <3>3. [x2 EXCEPT !.length = n] = Record("counted", o.choked, o.has, o.news, k, n, o.asm)  BY <3>2 DEF Record
    <3>. QED  BY <3>3 DEF x1, x2
  <2>3. Becomes(p, Record("counted", o.choked, o.has, o.news, k, n, o.asm))  BY <2>1, <2>2, Zenon
  <2>. QED  BY <2>3 DEF k
<1>16. CountPeer(p) =>
        Becomes(p, Record("handling", o.choked, o.has, o.news, o.bytes, o.length, o.asm))
  BY <1>1 DEF CountPeer, Record
<1>17. DropBlock(p) => Becomes(p, Record("running", o.choked, o.has, o.news, o.bytes, 0, o.asm))
  BY <1>1 DEF DropBlock, Record
<1>18. ASSUME NEW b, NEW W, AddBlock(p, b, W)
       PROVE  Becomes(p, Record("running", o.choked, o.has, o.news, o.bytes, 0,
                                WithBlock(o.asm, b, o.length, W)))
  <2>. DEFINE a == WithBlock(o.asm, b, o.length, W)
  <2>1. session' = [session EXCEPT ![p] = [o EXCEPT !.pc = "running", !.length = 0, !.asm = a]]
    BY <1>18, Zenon DEF AddBlock
  <2>. HIDE DEF a
  <2>2. [o EXCEPT !.pc = "running", !.length = 0, !.asm = a] =
            Record("running", o.choked, o.has, o.news, o.bytes, 0, a)
    <3>. DEFINE x1 == [o EXCEPT !.pc = "running"]
    <3>1. x1 = Record("running", o.choked, o.has, o.news, o.bytes, o.length, o.asm)  BY <1>0 DEF Sessions, Record
    <3>. HIDE DEF x1
    <3>. DEFINE x2 == [x1 EXCEPT !.length = 0]
    <3>2. x2 = Record("running", o.choked, o.has, o.news, o.bytes, 0, o.asm)  BY <3>1 DEF Record
    <3>. HIDE DEF x2
    <3>3. [x2 EXCEPT !.asm = a] = Record("running", o.choked, o.has, o.news, o.bytes, 0, a)  BY <3>2 DEF Record
    <3>. QED  BY <3>3 DEF x1, x2
  <2>3. Becomes(p, Record("running", o.choked, o.has, o.news, o.bytes, 0, a))  BY <2>1, <2>2, Zenon
  <2>. QED  BY <2>3 DEF a
<1>19. ASSUME NEW b, NEW W, FinishPiece(p, b, W)
       PROVE  Becomes(p, Record("running", o.choked, o.has, o.news, o.bytes, 0, Idle))
  <2>1. session' = [session EXCEPT ![p] = [o EXCEPT !.pc = "running", !.length = 0, !.asm = Idle]]
    BY <1>19, Zenon DEF FinishPiece
  <2>. HIDE DEF Idle
  <2>2. [o EXCEPT !.pc = "running", !.length = 0, !.asm = Idle] =
            Record("running", o.choked, o.has, o.news, o.bytes, 0, Idle)
    <3>. DEFINE x1 == [o EXCEPT !.pc = "running"]
    <3>1. x1 = Record("running", o.choked, o.has, o.news, o.bytes, o.length, o.asm)  BY <1>0 DEF Sessions, Record
    <3>. HIDE DEF x1
    <3>. DEFINE x2 == [x1 EXCEPT !.length = 0]
    <3>2. x2 = Record("running", o.choked, o.has, o.news, o.bytes, 0, o.asm)  BY <3>1 DEF Record
    <3>. HIDE DEF x2
    <3>3. [x2 EXCEPT !.asm = Idle] = Record("running", o.choked, o.has, o.news, o.bytes, 0, Idle)  BY <3>2 DEF Record
    <3>. QED  BY <3>3 DEF x1, x2
  <2>. QED  BY <2>1, <2>2, Zenon
<1>20. Panic(p) => Becomes(p, Record("panicked", o.choked, o.has, o.news, o.bytes, o.length, Idle))
  BY <1>1 DEF Panic, Record
<1>. QED
  BY <1>2, <1>3, <1>4, <1>5, <1>6, <1>7, <1>8, <1>9, <1>10, <1>11, <1>12, <1>13, <1>14, <1>15,
     <1>16, <1>17, <1>18, <1>19, <1>20, Zenon

\* Assemblers are typed.
LEMMA AssemblersTyped == Idle \in Assemblers /\ \A i \in Pieces : Assembler(i) \in Assemblers
<1>1. ASSUME NEW i \in Pieces PROVE Assembler(i) \in Assemblers
  <2>1. piece_length \in Int  BY StatsAssumption DEF piece_length
  <2>2. Bytes(i) \ NonZero \in SUBSET (Pieces \X Int)  BY <2>1 DEF Bytes
  <2>. QED  BY <2>2 DEF Assembler, Assemblers
<1>. QED  BY <1>1 DEF Assemblers

\* The steps of a session.
LEMMA StepKinds ==
    ASSUME NEW p, SessionStep(p)
    PROVE  \/ Connect(p) \/ DialFails(p) \/ Leave(p) \/ CleanUp(p) \/ Disconnect(p)
           \/ Choke(p) \/ GiveUp(p) \/ Release(p) \/ Unchoke(p)
           \/ \E i \in Pieces : Have(p, i)
           \/ \E i \in Pieces : Claim(p, i)
           \/ \E S \in SUBSET Pieces : NewBitfield(p, S)
           \/ UpdateAvailability(p) \/ NoteHave(p)
           \/ \E n \in BlockLengths : CountTotal(p, n)
           \/ CountPeer(p) \/ DropBlock(p) \/ Panic(p)
           \/ \E b \in Blocks : \E W : AddBlock(p, b, W)
           \/ \E b \in Blocks : \E W : FinishPiece(p, b, W)
BY Zenon DEF SessionStep

\* A session stays one.
LEMMA SessionTyped ==
    ASSUME StatsTypeInv, NEW p \in Peers, SessionStep(p)
    PROVE  \E s \in Sessions : Coherent(s) /\ Becomes(p, s)
<1>. DEFINE o == session[p]
            Goal == \E s \in Sessions : Coherent(s) /\ Becomes(p, s)
<1>. SUFFICES Goal  OBVIOUS
<1>1. o \in Sessions /\ Coherent(o)  BY DEF StatsTypeInv
<1>2. /\ o.pc \in Places /\ o.choked \in BOOLEAN /\ o.has \in SUBSET Pieces /\ o.news \in SUBSET Pieces
      /\ o.bytes \in Nat /\ o.length \in Nat /\ o.asm \in Assemblers
      /\ o.pc \notin {"counted", "handling"} => o.length = 0
  BY <1>1 DEF Sessions, Coherent
<1>3. ASSUME NEW s \in Sessions, Coherent(s), Becomes(p, s) PROVE Goal
  BY <1>3
<1>4. Idle \in Assemblers  BY AssemblersTyped
<1>5. /\ "running" \in Places /\ "ended" \in Places /\ "leaving" \in Places /\ "closing" \in Places
      /\ "releasing" \in Places /\ "noting" \in Places /\ "updating" \in Places
      /\ "counted" \in Places /\ "handling" \in Places /\ "panicked" \in Places
  BY DEF Places
<1>. HIDE DEF o, Goal
<1>6. ASSUME NEW q \in {"running", "ended", "closing"}, o.pc \notin {"counted", "handling"},
             Becomes(p, Record(q, o.choked, o.has, o.news, o.bytes, o.length, o.asm))
      PROVE  Goal
  <2>1. Record(q, o.choked, o.has, o.news, o.bytes, o.length, o.asm) \in Sessions
    BY <1>2, <1>5, <1>6 DEF Record, Sessions
  <2>2. Coherent(Record(q, o.choked, o.has, o.news, o.bytes, o.length, o.asm))
    BY <1>2, <1>6 DEF Record, Coherent
  <2>. QED  BY <1>3, <1>6, <2>1, <2>2
<1>7. CASE Connect(p) \/ DialFails(p) \/ Disconnect(p) \/ CleanUp(p) \/ Release(p)
  <2>1. o.pc \notin {"counted", "handling"}
    BY <1>7 DEF Connect, DialFails, Disconnect, CleanUp, Release, At, o
  <2>2. \E q \in {"running", "ended", "closing"} :
            Becomes(p, Record(q, o.choked, o.has, o.news, o.bytes, o.length, o.asm))
    <3>1. Connect(p) \/ Release(p) =>
              Becomes(p, Record("running", o.choked, o.has, o.news, o.bytes, o.length, o.asm))
      BY SessionMoves, Zenon DEF o
    <3>2. DialFails(p) \/ Disconnect(p) =>
              Becomes(p, Record("ended", o.choked, o.has, o.news, o.bytes, o.length, o.asm))
      BY SessionMoves, Zenon DEF o
    <3>3. CleanUp(p) =>
              Becomes(p, Record("closing", o.choked, o.has, o.news, o.bytes, o.length, o.asm))
      BY SessionMoves, Zenon DEF o
    <3>. QED  BY <1>7, <3>1, <3>2, <3>3, Zenon
  <2>3. PICK q \in {"running", "ended", "closing"} :
            Becomes(p, Record(q, o.choked, o.has, o.news, o.bytes, o.length, o.asm))
    BY <2>2
  <2>. QED  BY <1>6, <2>1, <2>3
<1>8. CASE Leave(p)
  <2>1. Becomes(p, Record("leaving", o.choked, o.has, o.news, o.bytes, 0, Idle))
    BY <1>8, SessionMoves DEF o
  <2>. DEFINE s == Record("leaving", o.choked, o.has, o.news, o.bytes, 0, Idle)
  <2>4. s \in Sessions  BY <1>2, <1>4, <1>5, <2>1 DEF Record, Sessions
  <2>5. Coherent(s)  BY <1>2, <1>4, <1>5, <2>1 DEF Record, Coherent
  <2>. HIDE DEF s
  <2>. QED  BY <1>3, <2>1, <2>4, <2>5 DEF s
<1>9. CASE Choke(p) \/ GiveUp(p)
  <2>1. o.length = 0  BY <1>2, <1>9 DEF Choke, GiveUp, At, o
  <2>2. \E q \in {"running", "releasing"}, c \in BOOLEAN :
            Becomes(p, Record(q, c, o.has, o.news, o.bytes, o.length, Idle))
    BY <1>2, <1>9, SessionMoves DEF o
  <2>3. PICK q \in {"running", "releasing"}, c \in BOOLEAN :
            Becomes(p, Record(q, c, o.has, o.news, o.bytes, o.length, Idle))
    BY <2>2
  <2>. DEFINE s == Record(q, c, o.has, o.news, o.bytes, o.length, Idle)
  <2>4. s \in Sessions  BY <1>2, <1>4, <1>5, <2>1, <2>2, <2>3 DEF Record, Sessions
  <2>5. Coherent(s)  BY <1>2, <1>4, <1>5, <2>1, <2>2, <2>3 DEF Record, Coherent
  <2>. HIDE DEF s
  <2>. QED  BY <1>3, <2>1, <2>2, <2>3, <2>4, <2>5 DEF s
<1>10. CASE Unchoke(p)
  <2>1. o.length = 0 /\ o.pc # "dialing"  BY <1>2, <1>10 DEF Unchoke, At, o
  <2>2. Becomes(p, Record(o.pc, FALSE, o.has, o.news, o.bytes, o.length, o.asm))
    BY <1>10, SessionMoves DEF o
  <2>. DEFINE s == Record(o.pc, FALSE, o.has, o.news, o.bytes, o.length, o.asm)
  <2>4. s \in Sessions  BY <1>2 DEF Record, Sessions
  <2>5. Coherent(s)  BY <1>2, <2>1 DEF Record, Coherent
  <2>. HIDE DEF s
  <2>. QED  BY <1>3, <2>2, <2>4, <2>5 DEF s
<1>11. ASSUME NEW i \in Pieces, Have(p, i) PROVE Goal
  <2>1. o.length = 0  BY <1>2, <1>11 DEF Have, At, o
  <2>2. PICK q \in {"noting", "updating"} :
            Becomes(p, Record(q, o.choked, o.has \cup {i}, o.has \cup {i}, o.bytes, o.length, o.asm))
    BY <1>11, SessionMoves DEF o
  <2>3. o.has \cup {i} \in SUBSET Pieces  BY <1>2
  <2>. DEFINE s == Record(q, o.choked, o.has \cup {i}, o.has \cup {i}, o.bytes, o.length, o.asm)
  <2>4. s \in Sessions  BY <1>2, <1>5, <2>1, <2>2, <2>3 DEF Record, Sessions
  <2>5. Coherent(s)  BY <1>2, <1>5, <2>1, <2>2, <2>3 DEF Record, Coherent
  <2>. HIDE DEF s
  <2>. QED  BY <1>3, <2>1, <2>2, <2>3, <2>4, <2>5 DEF s
<1>12. ASSUME NEW S \in SUBSET Pieces, NewBitfield(p, S) PROVE Goal
  <2>1. o.length = 0  BY <1>2, <1>12 DEF NewBitfield, At, o
  <2>2. Becomes(p, Record("updating", o.choked, o.has, S, o.bytes, o.length, o.asm))
    BY <1>12, SessionMoves DEF o
  <2>. DEFINE s == Record("updating", o.choked, o.has, S, o.bytes, o.length, o.asm)
  <2>4. s \in Sessions  BY <1>2, <1>5, <2>1, <2>2 DEF Record, Sessions
  <2>5. Coherent(s)  BY <1>2, <1>5, <2>1, <2>2 DEF Record, Coherent
  <2>. HIDE DEF s
  <2>. QED  BY <1>3, <2>1, <2>2, <2>4, <2>5 DEF s
<1>13. CASE UpdateAvailability(p)
  <2>1. o.length = 0  BY <1>2, <1>13 DEF UpdateAvailability, At, o
  <2>2. Becomes(p, Record("noting", o.choked, o.news, o.news, o.bytes, o.length, o.asm))
    BY <1>13, SessionMoves DEF o
  <2>. DEFINE s == Record("noting", o.choked, o.news, o.news, o.bytes, o.length, o.asm)
  <2>4. s \in Sessions  BY <1>2, <1>5, <2>1, <2>2 DEF Record, Sessions
  <2>5. Coherent(s)  BY <1>2, <1>5, <2>1, <2>2 DEF Record, Coherent
  <2>. HIDE DEF s
  <2>. QED  BY <1>3, <2>1, <2>2, <2>4, <2>5 DEF s
<1>14. CASE NoteHave(p)
  <2>1. o.length = 0  BY <1>2, <1>14 DEF NoteHave, At, o
  <2>2. Becomes(p, Record("running", o.choked, o.has, {}, o.bytes, o.length, o.asm))
    BY <1>14, SessionMoves DEF o
  <2>. DEFINE s == Record("running", o.choked, o.has, {}, o.bytes, o.length, o.asm)
  <2>4. s \in Sessions  BY <1>2, <1>5, <2>1, <2>2 DEF Record, Sessions
  <2>5. Coherent(s)  BY <1>2, <1>5, <2>1, <2>2 DEF Record, Coherent
  <2>. HIDE DEF s
  <2>. QED  BY <1>3, <2>1, <2>2, <2>4, <2>5 DEF s
<1>15. ASSUME NEW i \in Pieces, Claim(p, i) PROVE Goal
  <2>1. o.length = 0 /\ o.pc # "dialing"  BY <1>2, <1>15 DEF Claim, At, o
  <2>2. Becomes(p, Record(o.pc, o.choked, o.has, o.news, o.bytes, o.length, Assembler(i)))
    BY <1>15, SessionMoves DEF o
  <2>3. Assembler(i) \in Assemblers  BY AssemblersTyped
  <2>. DEFINE s == Record(o.pc, o.choked, o.has, o.news, o.bytes, o.length, Assembler(i))
  <2>4. s \in Sessions  BY <1>2, <2>1, <2>2, <2>3 DEF Record, Sessions
  <2>5. Coherent(s)  BY <1>2, <2>1, <2>2, <2>3 DEF Record, Coherent
  <2>. HIDE DEF s
  <2>. QED  BY <1>3, <2>1, <2>2, <2>3, <2>4, <2>5 DEF s
<1>16. ASSUME NEW n \in BlockLengths, CountTotal(p, n) PROVE Goal
  <2>1. Becomes(p, Record("counted", o.choked, o.has, o.news, o.bytes + n, n, o.asm))
    BY <1>16, SessionMoves DEF o
  <2>2. n \in Nat /\ o.bytes + n \in Nat  BY <1>2, LengthsTyped
  <2>. DEFINE s == Record("counted", o.choked, o.has, o.news, o.bytes + n, n, o.asm)
  <2>4. s \in Sessions  BY <1>2, <1>5, <2>1, <2>2 DEF Record, Sessions
  <2>5. Coherent(s)  BY <1>2, <1>5, <2>1, <2>2 DEF Record, Coherent
  <2>. HIDE DEF s
  <2>. QED  BY <1>3, <2>1, <2>2, <2>4, <2>5 DEF s
<1>17. CASE CountPeer(p)
  <2>1. Becomes(p, Record("handling", o.choked, o.has, o.news, o.bytes, o.length, o.asm))
    BY <1>17, SessionMoves DEF o
  <2>. DEFINE s == Record("handling", o.choked, o.has, o.news, o.bytes, o.length, o.asm)
  <2>4. s \in Sessions  BY <1>2, <1>5, <2>1 DEF Record, Sessions
  <2>5. Coherent(s)  BY <1>2, <1>5, <2>1 DEF Record, Coherent
  <2>. HIDE DEF s
  <2>. QED  BY <1>3, <2>1, <2>4, <2>5 DEF s
<1>18. CASE DropBlock(p)
  <2>1. Becomes(p, Record("running", o.choked, o.has, o.news, o.bytes, 0, o.asm))
    BY <1>18, SessionMoves DEF o
  <2>. DEFINE s == Record("running", o.choked, o.has, o.news, o.bytes, 0, o.asm)
  <2>4. s \in Sessions  BY <1>2, <1>5, <2>1 DEF Record, Sessions
  <2>5. Coherent(s)  BY <1>2, <1>5, <2>1 DEF Record, Coherent
  <2>. HIDE DEF s
  <2>. QED  BY <1>3, <2>1, <2>4, <2>5 DEF s
<1>19. ASSUME NEW b \in Blocks, NEW W, AddBlock(p, b, W) PROVE Goal
  <2>1. Becomes(p, Record("running", o.choked, o.has, o.news, o.bytes, 0,
                          WithBlock(o.asm, b, o.length, W)))
    BY <1>19, SessionMoves DEF o
  <2>2. o.asm # Idle /\ \E i \in o.asm.piece : W \subseteq Span(i, b, o.length)
    BY <1>19, Zenon DEF AddBlock, Fits, o
  <2>3. WithBlock(o.asm, b, o.length, W) \in Assemblers
    BY <1>2, <2>2, WithBlockTyped DEF BlockFor
  <2>. DEFINE s == Record("running", o.choked, o.has, o.news, o.bytes, 0, WithBlock(o.asm, b, o.length, W))
  <2>4. s \in Sessions  BY <1>2, <1>5, <2>1, <2>3 DEF Record, Sessions
  <2>5. Coherent(s)  BY <1>2, <1>5, <2>1, <2>3 DEF Record, Coherent
  <2>. HIDE DEF s
  <2>. QED  BY <1>3, <2>1, <2>3, <2>4, <2>5 DEF s
<1>20. ASSUME NEW b, NEW W, FinishPiece(p, b, W) PROVE Goal
  <2>1. Becomes(p, Record("running", o.choked, o.has, o.news, o.bytes, 0, Idle))
    BY <1>20, SessionMoves DEF o
  <2>. DEFINE s == Record("running", o.choked, o.has, o.news, o.bytes, 0, Idle)
  <2>4. s \in Sessions  BY <1>2, <1>4, <1>5, <2>1 DEF Record, Sessions
  <2>5. Coherent(s)  BY <1>2, <1>4, <1>5, <2>1 DEF Record, Coherent
  <2>. HIDE DEF s
  <2>. QED  BY <1>3, <2>1, <2>4, <2>5 DEF s
<1>21. CASE Panic(p)
  <2>1. Becomes(p, Record("panicked", o.choked, o.has, o.news, o.bytes, o.length, Idle))
    BY <1>21, SessionMoves DEF o
  <2>2. o.length = 0  BY <1>21 DEF Panic, o
  <2>. DEFINE s == Record("panicked", o.choked, o.has, o.news, o.bytes, o.length, Idle)
  <2>4. s \in Sessions  BY <1>2, <1>4, <1>5, <2>1, <2>2 DEF Record, Sessions
  <2>5. Coherent(s)  BY <1>2, <1>4, <1>5, <2>1, <2>2 DEF Record, Coherent
  <2>. HIDE DEF s
  <2>. QED  BY <1>3, <2>1, <2>2, <2>4, <2>5 DEF s
<1>. QED
  BY <1>7, <1>8, <1>9, <1>10, <1>11, <1>12, <1>13, <1>14, <1>15, <1>16, <1>17, <1>18, <1>19,
     <1>20, <1>21, StepKinds

\* A step of a session keeps the types, takes no byte off the total and no piece off
\* `have`, and adds none while a snapshot holds the lock.
LEMMA SessionStepTyped ==
    ASSUME StatsTypeInv, NEW p \in Peers, SessionStep(p)
    PROVE  /\ StatsTypeInv' /\ UNCHANGED <<reading, shown>>
           /\ total_downloaded <= total_downloaded'
           /\ have \subseteq have' /\ (locked => have' = have)
<1>1. PICK s \in Sessions : Coherent(s) /\ session' = [session EXCEPT ![p] = s]
  BY SessionTyped DEF Becomes
<1>2. session' \in [Peers -> Sessions] /\ \A q \in Peers : Coherent(session'[q])
  BY <1>1 DEF StatsTypeInv
<1>. USE DEF Rest
<1>3. CASE \E n \in BlockLengths : CountTotal(p, n)
  <2>1. PICK n \in BlockLengths : CountTotal(p, n)  BY <1>3
  <2>2. total_downloaded' = total_downloaded + n /\ UNCHANGED <<have, reading, shown>>
    BY <2>1 DEF CountTotal
  <2>. QED  BY <1>2, <2>2, LengthsTyped DEF StatsTypeInv
<1>4. ASSUME NEW b \in Blocks, NEW W, FinishPiece(p, b, W)
      PROVE  /\ StatsTypeInv' /\ UNCHANGED <<reading, shown>>
             /\ total_downloaded <= total_downloaded'
             /\ have \subseteq have' /\ (locked => have' = have)
  <2>. DEFINE asm == WithBlock(session[p].asm, b, session[p].length, W)
              T == {i \in asm.piece : Bytes(i) \subseteq asm.right}
  <2>1. /\ Fits(p, b, W) /\ ~ locked /\ have' = have \cup T
        /\ UNCHANGED <<total_downloaded, reading, shown>>
    BY <1>4, Zenon DEF FinishPiece
  <2>2. asm.piece \subseteq Pieces
    <3>1. session[p].asm \in Assemblers /\ session[p].length \in Nat  BY DEF StatsTypeInv, Sessions
    <3>2. PICK i \in session[p].asm.piece : W \subseteq Span(i, b, session[p].length)
      BY <2>1, Zenon DEF Fits
    <3>3. session[p].asm # Idle  BY <2>1 DEF Fits
    <3>4. BlockFor(session[p].asm, b, session[p].length, W, i)  BY <3>1, <3>2, <3>3 DEF BlockFor
    <3>5. asm.piece = {i} /\ i \in Pieces  BY <3>4, WithBlockTyped
    <3>. QED  BY <3>5
  <2>. HIDE DEF asm
  <2>3. T \subseteq Pieces  BY <2>2
  <2>. HIDE DEF T
  <2>4. total_downloaded \in Nat /\ total_downloaded <= total_downloaded'
    BY <2>1 DEF StatsTypeInv
  <2>. QED  BY <1>2, <2>1, <2>3, <2>4 DEF StatsTypeInv
<1>5. CASE UNCHANGED <<total_downloaded, have, reading, shown>>
  <2>1. total_downloaded \in Nat  BY DEF StatsTypeInv
  <2>. QED  BY <1>2, <1>5, <2>1 DEF StatsTypeInv
<1>6. \/ UNCHANGED <<total_downloaded, have, reading, shown>>
      \/ \E n \in BlockLengths : CountTotal(p, n)
      \/ \E b \in Blocks : \E W : FinishPiece(p, b, W)
  BY Zenon DEF SessionStep, Connect, DialFails, Leave, CleanUp, Disconnect, Choke, GiveUp, Release,
     Unchoke, Have, NewBitfield, UpdateAvailability, NoteHave, Claim, CountPeer, DropBlock, AddBlock,
     Panic
<1>. QED  BY <1>3, <1>4, <1>5, <1>6

\* A snapshot changes nothing it reads.
LEMMA SnapshotTyped ==
    ASSUME StatsTypeInv, snapshot \/ UNCHANGED statsVars
    PROVE  StatsTypeInv' /\ UNCHANGED <<total_downloaded, entries, session, have>>
<1>1. UNCHANGED <<total_downloaded, entries, session, have>>
  BY DEF snapshot, ReadPieces, ReadWire, ReadCount, ReadPeers, Read, statsVars
<1>. QED  BY <1>1 DEF StatsTypeInv

\* Types are kept.
LEMMA StatsTypeInvInductive == StatsTypeInv /\ [StatsNext]_statsVars => StatsTypeInv'
BY SessionStepTyped, SnapshotTyped DEF StatsNext

\* Types hold at the start.
LEMMA StatsTypeInvInit == StatsInit => StatsTypeInv
<1>. SUFFICES ASSUME StatsInit PROVE StatsTypeInv
  OBVIOUS
<1>1. NewSession \in Sessions /\ Coherent(NewSession)
  BY DEF NewSession, Sessions, Coherent, Assemblers, Places
<1>. QED  BY <1>1 DEF StatsInit, StatsTypeInv
-----------------------------------------------------------------------------

Entry == [choked : BOOLEAN, have_pieces : Nat, downloaded : Int]
InNews(s) == s.pc \in {"updating", "noting"}
uncounted(s) == IF s.pc = "counted" THEN s.length ELSE 0

\* An entry says of its session what EntriesFollowSessions asks.
Follows(e, s) ==
    /\ ~ InNews(s) => e.have_pieces = Cardinality(s.has)
    /\ e.downloaded = s.bytes - uncounted(s)
Listed(s) == s.pc \notin {"dialing", "ended"}

\* A session has its entry from the connection to the end of its task, or for ever.
EntriesInv ==
    /\ entries \in [DOMAIN entries -> Entry]
    /\ DOMAIN entries = {p \in Peers : Listed(session[p])}
    /\ \A p \in DOMAIN entries : Follows(entries[p], session[p])

\* The invariant says more than EntriesFollowSessions.
LEMMA EntriesInvFollow == EntriesInv => EntriesFollowSessions
<1>. SUFFICES ASSUME EntriesInv PROVE EntriesFollowSessions
  OBVIOUS
<1>1. Connected \subseteq DOMAIN entries /\ DOMAIN entries \subseteq Connected \cup Panicked
  BY DEF EntriesInv, Connected, Panicked, Listed, At
<1>2. \A p \in Connected : p \in DOMAIN entries /\ Follows(entries[p], session[p])
  BY <1>1 DEF EntriesInv
<1>. QED  BY <1>1, <1>2 DEF EntriesFollowSessions, Follows, InNews, uncounted, At

\* Sets of pieces can be counted.
LEMMA CountsTyped ==
    ASSUME NEW S \in SUBSET Pieces PROVE IsFiniteSet(S) /\ Cardinality(S) \in Nat
BY StatsAssumption, FS_Subset, FS_CardinalityType

\* A step of a session that is listed before and after it.
LEMMA EntryStays ==
    ASSUME EntriesInv, StatsTypeInv, NEW p \in Peers, Listed(session[p]),
           NEW s, Becomes(p, s), Listed(s),
           NEW e \in Entry, entries' = [entries EXCEPT ![p] = e], Follows(e, s)
    PROVE  EntriesInv'
<1>1. p \in DOMAIN entries /\ DOMAIN entries' = DOMAIN entries  BY DEF EntriesInv
<1>2. session'[p] = s /\ \A q \in Peers : q # p => session'[q] = session[q]
  BY DEF StatsTypeInv, Becomes
<1>3. entries'[p] = e /\ \A q \in DOMAIN entries : q # p => entries'[q] = entries[q]
  BY <1>1
<1>4. DOMAIN entries' = {q \in Peers : Listed(session'[q])}
  BY <1>1, <1>2 DEF EntriesInv
<1>5. entries' \in [DOMAIN entries' -> Entry]  BY <1>1, <1>3 DEF EntriesInv
<1>6. \A q \in DOMAIN entries' : Follows(entries'[q], session'[q])
  BY <1>1, <1>2, <1>3 DEF EntriesInv
<1>. QED  BY <1>4, <1>5, <1>6 DEF EntriesInv

\* A step of a session that leaves its entry alone.
LEMMA EntryUntouched ==
    ASSUME EntriesInv, StatsTypeInv, NEW p \in Peers, Listed(session[p]), entries' = entries,
           NEW s, Becomes(p, s), Listed(s),
           InNews(s) \/ (~ InNews(session[p]) /\ s.has = session[p].has),
           s.bytes - uncounted(s) = session[p].bytes - uncounted(session[p])
    PROVE  EntriesInv'
<1>. DEFINE d == entries[p]
<1>1. d \in Entry /\ entries' = [entries EXCEPT ![p] = d] /\ Follows(d, session[p])
  BY DEF EntriesInv
<1>. HIDE DEF d
<1>2. Follows(d, s)  BY <1>1 DEF Follows
<1>. QED  BY <1>1, <1>2, EntryStays

\* The fields of a record.
LEMMA Fields ==
    ASSUME NEW q, NEW c, NEW h, NEW w, NEW n, NEW l, NEW a, NEW s, s = Record(q, c, h, w, n, l, a)
    PROVE  s.pc = q /\ s.has = h /\ s.news = w /\ s.bytes = n /\ s.length = l /\ s.asm = a
BY DEF Record

\* A step of a session moves its entry with it.
LEMMA EntriesStep ==
    ASSUME EntriesInv, StatsTypeInv, NEW p \in Peers, SessionStep(p)
    PROVE  EntriesInv'
<1>. DEFINE o == session[p]
            d == entries[p]
<1>1. o \in Sessions /\ Coherent(o)  BY DEF StatsTypeInv
<1>2. Listed(o) => p \in DOMAIN entries /\ d \in Entry /\ Follows(d, o)
  BY DEF EntriesInv
<1>3. o.bytes \in Nat /\ o.length \in Nat /\ o.has \in SUBSET Pieces /\ o.news \in SUBSET Pieces
  BY <1>1 DEF Sessions
<1>4. /\ "running" # "counted" /\ o.pc \notin {"counted", "handling"} => o.length = 0
  BY <1>1 DEF Coherent
<1>. HIDE DEF o, d
<1>5. CASE Connect(p)
  <2>. DEFINE s == Record("running", o.choked, o.has, o.news, o.bytes, o.length, o.asm)
  <2>1. Becomes(p, s)  BY <1>5, SessionMoves, Zenon DEF o
  <2>2. /\ o.pc = "dialing"
        /\ entries' = [q \in DOMAIN entries \cup {p} |-> IF q = p THEN PeerEntry ELSE entries[q]]
    BY <1>5 DEF Connect, At, peer_connected, o
  <2>3. s.pc = "running" /\ s.has = o.has /\ s.bytes = o.bytes  BY Fields
  <2>. HIDE DEF s
  <2>4. Listed(s) /\ ~ InNews(s) /\ uncounted(s) = 0  BY <2>3 DEF Listed, InNews, uncounted
  <2>5. session'[p] = s /\ \A q \in Peers : q # p => session'[q] = session[q]
    BY <2>1 DEF StatsTypeInv, Becomes
  <2>6. DOMAIN entries' = {q \in Peers : Listed(session'[q])}
    BY <2>2, <2>4, <2>5 DEF EntriesInv
  <2>7. PeerEntry \in Entry /\ PeerEntry.have_pieces = 0 /\ PeerEntry.downloaded = 0
    BY DEF Entry, PeerEntry
  <2>8. entries' \in [DOMAIN entries' -> Entry]  BY <2>2, <2>7 DEF EntriesInv
  <2>9. Follows(PeerEntry, s)
    <3>1. s.has = {} /\ s.bytes = 0 /\ Cardinality({}) = 0  BY <1>1, <2>2, <2>3, FS_EmptySet DEF Coherent
    <3>. QED  BY <2>4, <2>7, <3>1 DEF Follows
  <2>10. \A q \in DOMAIN entries' : Follows(entries'[q], session'[q])
    BY <2>2, <2>5, <2>9 DEF EntriesInv
  <2>. QED  BY <2>6, <2>8, <2>10 DEF EntriesInv
<1>6. CASE DialFails(p)
  <2>. DEFINE s == Record("ended", o.choked, o.has, o.news, o.bytes, o.length, o.asm)
  <2>1. Becomes(p, s)  BY <1>6, SessionMoves, Zenon DEF o
  <2>2. o.pc = "dialing" /\ entries' = entries  BY <1>6 DEF DialFails, At, o
  <2>3. s.pc = "ended"  BY Fields
  <2>. HIDE DEF s
  <2>4. ~ Listed(s) /\ ~ Listed(session[p])  BY <2>2, <2>3 DEF Listed, o
  <2>5. session'[p] = s /\ \A q \in Peers : q # p => session'[q] = session[q]
    BY <2>1 DEF StatsTypeInv, Becomes
  <2>. QED  BY <2>2, <2>4, <2>5 DEF EntriesInv
<1>7. CASE Disconnect(p)
  <2>. DEFINE s == Record("ended", o.choked, o.has, o.news, o.bytes, o.length, o.asm)
  <2>1. Becomes(p, s)  BY <1>7, SessionMoves, Zenon DEF o
  <2>2. entries' = [q \in DOMAIN entries \ {p} |-> entries[q]]
    BY <1>7 DEF Disconnect, peer_disconnected, Restrict
  <2>3. s.pc = "ended"  BY Fields
  <2>. HIDE DEF s
  <2>4. ~ Listed(s)  BY <2>3 DEF Listed
  <2>5. session'[p] = s /\ \A q \in Peers : q # p => session'[q] = session[q]
    BY <2>1 DEF StatsTypeInv, Becomes
  <2>. QED  BY <2>2, <2>4, <2>5 DEF EntriesInv
<1>8. CASE Leave(p)
  <2>. DEFINE s == Record("leaving", o.choked, o.has, o.news, o.bytes, 0, Idle)
  <2>1. Becomes(p, s)  BY <1>8, SessionMoves, Zenon DEF o
  <2>2. o.pc \in {"running", "handling"} /\ entries' = entries  BY <1>8 DEF Leave, At, Rest, o
  <2>3. s.pc = "leaving" /\ s.has = o.has /\ s.bytes = o.bytes /\ s.length = 0  BY Fields
  <2>. HIDE DEF s
  <2>4. /\ Listed(s) /\ Listed(o)
        /\ InNews(s) \/ (~ InNews(o) /\ s.has = o.has)
        /\ s.bytes - uncounted(s) = o.bytes - uncounted(o)
    BY <1>3, <1>4, <2>2, <2>3 DEF Listed, InNews, uncounted
  <2>. QED  BY <2>1, <2>2, <2>4, EntryUntouched DEF o
<1>9. CASE CleanUp(p)
  <2>. DEFINE s == Record("closing", o.choked, o.has, o.news, o.bytes, o.length, o.asm)
  <2>1. Becomes(p, s)  BY <1>9, SessionMoves, Zenon DEF o
  <2>2. o.pc = "leaving" /\ entries' = entries  BY <1>9 DEF CleanUp, At, Rest, o
  <2>3. s.pc = "closing" /\ s.has = o.has /\ s.bytes = o.bytes /\ s.length = o.length  BY Fields
  <2>. HIDE DEF s
  <2>4. /\ Listed(s) /\ Listed(o)
        /\ InNews(s) \/ (~ InNews(o) /\ s.has = o.has)
        /\ s.bytes - uncounted(s) = o.bytes - uncounted(o)
    BY <1>3, <1>4, <2>2, <2>3 DEF Listed, InNews, uncounted
  <2>. QED  BY <2>1, <2>2, <2>4, EntryUntouched DEF o
<1>10. CASE GiveUp(p)
  <2>. DEFINE s == Record("releasing", o.choked, o.has, o.news, o.bytes, o.length, Idle)
  <2>1. Becomes(p, s)  BY <1>10, SessionMoves, Zenon DEF o
  <2>2. o.pc = "running" /\ entries' = entries  BY <1>10 DEF GiveUp, At, Rest, o
  <2>3. s.pc = "releasing" /\ s.has = o.has /\ s.bytes = o.bytes /\ s.length = o.length  BY Fields
  <2>. HIDE DEF s
  <2>4. /\ Listed(s) /\ Listed(o)
        /\ InNews(s) \/ (~ InNews(o) /\ s.has = o.has)
        /\ s.bytes - uncounted(s) = o.bytes - uncounted(o)
    BY <1>3, <1>4, <2>2, <2>3 DEF Listed, InNews, uncounted
  <2>. QED  BY <2>1, <2>2, <2>4, EntryUntouched DEF o
<1>11. CASE Release(p)
  <2>. DEFINE s == Record("running", o.choked, o.has, o.news, o.bytes, o.length, o.asm)
  <2>1. Becomes(p, s)  BY <1>11, SessionMoves, Zenon DEF o
  <2>2. o.pc = "releasing" /\ entries' = entries  BY <1>11 DEF Release, At, Rest, o
  <2>3. s.pc = "running" /\ s.has = o.has /\ s.bytes = o.bytes /\ s.length = o.length  BY Fields
  <2>. HIDE DEF s
  <2>4. /\ Listed(s) /\ Listed(o)
        /\ InNews(s) \/ (~ InNews(o) /\ s.has = o.has)
        /\ s.bytes - uncounted(s) = o.bytes - uncounted(o)
    BY <1>3, <1>4, <2>2, <2>3 DEF Listed, InNews, uncounted
  <2>. QED  BY <2>1, <2>2, <2>4, EntryUntouched DEF o
<1>12. ASSUME NEW i \in Pieces, Have(p, i) PROVE EntriesInv'
  <2>1. PICK q \in {"noting", "updating"} : Becomes(p, Record(q, o.choked, o.has \cup {i}, o.has \cup {i}, o.bytes, o.length, o.asm))
    BY <1>12, SessionMoves, Zenon DEF o
  <2>. DEFINE s == Record(q, o.choked, o.has \cup {i}, o.has \cup {i}, o.bytes, o.length, o.asm)
  <2>2. o.pc = "running" /\ entries' = entries  BY <1>12 DEF Have, At, Rest, o
  <2>3. s.pc \in {"noting", "updating"} /\ s.has = o.has \cup {i} /\ s.bytes = o.bytes /\ s.length = o.length
    BY <2>1, Fields
  <2>a. Becomes(p, s)  BY <2>1
  <2>. HIDE DEF s
  <2>4. /\ Listed(s) /\ Listed(o)
        /\ InNews(s) \/ (~ InNews(o) /\ s.has = o.has)
        /\ s.bytes - uncounted(s) = o.bytes - uncounted(o)
    BY <1>3, <1>4, <2>2, <2>3 DEF Listed, InNews, uncounted
  <2>. QED  BY <2>a, <2>2, <2>4, EntryUntouched DEF o
<1>13. ASSUME NEW S \in SUBSET Pieces, NewBitfield(p, S) PROVE EntriesInv'
  <2>. DEFINE s == Record("updating", o.choked, o.has, S, o.bytes, o.length, o.asm)
  <2>1. Becomes(p, s)  BY <1>13, SessionMoves, Zenon DEF o
  <2>2. o.pc = "running" /\ entries' = entries  BY <1>13 DEF NewBitfield, At, Rest, o
  <2>3. s.pc = "updating" /\ s.has = o.has /\ s.bytes = o.bytes /\ s.length = o.length  BY Fields
  <2>. HIDE DEF s
  <2>4. /\ Listed(s) /\ Listed(o)
        /\ InNews(s) \/ (~ InNews(o) /\ s.has = o.has)
        /\ s.bytes - uncounted(s) = o.bytes - uncounted(o)
    BY <1>3, <1>4, <2>2, <2>3 DEF Listed, InNews, uncounted
  <2>. QED  BY <2>1, <2>2, <2>4, EntryUntouched DEF o
<1>14. CASE UpdateAvailability(p)
  <2>. DEFINE s == Record("noting", o.choked, o.news, o.news, o.bytes, o.length, o.asm)
  <2>1. Becomes(p, s)  BY <1>14, SessionMoves, Zenon DEF o
  <2>2. o.pc = "updating" /\ entries' = entries  BY <1>14 DEF UpdateAvailability, At, Rest, o
  <2>3. s.pc = "noting" /\ s.has = o.news /\ s.bytes = o.bytes /\ s.length = o.length  BY Fields
  <2>. HIDE DEF s
  <2>4. /\ Listed(s) /\ Listed(o)
        /\ InNews(s) \/ (~ InNews(o) /\ s.has = o.has)
        /\ s.bytes - uncounted(s) = o.bytes - uncounted(o)
    BY <1>3, <1>4, <2>2, <2>3 DEF Listed, InNews, uncounted
  <2>. QED  BY <2>1, <2>2, <2>4, EntryUntouched DEF o
<1>15. ASSUME NEW i \in Pieces, Claim(p, i) PROVE EntriesInv'
  <2>. DEFINE s == Record(o.pc, o.choked, o.has, o.news, o.bytes, o.length, Assembler(i))
  <2>1. Becomes(p, s)  BY <1>15, SessionMoves, Zenon DEF o
  <2>2. o.pc = "running" /\ entries' = entries  BY <1>15 DEF Claim, At, Rest, o
  <2>3. s.pc = o.pc /\ s.has = o.has /\ s.bytes = o.bytes /\ s.length = o.length  BY Fields
  <2>. HIDE DEF s
  <2>4. /\ Listed(s) /\ Listed(o)
        /\ InNews(s) \/ (~ InNews(o) /\ s.has = o.has)
        /\ s.bytes - uncounted(s) = o.bytes - uncounted(o)
    BY <1>3, <1>4, <2>2, <2>3 DEF Listed, InNews, uncounted
  <2>. QED  BY <2>1, <2>2, <2>4, EntryUntouched DEF o
<1>16. ASSUME NEW n \in BlockLengths, CountTotal(p, n) PROVE EntriesInv'
  <2>. DEFINE s == Record("counted", o.choked, o.has, o.news, o.bytes + n, n, o.asm)
  <2>1. Becomes(p, s)  BY <1>16, SessionMoves, Zenon DEF o
  <2>2. o.pc = "running" /\ entries' = entries  BY <1>16 DEF CountTotal, At, Rest, o
  <2>3. s.pc = "counted" /\ s.has = o.has /\ s.bytes = o.bytes + n /\ s.length = n  BY Fields
  <2>. HIDE DEF s
  <2>4. /\ Listed(s) /\ Listed(o)
        /\ InNews(s) \/ (~ InNews(o) /\ s.has = o.has)
        /\ s.bytes - uncounted(s) = o.bytes - uncounted(o)
    BY <1>3, <1>4, <2>2, <2>3, LengthsTyped DEF Listed, InNews, uncounted
  <2>. QED  BY <2>1, <2>2, <2>4, EntryUntouched DEF o
<1>17. CASE DropBlock(p)
  <2>. DEFINE s == Record("running", o.choked, o.has, o.news, o.bytes, 0, o.asm)
  <2>1. Becomes(p, s)  BY <1>17, SessionMoves, Zenon DEF o
  <2>2. o.pc = "handling" /\ entries' = entries  BY <1>17 DEF DropBlock, At, Rest, o
  <2>3. s.pc = "running" /\ s.has = o.has /\ s.bytes = o.bytes /\ s.length = 0  BY Fields
  <2>. HIDE DEF s
  <2>4. /\ Listed(s) /\ Listed(o)
        /\ InNews(s) \/ (~ InNews(o) /\ s.has = o.has)
        /\ s.bytes - uncounted(s) = o.bytes - uncounted(o)
    BY <1>3, <1>4, <2>2, <2>3 DEF Listed, InNews, uncounted
  <2>. QED  BY <2>1, <2>2, <2>4, EntryUntouched DEF o
<1>18. ASSUME NEW b \in Blocks, NEW W, AddBlock(p, b, W) PROVE EntriesInv'
  <2>. DEFINE s == Record("running", o.choked, o.has, o.news, o.bytes, 0, WithBlock(o.asm, b, o.length, W))
  <2>1. Becomes(p, s)  BY <1>18, SessionMoves, Zenon DEF o
  <2>2. o.pc \in {"handling"} /\ entries' = entries
    <3>1. At(p, "handling") /\ entries' = entries  BY <1>18, Zenon DEF AddBlock, Fits
    <3>. QED  BY <3>1 DEF At, o
  <2>3. s.pc = "running" /\ s.has = o.has /\ s.bytes = o.bytes /\ s.length = 0  BY Fields
  <2>. HIDE DEF s
  <2>4. /\ Listed(s) /\ Listed(o)
        /\ InNews(s) \/ (~ InNews(o) /\ s.has = o.has)
        /\ s.bytes - uncounted(s) = o.bytes - uncounted(o)
    BY <1>3, <1>4, <2>2, <2>3 DEF Listed, InNews, uncounted
  <2>. QED  BY <2>1, <2>2, <2>4, EntryUntouched DEF o
<1>19. ASSUME NEW b \in Blocks, NEW W, FinishPiece(p, b, W) PROVE EntriesInv'
  <2>. DEFINE s == Record("running", o.choked, o.has, o.news, o.bytes, 0, Idle)
  <2>1. Becomes(p, s)  BY <1>19, SessionMoves, Zenon DEF o
  <2>2. o.pc \in {"handling"} /\ entries' = entries
    <3>1. At(p, "handling") /\ entries' = entries  BY <1>19, Zenon DEF FinishPiece, Fits
    <3>. QED  BY <3>1 DEF At, o
  <2>3. s.pc = "running" /\ s.has = o.has /\ s.bytes = o.bytes /\ s.length = 0  BY Fields
  <2>. HIDE DEF s
  <2>4. /\ Listed(s) /\ Listed(o)
        /\ InNews(s) \/ (~ InNews(o) /\ s.has = o.has)
        /\ s.bytes - uncounted(s) = o.bytes - uncounted(o)
    BY <1>3, <1>4, <2>2, <2>3 DEF Listed, InNews, uncounted
  <2>. QED  BY <2>1, <2>2, <2>4, EntryUntouched DEF o
<1>20. CASE Panic(p)
  <2>. DEFINE s == Record("panicked", o.choked, o.has, o.news, o.bytes, o.length, Idle)
  <2>1. Becomes(p, s)  BY <1>20, SessionMoves, Zenon DEF o
  <2>2. o.pc = "handling" /\ entries' = entries  BY <1>20 DEF Panic, At, Rest, o
  <2>3. s.pc = "panicked" /\ s.has = o.has /\ s.bytes = o.bytes /\ s.length = o.length  BY Fields
  <2>. HIDE DEF s
  <2>4. /\ Listed(s) /\ Listed(o)
        /\ InNews(s) \/ (~ InNews(o) /\ s.has = o.has)
        /\ s.bytes - uncounted(s) = o.bytes - uncounted(o)
    BY <1>3, <1>4, <2>2, <2>3 DEF Listed, InNews, uncounted
  <2>. QED  BY <2>1, <2>2, <2>4, EntryUntouched DEF o
<1>21. ASSUME NEW c \in BOOLEAN, NEW q \in {"running", "releasing"}, NEW a, o.pc = "running",
              set_choked(p, c), Becomes(p, Record(q, c, o.has, o.news, o.bytes, o.length, a))
       PROVE  EntriesInv'
  <2>. DEFINE s == Record(q, c, o.has, o.news, o.bytes, o.length, a)
              e == [d EXCEPT !.choked = c]
  <2>1. s.pc = q /\ s.has = o.has /\ s.bytes = o.bytes  BY Fields
  <2>2. Listed(o) /\ ~ InNews(o) /\ uncounted(o) = 0  BY <1>21 DEF Listed, InNews, uncounted
  <2>3. Becomes(p, s)  BY <1>21
  <2>. HIDE DEF s
  <2>4. Listed(s) /\ ~ InNews(s) /\ uncounted(s) = 0  BY <2>1 DEF Listed, InNews, uncounted
  <2>5. e \in Entry /\ e.have_pieces = d.have_pieces /\ e.downloaded = d.downloaded
    BY <1>2, <2>2 DEF Entry
  <2>6. entries' = [entries EXCEPT ![p] = e]
    BY <1>2, <1>21, <2>2 DEF set_choked, Known, d
  <2>. HIDE DEF e
  <2>7. Follows(e, s)  BY <1>2, <2>1, <2>2, <2>4, <2>5 DEF Follows
  <2>. QED  BY <2>2, <2>3, <2>4, <2>5, <2>6, <2>7, EntryStays DEF o
<1>22. CASE Choke(p)
  <2>1. o.pc = "running" /\ set_choked(p, TRUE)  BY <1>22 DEF Choke, At, o
  <2>2. \E q \in {"running", "releasing"} :
            Becomes(p, Record(q, TRUE, o.has, o.news, o.bytes, o.length, Idle))
    BY <1>22, SessionMoves, Zenon DEF o
  <2>. QED  BY <1>21, <2>1, <2>2, Zenon
<1>23. CASE Unchoke(p)
  <2>1. o.pc = "running" /\ set_choked(p, FALSE)  BY <1>23 DEF Unchoke, At, o
  <2>2. Becomes(p, Record(o.pc, FALSE, o.has, o.news, o.bytes, o.length, o.asm))
    BY <1>23, SessionMoves, Zenon DEF o
  <2>3. Becomes(p, Record("running", FALSE, o.has, o.news, o.bytes, o.length, o.asm))
    BY <2>1, <2>2, Zenon
  <2>. QED  BY <1>21, <2>1, <2>3, Zenon
<1>24. CASE NoteHave(p)
  <2>. DEFINE s == Record("running", o.choked, o.has, {}, o.bytes, o.length, o.asm)
              k == Cardinality(o.has)
              e == [d EXCEPT !.have_pieces = k]
  <2>1. Becomes(p, s)  BY <1>24, SessionMoves, Zenon DEF o
  <2>2. o.pc = "noting" /\ set_have_count(p, k)  BY <1>24 DEF NoteHave, At, o
  <2>3. s.pc = "running" /\ s.has = o.has /\ s.bytes = o.bytes  BY Fields
  <2>. HIDE DEF s
  <2>4. Listed(s) /\ ~ InNews(s) /\ uncounted(s) = 0  BY <2>3 DEF Listed, InNews, uncounted
  <2>5. Listed(o) /\ uncounted(o) = 0  BY <2>2 DEF Listed, uncounted
  <2>6. k \in Nat  BY <1>3, CountsTyped
  <2>7. entries' = [entries EXCEPT ![p] = e]
    BY <1>2, <2>2, <2>5 DEF set_have_count, Known, d
  <2>8. k = Cardinality(s.has)  BY <2>3
  <2>. HIDE DEF k
  <2>9. e \in Entry /\ e.have_pieces = k /\ e.downloaded = d.downloaded
    BY <1>2, <2>5, <2>6 DEF Entry
  <2>. HIDE DEF e
  <2>10. Follows(e, s)  BY <1>2, <2>3, <2>4, <2>5, <2>8, <2>9 DEF Follows
  <2>. QED  BY <2>1, <2>4, <2>5, <2>7, <2>9, <2>10, EntryStays DEF o
<1>25. CASE CountPeer(p)
  <2>. DEFINE s == Record("handling", o.choked, o.has, o.news, o.bytes, o.length, o.asm)
              k == d.downloaded + o.length
              e == [d EXCEPT !.downloaded = k]
  <2>1. Becomes(p, s)  BY <1>25, SessionMoves, Zenon DEF o
  <2>2. o.pc = "counted" /\ add_downloaded(p, o.length)  BY <1>25 DEF CountPeer, At, o
  <2>3. s.pc = "handling" /\ s.has = o.has /\ s.bytes = o.bytes  BY Fields
  <2>. HIDE DEF s
  <2>4. Listed(s) /\ ~ InNews(s) /\ uncounted(s) = 0  BY <2>3 DEF Listed, InNews, uncounted
  <2>5. Listed(o) /\ ~ InNews(o) /\ uncounted(o) = o.length
    BY <2>2 DEF Listed, InNews, uncounted
  <2>6. entries' = [entries EXCEPT ![p] = e]
    <3>1. entries' = [entries EXCEPT ![p].downloaded = @ + o.length]
      BY <1>2, <2>2, <2>5 DEF add_downloaded, Known
    <3>. QED  BY <1>2, <2>5, <3>1 DEF d
  <2>7. k \in Int /\ k = s.bytes - uncounted(s)
    <3>1. d.downloaded = o.bytes - o.length  BY <1>2, <2>5 DEF Follows
    <3>. QED  BY <1>3, <2>3, <2>4, <3>1
  <2>. HIDE DEF k
  <2>8. e \in Entry /\ e.have_pieces = d.have_pieces /\ e.downloaded = k
    BY <1>2, <2>5, <2>7 DEF Entry
  <2>. HIDE DEF e
  <2>9. Follows(e, s)  BY <1>2, <2>3, <2>4, <2>5, <2>7, <2>8 DEF Follows
  <2>. QED  BY <2>1, <2>4, <2>5, <2>6, <2>8, <2>9, EntryStays DEF o
<1>. QED
  BY <1>5, <1>6, <1>7, <1>8, <1>9, <1>10, <1>11, <1>12, <1>13, <1>14, <1>15, <1>16, <1>17,
     <1>18, <1>19, <1>20, <1>22, <1>23, <1>24, <1>25, StepKinds

\* Every connected session has its entry, and the entry says of it what it should, for any
\* peers, pieces and block lengths, whichever steps of other sessions and snapshots come
\* between two writes.
THEOREM EntriesAgree == StatsSpec => []EntriesFollowSessions
<1>1. StatsInit => EntriesInv
  <2>1. ASSUME StatsInit PROVE \A p \in Peers : ~ Listed(session[p])
    BY <2>1 DEF StatsInit, NewSession, Listed
  <2>. QED  BY <2>1 DEF StatsInit, EntriesInv
<1>2. EntriesInv /\ StatsTypeInv /\ [StatsNext]_statsVars => EntriesInv'
  <2>1. ASSUME EntriesInv, UNCHANGED <<entries, session>> PROVE EntriesInv'
    BY <2>1 DEF EntriesInv
  <2>. QED  BY <2>1, EntriesStep, SnapshotTyped DEF StatsNext
<1>. QED
  BY <1>1, <1>2, EntriesInvFollow, StatsTypeInvInit, StatsTypeInvInductive, PTL DEF StatsSpec
-----------------------------------------------------------------------------
(* Snapshots. *)

\* The bytes of a set of pieces are a number, and grow with the set by the length of
\* what is added.
LEMMA PieceBytes ==
    /\ piece_length \in Nat \ {0}
    /\ \A S \in SUBSET Pieces : piece_bytes(S) \in Nat
    /\ \A S, T \in SUBSET Pieces : S \subseteq T => piece_bytes(S) <= piece_bytes(T)
    /\ \A S \in SUBSET Pieces : piece_bytes(S) = piece_bytes(Pieces) => S = Pieces
<1>1. piece_length \in Nat \ {0}  BY StatsAssumption DEF piece_length
<1>2. ASSUME NEW S \in SUBSET Pieces PROVE piece_bytes(S) \in Nat
  <2>1. Cardinality(S) \in Nat  BY CountsTyped
  <2>. QED  BY <1>1, <2>1 DEF piece_bytes
<1>3. ASSUME NEW S \in SUBSET Pieces, NEW T \in SUBSET Pieces, S \subseteq T
      PROVE  piece_bytes(S) <= piece_bytes(T)
  <2>1. /\ Cardinality(S) \in Nat /\ Cardinality(T) \in Nat /\ Cardinality(S) <= Cardinality(T)
    BY <1>3, CountsTyped, FS_Subset
  <2>2. Cardinality(S) * piece_length <= Cardinality(T) * piece_length  BY <1>1, <2>1
  <2>. QED  BY <2>2 DEF piece_bytes
<1>4. ASSUME NEW S \in SUBSET Pieces, piece_bytes(S) = piece_bytes(Pieces) PROVE S = Pieces
  <2>1. Cardinality(S) \in Nat /\ Cardinality(Pieces) \in Nat  BY CountsTyped
  <2>2. Cardinality(S) * piece_length = Cardinality(Pieces) * piece_length
    BY <1>4 DEF piece_bytes
  <2>3. Cardinality(S) = Cardinality(Pieces)  BY <1>1, <2>1, <2>2
  <2>. QED  BY <2>3, StatsAssumption, FS_Subset
<1>. QED  BY <1>1, <1>2, <1>3, <1>4

IsSnapshot(r) ==
    r = [at |-> r.at, bytes_done |-> r.bytes_done, content |-> r.content, complete |-> r.complete,
         wire_bytes |-> r.wire_bytes, connected_peers |-> r.connected_peers, peers |-> r.peers]

\* What a snapshot under way, and the last one taken, know of the present.
ReadingInv ==
    /\ IsSnapshot(reading)
    /\ reading.at \in {"none", "wire", "count", "peers"}
    /\ locked => /\ reading.bytes_done = piece_bytes(have) /\ reading.content = content(have)
                 /\ reading.complete = (have = Pieces)
    /\ reading.at \in {"count", "peers"} =>
           /\ reading.wire_bytes \in Nat /\ reading.wire_bytes <= total_downloaded
           /\ shown.wire_bytes <= reading.wire_bytes
ShownInv ==
    /\ shown.wire_bytes \in Nat /\ shown.wire_bytes <= total_downloaded
    /\ shown.bytes_done \in Nat /\ shown.bytes_done <= piece_bytes(have)
    /\ shown.complete => have = Pieces
SnapshotInv == ReadingInv /\ ShownInv

\* Each read of a snapshot, field by field.
LEMMA ReadFields ==
    ASSUME ReadingInv, snapshot
    PROVE  \/ /\ reading.at = "none" /\ IsSnapshot(reading') /\ reading'.at = "wire"
              /\ reading'.bytes_done = piece_bytes(have) /\ reading'.content = content(have)
              /\ reading'.complete = (have = Pieces) /\ shown' = shown
           \/ /\ reading.at = "wire" /\ IsSnapshot(reading') /\ reading'.at = "count"
              /\ reading'.bytes_done = reading.bytes_done /\ reading'.complete = reading.complete
              /\ reading'.content = reading.content
              /\ reading'.wire_bytes = total_downloaded /\ shown' = shown
           \/ /\ reading.at = "count" /\ IsSnapshot(reading') /\ reading'.at = "peers"
              /\ reading'.bytes_done = reading.bytes_done /\ reading'.complete = reading.complete
              /\ reading'.content = reading.content
              /\ reading'.wire_bytes = reading.wire_bytes /\ shown' = shown
           \/ /\ reading.at = "peers" /\ IsSnapshot(reading') /\ reading'.at = "none"
              /\ shown'.bytes_done = reading.bytes_done /\ shown'.complete = reading.complete
              /\ shown'.content = reading.content
              /\ shown'.wire_bytes = reading.wire_bytes
<1>1. CASE ReadPieces
  <2>. DEFINE n == piece_bytes(have)
              k == content(have)
              c == (have = Pieces)
  <2>1. /\ reading.at = "none" /\ shown' = shown
        /\ reading' = [NoSnapshot EXCEPT !.at = "wire", !.bytes_done = n, !.content = k, !.complete = c]
    BY <1>1, Zenon DEF ReadPieces, Read
  <2>. HIDE DEF n, k, c
  <2>2. /\ IsSnapshot(reading') /\ reading'.at = "wire" /\ reading'.bytes_done = n
        /\ reading'.content = k /\ reading'.complete = c
    BY <2>1 DEF NoSnapshot, IsSnapshot
  <2>. QED  BY <2>1, <2>2 DEF n, k, c
<1>2. CASE ReadWire
  <2>1. /\ reading.at = "wire" /\ shown' = shown
        /\ reading' = [reading EXCEPT !.at = "count", !.wire_bytes = total_downloaded]
    BY <1>2, Zenon DEF ReadWire, Read, wire_bytes
  <2>. QED  BY <2>1 DEF ReadingInv, IsSnapshot
<1>3. CASE ReadCount
  <2>. DEFINE n == Cardinality(DOMAIN entries)
  <2>1. /\ reading.at = "count" /\ shown' = shown
        /\ reading' = [reading EXCEPT !.at = "peers", !.connected_peers = n]
    BY <1>3, Zenon DEF ReadCount, Read
  <2>. HIDE DEF n
  <2>. QED  BY <2>1 DEF ReadingInv, IsSnapshot
<1>4. CASE ReadPeers
  <2>1. /\ reading.at = "peers" /\ reading' = NoSnapshot
        /\ shown' = [reading EXCEPT !.at = "none", !.peers = DOMAIN entries]
    BY <1>4, Zenon DEF ReadPeers
  <2>2. IsSnapshot(reading') /\ reading'.at = "none"  BY <2>1 DEF NoSnapshot, IsSnapshot
  <2>. QED  BY <2>1, <2>2 DEF ReadingInv, IsSnapshot
<1>. QED  BY <1>1, <1>2, <1>3, <1>4 DEF snapshot

\* Every step keeps what a snapshot has read behind what it will read.
LEMMA SnapshotInvInductive ==
    StatsTypeInv /\ SnapshotInv /\ [StatsNext]_statsVars => SnapshotInv'
<1>. SUFFICES ASSUME StatsTypeInv, SnapshotInv, [StatsNext]_statsVars PROVE SnapshotInv'
  OBVIOUS
<1>0. content(have)' = content(have') /\ piece_bytes(have)' = piece_bytes(have')
  BY DEF content, piece_bytes
<1>1. CASE UNCHANGED statsVars
  BY <1>0, <1>1 DEF statsVars, SnapshotInv, ReadingInv, ShownInv, locked, IsSnapshot
<1>2. CASE snapshot
  <2>1. UNCHANGED <<total_downloaded, have>> /\ total_downloaded \in Nat
        /\ piece_bytes(have) \in Nat /\ piece_bytes(have)' = piece_bytes(have)
        /\ content(have)' = content(have)
    BY <1>0, <1>2, SnapshotTyped, PieceBytes DEF StatsTypeInv
  <2>2. ReadingInv'
    BY <1>2, <2>1, ReadFields DEF SnapshotInv, ReadingInv, ShownInv, locked
  <2>3. CASE shown' = shown
    BY <2>1, <2>2, <2>3 DEF SnapshotInv, ShownInv
  <2>4. CASE shown' # shown
    <3>1. /\ reading.at = "peers" /\ shown'.bytes_done = reading.bytes_done
          /\ shown'.complete = reading.complete /\ shown'.wire_bytes = reading.wire_bytes
      BY <1>2, <2>4, ReadFields DEF SnapshotInv
    <3>2. /\ shown'.bytes_done = piece_bytes(have) /\ shown'.complete = (have = Pieces)
          /\ shown'.wire_bytes \in Nat /\ shown'.wire_bytes <= total_downloaded
      BY <3>1 DEF SnapshotInv, ReadingInv, locked
    <3>3. shown'.complete => have' = Pieces  BY <2>1, <3>2, Zenon
    <3>4. shown'.bytes_done \in Nat /\ shown'.bytes_done <= piece_bytes(have)'
      BY <2>1, <3>2
    <3>. QED  BY <2>1, <2>2, <3>2, <3>3, <3>4 DEF SnapshotInv, ShownInv
  <2>. QED  BY <2>3, <2>4
<1>3. ASSUME NEW p \in Peers, SessionStep(p) PROVE SnapshotInv'
  <2>1. /\ UNCHANGED <<reading, shown>> /\ total_downloaded <= total_downloaded'
        /\ total_downloaded \in Nat /\ total_downloaded' \in Nat
        /\ have \subseteq have' /\ (locked => have' = have)
        /\ have \in SUBSET Pieces /\ have' \in SUBSET Pieces
    BY <1>3, SessionStepTyped DEF StatsTypeInv
  <2>2. /\ piece_bytes(have) \in Nat /\ piece_bytes(have') \in Nat
        /\ piece_bytes(have) <= piece_bytes(have')
    BY <2>1, PieceBytes
  <2>4. have = Pieces => have' = Pieces  BY <2>1
  <2>5. ReadingInv'
    BY <1>0, <2>1 DEF SnapshotInv, ReadingInv, ShownInv, locked, IsSnapshot
  <2>6. ShownInv'
    BY <1>0, <2>1, <2>2, <2>4 DEF SnapshotInv, ShownInv
  <2>. QED  BY <2>5, <2>6 DEF SnapshotInv
<1>. QED  BY <1>1, <1>2, <1>3 DEF StatsNext

\* No snapshot has begun at the start.
LEMMA SnapshotInvInit == StatsInit => SnapshotInv
<1>. SUFFICES ASSUME StatsInit PROVE SnapshotInv
  OBVIOUS
<1>1. piece_bytes({}) \in Nat  BY PieceBytes
<1>2. /\ IsSnapshot(NoSnapshot) /\ NoSnapshot.at = "none" /\ NoSnapshot.wire_bytes = 0
      /\ NoSnapshot.bytes_done = 0 /\ NoSnapshot.complete = FALSE
  BY DEF NoSnapshot, IsSnapshot
<1>3. reading = NoSnapshot /\ shown = NoSnapshot /\ total_downloaded = 0 /\ have = {}
  BY DEF StatsInit
<1>. HIDE DEF NoSnapshot
<1>4. ~ shown.complete  BY <1>2, <1>3
<1>. QED  BY <1>1, <1>2, <1>3, <1>4 DEF SnapshotInv, ReadingInv, ShownInv, locked

\* Successive snapshots never go back, for any peers, pieces and blocks.
THEOREM SnapshotsOnlyAdvance == StatsSpec => SnapshotsAdvance
<1>1. ASSUME StatsTypeInv, SnapshotInv, [StatsNext]_statsVars
      PROVE  [ /\ shown'.wire_bytes >= shown.wire_bytes
               /\ shown'.bytes_done >= shown.bytes_done
               /\ shown.complete => shown'.complete
               /\ shown'.complete <=> shown'.bytes_done = piece_bytes(Pieces)]_shown
  <2>1. CASE shown' = shown  BY <2>1
  <2>2. CASE shown' # shown
    <3>1. snapshot  BY <1>1, <2>2, SessionStepTyped DEF StatsNext, statsVars
    <3>2. /\ reading.at = "peers" /\ shown'.bytes_done = reading.bytes_done
          /\ shown'.complete = reading.complete /\ shown'.wire_bytes = reading.wire_bytes
      BY <1>1, <2>2, <3>1, ReadFields DEF SnapshotInv
    <3>3. /\ shown'.bytes_done = piece_bytes(have) /\ shown'.complete = (have = Pieces)
          /\ shown.wire_bytes <= shown'.wire_bytes /\ shown'.wire_bytes \in Nat
      BY <1>1, <3>2 DEF SnapshotInv, ReadingInv, locked
    <3>4. shown.bytes_done <= shown'.bytes_done /\ shown'.bytes_done \in Nat
      BY <1>1, <3>3, PieceBytes DEF SnapshotInv, ShownInv, StatsTypeInv
    <3>5. shown.complete => shown'.complete
      <4>1. shown.complete => have = Pieces  BY <1>1 DEF SnapshotInv, ShownInv
      <4>. QED  BY <3>3, <4>1, Zenon
    <3>6. shown'.complete <=> shown'.bytes_done = piece_bytes(Pieces)
      <4>1. have = Pieces <=> piece_bytes(have) = piece_bytes(Pieces)
        BY <1>1, PieceBytes DEF StatsTypeInv
      <4>. QED  BY <3>3, <4>1, Zenon
    <3>7. shown'.wire_bytes >= shown.wire_bytes /\ shown'.bytes_done >= shown.bytes_done
      BY <1>1, <3>3, <3>4 DEF SnapshotInv, ShownInv
    <3>. QED  BY <3>5, <3>6, <3>7
  <2>. QED  BY <2>1, <2>2
<1>. QED
  BY <1>1, SnapshotInvInit, SnapshotInvInductive, StatsTypeInvInit, StatsTypeInvInductive, PTL
     DEF StatsSpec, SnapshotsAdvance
-----------------------------------------------------------------------------
(* The bytes on the wire cover the content of the pieces verified. *)

Solid(S) == {c \in NonZero : c[1] \in S}

\* The bytes that are not zero can be counted.
LEMMA NonZeroFinite ==
    /\ IsFiniteSet(NonZero)
    /\ \A X : IsFiniteSet(X \cap NonZero) /\ Cardinality(X \cap NonZero) \in Nat
    /\ \A S : IsFiniteSet(Solid(S)) /\ content(S) = Cardinality(Solid(S)) /\ content(S) \in Nat
<1>1. IsFiniteSet(NonZero)
  <2>. DEFINE T == 0 .. piece_length - 1
  <2>1. piece_length - 1 \in Int  BY StatsAssumption DEF piece_length
  <2>2. IsFiniteSet(T)  BY <2>1, FS_Interval
  <2>3. NonZero \in SUBSET (Pieces \X T)  BY StatsAssumption
  <2>. HIDE DEF T
  <2>. QED  BY <2>2, <2>3, StatsAssumption, FS_Product, FS_Subset
<1>2. ASSUME NEW X PROVE IsFiniteSet(X \cap NonZero) /\ Cardinality(X \cap NonZero) \in Nat
  BY <1>1, FS_Intersection, FS_CardinalityType
<1>3. ASSUME NEW S
      PROVE  IsFiniteSet(Solid(S)) /\ content(S) = Cardinality(Solid(S)) /\ content(S) \in Nat
  <2>1. Solid(S) \in SUBSET NonZero  BY DEF Solid
  <2>2. IsFiniteSet(Solid(S)) /\ Cardinality(Solid(S)) \in Nat
    BY <1>1, <2>1, FS_Subset, FS_CardinalityType
  <2>. QED  BY <2>2 DEF content, Solid
<1>. QED  BY <1>1, <1>2, <1>3

\* One set more adds no more than its size.
LEMMA UnionBound ==
    ASSUME NEW A, IsFiniteSet(A), NEW B, IsFiniteSet(B), NEW C, C \subseteq A \cup B
    PROVE  /\ Cardinality(A) \in Nat /\ Cardinality(B) \in Nat /\ Cardinality(C) \in Nat
           /\ Cardinality(C) <= Cardinality(A) + Cardinality(B)
<1>1. /\ IsFiniteSet(A \cup B)
      /\ Cardinality(A \cup B) = Cardinality(A) + Cardinality(B) - Cardinality(A \cap B)
  BY FS_Union
<1>2. IsFiniteSet(C) /\ Cardinality(C) <= Cardinality(A \cup B)  BY <1>1, FS_Subset
<1>3. Cardinality(A \cap B) \in Nat  BY FS_Intersection, FS_CardinalityType
<1>4. /\ Cardinality(A) \in Nat /\ Cardinality(B) \in Nat /\ Cardinality(C) \in Nat
      /\ Cardinality(A \cup B) \in Nat
  BY <1>1, <1>2, FS_CardinalityType
<1>. QED  BY <1>1, <1>2, <1>3, <1>4

\* A block of n bytes covers n bytes of its piece.
LEMMA SpanSize ==
    ASSUME NEW i, NEW b \in Blocks, NEW n \in Nat
    PROVE  IsFiniteSet(Span(i, b, n)) /\ Cardinality(Span(i, b, n)) = n
<1>. DEFINE lo == b * BLOCK_SIZE
            T == lo .. lo + n - 1
<1>1. lo \in Int  BY StatsAssumption DEF Blocks
<1>. HIDE DEF lo
<1>2. IsFiniteSet(T) /\ Cardinality(T) = IF lo > lo + n - 1 THEN 0 ELSE lo + n - 1 - lo + 1
  <2>1. lo + n - 1 \in Int  BY <1>1
  <2>. QED  BY <1>1, <2>1, FS_Interval
<1>3. Cardinality(T) = n  BY <1>1, <1>2
<1>. HIDE DEF T
<1>4. IsFiniteSet({i}) /\ Cardinality({i}) = 1  BY FS_Singleton
<1>5. IsFiniteSet({i} \X T) /\ Cardinality({i} \X T) = 1 * n
  BY <1>2, <1>3, <1>4, FS_Product
<1>6. Span(i, b, n) = {i} \X T  BY DEF Span, T, lo
<1>. QED  BY <1>5, <1>6
-----------------------------------------------------------------------------
\* What a session has received towards a piece: the bytes of its assembler that are right
\* and not zero, and those of the block at hand.
gathered(a) == Cardinality(a.right \cap NonZero)
credit(s) == gathered(s.asm) + s.length
Credits == [p \in Peers |-> credit(session[p])]

\* Beside the content verified, the total covers what every session has received.
WireInv ==
    \E it : Sums(it, Peers, Credits) /\ total_downloaded >= content(have) + it[Peers]

\* The bytes a session has to its credit are a number.
LEMMA CreditsTyped ==
    ASSUME NEW s \in Sessions PROVE gathered(s.asm) \in Nat /\ s.length \in Nat /\ credit(s) \in Nat
<1>1. s.length \in Nat  BY DEF Sessions
<1>2. gathered(s.asm) \in Nat  BY NonZeroFinite DEF gathered
<1>. QED  BY <1>1, <1>2 DEF credit

\* A step of one session, which uses up no more than it has received.
LEMMA WireStep ==
    ASSUME StatsTypeInv, WireInv, NEW p \in Peers, NEW s \in Sessions, Becomes(p, s),
           total_downloaded' \in Nat,
           total_downloaded + content(have') + credit(s) <=
               total_downloaded' + content(have) + credit(session[p])
    PROVE  WireInv'
<1>1. PICK it : Sums(it, Peers, Credits) /\ total_downloaded >= content(have) + it[Peers]
  BY DEF WireInv
<1>2. Credits \in [Peers -> Nat]
  BY CreditsTyped DEF Credits, StatsTypeInv
<1>. DEFINE c == [q \in Peers |-> credit(session'[q])]
<1>3. session' \in [Peers -> Sessions] /\ session'[p] = s
      /\ \A q \in Peers : q # p => session'[q] = session[q]
  BY DEF StatsTypeInv, Becomes
<1>4. c \in [Peers -> Nat]  BY <1>3, CreditsTyped
<1>5. c[p] = credit(s) /\ Credits[p] = credit(session[p]) /\ \A q \in Peers : q # p => Credits[q] = c[q]
  BY <1>3 DEF Credits
<1>6. Credits' = c  BY DEF Credits, credit, gathered
<1>. HIDE DEF c
<1>7. PICK jt : Sums(jt, Peers, c)  BY <1>4, StatsAssumption, SumExists
<1>8. jt[Peers] + Credits[p] = it[Peers] + c[p]
  BY <1>1, <1>2, <1>4, <1>5, <1>7, StatsAssumption, SumUpdate
<1>9. it[Peers] \in Nat /\ jt[Peers] \in Nat
  <2>1. it \in [SUBSET Peers -> Nat]  BY <1>1, <1>2, StatsAssumption, SumType
  <2>2. jt \in [SUBSET Peers -> Nat]  BY <1>4, <1>7, StatsAssumption, SumType
  <2>. QED  BY <2>1, <2>2
<1>10. /\ content(have) \in Nat /\ content(have') \in Nat /\ total_downloaded \in Nat
       /\ Credits[p] \in Nat /\ c[p] \in Nat
  BY <1>2, <1>4, NonZeroFinite DEF StatsTypeInv
<1>11. total_downloaded' >= content(have') + jt[Peers]
  <2>1. total_downloaded + content(have') + c[p] <=
            total_downloaded' + content(have) + Credits[p]
    BY <1>5
  <2>. QED  BY <1>1, <1>8, <1>9, <1>10, <2>1
<1>12. content(have)' = content(have')  BY DEF content
<1>. QED  BY <1>6, <1>7, <1>11, <1>12 DEF WireInv

\* A block adds no more to what is gathered than its length, whatever it overwrites.
LEMMA BlockGathers ==
    ASSUME NEW a, NEW b, NEW n, NEW W, NEW i, BlockFor(a, b, n, W, i)
    PROVE  /\ gathered(WithBlock(a, b, n, W)) \in Nat /\ gathered(a) \in Nat /\ n \in Nat
           /\ gathered(WithBlock(a, b, n, W)) <= gathered(a) + n
<1>1. WithBlock(a, b, n, W).right = (a.right \ Span(i, b, n)) \cup W  BY WithBlockTyped
<1>2. b \in Blocks /\ n \in Nat /\ W \subseteq Span(i, b, n)  BY DEF BlockFor
<1>3. IsFiniteSet(Span(i, b, n)) /\ Cardinality(Span(i, b, n)) = n  BY <1>2, SpanSize
<1>. DEFINE R == WithBlock(a, b, n, W).right \cap NonZero
            A == a.right \cap NonZero
            B == Span(i, b, n)
<1>4. R \subseteq A \cup B  BY <1>1, <1>2
<1>5. IsFiniteSet(A)  BY NonZeroFinite
<1>6. Cardinality(R) = gathered(WithBlock(a, b, n, W)) /\ Cardinality(A) = gathered(a)
  BY DEF gathered
<1>7. IsFiniteSet(B) /\ Cardinality(B) = n  BY <1>3
<1>. HIDE DEF R, A, B
<1>. QED  BY <1>2, <1>4, <1>5, <1>6, <1>7, UnionBound

\* A step of a session keeps the total ahead.
LEMMA SessionWire ==
    ASSUME StatsTypeInv, WireInv, NEW p \in Peers, SessionStep(p)
    PROVE  WireInv'
<1>. DEFINE o == session[p]
<1>1. o \in Sessions /\ Coherent(o)  BY DEF StatsTypeInv
<1>2. PICK s \in Sessions : Becomes(p, s)  BY SessionTyped
<1>3. total_downloaded' \in Nat /\ total_downloaded \in Nat /\ have \in SUBSET Pieces
  BY SessionStepTyped DEF StatsTypeInv
<1>4. content(have) \in Nat /\ content(have') \in Nat  BY NonZeroFinite
<1>5. /\ gathered(o.asm) \in Nat /\ o.length \in Nat /\ credit(o) = gathered(o.asm) + o.length
      /\ gathered(s.asm) \in Nat /\ s.length \in Nat /\ credit(s) = gathered(s.asm) + s.length
  BY <1>1, CreditsTyped DEF credit
<1>6. gathered(Idle) = 0
  <2>1. Idle.right \cap NonZero = {}  BY DEF Idle
  <2>. QED  BY <2>1, FS_EmptySet DEF gathered
<1>7. ASSUME NEW t, Becomes(p, t) PROVE t = s
  BY <1>2, <1>7 DEF Becomes, StatsTypeInv
<1>. HIDE DEF o
\* Steps that change neither the total nor the pieces verified.
<1>8. ASSUME UNCHANGED <<total_downloaded, have>>, gathered(s.asm) + s.length <= gathered(o.asm) + o.length
      PROVE  WireInv'
  <2>1. total_downloaded + content(have') + credit(s) <=
            total_downloaded' + content(have) + credit(o)
    BY <1>3, <1>4, <1>5, <1>8
  <2>. QED  BY <1>2, <1>3, <2>1, WireStep DEF o
<1>9. ASSUME UNCHANGED <<total_downloaded, have>>, NEW t, Becomes(p, t), t.length \in {0, o.length},
             t.asm \in {Idle, o.asm}
      PROVE  WireInv'
  <2>1. t = s  BY <1>7, <1>9
  <2>. QED  BY <1>5, <1>6, <1>8, <1>9, <2>1
<1>10. CASE Connect(p)
  <2>1. UNCHANGED <<total_downloaded, have>>  BY <1>10, Zenon DEF Connect, Rest
  <2>2. Becomes(p, Record("running", o.choked, o.has, o.news, o.bytes, o.length, o.asm))
    BY <1>10, SessionMoves, Zenon DEF o
  <2>. QED  BY <1>9, <2>1, <2>2, Fields
<1>11. CASE DialFails(p)
  <2>1. UNCHANGED <<total_downloaded, have>>  BY <1>11, Zenon DEF DialFails, Rest
  <2>2. Becomes(p, Record("ended", o.choked, o.has, o.news, o.bytes, o.length, o.asm))
    BY <1>11, SessionMoves, Zenon DEF o
  <2>. QED  BY <1>9, <2>1, <2>2, Fields
<1>12. CASE Disconnect(p)
  <2>1. UNCHANGED <<total_downloaded, have>>  BY <1>12, Zenon DEF Disconnect, Rest
  <2>2. Becomes(p, Record("ended", o.choked, o.has, o.news, o.bytes, o.length, o.asm))
    BY <1>12, SessionMoves, Zenon DEF o
  <2>. QED  BY <1>9, <2>1, <2>2, Fields
<1>13. CASE Leave(p)
  <2>1. UNCHANGED <<total_downloaded, have>>  BY <1>13, Zenon DEF Leave, Rest
  <2>2. Becomes(p, Record("leaving", o.choked, o.has, o.news, o.bytes, 0, Idle))
    BY <1>13, SessionMoves, Zenon DEF o
  <2>. QED  BY <1>9, <2>1, <2>2, Fields
<1>14. CASE CleanUp(p)
  <2>1. UNCHANGED <<total_downloaded, have>>  BY <1>14, Zenon DEF CleanUp, Rest
  <2>2. Becomes(p, Record("closing", o.choked, o.has, o.news, o.bytes, o.length, o.asm))
    BY <1>14, SessionMoves, Zenon DEF o
  <2>. QED  BY <1>9, <2>1, <2>2, Fields
<1>15. CASE Choke(p)
  <2>1. UNCHANGED <<total_downloaded, have>>  BY <1>15, Zenon DEF Choke, Rest
  <2>2. PICK q \in {"running", "releasing"} :
            Becomes(p, Record(q, TRUE, o.has, o.news, o.bytes, o.length, Idle))
    BY <1>15, SessionMoves, Zenon DEF o
  <2>. DEFINE t == Record(q, TRUE, o.has, o.news, o.bytes, o.length, Idle)
  <2>3. t.length = o.length /\ t.asm = Idle  BY DEF Record
  <2>4. Becomes(p, t)  BY <2>2
  <2>. HIDE DEF t
  <2>. QED  BY <1>9, <2>1, <2>3, <2>4
<1>16. CASE GiveUp(p)
  <2>1. UNCHANGED <<total_downloaded, have>>  BY <1>16, Zenon DEF GiveUp, Rest
  <2>2. Becomes(p, Record("releasing", o.choked, o.has, o.news, o.bytes, o.length, Idle))
    BY <1>16, SessionMoves, Zenon DEF o
  <2>. QED  BY <1>9, <2>1, <2>2, Fields
<1>17. CASE Release(p)
  <2>1. UNCHANGED <<total_downloaded, have>>  BY <1>17, Zenon DEF Release, Rest
  <2>2. Becomes(p, Record("running", o.choked, o.has, o.news, o.bytes, o.length, o.asm))
    BY <1>17, SessionMoves, Zenon DEF o
  <2>. QED  BY <1>9, <2>1, <2>2, Fields
<1>18. CASE Unchoke(p)
  <2>1. UNCHANGED <<total_downloaded, have>>  BY <1>18, Zenon DEF Unchoke, Rest
  <2>2. Becomes(p, Record(o.pc, FALSE, o.has, o.news, o.bytes, o.length, o.asm))
    BY <1>18, SessionMoves, Zenon DEF o
  <2>. DEFINE t == Record(o.pc, FALSE, o.has, o.news, o.bytes, o.length, o.asm)
  <2>3. t.length = o.length /\ t.asm = o.asm  BY DEF Record
  <2>4. Becomes(p, t)  BY <2>2
  <2>. HIDE DEF t
  <2>. QED  BY <1>9, <2>1, <2>3, <2>4
<1>19. ASSUME NEW i \in Pieces, Have(p, i) PROVE WireInv'
  <2>1. UNCHANGED <<total_downloaded, have>>  BY <1>19, Zenon DEF Have, Rest
  <2>2. PICK q \in {"noting", "updating"} :
            Becomes(p, Record(q, o.choked, o.has \cup {i}, o.has \cup {i}, o.bytes, o.length, o.asm))
    BY <1>19, SessionMoves, Zenon DEF o
  <2>. QED  BY <1>9, <2>1, <2>2, Fields
<1>20. ASSUME NEW S \in SUBSET Pieces, NewBitfield(p, S) PROVE WireInv'
  <2>1. UNCHANGED <<total_downloaded, have>>  BY <1>20, Zenon DEF NewBitfield, Rest
  <2>2. Becomes(p, Record("updating", o.choked, o.has, S, o.bytes, o.length, o.asm))
    BY <1>20, SessionMoves, Zenon DEF o
  <2>. QED  BY <1>9, <2>1, <2>2, Fields
<1>21. CASE UpdateAvailability(p)
  <2>1. UNCHANGED <<total_downloaded, have>>  BY <1>21, Zenon DEF UpdateAvailability, Rest
  <2>2. Becomes(p, Record("noting", o.choked, o.news, o.news, o.bytes, o.length, o.asm))
    BY <1>21, SessionMoves, Zenon DEF o
  <2>. QED  BY <1>9, <2>1, <2>2, Fields
<1>22. CASE NoteHave(p)
  <2>1. UNCHANGED <<total_downloaded, have>>  BY <1>22, Zenon DEF NoteHave, Rest
  <2>2. Becomes(p, Record("running", o.choked, o.has, {}, o.bytes, o.length, o.asm))
    BY <1>22, SessionMoves, Zenon DEF o
  <2>. QED  BY <1>9, <2>1, <2>2, Fields
<1>23. CASE CountPeer(p)
  <2>1. UNCHANGED <<total_downloaded, have>>  BY <1>23, Zenon DEF CountPeer, Rest
  <2>2. Becomes(p, Record("handling", o.choked, o.has, o.news, o.bytes, o.length, o.asm))
    BY <1>23, SessionMoves, Zenon DEF o
  <2>. QED  BY <1>9, <2>1, <2>2, Fields
<1>24. CASE DropBlock(p)
  <2>1. UNCHANGED <<total_downloaded, have>>  BY <1>24, Zenon DEF DropBlock, Rest
  <2>2. Becomes(p, Record("running", o.choked, o.has, o.news, o.bytes, 0, o.asm))
    BY <1>24, SessionMoves, Zenon DEF o
  <2>. QED  BY <1>9, <2>1, <2>2, Fields
<1>25. CASE Panic(p)
  <2>1. UNCHANGED <<total_downloaded, have>>  BY <1>25, Zenon DEF Panic, Rest
  <2>2. Becomes(p, Record("panicked", o.choked, o.has, o.news, o.bytes, o.length, Idle))
    BY <1>25, SessionMoves, Zenon DEF o
  <2>. QED  BY <1>9, <2>1, <2>2, Fields
<1>26. ASSUME NEW i \in Pieces, Claim(p, i) PROVE WireInv'
  <2>1. UNCHANGED <<total_downloaded, have>>  BY <1>26, Zenon DEF Claim, Rest
  <2>2. Becomes(p, Record(o.pc, o.choked, o.has, o.news, o.bytes, o.length, Assembler(i)))
    BY <1>26, SessionMoves, Zenon DEF o
  <2>3. s.length = o.length /\ s.asm = Assembler(i)
    <3>. HIDE DEF Assembler
    <3>. QED  BY <1>7, <2>2, Fields
  <2>4. gathered(Assembler(i)) = 0
    <3>1. Assembler(i).right \cap NonZero = {}  BY DEF Assembler
    <3>. QED  BY <3>1, FS_EmptySet DEF gathered
  <2>. QED  BY <1>5, <1>8, <2>1, <2>3, <2>4
<1>27. ASSUME NEW n \in BlockLengths, CountTotal(p, n) PROVE WireInv'
  <2>1. have' = have /\ total_downloaded' = total_downloaded + n /\ o.pc = "running"
    BY <1>27 DEF CountTotal, At, o
  <2>2. Becomes(p, Record("counted", o.choked, o.has, o.news, o.bytes + n, n, o.asm))
    BY <1>27, SessionMoves, Zenon DEF o
  <2>3. s.length = n /\ s.asm = o.asm  BY <1>7, <2>2, Fields
  <2>4. o.length = 0 /\ n \in Nat  BY <1>1, <2>1, LengthsTyped DEF Coherent
  <2>5. credit(s) = credit(o) + n  BY <1>5, <2>3, <2>4
  <2>6. total_downloaded + content(have') + credit(s) <=
            total_downloaded' + content(have) + credit(o)
    BY <1>3, <1>4, <1>5, <2>1, <2>4, <2>5
  <2>. QED  BY <1>2, <1>3, <2>6, WireStep DEF o
<1>28. ASSUME NEW b \in Blocks, NEW W, Fits(p, b, W)
       PROVE  \E i : BlockFor(o.asm, b, o.length, W, i)
  <2>1. o.asm # Idle /\ \E i \in o.asm.piece : W \subseteq Span(i, b, o.length)
    BY <1>28, Zenon DEF Fits, o
  <2>2. o.asm \in Assemblers /\ o.length \in Nat  BY <1>1 DEF Sessions
  <2>. QED  BY <2>1, <2>2 DEF BlockFor
<1>29. ASSUME NEW b \in Blocks, NEW W, AddBlock(p, b, W) PROVE WireInv'
  <2>. DEFINE a == WithBlock(o.asm, b, o.length, W)
  <2>1. Fits(p, b, W) /\ UNCHANGED <<total_downloaded, have>>  BY <1>29, Zenon DEF AddBlock, Rest
  <2>2. Becomes(p, Record("running", o.choked, o.has, o.news, o.bytes, 0, a))
    BY <1>29, SessionMoves, Zenon DEF o
  <2>3. gathered(a) \in Nat /\ gathered(a) <= gathered(o.asm) + o.length
    BY <1>28, <2>1, BlockGathers
  <2>. HIDE DEF a
  <2>4. s.length = 0 /\ s.asm = a  BY <1>7, <2>2, Fields
  <2>. QED  BY <1>5, <1>8, <2>1, <2>3, <2>4
\* The piece verified has the bytes its session gathered.
<1>30. ASSUME NEW b \in Blocks, NEW W, FinishPiece(p, b, W) PROVE WireInv'
  <2>. DEFINE a == WithBlock(o.asm, b, o.length, W)
              T == {i \in a.piece : Bytes(i) \subseteq a.right}
  <2>1. Fits(p, b, W) /\ total_downloaded' = total_downloaded /\ have' = have \cup T
    BY <1>30, Zenon DEF FinishPiece, o
  <2>2. Becomes(p, Record("running", o.choked, o.has, o.news, o.bytes, 0, Idle))
    BY <1>30, SessionMoves, Zenon DEF o
  <2>3. credit(s) = 0
    <3>. HIDE DEF Idle
    <3>1. s.length = 0 /\ s.asm = Idle  BY <1>7, <2>2, Fields
    <3>. QED  BY <1>5, <1>6, <3>1
  <2>4. PICK i : BlockFor(o.asm, b, o.length, W, i)  BY <1>28, <2>1
  <2>5. gathered(a) \in Nat /\ gathered(a) <= credit(o)  BY <1>5, <2>4, BlockGathers
  <2>6. a.piece = {i}  BY <2>4, WithBlockTyped
  <2>. HIDE DEF a
  <2>7. Solid(have') \subseteq Solid(have) \cup (a.right \cap NonZero)
    <3>1. \A c \in NonZero : c[1] = i => c \in Bytes(i)  BY StatsAssumption DEF Bytes
    <3>2. ASSUME NEW c \in Solid(have') PROVE c \in Solid(have) \/ c \in a.right
      <4>1. c \in NonZero /\ (c[1] \in have \/ c[1] \in T)  BY <2>1, <3>2 DEF Solid
      <4>2. CASE c[1] \in T
        <5>1. c[1] = i /\ Bytes(i) \subseteq a.right  BY <2>6, <4>2
        <5>. QED  BY <3>1, <4>1, <5>1
      <4>. QED  BY <4>1, <4>2 DEF Solid
    <3>3. Solid(have') \subseteq NonZero  BY DEF Solid
    <3>. QED  BY <3>2, <3>3
  <2>8. content(have') <= content(have) + gathered(a)
    BY <2>7, NonZeroFinite, UnionBound DEF gathered
  <2>9. total_downloaded + content(have') + credit(s) <=
            total_downloaded' + content(have) + credit(o)
    BY <1>3, <1>4, <1>5, <2>1, <2>3, <2>5, <2>8
  <2>. QED  BY <1>2, <1>3, <2>9, WireStep DEF o
<1>. QED
  BY <1>10, <1>11, <1>12, <1>13, <1>14, <1>15, <1>16, <1>17, <1>18, <1>19, <1>20, <1>21,
     <1>22, <1>23, <1>24, <1>25, <1>26, <1>27, <1>29, <1>30, StepKinds

Covered == reading.at \in {"count", "peers"} => reading.wire_bytes >= reading.content

\* A snapshot never shows more bytes that are not zero than came over the wire, for any
\* peers, pieces and content, and any lengths of what peers deliver, true or not.
THEOREM WireCovers == StatsSpec => []WireCoversContent
<1>1. StatsInit => WireInv
  <2>. SUFFICES ASSUME StatsInit PROVE WireInv
    OBVIOUS
  <2>1. \A q \in Peers : Credits[q] = 0
    <3>1. gathered(NewSession.asm) = 0 /\ NewSession.length = 0
      <4>1. NewSession.asm.right \cap NonZero = {}  BY DEF NewSession, Idle
      <4>. QED  BY <4>1, FS_EmptySet DEF gathered, NewSession
    <3>2. \A q \in Peers : session[q] = NewSession  BY DEF StatsInit
    <3>. HIDE DEF NewSession
    <3>. QED  BY <3>1, <3>2 DEF Credits, credit
  <2>2. Credits \in [Peers -> Nat]  BY <2>1 DEF Credits
  <2>3. PICK it : Sums(it, Peers, Credits)  BY <2>2, StatsAssumption, SumExists
  <2>4. it[Peers] = 0  BY <2>1, <2>3, StatsAssumption, SumOfZeros
  <2>5. content(have) = 0 /\ total_downloaded = 0
    <3>1. Solid({}) = {}  BY DEF Solid
    <3>2. content({}) = 0  BY <3>1, NonZeroFinite, FS_EmptySet
    <3>. QED  BY <3>2 DEF StatsInit
  <2>. QED  BY <2>3, <2>4, <2>5 DEF WireInv
<1>2. StatsTypeInv /\ WireInv /\ [StatsNext]_statsVars => WireInv'
  <2>1. ASSUME WireInv, UNCHANGED <<total_downloaded, session, have>> PROVE WireInv'
    BY <2>1 DEF WireInv, Credits, credit, gathered, content
  <2>. QED  BY <2>1, SessionWire, SnapshotTyped DEF StatsNext
<1>3. WireInv /\ StatsTypeInv => total_downloaded >= content(have)
  <2>. SUFFICES ASSUME WireInv, StatsTypeInv PROVE total_downloaded >= content(have)
    OBVIOUS
  <2>1. PICK it : Sums(it, Peers, Credits) /\ total_downloaded >= content(have) + it[Peers]
    BY DEF WireInv
  <2>2. Credits \in [Peers -> Nat]  BY CreditsTyped DEF Credits, StatsTypeInv
  <2>3. it \in [SUBSET Peers -> Nat]  BY <2>1, <2>2, StatsAssumption, SumType
  <2>4. it[Peers] \in Nat /\ content(have) \in Nat /\ total_downloaded \in Nat
    BY <2>3, NonZeroFinite DEF StatsTypeInv
  <2>. QED  BY <2>1, <2>4
<1>4. StatsInit => Covered /\ WireCoversContent
  BY DEF StatsInit, NoSnapshot, Covered, WireCoversContent
<1>5. ASSUME StatsTypeInv, SnapshotInv, WireInv, Covered, WireCoversContent, [StatsNext]_statsVars
      PROVE  Covered' /\ WireCoversContent'
  <2>1. CASE UNCHANGED <<reading, shown>>
    BY <1>5, <2>1 DEF Covered, WireCoversContent
  <2>2. CASE snapshot
    <3>1. total_downloaded >= content(have)  BY <1>3, <1>5
    <3>. QED
      BY <1>5, <2>2, <3>1, ReadFields DEF Covered, WireCoversContent, SnapshotInv, ReadingInv, locked
  <2>. QED  BY <1>5, <2>1, <2>2, SessionStepTyped DEF StatsNext, statsVars
<1>. QED
  BY <1>1, <1>2, <1>4, <1>5, SnapshotInvInit, SnapshotInvInductive, StatsTypeInvInit,
     StatsTypeInvInductive, PTL DEF StatsSpec
=============================================================================
