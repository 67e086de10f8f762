--------------------------- MODULE StorageProofs ---------------------------
(***************************************************************************)
(* The files on disk, for every torrent, every width of the integers and   *)
(* every order in which the pieces arrive: an accepted torrent is tiled by *)
(* its pieces, a piece by its blocks and by the files it lies in, and what *)
(* is written lands where the torrent has it.                              *)
(***************************************************************************)
EXTENDS Storage, FoldTheorems

(***************************************************************************)
(* Sums over a sequence of lengths, plain and modulo U64.                  *)
(***************************************************************************)
plus(l) == [p \in Nat \X DOMAIN l |-> p[1] + l[p[2]]]
plus_mod(l) == [p \in Nat \X DOMAIN l |-> (p[1] + l[p[2]]) % U64]

\* Folding a sequence of naturals with addition passes through its partial sums.
LEMMA PlainSum ==
    ASSUME NEW n \in Nat, NEW l \in [1 .. n -> Nat]
    PROVE  \E r : RunTo(FoldLeft(+, 0, l), r, n, Nat, 0, plus(l))
<1>. DEFINE Sum(i) == i = [s \in SUBSET (1 .. n) |->
                            IF s = {} THEN 0 ELSE i[s \ {Max(s)}] + l[Max(s)]]
            it == CHOOSE i : Sum(i)
<1>1. /\ plus(l) \in [Nat \X (1 .. n) -> Nat]
      /\ \A v \in Nat, k \in 1 .. n : plus(l)[<<v, k>>] = v + l[k]
  BY DEF plus
<1>2. ASSUME NEW s \in SUBSET (1 .. n), s # {} PROVE Max(s) \in 1 .. n  BY <1>2, LargestOf
<1>3. \E i : Sum(i)
  <2>1. PICK i \in [SUBSET (1 .. n) -> Nat] : Accumulates(i, n, 0, plus(l))
    BY <1>1, AccumulationExists
  <2>2. ASSUME NEW s \in SUBSET (1 .. n)
        PROVE  i[s] = IF s = {} THEN 0 ELSE i[s \ {Max(s)}] + l[Max(s)]
    <3>1. i[s] = IF s = {} THEN 0 ELSE plus(l)[<<i[s \ {Max(s)}], Max(s)>>]
      BY <2>1 DEF Accumulates
    <3>. QED  BY <1>1, <1>2, <3>1
  <2>3. i = [s \in SUBSET (1 .. n) |-> i[s]]  OBVIOUS
  <2>. QED  BY <2>2, <2>3
<1>4. Sum(it)  BY <1>3
<1>5. FoldLeft(+, 0, l) = it[1 .. n]  BY DEF FoldLeft, MapThenFoldSet
<1>. HIDE DEF it
<1>6. Iterates(it, n, Nat, 0, plus(l))
  <2>1. \A s \in SUBSET (1 .. n) : it[s] = IF s = {} THEN 0 ELSE it[s \ {Max(s)}] + l[Max(s)]
    BY <1>4
  <2>. QED  BY <1>1, <1>2, <2>1 DEF Iterates
<1>7. \E r : RunTo(it[1 .. n], r, n, Nat, 0, plus(l))  BY <1>1, <1>6, PrefixesRun
<1>. QED  BY <1>5, <1>7, Zenon

\* The same for the sum that wraps.
LEMMA WrappingSum ==
    ASSUME NEW n \in Nat, NEW l \in [1 .. n -> Nat]
    PROVE  \E r : RunTo(FoldLeft(LAMBDA s, x : (s + x) % U64, 0, l), r, n, Nat, 0, plus_mod(l))
<1>. DEFINE Sum(i) == i = [s \in SUBSET (1 .. n) |->
                            IF s = {} THEN 0 ELSE (i[s \ {Max(s)}] + l[Max(s)]) % U64]
            it == CHOOSE i : Sum(i)
<1>0. U64 \in Nat \ {0}  BY WidthAssumption DEF U64
<1>1. /\ plus_mod(l) \in [Nat \X (1 .. n) -> Nat]
      /\ \A v \in Nat, k \in 1 .. n : plus_mod(l)[<<v, k>>] = (v + l[k]) % U64
  BY <1>0 DEF plus_mod
<1>2. ASSUME NEW s \in SUBSET (1 .. n), s # {} PROVE Max(s) \in 1 .. n  BY <1>2, LargestOf
<1>3. \E i : Sum(i)
  <2>1. PICK i \in [SUBSET (1 .. n) -> Nat] : Accumulates(i, n, 0, plus_mod(l))
    BY <1>1, AccumulationExists
  <2>2. ASSUME NEW s \in SUBSET (1 .. n)
        PROVE  i[s] = IF s = {} THEN 0 ELSE (i[s \ {Max(s)}] + l[Max(s)]) % U64
    <3>1. i[s] = IF s = {} THEN 0 ELSE plus_mod(l)[<<i[s \ {Max(s)}], Max(s)>>]
      BY <2>1 DEF Accumulates
    <3>. QED  BY <1>1, <1>2, <3>1
  <2>3. i = [s \in SUBSET (1 .. n) |-> i[s]]  OBVIOUS
  <2>. QED  BY <2>2, <2>3
<1>4. Sum(it)  BY <1>3
<1>5. FoldLeft(LAMBDA s, x : (s + x) % U64, 0, l) = it[1 .. n]
  BY DEF FoldLeft, MapThenFoldSet
<1>. HIDE DEF it
<1>6. Iterates(it, n, Nat, 0, plus_mod(l))
  <2>1. \A s \in SUBSET (1 .. n) : it[s] = IF s = {} THEN 0 ELSE (it[s \ {Max(s)}] + l[Max(s)]) % U64
    BY <1>4
  <2>. QED  BY <1>1, <1>2, <2>1 DEF Iterates
<1>7. \E r : RunTo(it[1 .. n], r, n, Nat, 0, plus_mod(l))  BY <1>1, <1>6, PrefixesRun
<1>. QED  BY <1>5, <1>7, Zenon

(***************************************************************************)
(* The map of the files.                                                   *)
(***************************************************************************)
\* The files of a torrent are a sequence, and their lengths numbers.
LEMMA FilesTyped ==
    ASSUME NEW inf \in Infos
    PROVE  /\ Len(inf.files) \in Nat /\ DOMAIN inf.files = 1 .. Len(inf.files)
           /\ inf.piece_length \in Nat /\ inf.pieces_len \in Nat
           /\ lengths(inf) \in [1 .. Len(inf.files) -> Nat]
           /\ \A f \in DOMAIN inf.files :
                inf.files[f].length \in Nat /\ lengths(inf)[f] = inf.files[f].length
<1>. DEFINE F == [path : Seq(STRING), length : Nat]
<1>1. inf.files \in Seq(F) /\ inf.piece_length \in Nat /\ inf.pieces_len \in Nat
  BY InfosAssumption
<1>. HIDE DEF F
<1>2. /\ Len(inf.files) \in Nat /\ DOMAIN inf.files = 1 .. Len(inf.files)
      /\ \A f \in DOMAIN inf.files : inf.files[f] \in F
  BY <1>1
<1>3. \A f \in DOMAIN inf.files : inf.files[f].length \in Nat  BY <1>2 DEF F
<1>. QED  BY <1>1, <1>2, <1>3 DEF lengths

\* build_file_map: a file starts where the one before it ends.
LEMMA Offsets ==
    ASSUME NEW inf \in Infos
    PROVE  /\ file_offset(inf, 1) = 0
           /\ \A f \in 1 .. Len(inf.files) + 1 : file_offset(inf, f) \in Nat
           /\ \A f \in DOMAIN inf.files :
                file_offset(inf, f + 1) = file_offset(inf, f) + inf.files[f].length
<1>. DEFINE n == Len(inf.files)
            l == lengths(inf)
<1>1. n \in Nat /\ DOMAIN inf.files = 1 .. n /\ l \in [1 .. n -> Nat]
      /\ \A f \in DOMAIN inf.files : l[f] = inf.files[f].length
  BY FilesTyped
<1>. HIDE DEF n, l
<1>2. PICK R : RunTo(FoldLeft(+, 0, l), R, n, Nat, 0, plus(l))  BY <1>1, PlainSum
<1>3. R \in [0 .. n -> Nat] /\ R[0] = 0 /\ \A k \in 1 .. n : R[k] = R[k - 1] + l[k]
  <2>1. R \in [0 .. n -> Nat] /\ R[0] = 0 /\ \A k \in 1 .. n : R[k] = plus(l)[<<R[k - 1], k>>]
    BY <1>2, Zenon DEF RunTo, Run, Steps
  <2>2. \A k \in 1 .. n : R[k - 1] \in Nat
    <3>1. \A k \in 1 .. n : k - 1 \in 0 .. n  BY <1>1
    <3>. QED  BY <2>1, <3>1
  <2>. QED  BY <1>1, <2>1, <2>2 DEF plus
<1>4. ASSUME NEW f \in 1 .. n + 1 PROVE file_offset(inf, f) = R[f - 1]
  <2>. DEFINE m == f - 1
              sl == SubSeq(l, 1, m)
  <2>1. m \in 0 .. n /\ m \in Nat  BY <1>1
  <2>2. l \in Seq(Nat) /\ Len(l) = n  BY <1>1
  <2>3. sl \in [1 .. m -> Nat] /\ \A k \in 1 .. m : sl[k] = l[k]
    <3>1. \A k \in 1 .. m : l[k] \in Nat  BY <1>1, <2>1
    <3>2. sl \in Seq(Nat) /\ Len(sl) = m /\ \A k \in 1 .. m : sl[k] = l[k]
      BY <2>1, <2>2
    <3>3. sl \in [1 .. m -> Nat]  BY <3>2, LenProperties
    <3>. QED  BY <3>2, <3>3
  <2>4. file_offset(inf, f) = FoldLeft(+, 0, sl)  BY DEF file_offset, l
  <2>. HIDE DEF m, sl
  <2>5. PICK r : RunTo(FoldLeft(+, 0, sl), r, m, Nat, 0, plus(sl))  BY <2>1, <2>3, PlainSum
  <2>6. r \in [0 .. m -> Nat] /\ r[0] = 0 /\ \A k \in 1 .. m : r[k] = plus(sl)[<<r[k - 1], k>>]
    BY <2>5, Zenon DEF RunTo, Run, Steps
  <2>7. \A k \in 1 .. m : r[k - 1] \in Nat /\ R[k - 1] \in Nat /\ k \in 1 .. n
    <3>1. \A k \in 1 .. m : k - 1 \in 0 .. m /\ k - 1 \in 0 .. n /\ k \in 1 .. n  BY <1>1, <2>1
    <3>. QED  BY <1>3, <2>6, <3>1
  <2>8. \A k \in 1 .. m : r[k] = r[k - 1] + l[k]
    BY <2>3, <2>6, <2>7 DEF plus
  <2>9. ASSUME NEW k \in 1 .. m
        PROVE  r[k] = plus(l)[<<r[k - 1], k>>] /\ R[k] = plus(l)[<<R[k - 1], k>>]
    <3>1. \A v \in Nat : plus(l)[<<v, k>>] = v + l[k]  BY <1>1, <2>7 DEF plus
    <3>. QED  BY <1>3, <2>7, <2>8, <3>1
  <2>10. \A k \in 0 .. m : r[k] = R[k]
    <3>1. Steps(r, m, plus(l)) /\ Steps(R, m, plus(l))  BY <2>9 DEF Steps
    <3>2. r[0] = R[0] /\ m \in Nat  BY <1>3, <2>1, <2>6
    <3>. QED  BY <3>1, <3>2, RunsAgree
  <2>11. r[m] = R[m]  BY <2>1, <2>10
  <2>12. FoldLeft(+, 0, sl) = r[m]  BY <2>5, Zenon DEF RunTo
  <2>13. file_offset(inf, f) = R[m]  BY <2>4, <2>11, <2>12, Zenon
  <2>. QED  BY <2>13 DEF m
<1>5. file_offset(inf, 1) = 0  BY <1>1, <1>3, <1>4
<1>6. \A f \in 1 .. n + 1 : f - 1 \in 0 .. n  BY <1>1
<1>7. \A f \in 1 .. n : f \in 1 .. n + 1 /\ f + 1 \in 1 .. n + 1 /\ (f + 1) - 1 = f  BY <1>1
<1>8. \A f \in 1 .. n + 1 : file_offset(inf, f) \in Nat  BY <1>3, <1>4, <1>6
<1>9. ASSUME NEW f \in 1 .. n
      PROVE  file_offset(inf, f + 1) = file_offset(inf, f) + inf.files[f].length
  <2>1. file_offset(inf, f + 1) = R[(f + 1) - 1] /\ file_offset(inf, f) = R[f - 1]
    BY <1>4, <1>7
  <2>. QED  BY <1>1, <1>3, <1>7, <2>1
<1>. QED  BY <1>1, <1>5, <1>8, <1>9 DEF n

\* Offsets grow.
LEMMA OffsetsGrow ==
    ASSUME NEW inf \in Infos, NEW f \in 1 .. Len(inf.files) + 1, NEW g \in f .. Len(inf.files) + 1
    PROVE  file_offset(inf, f) <= file_offset(inf, g)
<1>. DEFINE n == Len(inf.files)
            off(h) == file_offset(inf, h)
            T == {k \in f .. n + 1 : off(k) < off(f)}
<1>1. n \in Nat /\ DOMAIN inf.files = 1 .. n /\ \A h \in 1 .. n : inf.files[h].length \in Nat
  BY FilesTyped
<1>2. \A h \in 1 .. n + 1 : off(h) \in Nat  BY Offsets
<1>3. \A h \in 1 .. n : off(h + 1) = off(h) + inf.files[h].length  BY <1>1, Offsets
<1>. HIDE DEF n, off
<1>4. T = {}
  <2>. SUFFICES ASSUME T # {} PROVE FALSE
    OBVIOUS
  <2>0. f \in 1 .. n + 1 /\ g \in f .. n + 1  BY DEF n
  <2>1. PICK k \in T : \A j \in Nat : j < k => j \notin T
    <3>1. T \in SUBSET Nat  BY <1>1, <2>0
    <3>. HIDE DEF T
    <3>. QED  BY <3>1, LeastNat
  <2>2. k # f  BY <1>2, <2>0
  <2>3. k - 1 \in f .. n + 1 /\ k - 1 \in 1 .. n /\ k - 1 < k /\ k - 1 \in Nat  BY <1>1, <2>0, <2>2
  <2>4. ~ (off(k - 1) < off(f))  BY <2>1, <2>3
  <2>5. off((k - 1) + 1) = off(k - 1) + inf.files[k - 1].length  BY <1>3, <2>3
  <2>6. (k - 1) + 1 = k  BY <1>1, <2>0
  <2>7. k - 1 \in 1 .. n + 1 /\ k \in 1 .. n + 1  BY <1>1, <2>0, <2>3
  <2>8. off(k - 1) \in Nat /\ off(k) \in Nat /\ off(f) \in Nat /\ inf.files[k - 1].length \in Nat
    BY <1>1, <1>2, <2>0, <2>3, <2>7
  <2>9. off(k) < off(f)  OBVIOUS
  <2>10. off(k) = off(k - 1) + inf.files[k - 1].length  BY <2>5, <2>6
  <2>. QED  BY <2>4, <2>8, <2>9, <2>10
<1>5. f \in 1 .. n + 1 /\ g \in f .. n + 1 /\ g \in 1 .. n + 1  BY <1>1 DEF n
<1>6. ~ (off(g) < off(f))  BY <1>4, <1>5
<1>7. off(f) <= off(g)  BY <1>2, <1>5, <1>6
<1>. QED  BY <1>7 DEF off

\* When the checked sum of the lengths is accepted, the wrapping one is the same.
LEMMA TotalIsEnd ==
    ASSUME NEW inf \in Infos, file_offset(inf, Len(inf.files) + 1) < U64
    PROVE  total_length(inf) = file_offset(inf, Len(inf.files) + 1)
<1>. DEFINE n == Len(inf.files)
            l == lengths(inf)
            off(h) == file_offset(inf, h)
<1>1. n \in Nat /\ DOMAIN inf.files = 1 .. n /\ l \in [1 .. n -> Nat]
      /\ \A f \in 1 .. n : l[f] = inf.files[f].length
  BY FilesTyped
<1>2. \A h \in 1 .. n + 1 : off(h) \in Nat /\ off(h) <= off(n + 1)
  <2>1. ASSUME NEW h \in 1 .. n + 1 PROVE n + 1 \in h .. Len(inf.files) + 1  BY <1>1
  <2>. QED  BY <2>1, Offsets, OffsetsGrow
<1>3. off(1) = 0 /\ \A h \in 1 .. n : off(h + 1) = off(h) + l[h]  BY <1>1, Offsets
<1>0. U64 \in Nat \ {0}  BY WidthAssumption DEF U64
<1>4. off(n + 1) < U64  OBVIOUS
<1>5. total_length(inf) = FoldLeft(LAMBDA s, x : (s + x) % U64, 0, l)  BY DEF total_length
<1>. HIDE DEF n, l, off
<1>6. PICK q : RunTo(FoldLeft(LAMBDA s, x : (s + x) % U64, 0, l), q, n, Nat, 0, plus_mod(l))
  BY <1>1, WrappingSum
<1>7. q \in [0 .. n -> Nat] /\ q[0] = 0 /\ \A k \in 1 .. n : q[k] = plus_mod(l)[<<q[k - 1], k>>]
  BY <1>6, Zenon DEF RunTo, Run, Steps
<1>8. FoldLeft(LAMBDA s, x : (s + x) % U64, 0, l) = q[n]  BY <1>6, Zenon DEF RunTo
<1>. DEFINE T == {k \in 0 .. n : q[k] # off(k + 1)}
<1>9. T = {}
  <2>. SUFFICES ASSUME T # {} PROVE FALSE
    OBVIOUS
  <2>1. PICK k \in T : \A j \in Nat : j < k => j \notin T
    <3>1. T \in SUBSET Nat  BY <1>1
    <3>. HIDE DEF T
    <3>. QED  BY <3>1, LeastNat
  <2>2. k # 0  BY <1>3, <1>7
  <2>3. k - 1 \in 0 .. n /\ k \in 1 .. n /\ k - 1 < k /\ k - 1 \in Nat /\ (k - 1) + 1 = k /\ k + 1 \in 1 .. n + 1
    BY <1>1, <2>2
  <2>4. q[k - 1] = off(k)  BY <2>1, <2>3
  <2>5. q[k] = (off(k) + l[k]) % U64
    <3>1. q[k - 1] \in Nat  BY <1>7, <2>3
    <3>. QED  BY <1>1, <1>7, <2>3, <2>4, <3>1 DEF plus_mod
  <2>6. off(k + 1) = off(k) + l[k]  BY <1>3, <2>3
  <2>7. off(k + 1) \in Nat /\ off(k + 1) < U64
    <3>1. n + 1 \in 1 .. n + 1  BY <1>1
    <3>. QED  BY <1>0, <1>2, <1>4, <2>3, <3>1
  <2>8. q[k] = off(k + 1)  BY <1>0, <2>5, <2>6, <2>7
  <2>. QED  BY <2>8
<1>10. q[n] = off(n + 1)  BY <1>1, <1>9
<1>11. total_length(inf) = off(n + 1)  BY <1>5, <1>8, <1>10, Zenon
<1>. QED  BY <1>11 DEF off, n

(***************************************************************************)
(* Pieces and blocks of an accepted torrent.                               *)
(***************************************************************************)
\* Storage::create accepts the torrent.
Accepted(inf) == from_info_ok(inf) /\ build_file_map_ok(inf)

\* The sizes of an accepted torrent, with nothing wrapped.
LEMMA Sizes ==
    ASSUME NEW inf \in Infos, Accepted(inf)
    PROVE  /\ inf.piece_length \in Nat \ {0} /\ inf.piece_length < U32
           /\ num_pieces(inf) \in Nat \ {0} /\ num_pieces(inf) < U32
           /\ last_piece_length(inf) \in 1 .. inf.piece_length
           /\ total_length(inf) \in Nat /\ total_length(inf) < U64
           /\ total_length(inf) =
                (num_pieces(inf) - 1) * inf.piece_length + last_piece_length(inf)
           /\ total_length(inf) = file_offset(inf, Len(inf.files) + 1)
           /\ \A i \in piece_indices(inf) :
                piece_length(inf, i) = IF i = num_pieces(inf) - 1 THEN last_piece_length(inf)
                                                                  ELSE inf.piece_length
<1>. DEFINE pl == inf.piece_length
            N == num_pieces(inf)
            T == total_length(inf)
            last == last_piece_length(inf)
<1>0. U32 \in Nat \ {0, 1} /\ SHA1_LEN \in Nat \ {0}  BY WidthAssumption
<1>1. pl \in Nat \ {0} /\ pl < U32
  BY <1>0 DEF Accepted, from_info_ok
<1>2. N \in Nat \ {0} /\ N < U32
  <2>1. inf.pieces_len \in Nat  BY FilesTyped
  <2>. DEFINE k == inf.pieces_len \div SHA1_LEN
  <2>2. k \in Nat  BY <1>0, <2>1, DivMod
  <2>3. N = k % U32  BY DEF num_pieces
  <2>. HIDE DEF k, N
  <2>4. N \in Nat /\ N < U32  BY <1>0, <2>2, <2>3
  <2>5. N # 0  BY DEF Accepted, from_info_ok, N
  <2>. QED  BY <2>4, <2>5
<1>3. Len(inf.files) \in Nat  BY FilesTyped
<1>4. file_offset(inf, Len(inf.files) + 1) < U64  BY DEF Accepted, build_file_map_ok
<1>5. T = file_offset(inf, Len(inf.files) + 1)  BY <1>4, TotalIsEnd
<1>6. T \in Nat /\ T < U64
  <2>1. Len(inf.files) + 1 \in 1 .. Len(inf.files) + 1  BY <1>3
  <2>2. file_offset(inf, Len(inf.files) + 1) \in Nat  BY <2>1, Offsets
  <2>. QED  BY <1>4, <1>5, <2>2
<1>7. last \in 1 .. pl  BY DEF Accepted, from_info_ok
<1>8. last = T - (N - 1) * pl  BY DEF last_piece_length
<1>9. T = (N - 1) * pl + last
  <2>. HIDE DEF T, N, pl, last
  <2>1. (N - 1) * pl \in Int  BY <1>1, <1>2
  <2>. QED  BY <1>6, <1>8, <2>1
<1>10. ASSUME NEW i \in piece_indices(inf)
       PROVE  piece_length(inf, i) = IF i = N - 1 THEN last ELSE pl
  <2>1. i \in Nat /\ i <= N - 1  BY <1>2 DEF piece_indices
  <2>2. (i + 1) % U32 = i + 1
    <3>. HIDE DEF N
    <3>. QED  BY <1>0, <1>2, <2>1
  <2>3. (i + 1) % U32 = N <=> i = N - 1
    <3>. HIDE DEF N
    <3>. QED  BY <1>2, <2>1, <2>2
  <2>. QED  BY <2>3 DEF piece_length
<1>. QED  BY <1>1, <1>2, <1>5, <1>6, <1>7, <1>9, <1>10

\* A piece lies within the torrent, has at least a byte and fits a u32.
LEMMA PieceBounds ==
    ASSUME NEW inf \in Infos, Accepted(inf), NEW i \in piece_indices(inf)
    PROVE  /\ i \in Nat /\ piece_offset(inf, i) \in Nat
           /\ piece_length(inf, i) \in Nat \ {0} /\ piece_length(inf, i) < U32
           /\ piece_offset(inf, i) + piece_length(inf, i) <= total_length(inf)
           /\ i < num_pieces(inf) - 1 =>
                piece_offset(inf, i) + piece_length(inf, i) = piece_offset(inf, i + 1)
           /\ i = num_pieces(inf) - 1 =>
                piece_offset(inf, i) + piece_length(inf, i) = total_length(inf)
<1>. DEFINE pl == inf.piece_length
            N == num_pieces(inf)
            T == total_length(inf)
            last == last_piece_length(inf)
            m == piece_length(inf, i)
<1>1. /\ pl \in Nat \ {0} /\ pl < U32 /\ N \in Nat \ {0} /\ last \in 1 .. pl /\ T \in Nat
      /\ T = (N - 1) * pl + last /\ m = IF i = N - 1 THEN last ELSE pl
  BY Sizes
<1>2. i \in Nat /\ i <= N - 1  BY <1>1 DEF piece_indices
<1>3. piece_offset(inf, i) = i * pl /\ piece_offset(inf, i + 1) = (i + 1) * pl
  BY DEF piece_offset
<1>. HIDE DEF pl, N, T, last, m
<1>0. U32 \in Nat \ {0, 1}  BY WidthAssumption
<1>4. m \in Nat \ {0} /\ m < U32  BY <1>0, <1>1, <1>2
<1>5. i * pl \in Nat /\ (i + 1) * pl = i * pl + pl  BY <1>1, <1>2
<1>6. i = N - 1 => i * pl + m = T  BY <1>1, <1>2
<1>7. i < N - 1 => i * pl + m = (i + 1) * pl  BY <1>1, <1>2, <1>5
<1>8. i < N - 1 => (i + 1) * pl <= (N - 1) * pl  BY <1>1, <1>2
<1>9. (N - 1) * pl \in Nat /\ (N - 1) * pl <= T  BY <1>1
<1>10. i * pl + m <= T
  <2>1. CASE i = N - 1  BY <1>1, <1>6, <2>1
  <2>2. CASE i < N - 1  BY <1>1, <1>4, <1>5, <1>7, <1>8, <1>9, <2>2
  <2>. QED  BY <1>1, <1>2, <2>1, <2>2
<1>11. piece_offset(inf, i) \in Nat  BY <1>3, <1>5
<1>. QED  BY <1>2, <1>3, <1>4, <1>6, <1>7, <1>10, <1>11 DEF pl, N, T, last, m

\* The pieces of an accepted torrent tile it.
LEMMA AcceptedPiecesTile ==
    ASSUME NEW inf \in Infos, Accepted(inf)
    PROVE  PiecesTile(inf)
<1>. DEFINE N == num_pieces(inf)
<1>1. N \in Nat \ {0}  BY Sizes
<1>2. piece_offset(inf, 0) = 0  BY FilesTyped DEF piece_offset
<1>3. \A k \in 0 .. N - 1 : piece_length(inf, k) > 0  BY PieceBounds DEF piece_indices
<1>4. \A k \in 0 .. N - 2 :
          piece_offset(inf, k) + piece_length(inf, k) = piece_offset(inf, k + 1)
  <2>1. \A k \in 0 .. N - 2 : k \in piece_indices(inf) /\ k < N - 1  BY <1>1 DEF piece_indices
  <2>. QED  BY <2>1, PieceBounds
<1>5. piece_offset(inf, N - 1) + piece_length(inf, N - 1) = total_length(inf)
  <2>1. N - 1 \in piece_indices(inf)  BY <1>1 DEF piece_indices
  <2>. QED  BY <2>1, PieceBounds
<1>. QED  BY <1>1, <1>2, <1>3, <1>4, <1>5 DEF PiecesTile, Tiles

\* div_ceil(n, d) blocks of d bytes hold n bytes, and fewer do not.
LEMMA CeilHolds ==
    ASSUME NEW n \in Nat \ {0}, NEW d \in Nat \ {0}
    PROVE  /\ div_ceil(n, d) \in Nat \ {0}
           /\ n <= div_ceil(n, d) * d /\ (div_ceil(n, d) - 1) * d < n
<1>. DEFINE p == (n + d - 1) \div d
<1>1. n + d - 1 \in Nat  OBVIOUS
<1>2. p \in Nat /\ p * d <= n + d - 1 /\ n + d - 1 < p * d + d  BY <1>1, DivMod
<1>. HIDE DEF p
<1>3. p # 0  BY <1>2
<1>4. p * d \in Nat /\ (p - 1) * d = p * d - d  BY <1>2
<1>5. n <= p * d /\ (p - 1) * d < n  BY <1>2, <1>4
<1>. QED  BY <1>2, <1>3, <1>5 DEF p, div_ceil

\* The blocks of a piece that fits a u32.
LEMMA BlocksTilePiece ==
    ASSUME NEW inf \in Infos, Accepted(inf), NEW i \in piece_indices(inf)
    PROVE  Tiles(num_blocks(inf, i), block_begin,
                 LAMBDA b : block_length(inf, i, b), piece_length(inf, i))
<1>. DEFINE m == piece_length(inf, i)
            B == BLOCK_SIZE
            n == num_blocks(inf, i)
<1>0. U32 \in Nat \ {0, 1} /\ B \in Nat \ {0}  BY WidthAssumption
<1>1. m \in Nat \ {0} /\ m < U32  BY PieceBounds
<1>2. n \in Nat \ {0} /\ m <= n * B /\ (n - 1) * B < m  BY <1>0, <1>1, CeilHolds DEF num_blocks
<1>3. ASSUME NEW b \in 0 .. n - 1
      PROVE  /\ b * B \in Nat /\ b * B < m /\ block_begin(b) = b * B
             /\ block_length(inf, i, b) = IF B < m - b * B THEN B ELSE m - b * B
  <2>. HIDE DEF n, B
  <2>1. b \in Nat /\ b <= n - 1  BY <1>2
  <2>2. b * B <= (n - 1) * B  BY <1>0, <1>2, <2>1
  <2>3. b * B \in Nat /\ (n - 1) * B \in Nat  BY <1>0, <1>2, <2>1
  <2>4. b * B < m
    <3>. HIDE DEF m
    <3>. QED  BY <1>1, <1>2, <2>2, <2>3
  <2>5. (b * B) % U32 = b * B
    <3>. HIDE DEF m
    <3>. QED  BY <1>0, <1>1, <2>3, <2>4
  <2>6. block_begin(b) = b * B  BY <2>5 DEF block_begin, B
  <2>. QED  BY <2>3, <2>4, <2>6 DEF block_length, B
<1>4. ASSUME NEW b \in 0 .. n - 2
      PROVE  block_begin(b) + block_length(inf, i, b) = block_begin(b + 1)
  <2>1. b \in 0 .. n - 1 /\ b + 1 \in 0 .. n - 1 /\ b \in Nat  BY <1>2
  <2>2. (b + 1) * B < m /\ (b + 1) * B = b * B + B
    <3>1. (b + 1) * B < m  BY <1>3, <2>1
    <3>. HIDE DEF B, m, n
    <3>. QED  BY <1>0, <2>1, <3>1
  <2>3. b * B \in Nat  BY <1>3, <2>1
  <2>4. B < m - b * B
    <3>. HIDE DEF B, m, n
    <3>. QED  BY <1>0, <1>1, <2>2, <2>3
  <2>. QED  BY <1>3, <2>1, <2>2, <2>4
<1>5. block_begin(n - 1) + block_length(inf, i, n - 1) = m
  <2>1. n - 1 \in 0 .. n - 1  BY <1>2
  <2>. DEFINE c == (n - 1) * B
  <2>2. c \in Nat /\ block_begin(n - 1) = c
        /\ block_length(inf, i, n - 1) = IF B < m - c THEN B ELSE m - c
    BY <1>3, <2>1
  <2>3. c + B >= m
    <3>. HIDE DEF B, m, n
    <3>1. c + B = n * B  BY <1>0, <1>2
    <3>. QED  BY <1>2, <3>1
  <2>. HIDE DEF B, m, n, c
  <2>. QED  BY <1>0, <1>1, <2>2, <2>3
<1>6. block_begin(0) = 0
  <2>1. 0 \in 0 .. n - 1  BY <1>2
  <2>2. block_begin(0) = 0 * B  BY <1>3, <2>1
  <2>. QED  BY <1>0, <2>2
<1>7. \A b \in 0 .. n - 1 : block_length(inf, i, b) > 0
  <2>. SUFFICES ASSUME NEW b \in 0 .. n - 1 PROVE block_length(inf, i, b) > 0
    OBVIOUS
  <2>. DEFINE c == b * B
  <2>1. c \in Nat /\ c < m /\ block_length(inf, i, b) = IF B < m - c THEN B ELSE m - c  BY <1>3
  <2>. HIDE DEF B, m, c
  <2>. QED  BY <1>0, <1>1, <2>1
<1>. QED  BY <1>2, <1>4, <1>5, <1>6, <1>7 DEF Tiles

(***************************************************************************)
(* The parts of a piece.  The check at the end of write_piece is about     *)
(* their sum: what has been counted is at any moment the part of the piece *)
(* that lies before the first file left to write.                          *)
(***************************************************************************)
Phases == {"create", "refused", "uncreated", "ready", "writing", "failed", "finished"}
Sized == stage \notin {"create", "refused", "uncreated"}
NumFiles == Len(info.files)

\* The part of piece i that falls into file f.
Part(i, f) == overlap(piece_offset(info, i), piece_length(info, i), f)
piece_end(i) == piece_offset(info, i) + piece_length(info, i)

\* A place of the torrent, moved into piece i if it lies outside.
clamp(i, x) == MinOf(MaxOf(x, piece_offset(info, i)), piece_end(i))

\* The writes of piece i into file n and those after it.
PartsFrom(i, n) == {op \in {Part(i, f) : f \in n .. NumFiles} : op.len > 0}

\* When a piece is being written, what has been counted is what lies before the
\* first file left.
CoverInv ==
    stage = "writing" =>
        /\ piece \in todo
        /\ \E n \in 1 .. NumFiles + 1 :
               /\ ops = PartsFrom(piece, n)
               /\ covered = clamp(piece, file_offset(info, n)) - piece_offset(info, piece)

CreatedInv ==
    /\ info \in Infos
    /\ stage \in Phases
    /\ Sized => Accepted(info) /\ todo \subseteq piece_indices(info)

\* The part of a piece in a file, with nothing wrapped.
LEMMA PartIs ==
    ASSUME info \in Infos, Accepted(info), NEW i \in piece_indices(info), NEW f \in 1 .. NumFiles
    PROVE  /\ file_offset(info, f) \in Nat /\ file_offset(info, f + 1) \in Nat
           /\ file_offset(info, f + 1) = file_offset(info, f) + info.files[f].length
           /\ Part(i, f).file = f
           /\ Part(i, f).file_offset =
                MaxOf(piece_offset(info, i), file_offset(info, f)) - file_offset(info, f)
           /\ Part(i, f).src_start =
                MaxOf(piece_offset(info, i), file_offset(info, f)) - piece_offset(info, i)
           /\ Part(i, f).len =
                MinOf(piece_end(i), file_offset(info, f + 1))
                    - MaxOf(piece_offset(info, i), file_offset(info, f))
<1>. DEFINE at == file_offset(info, f)
            next == file_offset(info, f + 1)
            po == piece_offset(info, i)
            m == piece_length(info, i)
            end == MinOf((po + m) % U64, (at + lengths(info)[f]) % U64)
<1>0. U64 \in Nat \ {0}  BY WidthAssumption DEF U64
<1>1. NumFiles \in Nat /\ DOMAIN info.files = 1 .. NumFiles /\ lengths(info)[f] = info.files[f].length
  BY FilesTyped DEF NumFiles
<1>2. f \in 1 .. NumFiles + 1 /\ f + 1 \in 1 .. NumFiles + 1 /\ NumFiles + 1 \in f + 1 .. NumFiles + 1
  BY <1>1
<1>3. at \in Nat /\ next \in Nat /\ next = at + info.files[f].length
  BY <1>1, <1>2, Offsets DEF NumFiles
<1>4. next <= file_offset(info, NumFiles + 1)  BY <1>2, OffsetsGrow DEF NumFiles
<1>5. file_offset(info, NumFiles + 1) = total_length(info) /\ total_length(info) \in Nat
      /\ total_length(info) < U64
  BY Sizes DEF NumFiles
<1>6. po \in Nat /\ m \in Nat /\ po + m <= total_length(info)  BY PieceBounds
<1>7. (po + m) % U64 = po + m
  <2>. HIDE DEF po, m
  <2>. QED  BY <1>0, <1>5, <1>6
<1>8. (at + lengths(info)[f]) % U64 = next
  <2>1. at + lengths(info)[f] = next  BY <1>1, <1>3
  <2>. HIDE DEF at, next
  <2>2. next < U64  BY <1>0, <1>3, <1>4, <1>5
  <2>3. next % U64 = next  BY <1>0, <1>3, <2>2
  <2>. QED  BY <2>1, <2>3
<1>9. Part(i, f) = [file |-> f, file_offset |-> MaxOf(po, at) - at,
                    src_start |-> MaxOf(po, at) - po, len |-> end - MaxOf(po, at)]
  BY DEF Part, overlap
<1>10. end = MinOf(piece_end(i), next)  BY <1>7, <1>8 DEF piece_end
<1>. HIDE DEF end
<1>. QED  BY <1>3, <1>9, <1>10

\* A file takes up what it holds of the piece, and nothing if it holds none.
LEMMA PartClamps ==
    ASSUME info \in Infos, Accepted(info), NEW i \in piece_indices(info), NEW f \in 1 .. NumFiles
    PROVE  /\ Part(i, f).len \in Int
           /\ clamp(i, file_offset(info, f)) \in Int
           /\ Part(i, f).len > 0 => clamp(i, file_offset(info, f + 1)) =
                                        clamp(i, file_offset(info, f)) + Part(i, f).len
           /\ ~ (Part(i, f).len > 0) =>
                  clamp(i, file_offset(info, f + 1)) = clamp(i, file_offset(info, f))
<1>. DEFINE at == file_offset(info, f)
            next == file_offset(info, f + 1)
            po == piece_offset(info, i)
            pe == piece_end(i)
            n == Part(i, f).len
<1>1. at \in Nat /\ next \in Nat /\ n = MinOf(pe, next) - MaxOf(po, at)  BY PartIs
<1>2. at <= next
  <2>1. info.files[f].length \in Nat  BY FilesTyped DEF NumFiles
  <2>2. next = at + info.files[f].length  BY PartIs
  <2>. HIDE DEF at, next
  <2>. QED  BY <1>1, <2>1, <2>2
<1>3. po \in Nat /\ pe \in Nat /\ po < pe
  <2>. DEFINE m == piece_length(info, i)
  <2>1. po \in Nat /\ m \in Nat \ {0} /\ pe = po + m  BY PieceBounds DEF piece_end
  <2>. HIDE DEF po, m, pe
  <2>. QED  BY <2>1
<1>4. clamp(i, at) = MinOf(MaxOf(at, po), pe) /\ clamp(i, next) = MinOf(MaxOf(next, po), pe)
  BY DEF clamp
<1>. HIDE DEF at, next, po, pe, n
<1>5. /\ n \in Int /\ clamp(i, at) \in Int
      /\ n > 0 => clamp(i, next) = clamp(i, at) + n
      /\ ~ (n > 0) => clamp(i, next) = clamp(i, at)
  BY <1>1, <1>2, <1>3, <1>4 DEF MinOf, MaxOf
<1>. QED  BY <1>5 DEF at, next, n

\* Files that hold nothing of the piece are passed over.
LEMMA SkipFiles ==
    ASSUME info \in Infos, Accepted(info), NEW i \in piece_indices(info),
           NEW n \in 1 .. NumFiles + 1, NEW m \in n .. NumFiles + 1,
           \A f \in n .. m - 1 : ~ (Part(i, f).len > 0)
    PROVE  clamp(i, file_offset(info, n)) = clamp(i, file_offset(info, m))
<1>. DEFINE at(k) == clamp(i, file_offset(info, k))
            T == {k \in n .. m : at(k) # at(n)}
<1>0. NumFiles \in Nat  BY FilesTyped DEF NumFiles
<1>1. ASSUME NEW k \in n .. m, k # n, at(k - 1) = at(n) PROVE at(k) = at(n)
  <2>1. k - 1 \in 1 .. NumFiles /\ k - 1 \in n .. m - 1 /\ (k - 1) + 1 = k  BY <1>0, <1>1
  <2>2. at((k - 1) + 1) = at(k - 1)  BY <2>1, PartClamps
  <2>3. at(k) = at(k - 1)  BY <2>1, <2>2
  <2>. QED  BY <1>1, <2>3
<1>. HIDE DEF at
<1>2. T = {}
  <2>. SUFFICES ASSUME T # {} PROVE FALSE
    OBVIOUS
  <2>1. PICK k \in T : \A j \in Nat : j < k => j \notin T
    <3>1. T \in SUBSET Nat  BY <1>0
    <3>. HIDE DEF T
    <3>. QED  BY <3>1, LeastNat
  <2>2. k # n  OBVIOUS
  <2>3. k - 1 \in n .. m /\ k - 1 \in Nat /\ k - 1 < k  BY <1>0, <2>2
  <2>4. at(k - 1) = at(n)  BY <2>1, <2>3
  <2>. QED  BY <1>1, <2>1, <2>2, <2>4
<1>3. at(m) = at(n)
  <2>1. m \in n .. m  BY <1>0
  <2>. QED  BY <1>2, <2>1
<1>. QED  BY <1>3 DEF at

\* The next write is the one into the first file left that holds part of the piece.
LEMMA NextPart ==
    ASSUME info \in Infos, Accepted(info), NEW i \in piece_indices(info),
           NEW n \in 1 .. NumFiles + 1, NEW op \in PartsFrom(i, n),
           \A other \in PartsFrom(i, n) : op.file <= other.file
    PROVE  \E m \in n .. NumFiles :
               /\ op = Part(i, m) /\ op.len > 0 /\ op.file = m
               /\ \A f \in n .. m - 1 : ~ (Part(i, f).len > 0)
               /\ PartsFrom(i, n) \ {op} = PartsFrom(i, m + 1)
<1>0. NumFiles \in Nat  BY FilesTyped DEF NumFiles
<1>1. PICK m \in n .. NumFiles : op = Part(i, m) /\ op.len > 0  BY DEF PartsFrom
<1>2. \A f \in n .. NumFiles : f \in 1 .. NumFiles  BY <1>0
<1>3. \A f \in n .. NumFiles : Part(i, f).file = f  BY <1>2, PartIs
<1>4. op.file = m  BY <1>1, <1>3
<1>5. ASSUME NEW f \in n .. m - 1 PROVE ~ (Part(i, f).len > 0)
  <2>1. f \in n .. NumFiles /\ ~ (m <= f)  BY <1>0
  <2>2. Part(i, f).len > 0 => Part(i, f) \in PartsFrom(i, n)  BY <2>1 DEF PartsFrom
  <2>3. Part(i, f).len > 0 => op.file <= Part(i, f).file  BY <2>2
  <2>. QED  BY <1>3, <1>4, <2>1, <2>3
<1>6. PartsFrom(i, n) \ {op} = PartsFrom(i, m + 1)
  <2>1. ASSUME NEW x \in PartsFrom(i, n), x # op PROVE x \in PartsFrom(i, m + 1)
    <3>1. PICK f \in n .. NumFiles : x = Part(i, f) /\ x.len > 0  BY DEF PartsFrom
    <3>2. f # m  BY <1>1, <2>1, <3>1
    <3>3. f \notin n .. m - 1  BY <1>5, <3>1
    <3>4. f \in m + 1 .. NumFiles  BY <1>0, <3>2, <3>3
    <3>. QED  BY <3>1, <3>4 DEF PartsFrom
  <2>2. ASSUME NEW x \in PartsFrom(i, m + 1) PROVE x \in PartsFrom(i, n) /\ x # op
    <3>1. PICK f \in m + 1 .. NumFiles : x = Part(i, f) /\ x.len > 0  BY DEF PartsFrom
    <3>2. f \in n .. NumFiles /\ f # m  BY <1>0
    <3>3. x.file = f  BY <1>3, <3>1, <3>2
    <3>4. x # op  BY <1>4, <3>2, <3>3
    <3>. QED  BY <3>1, <3>2, <3>4 DEF PartsFrom
  <2>. QED  BY <2>1, <2>2
<1>. QED  BY <1>1, <1>4, <1>5, <1>6

(***************************************************************************)
(* The specification keeps count.                                          *)
(***************************************************************************)
\* A step that leaves the torrent and the piece at hand alone leaves their parts.
LEMMA SameParts ==
    ASSUME UNCHANGED info
    PROVE  /\ NumFiles' = NumFiles
           /\ \A i, f : Part(i, f)' = Part(i, f)
           /\ \A i, n : PartsFrom(i, n)' = PartsFrom(i, n)
           /\ \A i, x : clamp(i, x)' = clamp(i, x)
           /\ \A i : piece_offset(info, i)' = piece_offset(info, i)
           /\ \A n : file_offset(info, n)' = file_offset(info, n)
<1>1. NumFiles' = NumFiles  BY DEF NumFiles
<1>2. \A i, f : Part(i, f)' = Part(i, f)  BY DEF Part, overlap
<1>3. \A i, n : PartsFrom(i, n)' = PartsFrom(i, n)  BY <1>1, <1>2 DEF PartsFrom
<1>4. \A i, x : clamp(i, x)' = clamp(i, x)  BY DEF clamp, piece_end
<1>. QED  BY <1>1, <1>2, <1>3, <1>4

\* create accepts a torrent once and for all.
LEMMA CreatedInvStep ==
    ASSUME CreatedInv, CoverInv, StorageNext
    PROVE  info' \in Infos /\ info' = info /\ (Sized' => Accepted(info') /\ todo' \subseteq piece_indices(info'))
<1>1. info' = info /\ info' \in Infos
  BY DEF CreatedInv, StorageNext, create, CreateFails, write_op, PieceWritten, WriteFails, finish,
         FlushFails, Ended, ReceivePiece, storageVars
<1>2. CASE create
  BY <1>1, <1>2 DEF create, Sized, Accepted, accepted
<1>3. CASE CreateFails
  BY <1>1, <1>3 DEF CreateFails, Sized
<1>4. CASE ~ create /\ ~ CreateFails
  <2>1. /\ stage # "create" /\ todo' \subseteq todo
        /\ stage \in {"refused", "uncreated"} => stage' = stage
    BY <1>4 DEF StorageNext, write_op, PieceWritten, WriteFails, finish, FlushFails, Ended,
            ReceivePiece, storageVars
  <2>. QED  BY <1>1, <2>1 DEF CreatedInv, Sized
<1>. QED  BY <1>1, <1>2, <1>3, <1>4

\* The sum of what has been written is the whole piece at the end.
LEMMA PieceIsCovered ==
    ASSUME CreatedInv, CoverInv, stage = "writing", ops = {}
    PROVE  covered = piece_length(info, piece)
<1>1. info \in Infos /\ Accepted(info) /\ piece \in piece_indices(info)
  BY DEF CreatedInv, CoverInv, Sized
<1>2. PICK n \in 1 .. NumFiles + 1 :
          /\ ops = PartsFrom(piece, n)
          /\ covered = clamp(piece, file_offset(info, n)) - piece_offset(info, piece)
  BY DEF CoverInv
<1>0. NumFiles \in Nat  BY <1>1, FilesTyped DEF NumFiles
<1>. DEFINE last == NumFiles + 1
<1>3. last \in n .. NumFiles + 1 /\ last - 1 = NumFiles  BY <1>0
<1>4. \A f \in n .. last - 1 : ~ (Part(piece, f).len > 0)  BY <1>2, <1>3 DEF PartsFrom
<1>. HIDE DEF last
<1>5. clamp(piece, file_offset(info, n)) = clamp(piece, file_offset(info, last))
  BY <1>1, <1>3, <1>4, SkipFiles
<1>6. file_offset(info, last) = total_length(info)  BY <1>1, Sizes DEF last, NumFiles
<1>. DEFINE po == piece_offset(info, piece)
            m == piece_length(info, piece)
            T == total_length(info)
<1>7. po \in Nat /\ m \in Nat \ {0} /\ po + m <= T /\ T \in Nat  BY <1>1, PieceBounds, Sizes
<1>8. clamp(piece, T) = MinOf(MaxOf(T, po), po + m)  BY DEF clamp, piece_end
<1>9. covered = clamp(piece, T) - po  BY <1>2, <1>5, <1>6
<1>. HIDE DEF po, m, T
<1>10. covered = m  BY <1>7, <1>8, <1>9 DEF MinOf, MaxOf
<1>. QED  BY <1>10 DEF m

\* A piece received has all its parts to be written.
LEMMA ReceiveCovers ==
    ASSUME CreatedInv, CoverInv, NEW i \in todo, ReceivePiece(i)
    PROVE  CoverInv'
<1>1. info \in Infos /\ Accepted(info) /\ i \in piece_indices(info)
  BY DEF CreatedInv, ReceivePiece, Sized
<1>2. NumFiles \in Nat /\ DOMAIN info.files = 1 .. NumFiles  BY <1>1, FilesTyped DEF NumFiles
<1>3. UNCHANGED info /\ piece' = i /\ todo' = todo /\ covered' = 0
      /\ ops' = map_region(piece_offset(info, i), piece_length(info, i))
  BY DEF ReceivePiece
<1>4. ops' = PartsFrom(i, 1)  BY <1>2, <1>3 DEF map_region, PartsFrom, Part
<1>5. clamp(i, file_offset(info, 1)) - piece_offset(info, i) = 0
  <2>. DEFINE po == piece_offset(info, i)
              m == piece_length(info, i)
  <2>1. po \in Nat /\ m \in Nat \ {0}  BY <1>1, PieceBounds
  <2>2. file_offset(info, 1) = 0  BY <1>1, Offsets
  <2>3. clamp(i, 0) = MinOf(MaxOf(0, po), po + m)  BY DEF clamp, piece_end
  <2>. HIDE DEF po, m
  <2>4. clamp(i, 0) - po = 0  BY <2>1, <2>3 DEF MinOf, MaxOf
  <2>. QED  BY <2>2, <2>4 DEF po
<1>6. 1 \in 1 .. NumFiles + 1  BY <1>2
<1>7. \E n \in 1 .. NumFiles + 1 :
          /\ ops' = PartsFrom(i, n)
          /\ covered' = clamp(i, file_offset(info, n)) - piece_offset(info, i)
  BY <1>3, <1>4, <1>5, <1>6
<1>. QED  BY <1>3, <1>7, SameParts DEF CoverInv

\* A write moves its length from the parts left to the count.
LEMMA WriteCovers ==
    ASSUME CreatedInv, CoverInv, write_op
    PROVE  CoverInv'
<1>1. info \in Infos /\ Accepted(info) /\ piece \in piece_indices(info) /\ stage = "writing"
      /\ piece \in todo
  BY DEF CreatedInv, CoverInv, write_op, Sized
<1>2. PICK n \in 1 .. NumFiles + 1 :
          /\ ops = PartsFrom(piece, n)
          /\ covered = clamp(piece, file_offset(info, n)) - piece_offset(info, piece)
  BY <1>1 DEF CoverInv
<1>3. PICK op \in ops :
          /\ \A other \in ops : op.file <= other.file
          /\ covered' = covered + op.len
          /\ ops' = ops \ {op}
  BY DEF write_op
<1>4. UNCHANGED <<info, todo, piece>>  BY DEF write_op
<1>5. PICK m \in n .. NumFiles :
          /\ op = Part(piece, m) /\ op.len > 0
          /\ \A f \in n .. m - 1 : ~ (Part(piece, f).len > 0)
          /\ PartsFrom(piece, n) \ {op} = PartsFrom(piece, m + 1)
  BY <1>1, <1>2, <1>3, NextPart
<1>6. NumFiles \in Nat  BY <1>1, FilesTyped DEF NumFiles
<1>7. m \in 1 .. NumFiles /\ m \in n .. NumFiles + 1 /\ m + 1 \in 1 .. NumFiles + 1  BY <1>6
<1>8. clamp(piece, file_offset(info, n)) = clamp(piece, file_offset(info, m))
  BY <1>1, <1>5, <1>7, SkipFiles
<1>9. /\ op.len \in Int /\ clamp(piece, file_offset(info, m)) \in Int
      /\ clamp(piece, file_offset(info, m + 1)) = clamp(piece, file_offset(info, m)) + op.len
  BY <1>1, <1>5, <1>7, PartClamps
<1>10. piece_offset(info, piece) \in Nat  BY <1>1, PieceBounds
<1>11. covered' = clamp(piece, file_offset(info, m + 1)) - piece_offset(info, piece)
  BY <1>2, <1>3, <1>8, <1>9, <1>10
<1>12. ops' = PartsFrom(piece, m + 1)  BY <1>2, <1>3, <1>5
<1>. QED  BY <1>1, <1>4, <1>7, <1>11, <1>12, SameParts DEF CoverInv

\* Every step keeps the count.
LEMMA CoverInductive == CreatedInv /\ CoverInv /\ [StorageNext]_storageVars => CreatedInv' /\ CoverInv'
<1>. SUFFICES ASSUME CreatedInv, CoverInv, [StorageNext]_storageVars
              PROVE  CreatedInv' /\ CoverInv'
  OBVIOUS
<1>1. CASE UNCHANGED storageVars
  BY <1>1, SameParts DEF storageVars, CreatedInv, CoverInv, Sized
<1>2. CASE StorageNext
  <2>1. info' \in Infos /\ info' = info
        /\ (Sized' => Accepted(info') /\ todo' \subseteq piece_indices(info'))
    BY <1>2, CreatedInvStep
  <2>2. CASE PieceWritten
    <3>1. stage' = "ready"  BY <2>2, PieceIsCovered DEF PieceWritten
    <3>. QED  BY <2>1, <3>1 DEF CreatedInv, CoverInv, Phases
  <2>3. CASE write_op
    <3>1. stage' = stage  BY <2>3 DEF write_op
    <3>. QED  BY <2>1, <2>3, <3>1, WriteCovers DEF CreatedInv
  <2>4. ASSUME NEW i \in todo, ReceivePiece(i) PROVE CreatedInv' /\ CoverInv'
    <3>1. stage' = "writing"  BY <2>4 DEF ReceivePiece
    <3>. QED  BY <2>1, <2>4, <3>1, ReceiveCovers DEF CreatedInv, Phases
  <2>5. CASE create \/ CreateFails \/ WriteFails \/ finish \/ FlushFails \/ Ended
    <3>1. stage' \in Phases /\ stage' # "writing"
      BY <2>5 DEF create, CreateFails, WriteFails, finish, FlushFails, Ended, CreatedInv, Phases,
                  storageVars
    <3>. QED  BY <2>1, <3>1 DEF CreatedInv, CoverInv
  <2>. QED  BY <1>2, <2>2, <2>3, <2>4, <2>5 DEF StorageNext
<1>. QED  BY <1>1, <1>2

\* The count holds throughout.
LEMMA CoverHolds == StorageSpec => [](CreatedInv /\ CoverInv)
<1>1. StorageInit => CreatedInv /\ CoverInv
  BY DEF StorageInit, CreatedInv, CoverInv, Phases, Sized
<1>. QED  BY <1>1, CoverInductive, PTL DEF StorageSpec

\* Whatever torrent create accepts, the check at the end of write_piece never
\* fires: the lengths written for a piece add up to its length, the pieces tile
\* the torrent (the wrapping sum of the lengths is the checked one), and the
\* blocks that are requested tile each piece.
THEOREM PiecesAreCovered == StorageSpec => []GeometryAgrees
<1>1. CreatedInv => GeometryAgrees
  <2>. SUFFICES ASSUME CreatedInv, Sized PROVE stage # "uncovered" /\ PiecesTile(info) /\ BlocksTile(info)
    BY DEF GeometryAgrees, Sized
  <2>1. info \in Infos /\ Accepted(info)  BY DEF CreatedInv
  <2>2. PiecesTile(info)  BY <2>1, AcceptedPiecesTile
  <2>3. BlocksTile(info)  BY <2>1, BlocksTilePiece DEF BlocksTile
  <2>. QED  BY <2>2, <2>3 DEF CreatedInv, Phases
<1>. QED  BY <1>1, CoverHolds, PTL

(***************************************************************************)
(* The bytes.  A file has its length from create on, the bytes of every    *)
(* piece written are right in it, and those of the piece being written are *)
(* right unless their write is still to come.  A write that is lost, which *)
(* the handle reports later, takes right bytes away and adds no wrong one. *)
(***************************************************************************)
\* The paths of a torrent's files differ.
PathsDiffer ==
    \A inf \in Infos : \A f, g \in DOMAIN inf.files :
        inf.files[f].path = inf.files[g].path => f = g

FileOf(f) == content[info.files[f].path]
Offsets_of(f) == 0 .. info.files[f].length - 1
InPiece(i, g) == piece_offset(info, i) <= g /\ g < piece_end(i)

\* Byte b of file f is the torrent's if it belongs to piece i.
Right(i, f) ==
    \A b \in Offsets_of(f) : InPiece(i, RightByte(f, b)) => FileOf(f)[b] = RightByte(f, b)

ContentInv ==
    /\ DOMAIN content = paths(info)
    /\ ~ Sized => \A p \in paths(info) : \A b \in DOMAIN content[p] : content[p][b] \in {Old, Zero}
    /\ Sized => \A f \in 1 .. NumFiles :
            /\ FileOf(f) \in [Offsets_of(f) -> Int]
            /\ \A b \in Offsets_of(f) : FileOf(f)[b] < 0 \/ FileOf(f)[b] = RightByte(f, b)
            /\ stage # "failed" => \A i \in piece_indices(info) \ todo : Right(i, f)
    /\ stage = "writing" => \A f \in 1 .. NumFiles : Part(piece, f) \in ops \/ Right(piece, f)

\* A file that holds nothing of a piece has no byte of it.
LEMMA NothingOfPiece ==
    ASSUME info \in Infos, Accepted(info), NEW i \in piece_indices(info), NEW f \in 1 .. NumFiles,
           ~ (Part(i, f).len > 0)
    PROVE  Right(i, f)
<1>. DEFINE at == file_offset(info, f)
            next == file_offset(info, f + 1)
            po == piece_offset(info, i)
            pe == piece_end(i)
            n == info.files[f].length
<1>1. at \in Nat /\ next \in Nat /\ next = at + n /\ Part(i, f).len = MinOf(pe, next) - MaxOf(po, at)
  BY PartIs
<1>2. po \in Nat /\ pe \in Nat
  <2>. DEFINE m == piece_length(info, i)
  <2>1. po \in Nat /\ m \in Nat \ {0} /\ pe = po + m  BY PieceBounds DEF piece_end
  <2>. HIDE DEF po, m, pe
  <2>. QED  BY <2>1
<1>3. n \in Nat  BY FilesTyped DEF NumFiles
<1>4. ASSUME NEW b \in Offsets_of(f) PROVE ~ InPiece(i, RightByte(f, b))
  <2>1. b \in Nat /\ b < n  BY <1>3 DEF Offsets_of
  <2>2. InPiece(i, RightByte(f, b)) <=> po <= at + b /\ at + b < pe  BY DEF InPiece, RightByte
  <2>3. ~ (MinOf(pe, next) - MaxOf(po, at) > 0)  BY <1>1
  <2>. HIDE DEF at, next, po, pe, n
  <2>. QED  BY <1>1, <1>2, <1>3, <2>1, <2>2, <2>3 DEF MinOf, MaxOf
<1>. QED  BY <1>4 DEF Right

\* The paths of different files are different, and each has its content.
LEMMA OwnPath ==
    ASSUME PathsDiffer, info \in Infos, NEW f \in 1 .. NumFiles
    PROVE  /\ info.files[f].path \in paths(info)
           /\ \A g \in 1 .. NumFiles : info.files[g].path = info.files[f].path => g = f
<1>1. DOMAIN info.files = 1 .. NumFiles  BY FilesTyped DEF NumFiles
<1>. QED  BY <1>1 DEF PathsDiffer, paths

\* Sizing some of the files leaves older content and zeros.
LEMMA SizedTo ==
    ASSUME info \in Infos, DOMAIN content = paths(info), NEW k \in 0 .. NumFiles,
           \A p \in paths(info) : \A b \in DOMAIN content[p] : content[p][b] \in {Old, Zero}
    PROVE  /\ DOMAIN sized_to(k) = paths(info)
           /\ \A p \in paths(info) : \A b \in DOMAIN sized_to(k)[p] : sized_to(k)[p][b] \in {Old, Zero}
<1>1. DOMAIN sized_to(k) = paths(info)  BY DEF sized_to
<1>2. ASSUME NEW p \in paths(info), NEW b \in DOMAIN sized_to(k)[p]
      PROVE  sized_to(k)[p][b] \in {Old, Zero}
  <2>. DEFINE mine == {f \in 1 .. k : info.files[f].path = p}
              n == info.files[CHOOSE f \in mine : \A g \in mine : g <= f].length
  <2>1. sized_to(k)[p] = IF mine = {} THEN content[p] ELSE set_len(content[p], n)  BY DEF sized_to
  <2>. HIDE DEF mine, n
  <2>2. CASE mine = {}  BY <1>2, <2>1, <2>2
  <2>3. CASE mine # {}
    <3>1. sized_to(k)[p] = [x \in 0 .. n - 1 |-> IF x \in DOMAIN content[p] THEN content[p][x] ELSE Zero]
      BY <2>1, <2>3 DEF set_len
    <3>. QED  BY <1>2, <3>1
  <2>. QED  BY <2>2, <2>3
<1>. QED  BY <1>1, <1>2

\* create: each file gets its own length.
LEMMA CreateContent ==
    ASSUME PathsDiffer, CreatedInv, ContentInv, create
    PROVE  ContentInv'
<1>1. info \in Infos /\ UNCHANGED <<info, piece, ops>> /\ stage = "create"  BY DEF CreatedInv, create
<1>2. NumFiles' = NumFiles /\ paths(info)' = paths(info) /\ piece_indices(info)' = piece_indices(info)
  BY <1>1 DEF NumFiles
<1>3. /\ DOMAIN content = paths(info)
      /\ \A p \in paths(info) : \A b \in DOMAIN content[p] : content[p][b] \in {Old, Zero}
  BY <1>1 DEF ContentInv, Sized
<1>4. CASE ~ accepted
  <2>1. stage' = "refused" /\ content' = content  BY <1>4 DEF create
  <2>. QED  BY <1>1, <1>2, <1>3, <2>1 DEF ContentInv, Sized
<1>5. CASE accepted
  <2>1. content' = sized_to(NumFiles) /\ todo' = piece_indices(info) /\ stage' = "ready"
    BY <1>5 DEF create, NumFiles
  <2>0. NumFiles \in Nat /\ NumFiles \in 0 .. NumFiles  BY <1>1, FilesTyped DEF NumFiles
  <2>2. ASSUME NEW f \in 1 .. NumFiles
        PROVE  /\ FileOf(f)' \in [Offsets_of(f) -> Int]
               /\ \A b \in Offsets_of(f) : FileOf(f)'[b] < 0
    <3>. DEFINE p == info.files[f].path
                n == info.files[f].length
                mine == {g \in 1 .. NumFiles : info.files[g].path = p}
    <3>1. p \in paths(info) /\ \A g \in 1 .. NumFiles : info.files[g].path = p => g = f
      BY <1>1, OwnPath
    <3>2. mine = {f}  BY <3>1
    <3>3. (CHOOSE g \in mine : \A h \in mine : h <= g) = f
      <4>. HIDE DEF mine
      <4>. QED  BY <2>0, <3>2
    <3>4. sized_to(NumFiles)[p] = set_len(content[p], n)
      <4>1. sized_to(NumFiles)[p] =
              IF mine = {} THEN content[p]
              ELSE set_len(content[p], info.files[CHOOSE g \in mine : \A h \in mine : h <= g].length)
        BY <3>1 DEF sized_to
      <4>. HIDE DEF mine
      <4>. QED  BY <3>2, <3>3, <4>1
    <3>5. FileOf(f)' = set_len(content[p], n)  BY <1>1, <2>1, <3>4 DEF FileOf
    <3>6. \A b \in DOMAIN content[p] : content[p][b] \in {Old, Zero}  BY <1>3, <3>1
    <3>7. FileOf(f)' = [b \in Offsets_of(f) |-> IF b \in DOMAIN content[p] THEN content[p][b] ELSE Zero]
      BY <3>5 DEF set_len, Offsets_of
    <3>8. \A b \in Offsets_of(f) : FileOf(f)'[b] \in {Old, Zero}
      <4>. HIDE DEF p
      <4>. QED  BY <3>6, <3>7
    <3>. QED  BY <3>7, <3>8 DEF Old, Zero
  <2>3. \A f \in 1 .. NumFiles : Offsets_of(f)' = Offsets_of(f)  BY <1>1 DEF Offsets_of
  <2>4. DOMAIN content' = paths(info)  BY <2>1 DEF sized_to
  <2>5. Sized' /\ stage' # "writing" /\ piece_indices(info) \ todo' = {}  BY <2>1 DEF Sized
  <2>. QED  BY <1>2, <2>2, <2>3, <2>4, <2>5 DEF ContentInv
<1>. QED  BY <1>4, <1>5

\* A create that fails leaves older content and zeros.
LEMMA CreateFailsContent ==
    ASSUME CreatedInv, ContentInv, CreateFails
    PROVE  ContentInv'
<1>1. info \in Infos /\ info' = info /\ stage = "create" /\ stage' = "uncreated"
  BY DEF CreatedInv, CreateFails
<1>2. NumFiles \in Nat /\ DOMAIN info.files = 1 .. NumFiles  BY <1>1, FilesTyped DEF NumFiles
<1>3. PICK f \in 1 .. NumFiles : content' = sized_to(f - 1)  BY <1>2 DEF CreateFails
<1>4. f - 1 \in 0 .. NumFiles  BY <1>2
<1>5. /\ DOMAIN content = paths(info)
      /\ \A p \in paths(info) : \A b \in DOMAIN content[p] : content[p][b] \in {Old, Zero}
  BY <1>1 DEF ContentInv, Sized
<1>6. /\ DOMAIN content' = paths(info)
      /\ \A p \in paths(info) : \A b \in DOMAIN content'[p] : content'[p][b] \in {Old, Zero}
  <2>. DEFINE k == f - 1
  <2>. HIDE DEF k
  <2>1. k \in 0 .. NumFiles /\ content' = sized_to(k)  BY <1>3, <1>4 DEF k
  <2>. QED  BY <1>1, <1>5, <2>1, SizedTo
<1>. QED  BY <1>1, <1>6 DEF ContentInv, Sized

\* A write puts the bytes of the piece into the file, each in its place, and does
\* not change its length.
LEMMA WrittenIsRight ==
    ASSUME CreatedInv, piece \in piece_indices(info), Accepted(info), NEW f \in 1 .. NumFiles,
           Part(piece, f).len > 0, NEW c \in [Offsets_of(f) -> Int]
    PROVE  /\ WrittenAt(c, Part(piece, f)) \in [Offsets_of(f) -> Int]
           /\ \A b \in Offsets_of(f) :
                WrittenAt(c, Part(piece, f))[b] =
                    IF InPiece(piece, RightByte(f, b)) THEN RightByte(f, b) ELSE c[b]
<1>. DEFINE at == file_offset(info, f)
            next == file_offset(info, f + 1)
            po == piece_offset(info, piece)
            pe == piece_end(piece)
            n == info.files[f].length
            op == Part(piece, f)
            end == op.file_offset + op.len
            start == MaxOf(po, at)
            W == WrittenAt(c, op)
<1>0. info \in Infos  BY DEF CreatedInv
<1>1. /\ at \in Nat /\ next \in Nat /\ next = at + n
      /\ op.len = MinOf(pe, next) - start
      /\ op.file_offset = start - at /\ op.src_start = start - po
  BY <1>0, PartIs
<1>2. po \in Nat /\ pe \in Nat
  <2>. DEFINE m == piece_length(info, piece)
  <2>1. po \in Nat /\ m \in Nat \ {0} /\ pe = po + m  BY <1>0, PieceBounds DEF piece_end
  <2>. HIDE DEF po, m, pe
  <2>. QED  BY <2>1
<1>3. n \in Nat  BY <1>0, FilesTyped DEF NumFiles
<1>4. op.len > 0  OBVIOUS
<1>5. DOMAIN c = 0 .. n - 1 /\ Length(c) = n
  <2>1. DOMAIN c = 0 .. n - 1  BY DEF Offsets_of
  <2>2. Cardinality(0 .. n - 1) = n
    <3>. HIDE DEF n
    <3>1. 0 \in Int /\ n - 1 \in Int  BY <1>3
    <3>2. Cardinality(0 .. n - 1) = IF 0 > n - 1 THEN 0 ELSE (n - 1) - 0 + 1  BY <3>1, FS_Interval
    <3>. QED  BY <1>3, <3>2
  <2>. QED  BY <2>1, <2>2 DEF Length
<1>6. /\ op.file_offset \in Nat /\ end \in Nat /\ end <= n /\ op.src_start \in Nat
      /\ end = MinOf(pe, next) - at
  <2>. HIDE DEF at, next, po, pe, n
  <2>. QED  BY <1>1, <1>2, <1>3, <1>4 DEF MinOf, MaxOf
<1>7. MaxOf(Length(c), end) = n
  <2>. HIDE DEF n, end
  <2>. QED  BY <1>3, <1>5, <1>6 DEF MaxOf
<1>8. W = [b \in 0 .. n - 1 |->
              IF b \in op.file_offset .. end - 1 THEN po + op.src_start + (b - op.file_offset)
              ELSE c[b]]
  <2>. DEFINE new == [b \in 0 .. n - 1 |-> IF b \in DOMAIN c THEN c[b] ELSE Zero]
  <2>1. W = [b \in DOMAIN new |-> IF b \in op.file_offset .. end - 1
                                   THEN po + op.src_start + (b - op.file_offset) ELSE new[b]]
    BY <1>7 DEF WrittenAt
  <2>2. DOMAIN new = 0 .. n - 1 /\ \A b \in 0 .. n - 1 : new[b] = c[b]  BY <1>5
  <2>. HIDE DEF new, W
  <2>. QED  BY <2>1, <2>2
<1>9. ASSUME NEW b \in 0 .. n - 1
      PROVE  /\ b \in op.file_offset .. end - 1 <=> InPiece(piece, RightByte(f, b))
             /\ po + op.src_start + (b - op.file_offset) = RightByte(f, b)
             /\ RightByte(f, b) \in Int
  <2>1. RightByte(f, b) = at + b  BY DEF RightByte
  <2>2. InPiece(piece, RightByte(f, b)) <=> po <= at + b /\ at + b < pe  BY <2>1 DEF InPiece
  <2>3. b \in Nat /\ b < n  BY <1>3
  <2>. HIDE DEF at, next, po, pe, n, op
  <2>4. b \in op.file_offset .. end - 1 <=> po <= at + b /\ at + b < pe
    BY <1>1, <1>2, <1>3, <1>6, <2>3 DEF MinOf, MaxOf
  <2>5. po + op.src_start + (b - op.file_offset) = at + b
    BY <1>1, <1>2, <2>3 DEF MaxOf
  <2>6. at + b \in Int  BY <1>1, <2>3
  <2>. QED  BY <2>1, <2>2, <2>4, <2>5, <2>6
<1>10. \A b \in 0 .. n - 1 : W[b] = IF InPiece(piece, RightByte(f, b)) THEN RightByte(f, b) ELSE c[b]
  <2>. HIDE DEF W, op, end, po, n
  <2>. QED  BY <1>8, <1>9
<1>11. W \in [0 .. n - 1 -> Int]
  <2>1. \A b \in 0 .. n - 1 : c[b] \in Int /\ RightByte(f, b) \in Int  BY <1>9 DEF Offsets_of
  <2>. HIDE DEF W, op, end, po, n
  <2>2. \A b \in 0 .. n - 1 : W[b] \in Int  BY <1>10, <2>1
  <2>. QED  BY <1>8, <2>2
<1>. QED  BY <1>10, <1>11 DEF Offsets_of

\* What the torrent has where stays with the torrent.
LEMMA SameBytes ==
    ASSUME UNCHANGED info
    PROVE  /\ NumFiles' = NumFiles /\ paths(info)' = paths(info)
           /\ piece_indices(info)' = piece_indices(info)
           /\ \A i, f : Part(i, f)' = Part(i, f)
           /\ \A f : Offsets_of(f)' = Offsets_of(f)
           /\ \A f, b : RightByte(f, b)' = RightByte(f, b)
           /\ \A i, g : InPiece(i, g)' = InPiece(i, g)
           /\ \A i, f : FileOf(f)' = FileOf(f) => (Right(i, f)' <=> Right(i, f))
<1>1. NumFiles' = NumFiles /\ \A i, f : Part(i, f)' = Part(i, f)  BY SameParts
<1>2. paths(info)' = paths(info) /\ piece_indices(info)' = piece_indices(info)  OBVIOUS
<1>3. \A f : Offsets_of(f)' = Offsets_of(f)  BY DEF Offsets_of
<1>4. \A f, b : RightByte(f, b)' = RightByte(f, b)  BY DEF RightByte
<1>5. \A i, g : InPiece(i, g)' = InPiece(i, g)  BY DEF InPiece, piece_end
<1>6. ASSUME NEW i, NEW f, FileOf(f)' = FileOf(f) PROVE Right(i, f)' <=> Right(i, f)
  BY <1>3, <1>4, <1>5, <1>6 DEF Right
<1>. QED  BY <1>1, <1>2, <1>3, <1>4, <1>5, <1>6

\* write_op: the bytes written are right, no other file is touched, and no byte
\* that was right is lost.
LEMMA WriteContent ==
    ASSUME PathsDiffer, CreatedInv, CoverInv, ContentInv, write_op
    PROVE  ContentInv'
<1>1. info \in Infos /\ Accepted(info) /\ piece \in piece_indices(info) /\ stage = "writing" /\ Sized
  BY DEF CreatedInv, CoverInv, write_op, Sized
<1>2. PICK n \in 1 .. NumFiles + 1 : ops = PartsFrom(piece, n)  BY <1>1 DEF CoverInv
<1>3. PICK op \in ops :
          /\ \A other \in ops : op.file <= other.file
          /\ content' = [content EXCEPT ![info.files[op.file].path] = WrittenAt(@, op)]
          /\ ops' = ops \ {op}
  BY DEF write_op
<1>4. UNCHANGED <<info, todo, piece, stage>>  BY DEF write_op
<1>5. PICK m \in n .. NumFiles : op = Part(piece, m) /\ op.len > 0 /\ op.file = m
  BY <1>1, <1>2, <1>3, NextPart
<1>6. NumFiles \in Nat  BY <1>1, FilesTyped DEF NumFiles
<1>7. m \in 1 .. NumFiles  BY <1>6
<1>8. /\ DOMAIN content = paths(info)
      /\ \A f \in 1 .. NumFiles :
            /\ FileOf(f) \in [Offsets_of(f) -> Int]
            /\ \A b \in Offsets_of(f) : FileOf(f)[b] < 0 \/ FileOf(f)[b] = RightByte(f, b)
            /\ \A i \in piece_indices(info) \ todo : Right(i, f)
            /\ Part(piece, f) \in ops \/ Right(piece, f)
  BY <1>1 DEF ContentInv
<1>9. /\ info.files[m].path \in paths(info)
      /\ \A g \in 1 .. NumFiles : info.files[g].path = info.files[m].path => g = m
  BY <1>1, <1>7, OwnPath
<1>10. /\ NumFiles' = NumFiles /\ paths(info)' = paths(info)
       /\ piece_indices(info)' = piece_indices(info)
       /\ \A i, f : Part(i, f)' = Part(i, f)
       /\ \A f : Offsets_of(f)' = Offsets_of(f)
       /\ \A f, b : RightByte(f, b)' = RightByte(f, b)
       /\ \A i, g : InPiece(i, g)' = InPiece(i, g)
       /\ \A i, f : FileOf(f)' = FileOf(f) => (Right(i, f)' <=> Right(i, f))
  BY <1>4, SameBytes
<1>11. DOMAIN content' = paths(info)  BY <1>3, <1>8
<1>. DEFINE W == WrittenAt(FileOf(m), op)
<1>12. FileOf(m)' = W  BY <1>3, <1>4, <1>5, <1>8, <1>9 DEF FileOf
<1>13. /\ W \in [Offsets_of(m) -> Int]
       /\ \A b \in Offsets_of(m) :
            W[b] = IF InPiece(piece, RightByte(m, b)) THEN RightByte(m, b) ELSE FileOf(m)[b]
  BY <1>1, <1>5, <1>7, <1>8, WrittenIsRight
<1>. HIDE DEF W
<1>14. ASSUME NEW f \in 1 .. NumFiles
       PROVE  /\ FileOf(f)' \in [Offsets_of(f) -> Int]
              /\ \A b \in Offsets_of(f) : FileOf(f)'[b] < 0 \/ FileOf(f)'[b] = RightByte(f, b)
              /\ \A i \in piece_indices(info) \ todo : Right(i, f)'
              /\ Part(piece, f) \in ops' \/ Right(piece, f)'
  <2>1. CASE f = m
    <3>1. FileOf(f)' \in [Offsets_of(f) -> Int]  BY <1>12, <1>13, <2>1
    <3>2. \A b \in Offsets_of(f) : FileOf(f)'[b] < 0 \/ FileOf(f)'[b] = RightByte(f, b)
      BY <1>7, <1>8, <1>12, <1>13, <2>1
    <3>3. ASSUME NEW i \in piece_indices(info) \ todo PROVE Right(i, f)'
      <4>1. Right(i, m)  BY <1>7, <1>8
      <4>. QED  BY <1>10, <1>12, <1>13, <2>1, <4>1 DEF Right
    <3>4. Right(piece, f)'
      <4>1. piece' = piece  BY <1>4
      <4>2. \A b \in Offsets_of(m) : InPiece(piece, RightByte(m, b)) => FileOf(m)'[b] = RightByte(m, b)
        BY <1>12, <1>13
      <4>. QED  BY <1>10, <2>1, <4>1, <4>2 DEF Right
    <3>. QED  BY <3>1, <3>2, <3>3, <3>4
  <2>2. CASE f # m
    <3>1. info.files[f].path # info.files[m].path  BY <1>9, <2>2
    <3>2. info.files[f].path \in paths(info)  BY <1>1, OwnPath
    <3>3. FileOf(f)' = FileOf(f)  BY <1>3, <1>4, <1>5, <1>8, <3>1, <3>2 DEF FileOf
    <3>4. Part(piece, f) # op
      <4>1. Part(piece, f).file = f  BY <1>1, PartIs
      <4>. QED  BY <1>5, <2>2, <4>1
    <3>5. \A i : Right(i, f)' <=> Right(i, f)
      BY <1>10, <3>3
    <3>6. Right(piece, f)' <=> Right(piece, f)
      <4>1. piece' = piece  BY <1>4
      <4>. QED  BY <1>10, <3>3, <4>1 DEF Right
    <3>. QED  BY <1>3, <1>8, <3>3, <3>4, <3>5, <3>6
  <2>. QED  BY <2>1, <2>2
<1>15. Sized' /\ stage' = "writing"  BY <1>1, <1>4 DEF Sized
<1>16. \A f \in 1 .. NumFiles : Part(piece, f)' = Part(piece, f)
  BY <1>4 DEF Part, overlap
<1>. QED  BY <1>4, <1>10, <1>11, <1>14, <1>15, <1>16 DEF ContentInv

\* The other steps write nothing.
LEMMA SameContent ==
    ASSUME CreatedInv, CoverInv, ContentInv, UNCHANGED <<info, content>>, Sized, Sized',
           \A i \in piece_indices(info) \ todo' : \A f \in 1 .. NumFiles : Right(i, f),
           stage' = "writing" =>
               \A f \in 1 .. NumFiles : Part(piece, f)' \in ops' \/ Right(piece, f)'
    PROVE  ContentInv'
<1>1. /\ NumFiles' = NumFiles /\ paths(info)' = paths(info)
      /\ piece_indices(info)' = piece_indices(info)
      /\ \A f : Offsets_of(f)' = Offsets_of(f)
      /\ \A f, b : RightByte(f, b)' = RightByte(f, b)
      /\ \A i, f : FileOf(f)' = FileOf(f) => (Right(i, f)' <=> Right(i, f))
  BY SameBytes
<1>2. \A f \in 1 .. NumFiles : FileOf(f)' = FileOf(f)  BY DEF FileOf
<1>3. DOMAIN content' = paths(info)  BY DEF ContentInv
<1>4. ASSUME NEW f \in 1 .. NumFiles
      PROVE  /\ FileOf(f)' \in [Offsets_of(f) -> Int]
             /\ \A b \in Offsets_of(f) : FileOf(f)'[b] < 0 \/ FileOf(f)'[b] = RightByte(f, b)
             /\ \A i \in piece_indices(info) \ todo' : Right(i, f)'
  <2>1. FileOf(f)' = FileOf(f)  BY <1>2
  <2>2. \A i \in piece_indices(info) \ todo' : Right(i, f)' <=> Right(i, f)  BY <1>1, <2>1
  <2>. QED  BY <2>1, <2>2 DEF ContentInv
<1>. QED  BY <1>1, <1>3, <1>4 DEF ContentInv

\* A piece received: a file without a write to come has no byte of it.
LEMMA ReceiveContent ==
    ASSUME CreatedInv, CoverInv, ContentInv, NEW i \in todo, ReceivePiece(i)
    PROVE  ContentInv'
<1>1. info \in Infos /\ Accepted(info) /\ i \in piece_indices(info) /\ Sized /\ Sized'
  BY DEF CreatedInv, ReceivePiece, Sized
<1>2. DOMAIN info.files = 1 .. NumFiles  BY <1>1, FilesTyped DEF NumFiles
<1>3. UNCHANGED <<info, content, todo>> /\ piece' = i /\ stage # "failed"
      /\ ops' = map_region(piece_offset(info, i), piece_length(info, i))
  BY DEF ReceivePiece
<1>4. ASSUME NEW f \in 1 .. NumFiles PROVE Part(piece, f)' \in ops' \/ Right(piece, f)'
  <2>1. Part(piece, f)' = Part(i, f)  BY <1>3 DEF Part, overlap
  <2>2. CASE Part(i, f).len > 0
    <3>1. Part(i, f) \in ops'  BY <1>2, <1>3, <2>2 DEF map_region, Part
    <3>. QED  BY <2>1, <3>1
  <2>3. CASE ~ (Part(i, f).len > 0)
    <3>1. Right(i, f)  BY <1>1, <2>3, NothingOfPiece
    <3>2. FileOf(f)' = FileOf(f)  BY <1>3 DEF FileOf
    <3>3. /\ Offsets_of(f)' = Offsets_of(f)
          /\ \A b : RightByte(f, b)' = RightByte(f, b)
          /\ \A g : InPiece(i, g)' = InPiece(i, g)
      BY <1>3, SameBytes
    <3>4. \A g : InPiece(piece, g)' = InPiece(i, g)  BY <1>3 DEF InPiece, piece_end
    <3>5. Right(piece, f)'  BY <3>1, <3>2, <3>3, <3>4 DEF Right
    <3>. QED  BY <3>5
  <2>. QED  BY <2>2, <2>3
<1>5. \A j \in piece_indices(info) \ todo' : \A f \in 1 .. NumFiles : Right(j, f)
  BY <1>1, <1>3 DEF ContentInv
<1>. QED  BY <1>1, <1>3, <1>4, <1>5, SameContent

\* A piece whose writes are all done is right everywhere.
LEMMA WrittenContent ==
    ASSUME CreatedInv, CoverInv, ContentInv, PieceWritten
    PROVE  ContentInv'
<1>1. info \in Infos /\ stage = "writing" /\ Sized /\ ops = {}
  BY DEF CreatedInv, PieceWritten, Sized
<1>2. stage' = "ready"  BY <1>1, PieceIsCovered DEF PieceWritten
<1>3. Sized' /\ stage' # "writing"  BY <1>2 DEF Sized
<1>4. UNCHANGED <<info, content>> /\ todo' = todo \ {piece}  BY DEF PieceWritten
<1>5. \A f \in 1 .. NumFiles : Right(piece, f)  BY <1>1 DEF ContentInv
<1>6. \A j \in piece_indices(info) \ todo : \A f \in 1 .. NumFiles : Right(j, f)
  BY <1>1 DEF ContentInv
<1>7. \A j \in piece_indices(info) \ todo' : \A f \in 1 .. NumFiles : Right(j, f)
  BY <1>4, <1>5, <1>6
<1>. QED  BY <1>1, <1>3, <1>4, <1>7, SameContent

\* A lost write takes bytes away and adds none.
LEMMA LostContent ==
    ASSUME CreatedInv, ContentInv, WriteLost, info' = info, Sized, stage' = "failed"
    PROVE  ContentInv'
<1>1. /\ info \in Infos /\ NumFiles' = NumFiles /\ paths(info)' = paths(info)
      /\ \A f : Offsets_of(f)' = Offsets_of(f)
      /\ \A f, b : RightByte(f, b)' = RightByte(f, b)
  BY DEF CreatedInv, NumFiles, Offsets_of, RightByte
<1>2. PICK p, op : content' = [content EXCEPT ![p] = Unwritten(@, op)]  BY DEF WriteLost
<1>3. DOMAIN content' = paths(info)  BY <1>2 DEF ContentInv
<1>4. ASSUME NEW f \in 1 .. NumFiles
      PROVE  /\ FileOf(f)' \in [Offsets_of(f) -> Int]
             /\ \A b \in Offsets_of(f) : FileOf(f)'[b] < 0 \/ FileOf(f)'[b] = RightByte(f, b)
  <2>1. FileOf(f) \in [Offsets_of(f) -> Int]
        /\ \A b \in Offsets_of(f) : FileOf(f)[b] < 0 \/ FileOf(f)[b] = RightByte(f, b)
    BY DEF ContentInv
  <2>. DEFINE q == info.files[f].path
  <2>2. q \in DOMAIN content
    <3>1. DOMAIN info.files = 1 .. NumFiles  BY <1>1, FilesTyped DEF NumFiles
    <3>. QED  BY <3>1 DEF ContentInv, paths
  <2>3. FileOf(f)' = IF q = p THEN Unwritten(FileOf(f), op) ELSE FileOf(f)
    BY <1>2, <2>2 DEF FileOf
  <2>4. /\ Unwritten(FileOf(f), op) \in [Offsets_of(f) -> Int]
        /\ \A b \in Offsets_of(f) :
              Unwritten(FileOf(f), op)[b] < 0 \/ Unwritten(FileOf(f), op)[b] = RightByte(f, b)
    <3>. DEFINE c == FileOf(f)
                U == Unwritten(c, op)
    <3>1. U = [b \in Offsets_of(f) |->
                  IF b \in op.file_offset .. op.file_offset + op.len - 1 THEN Zero ELSE c[b]]
      BY <2>1 DEF Unwritten
    <3>. HIDE DEF c, U
    <3>2. \A b \in Offsets_of(f) : U[b] = Zero \/ U[b] = c[b]  BY <3>1
    <3>3. DOMAIN U = Offsets_of(f) /\ U = [b \in DOMAIN U |-> U[b]]  BY <3>1
    <3>4. c \in [Offsets_of(f) -> Int]
          /\ \A b \in Offsets_of(f) : c[b] < 0 \/ c[b] = RightByte(f, b)  BY <2>1 DEF c
    <3>5. \A b \in Offsets_of(f) : U[b] \in Int /\ (U[b] < 0 \/ U[b] = RightByte(f, b))
      BY <3>2, <3>4 DEF Zero
    <3>6. U \in [Offsets_of(f) -> Int]  BY <3>3, <3>5
    <3>. QED  BY <3>5, <3>6 DEF U, c
  <2>. QED  BY <2>1, <2>3, <2>4
<1>5. Sized' /\ stage' # "writing"  BY DEF Sized
<1>. QED  BY <1>1, <1>3, <1>4, <1>5 DEF ContentInv

\* Every step keeps the bytes right.
LEMMA ContentInductive ==
    ASSUME PathsDiffer
    PROVE  CreatedInv /\ CoverInv /\ ContentInv /\ [StorageNext]_storageVars => ContentInv'
<1>. SUFFICES ASSUME CreatedInv, CoverInv, ContentInv, [StorageNext]_storageVars
              PROVE  ContentInv'
  OBVIOUS
<1>1. CASE UNCHANGED storageVars
  <2>1. UNCHANGED <<info, content, todo, piece, ops, stage>>  BY <1>1 DEF storageVars
  <2>. QED  BY <2>1 DEF ContentInv, Sized, FileOf, Offsets_of, RightByte, Right, InPiece, piece_end,
                        Part, overlap, NumFiles
<1>2. CASE create  BY <1>2, CreateContent
<1>3. CASE write_op  BY <1>3, WriteContent
<1>4. CASE PieceWritten  BY <1>4, WrittenContent
<1>5. ASSUME NEW i \in todo, ReceivePiece(i) PROVE ContentInv'  BY <1>5, ReceiveContent
<1>6. CASE (WriteFails /\ UNCHANGED content) \/ finish
  <2>1. UNCHANGED <<info, content, todo>> /\ stage' # "writing" /\ Sized /\ Sized' /\ stage # "failed"
    BY <1>6 DEF WriteFails, finish, Sized
  <2>2. \A j \in piece_indices(info) \ todo' : \A f \in 1 .. NumFiles : Right(j, f)
    BY <2>1 DEF ContentInv
  <2>. QED  BY <2>1, <2>2, SameContent
<1>7. CASE Ended  BY <1>1, <1>7 DEF Ended
<1>8. CASE CreateFails  BY <1>8, CreateFailsContent
<1>9. CASE (WriteFails /\ WriteLost) \/ FlushFails
  <2>1. WriteLost /\ info' = info /\ Sized /\ stage' = "failed"
    BY <1>9 DEF WriteFails, FlushFails, Sized
  <2>. QED  BY <2>1, LostContent
<1>10. WriteFails => UNCHANGED content \/ WriteLost  BY DEF WriteFails
<1>. QED  BY <1>1, <1>2, <1>3, <1>4, <1>5, <1>6, <1>7, <1>8, <1>9, <1>10 DEF StorageNext

\* They are right throughout.
LEMMA ContentHolds ==
    ASSUME PathsDiffer
    PROVE  StorageSpec => [](CreatedInv /\ ContentInv)
<1>1. StorageInit => ContentInv
  <2>. SUFFICES ASSUME StorageInit PROVE ContentInv
    OBVIOUS
  <2>1. stage = "create"  BY DEF StorageInit
  <2>2. PICK n \in OldFiles : content = [p \in paths(info) |-> filled(n, Old)]  BY DEF StorageInit
  <2>3. \A p \in paths(info) : \A b \in DOMAIN content[p] : content[p][b] \in {Old, Zero}
    BY <2>2 DEF filled
  <2>. QED  BY <2>1, <2>2, <2>3 DEF ContentInv, Sized
<1>2. CreatedInv /\ CoverInv /\ ContentInv /\ [StorageNext]_storageVars => ContentInv'
  BY ContentInductive
<1>. QED  BY <1>1, <1>2, CoverHolds, PTL DEF StorageSpec

\* Files with paths of their own: at every moment, also when create, a write or the
\* flush has failed, a byte of the torrent that write_piece has put into a file is
\* where the torrent has it, and whatever else is there is older content or zeros from set_len.
THEOREM StorageBytesInPlace == PathsDiffer => (StorageSpec => []BytesInPlace)
<1>. SUFFICES ASSUME PathsDiffer PROVE StorageSpec => []BytesInPlace
  OBVIOUS
<1>1. CreatedInv /\ ContentInv => BytesInPlace
  <2>. SUFFICES ASSUME CreatedInv, ContentInv, stage # "create", NEW f \in DOMAIN info.files,
                       NEW b \in DOMAIN FileOf(f)
                PROVE  FileOf(f)[b] < 0 \/ FileOf(f)[b] = RightByte(f, b)
    BY DEF BytesInPlace, FileOf
  <2>1. info \in Infos  BY DEF CreatedInv
  <2>2. DOMAIN info.files = 1 .. NumFiles  BY <2>1, FilesTyped DEF NumFiles
  <2>3. CASE Sized
    <3>1. FileOf(f) \in [Offsets_of(f) -> Int]
          /\ \A x \in Offsets_of(f) : FileOf(f)[x] < 0 \/ FileOf(f)[x] = RightByte(f, x)
      BY <2>2, <2>3 DEF ContentInv
    <3>. QED  BY <3>1
  <2>4. CASE ~ Sized
    <3>1. FileOf(f)[b] \in {Old, Zero}  BY <2>4 DEF ContentInv, FileOf, paths
    <3>. QED  BY <3>1 DEF Old, Zero
  <2>. QED  BY <2>3, <2>4
<1>2. StorageSpec => [](CreatedInv /\ ContentInv)  BY ContentHolds
<1>. QED  BY <1>1, <1>2, PTL

\* Every byte of the torrent belongs to a piece.
LEMMA ByteHasPiece ==
    ASSUME info \in Infos, Accepted(info), NEW g \in Nat, g < total_length(info)
    PROVE  \E i \in piece_indices(info) : InPiece(i, g)
<1>. DEFINE pl == info.piece_length
            N == num_pieces(info)
            T == total_length(info)
            q == g \div pl
<1>1. pl \in Nat \ {0} /\ N \in Nat \ {0} /\ T \in Nat  BY Sizes
<1>2. N - 1 \in piece_indices(info)  BY <1>1 DEF piece_indices
<1>3. CASE (N - 1) * pl <= g
  <2>1. piece_offset(info, N - 1) = (N - 1) * pl /\ piece_end(N - 1) = T
    BY <1>2, PieceBounds DEF piece_end, piece_offset
  <2>. QED  BY <1>2, <1>3, <2>1 DEF InPiece
<1>4. CASE ~ ((N - 1) * pl <= g)
  <2>1. q \in Nat /\ q * pl <= g /\ g < q * pl + pl  BY <1>1, DivMod
  <2>2. q < N - 1
    <3>. SUFFICES ASSUME ~ (q < N - 1) PROVE FALSE
      OBVIOUS
    <3>. HIDE DEF q, N, pl
    <3>1. (N - 1) * pl \in Int /\ q * pl \in Int  BY <1>1, <2>1
    <3>2. (N - 1) * pl <= q * pl  BY <1>1, <2>1
    <3>. QED  BY <1>4, <2>1, <3>1, <3>2
  <2>3. q \in piece_indices(info) /\ q # N - 1
    <3>. HIDE DEF q, N
    <3>. QED  BY <1>1, <2>1, <2>2 DEF piece_indices, N
  <2>4. piece_length(info, q) = pl  BY <2>3, Sizes
  <2>5. piece_offset(info, q) = q * pl /\ piece_end(q) = q * pl + pl
    BY <2>4 DEF piece_end, piece_offset
  <2>. QED  BY <2>1, <2>3, <2>5 DEF InPiece
<1>. QED  BY <1>3, <1>4

\* Files with paths of their own: when finish has flushed and no piece is
\* missing, every file is exactly its slice of the torrent, whatever was there
\* before, however the pieces lie across the files and in whatever order they came.
THEOREM StorageFilesAreSlices == PathsDiffer => (StorageSpec => []FilesAreSlices)
<1>. SUFFICES ASSUME PathsDiffer PROVE StorageSpec => []FilesAreSlices
  OBVIOUS
<1>1. CreatedInv /\ ContentInv => FilesAreSlices
  <2>. SUFFICES ASSUME CreatedInv, ContentInv, stage = "finished", todo = {},
                       NEW f \in DOMAIN info.files
                PROVE  FileOf(f) = [b \in Offsets_of(f) |-> RightByte(f, b)]
    BY DEF FilesAreSlices, FileOf, Offsets_of
  <2>1. info \in Infos /\ Accepted(info) /\ Sized  BY DEF CreatedInv, Sized
  <2>2. NumFiles \in Nat /\ DOMAIN info.files = 1 .. NumFiles /\ info.files[f].length \in Nat
    BY <2>1, FilesTyped DEF NumFiles
  <2>3. FileOf(f) \in [Offsets_of(f) -> Int] /\ \A i \in piece_indices(info) : Right(i, f)
    BY <2>1, <2>2 DEF ContentInv
  <2>4. ASSUME NEW b \in Offsets_of(f) PROVE FileOf(f)[b] = RightByte(f, b)
    <3>. DEFINE at == file_offset(info, f)
                next == file_offset(info, f + 1)
                T == total_length(info)
    <3>1. T = file_offset(info, NumFiles + 1) /\ T \in Nat  BY <2>1, Sizes DEF NumFiles
    <3>2. f + 1 \in 1 .. NumFiles + 1 /\ NumFiles + 1 \in f + 1 .. NumFiles + 1 /\ f \in 1 .. NumFiles + 1
      BY <2>2
    <3>3. next <= T  BY <2>1, <3>1, <3>2, OffsetsGrow DEF NumFiles
    <3>4. at \in Nat /\ next = at + info.files[f].length
      BY <2>1, <3>2, Offsets DEF NumFiles
    <3>5. b \in Nat /\ b < info.files[f].length  BY <2>2 DEF Offsets_of
    <3>6. at + b \in Nat /\ at + b < T
      <4>. HIDE DEF at, next, T
      <4>. QED  BY <2>2, <3>1, <3>3, <3>4, <3>5
    <3>7. PICK i \in piece_indices(info) : InPiece(i, at + b)
      <4>. HIDE DEF at
      <4>. QED  BY <2>1, <3>6, ByteHasPiece DEF T
    <3>8. InPiece(i, RightByte(f, b))  BY <3>7 DEF RightByte
    <3>. QED  BY <2>3, <3>8 DEF Right
  <2>. QED  BY <2>3, <2>4
<1>2. StorageSpec => [](CreatedInv /\ ContentInv)  BY ContentHolds
<1>. QED  BY <1>1, <1>2, PTL
=============================================================================
