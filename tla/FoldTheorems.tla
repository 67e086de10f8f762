---------------------------- MODULE FoldTheorems ----------------------------
(***************************************************************************)
(* MapThenFoldSet of the community modules is defined by a recursive       *)
(* function on the subsets of a set.  For a finite set that function       *)
(* exists, and its values have the type of the values folded.  FoldLeft    *)
(* folds the positions of a sequence this way, the largest last; it passes *)
(* through the values of its prefixes.  Numbers are folded from their      *)
(* digits, and a sequence of sequences is flattened, in the same way.      *)
(***************************************************************************)
EXTENDS SequencesExt, SequenceTheorems, FiniteSetTheorems, NaturalsInduction, TLAPS

\* `it` folds `op` over every subset of S, the elements taken in the order of c.
Folds(it, S, c, op, base) ==
    it = [s \in SUBSET S |-> IF s = {} THEN base ELSE op[<<c[s], it[s \ {c[s]}]>>]]

Chooses(c, S) == \A s \in SUBSET S : s # {} => c[s] \in s

\* A set of subsets of a finite set that is not empty has a smallest element.
LEMMA SmallestSubset ==
    ASSUME NEW S, IsFiniteSet(S), NEW T \in SUBSET (SUBSET S), T # {}
    PROVE  \E s \in T : \A u \in SUBSET s : u # s => u \notin T
<1>1. T \subseteq FiniteSubsetsOf(S)
  BY FS_Subset DEF FiniteSubsetsOf
<1>2. PICK s \in T : \A u \in T : ~ (<<u, s>> \in StrictSubsetOrdering(S))
  BY <1>1, FS_StrictSubsetOrderingWellFounded, WFMin
<1>3. ASSUME NEW u \in SUBSET s, u # s, u \in T PROVE FALSE
  BY <1>2, <1>3 DEF StrictSubsetOrdering
<1>. QED  BY <1>3

\* Two such functions agree where both are defined.
LEMMA FoldUnique ==
    ASSUME NEW S, IsFiniteSet(S), NEW c, Chooses(c, S), NEW op, NEW base,
           NEW s \in SUBSET S, NEW t \in SUBSET S,
           NEW f, Folds(f, s, c, op, base), NEW g, Folds(g, t, c, op, base),
           NEW u \in SUBSET (s \cap t)
    PROVE  f[u] = g[u]
<1>. SUFFICES ASSUME f[u] # g[u] PROVE FALSE
  OBVIOUS
<1>. DEFINE T == {v \in SUBSET (s \cap t) : f[v] # g[v]}
<1>1. T \in SUBSET (SUBSET S) /\ T # {}  OBVIOUS
<1>2. PICK v \in T : \A w \in SUBSET v : w # v => w \notin T
  <2>. HIDE DEF T
  <2>. QED  BY <1>1, SmallestSubset
<1>3. f[v] = IF v = {} THEN base ELSE op[<<c[v], f[v \ {c[v]}]>>]  BY DEF Folds
<1>4. g[v] = IF v = {} THEN base ELSE op[<<c[v], g[v \ {c[v]}]>>]  BY DEF Folds
<1>5. CASE v = {}  BY <1>3, <1>4, <1>5
<1>6. CASE v # {}
  <2>1. c[v] \in v  BY <1>6 DEF Chooses
  <2>2. v \ {c[v]} \in SUBSET v /\ v \ {c[v]} # v  BY <2>1
  <2>3. f[v \ {c[v]}] = g[v \ {c[v]}]  BY <1>2, <2>2
  <2>. QED  BY <1>3, <1>4, <1>6, <2>3
<1>. QED  BY <1>5, <1>6

\* There is such a function.
LEMMA FoldExists ==
    ASSUME NEW S, IsFiniteSet(S), NEW c, Chooses(c, S), NEW op, NEW base
    PROVE  \E it : Folds(it, S, c, op, base)
<1>. DEFINE Sol(s) == CHOOSE it : Folds(it, s, c, op, base)
            T == {s \in SUBSET S : ~ \E it : Folds(it, s, c, op, base)}
<1>. SUFFICES ASSUME T # {} PROVE FALSE
  OBVIOUS
<1>1. PICK s \in T : \A u \in SUBSET s : u # s => u \notin T
  <2>1. T \in SUBSET (SUBSET S)  OBVIOUS
  <2>. HIDE DEF T
  <2>. QED  BY <2>1, SmallestSubset
<1>2. \A u \in SUBSET s : u # s => Folds(Sol(u), u, c, op, base)
  BY <1>1
<1>. DEFINE G == [u \in SUBSET s |->
                    IF u = {} THEN base ELSE op[<<c[u], Sol(u \ {c[u]})[u \ {c[u]}]>>]]
<1>3. ASSUME NEW u \in SUBSET s, u # {} PROVE G[u \ {c[u]}] = Sol(u \ {c[u]})[u \ {c[u]}]
  <2>. DEFINE v == u \ {c[u]}
  <2>1. c[u] \in u  BY <1>3 DEF Chooses
  <2>2. v \in SUBSET s /\ v # s  BY <2>1
  <2>3. Folds(Sol(v), v, c, op, base)  BY <1>2, <2>2
  <2>4. Sol(v)[v] = IF v = {} THEN base ELSE op[<<c[v], Sol(v)[v \ {c[v]}]>>]
    <3>. HIDE DEF Sol
    <3>. QED  BY <2>3 DEF Folds
  <2>5. CASE v = {}
    <3>. HIDE DEF Sol
    <3>. QED  BY <2>2, <2>4, <2>5
  <2>6. CASE v # {}
    <3>. DEFINE w == v \ {c[v]}
    <3>1. c[v] \in v  BY <2>2, <2>6 DEF Chooses
    <3>2. w \in SUBSET s /\ w # s  BY <3>1
    <3>3. Folds(Sol(w), w, c, op, base)  BY <1>2, <3>2
    <3>4. Sol(v)[w] = Sol(w)[w]
      <4>. HIDE DEF Sol, v
      <4>. QED  BY <2>2, <2>3, <3>2, <3>3, FoldUnique
    <3>5. G[v] = op[<<c[v], Sol(w)[w]>>]
      <4>. HIDE DEF Sol
      <4>. QED  BY <2>2, <2>6
    <3>. QED  BY <2>4, <2>6, <3>4, <3>5
  <2>. QED  BY <2>5, <2>6
<1>4. Folds(G, s, c, op, base)
  <2>1. G = [u \in SUBSET s |-> IF u = {} THEN base ELSE op[<<c[u], G[u \ {c[u]}]>>]]
    <3>1. ASSUME NEW u \in SUBSET s
          PROVE  G[u] = IF u = {} THEN base ELSE op[<<c[u], G[u \ {c[u]}]>>]
      <4>. HIDE DEF Sol
      <4>. QED  BY <1>3
    <3>. HIDE DEF Sol
    <3>2. G = [u \in SUBSET s |-> G[u]]  OBVIOUS
    <3>. HIDE DEF G
    <3>. QED  BY <3>1, <3>2
  <2>. HIDE DEF G
  <2>. QED  BY <2>1 DEF Folds
<1>. QED  BY <1>1, <1>4

\* What a fold returns is a value of V if the base is and each step leads to one.
LEMMA FoldType ==
    ASSUME NEW S, IsFiniteSet(S), NEW c, Chooses(c, S), NEW op, NEW base, NEW V,
           base \in V, \A x \in S, v \in V : op[<<x, v>>] \in V,
           NEW it, Folds(it, S, c, op, base)
    PROVE  it \in [SUBSET S -> V]
<1>1. it = [s \in SUBSET S |-> it[s]]  BY DEF Folds
<1>2. \A s \in SUBSET S : it[s] = IF s = {} THEN base ELSE op[<<c[s], it[s \ {c[s]}]>>]
  BY DEF Folds
<1>3. ASSUME NEW w \in SUBSET S, it[w] \notin V PROVE FALSE
  <2>. DEFINE T == {s \in SUBSET S : it[s] \notin V}
  <2>1. T \in SUBSET (SUBSET S) /\ T # {}  BY <1>3
  <2>2. PICK s \in T : \A u \in SUBSET s : u # s => u \notin T
    <3>. HIDE DEF T
    <3>. QED  BY <2>1, SmallestSubset
  <2>3. s # {}  BY <1>2
  <2>4. c[s] \in s  BY <2>3 DEF Chooses
  <2>5. it[s \ {c[s]}] \in V  BY <2>2, <2>4
  <2>. QED  BY <1>2, <2>3, <2>4, <2>5
<1>. QED  BY <1>1, <1>3

\* The sum of the numbers f[x] over every subset of S, as MapThenSumSet takes it.
pick(s) == CHOOSE x \in s : TRUE
Sums(it, S, f) ==
    it = [s \in SUBSET S |-> IF s = {} THEN 0 ELSE f[pick(s)] + it[s \ {pick(s)}]]

\* The numbers of a finite set have a sum, and it is a natural number.
LEMMA SumExists ==
    ASSUME NEW S, IsFiniteSet(S), NEW f \in [S -> Nat]
    PROVE  \E it : Sums(it, S, f)
<1>. DEFINE c == [s \in SUBSET S |-> pick(s)]
            op == [p \in S \X Nat |-> f[p[1]] + p[2]]
<1>1. Chooses(c, S) /\ \A s \in SUBSET S : c[s] = pick(s)  BY DEF Chooses, pick
<1>2. \A x \in S, v \in Nat : op[<<x, v>>] = f[x] + v /\ op[<<x, v>>] \in Nat  OBVIOUS
<1>. HIDE DEF c, op
<1>3. PICK it : Folds(it, S, c, op, 0)  BY <1>1, FoldExists
<1>4. it \in [SUBSET S -> Nat]  BY <1>1, <1>2, <1>3, FoldType
<1>5. ASSUME NEW s \in SUBSET S
      PROVE  it[s] = IF s = {} THEN 0 ELSE f[pick(s)] + it[s \ {pick(s)}]
  <2>1. it[s] = IF s = {} THEN 0 ELSE op[<<c[s], it[s \ {c[s]}]>>]  BY <1>3 DEF Folds
  <2>2. s # {} => c[s] \in S /\ it[s \ {c[s]}] \in Nat  BY <1>1, <1>4 DEF Chooses
  <2>. QED  BY <1>1, <1>2, <2>1, <2>2
<1>6. it = [s \in SUBSET S |-> it[s]]  BY <1>4
<1>. QED  BY <1>5, <1>6 DEF Sums

LEMMA SumType ==
    ASSUME NEW S, IsFiniteSet(S), NEW f \in [S -> Nat], NEW it, Sums(it, S, f)
    PROVE  it \in [SUBSET S -> Nat]
<1>1. \A s \in SUBSET S : it[s] = IF s = {} THEN 0 ELSE f[pick(s)] + it[s \ {pick(s)}]
  BY DEF Sums
<1>2. ASSUME NEW w \in SUBSET S, it[w] \notin Nat PROVE FALSE
  <2>. DEFINE T == {s \in SUBSET S : it[s] \notin Nat}
  <2>1. T \in SUBSET (SUBSET S) /\ T # {}  BY <1>2
  <2>2. PICK s \in T : \A u \in SUBSET s : u # s => u \notin T
    <3>. HIDE DEF T
    <3>. QED  BY <2>1, SmallestSubset
  <2>3. s \in SUBSET S /\ it[s] \notin Nat  OBVIOUS
  <2>. HIDE DEF T
  <2>4. s # {} /\ pick(s) \in s  BY <1>1, <2>3 DEF pick
  <2>5. s \ {pick(s)} \notin T /\ s \ {pick(s)} \in SUBSET S  BY <2>2, <2>3, <2>4
  <2>6. it[s \ {pick(s)}] \in Nat  BY <2>5 DEF T
  <2>. QED  BY <1>1, <2>3, <2>4, <2>6
<1>3. it = [s \in SUBSET S |-> it[s]]  BY DEF Sums
<1>. QED  BY <1>2, <1>3

LEMMA SumOfZeros ==
    ASSUME NEW S, IsFiniteSet(S), NEW f, \A x \in S : f[x] = 0, NEW it, Sums(it, S, f)
    PROVE  it[S] = 0
<1>1. \A s \in SUBSET S : it[s] = IF s = {} THEN 0 ELSE f[pick(s)] + it[s \ {pick(s)}]
  BY DEF Sums
<1>2. ASSUME it[S] # 0 PROVE FALSE
  <2>. DEFINE T == {s \in SUBSET S : it[s] # 0}
  <2>1. T \in SUBSET (SUBSET S) /\ T # {}  BY <1>2
  <2>2. PICK s \in T : \A u \in SUBSET s : u # s => u \notin T
    <3>. HIDE DEF T
    <3>. QED  BY <2>1, SmallestSubset
  <2>3. s \in SUBSET S /\ it[s] # 0  OBVIOUS
  <2>. HIDE DEF T
  <2>4. s # {} /\ pick(s) \in s  BY <1>1, <2>3 DEF pick
  <2>5. s \ {pick(s)} \notin T /\ s \ {pick(s)} \in SUBSET S  BY <2>2, <2>3, <2>4
  <2>6. it[s \ {pick(s)}] = 0  BY <2>5 DEF T
  <2>. QED  BY <1>1, <2>3, <2>4, <2>6
<1>. QED  BY <1>2

\* A sum follows the change of one of its numbers.
LEMMA SumUpdate ==
    ASSUME NEW S, IsFiniteSet(S), NEW f \in [S -> Nat], NEW g \in [S -> Nat], NEW p \in S,
           \A q \in S : q # p => f[q] = g[q],
           NEW it, Sums(it, S, f), NEW jt, Sums(jt, S, g)
    PROVE  jt[S] + f[p] = it[S] + g[p]
<1>. DEFINE Good(s) == IF p \in s THEN jt[s] + f[p] = it[s] + g[p] ELSE jt[s] = it[s]
            T == {s \in SUBSET S : ~ Good(s)}
<1>1. it \in [SUBSET S -> Nat] /\ jt \in [SUBSET S -> Nat]  BY SumType
<1>2. \A s \in SUBSET S :
          /\ it[s] = IF s = {} THEN 0 ELSE f[pick(s)] + it[s \ {pick(s)}]
          /\ jt[s] = IF s = {} THEN 0 ELSE g[pick(s)] + jt[s \ {pick(s)}]
  BY DEF Sums
<1>3. ASSUME T # {} PROVE FALSE
  <2>1. T \in SUBSET (SUBSET S)  OBVIOUS
  <2>2. PICK s \in T : \A u \in SUBSET s : u # s => u \notin T
    <3>. HIDE DEF T
    <3>. QED  BY <1>3, <2>1, SmallestSubset
  <2>3. s \in SUBSET S /\ ~ Good(s)  OBVIOUS
  <2>4. s # {}  BY <1>2, <2>3
  <2>5. pick(s) \in s  BY <2>4 DEF pick
  <2>. DEFINE x == pick(s)
              u == s \ {x}
  <2>6. u \in SUBSET s /\ u # s /\ u \in SUBSET S  BY <2>3, <2>5
  <2>7. Good(u)
    <3>1. u \notin T  BY <2>2, <2>6
    <3>. QED  BY <2>6, <3>1
  <2>8. it[s] = f[x] + it[u] /\ jt[s] = g[x] + jt[u]  BY <1>2, <2>3, <2>4
  <2>9. x \in S /\ it[u] \in Nat /\ jt[u] \in Nat /\ f[x] \in Nat /\ g[x] \in Nat
        /\ f[p] \in Nat /\ g[p] \in Nat
    BY <1>1, <2>3, <2>5, <2>6
  <2>10. x # p => (p \in u <=> p \in s) /\ f[x] = g[x]  BY <2>9
  <2>11. x = p => p \in s /\ p \notin u  BY <2>5
  <2>. HIDE DEF x, u, T
  <2>12. CASE x = p  BY <2>3, <2>7, <2>8, <2>9, <2>11, <2>12
  <2>13. CASE x # p  BY <2>3, <2>7, <2>8, <2>9, <2>10, <2>13
  <2>. QED  BY <2>12, <2>13
<1>. QED  BY <1>3

(***************************************************************************)
(* Folding a sequence from the left.                                       *)
(***************************************************************************)
\* A set of naturals that is not empty has a least element.
LEMMA LeastNat ==
    ASSUME NEW T \in SUBSET Nat, T # {}
    PROVE  \E k \in T : \A j \in Nat : j < k => j \notin T
<1>1. PICK x \in T : TRUE  OBVIOUS
<1>2. PICK k \in T : \A j \in T : ~(<<j, k>> \in OpToRel(<, Nat))
  BY NatLessThanWellFounded, WFMin
<1>. QED  BY <1>2 DEF OpToRel

\* A set of positions has a largest element.
LEMMA LargestOf ==
    ASSUME NEW n \in Nat, NEW s \in SUBSET (1 .. n), s # {}
    PROVE  Max(s) \in s /\ \A y \in s : y <= Max(s)
<1>. DEFINE T == {d \in Nat : n - d \in s}
<1>1. T \in SUBSET Nat  OBVIOUS
<1>2. T # {}
  <2>1. PICK x \in s : TRUE  OBVIOUS
  <2>2. n - x \in Nat /\ n - (n - x) = x  OBVIOUS
  <2>. QED  BY <2>2
<1>3. PICK d \in T : \A j \in Nat : j < d => j \notin T
  <2>. HIDE DEF T
  <2>. QED  BY <1>1, <1>2, LeastNat
<1>4. ASSUME NEW y \in s PROVE n - d >= y
  <2>1. n - y \in T  OBVIOUS
  <2>. QED  BY <1>3, <2>1
<1>5. \E x \in s : \A y \in s : x >= y  BY <1>4
<1>6. Max(s) \in s /\ \A y \in s : Max(s) >= y  BY <1>5 DEF Max
<1>. QED  BY <1>6

\* The largest position of a prefix is its last.
LEMMA LargestOfPrefix ==
    ASSUME NEW k \in Nat \ {0}
    PROVE  Max(1 .. k) = k /\ (1 .. k) \ {Max(1 .. k)} = 1 .. (k - 1)
<1>. DEFINE s == 1 .. k
<1>1. s \in SUBSET (1 .. k) /\ s # {} /\ k \in s  OBVIOUS
<1>. HIDE DEF s
<1>2. Max(s) \in s /\ \A y \in s : y <= Max(s)  BY <1>1, LargestOf
<1>3. Max(s) = k  BY <1>1, <1>2 DEF s
<1>. QED  BY <1>3 DEF s

\* Folding the positions of a sequence from the left is well defined: `step` says
\* what becomes of a value at a position.
Accumulates(it, n, base, step) ==
    it = [s \in SUBSET (1 .. n) |->
            IF s = {} THEN base ELSE step[<<it[s \ {Max(s)}], Max(s)>>]]

\* There is a function that accumulates over the sets of positions.
LEMMA AccumulationExists ==
    ASSUME NEW n \in Nat, NEW V, NEW base \in V, NEW step \in [V \X (1 .. n) -> V]
    PROVE  \E it \in [SUBSET (1 .. n) -> V] : Accumulates(it, n, base, step)
<1>. DEFINE S == 1 .. n
            c == [s \in SUBSET S |-> Max(s)]
            op == [p \in S \X V |-> step[<<p[2], p[1]>>]]
<1>1. IsFiniteSet(S)  BY FS_Interval
<1>2. Chooses(c, S) /\ \A s \in SUBSET S : c[s] = Max(s)
  <2>1. ASSUME NEW s \in SUBSET S, s # {} PROVE Max(s) \in s  BY <2>1, LargestOf
  <2>. QED  BY <2>1 DEF Chooses
<1>3. \A x \in S, v \in V : op[<<x, v>>] = step[<<v, x>>] /\ op[<<x, v>>] \in V
  OBVIOUS
<1>. HIDE DEF c, op, S
<1>4. PICK it : Folds(it, S, c, op, base)  BY <1>1, <1>2, FoldExists
<1>5. it \in [SUBSET S -> V]  BY <1>1, <1>2, <1>3, <1>4, FoldType
<1>6. ASSUME NEW s \in SUBSET S
      PROVE  it[s] = IF s = {} THEN base ELSE step[<<it[s \ {Max(s)}], Max(s)>>]
  <2>1. it[s] = IF s = {} THEN base ELSE op[<<c[s], it[s \ {c[s]}]>>]  BY <1>4 DEF Folds
  <2>2. s # {} => c[s] \in S /\ it[s \ {c[s]}] \in V  BY <1>2, <1>5 DEF Chooses
  <2>. QED  BY <1>2, <1>3, <2>1, <2>2
<1>7. it = [s \in SUBSET S |-> it[s]]  BY <1>5
<1>. QED  BY <1>5, <1>6, <1>7 DEF Accumulates, S

\* The values a fold over the positions 1 .. n passes through.
Steps(r, n, step) == \A k \in 1 .. n : r[k] = step[<<r[k - 1], k>>]
Run(r, n, V, base, step) ==
    /\ r \in [0 .. n -> V]
    /\ r[0] = base
    /\ Steps(r, n, step)

RunTo(v, r, n, V, base, step) == Run(r, n, V, base, step) /\ r[n] = v

\* A recursive function takes these steps, as long as it stays in V.
Iterates(it, n, V, base, step) ==
    /\ it[{}] = base
    /\ \A s \in SUBSET (1 .. n) : s # {} /\ it[s \ {Max(s)}] \in V =>
            it[s] = step[<<it[s \ {Max(s)}], Max(s)>>]

\* They are what the recursive function is at the prefixes.
LEMMA PrefixesRun ==
    ASSUME NEW n \in Nat, NEW V, NEW base \in V, NEW step \in [V \X (1 .. n) -> V],
           NEW it, Iterates(it, n, V, base, step)
    PROVE  \E r : RunTo(it[1 .. n], r, n, V, base, step)
<1>. DEFINE r == [k \in 0 .. n |-> it[1 .. k]]
<1>1. r[0] = base
  <2>1. 1 .. 0 = {} /\ r[0] = it[1 .. 0]  OBVIOUS
  <2>. QED  BY <2>1 DEF Iterates
<1>2. ASSUME NEW k \in 1 .. n, r[k - 1] \in V
      PROVE  r[k] = step[<<r[k - 1], k>>] /\ r[k] \in V
  <2>1. k \in Nat \ {0} /\ k \in 0 .. n /\ k - 1 \in 0 .. n  OBVIOUS
  <2>2. 1 .. k \in SUBSET (1 .. n) /\ 1 .. k # {}  OBVIOUS
  <2>3. r[k] = it[1 .. k] /\ r[k - 1] = it[1 .. (k - 1)]  BY <2>1
  <2>4. Max(1 .. k) = k /\ (1 .. k) \ {Max(1 .. k)} = 1 .. (k - 1)  BY <2>1, LargestOfPrefix
  <2>. HIDE DEF r
  <2>. QED  BY <1>2, <2>2, <2>3, <2>4 DEF Iterates
<1>3. DOMAIN r = 0 .. n  OBVIOUS
<1>4. ASSUME NEW x \in 0 .. n, r[x] \notin V PROVE FALSE
  <2>. DEFINE T == {j \in 0 .. n : r[j] \notin V}
  <2>. HIDE DEF r
  <2>1. PICK j \in T : \A m \in Nat : m < j => m \notin T
    <3>1. T \in SUBSET Nat /\ T # {}  BY <1>4
    <3>. HIDE DEF T
    <3>. QED  BY <3>1, LeastNat
  <2>2. j # 0  BY <1>1
  <2>3. j - 1 \in 0 .. n /\ j \in 1 .. n /\ j - 1 < j /\ j - 1 \in Nat  BY <2>2
  <2>4. r[j - 1] \in V  BY <2>1, <2>3
  <2>. QED  BY <1>2, <2>1, <2>3, <2>4
<1>5. r \in [0 .. n -> V]  BY <1>4
<1>6. ASSUME NEW k \in 1 .. n PROVE r[k] = step[<<r[k - 1], k>>]
  <2>1. k - 1 \in 0 .. n  OBVIOUS
  <2>. HIDE DEF r
  <2>. QED  BY <1>2, <1>5, <2>1
<1>7. r[n] = it[1 .. n]  OBVIOUS
<1>. HIDE DEF r
<1>8. Run(r, n, V, base, step)  BY <1>1, <1>5, <1>6 DEF Run, Steps
<1>. QED  BY <1>7, <1>8 DEF RunTo

\* Two runs of the same steps agree as far as both go.
LEMMA RunsAgree ==
    ASSUME NEW n \in Nat, NEW step, NEW r, NEW q, r[0] = q[0],
           Steps(r, n, step), Steps(q, n, step)
    PROVE  \A k \in 0 .. n : r[k] = q[k]
<1>. DEFINE T == {k \in 0 .. n : r[k] # q[k]}
<1>. SUFFICES ASSUME T # {} PROVE FALSE
  OBVIOUS
<1>1. PICK k \in T : \A j \in Nat : j < k => j \notin T
  <2>1. T \in SUBSET Nat  OBVIOUS
  <2>. HIDE DEF T
  <2>. QED  BY <2>1, LeastNat
<1>2. k # 0  OBVIOUS
<1>3. k - 1 \in 0 .. n /\ k \in 1 .. n /\ k - 1 < k /\ k - 1 \in Nat  BY <1>2
<1>4. r[k - 1] = q[k - 1]  BY <1>1, <1>3
<1>. QED  BY <1>1, <1>3, <1>4 DEF Steps

(***************************************************************************)
(* Division, powers and digits.                                            *)
(***************************************************************************)
\* Quotient and remainder.
LEMMA DivMod ==
    ASSUME NEW n \in Nat, NEW d \in Nat \ {0}
    PROVE  /\ n \div d \in Nat /\ n % d \in 0 .. d - 1
           /\ n = (n \div d) * d + (n % d)
           /\ (n \div d) * d <= n /\ n < (n \div d) * d + d
           /\ n % d = 0 => n = (n \div d) * d
<1>1. n \div d \in Nat /\ n % d \in 0 .. d - 1  OBVIOUS
<1>2. n = (n \div d) * d + (n % d)  OBVIOUS
<1>3. (n \div d) * d <= n  OBVIOUS
<1>4. n < (n \div d) * d + d  OBVIOUS
<1>5. n % d = 0 => n = (n \div d) * d  OBVIOUS
<1>. QED  BY <1>1, <1>2, <1>3, <1>4, <1>5

\* The quotient of k by d is q exactly for the d numbers from q * d on.
LEMMA DivIs ==
    ASSUME NEW k \in Nat, NEW d \in Nat \ {0}, NEW q \in Nat
    PROVE  k \div d = q <=> q * d <= k /\ k < q * d + d
<1>. DEFINE p == k \div d
<1>1. p \in Nat /\ p * d <= k /\ k < p * d + d  BY DivMod
<1>. HIDE DEF p
<1>2. q < p => q * d + d <= p * d  BY <1>1
<1>3. p < q => p * d + d <= q * d  BY <1>1
<1>4. p * d \in Nat /\ q * d \in Nat  BY <1>1
<1>5. p = q <=> q * d <= k /\ k < q * d + d  BY <1>1, <1>2, <1>3, <1>4
<1>. QED  BY <1>5 DEF p

\* Powers of two, from the library's theorem on the number of subsets.
LEMMA PowerOfTwo ==
    /\ 2^0 = 1
    /\ \A n \in Nat : 2^n \in Nat \ {0} /\ 2^(n + 1) = 2 * 2^n
<1>1. ASSUME NEW n \in Nat
      PROVE  2^n \in Nat /\ IsFiniteSet(SUBSET (1 .. n)) /\ Cardinality(SUBSET (1 .. n)) = 2^n
  <2>1. IsFiniteSet(1 .. n) /\ Cardinality(1 .. n) = n
    <3>1. Cardinality(1 .. n) = IF 1 > n THEN 0 ELSE n - 1 + 1  BY FS_Interval
    <3>2. IsFiniteSet(1 .. n)  BY FS_Interval
    <3>. QED  BY <3>1, <3>2
  <2>2. IsFiniteSet(SUBSET (1 .. n)) /\ Cardinality(SUBSET (1 .. n)) = 2^n  BY <2>1, FS_SUBSET
  <2>. QED  BY <2>2, FS_CardinalityType
<1>2. 2^0 = 1
  <2>1. SUBSET (1 .. 0) = {{}}  OBVIOUS
  <2>2. Cardinality({{}}) = 1  BY FS_Singleton
  <2>3. Cardinality(SUBSET (1 .. 0)) = 2^0  BY <1>1
  <2>. QED  BY <2>1, <2>2, <2>3
<1>3. ASSUME NEW n \in Nat PROVE 2^(n + 1) = 2 * 2^n
  <2>. DEFINE S == SUBSET (1 .. n)
              x == n + 1
              T == {s \in SUBSET (1 .. n + 1) : x \in s}
              f == [s \in S |-> s \cup {x}]
  <2>1. SUBSET (1 .. n + 1) = S \cup T /\ S \cap T = {}
    <3>1. \A s \in SUBSET (1 .. n + 1) : x \notin s => s \in S  OBVIOUS
    <3>2. \A s \in S : s \in SUBSET (1 .. n + 1) /\ x \notin s  OBVIOUS
    <3>. HIDE DEF x, S
    <3>. QED  BY <3>1, <3>2
  <2>2. f \in Bijection(S, T)
    <3>1. \A s \in S : x \notin s /\ s \cup {x} \in T  OBVIOUS
    <3>2. \A t \in T : t \ {x} \in S /\ (t \ {x}) \cup {x} = t  OBVIOUS
    <3>. HIDE DEF x, S, T
    <3>3. f \in [S -> T]  BY <3>1
    <3>4. \A a, b \in S : f[a] = f[b] => a = b
      <4>. TAKE a, b \in S
      <4>1. f[a] = a \cup {x} /\ f[b] = b \cup {x} /\ x \notin a /\ x \notin b  BY <3>1
      <4>. QED  BY <4>1
    <3>5. \A t \in T : \E s \in S : f[s] = t
      <4>. TAKE t \in T
      <4>1. f[t \ {x}] = t  BY <3>2
      <4>. QED  BY <3>2, <4>1
    <3>. HIDE DEF f
    <3>6. f \in Injection(S, T)  BY <3>3, <3>4 DEF Injection, IsInjective
    <3>7. f \in Surjection(S, T)  BY <3>3, <3>5 DEF Surjection
    <3>. QED  BY <3>6, <3>7 DEF Bijection
  <2>3. IsFiniteSet(S) /\ Cardinality(S) = 2^n /\ 2^n \in Nat  BY <1>1
  <2>4. n + 1 \in Nat /\ Cardinality(SUBSET (1 .. n + 1)) = 2^(n + 1)  BY <1>1
  <2>. HIDE DEF S, T, f
  <2>5. IsFiniteSet(T) /\ Cardinality(T) = Cardinality(S)
    <3>1. ExistsBijection(S, T)  BY <2>2 DEF ExistsBijection
    <3>. QED  BY <2>3, <3>1, FS_Bijection
  <2>6. Cardinality(S \cup T) = Cardinality(S) + Cardinality(T) - Cardinality(S \cap T)
    BY <2>3, <2>5, FS_Union
  <2>7. Cardinality(S \cap T) = 0  BY <2>1, FS_EmptySet
  <2>8. 2^(n + 1) = Cardinality(S \cup T)  BY <2>1, <2>4
  <2>. QED  BY <2>3, <2>5, <2>6, <2>7, <2>8
<1>4. ASSUME NEW n \in Nat PROVE 2^n # 0
  <2>. DEFINE U == {k \in Nat : 2^k = 0}
  <2>. SUFFICES ASSUME U # {} PROVE FALSE
    OBVIOUS
  <2>1. PICK k \in U : \A j \in Nat : j < k => j \notin U
    <3>1. U \in SUBSET Nat  OBVIOUS
    <3>. HIDE DEF U
    <3>. QED  BY <3>1, LeastNat
  <2>2. k # 0
    <3>1. 2^k = 0  OBVIOUS
    <3>2. k = 0 => 2^0 = 0  BY <3>1
    <3>. QED  BY <1>2, <3>2
  <2>3. k \in Nat /\ k - 1 \in Nat /\ k - 1 < k /\ (k - 1) + 1 = k  BY <2>2
  <2>4. 2^((k - 1) + 1) = 2 * 2^(k - 1)  BY <1>3, <2>3
  <2>5. 2^k = 2 * 2^(k - 1)  BY <2>3, <2>4
  <2>6. 2^(k - 1) \in Nat /\ 2^(k - 1) # 0  BY <1>1, <2>1, <2>3
  <2>7. 2^k = 0  OBVIOUS
  <2>. HIDE DEF U
  <2>. DEFINE p == 2^(k - 1)
  <2>8. p \in Nat /\ p # 0 /\ 2 * p = 0  BY <2>5, <2>6, <2>7
  <2>. HIDE DEF p
  <2>. QED  BY <2>8
<1>. QED  BY <1>1, <1>2, <1>3, <1>4

\* A larger power of two is an even multiple of a smaller one.
LEMMA EvenMultiple ==
    ASSUME NEW m \in Nat, NEW n \in Nat, m < n
    PROVE  \E c \in Nat : 2^n = (2 * c) * 2^m
<1>. DEFINE even(k) == \E c \in Nat : 2^k = (2 * c) * 2^m
            T == {k \in Nat : m < k /\ ~ even(k)}
<1>1. 2^m \in Nat  BY PowerOfTwo
<1>2. even(m + 1)
  <2>1. 2^(m + 1) = 2 * 2^m  BY PowerOfTwo
  <2>2. 2^(m + 1) = (2 * 1) * 2^m  BY <1>1, <2>1
  <2>. QED  BY <2>2
<1>3. ASSUME NEW k \in Nat, even(k) PROVE even(k + 1)
  <2>1. PICK c \in Nat : 2^k = (2 * c) * 2^m  BY <1>3
  <2>2. 2^(k + 1) = 2 * 2^k  BY PowerOfTwo
  <2>3. 2 * ((2 * c) * 2^m) = (2 * (2 * c)) * 2^m  BY <1>1
  <2>4. 2 * c \in Nat  OBVIOUS
  <2>. QED  BY <2>1, <2>2, <2>3, <2>4
<1>. HIDE DEF even
<1>4. T = {}
  <2>. SUFFICES ASSUME T # {} PROVE FALSE
    OBVIOUS
  <2>1. PICK k \in T : \A j \in Nat : j < k => j \notin T
    <3>1. T \in SUBSET Nat  OBVIOUS
    <3>. HIDE DEF T
    <3>. QED  BY <3>1, LeastNat
  <2>2. k # m + 1  BY <1>2
  <2>3. k - 1 \in Nat /\ k - 1 < k /\ (k - 1) + 1 = k /\ m < k - 1  BY <2>2
  <2>4. even(k - 1)  BY <2>1, <2>3
  <2>5. even((k - 1) + 1)  BY <1>3, <2>3, <2>4
  <2>. QED  BY <2>3, <2>5
<1>5. even(n)  BY <1>4
<1>. QED  BY <1>5 DEF even

\* Dividing twice.
LEMMA DivDiv ==
    ASSUME NEW n \in Nat, NEW a \in Nat \ {0}, NEW r \in Nat \ {0}
    PROVE  (n \div a) \div r = n \div (r * a)
<1>. DEFINE x == n \div a
            y == x \div r
            e == r * a
<1>1. x \in Nat /\ x * a <= n /\ n < x * a + a  BY DivMod
<1>. HIDE DEF x
<1>2. y \in Nat /\ y * r <= x /\ x < y * r + r  BY <1>1, DivMod
<1>. HIDE DEF y
<1>3. e \in Nat \ {0}  OBVIOUS
<1>4. y * e = (y * r) * a /\ y * e + e = (y * r + r) * a  BY <1>2
<1>5. (y * r) * a <= x * a  BY <1>1, <1>2
<1>6. x + 1 <= y * r + r  BY <1>1, <1>2
<1>7. (x + 1) * a <= (y * r + r) * a  BY <1>1, <1>2, <1>6
<1>8. (x + 1) * a = x * a + a /\ x * a \in Nat /\ (y * r) * a \in Nat  BY <1>1, <1>2
<1>9. y * e <= n /\ n < y * e + e  BY <1>1, <1>4, <1>5, <1>7, <1>8
<1>. HIDE DEF e
<1>10. n \div e = y  BY <1>2, <1>3, <1>9, DivIs
<1>. QED  BY <1>10 DEF e, y, x

\* Numbers of w digits with radix r.  The powers of the radix are a function here.
Powers(P, r, w) ==
    /\ P \in [0 .. w -> Nat \ {0}]
    /\ P[0] = 1
    /\ \A k \in 0 .. w - 1 : P[k + 1] = r * P[k]

\* One digit more.
horner(r, ds) == [p \in Nat \X DOMAIN ds |-> p[1] * r + ds[p[2]]]
Horner(v, r, w, ds) == v \in [0 .. w -> Nat] /\ v[0] = 0 /\ \A k \in 1 .. w : v[k] = v[k - 1] * r + ds[k]

\* The digits can be read off the number.
LEMMA DigitsOfNumber ==
    ASSUME NEW r \in Nat \ {0}, NEW w \in Nat,
           NEW ds, \A k \in 1 .. w : ds[k] \in 0 .. r - 1, NEW P, Powers(P, r, w), NEW v, Horner(v, r, w, ds)
    PROVE  \A k \in 1 .. w : (v[w] \div P[w - k]) % r = ds[k]
<1>. DEFINE T == {j \in 0 .. w : v[w] \div P[j] # v[w - j]}
<1>0. /\ \A k \in 0 .. w : v[k] \in Nat /\ P[k] \in Nat \ {0}
      /\ v[0] = 0 /\ P[0] = 1 /\ \A k \in 1 .. w : v[k] = v[k - 1] * r + ds[k]
      /\ \A k \in 0 .. w - 1 : P[k + 1] = r * P[k]
      /\ \A k \in 1 .. w : ds[k] \in 0 .. r - 1
  BY DEF Horner, Powers
<1>1. ASSUME NEW k \in 1 .. w PROVE v[k] \div r = v[k - 1] /\ v[k] % r = ds[k]
  <2>1. k - 1 \in 0 .. w /\ k \in 0 .. w  OBVIOUS
  <2>. DEFINE a == v[k - 1]
              d == ds[k]
  <2>2. a \in Nat /\ d \in 0 .. r - 1 /\ v[k] = a * r + d /\ v[k] \in Nat  BY <1>0, <2>1
  <2>. HIDE DEF a, d
  <2>3. a * r \in Nat  BY <2>2
  <2>4. v[k] \div r = a
    <3>1. a * r <= v[k] /\ v[k] < a * r + r  BY <2>2, <2>3
    <3>. QED  BY <2>2, <3>1, DivIs
  <2>5. v[k] = (v[k] \div r) * r + (v[k] % r) /\ v[k] % r \in 0 .. r - 1  BY <2>2, DivMod
  <2>6. v[k] % r = d
    <3>. DEFINE c == a * r
                m == v[k] % r
    <3>1. v[k] = c + m /\ m \in Int  BY <2>4, <2>5
    <3>2. v[k] = c + d /\ c \in Int /\ d \in Int  BY <2>2, <2>3
    <3>. HIDE DEF c, m
    <3>3. m = d  BY <3>1, <3>2
    <3>. QED  BY <3>3 DEF m
  <2>. QED  BY <2>4, <2>6 DEF a, d
<1>2. T = {}
  <2>. SUFFICES ASSUME T # {} PROVE FALSE
    OBVIOUS
  <2>1. PICK j \in T : \A i \in Nat : i < j => i \notin T
    <3>1. T \in SUBSET Nat  OBVIOUS
    <3>. HIDE DEF T
    <3>. QED  BY <3>1, LeastNat
  <2>2. j # 0
    <3>1. w \in 0 .. w /\ w - 0 = w  OBVIOUS
    <3>2. v[w] \in Nat  BY <1>0, <3>1
    <3>3. v[w] \div 1 = v[w]  BY <3>2
    <3>. QED  BY <1>0, <3>1, <3>3
  <2>3. /\ j - 1 \in 0 .. w /\ j - 1 \in Nat /\ j - 1 < j /\ j - 1 \in 0 .. w - 1 /\ (j - 1) + 1 = j
        /\ w - (j - 1) \in 1 .. w /\ (w - (j - 1)) - 1 = w - j /\ w \in 0 .. w
    BY <2>2
  <2>4. v[w] \div P[j - 1] = v[w - (j - 1)]  BY <2>1, <2>3
  <2>5. P[j] = r * P[j - 1]  BY <1>0, <2>3
  <2>6. v[w] \in Nat /\ P[j - 1] \in Nat \ {0}  BY <1>0, <2>3
  <2>7. (v[w] \div P[j - 1]) \div r = v[w] \div (r * P[j - 1])  BY <2>6, DivDiv
  <2>8. v[w - (j - 1)] \div r = v[w - j]  BY <1>1, <2>3
  <2>9. v[w] \div P[j] = v[w - j]  BY <2>4, <2>5, <2>7, <2>8
  <2>. QED  BY <2>9
<1>3. ASSUME NEW k \in 1 .. w PROVE (v[w] \div P[w - k]) % r = ds[k]
  <2>1. w - k \in 0 .. w /\ w - (w - k) = k  OBVIOUS
  <2>2. v[w] \div P[w - k] = v[k]  BY <1>2, <2>1
  <2>. QED  BY <1>1, <2>2
<1>. QED  BY <1>3

\* The number can be put together from its digits.
LEMMA NumberOfDigits ==
    ASSUME NEW r \in Nat \ {0}, NEW w \in Nat, NEW P, Powers(P, r, w),
           NEW n \in Nat, n < P[w], NEW ds,
           \A k \in 1 .. w : ds[k] = (n \div P[w - k]) % r,
           NEW v, Horner(v, r, w, ds)
    PROVE  v[w] = n
<1>. DEFINE T == {k \in 0 .. w : v[k] # n \div P[w - k]}
<1>0. /\ \A k \in 0 .. w : P[k] \in Nat \ {0}
      /\ v[0] = 0 /\ P[0] = 1 /\ \A k \in 1 .. w : v[k] = v[k - 1] * r + ds[k]
      /\ \A k \in 0 .. w - 1 : P[k + 1] = r * P[k]
  BY DEF Horner, Powers
<1>1. T = {}
  <2>. SUFFICES ASSUME T # {} PROVE FALSE
    OBVIOUS
  <2>1. PICK k \in T : \A i \in Nat : i < k => i \notin T
    <3>1. T \in SUBSET Nat  OBVIOUS
    <3>. HIDE DEF T
    <3>. QED  BY <3>1, LeastNat
  <2>2. k # 0
    <3>1. w \in 0 .. w /\ w - 0 = w  OBVIOUS
    <3>2. P[w] \in Nat \ {0}  BY <1>0, <3>1
    <3>3. n \div P[w] = 0
      <4>1. 0 * P[w] <= n /\ n < 0 * P[w] + P[w]  BY <3>2
      <4>. QED  BY <3>2, <4>1, DivIs
    <3>. QED  BY <1>0, <3>1, <3>3
  <2>3. /\ k - 1 \in 0 .. w /\ k - 1 \in Nat /\ k - 1 < k /\ k \in 1 .. w
        /\ w - k \in 0 .. w - 1 /\ w - k \in 0 .. w /\ (w - k) + 1 = w - (k - 1)
    BY <2>2
  <2>. DEFINE a == P[w - k]
              x == n \div a
  <2>4. v[k - 1] = n \div P[w - (k - 1)]  BY <2>1, <2>3
  <2>5. P[w - (k - 1)] = r * a /\ a \in Nat \ {0}  BY <1>0, <2>3
  <2>6. v[k - 1] = x \div r  BY <2>4, <2>5, DivDiv
  <2>7. v[k] = v[k - 1] * r + (x % r)  BY <1>0, <2>3
  <2>8. x \in Nat  BY <2>5, DivMod
  <2>. HIDE DEF x
  <2>9. x = (x \div r) * r + (x % r)  BY <2>8, DivMod
  <2>10. v[k] = x  BY <2>6, <2>7, <2>9
  <2>. QED  BY <2>10 DEF x
<1>2. w \in 0 .. w /\ w - w = 0  OBVIOUS
<1>3. v[w] = n \div 1  BY <1>0, <1>1, <1>2
<1>. QED  BY <1>3

\* The powers of r up to the w-th, as far as ^ has to be known for w digits.
RaisesTo(r, w) == r^0 = 1 /\ \A k \in 0 .. w - 1 : r^(k + 1) = r * r^k

\* They are powers.
LEMMA PowersOf ==
    ASSUME NEW r \in Nat \ {0}, NEW w \in Nat, RaisesTo(r, w)
    PROVE  Powers([k \in 0 .. w |-> r^k], r, w)
<1>. DEFINE P == [k \in 0 .. w |-> r^k]
            T == {k \in 0 .. w : P[k] \notin Nat \ {0}}
<1>1. r^0 = 1 /\ \A k \in 0 .. w - 1 : r^(k + 1) = r * r^k  BY Zenon DEF RaisesTo
<1>2. \A k \in 0 .. w : P[k] = r^k  BY Zenon
<1>3. DOMAIN P = 0 .. w /\ P = [k \in 0 .. w |-> P[k]]  OBVIOUS
<1>. HIDE DEF P
<1>4. P[0] = 1
  <2>1. 0 \in 0 .. w  OBVIOUS
  <2>2. P[0] = r^0  BY <1>2, <2>1, Zenon
  <2>. QED  BY <1>1, <2>2, Zenon
<1>5. ASSUME NEW k \in 0 .. w - 1 PROVE P[k + 1] = r * P[k]
  <2>1. k \in 0 .. w /\ k + 1 \in 0 .. w  OBVIOUS
  <2>2. P[k] = r^k  BY <1>2, <2>1, Zenon
  <2>3. P[k + 1] = r^(k + 1)  BY <1>2, <2>1, Zenon
  <2>4. r^(k + 1) = r * r^k  BY <1>1, Zenon
  <2>. QED  BY <2>2, <2>3, <2>4, Zenon
<1>6. T = {}
  <2>. SUFFICES ASSUME T # {} PROVE FALSE
    OBVIOUS
  <2>1. PICK k \in T : \A i \in Nat : i < k => i \notin T
    <3>1. T \in SUBSET Nat  OBVIOUS
    <3>. HIDE DEF T
    <3>. QED  BY <3>1, LeastNat
  <2>2. k # 0  BY <1>4
  <2>3. k - 1 \in 0 .. w - 1 /\ k - 1 \in 0 .. w /\ k - 1 \in Nat /\ k - 1 < k /\ (k - 1) + 1 = k
    BY <2>2
  <2>4. P[k - 1] \in Nat \ {0}  BY <2>1, <2>3
  <2>5. P[k] = r * P[k - 1]  BY <1>5, <2>3
  <2>6. P[k] \in Nat \ {0}  BY <2>4, <2>5
  <2>. QED  BY <2>6
<1>7. P \in [0 .. w -> Nat \ {0}]  BY <1>3, <1>6
<1>8. Powers(P, r, w)  BY <1>4, <1>5, <1>7 DEF Powers
<1>. QED  BY <1>8 DEF P

\* Big-endian numbers: the digits of n, and the number of the digits ds.
digits_of(n, r, w) == [k \in 1 .. w |-> (n \div r^(w - k)) % r]
AreDigits(ds, r, w) == ds \in [1 .. w -> 0 .. r - 1]
number_of(r, ds) == FoldLeft(LAMBDA n, d : n * r + d, 0, ds)

\* A number is read a digit at a time.
LEMMA NumberRuns ==
    ASSUME NEW r \in Nat, NEW n \in Nat, NEW s \in [1 .. n -> Nat]
    PROVE  \E v : Horner(v, r, n, s) /\ v[n] = number_of(r, s)
<1>. DEFINE Rec(i) == i = [t \in SUBSET (1 .. n) |->
                            IF t = {} THEN 0 ELSE i[t \ {Max(t)}] * r + s[Max(t)]]
            it == CHOOSE i : Rec(i)
            st == horner(r, s)
<1>1. /\ st \in [Nat \X (1 .. n) -> Nat]
      /\ \A v \in Nat, k \in 1 .. n : st[<<v, k>>] = v * r + s[k]
  <2>1. \A v \in Nat, k \in 1 .. n : v * r + s[k] \in Nat  OBVIOUS
  <2>. QED  BY <2>1 DEF horner
<1>. HIDE DEF st
<1>2. ASSUME NEW t \in SUBSET (1 .. n), t # {} PROVE Max(t) \in 1 .. n  BY <1>2, LargestOf
<1>3. \E i : Rec(i)
  <2>1. PICK i \in [SUBSET (1 .. n) -> Nat] : Accumulates(i, n, 0, st)
    BY <1>1, AccumulationExists
  <2>2. ASSUME NEW t \in SUBSET (1 .. n)
        PROVE  i[t] = IF t = {} THEN 0 ELSE i[t \ {Max(t)}] * r + s[Max(t)]
    <3>1. i[t] = IF t = {} THEN 0 ELSE st[<<i[t \ {Max(t)}], Max(t)>>]
      BY <2>1 DEF Accumulates
    <3>. QED  BY <1>1, <1>2, <3>1
  <2>3. i = [t \in SUBSET (1 .. n) |-> i[t]]  OBVIOUS
  <2>. QED  BY <2>2, <2>3
<1>4. Rec(it)  BY <1>3
<1>5. number_of(r, s) = it[1 .. n]  BY DEF number_of, FoldLeft, MapThenFoldSet
<1>. HIDE DEF it
<1>6. Iterates(it, n, Nat, 0, st)
  <2>1. \A t \in SUBSET (1 .. n) :
            it[t] = IF t = {} THEN 0 ELSE it[t \ {Max(t)}] * r + s[Max(t)]
    BY <1>4
  <2>. QED  BY <1>1, <1>2, <2>1 DEF Iterates
<1>7. PICK v : RunTo(it[1 .. n], v, n, Nat, 0, st)  BY <1>1, <1>6, PrefixesRun
<1>8. v \in [0 .. n -> Nat] /\ v[0] = 0 /\ v[n] = number_of(r, s)
      /\ \A k \in 1 .. n : v[k] = st[<<v[k - 1], k>>]
  BY <1>5, <1>7, Zenon DEF RunTo, Run, Steps
<1>9. Horner(v, r, n, s)
  <2>1. \A k \in 1 .. n : k - 1 \in 0 .. n  OBVIOUS
  <2>2. \A k \in 1 .. n : v[k - 1] \in Nat  BY <1>8, <2>1
  <2>. QED  BY <1>1, <1>8, <2>2 DEF Horner
<1>. QED  BY <1>8, <1>9

\* Digits that were read are written as they were.
LEMMA DigitsBack ==
    ASSUME NEW r \in Nat \ {0}, NEW w \in Nat, RaisesTo(r, w),
           NEW ds, AreDigits(ds, r, w)
    PROVE  digits_of(number_of(r, ds), r, w) = ds
<1>. DEFINE N == number_of(r, ds)
<1>1. \A k \in 1 .. w : ds[k] \in 0 .. r - 1  BY DEF AreDigits
<1>2. PICK v : Horner(v, r, w, ds) /\ v[w] = N
  <2>1. ds \in [1 .. w -> Nat]  BY DEF AreDigits
  <2>. QED  BY <2>1, NumberRuns
<1>3. PICK P : P = [k \in 0 .. w |-> r^k]  OBVIOUS
<1>4. Powers(P, r, w)  BY <1>3, PowersOf
<1>5. \A k \in 1 .. w : P[w - k] = r^(w - k)
  <2>1. \A k \in 1 .. w : w - k \in 0 .. w  OBVIOUS
  <2>. QED  BY <1>3, <2>1, Zenon
<1>6. Horner(v, r, w, ds)  BY <1>2
<1>7. \A k \in 1 .. w : (v[w] \div P[w - k]) % r = ds[k]
  BY <1>1, <1>4, <1>6, DigitsOfNumber
<1>. HIDE DEF N
<1>8. \A k \in 1 .. w : digits_of(N, r, w)[k] = ds[k]  BY <1>2, <1>5, <1>7 DEF digits_of
<1>9. digits_of(N, r, w) = [k \in 1 .. w |-> digits_of(N, r, w)[k]]  BY DEF digits_of
<1>. QED  BY <1>8, <1>9 DEF N, AreDigits

\* A number that was written is read as it was.
LEMMA NumberBack ==
    ASSUME NEW r \in Nat \ {0}, NEW w \in Nat, RaisesTo(r, w), NEW n \in Nat, n < r^w
    PROVE  AreDigits(digits_of(n, r, w), r, w) /\ number_of(r, digits_of(n, r, w)) = n
<1>. DEFINE P == [k \in 0 .. w |-> r^k]
            ds == digits_of(n, r, w)
<1>1. Powers(P, r, w)  BY PowersOf
<1>2. \A k \in 0 .. w : P[k] = r^k  BY Zenon
<1>. HIDE DEF P
<1>3. \A k \in 1 .. w : w - k \in 0 .. w  OBVIOUS
<1>4. \A k \in 1 .. w : ds[k] = (n \div P[w - k]) % r  BY <1>2, <1>3 DEF digits_of
<1>5. ASSUME NEW k \in 1 .. w PROVE (n \div P[w - k]) % r \in 0 .. r - 1
  <2>1. P[w - k] \in Nat \ {0}  BY <1>1, <1>3 DEF Powers
  <2>2. n \div P[w - k] \in Nat  BY <2>1, DivMod
  <2>. QED  BY <2>2, DivMod
<1>6. ds = [k \in 1 .. w |-> ds[k]]  BY DEF digits_of
<1>. HIDE DEF ds
<1>7. ds \in [1 .. w -> 0 .. r - 1]  BY <1>4, <1>5, <1>6
<1>8. ds \in [1 .. w -> Nat]  BY <1>7
<1>9. PICK v : Horner(v, r, w, ds) /\ v[w] = number_of(r, ds)  BY <1>8, NumberRuns
<1>10. n < P[w]
  <2>1. w \in 0 .. w  OBVIOUS
  <2>. QED  BY <1>2, <2>1
<1>11. v[w] = n  BY <1>1, <1>4, <1>9, <1>10, NumberOfDigits
<1>. QED  BY <1>7, <1>9, <1>11 DEF ds, AreDigits

(***************************************************************************)
(* Flattening a sequence of sequences.                                     *)
(***************************************************************************)
join(S, n, seqs) == [p \in Seq(S) \X (1 .. n) |-> p[1] \o seqs[p[2]]]

\* FlattenSeq goes through the prefixes.
LEMMA FlattenRuns ==
    ASSUME NEW S, NEW n \in Nat, NEW seqs \in [1 .. n -> Seq(S)]
    PROVE  \E r : RunTo(FlattenSeq(seqs), r, n, Seq(S), <<>>, join(S, n, seqs))
<1>. DEFINE V == Seq(S)
            st == join(S, n, seqs)
<1>1. /\ st \in [V \X (1 .. n) -> V] /\ <<>> \in V
      /\ \A v \in V, k \in 1 .. n : st[<<v, k>>] = v \o seqs[k] /\ v \o seqs[k] \in V
  <2>1. \A v \in V, k \in 1 .. n : v \o seqs[k] \in V  BY ConcatProperties
  <2>2. <<>> \in V  BY EmptySeq
  <2>. HIDE DEF V
  <2>3. st = [p \in V \X (1 .. n) |-> p[1] \o seqs[p[2]]]  BY DEF join, V
  <2>. HIDE DEF st
  <2>. QED  BY <2>1, <2>2, <2>3
<1>. HIDE DEF st, V
<1>2. PICK it \in [SUBSET (1 .. n) -> V] : Accumulates(it, n, <<>>, st)
  BY <1>1, AccumulationExists
<1>3. Iterates(it, n, V, <<>>, st)  BY <1>2 DEF Accumulates, Iterates
<1>4. PICK r : RunTo(it[1 .. n], r, n, V, <<>>, st)  BY <1>1, <1>3, PrefixesRun
<1>5. Run(r, n, V, <<>>, st) /\ r \in [0 .. n -> V] /\ r[0] = <<>>
      /\ \A k \in 1 .. n : r[k] = st[<<r[k - 1], k>>]
  BY <1>4, Zenon DEF RunTo, Run, Steps
<1>6. ASSUME NEW k \in 1 .. n PROVE r[k] = r[k - 1] \o seqs[k] /\ r[k - 1] \in V
  <2>1. k - 1 \in 0 .. n  OBVIOUS
  <2>. QED  BY <1>1, <1>5, <2>1
<1>7. Len(seqs) = n /\ seqs \in Seq(V)
  <2>1. seqs \in [1 .. n -> V]  BY DEF V
  <2>. QED  BY <2>1
<1>8. CASE n = 0
  <2>1. FlattenSeq(seqs) = seqs  BY <1>7, <1>8 DEF FlattenSeq
  <2>2. seqs = <<>>  BY <1>7, <1>8, EmptySeq
  <2>3. r[n] = FlattenSeq(seqs)  BY <1>5, <1>8, <2>1, <2>2
  <2>. QED  BY <1>5, <2>3 DEF RunTo, st, V
<1>9. CASE n # 0
  <2>. DEFINE Rec(f) == f = [i \in 1 .. n |-> IF i = 1 THEN seqs[i] ELSE f[i - 1] \o seqs[i]]
              g == [i \in 1 .. n |-> r[i]]
              flatten == CHOOSE f : Rec(f)
  <2>1. ASSUME NEW i \in 1 .. n PROVE g[i] = IF i = 1 THEN seqs[i] ELSE g[i - 1] \o seqs[i]
    <3>1. r[1] = seqs[1]
      <4>1. 1 \in 1 .. n /\ 1 - 1 = 0  BY <1>9
      <4>2. r[1] = <<>> \o seqs[1]  BY <1>5, <1>6, <4>1
      <4>3. seqs[1] \in Seq(S)  BY <4>1
      <4>. QED  BY <4>2, <4>3, ConcatEmptySeq
    <3>2. i # 1 => i - 1 \in 1 .. n  OBVIOUS
    <3>. QED  BY <1>6, <3>1, <3>2
  <2>2. Rec(g)  BY <2>1
  <2>. HIDE DEF g
  <2>3. Rec(flatten)  BY <2>2
  <2>4. FlattenSeq(seqs) = flatten[n]  BY <1>7, <1>9 DEF FlattenSeq
  <2>. HIDE DEF flatten
  <2>5. \A i \in 1 .. n : flatten[i] = IF i = 1 THEN seqs[i] ELSE flatten[i - 1] \o seqs[i]
    BY <2>3
  <2>6. \A i \in 1 .. n : g[i] = IF i = 1 THEN seqs[i] ELSE g[i - 1] \o seqs[i]
    BY <2>1
  <2>. DEFINE T == {i \in 1 .. n : flatten[i] # g[i]}
  <2>7. T = {}
    <3>. SUFFICES ASSUME T # {} PROVE FALSE
      OBVIOUS
    <3>1. PICK i \in T : \A j \in Nat : j < i => j \notin T
      <4>1. T \in SUBSET Nat  OBVIOUS
      <4>. HIDE DEF T
      <4>. QED  BY <4>1, LeastNat
    <3>2. i # 1  BY <2>5, <2>6
    <3>3. i \in 1 .. n /\ i - 1 \in 1 .. n /\ i - 1 \in Nat /\ i - 1 < i  BY <3>2
    <3>4. flatten[i - 1] = g[i - 1]  BY <3>1, <3>3
    <3>. QED  BY <2>5, <2>6, <3>2, <3>3, <3>4
  <2>8. n \in 1 .. n  BY <1>9
  <2>9. r[n] = FlattenSeq(seqs)  BY <2>4, <2>7, <2>8 DEF g
  <2>. QED  BY <1>5, <2>9 DEF RunTo, st, V
<1>. QED  BY <1>8, <1>9

\* Flattening one sequence more appends it.
LEMMA FlattenStep ==
    ASSUME NEW S, NEW n \in Nat \ {0}, NEW q \in [1 .. n -> Seq(S)]
    PROVE  LET p == FlattenSeq([i \in 1 .. n - 1 |-> q[i]])
           IN  p \in Seq(S) /\ FlattenSeq(q) = p \o q[n]
<1>. DEFINE m == n - 1
            q1 == [i \in 1 .. m |-> q[i]]
<1>1. m \in Nat /\ \A i \in 1 .. m : i \in 1 .. n  OBVIOUS
<1>2. q1 \in [1 .. m -> Seq(S)] /\ \A i \in 1 .. m : q1[i] = q[i]  BY <1>1
<1>. HIDE DEF q1
<1>3. PICK r : RunTo(FlattenSeq(q), r, n, Seq(S), <<>>, join(S, n, q))  BY FlattenRuns
<1>4. PICK r1 : RunTo(FlattenSeq(q1), r1, m, Seq(S), <<>>, join(S, m, q1))
  <2>. HIDE DEF m
  <2>. QED  BY <1>1, <1>2, FlattenRuns
<1>5. r \in [0 .. n -> Seq(S)] /\ r[0] = <<>> /\ r[n] = FlattenSeq(q)
      /\ \A k \in 1 .. n : r[k] = join(S, n, q)[<<r[k - 1], k>>]
  BY <1>3, Zenon DEF RunTo, Run, Steps
<1>6. r1 \in [0 .. m -> Seq(S)] /\ r1[0] = <<>> /\ r1[m] = FlattenSeq(q1) /\ Steps(r1, m, join(S, m, q1))
  BY <1>4, Zenon DEF RunTo, Run
<1>7. ASSUME NEW k \in 1 .. n PROVE r[k] = r[k - 1] \o q[k] /\ r[k - 1] \in Seq(S)
  <2>1. k - 1 \in 0 .. n  OBVIOUS
  <2>2. r[k - 1] \in Seq(S)  BY <1>5, <2>1
  <2>3. join(S, n, q)[<<r[k - 1], k>>] = r[k - 1] \o q[k]  BY <2>2 DEF join
  <2>. QED  BY <1>5, <2>2, <2>3
<1>8. Steps(r, m, join(S, m, q1))
  <2>1. ASSUME NEW k \in 1 .. m PROVE r[k] = join(S, m, q1)[<<r[k - 1], k>>]
    <3>1. r[k] = r[k - 1] \o q1[k] /\ r[k - 1] \in Seq(S)  BY <1>1, <1>2, <1>7
    <3>. HIDE DEF m
    <3>2. join(S, m, q1)[<<r[k - 1], k>>] = r[k - 1] \o q1[k]  BY <3>1 DEF join
    <3>. QED  BY <3>1, <3>2
  <2>. QED  BY <2>1 DEF Steps
<1>9. r[m] = r1[m]
  <2>. HIDE DEF m
  <2>0. m \in Nat /\ r[0] = r1[0] /\ Steps(r1, m, join(S, m, q1))  BY <1>1, <1>5, <1>6
  <2>1. \A k \in 0 .. m : r[k] = r1[k]  BY <1>8, <2>0, RunsAgree
  <2>2. m \in 0 .. m  BY <1>1
  <2>. QED  BY <2>1, <2>2
<1>10. n \in 1 .. n  OBVIOUS
<1>11. r[n] = r[m] \o q[n] /\ r[m] \in Seq(S)  BY <1>7, <1>10
<1>. QED  BY <1>5, <1>6, <1>9, <1>11 DEF q1
=============================================================================
