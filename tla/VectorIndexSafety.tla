-------------------------- MODULE VectorIndexSafety --------------------------
(***************************************************************************)
(* Theorems about VectorIndex.                                             *)
(***************************************************************************)
EXTENDS VectorIndex, FiniteSetTheorems, WellFoundedInduction, TLAPS

-----------------------------------------------------------------------------
(* Induction over finite sets: of the bad subsets one is minimal.           *)
LEMMA MinimalBad ==
    ASSUME NEW S, IsFiniteSet(S), NEW Bad \in SUBSET SUBSET S, Bad # {}
    PROVE  \E T \in Bad : \A U \in SUBSET T : U # T => U \notin Bad
<1>1. FiniteSubsetsOf(S) = SUBSET S
  BY FS_FiniteSubsetsOfFinite
<1>2. PICK T \in Bad : \A U \in Bad : ~(<<U, T>> \in StrictSubsetOrdering(S))
  BY <1>1, FS_StrictSubsetOrderingWellFounded, WFMin
<1>3. \A U \in SUBSET T : U # T => U \notin Bad
  BY <1>2 DEF StrictSubsetOrdering
<1> QED BY <1>3

(* And of the good ones one is maximal.                                     *)
LEMMA MaximalGood ==
    ASSUME NEW S, IsFiniteSet(S), NEW Good \in SUBSET SUBSET S, Good # {}
    PROVE  \E T \in Good : \A U \in Good : T \subseteq U => U = T
<1> DEFINE Bad == {S \ T : T \in Good}
<1>1. Bad \in SUBSET SUBSET S /\ Bad # {}
  <2>1. PICK T \in Good : TRUE
    OBVIOUS
  <2>2. S \ T \in Bad
    BY <2>1
  <2>3. Bad \in SUBSET SUBSET S
    OBVIOUS
  <2> HIDE DEF Bad
  <2> QED BY <2>2, <2>3
<1>2. PICK B \in Bad : \A U \in SUBSET B : U # B => U \notin Bad
  <2> HIDE DEF Bad
  <2> QED BY <1>1, MinimalBad
<1>3. PICK T \in Good : B = S \ T
  OBVIOUS
<1>4. ASSUME NEW U \in Good, T \subseteq U PROVE U = T
  <2>1. S \ U \in Bad /\ S \ U \subseteq B /\ U \subseteq S /\ T \subseteq S
    BY <1>3, <1>4
  <2>2. S \ U = B
    BY <2>1, <1>2
  <2> QED BY <2>1, <2>2, <1>3
<1> QED BY <1>4

Runs(g, B, stop, out, next) ==
    g = [b \in B |-> g[b]] /\ \A b \in B : g[b] = IF stop[b] THEN out[b] ELSE g[next[b]]

(* A function that calls itself on one smaller argument, or stops, is       *)
(* defined: next leads down a well-founded order of a finite set.           *)
LEMMA LoopDefined ==
    ASSUME NEW B, IsFiniteSet(B), NEW R, IsWellFoundedOn(R, B),
           NEW stop \in [B -> BOOLEAN], NEW out, NEW next,
           \A b \in B : stop[b] \/ (next[b] \in B /\ <<next[b], b>> \in R)
    PROVE  \E g : Runs(g, B, stop, out, next)
<1> DEFINE Closed(D) == \A b \in D : stop[b] \/ next[b] \in D
<1> DEFINE Solves(g, D) == g = [b \in D |-> IF stop[b] THEN out[b] ELSE g[next[b]]]
<1> DEFINE Good == {D \in SUBSET B : Closed(D) /\ \E g : Solves(g, D)}
<1>1. {} \in Good
  <2>1. Solves([b \in {} |-> 0], {})
    OBVIOUS
  <2> QED BY <2>1
<1>2. PICK D \in Good : \A U \in Good : D \subseteq U => U = D
  <2>1. Good \in SUBSET SUBSET B /\ Good # {}
    BY <1>1
  <2> HIDE DEF Good
  <2> QED BY <2>1, MaximalGood
<1>3. PICK g : Solves(g, D)
  OBVIOUS
<1>4. ASSUME D # B PROVE FALSE
  <2>1. B \ D # {} /\ B \ D \subseteq B
    BY <1>4
  <2>2. PICK x \in B \ D : \A y \in B \ D : ~(<<y, x>> \in R)
    BY <2>1, WFMin
  <2>3. stop[x] \/ next[x] \in D
    BY <2>2
  <2> DEFINE U == D \cup {x}
  <2> DEFINE h == [b \in U |-> IF b \in D THEN g[b]
                               ELSE IF stop[x] THEN out[x] ELSE g[next[x]]]
  <2>4. Closed(U)
    BY <1>2, <2>3
  <2>5. ASSUME NEW b \in U PROVE h[b] = IF stop[b] THEN out[b] ELSE h[next[b]]
    <3>1. CASE b \in D
      <4>1. g[b] = IF stop[b] THEN out[b] ELSE g[next[b]]
        BY <3>1, <1>3
      <4>2. stop[b] \/ h[next[b]] = g[next[b]]
        BY <3>1, <1>2
      <4> QED BY <3>1, <4>1, <4>2
    <3>2. CASE b = x
      BY <3>2, <2>2, <2>3
    <3> QED BY <3>1, <3>2
  <2>6. Solves(h, U)
    <3>1. DOMAIN h = U /\ h = [b \in U |-> h[b]]
      OBVIOUS
    <3> HIDE DEF h, U
    <3> QED BY <2>5, <3>1
  <2>7. U \in Good
    <3>1. U \in SUBSET B
      BY <1>2, <2>2
    <3>2. \E f : Solves(f, U)
      <4> HIDE DEF Solves, h, U
      <4> QED BY <2>6
    <3> HIDE DEF Closed, Solves, U
    <3> QED BY <2>4, <3>1, <3>2
  <2> QED BY <2>7, <1>2, <2>2
<1>5. Solves(g, B)
  BY <1>3, <1>4
<1>6. g = [b \in B |-> g[b]] /\ \A b \in B : g[b] = IF stop[b] THEN out[b] ELSE g[next[b]]
  BY <1>5
<1> QED BY <1>6 DEF Runs

(* So is a function that calls itself on the next argument, down to the     *)
(* first of an interval.                                                    *)
Descends(g, m, n, X, start, H) ==
    g \in [m..n -> X] /\ \A i \in m..n : g[i] = IF i = n THEN start ELSE H[i][g[i + 1]]

LEMMA DescentDefined ==
    ASSUME NEW m \in Int, NEW n \in Int, NEW X, NEW start \in X,
           NEW H \in [m..n -> [X -> X]]
    PROVE  \E g : Descends(g, m, n, X, start, H)
<1> DEFINE Solves(g, k) ==
        /\ g \in [k..n -> X]
        /\ \A i \in k..n : g[i] = IF i = n THEN start ELSE H[i][g[i + 1]]
<1> DEFINE Good == {D \in SUBSET (m..n) : \E k \in Int : D = k..n /\ \E g : Solves(g, k)}
<1>1. {} \in Good
  <2>1. Solves([i \in (n + 1)..n |-> start], n + 1)
    OBVIOUS
  <2>2. (n + 1)..n = {} /\ n + 1 \in Int
    OBVIOUS
  <2> QED BY <2>1, <2>2
<1>2. IsFiniteSet(m..n)
  BY FS_Interval
<1>3. PICK D \in Good : \A U \in Good : D \subseteq U => U = D
  <2>1. Good \in SUBSET SUBSET (m..n) /\ Good # {}
    BY <1>1
  <2> DEFINE I == m..n
  <2>2. IsFiniteSet(I) /\ Good \in SUBSET SUBSET I /\ Good # {}
    BY <1>2, <2>1
  <2> HIDE DEF Good, I
  <2> QED BY <2>2, MaximalGood
<1>4. PICK k \in Int : D = k..n /\ \E g : Solves(g, k)
  OBVIOUS
<1>5. PICK g : Solves(g, k)
  BY <1>4
<1>6. D = m..n
  <2>1. SUFFICES ASSUME D # m..n PROVE FALSE
    OBVIOUS
  <2> DEFINE j == IF k > n THEN n ELSE k - 1
  <2>2. j \in Int /\ j \in m..n /\ D = (j + 1)..n /\ j \notin D
    <3>1. m <= n
      BY <1>3, <2>1
    <3>2. CASE k > n
      BY <1>4, <3>1, <3>2
    <3>3. CASE ~(k > n)
      <4>1. k \in m..n
        <5>1. k \in k..n
          BY <3>3
        <5> QED BY <5>1, <1>3, <1>4
      <4>2. k # m
        BY <2>1, <1>4
      <4> QED BY <4>1, <4>2, <1>4, <3>3
    <3> QED BY <3>2, <3>3
  <2> DEFINE h == [i \in j..n |-> IF i = n THEN start
                                  ELSE IF i = j THEN H[j][g[j + 1]] ELSE g[i]]
  <2>3. Solves(h, j)
    <3> HIDE DEF j
    <3>1. ASSUME NEW i \in j..n PROVE h[i] \in X /\ h[i] = IF i = n THEN start ELSE H[i][h[i + 1]]
      <4>1. CASE i = n
        BY <4>1
      <4>2. CASE i = j /\ i # n
        <5>1. j + 1 \in D /\ j + 1 \in k..n /\ j + 1 \in j..n /\ j + 1 # j
          BY <4>2, <2>2, <1>4
        <5>2. h[j + 1] = g[j + 1] /\ g[j + 1] \in X
          BY <5>1, <1>5
        <5>3. H[j] \in [X -> X]
          BY <2>2
        <5> QED BY <4>2, <5>1, <5>2, <5>3
      <4>3. CASE i # j /\ i # n
        <5>1. i \in D /\ i \in k..n /\ i + 1 \in k..n /\ i + 1 \in j..n /\ i + 1 # j
          BY <4>3, <2>2, <1>4
        <5>2. h[i] = g[i] /\ h[i + 1] = g[i + 1] /\ g[i] \in X
          BY <4>3, <5>1, <1>5
        <5> QED BY <4>3, <5>1, <5>2, <1>5
      <4> QED BY <4>1, <4>2, <4>3
    <3>2. h = [i \in j..n |-> h[i]] /\ DOMAIN h = j..n
      OBVIOUS
    <3> HIDE DEF h
    <3> QED BY <3>1, <3>2
  <2>4. j..n \in Good /\ D \subseteq j..n /\ j \in j..n
    <3>1. j..n \subseteq m..n /\ D \subseteq j..n /\ j \in j..n
      BY <2>2
    <3>2. \E i \in Int : j..n = i..n /\ \E f : Solves(f, i)
      <4> HIDE DEF Solves, h, j
      <4> QED BY <2>2, <2>3
    <3> QED BY <3>1, <3>2
  <2> QED BY <1>3, <2>2, <2>4
<1>7. (m..n = k..n) /\ g \in [m..n -> X]
  BY <1>4, <1>5, <1>6
<1>8. Descends(g, m, n, X, start, H)
  BY <1>5, <1>7 DEF Descends
<1> QED BY <1>8

-----------------------------------------------------------------------------
(* The beam search of one layer.                                            *)
LEMMA BeamsFinite == IsFiniteSet(Beams)
<1> DEFINE P == (SUBSET Ids) \X ((SUBSET Ids) \X (SUBSET Ids))
<1> DEFINE f == [t \in P |-> [cand |-> t[1], visited |-> t[2][1], res |-> t[2][2]]]
<1>1. IsFiniteSet(P)
  BY IdsAssumption, FS_SUBSET, FS_Product
<1>2. f \in [P -> Beams]
  BY DEF Beams
<1>3. ASSUME NEW b \in Beams PROVE \E t \in P : f[t] = b
  <2>1. <<b.cand, <<b.visited, b.res>>>> \in P
    BY DEF Beams
  <2>2. f[<<b.cand, <<b.visited, b.res>>>>] = b
    BY <2>1 DEF Beams
  <2> QED BY <2>1, <2>2
<1>4. f \in Surjection(P, Beams)
  BY <1>2, <1>3 DEF Surjection
<1> QED BY <1>1, <1>4, FS_Surjection

(* A turn visits another node, or takes a candidate away.                   *)
Later == {ab \in Beams \X Beams :
            \/ ab[2].visited \subseteq ab[1].visited /\ ab[2].visited # ab[1].visited
            \/ /\ ab[1].visited = ab[2].visited
               /\ ab[1].cand \subseteq ab[2].cand /\ ab[1].cand # ab[2].cand}

LEMMA LaterWellFounded == IsWellFoundedOn(Later, Beams)
<1>1. ASSUME NEW T \in SUBSET Beams, T # {} PROVE \E x \in T : \A y \in T : ~(<<y, x>> \in Later)
  <2> DEFINE V == {b.visited : b \in T}
  <2>1. V \in SUBSET SUBSET Ids /\ V # {}
    BY <1>1 DEF Beams
  <2>2. PICK v \in V : \A u \in V : v \subseteq u => u = v
    <3> HIDE DEF V
    <3> QED BY <2>1, MaximalGood, IdsAssumption
  <2> DEFINE C == {b.cand : b \in {a \in T : a.visited = v}}
  <2>3. C \in SUBSET SUBSET Ids /\ C # {}
    <3>1. PICK a \in T : a.visited = v
      BY <2>2
    <3>2. a.cand \in C
      BY <3>1
    <3> QED BY <3>2 DEF Beams
  <2>4. PICK c \in C : \A u \in SUBSET c : u # c => u \notin C
    <3> HIDE DEF C
    <3> QED BY <2>3, MinimalBad, IdsAssumption
  <2>5. PICK x \in T : x.visited = v /\ x.cand = c
    BY <2>4
  <2>6. ASSUME NEW y \in T, <<y, x>> \in Later PROVE FALSE
    <3>1. y.visited \in V
      OBVIOUS
    <3>2. ~(v \subseteq y.visited /\ v # y.visited)
      BY <3>1, <2>2
    <3>3. y.visited = v /\ y.cand \subseteq c /\ y.cand # c
      BY <2>5, <2>6, <3>2 DEF Later
    <3>4. y.cand \in C
      BY <3>3
    <3> QED BY <3>3, <3>4, <2>4
  <2> QED BY <2>6
<1> QED BY <1>1, MinWF

LEMMA ScoreTypes == \A p, q \in Ids : Score[p][q] \in Int
  BY ScoreAssumption

(* Every set of nodes has a nearest one.                                    *)
LEMMA NearestIn ==
    ASSUME NEW q \in Ids, NEW S \in SUBSET Ids, S # {}
    PROVE  Nearest(q, S) \in S /\ \A y \in S : Score[q][y] <= Score[q][Nearest(q, S)]
<1> DEFINE Has(U) == \E x \in U : \A y \in U : Score[q][y] <= Score[q][x]
<1> DEFINE Bad == {U \in SUBSET S : U # {} /\ ~Has(U)}
<1>1. ASSUME Bad # {} PROVE FALSE
  <2>1. IsFiniteSet(S)
    BY IdsAssumption, FS_Subset
  <2>2. PICK T \in Bad : \A U \in SUBSET T : U # T => U \notin Bad
    <3>1. Bad \in SUBSET SUBSET S
      OBVIOUS
    <3> HIDE DEF Bad
    <3> QED BY <1>1, <2>1, <3>1, MinimalBad
  <2>3. PICK t \in T : TRUE
    BY <2>2
  <2>4. T \ {t} \notin Bad
    <3>1. T \ {t} \in SUBSET T /\ T \ {t} # T
      BY <2>3
    <3> HIDE DEF Bad
    <3> QED BY <2>2, <3>1
  <2>5. T \in SUBSET Ids /\ t \in Ids /\ T \ {t} \in SUBSET S
    BY <2>2, <2>3
  <2>6. CASE T \ {t} = {}
    <3>1. T = {t}
      BY <2>3, <2>6
    <3>2. Score[q][t] <= Score[q][t]
      BY <2>5, ScoreTypes
    <3> QED BY <2>2, <3>1, <3>2
  <2>7. CASE Has(T \ {t})
    <3>1. PICK x \in T \ {t} : \A y \in T \ {t} : Score[q][y] <= Score[q][x]
      BY <2>7
    <3>2. Score[q][x] \in Int /\ \A y \in T : Score[q][y] \in Int
      BY <2>5, <3>1, ScoreTypes
    <3>3. CASE Score[q][t] <= Score[q][x]
      BY <2>2, <3>1, <3>3
    <3>4. CASE ~(Score[q][t] <= Score[q][x])
      <4>1. \A y \in T : Score[q][y] <= Score[q][t]
        BY <2>3, <3>1, <3>2, <3>4
      <4> QED BY <2>2, <2>3, <4>1
    <3> QED BY <3>3, <3>4
  <2> QED BY <2>4, <2>5, <2>6, <2>7
<1>2. PICK x \in S : \A y \in S : Score[q][y] <= Score[q][x]
  BY <1>1
<1> QED BY <1>2 DEF Nearest

LEMMA BestSubset == \A q, S, k : Best(q, S, k) \subseteq S
  BY DEF Best

(* A turn of the loop gives a later beam.                                   *)
LEMMA TurnIsLater ==
    ASSUME NEW ix, AllIDs(ix) \subseteq Ids, NEW q \in Ids, NEW ef, NEW lc,
           NEW b \in Beams, b.cand # {}
    PROVE  Explored(ix, q, b, ef, lc) \in Beams /\ <<Explored(ix, q, b, ef, lc), b>> \in Later
<1> DEFINE c == Nearest(q, b.cand)
<1> DEFINE fresh == (Neighbours(ix, c, lc) \cap AllIDs(ix)) \ b.visited
<1> DEFINE res == Best(q, b.res \cup fresh, ef)
<1> DEFINE a == [cand |-> (b.cand \ {c}) \cup (fresh \cap res), visited |-> b.visited \cup fresh, res |-> res]
<1>1. Explored(ix, q, b, ef, lc) = a
  BY DEF Explored
<1>2. b.cand \in SUBSET Ids /\ b.visited \in SUBSET Ids /\ b.res \in SUBSET Ids
  BY DEF Beams
<1>3. c \in b.cand
  BY <1>2, NearestIn
<1>4. fresh \subseteq Ids /\ fresh \cap b.visited = {} /\ res \subseteq b.res \cup fresh
  BY BestSubset
<1> HIDE DEF c, fresh, res
<1>5. a \in Beams
  BY <1>2, <1>4 DEF Beams
<1>6. \/ b.visited \subseteq a.visited /\ b.visited # a.visited
      \/ a.visited = b.visited /\ a.cand \subseteq b.cand /\ a.cand # b.cand
  <2>1. CASE fresh = {}
    BY <2>1, <1>3
  <2>2. CASE fresh # {}
    BY <2>2, <1>4
  <2> QED BY <2>1, <2>2
<1> HIDE DEF a
<1>7. <<a, b>> \in Later
  BY <1>5, <1>6 DEF Later
<1> QED BY <1>1, <1>5, <1>7

(* The search of a layer is what its loop says.                             *)
Loop(r, ix, q, ef, lc) ==
    \A b \in Beams : r[b] = IF Ends(q, b, ef) THEN b.res ELSE r[Explored(ix, q, b, ef, lc)]
From(seed) == [cand |-> {seed}, visited |-> {seed}, res |-> {seed}]
InLayer(ix, n, lc) == n \in AllIDs(ix) /\ lc \in DOMAIN ix.nodes[n]

LEMMA SearchLayerLoops ==
    ASSUME NEW ix, AllIDs(ix) \subseteq Ids, NEW q \in Ids, NEW ef, NEW lc, NEW seed
    PROVE  \E r : /\ Loop(r, ix, q, ef, lc)
                  /\ SearchLayer(ix, q, seed, ef, lc) =
                         IF InLayer(ix, seed, lc) THEN r[From(seed)] ELSE {}
<1> DEFINE stop == [b \in Beams |-> Ends(q, b, ef)]
<1> DEFINE out == [b \in Beams |-> b.res]
<1> DEFINE next == [b \in Beams |-> Explored(ix, q, b, ef, lc)]
<1> DEFINE Sol(g) == g = [b \in Beams |-> IF Ends(q, b, ef) THEN b.res ELSE g[Explored(ix, q, b, ef, lc)]]
<1> DEFINE r == CHOOSE g : Sol(g)
<1>1. stop \in [Beams -> BOOLEAN]
  BY DEF Ends, Hopeless
<1>2. \A b \in Beams : stop[b] \/ (next[b] \in Beams /\ <<next[b], b>> \in Later)
  BY TurnIsLater DEF Ends
<1>3. PICK g : Runs(g, Beams, stop, out, next)
  <2> HIDE DEF stop, out, next
  <2> QED BY <1>1, <1>2, BeamsFinite, LaterWellFounded, LoopDefined
<1>4. Sol(g)
  BY <1>3 DEF Runs
<1>5. Sol(r)
  BY <1>4
<1>6. SearchLayer(ix, q, seed, ef, lc) = IF InLayer(ix, seed, lc) THEN r[From(seed)] ELSE {}
  BY DEF SearchLayer, InLayer, From
<1>7. Loop(r, ix, q, ef, lc)
  <2> HIDE DEF r
  <2> QED BY <1>5 DEF Loop
<1> QED BY <1>6, <1>7

-----------------------------------------------------------------------------
(* Sound indexes.                                                           *)

SoundIndex(ix) == ix \in HNSWIndexes /\ Sound(ix)

LEMMA LayerMapsAre ==
    ASSUME NEW g
    PROVE  g \in LayerMaps <=> \E k \in 0..TopLevel : g \in [0..k -> SUBSET Ids]
  BY DEF LayerMaps

LEMMA NodeMapsAre ==
    ASSUME NEW f
    PROVE  f \in NodeMaps <=> \E D \in SUBSET Ids : f \in [D -> LayerMaps]
  BY DEF NodeMaps

LEMMA IndexParts ==
    ASSUME NEW ix \in HNSWIndexes
    PROVE  /\ AllIDs(ix) \in SUBSET Ids /\ ix.nodes \in [AllIDs(ix) -> LayerMaps]
           /\ ix.entry \in Ids \cup {None} /\ ix.maxLevel \in Int /\ ix.dim \in Nat \ {0}
           /\ ix.nodes \in NodeMaps
           /\ \A n \in AllIDs(ix) : ix.nodes[n] \in LayerMaps
           /\ \A n \in AllIDs(ix) : \A lc \in DOMAIN ix.nodes[n] :
                 lc \in Nat /\ ix.nodes[n][lc] \in SUBSET Ids
<1>1. ix.nodes \in NodeMaps /\ ix.entry \in Ids \cup {None} /\ ix.maxLevel \in Int
      /\ ix.dim \in Nat \ {0}
  BY DEF HNSWIndexes
<1>2. PICK D \in SUBSET Ids : ix.nodes \in [D -> LayerMaps]
  BY <1>1, NodeMapsAre
<1>3. D = AllIDs(ix)
  BY <1>2 DEF AllIDs
<1>4. \A n \in AllIDs(ix) : ix.nodes[n] \in LayerMaps
  BY <1>2, <1>3
<1>5. ASSUME NEW n \in AllIDs(ix), NEW lc \in DOMAIN ix.nodes[n]
      PROVE  lc \in Nat /\ ix.nodes[n][lc] \in SUBSET Ids
  <2>1. PICK k \in 0..TopLevel : ix.nodes[n] \in [0..k -> SUBSET Ids]
    BY <1>4, LayerMapsAre
  <2>2. lc \in 0..k
    BY <2>1
  <2> QED BY <2>1, <2>2
<1> QED BY <1>1, <1>2, <1>3, <1>4, <1>5

LEMMA NewIndexSound ==
    ASSUME NEW dimension \in Nat \ {0}
    PROVE  /\ SoundIndex(NewHNSWIndex(dimension)) /\ AllIDs(NewHNSWIndex(dimension)) = {}
           /\ NewHNSWIndex(dimension).dim = dimension
<1> DEFINE none == [i \in {} |-> <<>>]
<1>1. none \in NodeMaps
  <2>1. none \in [{} -> LayerMaps]
    OBVIOUS
  <2> QED BY <2>1, NodeMapsAre
<1>2. DOMAIN none = {}
  OBVIOUS
<1> HIDE DEF none
<1>3. NewHNSWIndex(dimension) = [nodes |-> none, entry |-> None, maxLevel |-> -1, dim |-> dimension]
  BY DEF NewHNSWIndex, none
<1>4. AllIDs(NewHNSWIndex(dimension)) = {}
  BY <1>2, <1>3 DEF AllIDs
<1>5. NewHNSWIndex(dimension) \in HNSWIndexes
  BY <1>1, <1>3 DEF HNSWIndexes
<1>6. Sound(NewHNSWIndex(dimension))
  BY <1>3, <1>4 DEF Sound
<1> QED BY <1>3, <1>4, <1>5, <1>6 DEF SoundIndex

(* Links lead to other nodes of the same layer.                             *)
LEMMA LinksStay ==
    ASSUME NEW ix, SoundIndex(ix), NEW n, NEW lc, NEW m \in Neighbours(ix, n, lc)
    PROVE  m # n /\ InLayer(ix, m, lc) /\ InLayer(ix, n, lc)
  BY DEF SoundIndex, Sound, Neighbours, InLayer

(* So does a search of a layer, wherever it starts.                         *)
LEMMA SearchLayerStays ==
    ASSUME NEW ix, SoundIndex(ix), NEW q \in Ids, NEW seed, NEW ef, NEW lc,
           NEW n \in SearchLayer(ix, q, seed, ef, lc)
    PROVE  InLayer(ix, n, lc)
<1>1. AllIDs(ix) \in SUBSET Ids
  BY IndexParts DEF SoundIndex
<1>2. PICK r : /\ Loop(r, ix, q, ef, lc)
               /\ SearchLayer(ix, q, seed, ef, lc) = IF InLayer(ix, seed, lc) THEN r[From(seed)] ELSE {}
  BY <1>1, SearchLayerLoops
<1> DEFINE L == {i \in AllIDs(ix) : InLayer(ix, i, lc)}
<1> DEFINE Bad == {b \in Beams : b.cand \subseteq L /\ b.res \subseteq L /\ ~(r[b] \subseteq L)}
<1>3. ASSUME Bad # {} PROVE FALSE
  <2>1. PICK b \in Bad : \A a \in Bad : ~(<<a, b>> \in Later)
    <3>1. Bad \subseteq Beams
      OBVIOUS
    <3> HIDE DEF Bad
    <3> QED BY <1>3, <3>1, LaterWellFounded, WFMin
  <2> DEFINE e == Explored(ix, q, b, ef, lc)
  <2>2. ~Ends(q, b, ef) /\ r[b] = r[e]
    BY <1>2, <2>1 DEF Loop
  <2>3. b.cand # {}
    BY <2>2 DEF Ends
  <2>4. e \in Beams /\ <<e, b>> \in Later
    BY <1>1, <2>1, <2>3, TurnIsLater
  <2>5. e.cand \subseteq L /\ e.res \subseteq L
    <3> DEFINE c == Nearest(q, b.cand)
    <3> DEFINE fresh == (Neighbours(ix, c, lc) \cap AllIDs(ix)) \ b.visited
    <3>1. fresh \subseteq L
      BY LinksStay
    <3>2. Best(q, b.res \cup fresh, ef) \subseteq b.res \cup fresh
      BY BestSubset
    <3>3. /\ e.cand = (b.cand \ {c}) \cup (fresh \cap Best(q, b.res \cup fresh, ef))
          /\ e.res = Best(q, b.res \cup fresh, ef)
      BY DEF Explored
    <3> HIDE DEF e, fresh, c, L
    <3> QED BY <3>1, <3>2, <3>3, <2>1
  <2> QED BY <2>1, <2>2, <2>4, <2>5
<1>4. InLayer(ix, seed, lc) /\ n \in r[From(seed)]
  BY <1>2
<1>5. From(seed) \in Beams /\ From(seed).cand \subseteq L /\ From(seed).res \subseteq L
  BY <1>1, <1>4 DEF From, Beams, InLayer
<1>6. r[From(seed)] \subseteq L
  <2> HIDE DEF L
  <2> QED BY <1>3, <1>5
<1> QED BY <1>4, <1>6

-----------------------------------------------------------------------------
(* Remove.                                                                  *)

LinksSound(nodes) ==
    \A n \in DOMAIN nodes : \A lc \in DOMAIN nodes[n] : \A m \in nodes[n][lc] :
        m # n /\ m \in DOMAIN nodes /\ lc \in DOMAIN nodes[m]

EntrySound(nodes, entry, maxLevel) ==
    IF DOMAIN nodes = {} THEN entry = None /\ maxLevel = -1
    ELSE entry \in DOMAIN nodes /\ 0..maxLevel \subseteq DOMAIN nodes[entry]

LEMMA SoundParts ==
    ASSUME NEW ix
    PROVE  Sound(ix) <=> LinksSound(ix.nodes) /\ EntrySound(ix.nodes, ix.entry, ix.maxLevel)
  BY DEF Sound, LinksSound, EntrySound, AllIDs

(* The levels of a node end below the number of its layers.                 *)
LEMMA TopLayer ==
    ASSUME NEW g \in LayerMaps
    PROVE  /\ Cardinality(DOMAIN g) - 1 \in Nat
           /\ DOMAIN g = 0..(Cardinality(DOMAIN g) - 1)
<1>1. PICK k \in 0..TopLevel : g \in [0..k -> SUBSET Ids]
  BY LayerMapsAre
<1>2. DOMAIN g = 0..k
  BY <1>1
<1>3. Cardinality(0..k) = k + 1
  BY FS_Interval
<1> QED BY <1>2, <1>3

LEMMA UnlinkSound ==
    ASSUME NEW ix, SoundIndex(ix), NEW id
    PROVE  /\ Unlink(ix, id) \in NodeMaps /\ LinksSound(Unlink(ix, id))
           /\ DOMAIN Unlink(ix, id) = AllIDs(ix) \ {id}
           /\ \A n \in AllIDs(ix) \ {id} : DOMAIN Unlink(ix, id)[n] = DOMAIN ix.nodes[n]
<1> DEFINE u == Unlink(ix, id)
<1>1. DOMAIN u = AllIDs(ix) \ {id} /\ u = [n \in DOMAIN u |-> u[n]]
  BY DEF Unlink
<1>2. ASSUME NEW n \in AllIDs(ix) \ {id}
      PROVE  /\ DOMAIN u[n] = DOMAIN ix.nodes[n] /\ u[n] \in LayerMaps
             /\ \A lc \in DOMAIN u[n] : u[n][lc] = ix.nodes[n][lc] \ {id}
  <2>1. u[n] = [lc \in DOMAIN ix.nodes[n] |-> ix.nodes[n][lc] \ {id}]
    BY DEF Unlink
  <2>2. PICK k \in 0..TopLevel : ix.nodes[n] \in [0..k -> SUBSET Ids]
    BY IndexParts, LayerMapsAre DEF SoundIndex
  <2>3. u[n] \in [0..k -> SUBSET Ids]
    BY <2>1, <2>2
  <2> QED BY <2>1, <2>3, LayerMapsAre
<1>3. AllIDs(ix) \in SUBSET Ids
  BY IndexParts DEF SoundIndex
<1> HIDE DEF u
<1>4. u \in [AllIDs(ix) \ {id} -> LayerMaps]
  BY <1>1, <1>2
<1>5. u \in NodeMaps
  <2>1. AllIDs(ix) \ {id} \in SUBSET Ids
    BY <1>3
  <2> QED BY <1>4, <2>1, NodeMapsAre
<1>6. ASSUME NEW n \in DOMAIN u, NEW lc \in DOMAIN u[n], NEW m \in u[n][lc]
      PROVE  m # n /\ m \in DOMAIN u /\ lc \in DOMAIN u[m]
  <2>1. m \in ix.nodes[n][lc] /\ m # id /\ n \in AllIDs(ix) /\ lc \in DOMAIN ix.nodes[n]
    BY <1>1, <1>2, <1>6
  <2>2. m # n /\ m \in AllIDs(ix) /\ lc \in DOMAIN ix.nodes[m]
    BY <2>1 DEF SoundIndex, Sound
  <2> QED BY <1>1, <1>2, <2>1, <2>2
<1>7. LinksSound(u)
  BY <1>6 DEF LinksSound
<1>8. u = Unlink(ix, id)
  BY DEF u
<1> QED BY <1>1, <1>2, <1>5, <1>7, <1>8

LEMMA RemoveSound ==
    ASSUME NEW ix, SoundIndex(ix), NEW id, NEW a \in Remove(ix, id)
    PROVE  SoundIndex(a) /\ AllIDs(a) = AllIDs(ix) \ {id} /\ a.dim = ix.dim
<1>1. CASE id \notin AllIDs(ix)
  BY <1>1 DEF Remove
<1>2. CASE id \in AllIDs(ix)
  <2> DEFINE u == Unlink(ix, id)
  <2>1. a \in RemoveNode(ix, id) /\ ix \in HNSWIndexes
    BY <1>2 DEF Remove, SoundIndex
  <2>2. /\ u \in NodeMaps /\ LinksSound(u) /\ DOMAIN u = AllIDs(ix) \ {id}
        /\ \A n \in DOMAIN u : DOMAIN u[n] = DOMAIN ix.nodes[n]
    BY UnlinkSound, ZenonT(30)
  <2>3. EntrySound(ix.nodes, ix.entry, ix.maxLevel)
    BY SoundParts DEF SoundIndex
  <2>4. ASSUME NEW n \in Ids \cup {None}, NEW top \in Int,
               a = [ix EXCEPT !.nodes = u, !.entry = n, !.maxLevel = top]
        PROVE  a.nodes = u /\ a.entry = n /\ a.maxLevel = top /\ a.dim = ix.dim /\ a \in HNSWIndexes
    <3> HIDE DEF u
    <3> QED BY <2>1, <2>2, <2>4 DEF HNSWIndexes
  <2> HIDE DEF u
  <2>5. /\ a.nodes = u /\ a.dim = ix.dim /\ a \in HNSWIndexes
        /\ EntrySound(u, a.entry, a.maxLevel)
    <3>1. CASE ix.entry # id
      <4>1. a = [ix EXCEPT !.nodes = u]
        BY <2>1, <3>1 DEF RemoveNode, u
      <4>2. a = [ix EXCEPT !.nodes = u, !.entry = ix.entry, !.maxLevel = ix.maxLevel]
        BY <4>1, <2>1 DEF HNSWIndexes
      <4>3. AllIDs(ix) # {}
        BY <1>2
      <4>4. ix.entry \in DOMAIN u /\ 0..ix.maxLevel \subseteq DOMAIN u[ix.entry]
        BY <2>2, <2>3, <3>1, <4>3 DEF EntrySound, AllIDs
      <4>5. EntrySound(u, ix.entry, ix.maxLevel)
        BY <4>4 DEF EntrySound
      <4>6. ix.entry \in Ids \cup {None} /\ ix.maxLevel \in Int
        BY <2>1 DEF HNSWIndexes
      <4> QED BY <2>4, <4>2, <4>5, <4>6
    <3>2. CASE ix.entry = id /\ DOMAIN u = {}
      <4>1. a = [ix EXCEPT !.nodes = u, !.entry = None, !.maxLevel = -1]
        BY <2>1, <3>2 DEF RemoveNode, u
      <4>2. EntrySound(u, None, -1)
        BY <3>2 DEF EntrySound
      <4> DEFINE top == -1
      <4>3. a = [ix EXCEPT !.nodes = u, !.entry = None, !.maxLevel = top] /\ top \in Int
        BY <4>1
      <4>4. EntrySound(u, None, top)
        BY <4>2
      <4> HIDE DEF top
      <4> QED BY <2>4, <4>3, <4>4
    <3>3. CASE ix.entry = id /\ DOMAIN u # {}
      <4>1. PICK n \in DOMAIN u :
               a = [ix EXCEPT !.nodes = u, !.entry = n, !.maxLevel = Cardinality(DOMAIN u[n]) - 1]
        BY <2>1, <3>3 DEF RemoveNode, u
      <4>2. n \in Ids
        BY <2>1, <2>2, IndexParts
      <4>3. u[n] \in LayerMaps
        <5>1. PICK D \in SUBSET Ids : u \in [D -> LayerMaps]
          BY <2>2, NodeMapsAre
        <5> QED BY <5>1
      <4>4. Cardinality(DOMAIN u[n]) - 1 \in Nat /\ DOMAIN u[n] = 0..(Cardinality(DOMAIN u[n]) - 1)
        BY <4>3, TopLayer
      <4>5. EntrySound(u, n, Cardinality(DOMAIN u[n]) - 1)
        BY <4>4 DEF EntrySound
      <4> DEFINE top == Cardinality(DOMAIN u[n]) - 1
      <4>6. a = [ix EXCEPT !.nodes = u, !.entry = n, !.maxLevel = top] /\ top \in Int
        BY <4>1, <4>4
      <4>7. EntrySound(u, n, top)
        BY <4>5
      <4> HIDE DEF top
      <4> QED BY <2>4, <4>2, <4>6, <4>7
    <3> QED BY <3>1, <3>2, <3>3
  <2>6. Sound(a)
    BY <2>2, <2>5, SoundParts
  <2> QED BY <2>2, <2>5, <2>6 DEF SoundIndex, AllIDs
<1> QED BY <1>1, <1>2

-----------------------------------------------------------------------------
(* Add.                                                                     *)

With(ix, nodes, entry, maxLevel) == [ix EXCEPT !.nodes = nodes, !.entry = entry, !.maxLevel = maxLevel]

LEMMA WithSound ==
    ASSUME NEW ix \in HNSWIndexes, NEW f \in NodeMaps, NEW e \in Ids \cup {None}, NEW top \in Int,
           LinksSound(f), EntrySound(f, e, top)
    PROVE  /\ SoundIndex(With(ix, f, e, top)) /\ AllIDs(With(ix, f, e, top)) = DOMAIN f
           /\ With(ix, f, e, top).dim = ix.dim /\ With(ix, f, e, top).nodes = f
           /\ With(ix, f, e, top).entry = e /\ With(ix, f, e, top).maxLevel = top
<1> DEFINE a == With(ix, f, e, top)
<1>1. a.nodes = f /\ a.entry = e /\ a.maxLevel = top /\ a.dim = ix.dim /\ a \in HNSWIndexes
  BY DEF HNSWIndexes, With
<1> HIDE DEF a
<1>2. Sound(a)
  BY <1>1, SoundParts
<1>3. SoundIndex(a) /\ AllIDs(a) = DOMAIN f
  BY <1>1, <1>2 DEF SoundIndex, AllIDs
<1> QED BY <1>1, <1>3 DEF a

(* The entry point is raised to the new node's level.                       *)
Raised(ix, level) ==
    [RaiseEntry(ix, level) EXCEPT !.maxLevel = IF level > ix.maxLevel THEN level ELSE ix.maxLevel]

LEMMA RaisedSound ==
    ASSUME NEW ix, SoundIndex(ix), ix.entry # None, NEW level \in 0..TopLevel
    PROVE  /\ SoundIndex(Raised(ix, level)) /\ AllIDs(Raised(ix, level)) = AllIDs(ix)
           /\ Raised(ix, level).dim = ix.dim /\ Raised(ix, level).entry = ix.entry
           /\ Raised(ix, level).maxLevel = IF level > ix.maxLevel THEN level ELSE ix.maxLevel
<1> DEFINE up == [lc \in DOMAIN ix.nodes[ix.entry] \cup 0..level |->
                     IF lc \in DOMAIN ix.nodes[ix.entry] THEN ix.nodes[ix.entry][lc] ELSE {}]
<1> DEFINE f == [ix.nodes EXCEPT ![ix.entry] = up]
<1> DEFINE top == IF level > ix.maxLevel THEN level ELSE ix.maxLevel
<1>1. ix \in HNSWIndexes /\ Sound(ix)
  BY DEF SoundIndex
<1>2. LinksSound(ix.nodes) /\ EntrySound(ix.nodes, ix.entry, ix.maxLevel)
  BY <1>1, SoundParts
<1>3. ix.entry \in AllIDs(ix) /\ 0..ix.maxLevel \subseteq DOMAIN ix.nodes[ix.entry]
  BY <1>2 DEF EntrySound, AllIDs
<1>4. Raised(ix, level) = [ix EXCEPT !.nodes = f, !.entry = ix.entry, !.maxLevel = top]
  <2>1. RaiseEntry(ix, level) = [ix EXCEPT !.nodes = f]
    BY <1>1 DEF RaiseEntry, HNSWIndexes
  <2> HIDE DEF f, top
  <2>2. [[ix EXCEPT !.nodes = f] EXCEPT !.maxLevel = top]
         = [ix EXCEPT !.nodes = f, !.entry = ix.entry, !.maxLevel = top]
    BY <1>1 DEF HNSWIndexes
  <2> QED BY <2>1, <2>2 DEF Raised, top
<1>5. ix.nodes \in [AllIDs(ix) -> LayerMaps] /\ AllIDs(ix) \in SUBSET Ids /\ ix.maxLevel \in Int
  BY <1>1, IndexParts
<1>6. up \in LayerMaps /\ DOMAIN up = DOMAIN ix.nodes[ix.entry] \cup 0..level
  <2>1. PICK k \in 0..TopLevel : ix.nodes[ix.entry] \in [0..k -> SUBSET Ids]
    BY <1>3, <1>5, LayerMapsAre
  <2> DEFINE j == IF k < level THEN level ELSE k
  <2>2. j \in 0..TopLevel /\ (0..k) \cup 0..level = 0..j
    OBVIOUS
  <2>3. up \in [0..j -> SUBSET Ids]
    <3>1. DOMAIN ix.nodes[ix.entry] = 0..k
      BY <2>1
    <3>2. up = [lc \in 0..j |-> IF lc \in 0..k THEN ix.nodes[ix.entry][lc] ELSE {}]
      BY <3>1, <2>2
    <3>3. \A lc \in 0..k : ix.nodes[ix.entry][lc] \in SUBSET Ids
      BY <2>1
    <3> HIDE DEF up, j
    <3> QED BY <3>2, <3>3
  <2>4. DOMAIN up = DOMAIN ix.nodes[ix.entry] \cup 0..level
    OBVIOUS
  <2> HIDE DEF up, j
  <2> QED BY <2>2, <2>3, <2>4, LayerMapsAre
<1>7. /\ DOMAIN f = AllIDs(ix) /\ f[ix.entry] = up
      /\ \A n \in AllIDs(ix) \ {ix.entry} : f[n] = ix.nodes[n]
      /\ f \in [AllIDs(ix) -> LayerMaps]
  <2> HIDE DEF up
  <2> QED BY <1>3, <1>5, <1>6
<1>8. f \in NodeMaps
  <2> HIDE DEF f
  <2> QED BY <1>5, <1>7, NodeMapsAre
<1>9. \A n \in AllIDs(ix) : DOMAIN ix.nodes[n] \subseteq DOMAIN f[n]
  <2> HIDE DEF f, up
  <2> QED BY <1>6, <1>7
<1>10. ASSUME NEW n \in DOMAIN f, NEW lc \in DOMAIN f[n], NEW m \in f[n][lc]
       PROVE  m # n /\ m \in DOMAIN f /\ lc \in DOMAIN f[m]
  <2>1. lc \in DOMAIN ix.nodes[n] /\ m \in ix.nodes[n][lc]
    <3>1. CASE n = ix.entry
      BY <1>7, <1>10, <3>1
    <3>2. CASE n # ix.entry
      <4> HIDE DEF f, up
      <4> QED BY <1>7, <1>10, <3>2
    <3> QED BY <3>1, <3>2
  <2>2. n \in DOMAIN ix.nodes /\ AllIDs(ix) = DOMAIN ix.nodes
    BY <1>7 DEF AllIDs
  <2> HIDE DEF f, up
  <2>3. m # n /\ m \in DOMAIN ix.nodes /\ lc \in DOMAIN ix.nodes[m]
    BY <1>2, <2>1, <2>2 DEF LinksSound
  <2> QED BY <1>7, <1>9, <2>2, <2>3
<1>11. LinksSound(f)
  <2> HIDE DEF f
  <2> QED BY <1>10 DEF LinksSound
<1>12. EntrySound(f, ix.entry, top) /\ top \in Int
  <2>1. 0..top \subseteq DOMAIN up
    BY <1>3, <1>5, <1>6
  <2> HIDE DEF f, up
  <2>2. top \in Int
    BY <1>5
  <2> HIDE DEF top
  <2> QED BY <1>3, <1>7, <2>1, <2>2 DEF EntrySound
<1> HIDE DEF f
<1>13. top = IF level > ix.maxLevel THEN level ELSE ix.maxLevel
  OBVIOUS
<1> HIDE DEF top
<1>14. ix.entry \in Ids \cup {None}
  BY <1>3, <1>5
<1>15. /\ SoundIndex(Raised(ix, level)) /\ AllIDs(Raised(ix, level)) = DOMAIN f
       /\ Raised(ix, level).dim = ix.dim /\ Raised(ix, level).entry = ix.entry
       /\ Raised(ix, level).maxLevel = top
  <2> DEFINE e == ix.entry
  <2> DEFINE a == Raised(ix, level)
  <2>1. /\ EntrySound(f, e, top) /\ e \in Ids \cup {None}
        /\ a = With(ix, f, e, top)
    BY <1>4, <1>12, <1>14 DEF With
  <2> HIDE DEF e, a
  <2>2. SoundIndex(a) /\ AllIDs(a) = DOMAIN f /\ a.dim = ix.dim /\ a.entry = e /\ a.maxLevel = top
    BY <1>1, <1>8, <1>11, <1>12, <2>1, WithSound
  <2> QED BY <2>2 DEF a, e
<1> QED BY <1>7, <1>13, <1>15

(* The links of the new node and the links back.                            *)
LEMMA NearStays ==
    ASSUME NEW ix, SoundIndex(ix), NEW id \in Ids, NEW level \in 0..TopLevel
    PROVE  /\ DOMAIN NeighboursOf(ix, id, level) = 0..level
           /\ NeighboursOf(ix, id, level) \in LayerMaps
           /\ \A lc \in 0..level : \A n \in NeighboursOf(ix, id, level)[lc] : InLayer(ix, n, lc)
<1> DEFINE seed == CHOOSE s : s = [lc \in 0..level |->
            IF lc = level THEN Descend(ix, id, level)
            ELSE Advance(id, s[lc + 1], SearchLayer(ix, id, s[lc + 1], EfConstruction, lc + 1))]
<1> DEFINE near == [lc \in 0..level |-> Best(id, SearchLayer(ix, id, seed[lc], EfConstruction, lc), M)]
<1>1. NeighboursOf(ix, id, level) = near
  BY DEF NeighboursOf
<1> HIDE DEF seed
<1>2. ASSUME NEW lc \in 0..level, NEW n \in near[lc] PROVE InLayer(ix, n, lc)
  <2>1. n \in SearchLayer(ix, id, seed[lc], EfConstruction, lc)
    BY <1>2, BestSubset
  <2> QED BY <2>1, SearchLayerStays
<1>3. near \in [0..level -> SUBSET Ids]
  <2>1. ASSUME NEW lc \in 0..level PROVE near[lc] \in SUBSET Ids
    BY <1>2, IndexParts DEF SoundIndex, InLayer
  <2>2. near = [lc \in 0..level |-> near[lc]]
    OBVIOUS
  <2> HIDE DEF near
  <2> QED BY <2>1, <2>2
<1>4. DOMAIN near = 0..level
  OBVIOUS
<1> HIDE DEF near
<1>5. near \in LayerMaps
  BY <1>3, LayerMapsAre
<1> QED BY <1>1, <1>2, <1>4, <1>5

LEMMA PrunedLinks ==
    ASSUME NEW ix, NEW n, NEW links PROVE PruneConnections(ix, n, links) \subseteq links
  BY BestSubset DEF PruneConnections

LEMMA LinkBackSound ==
    ASSUME NEW ix, SoundIndex(ix), NEW id \in Ids, NEW near,
           \A lc \in DOMAIN near : \A n \in near[lc] : InLayer(ix, n, lc)
    PROVE  /\ DOMAIN LinkBack(ix, id, near) = AllIDs(ix)
           /\ \A n \in AllIDs(ix) :
                 /\ LinkBack(ix, id, near)[n] \in LayerMaps
                 /\ DOMAIN LinkBack(ix, id, near)[n] = DOMAIN ix.nodes[n]
                 /\ \A lc \in DOMAIN ix.nodes[n] : \A m \in LinkBack(ix, id, near)[n][lc] :
                       m \in ix.nodes[n][lc] \/ (m = id /\ lc \in DOMAIN near)
<1>1. DOMAIN LinkBack(ix, id, near) = AllIDs(ix)
  BY DEF LinkBack
<1>2. ASSUME NEW n \in AllIDs(ix)
      PROVE  /\ LinkBack(ix, id, near)[n] \in LayerMaps
             /\ DOMAIN LinkBack(ix, id, near)[n] = DOMAIN ix.nodes[n]
             /\ \A lc \in DOMAIN ix.nodes[n] : \A m \in LinkBack(ix, id, near)[n][lc] :
                   m \in ix.nodes[n][lc] \/ (m = id /\ lc \in DOMAIN near)
  <2> DEFINE own == ix.nodes[n]
  <2> DEFINE mine == {lc \in DOMAIN near : n \in near[lc]}
  <2> DEFINE b == [lc \in DOMAIN own \cup mine |->
                      IF lc \in mine THEN PruneConnections(ix, n, Neighbours(ix, n, lc) \cup {id})
                      ELSE own[lc]]
  <2>1. LinkBack(ix, id, near)[n] = b
    BY DEF LinkBack
  <2>2. mine \subseteq DOMAIN own
    BY DEF InLayer
  <2>3. PICK k \in 0..TopLevel : own \in [0..k -> SUBSET Ids]
    BY IndexParts, LayerMapsAre DEF SoundIndex
  <2>4. DOMAIN b = 0..k /\ DOMAIN own = 0..k /\ b = [lc \in 0..k |-> b[lc]]
    BY <2>2, <2>3
  <2>5. ASSUME NEW lc \in 0..k, NEW m \in b[lc]
        PROVE  m \in own[lc] \/ (m = id /\ lc \in DOMAIN near)
    <3>1. CASE lc \in mine
      <4>1. m \in Neighbours(ix, n, lc) \cup {id}
        BY <2>4, <2>5, <3>1, PrunedLinks
      <4>2. Neighbours(ix, n, lc) = own[lc]
        BY <2>4 DEF Neighbours
      <4> QED BY <3>1, <4>1, <4>2
    <3>2. CASE lc \notin mine
      BY <2>4, <2>5, <3>2
    <3> QED BY <3>1, <3>2
  <2>6. b \in [0..k -> SUBSET Ids]
    <3>1. \A lc \in 0..k : b[lc] \in SUBSET Ids
      <4>1. \A lc \in 0..k : own[lc] \in SUBSET Ids
        BY <2>3
      <4> HIDE DEF b, own
      <4> QED BY <2>5, <4>1
    <3> HIDE DEF b
    <3> QED BY <2>4, <3>1
  <2>7. b \in LayerMaps
    <3> HIDE DEF b
    <3> QED BY <2>6, LayerMapsAre
  <2> HIDE DEF b
  <2> QED BY <2>1, <2>4, <2>5, <2>7
<1> QED BY <1>1, <1>2

(* A new node keeps the index sound.                                        *)
LEMMA InsertSound ==
    ASSUME NEW ix, SoundIndex(ix), NEW id \in Ids, id \notin AllIDs(ix), NEW level \in 0..TopLevel
    PROVE  /\ SoundIndex(Insert(ix, id, level)) /\ AllIDs(Insert(ix, id, level)) = AllIDs(ix) \cup {id}
           /\ Insert(ix, id, level).dim = ix.dim
<1>1. ix \in HNSWIndexes /\ EntrySound(ix.nodes, ix.entry, ix.maxLevel) /\ AllIDs(ix) = DOMAIN ix.nodes
  BY SoundParts DEF SoundIndex, AllIDs
<1>2. CASE ix.entry = None
  <2> DEFINE own == [lc \in 0..level |-> {}]
  <2> DEFINE f == [n \in {id} |-> own]
  <2>1. Insert(ix, id, level) = [ix EXCEPT !.nodes = f, !.entry = id, !.maxLevel = level]
    BY <1>2 DEF Insert
  <2>2. AllIDs(ix) = {}
    BY <1>1, <1>2, IndexParts, IdsAssumption DEF EntrySound
  <2>3. own \in LayerMaps
    <3>1. own \in [0..level -> SUBSET Ids]
      OBVIOUS
    <3> QED BY <3>1, LayerMapsAre
  <2>4. f \in NodeMaps
    <3>1. f \in [{id} -> LayerMaps] /\ {id} \in SUBSET Ids
      <4> HIDE DEF own
      <4> QED BY <2>3
    <3> QED BY <3>1, NodeMapsAre
  <2>5. LinksSound(f) /\ DOMAIN f = {id} /\ DOMAIN f[id] = 0..level
    BY DEF LinksSound
  <2> HIDE DEF f
  <2>6. EntrySound(f, id, level)
    BY <2>5 DEF EntrySound
  <2> DEFINE a == Insert(ix, id, level)
  <2>7. a = With(ix, f, id, level) /\ level \in Int
    BY <2>1 DEF With
  <2> HIDE DEF a
  <2>8. SoundIndex(a) /\ AllIDs(a) = DOMAIN f /\ a.dim = ix.dim
    BY <1>1, <2>4, <2>5, <2>6, <2>7, WithSound
  <2> QED BY <2>2, <2>5, <2>8 DEF a
<1>3. CASE ix.entry # None
  <2> DEFINE r == Raised(ix, level)
  <2> DEFINE near == NeighboursOf(r, id, level)
  <2> DEFINE others == LinkBack(r, id, near)
  <2> DEFINE f == [n \in AllIDs(ix) \cup {id} |-> IF n = id THEN near ELSE others[n]]
  <2> DEFINE e == IF level > ix.maxLevel THEN id ELSE ix.entry
  <2> DEFINE top == IF level > ix.maxLevel THEN level ELSE ix.maxLevel
  <2> DEFINE a == Insert(ix, id, level)
  <2>1. /\ SoundIndex(r) /\ AllIDs(r) = AllIDs(ix) /\ r.dim = ix.dim
        /\ r.entry = ix.entry /\ r.maxLevel = top
    BY <1>3, RaisedSound
  <2>2. a = [r EXCEPT !.nodes = f, !.entry = e]
    BY <1>3 DEF Insert, Raised
  <2> HIDE DEF r
  <2>3. /\ DOMAIN near = 0..level /\ near \in LayerMaps
        /\ \A lc \in 0..level : \A n \in near[lc] : InLayer(r, n, lc)
    BY <2>1, NearStays
  <2> HIDE DEF near
  <2>4. \A lc \in DOMAIN near : \A n \in near[lc] : InLayer(r, n, lc)
    BY <2>3
  <2>5. /\ DOMAIN others = AllIDs(ix)
        /\ \A n \in AllIDs(ix) :
              /\ others[n] \in LayerMaps
              /\ DOMAIN others[n] = DOMAIN r.nodes[n]
              /\ \A lc \in DOMAIN r.nodes[n] : \A m \in others[n][lc] :
                    m \in r.nodes[n][lc] \/ (m = id /\ lc \in DOMAIN near)
    BY <2>1, <2>4, LinkBackSound
  <2> HIDE DEF others
  <2>6. /\ DOMAIN f = AllIDs(ix) \cup {id} /\ f[id] = near
        /\ \A n \in AllIDs(ix) : f[n] = others[n]
    OBVIOUS
  <2>7. AllIDs(ix) \in SUBSET Ids /\ ix.maxLevel \in Int
    BY <1>1, IndexParts
  <2>8. f \in NodeMaps
    <3>1. \A n \in AllIDs(ix) \cup {id} : f[n] \in LayerMaps
      BY <2>3, <2>5
    <3>2. f = [n \in AllIDs(ix) \cup {id} |-> f[n]]
      OBVIOUS
    <3> HIDE DEF f
    <3>3. f \in [AllIDs(ix) \cup {id} -> LayerMaps] /\ AllIDs(ix) \cup {id} \in SUBSET Ids
      BY <2>7, <3>1, <3>2
    <3> QED BY <3>3, NodeMapsAre
  <2> HIDE DEF f
  <2>9. ASSUME NEW n \in DOMAIN f, NEW lc \in DOMAIN f[n], NEW m \in f[n][lc]
        PROVE  m # n /\ m \in DOMAIN f /\ lc \in DOMAIN f[m]
    <3>1. CASE n = id
      <4>1. InLayer(r, m, lc)
        BY <2>3, <2>6, <2>9, <3>1
      <4> QED BY <2>1, <2>5, <2>6, <3>1, <4>1 DEF InLayer
    <3>2. CASE n # id
      <4>1. n \in AllIDs(ix) /\ lc \in DOMAIN r.nodes[n]
        BY <2>5, <2>6, <2>9, <3>2
      <4>2. m \in r.nodes[n][lc] \/ (m = id /\ lc \in DOMAIN near)
        BY <2>5, <2>6, <2>9, <4>1
      <4>3. CASE m \in r.nodes[n][lc]
        <5>1. m # n /\ m \in AllIDs(r) /\ lc \in DOMAIN r.nodes[m]
          BY <2>1, <4>1, <4>3 DEF SoundIndex, Sound
        <5> QED BY <2>1, <2>5, <2>6, <5>1
      <4> QED BY <2>6, <3>2, <4>2, <4>3
    <3> QED BY <3>1, <3>2
  <2>10. LinksSound(f)
    BY <2>9 DEF LinksSound
  <2>11. EntrySound(f, e, top) /\ e \in Ids \cup {None} /\ top \in Int
    <3>1. CASE level > ix.maxLevel
      BY <2>3, <2>6, <3>1 DEF EntrySound
    <3>2. CASE ~(level > ix.maxLevel)
      <4>1. r.entry \in AllIDs(r) /\ 0..r.maxLevel \subseteq DOMAIN r.nodes[r.entry]
        <5>1. EntrySound(r.nodes, r.entry, r.maxLevel) /\ AllIDs(r) = DOMAIN r.nodes
          BY <2>1, SoundParts DEF SoundIndex, AllIDs
        <5> QED BY <1>3, <2>1, <5>1 DEF EntrySound
      <4>2. e = r.entry /\ top = r.maxLevel
        BY <2>1, <3>2
      <4> HIDE DEF e, top
      <4>3. e \in AllIDs(ix) /\ 0..top \subseteq DOMAIN f[e] /\ e \in DOMAIN f
        BY <2>1, <2>5, <2>6, <4>1, <4>2
      <4>4. top \in Int
        BY <2>1, <4>2, IndexParts DEF SoundIndex
      <4> QED BY <2>7, <4>3, <4>4 DEF EntrySound
    <3> QED BY <3>1, <3>2
  <2>12. a = With(r, f, e, top)
    <3> HIDE DEF a, e, top
    <3> QED BY <2>1, <2>2 DEF SoundIndex, HNSWIndexes, With
  <2> HIDE DEF a, e, top
  <2>13. r \in HNSWIndexes
    BY <2>1 DEF SoundIndex
  <2>14. SoundIndex(a) /\ AllIDs(a) = DOMAIN f /\ a.dim = r.dim
    BY <2>8, <2>10, <2>11, <2>12, <2>13, WithSound
  <2> QED BY <2>1, <2>6, <2>14 DEF a
<1> QED BY <1>2, <1>3

LEMMA AddSound ==
    ASSUME NEW ix, SoundIndex(ix), NEW id \in Ids, NEW length, NEW a \in Add(ix, id, length)
    PROVE  /\ SoundIndex(a) /\ a.dim = ix.dim
           /\ AllIDs(a) = IF length = ix.dim THEN AllIDs(ix) \cup {id} ELSE AllIDs(ix)
<1>1. CASE length # ix.dim
  BY <1>1 DEF Add
<1>2. CASE length = ix.dim
  <2>1. PICK free \in Remove(ix, id), level \in 0..TopLevel : a = Insert(free, id, level)
    BY <1>2 DEF Add
  <2>2. SoundIndex(free) /\ AllIDs(free) = AllIDs(ix) \ {id} /\ free.dim = ix.dim
    BY RemoveSound
  <2>3. level \in 0..TopLevel /\ id \notin AllIDs(free)
    BY <2>2, TopLevelAssumption
  <2>4. SoundIndex(a) /\ AllIDs(a) = AllIDs(free) \cup {id} /\ a.dim = free.dim
    BY <2>1, <2>2, <2>3, InsertSound
  <2> QED BY <1>2, <2>2, <2>4
<1> QED BY <1>1, <1>2

-----------------------------------------------------------------------------
(* AddAll and DropAll: one vector after the other.                          *)

Touch(adding, ix, i, length) == IF adding THEN Add(ix, i, length[i]) ELSE Remove(ix, i)
Picked(S) == CHOOSE i \in S : TRUE
Less(S) == S \ {Picked(S)}
After(adding, X, i, length) == UNION {Touch(adding, ix, i, length) : ix \in X}
Folds(g, D, adding, start, length) ==
    /\ g = [S \in D |-> g[S]]
    /\ \A S \in D : g[S] = IF S = {} THEN start ELSE After(adding, g[Less(S)], Picked(S), length)

LEMMA LessIsLess ==
    ASSUME NEW S \in SUBSET Ids, S # {}
    PROVE  /\ Picked(S) \in S /\ Less(S) \in SUBSET Ids /\ S = Less(S) \cup {Picked(S)}
           /\ <<Less(S), S>> \in StrictSubsetOrdering(Ids)
  BY DEF Picked, Less, StrictSubsetOrdering

LEMMA SubsetsOrdered == IsWellFoundedOn(StrictSubsetOrdering(Ids), SUBSET Ids)
  BY IdsAssumption, FS_FiniteSubsetsOfFinite, FS_StrictSubsetOrderingWellFounded

LEMMA FoldDefined ==
    ASSUME NEW adding, NEW start, NEW length
    PROVE  \E g : Folds(g, SUBSET Ids, adding, start, length)
<1> DEFINE Closed(D) == \A S \in D : S = {} \/ Less(S) \in D
<1> DEFINE Good == {D \in SUBSET SUBSET Ids : Closed(D) /\ \E g : Folds(g, D, adding, start, length)}
<1>1. {} \in Good
  <2>1. Folds([S \in {} |-> 0], {}, adding, start, length)
    BY DEF Folds
  <2> QED BY <2>1
<1>2. PICK D \in Good : \A U \in Good : D \subseteq U => U = D
  <2>1. Good \in SUBSET SUBSET SUBSET Ids /\ Good # {}
    BY <1>1
  <2>2. IsFiniteSet(SUBSET Ids)
    BY IdsAssumption, FS_SUBSET
  <2> HIDE DEF Good
  <2> QED BY <2>1, <2>2, MaximalGood
<1>3. PICK g : Folds(g, D, adding, start, length)
  OBVIOUS
<1>4. ASSUME D # SUBSET Ids PROVE FALSE
  <2>1. (SUBSET Ids) \ D # {} /\ (SUBSET Ids) \ D \subseteq SUBSET Ids
    BY <1>2, <1>4
  <2>2. PICK T \in (SUBSET Ids) \ D : \A U \in (SUBSET Ids) \ D :
            ~(<<U, T>> \in StrictSubsetOrdering(Ids))
    <3> DEFINE Rest == (SUBSET Ids) \ D
    <3>1. Rest # {} /\ Rest \subseteq SUBSET Ids
      BY <2>1
    <3> HIDE DEF Rest
    <3>2. \E T \in Rest : \A U \in Rest : ~(<<U, T>> \in StrictSubsetOrdering(Ids))
      BY <3>1, SubsetsOrdered, WFMin
    <3> QED BY <3>2 DEF Rest
  <2>3. T = {} \/ Less(T) \in D
    BY <2>2, LessIsLess
  <2> DEFINE U == D \cup {T}
  <2> DEFINE h == [S \in U |-> IF S \in D THEN g[S]
                               ELSE IF T = {} THEN start
                               ELSE After(adding, g[Less(T)], Picked(T), length)]
  <2>4. Closed(U)
    BY <1>2, <2>3
  <2>5. ASSUME NEW S \in U
        PROVE  h[S] = IF S = {} THEN start ELSE After(adding, h[Less(S)], Picked(S), length)
    <3>1. CASE S \in D
      <4>1. g[S] = IF S = {} THEN start ELSE After(adding, g[Less(S)], Picked(S), length)
        BY <3>1, <1>3 DEF Folds
      <4>2. S = {} \/ h[Less(S)] = g[Less(S)]
        BY <3>1, <1>2
      <4> QED BY <3>1, <4>1, <4>2
    <3>2. CASE S = T
      BY <3>2, <2>2, <2>3
    <3> QED BY <3>1, <3>2
  <2>6. Folds(h, U, adding, start, length)
    <3>1. h = [S \in U |-> h[S]]
      OBVIOUS
    <3> HIDE DEF h, U
    <3> QED BY <2>5, <3>1 DEF Folds
  <2>7. U \in Good
    BY <2>4, <2>6, <1>2, <2>2
  <2> QED BY <2>7, <1>2, <2>2
<1> QED BY <1>3, <1>4

LEMMA AfterAdding ==
    ASSUME NEW X, NEW i, NEW length
    PROVE  After(TRUE, X, i, length) = UNION {Add(ix, i, length[i]) : ix \in X}
  BY Zenon DEF After, Touch

LEMMA AfterDropping ==
    ASSUME NEW X, NEW i, NEW length
    PROVE  After(FALSE, X, i, length) = UNION {Remove(ix, i) : ix \in X}
  BY Zenon DEF After, Touch

(* What one step keeps, all keep.                                           *)
SoundSet(X, ids, dimension) == \A ix \in X : SoundIndex(ix) /\ AllIDs(ix) = ids /\ ix.dim = dimension

LEMMA AddAllSound ==
    ASSUME NEW start, NEW A, NEW dimension \in Nat \ {0}, SoundSet(start, A, dimension),
           NEW ids \in SUBSET Ids, NEW length \in [Ids -> Nat]
    PROVE  SoundSet(AddAll(start, ids, length), A \cup {i \in ids : length[i] = dimension}, dimension)
<1> DEFINE Sol(g) == g = [S \in SUBSET Ids |->
            IF S = {} THEN start
            ELSE LET i == CHOOSE i \in S : TRUE
                 IN  UNION {Add(ix, i, length[i]) : ix \in g[S \ {i}]}]
<1> DEFINE step == CHOOSE g : Sol(g)
<1> DEFINE todos == {i \in ids : length[i] > 0}
<1>1. AddAll(start, ids, length) = step[todos]
  BY DEF AddAll
<1> DEFINE Turn(g, S) == IF S = {} THEN start
                        ELSE LET i == CHOOSE i \in S : TRUE
                             IN  UNION {Add(ix, i, length[i]) : ix \in g[S \ {i}]}
<1>0. ASSUME NEW g, NEW S PROVE Turn(g, S) = IF S = {} THEN start ELSE After(TRUE, g[Less(S)], Picked(S), length)
  <2>1. Turn(g, S) = IF S = {} THEN start ELSE UNION {Add(ix, Picked(S), length[Picked(S)]) : ix \in g[Less(S)]}
    BY Zenon DEF Less, Picked
  <2> HIDE DEF Turn
  <2> QED BY <2>1, AfterAdding, Zenon
<1>2. PICK g : Folds(g, SUBSET Ids, TRUE, start, length)
  BY FoldDefined
<1>3. Sol(g)
  <2>1. \A S \in SUBSET Ids : g[S] = Turn(g, S)
    BY <1>0, <1>2 DEF Folds
  <2>2. g = [S \in SUBSET Ids |-> g[S]]
    BY <1>2 DEF Folds
  <2>3. g = [S \in SUBSET Ids |-> Turn(g, S)]
    <3> HIDE DEF Turn
    <3> QED BY <2>1, <2>2
  <2> QED BY <2>3
<1>4. Sol(step)
  <2> HIDE DEF Sol
  <2> QED BY <1>3
<1>5. Folds(step, SUBSET Ids, TRUE, start, length)
  <2> HIDE DEF step
  <2>1. step = [S \in SUBSET Ids |-> Turn(step, S)]
    BY <1>4
  <2> HIDE DEF Turn
  <2> QED BY <1>0, <2>1 DEF Folds
<1> HIDE DEF step
<1> DEFINE Added(S) == A \cup {i \in S : length[i] = dimension}
<1> DEFINE Bad == {S \in SUBSET Ids : ~SoundSet(step[S], Added(S), dimension)}
<1>6. ASSUME Bad # {} PROVE FALSE
  <2>1. PICK T \in Bad : \A U \in Bad : ~(<<U, T>> \in StrictSubsetOrdering(Ids))
    <3>1. Bad \subseteq SUBSET Ids
      OBVIOUS
    <3> HIDE DEF Bad
    <3> QED BY <1>6, <3>1, SubsetsOrdered, WFMin
  <2>2. CASE T = {}
    <3>1. step[T] = start /\ Added(T) = A
      BY <2>2, <1>5 DEF Folds
    <3> QED BY <2>1, <3>1
  <2>3. CASE T # {}
    <3> DEFINE i == Picked(T)
    <3>1. i \in Ids /\ i \in T /\ Less(T) \in SUBSET Ids /\ T = Less(T) \cup {i}
      BY <2>1, <2>3, LessIsLess
    <3>2. SoundSet(step[Less(T)], Added(Less(T)), dimension)
      BY <2>1, <2>3, <3>1, LessIsLess
    <3>3. step[T] = UNION {Add(ix, i, length[i]) : ix \in step[Less(T)]}
      <4>1. step[T] = After(TRUE, step[Less(T)], i, length)
        BY <2>1, <2>3, <1>5 DEF Folds
      <4> HIDE DEF i
      <4> QED BY <4>1, AfterAdding, ZenonT(40)
    <3> HIDE DEF i
    <3>4. ASSUME NEW a \in step[T] PROVE SoundIndex(a) /\ AllIDs(a) = Added(T) /\ a.dim = dimension
      <4>1. PICK ix \in step[Less(T)] : a \in Add(ix, i, length[i])
        BY <3>3
      <4>2. SoundIndex(ix) /\ AllIDs(ix) = Added(Less(T)) /\ ix.dim = dimension
        BY <3>2 DEF SoundSet
      <4>3. /\ SoundIndex(a) /\ a.dim = dimension
            /\ AllIDs(a) = IF length[i] = dimension THEN AllIDs(ix) \cup {i} ELSE AllIDs(ix)
        BY <3>1, <4>1, <4>2, AddSound
      <4> QED BY <3>1, <4>2, <4>3
    <3> QED BY <2>1, <3>4 DEF SoundSet
  <2> QED BY <2>2, <2>3
<1>7. todos \in SUBSET Ids /\ {i \in todos : length[i] = dimension} = {i \in ids : length[i] = dimension}
  OBVIOUS
<1>8. SoundSet(step[todos], Added(todos), dimension)
  <2> HIDE DEF todos
  <2> QED BY <1>6, <1>7
<1> QED BY <1>1, <1>7, <1>8

LEMMA DropAllSound ==
    ASSUME NEW start, NEW A, NEW dimension, SoundSet(start, A, dimension), NEW ids \in SUBSET Ids
    PROVE  SoundSet(DropAll(start, ids), A \ ids, dimension)
<1> DEFINE Sol(g) == g = [S \in SUBSET Ids |->
            IF S = {} THEN start
            ELSE LET i == CHOOSE i \in S : TRUE
                 IN  UNION {Remove(ix, i) : ix \in g[S \ {i}]}]
<1> DEFINE step == CHOOSE g : Sol(g)
<1>1. DropAll(start, ids) = step[ids]
  BY DEF DropAll
<1> DEFINE Turn(g, S) == IF S = {} THEN start
                        ELSE LET i == CHOOSE i \in S : TRUE
                             IN  UNION {Remove(ix, i) : ix \in g[S \ {i}]}
<1>0. ASSUME NEW g, NEW S PROVE Turn(g, S) = IF S = {} THEN start ELSE After(FALSE, g[Less(S)], Picked(S), 0)
  <2>1. Turn(g, S) = IF S = {} THEN start ELSE UNION {Remove(ix, Picked(S)) : ix \in g[Less(S)]}
    BY Zenon DEF Less, Picked
  <2> HIDE DEF Turn
  <2> QED BY <2>1, AfterDropping, Zenon
<1>2. PICK g : Folds(g, SUBSET Ids, FALSE, start, 0)
  BY FoldDefined
<1>3. Sol(g)
  <2>1. \A S \in SUBSET Ids : g[S] = Turn(g, S)
    BY <1>0, <1>2 DEF Folds
  <2>2. g = [S \in SUBSET Ids |-> g[S]]
    BY <1>2 DEF Folds
  <2>3. g = [S \in SUBSET Ids |-> Turn(g, S)]
    <3> HIDE DEF Turn
    <3> QED BY <2>1, <2>2
  <2> QED BY <2>3
<1>4. Sol(step)
  BY <1>3
<1>5. Folds(step, SUBSET Ids, FALSE, start, 0)
  <2> HIDE DEF step
  <2>1. step = [S \in SUBSET Ids |-> Turn(step, S)]
    BY <1>4
  <2> HIDE DEF Turn
  <2> QED BY <1>0, <2>1 DEF Folds
<1> HIDE DEF step
<1> DEFINE Bad == {S \in SUBSET Ids : ~SoundSet(step[S], A \ S, dimension)}
<1>6. ASSUME Bad # {} PROVE FALSE
  <2>1. PICK T \in Bad : \A U \in Bad : ~(<<U, T>> \in StrictSubsetOrdering(Ids))
    <3>1. Bad \subseteq SUBSET Ids
      OBVIOUS
    <3> HIDE DEF Bad
    <3> QED BY <1>6, <3>1, SubsetsOrdered, WFMin
  <2>2. CASE T = {}
    <3>1. step[T] = start /\ A \ T = A
      BY <2>2, <1>5 DEF Folds
    <3> QED BY <2>1, <3>1
  <2>3. CASE T # {}
    <3> DEFINE i == Picked(T)
    <3>1. i \in T /\ Less(T) \in SUBSET Ids /\ T = Less(T) \cup {i}
      BY <2>1, <2>3, LessIsLess
    <3>2. SoundSet(step[Less(T)], A \ Less(T), dimension)
      BY <2>1, <2>3, <3>1, LessIsLess
    <3>3. step[T] = UNION {Remove(ix, i) : ix \in step[Less(T)]}
      <4>1. step[T] = After(FALSE, step[Less(T)], i, 0)
        BY <2>1, <2>3, <1>5 DEF Folds
      <4> HIDE DEF i
      <4> QED BY <4>1, AfterDropping, Zenon
    <3> HIDE DEF i
    <3>4. ASSUME NEW a \in step[T] PROVE SoundIndex(a) /\ AllIDs(a) = A \ T /\ a.dim = dimension
      <4>1. PICK ix \in step[Less(T)] : a \in Remove(ix, i)
        BY <3>3
      <4>2. SoundIndex(ix) /\ AllIDs(ix) = A \ Less(T) /\ ix.dim = dimension
        BY <3>2 DEF SoundSet
      <4>3. SoundIndex(a) /\ AllIDs(a) = AllIDs(ix) \ {i} /\ a.dim = dimension
        BY <4>1, <4>2, RemoveSound
      <4> QED BY <3>1, <4>2, <4>3
    <3> QED BY <2>1, <3>4 DEF SoundSet
  <2> QED BY <2>2, <2>3
<1> QED BY <1>1, <1>6

-----------------------------------------------------------------------------
(* Types and control: which operation stands where, and that a request      *)
(* past its lock holds Store.mu.                                            *)

OpsAt == [idle        |-> {"none"},
          lock        |-> AllOps,
          embed       |-> {"upload"},
          ensure      |-> {"upload", "search"},
          update      |-> {"upload"},
          build       |-> {"upload", "search", "rebuild"},
          createBuilt |-> {"upload", "search", "rebuild"},
          writeBuilt  |-> {"upload", "search", "rebuild"},
          create      |-> {"upload", "remove"},
          write       |-> {"upload", "remove"},
          unlist      |-> {"remove"},
          unindex     |-> {"remove"},
          scan        |-> {"rebuild"},
          reembed     |-> {"rebuild"},
          answer      |-> AllOps]
Places == DOMAIN OpsAt
Writing == {"createBuilt", "writeBuilt", "create", "write"}
Requests == [op : AllOps \cup {"none"}, doc : Docs \cup {"none"}]

Types ==
    /\ rows \in SUBSET Docs /\ vectorOf \in [Ids -> Nat]
    /\ cache \in 0..MaxIndexes /\ view \in [Clients -> 0..MaxIndexes]
    /\ heap = [i \in 1..MaxIndexes |-> heap[i]]
    /\ served \in Models /\ dim \in Nat
    /\ detected \in BOOLEAN /\ embedded \in BOOLEAN /\ intact \in BOOLEAN
    /\ mu \in Clients \cup {Free} /\ pc \in [Clients -> Places] /\ req \in [Clients -> Requests]
    /\ todo \in SUBSET Docs /\ want \in Nat

At(p) ==
    /\ req[p].op \in OpsAt[pc[p]]
    /\ mu = p <=> pc[p] \notin {"idle", "lock"}
    /\ pc[p] = "idle" => view[p] = 0
    /\ pc[p] \in Writing => view[p] # 0
    /\ req[p].op \in {"upload", "remove"} => req[p].doc \in Docs
Control == \A p \in Clients : At(p)

LEMMA PlacesAre ==
    /\ Places = {"idle", "lock", "embed", "ensure", "update", "build", "createBuilt",
                 "writeBuilt", "create", "write", "unlist", "unindex", "scan", "reembed",
                 "answer"}
    /\ OpsAt["idle"] = {"none"} /\ OpsAt["lock"] = AllOps /\ OpsAt["answer"] = AllOps
    /\ OpsAt["embed"] = {"upload"} /\ OpsAt["update"] = {"upload"}
    /\ OpsAt["ensure"] = {"upload", "search"}
    /\ OpsAt["build"] = {"upload", "search", "rebuild"}
    /\ OpsAt["createBuilt"] = OpsAt["build"] /\ OpsAt["writeBuilt"] = OpsAt["build"]
    /\ OpsAt["create"] = {"upload", "remove"} /\ OpsAt["write"] = {"upload", "remove"}
    /\ OpsAt["unlist"] = {"remove"} /\ OpsAt["unindex"] = {"remove"}
    /\ OpsAt["scan"] = {"rebuild"} /\ OpsAt["reembed"] = {"rebuild"}
  BY DEF Places, OpsAt

(* A free slot is a slot, and free.                                         *)
LEMMA FreeSlotIs ==
    ASSUME HasSlot
    PROVE  FreeSlot \in 1..MaxIndexes /\ heap[FreeSlot] = Gone
<1> DEFINE Free0 == {i \in 1..MaxIndexes : heap[i] = Gone}
<1> DEFINE Bad == {1..i : i \in Free0}
<1>1. IsFiniteSet(1..MaxIndexes) /\ Bad \in SUBSET SUBSET (1..MaxIndexes) /\ Bad # {}
  <2>1. IsFiniteSet(1..MaxIndexes)
    BY BoundsAssumption, FS_Interval
  <2>2. PICK i \in Free0 : TRUE
    BY DEF HasSlot
  <2>3. 1..i \in Bad
    BY <2>2
  <2>4. \A k \in Free0 : 1..k \subseteq 1..MaxIndexes
    BY BoundsAssumption
  <2>5. Bad \in SUBSET SUBSET (1..MaxIndexes)
    BY <2>4
  <2> QED BY <2>1, <2>3, <2>5
<1>2. PICK T \in Bad : \A U \in SUBSET T : U # T => U \notin Bad
  <2> DEFINE I == 1..MaxIndexes
  <2>1. IsFiniteSet(I) /\ Bad \in SUBSET SUBSET I /\ Bad # {}
    BY <1>1
  <2> HIDE DEF Bad, I
  <2> QED BY <2>1, MinimalBad
<1>3. PICK i \in Free0 : T = 1..i
  OBVIOUS
<1>4. ASSUME NEW j \in 1..(i - 1), heap[j] = Gone PROVE FALSE
  <2>1. j \in Free0 /\ 1..j \subseteq T /\ 1..j # T
    <3>1. j \in 1..MaxIndexes /\ i \in 1..i /\ i \notin 1..j /\ 1..j \subseteq 1..i
      BY BoundsAssumption
    <3> QED BY <3>1, <1>3, <1>4
  <2> QED BY <2>1, <1>2
<1>5. \E k \in 1..MaxIndexes : heap[k] = Gone /\ \A j \in 1..(k - 1) : heap[j] # Gone
  BY <1>3, <1>4
<1> QED BY <1>5 DEF FreeSlot

LEMMA PointersSet ==
    ASSUME NEW h, NEW c \in 0..MaxIndexes, NEW v \in [Clients -> 0..MaxIndexes], SetPointers(h, c, v)
    PROVE  /\ cache' \in 0..MaxIndexes /\ view' \in [Clients -> 0..MaxIndexes]
           /\ heap' = [i \in 1..MaxIndexes |-> heap'[i]]
           /\ cache' = c /\ view' = v
           /\ \A i \in 1..MaxIndexes :
                 heap'[i] = IF i = c \/ \E p \in Clients : v[p] = i THEN h[i] ELSE Gone
  BY DEF SetPointers, Collected

(* The pointers of each action that moves them.                             *)
PointersTyped ==
    /\ cache \in 0..MaxIndexes /\ view \in [Clients -> 0..MaxIndexes]
    /\ heap = [i \in 1..MaxIndexes |-> heap[i]]

LEMMA WithKBTypes ==
    ASSUME Types, NEW p \in Clients, WithKB(p)
    PROVE  PointersTyped'
<1> USE DEF Types
<1>1. CASE cache # 0
  <2>1. SetPointers(heap, cache, [view EXCEPT ![p] = cache])
    BY <1>1 DEF WithKB
  <2>2. [view EXCEPT ![p] = cache] \in [Clients -> 0..MaxIndexes]
    OBVIOUS
  <2> QED BY <2>1, <2>2, PointersSet DEF PointersTyped
<1>2. CASE cache = 0 /\ OnDisk
  <2>1. HasSlot /\ SetPointers([heap EXCEPT ![FreeSlot] = gob], FreeSlot, [view EXCEPT ![p] = FreeSlot])
    BY <1>2 DEF WithKB
  <2>2. FreeSlot \in 0..MaxIndexes
    BY <2>1, FreeSlotIs, BoundsAssumption
  <2>3. [view EXCEPT ![p] = FreeSlot] \in [Clients -> 0..MaxIndexes]
    BY <2>2
  <2> QED BY <2>1, <2>2, <2>3, PointersSet DEF PointersTyped
<1>3. CASE cache = 0 /\ ~OnDisk
  <2>1. SetPointers(heap, 0, [view EXCEPT ![p] = 0])
    BY <1>3 DEF WithKB
  <2>2. [view EXCEPT ![p] = 0] \in [Clients -> 0..MaxIndexes] /\ 0 \in 0..MaxIndexes
    BY BoundsAssumption
  <2> QED BY <2>1, <2>2, PointersSet DEF PointersTyped
<1> QED BY <1>1, <1>2, <1>3

LEMMA PointersMoved ==
    ASSUME Types, NEW p \in Clients,
           Return(p) \/ EnsureLoads(p) \/ Build(p) \/ Update(p) \/ Unindex(p)
    PROVE  PointersTyped'
<1> USE DEF Types
<1>1. CASE Return(p)
  <2>1. SetPointers(heap, cache, [view EXCEPT ![p] = 0])
    BY <1>1 DEF Return
  <2>2. [view EXCEPT ![p] = 0] \in [Clients -> 0..MaxIndexes]
    BY BoundsAssumption
  <2> QED BY <2>1, <2>2, PointersSet DEF PointersTyped
<1>2. CASE EnsureLoads(p)
  <2>1. HasSlot /\ SetPointers([heap EXCEPT ![FreeSlot] = gob], cache, [view EXCEPT ![p] = FreeSlot])
    BY <1>2 DEF EnsureLoads
  <2>2. FreeSlot \in 0..MaxIndexes
    BY <2>1, FreeSlotIs, BoundsAssumption
  <2>3. [view EXCEPT ![p] = FreeSlot] \in [Clients -> 0..MaxIndexes]
    BY <2>2
  <2> QED BY <2>1, <2>2, <2>3, PointersSet DEF PointersTyped
<1>3. CASE Build(p)
  <2>1. PICK docs \in SUBSET rows : \E ix \in Built(docs) :
           SetPointers([heap EXCEPT ![FreeSlot] = ix], CacheAfterBuild(FreeSlot),
                       [view EXCEPT ![p] = FreeSlot])
    BY <1>3 DEF Build
  <2>2. FreeSlot \in 0..MaxIndexes
    BY <1>3, FreeSlotIs, BoundsAssumption DEF Build
  <2>3. [view EXCEPT ![p] = FreeSlot] \in [Clients -> 0..MaxIndexes]
    BY <2>2
  <2>4. CacheAfterBuild(FreeSlot) \in 0..MaxIndexes
    BY <2>2, BoundsAssumption DEF CacheAfterBuild
  <2> QED BY <2>1, <2>3, <2>4, PointersSet DEF PointersTyped
<1>4. CASE Update(p)
  <2>1. cache' = cache /\ view' = view
    BY <1>4 DEF Update, indexVars
  <2>2. \/ heap' = heap
        \/ \E ix : heap' = [heap EXCEPT ![view[p]] = ix]
    BY <1>4 DEF Update, indexVars
  <2> QED BY <2>1, <2>2 DEF PointersTyped
<1>5. CASE Unindex(p)
  <2>1. cache' = cache /\ view' = view
    BY <1>5 DEF Unindex
  <2>2. \/ heap' = heap
        \/ \E ix : heap' = [heap EXCEPT ![view[p]] = ix]
    BY <1>5 DEF Unindex
  <2> QED BY <2>1, <2>2 DEF PointersTyped
<1> QED BY <1>1, <1>2, <1>3, <1>4, <1>5

LEMMA PointersTypes ==
    ASSUME Types, Next
    PROVE  PointersTyped'
<1> DEFINE Still == UNCHANGED indexVars
<1>1. CASE Still
  BY <1>1 DEF Types, PointersTyped, indexVars
<1>2. ASSUME NEW p \in Clients, NEW d \in Docs, BeginUpload(p, d) \/ BeginRemove(p, d)
      PROVE  WithKB(p)
  BY <1>2 DEF BeginUpload, BeginRemove, Begin
<1>3. ASSUME NEW p \in Clients, BeginSearch(p) \/ BeginRebuild(p) PROVE WithKB(p)
  BY <1>3 DEF BeginSearch, BeginRebuild, Begin
<1>4. ASSUME NEW p \in Clients, Step(p)
      PROVE  Still \/ Return(p) \/ EnsureLoads(p) \/ Build(p) \/ Update(p) \/ Unindex(p)
  <2>1. CASE Lock(p) \/ Embed(p) \/ EmbedFails(p) \/ EnsureFinds(p) \/ EnsureBuilds(p) \/ BuildSkips(p)
             \/ Unlist(p)
    BY <2>1 DEF Lock, Embed, EmbedFails, EnsureFinds, EnsureBuilds, BuildSkips, Unlist
  <2>2. CASE Create(p) \/ CreateFails(p) \/ Write(p) \/ ScanFails(p) \/ Scan(p) \/ Scanned(p)
             \/ RebuildStops(p)
    BY <2>2 DEF Create, CreateFails, Write, ScanFails, Scan, Scanned, RebuildStops
  <2>3. CASE \E d \in Docs : SkipDocument(p, d) \/ ReEmbed(p, d)
    BY <2>3 DEF SkipDocument, ReEmbed
  <2> QED BY <1>4, <2>1, <2>2, <2>3 DEF Step
<1>5. CASE SwitchModel \/ CleanVectorIndex
  BY <1>1, <1>5 DEF SwitchModel, CleanVectorIndex
<1>6. CASE Restart
  <2> DEFINE none == [q \in Clients |-> 0]
  <2> DEFINE gone == [i \in 1..MaxIndexes |-> Gone]
  <2>1. SetPointers(gone, 0, none)
    BY <1>6 DEF Restart
  <2>2. none \in [Clients -> 0..MaxIndexes] /\ 0 \in 0..MaxIndexes
    BY BoundsAssumption
  <2> HIDE DEF none, gone
  <2> QED BY <2>1, <2>2, PointersSet DEF PointersTyped
<1> QED
  BY <1>1, <1>2, <1>3, <1>4, <1>5, <1>6, WithKBTypes, PointersMoved DEF Next

-----------------------------------------------------------------------------
(* The other types.                                                         *)
LEMMA LabelsIn ==
    /\ \A p \in Clients : Types => FirstStep[req[p].op] \in Places \/ req[p].op = "none"
    /\ \A op : AfterEnsure(op) \in Places
    /\ \A p \in Clients : AfterSave(p) \in Places
  BY PlacesAre DEF Types, Requests, AllOps, FirstStep, AfterEnsure, AfterSave

LEMMA GotoPlace ==
    ASSUME Types, NEW p \in Clients, NEW l \in Places, Goto(p, l)
    PROVE  pc' \in [Clients -> Places] /\ pc' = [pc EXCEPT ![p] = l]
  BY DEF Goto, Types

RestTyped ==
    /\ rows \in SUBSET Docs /\ vectorOf \in [Ids -> Nat]
    /\ served \in Models /\ dim \in Nat
    /\ detected \in BOOLEAN /\ embedded \in BOOLEAN /\ intact \in BOOLEAN
    /\ mu \in Clients \cup {Free} /\ pc \in [Clients -> Places] /\ req \in [Clients -> Requests]
    /\ todo \in SUBSET Docs /\ want \in Nat

LEMMA RowSet ==
    ASSUME Types, NEW d \in Docs, NEW length \in Nat, SetRow(d, length)
    PROVE  rows' \in SUBSET Docs /\ vectorOf' \in [Ids -> Nat]
  BY DEF SetRow, Types

LEMMA BeginTypes ==
    ASSUME Types, NEW p \in Clients, NEW op \in AllOps, NEW d \in Docs \cup {"none"}, Begin(p, op, d)
    PROVE  RestTyped'
<1>1. "lock" \in Places /\ [op |-> op, doc |-> d] \in Requests
  BY PlacesAre DEF Requests
<1>2. pc' \in [Clients -> Places]
  BY <1>1, GotoPlace DEF Begin
<1>3. req' \in [Clients -> Requests]
  BY <1>1 DEF Begin, Types
<1> QED BY <1>2, <1>3 DEF Begin, Types, RestTyped, rowVars, modelVars

LEMMA StepTypes ==
    ASSUME Types, Control, NEW p \in Clients, Step(p)
    PROVE  RestTyped'
<1> USE DEF Types, RestTyped, rowVars, modelVars
<1>1. CASE Lock(p)
  <2>1. FirstStep[req[p].op] \in Places
    BY <1>1, LabelsIn, PlacesAre DEF Lock, Control, At, AllOps
  <2>2. pc' \in [Clients -> Places]
    BY <1>1, <2>1, GotoPlace DEF Lock
  <2> QED BY <1>1, <2>2 DEF Lock
<1>2. CASE Return(p)
  <2>1. pc' \in [Clients -> Places]
    BY <1>2, GotoPlace, PlacesAre DEF Return, Answer
  <2>2. NoRequest \in Requests
    BY DEF NoRequest, Requests
  <2> QED BY <1>2, <2>1, <2>2 DEF Return, Answer
<1>3. CASE Embed(p)
  <2>1. pc' \in [Clients -> Places]
    BY <1>3, GotoPlace, PlacesAre DEF Embed
  <2>2. req[p].doc \in Docs /\ served \in Nat
    BY <1>3, PlacesAre, ModelsAssumption DEF Embed, Control, At
  <2>3. rows' \in SUBSET Docs /\ vectorOf' \in [Ids -> Nat]
    BY <1>3, <2>2, RowSet DEF Embed
  <2> QED BY <1>3, <2>1, <2>2, <2>3 DEF Embed, Detect
<1>4. CASE EmbedFails(p)
  <2>1. pc' \in [Clients -> Places]
    BY <1>4, GotoPlace, PlacesAre DEF EmbedFails
  <2>2. req[p].doc \in Docs
    BY <1>4, PlacesAre DEF EmbedFails, Control, At
  <2>3. rows' \in SUBSET Docs /\ vectorOf' \in [Ids -> Nat]
    BY <1>4, <2>2, RowSet DEF EmbedFails
  <2> QED BY <1>4, <2>1, <2>2, <2>3 DEF EmbedFails
<1>5. CASE EnsureLoads(p) \/ EnsureFinds(p) \/ EnsureBuilds(p) \/ BuildSkips(p)
  <2>1. PICK l \in Places : Goto(p, l)
    BY <1>5, LabelsIn, PlacesAre DEF EnsureLoads, EnsureFinds, EnsureBuilds, BuildSkips
  <2>2. pc' \in [Clients -> Places]
    BY <2>1, GotoPlace
  <2> QED BY <1>5, <2>2 DEF EnsureLoads, EnsureFinds, EnsureBuilds, BuildSkips
<1>6. CASE Build(p)
  <2>1. pc' \in [Clients -> Places]
    BY <1>6, GotoPlace, PlacesAre DEF Build
  <2> QED BY <1>6, <2>1 DEF Build
<1>7. CASE Update(p) \/ Unindex(p)
  <2>1. PICK l \in Places : Goto(p, l)
    BY <1>7, PlacesAre DEF Update, Unindex
  <2>2. pc' \in [Clients -> Places]
    BY <2>1, GotoPlace
  <2> QED BY <1>7, <2>2 DEF Update, Unindex
<1>8. CASE Unlist(p)
  <2>1. pc' \in [Clients -> Places]
    BY <1>8, GotoPlace, PlacesAre DEF Unlist
  <2> QED BY <1>8, <2>1 DEF Unlist
<1>9. CASE Create(p) \/ CreateFails(p) \/ Write(p)
  <2>1. PICK l \in Places : Goto(p, l)
    BY <1>9, LabelsIn, PlacesAre DEF Create, CreateFails, Write
  <2>2. pc' \in [Clients -> Places]
    BY <2>1, GotoPlace
  <2> QED BY <1>9, <2>2 DEF Create, CreateFails, Write
<1>10. CASE ScanFails(p) \/ Scan(p) \/ Scanned(p) \/ RebuildStops(p)
  <2>1. PICK l \in Places : Goto(p, l)
    BY <1>10, PlacesAre DEF ScanFails, Scan, Scanned, RebuildStops
  <2>2. pc' \in [Clients -> Places]
    BY <2>1, GotoPlace
  <2>3. intact' \in BOOLEAN
    BY <1>10 DEF ScanFails, Scan, Scanned, RebuildStops
  <2> QED BY <1>10, <2>2, <2>3 DEF ScanFails, Scan, Scanned, RebuildStops
<1>11. ASSUME NEW d \in Docs, SkipDocument(p, d) PROVE RestTyped'
  BY <1>11 DEF SkipDocument
<1>12. ASSUME NEW d \in Docs, ReEmbed(p, d) PROVE RestTyped'
  <2>1. vectorOf' \in [Ids -> Nat] /\ embedded' \in BOOLEAN
    BY <1>12 DEF ReEmbed
  <2>2. served \in Nat
    BY ModelsAssumption
  <2> QED BY <1>12, <2>1, <2>2 DEF ReEmbed, Detect
<1> QED
  BY <1>1, <1>2, <1>3, <1>4, <1>5, <1>6, <1>7, <1>8, <1>9, <1>10, <1>11, <1>12 DEF Step

LEMMA OthersTypes ==
    ASSUME Types, SwitchModel \/ Restart \/ CleanVectorIndex
    PROVE  RestTyped'
<1> USE DEF Types, RestTyped, rowVars, modelVars, taskVars
<1>1. Configured \in Nat
  BY ModelsAssumption
<1>2. CASE SwitchModel
  BY <1>1, <1>2 DEF SwitchModel
<1>3. CASE Restart
  <2>1. pc' \in [Clients -> Places] /\ req' \in [Clients -> Requests]
    <3>1. NoRequest \in Requests
      BY DEF NoRequest, Requests
    <3> QED BY <1>3, <3>1, PlacesAre DEF Restart
  <2>2. intact' \in BOOLEAN
    BY <1>3 DEF Restart
  <2> QED BY <1>1, <1>3, <2>1, <2>2 DEF Restart
<1>4. CASE CleanVectorIndex
  BY <1>4 DEF CleanVectorIndex
<1> QED BY <1>2, <1>3, <1>4

LEMMA TypesStep ==
    ASSUME Types, Control, Next
    PROVE  Types'
<1>1. PointersTyped'
  BY PointersTypes
<1>2. RestTyped'
  <2>1. ASSUME NEW p \in Clients, NEW d \in Docs, BeginUpload(p, d) \/ BeginRemove(p, d) PROVE RestTyped'
    BY <2>1, BeginTypes DEF BeginUpload, BeginRemove, AllOps
  <2>2. ASSUME NEW p \in Clients, BeginSearch(p) \/ BeginRebuild(p) PROVE RestTyped'
    BY <2>2, BeginTypes DEF BeginSearch, BeginRebuild, AllOps
  <2> QED BY <2>1, <2>2, StepTypes, OthersTypes DEF Next
<1> QED BY <1>1, <1>2 DEF PointersTyped, RestTyped, Types

-----------------------------------------------------------------------------
(* Control.                                                                 *)

(* Who is past its lock is alone there.                                     *)
LEMMA HolderAlone ==
    ASSUME Types, Control, NEW p \in Clients, pc[p] \notin {"idle", "lock"}
    PROVE  /\ mu = p /\ mu # Free
           /\ \A q \in Clients : q # p => pc[q] \in {"idle", "lock"}
  BY ClientsAssumption DEF Control, At

LEMMA NobodyInside ==
    ASSUME Types, Control, mu = Free
    PROVE  \A q \in Clients : pc[q] \in {"idle", "lock"}
  BY ClientsAssumption DEF Control, At

(* The request that moves is the only one whose place, request or view      *)
(* changes.                                                                 *)
Moves(p, l) ==
    /\ Goto(p, l)
    /\ \A q \in Clients : q # p => req'[q] = req[q] /\ view'[q] = view[q]

LEMMA MoveKeepsControl ==
    ASSUME Types, Control, NEW p \in Clients, NEW l \in Places, Moves(p, l),
           \/ mu' = mu /\ (pc[p] \in {"idle", "lock"} <=> l \in {"idle", "lock"})
           \/ mu = Free /\ mu' = p /\ l \notin {"idle", "lock"}
           \/ mu = p /\ mu' = Free /\ l \in {"idle", "lock"},
           req'[p].op \in OpsAt[l],
           l = "idle" => view'[p] = 0,
           l \in Writing => view'[p] # 0,
           req'[p].op \in {"upload", "remove"} => req'[p].doc \in Docs
    PROVE  Control'
<1>1. pc' = [pc EXCEPT ![p] = l] /\ pc'[p] = l
  BY DEF Moves, Goto, Types
<1>2. Free \notin Clients
  BY ClientsAssumption
<1>3. ASSUME NEW q \in Clients PROVE At(q)'
  <2>1. CASE q = p
    BY <1>1, <1>2, <2>1 DEF Control, At
  <2>2. CASE q # p
    <3>1. pc'[q] = pc[q] /\ req'[q] = req[q] /\ view'[q] = view[q]
      BY <1>1, <2>2 DEF Moves, Types
    <3>2. mu' = q <=> mu = q
      BY <1>2, <2>2
    <3>3. At(q)
      BY DEF Control
    <3> QED BY <3>1, <3>2, <3>3 DEF At
  <2> QED BY <2>1, <2>2
<1> QED BY <1>3 DEF Control

(* Most steps keep the request and the view.                                *)
LEMMA StepOn ==
    ASSUME Types, Control, NEW p \in Clients, NEW l \in Places, Goto(p, l),
           UNCHANGED <<mu, req>>, pc[p] \notin {"idle", "lock"}, l \notin {"idle", "lock"},
           \A q \in Clients : q # p => view'[q] = view[q],
           req[p].op \in OpsAt[l],
           l \in Writing => view'[p] # 0
    PROVE  Control'
<1>1. Moves(p, l)
  BY DEF Moves
<1>2. req[p].op \in {"upload", "remove"} => req[p].doc \in Docs
  BY DEF Control, At
<1> QED BY <1>1, <1>2, MoveKeepsControl

LEMMA BeginControl ==
    ASSUME Types, Control, NEW p \in Clients, NEW op \in AllOps, NEW d, Begin(p, op, d),
           op \in {"upload", "remove"} => d \in Docs
    PROVE  Control'
<1>1. \A q \in Clients : q # p => view'[q] = view[q]
  BY DEF Begin, WithKB, SetPointers, Types
<1>2. Moves(p, "lock")
  BY <1>1 DEF Begin, Moves, Types
<1>3. req'[p] = [op |-> op, doc |-> d] /\ mu' = mu /\ pc[p] = "idle"
  BY DEF Begin, Types
<1> QED BY <1>2, <1>3, MoveKeepsControl, PlacesAre DEF Writing

LEMMA StepControl ==
    ASSUME Types, Control, NEW p \in Clients, Step(p)
    PROVE  Control'
<1>0. \A q \in Clients : At(q)
  BY DEF Control
<1> USE DEF indexVars
<1>1. CASE Lock(p)
  <2>1. req[p].op \in AllOps /\ mu = Free /\ mu' = p /\ UNCHANGED <<req, view>>
    BY <1>0, <1>1, PlacesAre DEF Lock, At
  <2>2. PICK l \in Places : Goto(p, l) /\ l = FirstStep[req[p].op]
    BY <1>1, <2>1, LabelsIn, PlacesAre DEF Lock, AllOps
  <2>3. l \notin {"idle", "lock"} /\ l \notin Writing /\ req[p].op \in OpsAt[l]
    BY <2>1, <2>2, PlacesAre DEF FirstStep, AllOps, Writing
  <2>4. Moves(p, l)
    BY <2>1, <2>2 DEF Moves
  <2> QED BY <1>0, <2>1, <2>3, <2>4, MoveKeepsControl DEF At
<1>2. CASE Return(p)
  <2>1. pc[p] = "answer" /\ mu' = Free /\ Goto(p, "idle")
    BY <1>2 DEF Return, Answer
  <2>2. view' = [view EXCEPT ![p] = 0] /\ req' = [req EXCEPT ![p] = NoRequest]
    BY <1>2 DEF Return, Answer, SetPointers
  <2>3. mu = p
    BY <2>1, HolderAlone
  <2>4. Moves(p, "idle") /\ req'[p] = NoRequest /\ view'[p] = 0
    BY <2>1, <2>2 DEF Moves, Types
  <2> QED BY <2>1, <2>3, <2>4, MoveKeepsControl, PlacesAre DEF Writing, NoRequest
<1>3. CASE Embed(p)
  <2>1. pc[p] = "embed" /\ Goto(p, "ensure") /\ UNCHANGED <<mu, req, view>>
    BY <1>3 DEF Embed
  <2> QED BY <1>0, <2>1, StepOn, PlacesAre DEF At, Writing
<1>4. CASE EmbedFails(p)
  <2>1. pc[p] = "embed" /\ Goto(p, "answer") /\ UNCHANGED <<mu, req, view>>
    BY <1>4 DEF EmbedFails
  <2> QED BY <1>0, <2>1, StepOn, PlacesAre DEF At, Writing, AllOps
<1>5. CASE EnsureLoads(p)
  <2>1. /\ pc[p] = "ensure" /\ Goto(p, AfterEnsure(req[p].op)) /\ UNCHANGED <<mu, req>>
        /\ \A q \in Clients : q # p => view'[q] = view[q]
    BY <1>5 DEF EnsureLoads, SetPointers, Types
  <2> QED BY <1>0, <2>1, StepOn, PlacesAre, LabelsIn DEF At, Writing, AllOps, AfterEnsure
<1>6. CASE EnsureFinds(p)
  <2>1. pc[p] = "ensure" /\ Goto(p, AfterEnsure(req[p].op)) /\ UNCHANGED <<mu, req, view>>
    BY <1>6 DEF EnsureFinds
  <2> QED BY <1>0, <2>1, StepOn, PlacesAre, LabelsIn DEF At, Writing, AllOps, AfterEnsure
<1>7. CASE EnsureBuilds(p)
  <2>1. pc[p] = "ensure" /\ Goto(p, "build") /\ UNCHANGED <<mu, req, view>>
    BY <1>7 DEF EnsureBuilds
  <2> QED BY <1>0, <2>1, StepOn, PlacesAre DEF At, Writing
<1>8. CASE BuildSkips(p)
  <2>1. pc[p] = "build" /\ Goto(p, AfterEnsure(req[p].op)) /\ UNCHANGED <<mu, req, view>>
    BY <1>8 DEF BuildSkips
  <2> QED BY <1>0, <2>1, StepOn, PlacesAre, LabelsIn DEF At, Writing, AllOps, AfterEnsure
<1>9. CASE Build(p)
  <2>1. /\ pc[p] = "build" /\ Goto(p, "createBuilt") /\ UNCHANGED <<mu, req>>
        /\ HasSlot /\ view' = [view EXCEPT ![p] = FreeSlot]
    BY <1>9 DEF Build, SetPointers
  <2>2. view'[p] # 0 /\ \A q \in Clients : q # p => view'[q] = view[q]
    BY <2>1, FreeSlotIs DEF Types
  <2> QED BY <1>0, <2>1, <2>2, StepOn, PlacesAre DEF At, Writing
<1>10. CASE Update(p)
  <2>1. pc[p] = "update" /\ UNCHANGED <<mu, req, view>>
        /\ \/ view[p] = 0 /\ Goto(p, "answer")
           \/ view[p] # 0 /\ Goto(p, "create")
    BY <1>10 DEF Update
  <2> QED BY <1>0, <2>1, StepOn, PlacesAre DEF At, Writing, AllOps
<1>11. CASE Unlist(p)
  <2>1. pc[p] = "unlist" /\ Goto(p, "unindex") /\ UNCHANGED <<mu, req, view>>
    BY <1>11 DEF Unlist
  <2> QED BY <1>0, <2>1, StepOn, PlacesAre DEF At, Writing
<1>12. CASE Unindex(p)
  <2>1. pc[p] = "unindex" /\ UNCHANGED <<mu, req, view>>
        /\ \/ view[p] = 0 /\ Goto(p, "answer")
           \/ view[p] # 0 /\ Goto(p, "create")
    BY <1>12 DEF Unindex
  <2> QED BY <1>0, <2>1, StepOn, PlacesAre DEF At, Writing, AllOps
<1>13. CASE Create(p)
  <2>1. pc[p] \in {"createBuilt", "create"} /\ UNCHANGED <<mu, req, view>>
        /\ \/ pc[p] = "createBuilt" /\ Goto(p, "writeBuilt")
           \/ pc[p] = "create" /\ Goto(p, "write")
    BY <1>13 DEF Create, Saving
  <2>2. view[p] # 0
    BY <1>0, <2>1 DEF At, Writing
  <2> QED BY <1>0, <2>1, <2>2, StepOn, PlacesAre DEF At, Writing
<1>14. CASE CreateFails(p) \/ Write(p)
  <2>1. pc[p] \in Writing /\ UNCHANGED <<mu, req, view>> /\ Goto(p, AfterSave(p))
    BY <1>14 DEF CreateFails, Write, Saving, Writing
  <2>2. AfterSave(p) \in {"update", "answer"} /\ (AfterSave(p) = "update" => req[p].op = "upload")
    BY <2>1 DEF AfterSave, AfterEnsure, Writing
  <2> QED BY <1>0, <2>1, <2>2, StepOn, PlacesAre DEF At, Writing, AllOps
<1>15. CASE ScanFails(p) \/ Scan(p) \/ Scanned(p) \/ RebuildStops(p)
  <2>1. pc[p] \in {"scan", "reembed"} /\ UNCHANGED <<mu, req, view>>
        /\ (Goto(p, "answer") \/ Goto(p, "reembed") \/ Goto(p, "build"))
    BY <1>15 DEF ScanFails, Scan, Scanned, RebuildStops
  <2> QED BY <1>0, <2>1, StepOn, PlacesAre DEF At, Writing, AllOps
<1>16. ASSUME NEW d \in Docs, SkipDocument(p, d) \/ ReEmbed(p, d) PROVE Control'
  BY <1>0, <1>16 DEF SkipDocument, ReEmbed, Control, At
<1> QED
  BY <1>1, <1>2, <1>3, <1>4, <1>5, <1>6, <1>7, <1>8, <1>9, <1>10, <1>11, <1>12, <1>13, <1>14,
     <1>15, <1>16 DEF Step

LEMMA ControlStep ==
    ASSUME Types, Control, Next
    PROVE  Control'
<1>1. ASSUME NEW p \in Clients, NEW d \in Docs, BeginUpload(p, d) \/ BeginRemove(p, d) PROVE Control'
  BY <1>1, BeginControl DEF BeginUpload, BeginRemove, AllOps
<1>2. ASSUME NEW p \in Clients, BeginSearch(p) \/ BeginRebuild(p) PROVE Control'
  BY <1>2, BeginControl DEF BeginSearch, BeginRebuild, AllOps
<1>3. CASE SwitchModel \/ CleanVectorIndex
  BY <1>3 DEF SwitchModel, CleanVectorIndex, indexVars, taskVars, Control, At
<1>4. CASE Restart
  <2>1. /\ mu' = Free /\ pc' = [p \in Clients |-> "idle"] /\ view' = [p \in Clients |-> 0]
        /\ req' = [p \in Clients |-> NoRequest]
    BY <1>4 DEF Restart, SetPointers
  <2> QED BY <2>1, ClientsAssumption, PlacesAre DEF Control, At, NoRequest, Writing
<1> QED BY <1>1, <1>2, <1>3, <1>4, StepControl DEF Next

LEMMA TypesInitially == Init => Types /\ Control
<1> SUFFICES ASSUME Init PROVE Types /\ Control
  OBVIOUS
<1>1. NoRequest \in Requests /\ Configured \in Nat /\ 0 \in 0..MaxIndexes
  BY ModelsAssumption, BoundsAssumption DEF NoRequest, Requests
<1>2. pc \in [Clients -> Places]
  BY PlacesAre DEF Init
<1>3. Types
  BY <1>1, <1>2, ModelsAssumption DEF Init, Types
<1>4. Control
  BY ClientsAssumption, PlacesAre DEF Init, Control, At, NoRequest, Writing
<1> QED BY <1>3, <1>4

-----------------------------------------------------------------------------
(* Every index somebody points to, and every whole file, is sound.          *)

SoundHeap(h) == \A i \in 1..MaxIndexes : h[i] = Gone \/ SoundIndex(h[i])
Pointed(h, c, v) == (c # 0 => h[c] # Gone) /\ \A p \in Clients : v[p] # 0 => h[v[p]] # Gone
HeapOK == SoundHeap(heap) /\ Pointed(heap, cache, view)
FileOK == OnDisk => SoundIndex(gob)

LEMMA SoundIsThere == \A ix : SoundIndex(ix) => ix # Gone /\ ix # Missing /\ ix # Torn
  BY PlaceholdersAssumption DEF SoundIndex

LEMMA PointersKeep ==
    ASSUME NEW h, NEW c \in 0..MaxIndexes, NEW v \in [Clients -> 0..MaxIndexes],
           SetPointers(h, c, v), SoundHeap(h), Pointed(h, c, v)
    PROVE  HeapOK'
<1>1. /\ cache' = c /\ view' = v
      /\ \A i \in 1..MaxIndexes :
            heap'[i] = IF i = c \/ \E p \in Clients : v[p] = i THEN h[i] ELSE Gone
  <2>1. cache' = c /\ view' = v /\ heap' = Collected(h, c, v)
    BY DEF SetPointers
  <2> QED BY <2>1 DEF Collected
<1>2. SoundHeap(heap')
  BY <1>1 DEF SoundHeap
<1>3. c # 0 => c \in 1..MaxIndexes
  BY BoundsAssumption
<1>4. \A p \in Clients : v[p] # 0 => v[p] \in 1..MaxIndexes
  BY BoundsAssumption
<1>5. Pointed(heap', c, v)
  BY <1>1, <1>3, <1>4 DEF Pointed
<1> QED BY <1>1, <1>2, <1>5 DEF HeapOK

(* A new index goes to a free slot.                                         *)
LEMMA NewInSlot ==
    ASSUME Types, HeapOK, HasSlot, NEW ix, SoundIndex(ix)
    PROVE  /\ FreeSlot \in 1..MaxIndexes /\ [heap EXCEPT ![FreeSlot] = ix][FreeSlot] = ix
           /\ SoundHeap([heap EXCEPT ![FreeSlot] = ix])
           /\ \A i \in 1..MaxIndexes : heap[i] # Gone => [heap EXCEPT ![FreeSlot] = ix][i] = heap[i]
           /\ \A i \in 1..MaxIndexes : heap[i] # Gone => [heap EXCEPT ![FreeSlot] = ix][i] # Gone
<1>1. FreeSlot \in 1..MaxIndexes /\ heap[FreeSlot] = Gone
  BY FreeSlotIs
<1>2. heap = [i \in 1..MaxIndexes |-> heap[i]] /\ DOMAIN heap = 1..MaxIndexes
  BY DEF Types
<1> HIDE DEF FreeSlot
<1>3. \A i \in 1..MaxIndexes : [heap EXCEPT ![FreeSlot] = ix][i] = IF i = FreeSlot THEN ix ELSE heap[i]
  BY <1>2
<1> QED BY <1>1, <1>3 DEF HeapOK, SoundHeap

LEMMA PointersMoveSoundly ==
    ASSUME Types, HeapOK, HasSlot, NEW ix, SoundIndex(ix), NEW p \in Clients,
           NEW c \in {cache, 0, FreeSlot}, SetPointers([heap EXCEPT ![FreeSlot] = ix], c, [view EXCEPT ![p] = FreeSlot])
    PROVE  HeapOK'
<1> DEFINE h == [heap EXCEPT ![FreeSlot] = ix]
<1> DEFINE v == [view EXCEPT ![p] = FreeSlot]
<1>1. /\ FreeSlot \in 1..MaxIndexes /\ h[FreeSlot] = ix /\ SoundHeap(h)
      /\ \A i \in 1..MaxIndexes : heap[i] # Gone => h[i] # Gone
  BY NewInSlot
<1>2. ix # Gone
  BY SoundIsThere
<1>3. c \in 0..MaxIndexes /\ FreeSlot \in 0..MaxIndexes
  BY <1>1, BoundsAssumption DEF Types
<1>4. v \in [Clients -> 0..MaxIndexes] /\ \A q \in Clients : v[q] = IF q = p THEN FreeSlot ELSE view[q]
  BY <1>3 DEF Types
<1>5. /\ cache # 0 => cache \in 1..MaxIndexes
      /\ \A q \in Clients : view[q] # 0 => view[q] \in 1..MaxIndexes
  BY BoundsAssumption DEF Types
<1> HIDE DEF h, v
<1>6. Pointed(h, c, v)
  BY <1>1, <1>2, <1>4, <1>5 DEF HeapOK, Pointed
<1>7. SetPointers(h, c, v)
  BY DEF h, v
<1> QED BY <1>1, <1>3, <1>4, <1>6, <1>7, PointersKeep

LEMMA WithKBSound ==
    ASSUME Types, HeapOK, FileOK, NEW p \in Clients, WithKB(p)
    PROVE  HeapOK'
<1>1. CASE cache # 0
  <2> DEFINE v == [view EXCEPT ![p] = cache]
  <2>1. SetPointers(heap, cache, v) /\ v \in [Clients -> 0..MaxIndexes] /\ cache \in 0..MaxIndexes
    BY <1>1 DEF WithKB, Types
  <2>2. Pointed(heap, cache, v)
    BY <1>1 DEF HeapOK, Pointed, Types
  <2> HIDE DEF v
  <2> QED BY <2>1, <2>2, PointersKeep DEF HeapOK
<1>2. CASE cache = 0 /\ OnDisk
  <2>1. HasSlot /\ SetPointers([heap EXCEPT ![FreeSlot] = gob], FreeSlot, [view EXCEPT ![p] = FreeSlot])
    BY <1>2 DEF WithKB
  <2>2. SoundIndex(gob)
    BY <1>2 DEF FileOK
  <2> QED BY <2>1, <2>2, PointersMoveSoundly
<1>3. CASE cache = 0 /\ ~OnDisk
  <2> DEFINE v == [view EXCEPT ![p] = 0]
  <2>1. SetPointers(heap, 0, v) /\ v \in [Clients -> 0..MaxIndexes] /\ 0 \in 0..MaxIndexes
    BY <1>3, BoundsAssumption DEF WithKB, Types
  <2>2. Pointed(heap, 0, v)
    BY <1>3 DEF HeapOK, Pointed, Types
  <2> HIDE DEF v
  <2> QED BY <2>1, <2>2, PointersKeep DEF HeapOK
<1> QED BY <1>1, <1>2, <1>3

(* A working index replaced where it stands.                                *)
LEMMA ReplacedSoundly ==
    ASSUME Types, HeapOK, NEW p \in Clients, view[p] # 0, NEW ix, SoundIndex(ix),
           heap' = [heap EXCEPT ![view[p]] = ix], UNCHANGED <<cache, view>>
    PROVE  HeapOK'
<1>1. view[p] \in 1..MaxIndexes /\ heap = [i \in 1..MaxIndexes |-> heap[i]] /\ ix # Gone
  BY SoundIsThere, BoundsAssumption DEF Types
<1>2. \A i \in 1..MaxIndexes : heap'[i] = IF i = view[p] THEN ix ELSE heap[i]
  BY <1>1
<1>3. /\ cache # 0 => cache \in 1..MaxIndexes
      /\ \A q \in Clients : view[q] # 0 => view[q] \in 1..MaxIndexes
  BY BoundsAssumption DEF Types
<1>4. SoundHeap(heap')
  BY <1>2 DEF HeapOK, SoundHeap
<1>5. Pointed(heap', cache, view)
  BY <1>1, <1>2, <1>3 DEF HeapOK, Pointed
<1> QED BY <1>4, <1>5 DEF HeapOK

LEMMA MineSound ==
    ASSUME Types, HeapOK, NEW p \in Clients, view[p] # 0
    PROVE  SoundIndex(Mine(p)) /\ Mine(p).dim \in Nat \ {0}
<1>1. view[p] \in 1..MaxIndexes /\ heap[view[p]] # Gone
  <2>1. view[p] \in 0..MaxIndexes
    BY DEF Types
  <2>2. view[p] \in 1..MaxIndexes
    BY <2>1, BoundsAssumption
  <2>3. heap[view[p]] # Gone
    BY DEF HeapOK, Pointed
  <2> QED BY <2>2, <2>3
<1>2. SoundIndex(Mine(p))
  BY <1>1 DEF HeapOK, SoundHeap, Mine
<1> QED BY <1>2, IndexParts DEF SoundIndex

(* What each operation leaves in the working index.                         *)
Carrying(ids, dimension) == {i \in ids : vectorOf[i] = dimension}

LEMMA BuiltIs ==
    ASSUME Types, dim # 0, NEW docs \in SUBSET rows
    PROVE  SoundSet(Built(docs), WithVector(docs), dim)
<1> DEFINE start == {NewHNSWIndex(dim)}
<1>1. dim \in Nat \ {0}
  BY DEF Types
<1>2. SoundSet(start, {}, dim)
  BY <1>1, NewIndexSound DEF SoundSet
<1>3. WithVector(docs) \in SUBSET Ids /\ vectorOf \in [Ids -> Nat]
  BY DocsAssumption DEF WithVector, Types
<1>4. {} \cup {i \in WithVector(docs) : vectorOf[i] = dim} = WithVector(docs)
  BY DEF WithVector
<1> HIDE DEF start
<1>5. SoundSet(AddAll(start, WithVector(docs), vectorOf),
               {} \cup {i \in WithVector(docs) : vectorOf[i] = dim}, dim)
  BY <1>1, <1>2, <1>3, AddAllSound
<1> QED BY <1>4, <1>5 DEF Built, start

LEMMA UpdatedIs ==
    ASSUME Types, HeapOK, NEW p \in Clients, view[p] # 0, NEW d \in Docs
    PROVE  SoundSet(AddAll(DropAll({Mine(p)}, ChunksOf[d]), ChunksOf[d], vectorOf),
                    (AllIDs(Mine(p)) \ ChunksOf[d]) \cup Carrying(ChunksOf[d], Mine(p).dim), Mine(p).dim)
<1> DEFINE start == {Mine(p)}
<1> DEFINE A == AllIDs(Mine(p))
<1> DEFINE dimension == Mine(p).dim
<1> DEFINE ids == ChunksOf[d]
<1>1. SoundSet(start, A, dimension) /\ dimension \in Nat \ {0}
  BY MineSound DEF SoundSet
<1>2. ids \in SUBSET Ids /\ vectorOf \in [Ids -> Nat]
  BY DocsAssumption DEF Types
<1> HIDE DEF start, A, dimension, ids
<1>3. SoundSet(DropAll(start, ids), A \ ids, dimension)
  BY <1>1, <1>2, DropAllSound
<1> DEFINE dropped == DropAll(start, ids)
<1> DEFINE B == A \ ids
<1>4. SoundSet(dropped, B, dimension)
  BY <1>3
<1> HIDE DEF dropped, B
<1>5. SoundSet(AddAll(dropped, ids, vectorOf), B \cup {i \in ids : vectorOf[i] = dimension}, dimension)
  BY <1>1, <1>2, <1>4, AddAllSound
<1> QED BY <1>5 DEF dropped, B, start, A, dimension, ids, Carrying

LEMMA UnindexedIs ==
    ASSUME Types, HeapOK, NEW p \in Clients, view[p] # 0, NEW d \in Docs, req[p].doc = d
    PROVE  SoundSet(Unindexed(p), AllIDs(Mine(p)) \ ChunksOf[d], Mine(p).dim)
<1>1. SoundSet({Mine(p)}, AllIDs(Mine(p)), Mine(p).dim)
  BY MineSound DEF SoundSet
<1>2. ChunksOf[d] \in SUBSET Ids
  BY DocsAssumption
<1> QED BY <1>1, <1>2, DropAllSound DEF Unindexed

LEMMA CleanedIs ==
    ASSUME FileOK, OnDisk, NEW ids \in SUBSET Ids
    PROVE  SoundSet(DropAll({gob}, ids), AllIDs(gob) \ ids, gob.dim)
<1>1. SoundSet({gob}, AllIDs(gob), gob.dim)
  BY DEF FileOK, SoundSet
<1> QED BY <1>1, DropAllSound

LEMMA SoundStep ==
    ASSUME Types, Control, HeapOK, FileOK, Next
    PROVE  HeapOK' /\ FileOK'
<1>0. \A q \in Clients : At(q)
  BY DEF Control
<1>1. CASE UNCHANGED <<indexVars, gob>>
  BY <1>1 DEF HeapOK, FileOK, SoundHeap, Pointed, indexVars, OnDisk
<1>2. ASSUME NEW p \in Clients, NEW op, NEW d, Begin(p, op, d) PROVE HeapOK' /\ FileOK'
  <2>1. WithKB(p) /\ gob' = gob
    BY <1>2 DEF Begin
  <2> QED BY <2>1, WithKBSound DEF FileOK, OnDisk
<1>3. ASSUME NEW p \in Clients, Return(p) PROVE HeapOK' /\ FileOK'
  <2> DEFINE v == [view EXCEPT ![p] = 0]
  <2>1. SetPointers(heap, cache, v) /\ gob' = gob
    BY <1>3 DEF Return
  <2>2. v \in [Clients -> 0..MaxIndexes] /\ cache \in 0..MaxIndexes
        /\ \A q \in Clients : v[q] = IF q = p THEN 0 ELSE view[q]
    BY BoundsAssumption DEF Types
  <2> HIDE DEF v
  <2>3. Pointed(heap, cache, v)
    BY <2>2 DEF HeapOK, Pointed
  <2> HIDE DEF v
  <2> QED BY <2>1, <2>2, <2>3, PointersKeep DEF HeapOK, FileOK, OnDisk
<1>4. ASSUME NEW p \in Clients, EnsureLoads(p) PROVE HeapOK' /\ FileOK'
  <2>1. /\ HasSlot /\ gob' = gob /\ SoundIndex(gob)
        /\ SetPointers([heap EXCEPT ![FreeSlot] = gob], cache, [view EXCEPT ![p] = FreeSlot])
    BY <1>4 DEF EnsureLoads, FileOK
  <2> QED BY <2>1, PointersMoveSoundly DEF FileOK, OnDisk
<1>5. ASSUME NEW p \in Clients, Build(p) PROVE HeapOK' /\ FileOK'
  <2>0. PICK docs \in SUBSET rows : \E ix \in Built(docs) :
           SetPointers([heap EXCEPT ![FreeSlot] = ix], CacheAfterBuild(FreeSlot),
                       [view EXCEPT ![p] = FreeSlot])
    BY <1>5 DEF Build
  <2>1. PICK ix \in Built(docs) : SetPointers([heap EXCEPT ![FreeSlot] = ix], CacheAfterBuild(FreeSlot),
                                              [view EXCEPT ![p] = FreeSlot])
    BY <2>0
  <2>2. SoundIndex(ix)
    BY <1>5, BuiltIs DEF Build, SoundSet
  <2>3. CacheAfterBuild(FreeSlot) \in {cache, 0, FreeSlot} /\ HasSlot /\ gob' = gob
    BY <1>5 DEF CacheAfterBuild, Build
  <2> QED BY <2>1, <2>2, <2>3, PointersMoveSoundly DEF FileOK, OnDisk
<1>6. ASSUME NEW p \in Clients, Update(p) PROVE HeapOK' /\ FileOK'
  <2>1. CASE view[p] = 0
    BY <1>1, <1>6, <2>1 DEF Update
  <2>2. CASE view[p] # 0
    <3>1. req[p].doc \in Docs
      BY <1>0, <1>6, PlacesAre DEF Update, At
    <3>2. PICK ix \in AddAll(DropAll({Mine(p)}, ChunksOf[req[p].doc]), ChunksOf[req[p].doc], vectorOf) :
             heap' = [heap EXCEPT ![view[p]] = ix]
      BY <1>6, <2>2 DEF Update
    <3>3. SoundIndex(ix)
      BY <2>2, <3>1, <3>2, UpdatedIs DEF SoundSet
    <3>4. UNCHANGED <<cache, view, gob>>
      BY <1>6, <2>2 DEF Update
    <3> QED BY <2>2, <3>2, <3>3, <3>4, ReplacedSoundly DEF FileOK, OnDisk
  <2> QED BY <2>1, <2>2
<1>7. ASSUME NEW p \in Clients, Unindex(p) PROVE HeapOK' /\ FileOK'
  <2>1. CASE view[p] = 0
    BY <1>1, <1>7, <2>1 DEF Unindex, indexVars
  <2>2. CASE view[p] # 0
    <3>1. req[p].doc \in Docs
      BY <1>0, <1>7, PlacesAre DEF Unindex, At
    <3>2. PICK ix \in Unindexed(p) : heap' = [heap EXCEPT ![view[p]] = ix]
      BY <1>7, <2>2 DEF Unindex
    <3>3. SoundIndex(ix)
      BY <2>2, <3>1, <3>2, UnindexedIs DEF SoundSet
    <3>4. UNCHANGED <<cache, view, gob>>
      BY <1>7 DEF Unindex
    <3> QED BY <2>2, <3>2, <3>3, <3>4, ReplacedSoundly DEF FileOK, OnDisk
  <2> QED BY <2>1, <2>2
<1>8. ASSUME NEW p \in Clients, Create(p) PROVE HeapOK' /\ FileOK'
  <2>1. HeapOK'
    BY <1>8 DEF Create, indexVars, HeapOK, SoundHeap, Pointed
  <2>2. FileOK'
    BY <1>8 DEF Create, FileOK, OnDisk
  <2> QED BY <2>1, <2>2
<1>9. ASSUME NEW p \in Clients, Write(p) PROVE HeapOK' /\ FileOK'
  <2>1. HeapOK'
    BY <1>9 DEF Write, indexVars, HeapOK, SoundHeap, Pointed
  <2>2. view[p] # 0 /\ gob' = Mine(p)
    BY <1>0, <1>9 DEF Write, At, Writing
  <2>3. FileOK'
    BY <2>2, MineSound DEF FileOK
  <2> QED BY <2>1, <2>3
<1>10. CASE Restart
  <2> DEFINE none == [q \in Clients |-> 0]
  <2> DEFINE gone == [i \in 1..MaxIndexes |-> Gone]
  <2>1. SetPointers(gone, 0, none) /\ gob' = gob
    BY <1>10 DEF Restart
  <2>2. /\ none \in [Clients -> 0..MaxIndexes] /\ 0 \in 0..MaxIndexes
        /\ SoundHeap(gone) /\ Pointed(gone, 0, none)
    BY BoundsAssumption DEF SoundHeap, Pointed
  <2> HIDE DEF none, gone
  <2> QED BY <2>1, <2>2, PointersKeep DEF FileOK, OnDisk
<1>11. CASE CleanVectorIndex
  <2>1. HeapOK'
    BY <1>11 DEF CleanVectorIndex, indexVars, HeapOK, SoundHeap, Pointed
  <2> DEFINE orphans == AllIDs(gob) \ UNION {ChunksOf[d] : d \in rows}
  <2>2. OnDisk /\ gob' \in DropAll({gob}, orphans)
    BY <1>11 DEF CleanVectorIndex
  <2>3. orphans \in SUBSET Ids
    BY <2>2, IndexParts DEF FileOK, SoundIndex
  <2> HIDE DEF orphans
  <2>4. SoundIndex(gob')
    BY <2>2, <2>3, CleanedIs DEF SoundSet
  <2> QED BY <2>1, <2>4 DEF FileOK
<1>12. ASSUME NEW p \in Clients, Step(p) PROVE HeapOK' /\ FileOK'
  <2>1. CASE Lock(p) \/ Embed(p) \/ EmbedFails(p) \/ EnsureFinds(p) \/ EnsureBuilds(p) \/ BuildSkips(p)
             \/ Unlist(p)
    BY <1>1, <2>1 DEF Lock, Embed, EmbedFails, EnsureFinds, EnsureBuilds, BuildSkips, Unlist
  <2>2. CASE CreateFails(p) \/ ScanFails(p) \/ Scan(p) \/ Scanned(p) \/ RebuildStops(p)
    BY <1>1, <2>2 DEF CreateFails, ScanFails, Scan, Scanned, RebuildStops
  <2>3. CASE \E d \in Docs : SkipDocument(p, d) \/ ReEmbed(p, d)
    BY <1>1, <2>3 DEF SkipDocument, ReEmbed
  <2> QED BY <1>12, <1>3, <1>4, <1>5, <1>6, <1>7, <1>8, <1>9, <2>1, <2>2, <2>3 DEF Step
<1>13. CASE SwitchModel
  BY <1>1, <1>13 DEF SwitchModel
<1>14. ASSUME NEW p \in Clients, NEW d \in Docs, BeginUpload(p, d) \/ BeginRemove(p, d)
       PROVE  HeapOK' /\ FileOK'
  BY <1>2, <1>14 DEF BeginUpload, BeginRemove
<1>15. ASSUME NEW p \in Clients, BeginSearch(p) \/ BeginRebuild(p) PROVE HeapOK' /\ FileOK'
  BY <1>2, <1>15 DEF BeginSearch, BeginRebuild
<1> QED BY <1>10, <1>11, <1>12, <1>13, <1>14, <1>15 DEF Next

BaseInv == Types /\ Control /\ HeapOK /\ FileOK

LEMMA BaseInitially == Init => BaseInv
<1> SUFFICES ASSUME Init PROVE BaseInv
  OBVIOUS
<1>1. HeapOK
  BY DEF Init, HeapOK, SoundHeap, Pointed
<1>2. FileOK
  BY DEF Init, FileOK, OnDisk
<1> QED BY <1>1, <1>2, TypesInitially DEF BaseInv

LEMMA BaseStep == BaseInv /\ [Next]_vars => BaseInv'
<1> SUFFICES ASSUME BaseInv, [Next]_vars PROVE BaseInv'
  OBVIOUS
<1>1. CASE Next
  BY <1>1, TypesStep, ControlStep, SoundStep DEF BaseInv
<1>2. CASE UNCHANGED vars
  <2>1. (Types /\ Control)'
    BY <1>2 DEF vars, rowVars, indexVars, modelVars, taskVars, Types, Control, At, BaseInv
  <2>2. (HeapOK /\ FileOK)'
    BY <1>2 DEF vars, indexVars, HeapOK, FileOK, OnDisk, SoundHeap, Pointed, BaseInv
  <2> QED BY <2>1, <2>2 DEF BaseInv
<1> QED BY <1>1, <1>2

LEMMA BaseInvariant == Spec => []BaseInv
  BY BaseInitially, BaseStep, PTL DEF Spec

LEMMA BaseIsGraphSound == BaseInv => GraphSound
<1> SUFFICES ASSUME BaseInv, NEW ix \in Indexes \cup (IF OnDisk THEN {gob} ELSE {}) PROVE Sound(ix)
  BY DEF GraphSound
<1>1. CASE ix \in Indexes
  <2>1. PICK i \in 1..MaxIndexes : ix = heap[i] /\ heap[i] # Gone
    BY <1>1 DEF Indexes
  <2> QED BY <2>1 DEF BaseInv, HeapOK, SoundHeap, SoundIndex
<1>2. CASE OnDisk /\ ix = gob
  BY <1>2 DEF BaseInv, FileOK, SoundIndex
<1> QED BY <1>1, <1>2

(* No index anywhere and no index file ever has a link to a node that is    *)
(* gone, a link into a layer the node lacks, or a missing entry point,      *)
(* whatever uploads, removals, rebuilds, faults and restarts come together: *)
(* Search and Add never meet a nil node (vector_index.go:149-346, 356-418). *)
THEOREM GraphsStaySound == Spec => []GraphSound
  BY BaseInvariant, BaseIsGraphSound, PTL

-----------------------------------------------------------------------------
(* A rebuild: what it has looked at has vectors of the dimension it wants.  *)

(* While a request holds the lock no other one takes a step past its own.   *)
LEMMA StepsWhere ==
    ASSUME NEW p \in Clients, Step(p)
    PROVE  \/ pc[p] = "lock" /\ mu = Free /\ Lock(p)
           \/ pc[p] \notin {"idle", "lock"}
<1>1. CASE Lock(p) \/ Return(p) \/ Embed(p) \/ EmbedFails(p) \/ EnsureLoads(p) \/ EnsureFinds(p)
           \/ EnsureBuilds(p) \/ BuildSkips(p) \/ Build(p)
  BY <1>1 DEF Lock, Return, Embed, EmbedFails, EnsureLoads, EnsureFinds, EnsureBuilds, BuildSkips, Build
<1>2. CASE Update(p) \/ Unlist(p) \/ Unindex(p) \/ Create(p) \/ CreateFails(p) \/ Write(p)
           \/ ScanFails(p) \/ Scan(p) \/ Scanned(p) \/ RebuildStops(p)
  BY <1>2 DEF Update, Unlist, Unindex, Create, CreateFails, Write, ScanFails, Scan, Scanned,
              RebuildStops, Saving
<1>3. CASE \E d \in Docs : SkipDocument(p, d) \/ ReEmbed(p, d)
  BY <1>3 DEF SkipDocument, ReEmbed
<1> QED BY <1>1, <1>2, <1>3 DEF Step

LEMMA OnlyTheHolderSteps ==
    ASSUME Types, Control, NEW p \in Clients, pc[p] \notin {"idle", "lock"},
           NEW q \in Clients, Step(q)
    PROVE  q = p
  BY StepsWhere, HolderAlone

Complete(docs) == \A d \in docs : \A i \in ChunksOf[d] \ missed : vectorOf[i] = want
RebuildOK == \A p \in Clients :
    pc[p] = "reembed" /\ served = want => dim = want /\ Complete(rows \ todo)

LEMMA RebuildStep == BaseInv /\ RebuildOK /\ [Next]_vars => RebuildOK'
<1> SUFFICES ASSUME BaseInv, RebuildOK, [Next]_vars,
                    NEW p \in Clients, pc'[p] = "reembed", served' = want'
             PROVE  dim' = want' /\ Complete(rows \ todo)'
  BY DEF RebuildOK
<1>0. Types /\ Control
  BY DEF BaseInv
<1>1. ASSUME pc[p] = "reembed", UNCHANGED <<rows, vectorOf, served, dim, todo, want, missed>>
      PROVE  dim' = want' /\ Complete(rows \ todo)'
  BY <1>1 DEF RebuildOK, Complete
<1>2. ASSUME NEW q \in Clients, NEW op, NEW d, Begin(q, op, d)
      PROVE  dim' = want' /\ Complete(rows \ todo)'
  <2>1. pc[p] = "reembed" /\ UNCHANGED <<rows, vectorOf, served, dim, todo, want, missed>>
    BY <1>0, <1>2 DEF Begin, Goto, Types, rowVars, modelVars
  <2> QED BY <1>1, <2>1
<1>3. ASSUME NEW q \in Clients, Step(q), q # p PROVE FALSE
  <2>1. \A l : Goto(q, l) => pc[p] = "reembed"
    BY <1>0, <1>3 DEF Goto, Types
  <2>2. pc[p] # "reembed"
    BY <1>0, <1>3, OnlyTheHolderSteps
  <2>3. pc' = [pc EXCEPT ![q] = pc'[q]] \/ pc' = pc
    <3>1. CASE \E l : Goto(q, l)
      BY <1>0, <3>1 DEF Goto, Types
    <3>2. CASE pc' = pc
      BY <3>2
    <3>3. (\E l : Goto(q, l)) \/ pc' = pc
      <4>1. CASE Lock(q) \/ Return(q) \/ Embed(q) \/ EmbedFails(q) \/ EnsureLoads(q) \/ EnsureFinds(q)
                 \/ EnsureBuilds(q) \/ BuildSkips(q) \/ Build(q)
        BY <4>1 DEF Lock, Return, Answer, Embed, EmbedFails, EnsureLoads, EnsureFinds, EnsureBuilds,
                    BuildSkips, Build
      <4>2. CASE Update(q) \/ Unlist(q) \/ Unindex(q) \/ Create(q) \/ CreateFails(q) \/ Write(q)
                 \/ ScanFails(q) \/ Scan(q) \/ Scanned(q) \/ RebuildStops(q)
        BY <4>2 DEF Update, Unlist, Unindex, Create, CreateFails, Write, ScanFails, Scan, Scanned,
                    RebuildStops
      <4>3. CASE \E d \in Docs : SkipDocument(q, d) \/ ReEmbed(q, d)
        BY <4>3 DEF SkipDocument, ReEmbed
      <4> QED BY <1>3, <4>1, <4>2, <4>3 DEF Step
    <3> QED BY <3>1, <3>2, <3>3
  <2>4. pc'[p] = pc[p]
    BY <1>0, <1>3, <2>3 DEF Types
  <2> QED BY <2>2, <2>4
<1>4. CASE Scan(p)
  <2>1. dim' = dim /\ want' = dim /\ rows' = rows /\ todo' = rows
    BY <1>4 DEF Scan, rowVars, modelVars
  <2> QED BY <2>1 DEF Complete
<1>5. ASSUME NEW d \in Docs, SkipDocument(p, d) PROVE dim' = want' /\ Complete(rows \ todo)'
  <2>1. /\ pc[p] = "reembed" /\ UNCHANGED <<rows, vectorOf, served, dim, want>>
        /\ todo' = todo \ {d} /\ missed \subseteq missed'
        /\ \A i \in ChunksOf[d] \ missed' : vectorOf[i] = want
    BY <1>5 DEF SkipDocument, rowVars, modelVars, Jobs
  <2> QED BY <2>1 DEF RebuildOK, Complete
<1>6. ASSUME NEW d \in Docs, ReEmbed(p, d) PROVE dim' = want' /\ Complete(rows \ todo)'
  <2>1. /\ pc[p] = "reembed" /\ UNCHANGED <<rows, served, want>> /\ todo' = todo \ {d}
        /\ served = want /\ dim' = want
    BY <1>6 DEF ReEmbed, Detect, RebuildOK
  <2>2. PICK got \in SUBSET Jobs(d) :
           /\ missed' = missed \cup (Jobs(d) \ got)
           /\ IF got # {} THEN vectorOf' = [i \in Ids |-> IF i \in got THEN want ELSE vectorOf[i]]
              ELSE vectorOf' = vectorOf
    BY <1>6, <2>1 DEF ReEmbed
  <2>3. Complete(rows \ todo)
    BY <2>1 DEF RebuildOK
  <2>4. ASSUME NEW e \in rows \ (todo \ {d}), NEW i \in ChunksOf[e] \ missed'
        PROVE  vectorOf'[i] = want
    <3>1. i \in Ids
      BY <1>0, DocsAssumption DEF Types
    <3>2. vectorOf'[i] = IF i \in got THEN want ELSE vectorOf[i]
      BY <2>2, <3>1
    <3>3. CASE e = d
      BY <2>2, <2>4, <3>2, <3>3 DEF Jobs
    <3>4. CASE e # d
      BY <2>2, <2>3, <2>4, <3>2, <3>4 DEF Complete
    <3> QED BY <3>3, <3>4
  <2> QED BY <2>1, <2>4 DEF Complete
<1>7. CASE Step(p)
  <2>1. ASSUME NEW l, Goto(p, l) PROVE l = "reembed"
    BY <1>0, <2>1 DEF Goto, Types
  <2>2. CASE Lock(p)
    BY <1>0, <2>1, <2>2, PlacesAre DEF Lock, FirstStep, Control, At, AllOps
  <2>3. CASE Return(p) \/ Embed(p) \/ EmbedFails(p) \/ EnsureLoads(p) \/ EnsureFinds(p)
             \/ EnsureBuilds(p) \/ BuildSkips(p) \/ Build(p)
    BY <2>1, <2>3 DEF Return, Answer, Embed, EmbedFails, EnsureLoads, EnsureFinds, EnsureBuilds,
                      BuildSkips, Build, AfterEnsure
  <2>4. CASE Update(p) \/ Unlist(p) \/ Unindex(p) \/ Create(p) \/ CreateFails(p) \/ Write(p)
             \/ ScanFails(p) \/ Scanned(p) \/ RebuildStops(p)
    BY <2>1, <2>4 DEF Update, Unlist, Unindex, Create, CreateFails, Write, ScanFails, Scanned,
                      RebuildStops, AfterSave, AfterEnsure
  <2> QED BY <1>4, <1>5, <1>6, <1>7, <2>2, <2>3, <2>4 DEF Step
<1>8. CASE SwitchModel
  BY <1>8 DEF SwitchModel, Busy, taskVars
<1>9. CASE Restart
  BY <1>9 DEF Restart
<1>10. CASE CleanVectorIndex \/ UNCHANGED vars
  BY <1>1, <1>10 DEF CleanVectorIndex, vars, rowVars, modelVars, taskVars
<1>11. ASSUME NEW q \in Clients, NEW d \in Docs, BeginUpload(q, d) \/ BeginRemove(q, d)
       PROVE  dim' = want' /\ Complete(rows \ todo)'
  BY <1>2, <1>11 DEF BeginUpload, BeginRemove
<1>12. ASSUME NEW q \in Clients, BeginSearch(q) \/ BeginRebuild(q)
       PROVE  dim' = want' /\ Complete(rows \ todo)'
  BY <1>2, <1>12 DEF BeginSearch, BeginRebuild
<1> QED BY <1>3, <1>7, <1>8, <1>9, <1>10, <1>11, <1>12 DEF Next

LEMMA RebuildInvariant == Spec => []RebuildOK
<1>1. Init => RebuildOK
  BY DEF Init, RebuildOK
<1> QED BY <1>1, BaseInvariant, RebuildStep, PTL DEF Spec

(* A rebuild that ran to its end while the endpoint answered with vectors   *)
(* of the dimension it began with leaves no chunk without one that it has   *)
(* not passed over itself, for a chunks index or a chunk it could not read  *)
(* or a vector left out of an answer (it then returns no error either):     *)
(* nothing uploads, removes or switches the embedder under it               *)
(* (ReEmbedMissingVectors holds Store.mu, store.go:1987-2118).              *)
THEOREM RebuildsLeaveNoneMissing == Spec => RebuildLeavesNoneMissing
<1> DEFINE A == \A p \in Clients :
          Scanned(p) /\ want = served =>
              \A d \in rows : \A i \in ChunksOf[d] \ missed : vectorOf[i] = dim
<1>1. BaseInv /\ RebuildOK => A
  BY DEF Scanned, RebuildOK, Complete
<1> QED BY <1>1, BaseInvariant, RebuildInvariant, PTL DEF RebuildLeavesNoneMissing

-----------------------------------------------------------------------------
(* The index mirrors the chunk indexes. A request that writes works on the  *)
(* object of the cache, or on one it built itself and put there; so nothing *)
(* stale is left behind when it unlocks. This needs the writers to be alone *)
(* from their WithKB on.                                                    *)

WritersAlone == Overlap \subseteq {{"search"}}
Writers == {"upload", "remove", "rebuild"}

Live == UNION {ChunksOf[d] : d \in rows}
Mirror(ix) == AllIDs(ix) = Carrying(Live, ix.dim)
MirrorBut(ix, ids) == AllIDs(ix) \ ids = Carrying(Live, ix.dim) \ ids
Clean == (OnDisk => Mirror(gob)) /\ (cache # 0 => Mirror(heap[cache]))

Alone == \A p, q \in Clients :
    p # q /\ pc[p] # "idle" /\ pc[q] # "idle" => req[p].op = "search" /\ req[q].op = "search"

(* A writer's view is the cached object until it builds one, which is then  *)
(* the cached one if there was any.                                         *)
ViewOK(p) ==
    /\ req[p].op \in Writers /\ pc[p] \in {"lock", "embed", "ensure", "unlist", "unindex", "scan"} =>
          view[p] = cache
    /\ req[p].op \in Writers /\ view[p] = 0
          /\ pc[p] \in {"lock", "embed", "ensure", "unlist", "unindex", "scan", "build", "update"}
          /\ (pc[p] = "build" => req[p].op = "upload") =>
          cache = 0 /\ ~OnDisk
    /\ pc[p] \in {"update"} \cup Writing => cache \in {0, view[p]}
    /\ req[p].op = "upload" /\ pc[p] = "build" => view[p] = 0
    /\ req[p].op = "search" /\ pc[p] \in {"build", "createBuilt", "writeBuilt"} => ~OnDisk

RowOK(p) ==
    /\ req[p].op = "upload" /\ pc[p] \in {"lock", "embed"} => req[p].doc \notin rows
    /\ req[p].op = "upload" /\ pc[p] \in {"ensure", "build", "createBuilt", "writeBuilt", "update"} =>
          req[p].doc \in rows
    /\ pc[p] = "unindex" => req[p].doc \notin rows

DimOK(p) ==
    /\ pc[p] \in {"reembed", "build"} /\ req[p].op = "rebuild" => dim # 0
    /\ pc[p] = "scan" => ~embedded

Copies(p) ==
    /\ pc[p] \in {"embed", "unlist", "scan", "answer"} => Clean
    /\ req[p].op = "search" /\ pc[p] \in {"ensure", "build"} => Clean
    /\ pc[p] = "reembed" /\ ~embedded => Clean
    /\ (req[p].op = "upload" /\ pc[p] \in {"ensure", "update"}) \/ pc[p] = "unindex" =>
          (view[p] # 0 => MirrorBut(Mine(p), ChunksOf[req[p].doc]))
    /\ pc[p] \in Writing => Mirror(Mine(p))

Good(p) == ViewOK(p) /\ RowOK(p) /\ DimOK(p) /\ (intact => Copies(p))
Settled ==
    /\ detected => dim # 0
    /\ mu = Free => ~embedded
    /\ mu = Free /\ intact => Clean
MirrorInv == WritersAlone /\ Alone /\ Settled /\ \A p \in Clients : Good(p)

(* The others stand by while one is inside.                                 *)
StandsBy(q) == pc[q] = "idle" \/ (pc[q] = "lock" /\ req[q].op = "search")

LEMMA StandingByGood ==
    ASSUME NEW q \in Clients, BaseInv, StandsBy(q) PROVE Good(q)
<1>1. req[q].op = "none" \/ (pc[q] = "lock" /\ req[q].op = "search")
  BY PlacesAre DEF BaseInv, Control, At, StandsBy
<1> QED BY <1>1 DEF StandsBy, Good, ViewOK, RowOK, DimOK, Copies, Writing, Writers

LEMMA StandingByStaysGood ==
    ASSUME NEW q \in Clients, BaseInv, StandsBy(q), pc'[q] = pc[q], req'[q] = req[q]
    PROVE  Good(q)'
<1>1. \/ pc'[q] = "idle" /\ req'[q].op = "none"
      \/ pc'[q] = "lock" /\ req'[q].op = "search"
  BY PlacesAre DEF BaseInv, Control, At, StandsBy
<1> QED BY <1>1 DEF Good, ViewOK, RowOK, DimOK, Copies, Writing, Writers

LEMMA OthersStandBy ==
    ASSUME BaseInv, MirrorInv, NEW p \in Clients, Step(p)
    PROVE  /\ pc[p] # "idle" /\ \A q \in Clients : q # p => StandsBy(q)
<1>1. pc[p] # "idle"
  BY StepsWhere
<1>2. ASSUME NEW q \in Clients, q # p PROVE pc[q] \in {"idle", "lock"}
  <2>1. CASE pc[p] = "lock"
    BY <2>1, StepsWhere, NobodyInside DEF BaseInv
  <2>2. CASE pc[p] # "lock"
    BY <1>1, <1>2, <2>2, HolderAlone DEF BaseInv
  <2> QED BY <2>1, <2>2
<1> QED BY <1>1, <1>2 DEF MirrorInv, Alone, StandsBy

(* So a step need only answer for the one who takes it.                     *)
LEMMA HolderAnswers ==
    ASSUME BaseInv, MirrorInv, NEW p \in Clients, Step(p),
           \A q \in Clients : q # p => pc'[q] = pc[q] /\ req'[q] = req[q],
           pc'[p] # "idle" => req'[p] = req[p],
           Settled', Good(p)'
    PROVE  MirrorInv'
<1>1. pc[p] # "idle" /\ \A q \in Clients : q # p => StandsBy(q)
  BY OthersStandBy
<1>2. \A q \in Clients : Good(q)'
  BY <1>1, StandingByStaysGood
<1>3. Alone'
  <2>1. \A q \in Clients : pc'[q] # "idle" => pc[q] # "idle" /\ req'[q] = req[q]
    BY <1>1
  <2> QED BY <2>1 DEF MirrorInv, Alone
<1> QED BY <1>2, <1>3 DEF MirrorInv

LEMMA InsideAnswers ==
    ASSUME BaseInv, MirrorInv, NEW p \in Clients, Step(p), pc[p] \notin {"idle", "lock"},
           NEW l \in Places, Goto(p, l), UNCHANGED <<mu, req>>, detected' => dim' # 0, Good(p)'
    PROVE  MirrorInv'
<1>1. \A q \in Clients : q # p => pc'[q] = pc[q] /\ req'[q] = req[q]
  BY DEF Goto, BaseInv, Types
<1>2. mu # Free
  BY HolderAlone DEF BaseInv
<1>3. Settled'
  BY <1>2 DEF Settled
<1> QED BY <1>1, <1>3, HolderAnswers

(* Nothing the mirror depends on changes.                                   *)
Untouched == UNCHANGED <<rows, vectorOf, heap, cache, view, gob>>
LEMMA UntouchedKeeps ==
    ASSUME Untouched
    PROVE  /\ Clean' = Clean /\ OnDisk' = OnDisk
           /\ \A p \in Clients : Mine(p)' = Mine(p)
           /\ \A ix : Mirror(ix)' = Mirror(ix)
           /\ \A ix, ids : MirrorBut(ix, ids)' = MirrorBut(ix, ids)
<1>1. Live' = Live
  BY DEF Untouched, Live
<1>2. \A ids, dimension : Carrying(ids, dimension)' = Carrying(ids, dimension)
  BY DEF Untouched, Carrying
<1>3. \A ix : Mirror(ix)' = Mirror(ix)
  BY <1>1, <1>2 DEF Mirror
<1>4. \A ix, ids : MirrorBut(ix, ids)' = MirrorBut(ix, ids)
  BY <1>1, <1>2 DEF MirrorBut
<1>5. OnDisk' = OnDisk /\ \A p \in Clients : Mine(p)' = Mine(p)
  BY DEF Untouched, OnDisk, Mine
<1>6. Clean' = Clean
  BY <1>3, <1>5 DEF Untouched, Clean
<1> QED BY <1>3, <1>4, <1>5, <1>6

LEMMA LockMirrors ==
    ASSUME BaseInv, MirrorInv, NEW p \in Clients, Step(p), Lock(p)
    PROVE  MirrorInv'
<1>1. pc[p] = "lock" /\ mu = Free /\ mu' = p /\ p # Free /\ UNCHANGED <<req, dim, detected, embedded, intact>>
  BY ClientsAssumption DEF Lock, modelVars
<1>2. Untouched /\ rows' = rows /\ cache' = cache /\ view' = view
  BY DEF Lock, rowVars, indexVars, Untouched
<1>3. req[p].op \in AllOps /\ pc' = [pc EXCEPT ![p] = FirstStep[req[p].op]]
  BY <1>1, PlacesAre DEF Lock, Goto, BaseInv, Control, At
<1>4. /\ pc'[p] = FirstStep[req[p].op]
      /\ \A q \in Clients : q # p => pc'[q] = pc[q] /\ req'[q] = req[q]
  BY <1>1, <1>3 DEF BaseInv, Types
<1>5. Settled /\ Good(p) /\ OnDisk' = OnDisk /\ Clean' = Clean
  BY <1>2, UntouchedKeeps DEF MirrorInv
<1>6. Settled'
  BY <1>1, <1>5 DEF Settled
<1>7. \/ req[p].op = "upload" /\ pc'[p] = "embed"
      \/ req[p].op = "remove" /\ pc'[p] = "unlist"
      \/ req[p].op = "search" /\ pc'[p] = "ensure"
      \/ req[p].op = "rebuild" /\ pc'[p] = "scan"
  BY <1>3, <1>4 DEF FirstStep, AllOps
<1>8. ViewOK(p)'
  BY <1>1, <1>2, <1>5, <1>7 DEF Good, ViewOK, Writing, Writers
<1>9. RowOK(p)'
  BY <1>1, <1>2, <1>5, <1>7 DEF Good, RowOK
<1>10. DimOK(p)'
  BY <1>1, <1>5, <1>7 DEF DimOK, Settled
<1>11. intact' => Copies(p)'
  BY <1>1, <1>5, <1>7 DEF Copies, Settled, Writing
<1>12. Good(p)'
  BY <1>8, <1>9, <1>10, <1>11 DEF Good
<1> QED BY <1>1, <1>4, <1>6, <1>12, HolderAnswers

(* Steps that leave rows, indexes and file alone.                           *)
LEMMA QuietMirrors ==
    ASSUME BaseInv, MirrorInv, NEW p \in Clients, Step(p),
           \/ EnsureFinds(p) \/ EnsureBuilds(p) \/ BuildSkips(p)
           \/ ScanFails(p) \/ Scan(p) \/ RebuildStops(p) \/ Scanned(p) \/ CreateFails(p)
           \/ view[p] = 0 /\ (Update(p) \/ Unindex(p))
    PROVE  MirrorInv'
<1>0. At(p) /\ Good(p) /\ Settled /\ (req[p].op \in {"upload", "remove"} => req[p].doc \in Docs)
  BY DEF BaseInv, Control, At, MirrorInv
<1>1. Untouched /\ UNCHANGED <<mu, req, dim, detected, embedded>>
  BY DEF EnsureFinds, EnsureBuilds, BuildSkips, ScanFails, Scan, RebuildStops, Scanned, CreateFails,
         Update, Unindex, rowVars, indexVars, modelVars, Untouched
<1>2. PICK l \in Places : /\ Goto(p, l) /\ l \notin {"idle", "lock"} /\ pc[p] \notin {"idle", "lock"}
      /\ \/ pc[p] = "ensure" /\ view[p] # 0 /\ l = AfterEnsure(req[p].op) /\ intact' = intact
         \/ pc[p] = "ensure" /\ view[p] = 0 /\ ~OnDisk /\ l = "build" /\ intact' = intact
         \/ pc[p] = "build" /\ dim = 0 /\ l = AfterEnsure(req[p].op) /\ intact' = intact
         \/ pc[p] = "build" /\ l = AfterEnsure(req[p].op) /\ intact' = FALSE
         \/ pc[p] = "scan" /\ l = "answer" /\ intact' = intact
         \/ pc[p] = "scan" /\ dim # 0 /\ l = "reembed" /\ intact' = intact
         \/ pc[p] = "reembed" /\ l = "answer" /\ intact' = (intact /\ ~embedded)
         \/ pc[p] = "reembed" /\ l = "build" /\ intact' = intact
         \/ pc[p] = "reembed" /\ ~embedded /\ l = "answer" /\ intact' = intact
         \/ pc[p] \in Writing /\ l = AfterSave(p) /\ intact' = FALSE
         \/ pc[p] \in {"update", "unindex"} /\ view[p] = 0 /\ l = "answer" /\ intact' = intact
  <2>1. CASE EnsureFinds(p) \/ EnsureBuilds(p) \/ BuildSkips(p)
    BY <2>1, LabelsIn, PlacesAre DEF EnsureFinds, EnsureBuilds, BuildSkips, AfterEnsure
  <2>2. CASE ScanFails(p) \/ Scan(p) \/ RebuildStops(p) \/ Scanned(p)
    BY <2>2, PlacesAre DEF ScanFails, Scan, RebuildStops, Scanned, NeedsBuild
  <2>3. CASE CreateFails(p)
    BY <2>3, LabelsIn DEF CreateFails, Saving, Writing, AfterSave, AfterEnsure
  <2>4. CASE view[p] = 0 /\ (Update(p) \/ Unindex(p))
    BY <2>4, PlacesAre DEF Update, Unindex
  <2> QED BY <2>1, <2>2, <2>3, <2>4
<1>3. /\ OnDisk' = OnDisk /\ Clean' = Clean /\ Mine(p)' = Mine(p) /\ UNCHANGED <<rows, cache, view>>
      /\ \A ix, ids : MirrorBut(ix, ids)' = MirrorBut(ix, ids)
  BY <1>1, UntouchedKeeps DEF Untouched
<1>4. pc'[p] = l /\ req'[p] = req[p]
  BY <1>1, <1>2 DEF Goto, BaseInv, Types
<1>5. /\ pc[p] = "ensure" => req[p].op \in {"upload", "search"}
      /\ pc[p] = "build" => req[p].op \in {"upload", "search", "rebuild"}
      /\ pc[p] \in {"scan", "reembed"} => req[p].op = "rebuild"
      /\ pc[p] = "update" => req[p].op = "upload"
      /\ pc[p] = "unindex" => req[p].op = "remove"
      /\ pc[p] \in {"createBuilt", "writeBuilt"} => req[p].op \in {"upload", "search", "rebuild"}
  BY <1>0, PlacesAre DEF At
<1>6. ViewOK(p)'
  BY <1>0, <1>2, <1>3, <1>4, <1>5
     DEF Good, ViewOK, Writing, Writers, AfterEnsure, AfterSave, At, NeedsBuild
<1>7. RowOK(p)'
  BY <1>0, <1>2, <1>3, <1>4, <1>5 DEF Good, RowOK, AfterEnsure, AfterSave, Writing
<1>8. DimOK(p)'
  BY <1>0, <1>1, <1>2, <1>3, <1>4, <1>5 DEF Good, DimOK, Settled, AfterEnsure, AfterSave
<1>9. intact' => Copies(p)'
  <2>1. CASE l \in {"reembed", "build"}
    BY <1>0, <1>1, <1>2, <1>3, <1>4, <1>5, <2>1 DEF Good, Copies, DimOK, AfterEnsure, Writing
  <2>2. CASE pc[p] \in {"update", "unindex"}
    BY <1>0, <1>2, <1>3, <1>4, <1>5, <2>2 DEF Good, Copies, ViewOK, Writing, Writers, Clean
  <2>3. CASE pc[p] \in {"ensure", "build"} /\ l = AfterEnsure(req[p].op)
    <3>1. CASE req[p].op = "upload"
      BY <1>0, <1>2, <1>3, <1>4, <1>5, <2>3, <3>1 DEF Good, Copies, ViewOK, AfterEnsure, Writing
    <3>2. CASE req[p].op # "upload"
      BY <1>0, <1>1, <1>2, <1>3, <1>4, <1>5, <2>3, <3>2 DEF Good, Copies, DimOK, AfterEnsure, Writing
    <3> QED BY <3>1, <3>2
  <2>4. CASE pc[p] \in {"scan", "reembed"} /\ l = "answer"
    BY <1>0, <1>1, <1>2, <1>3, <1>4, <1>5, <2>4 DEF Good, Copies, Writing
  <2> QED BY <1>2, <2>1, <2>2, <2>3, <2>4
<1>10. Good(p)'
  BY <1>6, <1>7, <1>8, <1>9 DEF Good
<1>11. detected' => dim' # 0
  BY <1>0, <1>1 DEF Settled
<1> QED BY <1>1, <1>2, <1>10, <1>11, InsideAnswers

(* A document's rows come or go: the indexes still mirror the others.       *)
LEMMA OthersMirrored ==
    ASSUME BaseInv, NEW d \in Docs, rows' \ {d} = rows \ {d}, vectorOf' \in [Ids -> Nat],
           \A i \in Ids : i \notin ChunksOf[d] => vectorOf'[i] = vectorOf[i],
           NEW ix, Mirror(ix)
    PROVE  MirrorBut(ix, ChunksOf[d])'
<1>1. ASSUME NEW i, i \notin ChunksOf[d] PROVE i \in Carrying(Live, ix.dim)' <=> i \in Carrying(Live, ix.dim)
  <2>1. i \in Live' <=> i \in Live
    <3>1. \A e : e # d => (e \in rows' <=> e \in rows)
      OBVIOUS
    <3> QED BY <1>1, <3>1 DEF Live
  <2>2. i \in Live => i \in Ids
    BY DocsAssumption DEF Live, BaseInv, Types
  <2> QED BY <1>1, <2>1, <2>2 DEF Carrying
<1>2. Carrying(Live, ix.dim)' \ ChunksOf[d] = Carrying(Live, ix.dim) \ ChunksOf[d]
  BY <1>1
<1>3. AllIDs(ix) \ ChunksOf[d] = Carrying(Live, ix.dim) \ ChunksOf[d]
  BY DEF Mirror
<1> QED BY <1>2, <1>3 DEF MirrorBut

LEMMA RowWithout ==
    ASSUME BaseInv, NEW d \in Docs, d \notin rows, SetRow(d, 0), NEW ix, SoundIndex(ix), Mirror(ix)
    PROVE  Mirror(ix)'
<1>1. ix.dim # 0
  BY IndexParts DEF SoundIndex
<1>2. ASSUME NEW i \in Live PROVE i \notin ChunksOf[d] /\ i \in Ids
  <2>1. PICK e \in rows : i \in ChunksOf[e]
    BY DEF Live
  <2>2. e \in Docs /\ e # d
    BY DEF BaseInv, Types
  <2> QED BY <2>1, <2>2, DocsAssumption
<1>3. rows' = rows \cup {d} /\ \A i \in Ids : vectorOf'[i] = IF i \in ChunksOf[d] THEN 0 ELSE vectorOf[i]
  BY DEF SetRow
<1>4. ChunksOf[d] \subseteq Ids
  BY DocsAssumption
<1>5. Live' = Live \cup ChunksOf[d]
  BY <1>3 DEF Live
<1>6. Carrying(Live, ix.dim)' = Carrying(Live, ix.dim)
  BY <1>1, <1>2, <1>3, <1>4, <1>5 DEF Carrying
<1> QED BY <1>6 DEF Mirror

LEMMA RowMirrors ==
    ASSUME BaseInv, MirrorInv, NEW p \in Clients, Step(p), Embed(p) \/ EmbedFails(p) \/ Unlist(p)
    PROVE  MirrorInv'
<1>0. At(p) /\ Good(p) /\ Settled
  BY DEF BaseInv, Control, At, MirrorInv
<1>a. /\ pc[p] \in {"embed", "unlist"} /\ req[p].op \in {"upload", "remove"}
      /\ pc[p] = "embed" <=> req[p].op = "upload"
  BY <1>0, PlacesAre DEF Embed, EmbedFails, Unlist, At
<1>b. PICK d \in Docs : d = req[p].doc
  BY <1>0, <1>a DEF At
<1>1. /\ pc[p] \in {"embed", "unlist"} /\ req[p].op \in {"upload", "remove"} /\ d = req[p].doc
      /\ pc[p] = "embed" <=> req[p].op = "upload"
  BY <1>a, <1>b
<1>2. UNCHANGED <<mu, req, cache, view, heap, gob, intact, embedded>> /\ OnDisk' = OnDisk /\ Mine(p)' = Mine(p)
  BY DEF Embed, EmbedFails, Unlist, rowVars, indexVars, modelVars, OnDisk, Mine
<1>3. PICK l \in Places : /\ Goto(p, l) /\ l \notin {"idle", "lock"}
      /\ \/ pc[p] = "embed" /\ l = "ensure" /\ d \in rows'
         \/ pc[p] = "embed" /\ l = "answer" /\ SetRow(d, 0)
         \/ pc[p] = "unlist" /\ l = "unindex" /\ d \notin rows'
  BY <1>1, PlacesAre DEF Embed, EmbedFails, Unlist, SetRow
<1>4. pc'[p] = l /\ req'[p] = req[p]
  BY <1>2, <1>3 DEF Goto, BaseInv, Types
<1>5. rows' \ {d} = rows \ {d} /\ \A i \in Ids : i \notin ChunksOf[d] => vectorOf'[i] = vectorOf[i]
  BY <1>1 DEF Embed, EmbedFails, Unlist, SetRow
<1>6. vectorOf' \in [Ids -> Nat]
  BY StepTypes DEF BaseInv, RestTyped
<1>7. \A ix : Mirror(ix) => MirrorBut(ix, ChunksOf[d])'
  BY <1>5, <1>6, OthersMirrored
<1>8. detected' => dim' # 0
  BY <1>0, ModelsAssumption DEF Embed, EmbedFails, Unlist, Detect, modelVars, Settled, BaseInv, Types
<1>9. view[p] = cache /\ (view[p] = 0 => ~OnDisk)
  BY <1>0, <1>1 DEF Good, ViewOK, Writers
<1>10. ViewOK(p)'
  BY <1>1, <1>2, <1>3, <1>4, <1>9 DEF ViewOK, Writing, Writers
<1>11. RowOK(p)' /\ DimOK(p)'
  BY <1>1, <1>2, <1>3, <1>4 DEF RowOK, DimOK
<1>12. ASSUME intact' PROVE Copies(p)'
  <2>1. Clean
    BY <1>0, <1>1, <1>2, <1>12 DEF Good, Copies
  <2>2. CASE l = "answer"
    <3>1. d \notin rows /\ SetRow(d, 0)
      BY <1>0, <1>1, <1>3, <2>2 DEF Good, RowOK
    <3>2. (OnDisk => SoundIndex(gob)) /\ (cache # 0 => SoundIndex(heap[cache]))
      BY BoundsAssumption DEF BaseInv, FileOK, HeapOK, SoundHeap, Pointed, Types
    <3>3. \A ix : SoundIndex(ix) /\ Mirror(ix) => Mirror(ix)'
      BY <3>1, RowWithout
    <3>4. (OnDisk => Mirror(gob)') /\ (cache # 0 => Mirror(heap[cache])')
      <4>1. OnDisk => Mirror(gob)'
        BY <1>2, <2>1, <3>2, <3>3 DEF Clean, Mirror
      <4>2. cache # 0 => Mirror(heap[cache])'
        BY <1>2, <2>1, <3>2, <3>3 DEF Clean, Mirror
      <4> QED BY <4>1, <4>2
    <3>5. Clean'
      BY <1>2, <3>4 DEF Clean
    <3> QED BY <1>4, <2>2, <3>5 DEF Copies, Writing
  <2>3. CASE l # "answer"
    <3>1. view[p] # 0 => Mirror(Mine(p))
      BY <1>9, <2>1 DEF Clean, Mine
    <3>2. view[p] # 0 => MirrorBut(Mine(p), ChunksOf[d])'
      BY <1>2, <1>7, <3>1 DEF MirrorBut
    <3>3. (view[p] # 0 => MirrorBut(Mine(p), ChunksOf[req[p].doc]))'
      BY <1>1, <1>2, <1>4, <3>2
    <3> QED BY <1>1, <1>3, <1>4, <2>3, <3>3 DEF Copies, Writing
  <2> QED BY <2>2, <2>3
<1>13. Good(p)'
  BY <1>10, <1>11, <1>12 DEF Good
<1>14. pc[p] \notin {"idle", "lock"} /\ UNCHANGED <<mu, req>>
  BY <1>1, <1>2
<1> QED BY <1>3, <1>8, <1>13, <1>14, InsideAnswers

LEMMA RebuildMirrors ==
    ASSUME BaseInv, MirrorInv, NEW p \in Clients, Step(p), NEW d \in Docs,
           SkipDocument(p, d) \/ ReEmbed(p, d)
    PROVE  MirrorInv'
<1>0. At(p) /\ Good(p) /\ Settled
  BY DEF BaseInv, Control, At, MirrorInv
<1>1. /\ pc[p] = "reembed" /\ req[p].op = "rebuild" /\ UNCHANGED <<mu, req, pc, intact>>
      /\ UNCHANGED <<rows, heap, cache, view, gob>> /\ dim # 0
  BY <1>0, PlacesAre DEF SkipDocument, ReEmbed, rowVars, indexVars, At, Good, DimOK
<1>2. dim' # 0
  BY <1>1, ModelsAssumption DEF SkipDocument, ReEmbed, Detect, modelVars, BaseInv, Types
<1>3. (Untouched /\ embedded' = embedded) \/ embedded' = TRUE
  BY DEF SkipDocument, ReEmbed, rowVars, indexVars, Untouched
<1>4. Settled'
  BY <1>1, <1>2, HolderAlone DEF Settled, BaseInv
<1>5. ViewOK(p)' /\ RowOK(p)' /\ DimOK(p)'
  BY <1>1, <1>2 DEF ViewOK, RowOK, DimOK, Writing
<1>6. intact' => Copies(p)'
  BY <1>0, <1>1, <1>3, UntouchedKeeps DEF Good, Copies, Writing
<1>7. Good(p)'
  BY <1>5, <1>6 DEF Good
<1> QED BY <1>1, <1>4, <1>7, HolderAnswers

(* A step that moves pointers keeps what they point to.                     *)
LEMMA SetKeeps ==
    ASSUME NEW h, NEW c \in 0..MaxIndexes, NEW v \in [Clients -> 0..MaxIndexes], SetPointers(h, c, v)
    PROVE  /\ cache' = c /\ view' = v
           /\ c # 0 => heap'[c] = h[c]
           /\ \A q \in Clients : v[q] # 0 => heap'[v[q]] = h[v[q]]
<1>1. /\ cache' = c /\ view' = v
      /\ \A i \in 1..MaxIndexes :
            heap'[i] = IF i = c \/ \E p \in Clients : v[p] = i THEN h[i] ELSE Gone
  <2>1. cache' = c /\ view' = v /\ heap' = Collected(h, c, v)
    BY DEF SetPointers
  <2> QED BY <2>1 DEF Collected
<1>2. c # 0 => c \in 1..MaxIndexes
  BY BoundsAssumption
<1>3. \A q \in Clients : v[q] # 0 => v[q] \in 1..MaxIndexes
  BY BoundsAssumption
<1> QED BY <1>1, <1>2, <1>3

LEMMA SlotKeeps ==
    ASSUME BaseInv, HasSlot, NEW ix, SoundIndex(ix), NEW p \in Clients, NEW c \in {cache, 0, FreeSlot},
           SetPointers([heap EXCEPT ![FreeSlot] = ix], c, [view EXCEPT ![p] = FreeSlot])
    PROVE  /\ cache' = c /\ view' = [view EXCEPT ![p] = FreeSlot] /\ view'[p] = FreeSlot /\ FreeSlot # 0
           /\ c = FreeSlot => heap'[c] = ix
           /\ c = cache /\ cache # 0 => heap'[c] = heap[c]
           /\ heap'[FreeSlot] = ix
           /\ \A q \in Clients : q # p /\ view[q] # 0 => heap'[view[q]] = heap[view[q]] /\ view'[q] = view[q]
<1> DEFINE h == [heap EXCEPT ![FreeSlot] = ix]
<1> DEFINE v == [view EXCEPT ![p] = FreeSlot]
<1>1. /\ FreeSlot \in 1..MaxIndexes /\ h[FreeSlot] = ix
      /\ \A i \in 1..MaxIndexes : heap[i] # Gone => h[i] = heap[i]
  BY NewInSlot DEF BaseInv
<1>2. c \in 0..MaxIndexes /\ v \in [Clients -> 0..MaxIndexes] /\ FreeSlot # 0
      /\ \A q \in Clients : v[q] = IF q = p THEN FreeSlot ELSE view[q]
  BY <1>1, BoundsAssumption DEF BaseInv, Types
<1>3. SetPointers(h, c, v) /\ v = [view EXCEPT ![p] = FreeSlot]
  OBVIOUS
<1> HIDE DEF h, v
<1>4. /\ cache' = c /\ view' = v
      /\ c # 0 => heap'[c] = h[c]
      /\ \A q \in Clients : v[q] # 0 => heap'[v[q]] = h[v[q]]
  <2>1. c \in 0..MaxIndexes /\ v \in [Clients -> 0..MaxIndexes] /\ SetPointers(h, c, v)
    BY <1>2, <1>3
  <2> QED BY <2>1, SetKeeps
<1>5. cache # 0 => cache \in 1..MaxIndexes /\ heap[cache] # Gone
  BY BoundsAssumption DEF BaseInv, Types, HeapOK, Pointed
<1>6. ASSUME NEW q \in Clients, view[q] # 0 PROVE view[q] \in 1..MaxIndexes /\ heap[view[q]] # Gone
  <2>1. view[q] \in 0..MaxIndexes
    BY DEF BaseInv, Types
  <2> QED BY <1>6, <2>1, BoundsAssumption DEF BaseInv, HeapOK, Pointed
<1> QED BY <1>1, <1>2, <1>3, <1>4, <1>5, <1>6

(* What carries which vectors has not changed.                              *)
LEMMA SameRows ==
    ASSUME UNCHANGED <<rows, vectorOf>>
    PROVE  /\ Live' = Live /\ \A ix : Mirror(ix)' = Mirror(ix)
           /\ \A ix, ids : MirrorBut(ix, ids)' = MirrorBut(ix, ids)
<1>1. Live' = Live
  BY DEF Live
<1>2. \A ids, dimension : Carrying(ids, dimension)' = Carrying(ids, dimension)
  BY DEF Carrying
<1>3. \A ix : Mirror(ix)' = Mirror(ix)
  BY <1>1, <1>2 DEF Mirror
<1>4. \A ix, ids : MirrorBut(ix, ids)' = MirrorBut(ix, ids)
  BY <1>1, <1>2 DEF MirrorBut
<1> QED BY <1>1, <1>3, <1>4

LEMMA WithKBKeeps ==
    ASSUME BaseInv, NEW p \in Clients, view[p] = 0, WithKB(p), UNCHANGED <<rows, vectorOf, gob>>
    PROVE  /\ Clean => Clean'
           /\ view'[p] = cache' /\ (cache' = 0 => ~OnDisk)
           /\ cache # 0 \/ ~OnDisk => cache' = cache
           /\ \A q \in Clients : q # p => view'[q] = view[q]
           /\ \A q \in Clients : q # p /\ view[q] # 0 => heap'[view[q]] = heap[view[q]]
<1>0. OnDisk' = OnDisk /\ \A ix : Mirror(ix)' = Mirror(ix)
  BY SameRows DEF OnDisk
<1>1. CASE cache # 0
  <2> DEFINE v == [view EXCEPT ![p] = cache]
  <2>1. SetPointers(heap, cache, v) /\ v \in [Clients -> 0..MaxIndexes] /\ cache \in 0..MaxIndexes
        /\ \A q \in Clients : v[q] = IF q = p THEN cache ELSE view[q]
    BY <1>1 DEF WithKB, BaseInv, Types
  <2> HIDE DEF v
  <2>2. /\ cache' = cache /\ view' = v /\ heap'[cache] = heap[cache]
        /\ \A q \in Clients : v[q] # 0 => heap'[v[q]] = heap[v[q]]
    BY <1>1, <2>1, SetKeeps
  <2>3. Clean => Clean'
    BY <1>0, <1>1, <2>2 DEF Clean, Mirror
  <2> QED BY <1>1, <2>1, <2>2, <2>3
<1>2. CASE cache = 0 /\ OnDisk
  <2>1. HasSlot /\ SetPointers([heap EXCEPT ![FreeSlot] = gob], FreeSlot, [view EXCEPT ![p] = FreeSlot])
    BY <1>2 DEF WithKB
  <2>2. SoundIndex(gob)
    BY <1>2 DEF BaseInv, FileOK
  <2>3. /\ cache' = FreeSlot /\ view' = [view EXCEPT ![p] = FreeSlot] /\ view'[p] = FreeSlot /\ FreeSlot # 0
        /\ heap'[FreeSlot] = gob
        /\ \A q \in Clients : q # p /\ view[q] # 0 => heap'[view[q]] = heap[view[q]] /\ view'[q] = view[q]
    BY <2>1, <2>2, SlotKeeps
  <2>4. \A q \in Clients : q # p => view'[q] = view[q]
    BY <2>3 DEF BaseInv, Types
  <2>5. Clean => Clean'
    BY <1>0, <1>2, <2>3 DEF Clean, Mirror
  <2> QED BY <1>2, <2>3, <2>4, <2>5
<1>3. CASE cache = 0 /\ ~OnDisk
  <2> DEFINE v == [view EXCEPT ![p] = 0]
  <2>1. SetPointers(heap, 0, v) /\ v \in [Clients -> 0..MaxIndexes] /\ 0 \in 0..MaxIndexes
        /\ \A q \in Clients : v[q] = IF q = p THEN 0 ELSE view[q]
    BY <1>3, BoundsAssumption DEF WithKB, BaseInv, Types
  <2> HIDE DEF v
  <2>2. /\ cache' = 0 /\ view' = v
        /\ \A q \in Clients : v[q] # 0 => heap'[v[q]] = heap[v[q]]
    <3> DEFINE c == 0
    <3>1. c \in 0..MaxIndexes /\ v \in [Clients -> 0..MaxIndexes] /\ SetPointers(heap, c, v) /\ c = 0
      BY <2>1
    <3> HIDE DEF c
    <3>2. /\ cache' = c /\ view' = v /\ (c # 0 => heap'[c] = heap[c])
          /\ \A q \in Clients : v[q] # 0 => heap'[v[q]] = heap[v[q]]
      BY <3>1, SetKeeps
    <3> QED BY <3>1, <3>2
  <2>3. Clean'
    BY <1>0, <1>3, <2>2 DEF Clean
  <2> QED BY <1>3, <2>1, <2>2, <2>3
<1> QED BY <1>1, <1>2, <1>3

LEMMA BeginMirrors ==
    ASSUME BaseInv, MirrorInv, NEW p \in Clients, NEW op \in AllOps, NEW d, Begin(p, op, d),
           op = "upload" => d \notin rows
    PROVE  MirrorInv'
<1>0. \A q \in Clients : At(q) /\ Good(q)
  BY DEF BaseInv, Control, MirrorInv
<1>1. /\ pc[p] = "idle" /\ view[p] = 0 /\ WithKB(p)
      /\ UNCHANGED <<rows, vectorOf, gob, dim, detected, mu, embedded, intact>> /\ OnDisk' = OnDisk
  BY <1>0 DEF Begin, At, rowVars, modelVars, OnDisk
<1>2. /\ pc'[p] = "lock" /\ req'[p] = [op |-> op, doc |-> d]
      /\ \A q \in Clients : q # p => pc'[q] = pc[q] /\ req'[q] = req[q]
  BY DEF Begin, Goto, BaseInv, Types
<1>3. /\ Clean => Clean'
      /\ view'[p] = cache' /\ (cache' = 0 => ~OnDisk)
      /\ cache # 0 \/ ~OnDisk => cache' = cache
      /\ \A q \in Clients : q # p => view'[q] = view[q]
      /\ \A q \in Clients : q # p /\ view[q] # 0 => heap'[view[q]] = heap[view[q]]
  BY <1>1, WithKBKeeps
<1>4. ASSUME NEW q \in Clients, q # p, pc[q] # "idle" PROVE op = "search" /\ req[q].op = "search"
  <2>1. {op, req[q].op} \in Overlap
    BY <1>4 DEF Begin, Busy
  <2>2. {op, req[q].op} = {"search"}
    BY <2>1 DEF MirrorInv, WritersAlone
  <2> QED BY <2>2
<1>5. Alone'
  BY <1>2, <1>4 DEF MirrorInv, Alone
<1>6. Settled'
  BY <1>1, <1>3 DEF MirrorInv, Settled
<1>7. Good(p)'
  BY <1>1, <1>2, <1>3 DEF Good, ViewOK, RowOK, DimOK, Copies, Writing, Writers
<1>8. ASSUME NEW q \in Clients, q # p PROVE Good(q)'
  <2>1. CASE pc[q] = "idle"
    BY <1>2, <1>8, <2>1, StandingByStaysGood DEF StandsBy
  <2>2. CASE pc[q] # "idle"
    <3>1. req'[q].op = "search" /\ pc'[q] = pc[q] /\ view'[q] = view[q] /\ req[q].op = "search"
      BY <1>2, <1>3, <1>4, <1>8, <2>2
    <3>2. pc[q] \notin {"embed", "update", "create", "write", "unlist", "unindex", "scan", "reembed"}
      BY <1>0, <3>1, PlacesAre DEF At
    <3>3. ViewOK(q)'
      BY <1>0, <1>1, <1>3, <3>1, <3>2 DEF Good, ViewOK, Writing, Writers
    <3>4. RowOK(q)' /\ DimOK(q)'
      BY <3>1, <3>2 DEF RowOK, DimOK
    <3>5. ASSUME intact' PROVE Copies(q)'
      <4>1. Copies(q)
        BY <1>0, <1>1, <3>5 DEF Good
      <4>2. ASSUME pc[q] \in Writing PROVE Mirror(Mine(q))'
        <5>1. Mirror(Mine(q)) /\ view[q] # 0
          BY <1>0, <4>1, <4>2 DEF Copies, At
        <5>2. heap'[view'[q]] = heap[view[q]]
          BY <1>3, <1>8, <3>1, <5>1
        <5> QED BY <1>1, <5>1, <5>2, SameRows DEF Mine, Mirror, Carrying
      <4> QED BY <1>3, <3>1, <3>2, <4>1, <4>2 DEF Copies
    <3> QED BY <3>3, <3>4, <3>5 DEF Good
  <2> QED BY <2>1, <2>2
<1>9. WritersAlone
  BY DEF MirrorInv
<1> QED BY <1>5, <1>6, <1>7, <1>8, <1>9 DEF MirrorInv

LEMMA LoadMirrors ==
    ASSUME BaseInv, MirrorInv, NEW p \in Clients, Step(p), EnsureLoads(p)
    PROVE  MirrorInv'
<1>0. At(p) /\ Good(p) /\ Settled
  BY DEF BaseInv, Control, MirrorInv
<1>1. /\ pc[p] = "ensure" /\ view[p] = 0 /\ OnDisk
      /\ UNCHANGED <<rows, vectorOf, gob, dim, detected, mu, req, embedded, intact>> /\ OnDisk' = OnDisk
  BY DEF EnsureLoads, rowVars, modelVars, OnDisk
<1>2. req[p].op = "search"
  BY <1>0, <1>1, PlacesAre DEF At, Good, ViewOK, Writers
<1>3. Goto(p, "answer") /\ pc'[p] = "answer" /\ req'[p] = req[p]
  BY <1>1, <1>2 DEF EnsureLoads, AfterEnsure, Goto, BaseInv, Types
<1>4. /\ HasSlot /\ SoundIndex(gob)
      /\ SetPointers([heap EXCEPT ![FreeSlot] = gob], cache, [view EXCEPT ![p] = FreeSlot])
  BY <1>1 DEF EnsureLoads, BaseInv, FileOK
<1>5. cache' = cache /\ (cache # 0 => heap'[cache] = heap[cache])
  BY <1>4, SlotKeeps
<1>6. intact' => Clean'
  <2>1. intact => Clean
    BY <1>0, <1>1, <1>2 DEF Good, Copies
  <2> QED BY <1>1, <1>5, <2>1, SameRows DEF Clean, Mirror
<1>7. Good(p)'
  BY <1>2, <1>3, <1>6 DEF Good, ViewOK, RowOK, DimOK, Copies, Writing, Writers
<1>8. detected' => dim' # 0
  BY <1>0, <1>1 DEF Settled
<1>9. pc[p] \notin {"idle", "lock"} /\ UNCHANGED <<mu, req>> /\ "answer" \in Places /\ Goto(p, "answer")
  BY <1>1, <1>3, PlacesAre
<1> QED BY <1>7, <1>8, <1>9, InsideAnswers

LEMMA BuildMirrors ==
    ASSUME BaseInv, MirrorInv, NEW p \in Clients, Step(p), Build(p)
    PROVE  MirrorInv'
<1>0. At(p) /\ Good(p) /\ Settled
  BY DEF BaseInv, Control, MirrorInv
<1>1. /\ pc[p] = "build" /\ dim # 0 /\ HasSlot
      /\ UNCHANGED <<rows, vectorOf, gob, dim, detected, mu, req, embedded>> /\ OnDisk' = OnDisk
  BY DEF Build, rowVars, modelVars, OnDisk
<1>2. Goto(p, "createBuilt") /\ pc'[p] = "createBuilt" /\ req'[p] = req[p]
  BY <1>1 DEF Build, Goto, BaseInv, Types
<1>a. PICK docs \in SUBSET rows :
         /\ intact' = (docs = rows)
         /\ \E ix \in Built(docs) :
               SetPointers([heap EXCEPT ![FreeSlot] = ix], CacheAfterBuild(FreeSlot),
                           [view EXCEPT ![p] = FreeSlot])
  BY DEF Build
<1>3. PICK ix \in Built(docs) : SetPointers([heap EXCEPT ![FreeSlot] = ix], CacheAfterBuild(FreeSlot),
                                            [view EXCEPT ![p] = FreeSlot])
  BY <1>a
<1>4. SoundIndex(ix) /\ AllIDs(ix) = WithVector(docs) /\ ix.dim = dim
  BY <1>1, BuiltIs DEF SoundSet, BaseInv
<1>5. intact' => Mirror(ix)
  BY <1>a, <1>4 DEF Mirror, Carrying, Live, WithVector
<1>6. CacheAfterBuild(FreeSlot) \in {cache, 0, FreeSlot} /\ CacheAfterBuild(FreeSlot) \in {0, FreeSlot}
  BY DEF CacheAfterBuild
<1>7. cache' \in {0, view'[p]} /\ heap'[view'[p]] = ix
  BY <1>1, <1>3, <1>4, <1>6, SlotKeeps
<1>8. intact' => Mirror(Mine(p))'
  BY <1>1, <1>5, <1>7, SameRows DEF Mine, Mirror
<1>9. req[p].op \in {"upload", "search", "rebuild"}
  BY <1>0, <1>1, PlacesAre DEF At
<1>10. ViewOK(p)'
  BY <1>0, <1>1, <1>2, <1>7 DEF Good, ViewOK, Writing
<1>11. RowOK(p)' /\ DimOK(p)'
  BY <1>0, <1>1, <1>2 DEF Good, RowOK, DimOK
<1>12. intact' => Copies(p)'
  BY <1>2, <1>8 DEF Copies, Writing
<1>13. Good(p)'
  BY <1>10, <1>11, <1>12 DEF Good
<1>14. detected' => dim' # 0
  BY <1>1
<1>15. pc[p] \notin {"idle", "lock"} /\ UNCHANGED <<mu, req>> /\ "createBuilt" \in Places
       /\ Goto(p, "createBuilt")
  BY <1>1, <1>2, PlacesAre
<1> QED BY <1>13, <1>14, <1>15, InsideAnswers

LEMMA UpdateMirrors ==
    ASSUME BaseInv, MirrorInv, NEW p \in Clients, Step(p), view[p] # 0, Update(p) \/ Unindex(p)
    PROVE  MirrorInv'
<1>0. At(p) /\ Good(p) /\ Settled
  BY DEF BaseInv, Control, MirrorInv
<1>1. /\ \/ pc[p] = "update" /\ req[p].op = "upload" /\ Update(p)
         \/ pc[p] = "unindex" /\ req[p].op = "remove" /\ Unindex(p)
      /\ UNCHANGED <<rows, vectorOf, gob, dim, detected, mu, req, cache, view, embedded, intact>>
      /\ OnDisk' = OnDisk
  <2>1. CASE Update(p)
    <3>1. pc[p] = "update" /\ UNCHANGED <<rows, vectorOf, gob, dim, detected, mu, req, cache, view, embedded, intact>>
      BY <2>1 DEF Update, rowVars, modelVars
    <3>2. req[p].op = "upload"
      BY <1>0, <3>1, PlacesAre DEF At
    <3> QED BY <2>1, <3>1, <3>2 DEF OnDisk
  <2>2. CASE Unindex(p)
    <3>1. pc[p] = "unindex" /\ UNCHANGED <<rows, vectorOf, gob, dim, detected, mu, req, cache, view, embedded, intact>>
      BY <2>2 DEF Unindex, rowVars, modelVars
    <3>2. req[p].op = "remove"
      BY <1>0, <3>1, PlacesAre DEF At
    <3> QED BY <2>2, <3>1, <3>2 DEF OnDisk
  <2> QED BY <2>1, <2>2
<1>2. PICK d \in Docs : d = req[p].doc
  BY <1>0, <1>1 DEF At
<1>3. Goto(p, "create") /\ pc'[p] = "create" /\ req'[p] = req[p] /\ view'[p] = view[p]
  BY <1>1 DEF Update, Unindex, Goto, BaseInv, Types
<1> DEFINE A == AllIDs(Mine(p))
<1>4. PICK ix : /\ heap' = [heap EXCEPT ![view[p]] = ix] /\ ix.dim = Mine(p).dim
                /\ \/ pc[p] = "update"
                      /\ AllIDs(ix) = (A \ ChunksOf[d]) \cup Carrying(ChunksOf[d], Mine(p).dim)
                   \/ pc[p] = "unindex" /\ AllIDs(ix) = A \ ChunksOf[d]
  <2>1. CASE pc[p] = "update"
    <3>1. PICK ix \in AddAll(DropAll({Mine(p)}, ChunksOf[d]), ChunksOf[d], vectorOf) :
             heap' = [heap EXCEPT ![view[p]] = ix]
      BY <1>1, <1>2, <2>1 DEF Update
    <3>2. ix.dim = Mine(p).dim
          /\ AllIDs(ix) = (A \ ChunksOf[d]) \cup Carrying(ChunksOf[d], Mine(p).dim)
      BY <3>1, UpdatedIs DEF SoundSet, BaseInv
    <3> QED BY <2>1, <3>1, <3>2
  <2>2. CASE pc[p] = "unindex"
    <3>1. PICK ix \in Unindexed(p) : heap' = [heap EXCEPT ![view[p]] = ix]
      BY <1>1, <2>2 DEF Unindex
    <3>2. ix.dim = Mine(p).dim /\ AllIDs(ix) = A \ ChunksOf[d]
      BY <1>2, <3>1, UnindexedIs DEF SoundSet, BaseInv
    <3> QED BY <2>2, <3>1, <3>2
  <2> QED BY <1>1, <2>1, <2>2
<1>5. Mine(p)' = ix
  <2>1. view[p] \in 1..MaxIndexes
    <3>1. view[p] \in 0..MaxIndexes
      BY DEF BaseInv, Types
    <3> QED BY <3>1, BoundsAssumption
  <2> QED BY <1>1, <1>4, <2>1 DEF Mine, BaseInv, Types
<1>6. ASSUME intact' PROVE Mirror(Mine(p))'
  <2>1. A \ ChunksOf[d] = Carrying(Live, Mine(p).dim) \ ChunksOf[d]
    BY <1>0, <1>1, <1>2, <1>6 DEF Good, Copies, MirrorBut
  <2>2. AllIDs(ix) = Carrying(Live, ix.dim)
    <3>1. CASE pc[p] = "update"
      <4>1. d \in rows
        BY <1>0, <1>1, <1>2, <3>1 DEF Good, RowOK
      <4>2. ChunksOf[d] \subseteq Live
        BY <4>1 DEF Live
      <4> HIDE DEF A
      <4> QED BY <1>4, <2>1, <3>1, <4>2 DEF Carrying
    <3>2. CASE pc[p] = "unindex"
      <4>1. d \notin rows
        BY <1>0, <1>2, <3>2 DEF Good, RowOK
      <4>2. ASSUME NEW i \in Live PROVE i \notin ChunksOf[d]
        <5>1. PICK e \in rows : i \in ChunksOf[e]
          BY DEF Live
        <5>2. e \in Docs /\ e # d
          BY <4>1 DEF BaseInv, Types
        <5> QED BY <5>1, <5>2, DocsAssumption
      <4> HIDE DEF A
      <4> QED BY <1>4, <2>1, <3>2, <4>2 DEF Carrying
    <3> QED BY <1>4, <3>1, <3>2
  <2>3. Mirror(ix)
    BY <2>2 DEF Mirror
  <2> QED BY <1>1, <1>5, <2>3, SameRows DEF Mirror
<1>7. cache' \in {0, view'[p]}
  <2>1. CASE pc[p] = "update"
    BY <1>0, <1>1, <2>1 DEF Good, ViewOK
  <2>2. CASE pc[p] = "unindex"
    BY <1>0, <1>1, <2>2 DEF Good, ViewOK, Writers
  <2> QED BY <1>1, <2>1, <2>2
<1>8. ViewOK(p)' /\ RowOK(p)' /\ DimOK(p)'
  BY <1>1, <1>3, <1>7 DEF ViewOK, RowOK, DimOK, Writing, Writers
<1>9. intact' => Copies(p)'
  BY <1>3, <1>6 DEF Copies, Writing
<1>10. Good(p)'
  BY <1>8, <1>9 DEF Good
<1>11. detected' => dim' # 0
  BY <1>0, <1>1 DEF Settled
<1>12. pc[p] \notin {"idle", "lock"} /\ UNCHANGED <<mu, req>> /\ "create" \in Places /\ Goto(p, "create")
  BY <1>1, <1>3, PlacesAre
<1> QED BY <1>10, <1>11, <1>12, InsideAnswers

LEMMA SaveMirrors ==
    ASSUME BaseInv, MirrorInv, NEW p \in Clients, Step(p), Create(p) \/ Write(p)
    PROVE  MirrorInv'
<1>0. At(p) /\ Good(p) /\ Settled
  BY DEF BaseInv, Control, MirrorInv
<1>1. /\ pc[p] \in Writing /\ view[p] # 0
      /\ UNCHANGED <<rows, vectorOf, heap, dim, detected, mu, req, cache, view, embedded, intact>>
      /\ Mine(p)' = Mine(p)
  BY <1>0 DEF Create, Write, Saving, Writing, At, rowVars, indexVars, modelVars, Mine
<1>2. PICK l \in Places : /\ Goto(p, l) /\ l \notin {"idle", "lock"}
      /\ \/ pc[p] = "create" /\ l = "write" /\ gob' = Torn
         \/ pc[p] = "createBuilt" /\ l = "writeBuilt" /\ gob' = Torn
         \/ pc[p] = "write" /\ l = "answer" /\ gob' = Mine(p)
         \/ pc[p] = "writeBuilt" /\ req[p].op = "upload" /\ l = "update" /\ gob' = Mine(p)
         \/ pc[p] = "writeBuilt" /\ req[p].op # "upload" /\ l = "answer" /\ gob' = Mine(p)
  <2>1. CASE Create(p)
    BY <2>1, PlacesAre DEF Create, Saving
  <2>2. CASE Write(p)
    BY <2>2, PlacesAre DEF Write, AfterSave, AfterEnsure
  <2> QED BY <2>1, <2>2
<1>3. pc'[p] = l /\ req'[p] = req[p]
  BY <1>1, <1>2 DEF Goto, BaseInv, Types
<1>4. pc[p] \in {"createBuilt", "writeBuilt"} => req[p].op \in {"upload", "search", "rebuild"}
  BY <1>0, PlacesAre DEF At
<1>5. cache \in {0, view[p]}
  BY <1>0, <1>1 DEF Good, ViewOK
<1>6. gob' = Torn => ~OnDisk'
  BY DEF OnDisk
<1>7. ViewOK(p)'
  BY <1>1, <1>2, <1>3, <1>4, <1>5, <1>6 DEF ViewOK, Writing, Writers
<1>8. RowOK(p)' /\ DimOK(p)'
  BY <1>0, <1>1, <1>2, <1>3 DEF Good, RowOK, DimOK
<1>9. ASSUME intact' PROVE Copies(p)'
  <2>1. Mirror(Mine(p)) /\ Mirror(Mine(p))'
    <3>1. Mirror(Mine(p))
      BY <1>0, <1>1, <1>9 DEF Good, Copies
    <3> QED BY <1>1, <3>1, SameRows DEF Mirror
  <2>2. gob' = Mine(p) => Clean'
    BY <1>1, <1>5, <2>1 DEF Clean, Mine, Mirror
  <2>3. MirrorBut(Mine(p), ChunksOf[req[p].doc])'
    BY <2>1 DEF Mirror, MirrorBut
  <2> QED BY <1>1, <1>2, <1>3, <2>1, <2>2, <2>3 DEF Copies, Writing
<1>10. Good(p)'
  BY <1>7, <1>8, <1>9 DEF Good
<1>11. detected' => dim' # 0
  BY <1>0, <1>1 DEF Settled
<1>12. pc[p] \notin {"idle", "lock"} /\ UNCHANGED <<mu, req>>
  BY <1>1 DEF Writing
<1> QED BY <1>2, <1>10, <1>11, <1>12, InsideAnswers

LEMMA ReturnMirrors ==
    ASSUME BaseInv, MirrorInv, NEW p \in Clients, Step(p), Return(p)
    PROVE  MirrorInv'
<1>0. At(p) /\ Good(p) /\ Settled
  BY DEF BaseInv, Control, MirrorInv
<1>1. /\ pc[p] = "answer" /\ mu' = Free /\ embedded' = FALSE
      /\ UNCHANGED <<rows, vectorOf, gob, dim, detected, intact>> /\ OnDisk' = OnDisk
  BY DEF Return, Answer, rowVars, modelVars, OnDisk
<1>2. /\ pc'[p] = "idle"
      /\ \A q \in Clients : q # p => pc'[q] = pc[q] /\ req'[q] = req[q]
      /\ req'[p] = NoRequest
  BY DEF Return, Answer, Goto, BaseInv, Types
<1>3. cache' = cache /\ (cache # 0 => heap'[cache] = heap[cache])
  <2> DEFINE v == [view EXCEPT ![p] = 0]
  <2>1. SetPointers(heap, cache, v) /\ v \in [Clients -> 0..MaxIndexes] /\ cache \in 0..MaxIndexes
    BY BoundsAssumption DEF Return, BaseInv, Types
  <2> HIDE DEF v
  <2> QED BY <2>1, SetKeeps
<1>4. intact' => Clean'
  <2>1. intact => Clean
    BY <1>0, <1>1 DEF Good, Copies
  <2> QED BY <1>1, <1>3, <2>1, SameRows DEF Clean, Mirror
<1>5. Settled'
  BY <1>0, <1>1, <1>4 DEF Settled
<1>6. Good(p)'
  BY <1>2 DEF Good, ViewOK, RowOK, DimOK, Copies, Writing, NoRequest
<1> QED BY <1>2, <1>5, <1>6, HolderAnswers

LEMMA RestMirrors ==
    ASSUME BaseInv, MirrorInv, SwitchModel \/ Restart \/ CleanVectorIndex \/ UNCHANGED vars
    PROVE  MirrorInv'
<1>0. WritersAlone /\ Alone /\ Settled /\ \A p \in Clients : Good(p)
  BY DEF MirrorInv
<1>1. ASSUME Busy = {}, UNCHANGED taskVars PROVE Alone' /\ (\A p \in Clients : Good(p)') /\ mu = Free
  <2>1. \A p \in Clients : pc[p] = "idle" /\ pc'[p] = pc[p] /\ req'[p] = req[p]
    BY <1>1 DEF Busy, taskVars
  <2>2. mu = Free
    BY <2>1 DEF BaseInv, Control, At, Types
  <2> QED BY <2>1, <2>2, StandingByStaysGood DEF Alone, StandsBy
<1>2. CASE SwitchModel
  <2>1. /\ Alone' /\ (\A p \in Clients : Good(p)') /\ mu = Free
        /\ mu' = mu /\ embedded' = embedded /\ intact' = intact /\ detected' = FALSE /\ Untouched
    BY <1>1, <1>2 DEF SwitchModel, taskVars, rowVars, indexVars, Untouched
  <2>2. Settled'
    BY <1>0, <2>1, UntouchedKeeps DEF Settled
  <2> QED BY <1>0, <2>1, <2>2 DEF MirrorInv
<1>3. CASE CleanVectorIndex
  <2>1. /\ Alone' /\ (\A p \in Clients : Good(p)') /\ mu = Free /\ OnDisk
        /\ UNCHANGED <<mu, embedded, intact, dim, detected>>
        /\ AllIDs(gob) \ Live # {}
    BY <1>1, <1>3 DEF CleanVectorIndex, taskVars, modelVars, Live
  <2>2. ~intact
    BY <1>0, <2>1 DEF Settled, Clean, Mirror, Carrying
  <2>3. Settled'
    BY <1>0, <2>1, <2>2 DEF Settled
  <2> QED BY <1>0, <2>1, <2>3 DEF MirrorInv
<1>4. CASE Restart
  <2>1. /\ pc' = [p \in Clients |-> "idle"] /\ req' = [p \in Clients |-> NoRequest]
        /\ cache' = 0 /\ UNCHANGED <<rows, vectorOf, gob>> /\ detected' = FALSE /\ embedded' = FALSE
        /\ intact' = (intact /\ mu = Free) /\ OnDisk' = OnDisk
    BY <1>4 DEF Restart, SetPointers, rowVars, OnDisk
  <2>2. \A p \in Clients : Good(p)'
    BY <2>1 DEF Good, ViewOK, RowOK, DimOK, Copies, Writing, NoRequest
  <2>3. intact' => Clean'
    <3>1. intact' => Clean
      BY <1>0, <2>1 DEF Settled
    <3> QED BY <2>1, <3>1, SameRows DEF Clean, Mirror
  <2>4. Settled' /\ Alone'
    BY <2>1, <2>3 DEF Settled, Alone
  <2> QED BY <1>0, <2>2, <2>4 DEF MirrorInv
<1>5. CASE UNCHANGED vars
  <2>1. Untouched /\ UNCHANGED <<rows, view, cache, pc, req, mu, embedded, intact, dim, detected>>
    BY <1>5 DEF vars, rowVars, indexVars, modelVars, taskVars, Untouched
  <2>2. Settled' /\ Alone'
    BY <1>0, <2>1, UntouchedKeeps DEF Settled, Alone
  <2>3. ASSUME NEW p \in Clients PROVE Good(p)'
    <3>1. Good(p)
      BY <1>0
    <3>2. ViewOK(p)' /\ RowOK(p)' /\ DimOK(p)'
      BY <2>1, <3>1, UntouchedKeeps DEF Good, ViewOK, RowOK, DimOK
    <3>3. intact' => Copies(p)'
      BY <2>1, <3>1, UntouchedKeeps DEF Good, Copies
    <3> QED BY <3>2, <3>3 DEF Good
  <2> QED BY <1>0, <2>2, <2>3 DEF MirrorInv
<1> QED BY <1>2, <1>3, <1>4, <1>5

LEMMA MirrorStep == BaseInv /\ MirrorInv /\ [Next]_vars => MirrorInv'
<1> SUFFICES ASSUME BaseInv, MirrorInv, [Next]_vars PROVE MirrorInv'
  OBVIOUS
<1>1. ASSUME NEW p \in Clients, NEW d \in Docs, BeginUpload(p, d) \/ BeginRemove(p, d) PROVE MirrorInv'
  BY <1>1, BeginMirrors DEF BeginUpload, BeginRemove, AllOps
<1>2. ASSUME NEW p \in Clients, BeginSearch(p) \/ BeginRebuild(p) PROVE MirrorInv'
  BY <1>2, BeginMirrors DEF BeginSearch, BeginRebuild, AllOps
<1>3. ASSUME NEW p \in Clients, Step(p) PROVE MirrorInv'
  <2>1. CASE Lock(p) \/ Return(p)
    BY <1>3, <2>1, LockMirrors, ReturnMirrors
  <2>2. CASE Embed(p) \/ EmbedFails(p) \/ Unlist(p)
    BY <1>3, <2>2, RowMirrors
  <2>3. CASE EnsureLoads(p) \/ Build(p) \/ Create(p) \/ Write(p)
    BY <1>3, <2>3, LoadMirrors, BuildMirrors, SaveMirrors
  <2>4. CASE EnsureFinds(p) \/ EnsureBuilds(p) \/ BuildSkips(p) \/ ScanFails(p) \/ Scan(p)
             \/ RebuildStops(p) \/ Scanned(p) \/ CreateFails(p)
    BY <1>3, <2>4, QuietMirrors
  <2>5. CASE Update(p) \/ Unindex(p)
    BY <1>3, <2>5, QuietMirrors, UpdateMirrors
  <2>6. ASSUME NEW d \in Docs, SkipDocument(p, d) \/ ReEmbed(p, d) PROVE MirrorInv'
    BY <1>3, <2>6, RebuildMirrors
  <2> QED BY <1>3, <2>1, <2>2, <2>3, <2>4, <2>5, <2>6 DEF Step
<1> QED BY <1>1, <1>2, <1>3, RestMirrors DEF Next

LEMMA MirrorInitially == Init /\ WritersAlone => MirrorInv
  BY DEF Init, MirrorInv, Alone, Settled, Clean, Good, ViewOK, RowOK, DimOK, Copies, Writing, OnDisk,
         NoRequest

(* As long as no two requests overlap of which one writes (searches may     *)
(* overlap each other), and until a save fails, a rebuild is cut short or   *)
(* the process dies inside a request: what the next view gets, the cached   *)
(* object or else VECTOR.gob, holds exactly the vectors of the chunk        *)
(* indexes; a full build restores that whatever went wrong before.          *)
THEOREM IndexMirrorsChunks == WritersAlone /\ Spec => []MirrorsChunks
<1>1. BaseInv /\ MirrorInv => MirrorsChunks
  BY DEF MirrorInv, Settled, Clean, Mirror, Carrying, Live, MirrorsChunks, Current
<1>2. WritersAlone /\ Spec => []MirrorInv
  BY MirrorInitially, MirrorStep, BaseInvariant, PTL DEF Spec
<1> QED BY <1>1, <1>2, BaseInvariant, PTL

-----------------------------------------------------------------------------
(* Search. With a beam as wide as the index nothing is cut off, and the     *)
(* loop finds all that can be reached.                                      *)

LEMMA IdsSmall ==
    ASSUME NEW S \in SUBSET Ids
    PROVE  IsFiniteSet(S) /\ Cardinality(S) \in Nat /\ Cardinality(Ids) \in Nat
           /\ Cardinality(S) <= Cardinality(Ids)
  BY IdsAssumption, FS_Subset, FS_CardinalityType

LEMMA AllAreBest ==
    ASSUME NEW q \in Ids, NEW S \in SUBSET Ids, NEW k \in Nat, Cardinality(Ids) <= k
    PROVE  Best(q, S, k) = S
<1>1. ASSUME NEW x \in S PROVE Cardinality({y \in S : Score[q][y] > Score[q][x]}) < k
  <2> DEFINE B == {y \in S : Score[q][y] > Score[q][x]}
  <2>1. B \subseteq S /\ x \notin B
    BY ScoreTypes
  <2> HIDE DEF B
  <2>2. B # S /\ IsFiniteSet(S) /\ B \subseteq S
    BY <2>1, IdsSmall
  <2>3. Cardinality(B) < Cardinality(S)
    <3>1. Cardinality(B) <= Cardinality(S)
      BY <2>2, FS_Subset
    <3>2. Cardinality(B) # Cardinality(S)
      BY <2>2, FS_Subset
    <3>3. Cardinality(B) \in Nat /\ Cardinality(S) \in Nat
      BY <2>1, IdsSmall
    <3> QED BY <3>1, <3>2, <3>3
  <2>4. Cardinality(S) \in Nat /\ Cardinality(Ids) \in Nat /\ Cardinality(S) <= Cardinality(Ids)
    BY IdsSmall
  <2>5. Cardinality(B) \in Nat
    BY <2>1, IdsSmall
  <2>6. Cardinality(B) < k
    BY <2>3, <2>4, <2>5
  <2> QED BY <2>6 DEF B
<1> QED BY <1>1 DEF Best

(* What can be reached is closed under links, and is nothing more.          *)
LEMMA ReachedClosed ==
    ASSUME NEW ix, SoundIndex(ix), NEW seed \in AllIDs(ix)
    PROVE  /\ seed \in ReachedFrom(ix, seed) /\ ReachedFrom(ix, seed) \subseteq AllIDs(ix)
           /\ \A m \in ReachedFrom(ix, seed) : Neighbours(ix, m, 0) \subseteq ReachedFrom(ix, seed)
           /\ \A S \in SUBSET AllIDs(ix) :
                 seed \in S /\ (\A m \in S : Neighbours(ix, m, 0) \subseteq S) =>
                     ReachedFrom(ix, seed) \subseteq S
<1>1. \A m \in AllIDs(ix) : Neighbours(ix, m, 0) \subseteq AllIDs(ix)
  BY LinksStay DEF InLayer
<1> QED BY <1>1 DEF ReachedFrom

LEMMA BottomLayer ==
    ASSUME NEW ix, SoundIndex(ix), NEW n \in AllIDs(ix)
    PROVE  InLayer(ix, n, 0)
<1>1. ix.nodes[n] \in LayerMaps
  BY IndexParts DEF SoundIndex
<1>2. PICK k \in 0..TopLevel : ix.nodes[n] \in [0..k -> SUBSET Ids]
  BY <1>1, LayerMapsAre
<1>3. 0 \in 0..k
  BY TopLevelAssumption
<1> QED BY <1>2, <1>3 DEF InLayer

(* Every beam on the way has seen some of what can be reached, keeps all of *)
(* it, and has still to look at whatever leads further.                     *)
LEMMA WideSearchReaches ==
    ASSUME NEW ix, SoundIndex(ix), NEW q \in Ids, NEW seed \in AllIDs(ix),
           NEW ef \in Nat, Cardinality(Ids) <= ef
    PROVE  SearchLayer(ix, q, seed, ef, 0) = ReachedFrom(ix, seed)
<1> DEFINE R == ReachedFrom(ix, seed)
<1>1. AllIDs(ix) \in SUBSET Ids
  BY IndexParts DEF SoundIndex
<1>2. PICK r : /\ Loop(r, ix, q, ef, 0)
               /\ SearchLayer(ix, q, seed, ef, 0) = IF InLayer(ix, seed, 0) THEN r[From(seed)] ELSE {}
  BY <1>1, SearchLayerLoops
<1>3. /\ seed \in R /\ R \subseteq AllIDs(ix) /\ \A m \in R : Neighbours(ix, m, 0) \subseteq R
      /\ \A S \in SUBSET AllIDs(ix) :
            seed \in S /\ (\A m \in S : Neighbours(ix, m, 0) \subseteq S) => R \subseteq S
  BY ReachedClosed
<1> HIDE DEF R
<1> DEFINE Way(b) == /\ seed \in b.visited /\ b.visited \subseteq R
                     /\ b.res = b.visited /\ b.cand \subseteq b.visited
                     /\ \A m \in b.visited \ b.cand : Neighbours(ix, m, 0) \subseteq b.visited
<1> DEFINE Bad == {b \in Beams : Way(b) /\ r[b] # R}
<1>4. ASSUME Bad # {} PROVE FALSE
  <2>1. PICK b \in Bad : \A a \in Bad : ~(<<a, b>> \in Later)
    <3>1. Bad \subseteq Beams
      OBVIOUS
    <3> HIDE DEF Bad
    <3> QED BY <1>4, <3>1, LaterWellFounded, WFMin
  <2>2. b \in Beams /\ Way(b) /\ r[b] # R /\ b.visited \in SUBSET Ids /\ b.cand \in SUBSET Ids
    BY <2>1 DEF Beams
  <2> DEFINE c == Nearest(q, b.cand)
  <2>3. b.cand # {} => c \in b.cand
    BY <2>2, NearestIn
  <2> DEFINE e == Explored(ix, q, b, ef, 0)
  <2> DEFINE fresh == (Neighbours(ix, c, 0) \cap AllIDs(ix)) \ b.visited
  <2> DEFINE res == Best(q, b.res \cup fresh, ef)
  <2>4. e = [cand |-> (b.cand \ {c}) \cup (fresh \cap res), visited |-> b.visited \cup fresh, res |-> res]
    BY DEF Explored
  <2>5. Ends(q, b, ef) <=> b.cand = {} \/ (Cardinality(b.res) >= ef /\ \A x \in b.res : Score[q][c] < Score[q][x])
    BY DEF Ends, Hopeless
  <2>6. res = b.visited \cup fresh /\ fresh \subseteq Ids
    <3>1. fresh \in SUBSET Ids /\ b.res \cup fresh \in SUBSET Ids /\ b.res = b.visited
      BY <1>1, <2>2
    <3> HIDE DEF fresh
    <3> QED BY <3>1, AllAreBest
  <2> HIDE DEF c, e, res
  <2>7. CASE b.cand = {}
    <3>1. r[b] = b.res
      BY <1>2, <2>2, <2>5, <2>7 DEF Loop
    <3>2. R \subseteq b.visited
      BY <1>3, <2>2, <2>7
    <3> QED BY <2>2, <3>1, <3>2
  <2>8. CASE b.cand # {}
    <3>1. c \in b.cand /\ c \in b.res /\ c \in R
      BY <2>2, <2>3, <2>8
    <3>2. ~Ends(q, b, ef)
      <4>1. Score[q][c] \in Int /\ ~(Score[q][c] < Score[q][c])
        BY <2>2, <3>1, ScoreTypes
      <4> QED BY <2>5, <2>8, <3>1, <4>1
    <3>3. r[b] = r[e]
      BY <1>2, <2>2, <3>2 DEF Loop, e
    <3>4. e \in Beams /\ <<e, b>> \in Later
      BY <1>1, <2>2, <2>8, TurnIsLater DEF e
    <3>5. Neighbours(ix, c, 0) \subseteq b.visited \cup fresh /\ fresh \subseteq R
      BY <1>3, <3>1
    <3>6. Way(e)
      <4> HIDE DEF fresh
      <4> QED BY <2>2, <2>4, <2>6, <3>1, <3>5
    <3> QED BY <2>1, <2>2, <3>3, <3>4, <3>6
  <2> QED BY <2>7, <2>8
<1>5. InLayer(ix, seed, 0)
  BY BottomLayer
<1>6. From(seed) \in Beams /\ Way(From(seed))
  BY <1>1, <1>3 DEF From, Beams
<1>7. r[From(seed)] = R
  <2> HIDE DEF Way
  <2> QED BY <1>4, <1>6
<1> QED BY <1>2, <1>5, <1>7 DEF R

(* A beam of one climbs to a node that no neighbour beats.                  *)
LEMMA ScoresDiffer ==
    ASSUME NEW q \in Ids, NEW x \in Ids, NEW y \in Ids, x # y
    PROVE  Score[q][x] \in Int /\ Score[q][y] \in Int /\ Score[q][x] # Score[q][y]
  BY ScoreAssumption

LEMMA TheBest ==
    ASSUME NEW q \in Ids, NEW S \in SUBSET Ids, S # {}
    PROVE  Best(q, S, 1) = {Nearest(q, S)}
<1> DEFINE n == Nearest(q, S)
<1>1. n \in S /\ \A y \in S : Score[q][y] <= Score[q][n]
  BY NearestIn
<1> HIDE DEF n
<1>2. ASSUME NEW x \in S PROVE Cardinality({y \in S : Score[q][y] > Score[q][x]}) < 1 <=> x = n
  <2> DEFINE B == {y \in S : Score[q][y] > Score[q][x]}
  <2>1. B \in SUBSET Ids
    OBVIOUS
  <2>2. B = {} <=> x = n
    <3>1. CASE x = n
      <4>1. ASSUME NEW y \in S PROVE ~(Score[q][y] > Score[q][n])
        BY <1>1, ScoreTypes
      <4> QED BY <3>1, <4>1
    <3>2. CASE x # n
      <4>1. Score[q][n] > Score[q][x]
        BY <1>1, <3>2, ScoresDiffer
      <4> QED BY <1>1, <3>2, <4>1
    <3> QED BY <3>1, <3>2
  <2> HIDE DEF B
  <2>3. IsFiniteSet(B) /\ Cardinality(B) \in Nat
    BY <2>1, IdsSmall
  <2>4. Cardinality(B) = 0 <=> B = {}
    BY <2>3, FS_EmptySet
  <2>5. Cardinality(B) < 1 <=> x = n
    BY <2>2, <2>3, <2>4
  <2> QED BY <2>5 DEF B
<1>3. Best(q, S, 1) = {x \in S : x = n}
  BY <1>2 DEF Best
<1> QED BY <1>1, <1>3 DEF n

Peak(ix, q, x, lc) == \A m \in Neighbours(ix, x, lc) : Score[q][m] < Score[q][x]

LEMMA NarrowSearchClimbs ==
    ASSUME NEW ix, SoundIndex(ix), NEW q \in Ids, NEW seed, NEW lc, InLayer(ix, seed, lc)
    PROVE  \E x : /\ SearchLayer(ix, q, seed, 1, lc) = {x} /\ InLayer(ix, x, lc)
                  /\ Peak(ix, q, x, lc)
<1>1. AllIDs(ix) \in SUBSET Ids /\ seed \in Ids
  BY IndexParts DEF SoundIndex, InLayer
<1>2. PICK r : /\ Loop(r, ix, q, 1, lc)
               /\ SearchLayer(ix, q, seed, 1, lc) = r[From(seed)]
  BY <1>1, SearchLayerLoops
<1> DEFINE Top(b, x) == /\ b.res = {x} /\ x \in b.visited /\ \A y \in b.visited : Score[q][y] <= Score[q][x]
                        /\ b.cand = {x} \/ (b.cand = {} /\ Neighbours(ix, x, lc) \subseteq b.visited)
<1> DEFINE Ok(S) == \E x \in Ids : S = {x} /\ Peak(ix, q, x, lc)
<1> DEFINE Bad == {b \in Beams : (\E x \in Ids : Top(b, x)) /\ ~Ok(r[b])}
<1>3. ASSUME Bad # {} PROVE FALSE
  <2>1. PICK b \in Bad : \A a \in Bad : ~(<<a, b>> \in Later)
    <3>1. Bad \subseteq Beams
      OBVIOUS
    <3> HIDE DEF Bad
    <3> QED BY <1>3, <3>1, LaterWellFounded, WFMin
  <2>2. PICK x \in Ids : Top(b, x)
    OBVIOUS
  <2>3. b \in Beams /\ ~Ok(r[b]) /\ b.visited \in SUBSET Ids
    BY <2>1 DEF Beams
  <2>4. CASE b.cand = {}
    <3>1. r[b] = {x}
      BY <1>2, <2>2, <2>3, <2>4 DEF Loop, Ends
    <3>2. ASSUME NEW m \in Neighbours(ix, x, lc) PROVE Score[q][m] < Score[q][x]
      <4>1. m # x /\ m \in b.visited /\ m \in Ids
        BY <2>2, <2>3, <2>4, LinksStay
      <4>2. Score[q][m] <= Score[q][x]
        BY <2>2, <4>1
      <4> QED BY <4>1, <4>2, ScoresDiffer
    <3> QED BY <2>3, <3>1, <3>2 DEF Peak
  <2>5. CASE b.cand = {x}
    <3>1. Nearest(q, b.cand) = x
      BY <2>5, NearestIn
    <3> DEFINE fresh == (Neighbours(ix, x, lc) \cap AllIDs(ix)) \ b.visited
    <3> DEFINE S == {x} \cup fresh
    <3> DEFINE n == Nearest(q, S)
    <3> DEFINE e == Explored(ix, q, b, 1, lc)
    <3>2. ~Ends(q, b, 1)
      <4>1. ~(Score[q][x] < Score[q][x])
        BY ScoreTypes
      <4> QED BY <2>2, <2>5, <3>1, <4>1 DEF Ends, Hopeless
    <3>3. r[b] = r[e]
      BY <1>2, <2>3, <3>2 DEF Loop
    <3>4. e \in Beams /\ <<e, b>> \in Later
      BY <1>1, <2>3, <2>5, TurnIsLater
    <3>5. S \in SUBSET Ids /\ S # {} /\ fresh \subseteq Ids
      BY <1>1
    <3>6. Best(q, S, 1) = {n} /\ n \in S /\ \A y \in S : Score[q][y] <= Score[q][n]
      <4> HIDE DEF S
      <4> QED BY <3>5, TheBest, NearestIn
    <3>7. e = [cand |-> (b.cand \ {x}) \cup (fresh \cap {n}), visited |-> b.visited \cup fresh, res |-> {n}]
      <4>1. Best(q, b.res \cup fresh, 1) = {n}
        <5>1. b.res \cup fresh = S
          BY <2>2
        <5> HIDE DEF S, n
        <5> QED BY <3>6, <5>1
      <4> HIDE DEF n
      <4> QED BY <3>1, <4>1 DEF Explored
    <3>8. Neighbours(ix, x, lc) \subseteq b.visited \cup fresh
      BY LinksStay DEF InLayer
    <3> HIDE DEF e, n, S
    <3>9. Top(e, n)
      <4>1. ASSUME NEW y \in b.visited \cup fresh PROVE Score[q][y] <= Score[q][n]
        <5>1. CASE y \in fresh
          BY <3>6, <5>1 DEF S
        <5>2. CASE y \in b.visited
          <6>1. Score[q][y] <= Score[q][x] /\ Score[q][x] <= Score[q][n] /\ y \in Ids /\ n \in Ids
            BY <2>2, <2>3, <3>5, <3>6, <5>2 DEF S
          <6>2. Score[q][y] \in Int /\ Score[q][x] \in Int /\ Score[q][n] \in Int
            BY <6>1, ScoreTypes
          <6> QED BY <6>1, <6>2
        <5> QED BY <5>1, <5>2
      <4>2. n \in b.visited \cup fresh
        BY <2>2, <3>6 DEF S
      <4>3. CASE n = x
        <5>1. x \notin fresh
          BY <2>2
        <5> HIDE DEF fresh
        <5> QED BY <2>5, <3>7, <3>8, <4>1, <4>2, <4>3, <5>1
      <4>4. CASE n # x
        <5>1. n \in fresh
          BY <3>6, <4>4 DEF S
        <5> HIDE DEF fresh
        <5> QED BY <2>5, <3>7, <4>1, <4>2, <5>1
      <4> QED BY <4>3, <4>4
    <3>10. n \in Ids
      BY <3>5, <3>6
    <3> QED BY <2>1, <2>3, <3>3, <3>4, <3>9, <3>10
  <2> QED BY <2>2, <2>4, <2>5
<1>4. From(seed) \in Beams /\ Top(From(seed), seed)
  <2>1. Score[q][seed] <= Score[q][seed]
    BY <1>1, ScoreTypes
  <2> QED BY <1>1, <2>1 DEF From, Beams
<1>5. Ok(r[From(seed)])
  <2> HIDE DEF Ok, Top
  <2> QED BY <1>1, <1>3, <1>4
<1>6. PICK x \in Ids : r[From(seed)] = {x} /\ Peak(ix, q, x, lc)
  BY <1>5
<1>7. InLayer(ix, x, lc)
  BY <1>2, <1>6, SearchLayerStays
<1> QED BY <1>2, <1>6, <1>7

(* Layers are counted from 0 without a gap.                                 *)
LEMMA LayerBelow ==
    ASSUME NEW ix, SoundIndex(ix), NEW x, NEW lc \in Nat, InLayer(ix, x, lc + 1)
    PROVE  InLayer(ix, x, lc)
<1>1. x \in AllIDs(ix) /\ ix.nodes[x] \in LayerMaps
  BY IndexParts DEF SoundIndex, InLayer
<1>2. PICK k \in 0..TopLevel : ix.nodes[x] \in [0..k -> SUBSET Ids]
  BY <1>1, LayerMapsAre
<1>3. lc + 1 \in 0..k
  BY <1>2 DEF InLayer
<1>4. lc \in 0..k
  BY <1>3
<1> QED BY <1>1, <1>2, <1>4 DEF InLayer

(* The descent is a walk of nodes of the index: the recursion is defined,   *)
(* and every layer is entered at a node that has it.                        *)
DescentWalk(ix, q, at) ==
    /\ at = [lc \in 0..ix.maxLevel |->
                IF lc = ix.maxLevel THEN ix.entry
                ELSE Advance(q, at[lc + 1], SearchLayer(ix, q, at[lc + 1], 1, lc + 1))]
    /\ Descend(ix, q, 0) = IF ix.maxLevel > 0 THEN at[0] ELSE ix.entry

LEMMA WalkDefined ==
    ASSUME NEW ix, SoundIndex(ix), ix.entry \in AllIDs(ix), NEW q \in Ids
    PROVE  \E at : DescentWalk(ix, q, at)
<1> DEFINE X == AllIDs(ix)
<1> DEFINE n == ix.maxLevel
<1> DEFINE Down(lc, x) == Advance(q, x, SearchLayer(ix, q, x, 1, lc + 1))
<1> DEFINE H == [lc \in 0..n |-> [x \in X |-> Down(lc, x)]]
<1>1. n \in Int /\ X \in SUBSET Ids /\ ix.entry \in X
  BY IndexParts DEF SoundIndex
<1>2. ASSUME NEW lc \in 0..n, NEW x \in X PROVE Down(lc, x) \in X
  <2> DEFINE S == SearchLayer(ix, q, x, 1, lc + 1)
  <2>1. S \subseteq X
    <3>1. ASSUME NEW y \in S PROVE InLayer(ix, y, lc + 1)
      BY SearchLayerStays
    <3> QED BY <3>1 DEF InLayer
  <2> HIDE DEF S, X
  <2>2. S # {} => Nearest(q, S) \in S
    BY <1>1, <2>1, NearestIn
  <2> QED BY <2>1, <2>2 DEF Advance, S
<1> HIDE DEF Down
<1>3. H \in [0..n -> [X -> X]]
  BY <1>2
<1>4. \A lc \in 0..n : \A x \in X : H[lc][x] = Down(lc, x)
  OBVIOUS
<1> HIDE DEF H, n
<1>5. PICK g \in [0..n -> X] : \A i \in 0..n : g[i] = IF i = n THEN ix.entry ELSE H[i][g[i + 1]]
  <2>1. 0 \in Int /\ n \in Int /\ ix.entry \in X /\ H \in [0..n -> [X -> X]]
    BY <1>1, <1>3
  <2>2. \E g : Descends(g, 0, n, X, ix.entry, H)
    <3> HIDE DEF X
    <3> QED BY <2>1, DescentDefined
  <2> QED BY <2>2 DEF Descends
<1>6. ASSUME NEW i \in 0..n PROVE g[i] = IF i = n THEN ix.entry ELSE Down(i, g[i + 1])
  <2>1. i # n => i + 1 \in 0..n
    BY <1>1
  <2> QED BY <2>1, <1>4, <1>5
<1>7. g = [i \in 0..n |-> IF i = n THEN ix.entry ELSE Down(i, g[i + 1])]
  BY <1>5, <1>6
<1> DEFINE Walks(a) == a = [lc \in 0..ix.maxLevel |->
                IF lc = ix.maxLevel THEN ix.entry
                ELSE Advance(q, a[lc + 1], SearchLayer(ix, q, a[lc + 1], 1, lc + 1))]
<1>8. Walks(g)
  BY <1>7 DEF Down, n
<1> DEFINE at == CHOOSE a : Walks(a)
<1>9. Walks(at)
  <2> HIDE DEF Walks
  <2> QED BY <1>8
<1>10. Descend(ix, q, 0) = IF ix.maxLevel > 0 THEN at[0] ELSE ix.entry
  BY DEF Descend
<1> HIDE DEF at
<1> QED BY <1>9, <1>10 DEF DescentWalk

LEMMA DescentLands ==
    ASSUME NEW ix, SoundIndex(ix), ix.entry \in AllIDs(ix), NEW q \in Ids
    PROVE  Descend(ix, q, 0) \in AllIDs(ix) /\ DescendsToPeak(ix, q)
<1> DEFINE n == ix.maxLevel
<1>1. n \in Int /\ 0..n \subseteq DOMAIN ix.nodes[ix.entry]
  BY IndexParts DEF SoundIndex, Sound
<1>2. PICK at : DescentWalk(ix, q, at)
  BY WalkDefined
<1>3. /\ \A lc \in 0..n : at[lc] = IF lc = n THEN ix.entry
                                   ELSE Advance(q, at[lc + 1], SearchLayer(ix, q, at[lc + 1], 1, lc + 1))
      /\ Descend(ix, q, 0) = IF n > 0 THEN at[0] ELSE ix.entry
  BY <1>2 DEF DescentWalk
<1> HIDE DEF n
<1>4. ASSUME NEW lc \in 0..n, lc # n, InLayer(ix, at[lc + 1], lc + 1)
      PROVE  InLayer(ix, at[lc], lc + 1) /\ Peak(ix, q, at[lc], lc + 1)
  <2>1. PICK x : /\ SearchLayer(ix, q, at[lc + 1], 1, lc + 1) = {x} /\ InLayer(ix, x, lc + 1)
                 /\ Peak(ix, q, x, lc + 1)
    BY <1>4, NarrowSearchClimbs
  <2>2. Nearest(q, {x}) = x
    <3>1. x \in Ids
      BY <2>1, IndexParts DEF SoundIndex, InLayer
    <3> QED BY <3>1, NearestIn
  <2>3. at[lc] = x
    BY <1>3, <1>4, <2>1, <2>2 DEF Advance
  <2> QED BY <2>1, <2>3
<1> DEFINE Bad == {(lc + 1)..n : lc \in {i \in 0..n : ~InLayer(ix, at[i], i)}}
<1>5. Bad = {}
  <2>1. SUFFICES ASSUME Bad # {} PROVE FALSE
    OBVIOUS
  <2> DEFINE I == 0..n
  <2>2. IsFiniteSet(I) /\ Bad \in SUBSET SUBSET I
    <3>1. IsFiniteSet(0..n)
      BY <1>1, FS_Interval
    <3>2. \A lc \in 0..n : (lc + 1)..n \subseteq 0..n
      BY <1>1
    <3> QED BY <3>1, <3>2
  <2>3. PICK T \in Bad : \A U \in SUBSET T : U # T => U \notin Bad
    <3> HIDE DEF Bad, I
    <3> QED BY <2>1, <2>2, MinimalBad
  <2>4. PICK lc \in 0..n : T = (lc + 1)..n /\ ~InLayer(ix, at[lc], lc)
    OBVIOUS
  <2>5. CASE lc = n
    <3>1. at[lc] = ix.entry /\ lc \in DOMAIN ix.nodes[ix.entry]
      BY <1>1, <1>3, <2>5
    <3> QED BY <2>4, <3>1 DEF InLayer
  <2>6. CASE lc # n
    <3>1. lc + 1 \in 0..n /\ lc \in Nat
      BY <1>1, <2>6
    <3>2. InLayer(ix, at[lc + 1], lc + 1)
      <4>1. SUFFICES ASSUME ~InLayer(ix, at[lc + 1], lc + 1) PROVE FALSE
        OBVIOUS
      <4>2. ((lc + 1) + 1)..n \in Bad
        BY <3>1, <4>1
      <4>3. ((lc + 1) + 1)..n \subseteq T /\ ((lc + 1) + 1)..n # T
        <5>1. lc + 1 \in (lc + 1)..n /\ lc + 1 \notin ((lc + 1) + 1)..n
              /\ ((lc + 1) + 1)..n \subseteq (lc + 1)..n
          BY <3>1, <1>1
        <5> QED BY <5>1, <2>4
      <4> QED BY <2>3, <4>2, <4>3
    <3>3. InLayer(ix, at[lc], lc + 1)
      BY <1>4, <2>6, <3>2
    <3> QED BY <2>4, <3>1, <3>3, LayerBelow
  <2> QED BY <2>5, <2>6
<1>6. \A lc \in 0..n : InLayer(ix, at[lc], lc)
  BY <1>5
<1>7. Descend(ix, q, 0) \in AllIDs(ix)
  <2>1. n > 0 => 0 \in 0..n
    BY <1>1
  <2> QED BY <1>3, <1>6, <2>1 DEF InLayer
<1>8. ASSUME n >= 1 PROVE Peak(ix, q, Descend(ix, q, 0), 1)
  <2>1. 0 \in 0..n /\ 0 + 1 \in 0..n /\ 0 # n /\ 0 + 1 = 1 /\ n > 0
    BY <1>1, <1>8
  <2>2. Peak(ix, q, at[0], 0 + 1)
    BY <1>4, <1>6, <2>1
  <2> QED BY <1>3, <2>1, <2>2
<1> QED BY <1>7, <1>8 DEF DescendsToPeak, Peak, n

LEMMA WideSearchFinds ==
    ASSUME NEW ix, SoundIndex(ix), NEW q \in Ids, Cardinality(Ids) <= EfSearch,
           NEW k \in {1, Cardinality(Ids)}
    PROVE  FindsBest(ix, q, k)
<1>1. k \in Nat /\ k > 0 /\ Cardinality(Ids) \in Nat /\ EfSearch \in Nat
  <2>1. IsFiniteSet(Ids) /\ Cardinality(Ids) \in Nat /\ Cardinality(Ids) # 0
    BY IdsAssumption, FS_CardinalityType, FS_EmptySet
  <2> QED BY <2>1, WidthsAssumption
<1>2. CASE ix.entry = None
  BY <1>2 DEF FindsBest, Search
<1>3. CASE ix.entry # None
  <2>1. ix.entry \in AllIDs(ix)
    BY <1>3 DEF SoundIndex, Sound
  <2> DEFINE ef == IF EfSearch < k THEN k ELSE EfSearch
  <2> DEFINE end == Descend(ix, q, 0)
  <2>2. ef \in Nat /\ Cardinality(Ids) <= ef
    BY <1>1
  <2>3. end \in AllIDs(ix)
    BY <2>1, DescentLands
  <2>4. Search(ix, q, ix.dim, k) = Best(q, SearchLayer(ix, q, end, ef, 0), k)
    BY <1>1, <1>3 DEF Search
  <2> HIDE DEF ef, end
  <2>5. SearchLayer(ix, q, end, ef, 0) = ReachedFrom(ix, end)
    BY <2>2, <2>3, WideSearchReaches
  <2> QED BY <1>3, <2>4, <2>5 DEF FindsBest, end
<1> QED BY <1>2, <1>3

LEMMA SearchPeaks ==
    ASSUME NEW ix, SoundIndex(ix), NEW q \in Ids
    PROVE  DescendsToPeak(ix, q)
<1>1. CASE AllIDs(ix) = {}
  BY <1>1 DEF SoundIndex, Sound, DescendsToPeak
<1>2. CASE AllIDs(ix) # {}
  <2>1. ix.entry \in AllIDs(ix)
    BY <1>2 DEF SoundIndex, Sound
  <2> QED BY <2>1, DescentLands
<1> QED BY <1>1, <1>2

(* The beam is as wide as there are vectors.                                *)
WideBeam == Cardinality(Ids) <= EfSearch

(* In every index any history of uploads, removals, rebuilds, faults and    *)
(* restarts leaves, the two-heap search (vector_index.go:303-418) finds     *)
(* exactly the k best of what is linked to where the descent ends, and the  *)
(* descent ends on a node no neighbour in layer 1 beats: stopping at the    *)
(* worst result kept costs nothing while the beam has room for all.         *)
THEOREM WideSearchIsExact == WideBeam /\ Spec => []SearchFindsBest
<1>1. BaseInv /\ WideBeam => SearchFindsBest
  <2> SUFFICES ASSUME BaseInv, WideBeam PROVE SearchFindsBest
    OBVIOUS
  <2>1. GraphSound
    BY BaseIsGraphSound
  <2>2. ASSUME NEW ix \in Indexes, NEW q \in Ids, NEW k \in {1, Cardinality(Ids)}
        PROVE  FindsBest(ix, q, k) /\ DescendsToPeak(ix, q)
    <3>1. PICK i \in 1..MaxIndexes : ix = heap[i] /\ heap[i] # Gone
      BY DEF Indexes
    <3>2. SoundIndex(ix)
      BY <3>1 DEF BaseInv, HeapOK, SoundHeap
    <3> QED BY <3>2, WideSearchFinds, SearchPeaks DEF WideBeam
  <2> QED BY <2>1, <2>2 DEF SearchFindsBest
<1>2. WideBeam => []WideBeam
  <2>1. WideBeam => WideBeam'
    BY DEF WideBeam
  <2> QED BY <2>1, PTL
<1> QED BY <1>1, <1>2, BaseInvariant, PTL
=============================================================================
