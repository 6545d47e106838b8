-------------------------------- MODULE HNSW --------------------------------
(***************************************************************************)
(* The vector index of a knowledge base: HNSWIndex of                      *)
(* internal/knowledge/vector_index.go as a value, with an operator for     *)
(* each method. A method that draws a random level or picks a node in the  *)
(* order of a Go map returns the set of indexes it may leave behind.       *)
(*                                                                         *)
(* A vector is the point its chunk stands at, and Score the similarity of  *)
(* two points; Vector IDs stand for slug/chunk strings. A neighbour list   *)
(* is a set: the order of a list decides nothing when scores differ.       *)
(***************************************************************************)
EXTENDS Integers, FiniteSets

CONSTANTS
    Ids,            \* VectorID(slug, chunkID) of every chunk
    None,           \* the empty string: no entry point
    M,              \* neighbours a node asks for in each layer
    EfConstruction, EfSearch,  \* beam widths
    TopLevel,       \* bound: the highest level a node may draw
    Score           \* Score[p][q]: dot product of two normalised vectors

ASSUME IdsAssumption == None \notin Ids /\ IsFiniteSet(Ids)
ASSUME WidthsAssumption ==
    M \in Nat \ {0} /\ EfConstruction \in Nat \ {0} /\ EfSearch \in Nat \ {0}
ASSUME TopLevelAssumption == TopLevel \in Nat
ASSUME ScoreAssumption ==
    /\ Score \in [Ids -> [Ids -> Int]]
    /\ \A p, q, r \in Ids :
          /\ Score[p][q] = Score[q][p]
          /\ q # r => Score[p][q] # Score[p][r]

(* nodes: the layers of each node, layers[0] the bottom one, each with its  *)
(* neighbours.                                                              *)
LayerMaps == UNION {[0..k -> SUBSET Ids] : k \in 0..TopLevel}
NodeMaps == UNION {[D -> LayerMaps] : D \in SUBSET Ids}
HNSWIndexes ==
    [nodes : NodeMaps, entry : Ids \cup {None}, maxLevel : Int, dim : Nat \ {0}]

NewHNSWIndex(dim) ==
    [nodes |-> [i \in {} |-> <<>>], entry |-> None, maxLevel |-> -1, dim |-> dim]

AllIDs(ix) == DOMAIN ix.nodes

Neighbours(ix, id, lc) ==
    IF id \in AllIDs(ix) /\ lc \in DOMAIN ix.nodes[id] THEN ix.nodes[id][lc] ELSE {}

----------------------------------------------------------------------------
(* Choosing among scored nodes: the two heaps and selectNeighbours.         *)

Nearest(q, S) == CHOOSE x \in S : \A y \in S : Score[q][y] <= Score[q][x]

Best(q, S, k) ==
    {x \in S : Cardinality({y \in S : Score[q][y] > Score[q][x]}) < k}

(* searchLayer: explore the most promising candidate until it is worse than *)
(* the worst of ef results.                                                 *)
HopelessEarly(q, c, res, ef) ==  \* mutant: stops although there is room
    \E r \in res : Score[q][c] < Score[q][r]

Hopeless(q, c, res, ef) ==
    Cardinality(res) >= ef /\ \A r \in res : Score[q][c] < Score[q][r]

(* One turn of the loop: a candidate is taken, and its neighbours that are  *)
(* among the ef best come in.                                               *)
Beams == [cand : SUBSET Ids, visited : SUBSET Ids, res : SUBSET Ids]

Explored(ix, q, b, ef, lc) ==
    LET c == Nearest(q, b.cand)
        fresh == (Neighbours(ix, c, lc) \cap AllIDs(ix)) \ b.visited
        res == Best(q, b.res \cup fresh, ef)
    IN  [cand    |-> (b.cand \ {c}) \cup (fresh \cap res),
         visited |-> b.visited \cup fresh,
         res     |-> res]

Ends(q, b, ef) == b.cand = {} \/ Hopeless(q, Nearest(q, b.cand), b.res, ef)

SearchLayer(ix, q, seed, ef, lc) ==
    LET results[b \in Beams] ==
            IF Ends(q, b, ef) THEN b.res ELSE results[Explored(ix, q, b, ef, lc)]
    IN  IF seed \in AllIDs(ix) /\ lc \in DOMAIN ix.nodes[seed]
        THEN results[[cand |-> {seed}, visited |-> {seed}, res |-> {seed}]]
        ELSE {}

Advance(q, cur, cands) == IF cands = {} THEN cur ELSE Nearest(q, cands)

(* The greedy descent from the entry point: where it stands when it comes   *)
(* to the layer low.                                                        *)
Descend(ix, q, low) ==
    LET at[lc \in low..ix.maxLevel] ==
            IF lc = ix.maxLevel THEN ix.entry
            ELSE Advance(q, at[lc + 1], SearchLayer(ix, q, at[lc + 1], 1, lc + 1))
    IN  IF ix.maxLevel > low THEN at[low] ELSE ix.entry

Search(ix, q, qdim, k) ==
    IF ix.entry = None \/ k <= 0 \/ qdim # ix.dim THEN {}
    ELSE LET ef == IF EfSearch < k THEN k ELSE EfSearch
         IN  Best(q, SearchLayer(ix, q, Descend(ix, q, 0), ef, 0), k)

----------------------------------------------------------------------------
(* Remove.                                                                  *)

Unlink(ix, id) ==
    [n \in AllIDs(ix) \ {id} |->
        [lc \in DOMAIN ix.nodes[n] |-> ix.nodes[n][lc] \ {id}]]

(* A removed entry point is replaced by any node, at the level it has.      *)
RemoveNode(ix, id) ==
    LET nodes == Unlink(ix, id)
        Top(n) == Cardinality(DOMAIN nodes[n]) - 1
    IN  IF ix.entry # id THEN {[ix EXCEPT !.nodes = nodes]}
        ELSE IF DOMAIN nodes = {}
        THEN {[ix EXCEPT !.nodes = nodes, !.entry = None, !.maxLevel = -1]}
        ELSE {[ix EXCEPT !.nodes = nodes, !.entry = n, !.maxLevel = Top(n)] :
                 n \in DOMAIN nodes}

Remove(ix, id) == IF id \in AllIDs(ix) THEN RemoveNode(ix, id) ELSE {ix}

----------------------------------------------------------------------------
(* Add.                                                                     *)

(* pruneConnections. A link to a node that is not in the index counts as    *)
(* the farthest: the node that is being added is not in it yet.             *)
PruneConnections(ix, n, links) ==
    IF Cardinality(links) <= 2 * M THEN links
    ELSE Best(n, links \cap AllIDs(ix), M)

(* An entry point below the new node's level gets empty layers up to it.    *)
RaiseEntry(ix, level) ==
    [ix EXCEPT !.nodes[ix.entry] =
        [lc \in DOMAIN @ \cup 0..level |-> IF lc \in DOMAIN @ THEN @[lc] ELSE {}]]

(* Where the layers 0..level of the new node find their neighbours: each is *)
(* searched from the best node of the layer above.                          *)
NeighboursOf(ix, id, level) ==
    LET seed[lc \in 0..level] ==
            IF lc = level THEN Descend(ix, id, level)
            ELSE Advance(id, seed[lc + 1],
                         SearchLayer(ix, id, seed[lc + 1], EfConstruction, lc + 1))
    IN  [lc \in 0..level |-> Best(id, SearchLayer(ix, id, seed[lc], EfConstruction, lc), M)]

LinkBack(ix, id, near) ==
    [n \in AllIDs(ix) |->
        LET own == ix.nodes[n]
            mine == {lc \in DOMAIN near : n \in near[lc]}
        IN  [lc \in DOMAIN own \cup mine |->
                IF lc \in mine
                THEN PruneConnections(ix, n, Neighbours(ix, n, lc) \cup {id})
                ELSE own[lc]]]

Insert(ix, id, level) ==
    IF ix.entry = None
    THEN [ix EXCEPT !.nodes = [n \in {id} |-> [lc \in 0..level |-> {}]],
                    !.entry = id, !.maxLevel = level]
    ELSE LET high == level > ix.maxLevel
             raised == [RaiseEntry(ix, level) EXCEPT
                           !.maxLevel = IF high THEN level ELSE ix.maxLevel]
             near == NeighboursOf(raised, id, level)
             others == LinkBack(raised, id, near)
         IN  [raised EXCEPT
                 !.nodes = [n \in AllIDs(ix) \cup {id} |->
                               IF n = id THEN near ELSE others[n]],
                 !.entry = IF high THEN id ELSE ix.entry]

(* A vector of another dimension is dropped; an id that is there is         *)
(* replaced, at a new level.                                                *)
Add(ix, id, dim) ==
    IF dim # ix.dim THEN {ix}
    ELSE {Insert(free, id, level) : free \in Remove(ix, id), level \in 0..TopLevel}

----------------------------------------------------------------------------
(* The entry point exists while there is a node and reaches the highest     *)
(* layer the descent starts from; links lead to other nodes of the index,   *)
(* which have that layer.                                                   *)
Sound(ix) ==
    /\ IF AllIDs(ix) = {} THEN ix.entry = None /\ ix.maxLevel = -1
       ELSE ix.entry \in AllIDs(ix) /\ 0..ix.maxLevel \subseteq DOMAIN ix.nodes[ix.entry]
    /\ \A n \in AllIDs(ix) : \A lc \in DOMAIN ix.nodes[n] :
          \A m \in ix.nodes[n][lc] :
              m # n /\ m \in AllIDs(ix) /\ lc \in DOMAIN ix.nodes[m]

(* Reference definition: what a walk of the bottom layer can reach is in    *)
(* every set that the seed is in and no link leaves.                        *)
ReachedFrom(ix, seed) ==
    {n \in AllIDs(ix) : \A S \in SUBSET AllIDs(ix) :
        seed \in S /\ (\A m \in S : Neighbours(ix, m, 0) \subseteq S) => n \in S}

(* With a beam as wide as the index, a search returns the k best of the     *)
(* nodes it can reach from where its descent ends.                          *)
FindsBest(ix, q, k) ==
    Search(ix, q, ix.dim, k) =
        IF ix.entry = None THEN {} ELSE Best(q, ReachedFrom(ix, Descend(ix, q, 0)), k)

(* The descent ends on the node of layer 1 that no neighbour beats.         *)
DescendsToPeak(ix, q) ==
    ix.maxLevel >= 1 =>
        LET end == Descend(ix, q, 0)
        IN  \A m \in Neighbours(ix, end, 1) : Score[q][m] < Score[q][end]
=============================================================================
