---------------------------- MODULE SearchSafety ----------------------------
(***************************************************************************)
(* Theorems about Search, proved for any finite number of chunks, whatever *)
(* their documents, sections, scores and vectors, for any searches, limits, *)
(* batches and failures; and, at the end, about GPUScheduler, which lends   *)
(* the GPU to a search's embedder and reranker, for any number of           *)
(* concurrent requests and every configuration of services, sleep URLs and  *)
(* failures.                                                                *)
(***************************************************************************)
EXTENDS Search, GPUScheduler, FiniteSetTheorems, SequenceTheorems, WellFoundedInduction, TLAPS

-----------------------------------------------------------------------------
(* The invariant.                                                           *)

(* What the variables hold, in every phase of the search.                   *)
Phases == {"collect", "coarse", "recall", "dense", "score", "rerank", "cap", "group", "answered"}
Early == {"collect", "coarse", "recall", "dense", "score"}
Hits == [chunk : Chunks, score : Int]
SearchTypes ==
    /\ match \in [Chunks -> Nat] /\ cosine \in [Chunks -> Nat] /\ dense \in [Chunks -> Nat]
    /\ request \in Requests /\ phase \in Phases /\ faults \in Nat
    /\ entries \in SUBSET Chunks /\ bare \in SUBSET entries
    /\ results \in Seq(Hits) /\ batches \in Seq(RerankScores) /\ docs \in Seq(Docs)
    /\ DOMAIN given \in SUBSET Chunks /\ given \in [DOMAIN given -> Int]
    /\ ranking \in {"none", "bm25", "rrf", "reranked"}

(* Nothing is ranked before the scoring, and nothing scored by the reranker *)
(* before all batches are in.                                               *)
PhaseInv ==
    /\ phase \in Early => results = << >> /\ batches = << >> /\ DOMAIN given = {} /\ ranking = "none"
    /\ phase \in {"collect", "coarse"} => unread = {}
    /\ phase \in {"collect", "coarse", "recall"} => bare = {}
    /\ phase # "answered" => docs = << >>
    /\ phase = "rerank" => ranking \in {"bm25", "rrf"}
    /\ phase = "coarse" => Filter.coarse
    /\ phase \in {"coarse", "recall", "dense", "score", "rerank"} => entries # {}

EntriesInv ==
    /\ ~anyIndex \/ phase = "coarse" => \A c \in entries : Admitted(c) /\ c \in QueryCandidates
    /\ phase = "coarse" => \A c \in Matching : Findable(c) => c \in entries

(* Every hit is a candidate, and none is there twice.                       *)
HitsInv ==
    /\ \A i \in DOMAIN results : results[i].chunk \in entries
    /\ \A i, j \in DOMAIN results : i # j => results[i].chunk # results[j].chunk

(* The batches cover the first candidates, in their order.                  *)
BatchInv ==
    /\ phase = "rerank" =>
          /\ Len(batches) <= Len(Candidates)
          /\ \A i \in DOMAIN batches :
                results[i].chunk \in DOMAIN given /\ given[results[i].chunk] = batches[i]
          /\ \A c \in DOMAIN given : \E i \in DOMAIN batches : results[i].chunk = c
    /\ ranking = "reranked" =>
          \A i \in DOMAIN results :
             results[i].chunk \in DOMAIN given /\ results[i].score = given[results[i].chunk]

(* A chunk that must be found is not lost on the way.                       *)
Wanted == (\E c \in Matching : Findable(c)) /\ ~expanded /\ (Filter.coarse => unread = {})
WantedInv ==
    Wanted =>
        /\ phase # "collect" => \E c \in entries \ bare : match[c] > 0
        /\ phase \notin Early => results # << >>
        /\ phase = "answered" /\ request.docs => docs # << >>
LexicalInv == ~Hybrid => \A i \in DOMAIN results : match[results[i].chunk] > 0

SearchInv ==
    /\ SearchTypes /\ PhaseInv /\ EntriesInv /\ HitsInv /\ BatchInv /\ WantedInv /\ LexicalInv
    /\ HitsDescend /\ NoneBetter /\ DocsDescend

-----------------------------------------------------------------------------
(* The least and the greatest of a set.                                     *)
LEMMA MinOfTwo ==
    ASSUME NEW a \in Nat, NEW b \in Nat
    PROVE  Min({a, b}) \in {a, b} /\ Min({a, b}) <= a /\ Min({a, b}) <= b
  BY DEF Min

(* Among finitely many positions one has the greatest value.                *)
LEMMA MaxExists ==
    ASSUME NEW J, IsFiniteSet(J), J # {}, NEW f \in [J -> Int]
    PROVE  \E x \in J : \A y \in J : f[x] >= f[y]
<1> DEFINE HasMax(U) == \E x \in U : \A y \in U : f[x] >= f[y]
<1> DEFINE Bad == {U \in FiniteSubsetsOf(J) : U # {} /\ ~HasMax(U)}
<1>1. SUFFICES ASSUME ~HasMax(J) PROVE FALSE
  OBVIOUS
<1>2. FiniteSubsetsOf(J) = SUBSET J
  BY FS_FiniteSubsetsOfFinite
<1>3. J \in Bad
  BY <1>1, <1>2
<1>4. PICK U \in Bad : \A V \in Bad : ~(<<V, U>> \in StrictSubsetOrdering(J))
  <2>1. Bad # {} /\ Bad \subseteq FiniteSubsetsOf(J)
    BY <1>3
  <2> HIDE DEF Bad
  <2> QED BY <2>1, FS_StrictSubsetOrderingWellFounded, WFMin
<1>5. PICK u \in U : TRUE
  OBVIOUS
<1> DEFINE V == U \ {u}
<1>6. U \subseteq J /\ V \subseteq J /\ V \subseteq U /\ V # U
  BY <1>2, <1>5
<1>7. V \notin Bad
  BY <1>4, <1>2, <1>6 DEF StrictSubsetOrdering
<1>8. CASE V = {}
  BY <1>4, <1>5, <1>6, <1>8
<1>9. CASE HasMax(V)
  <2>1. PICK x \in V : \A y \in V : f[x] >= f[y]
    BY <1>9
  <2>2. f[x] \in Int /\ f[u] \in Int /\ \A y \in V : f[y] \in Int
    BY <1>5, <1>6, <2>1
  <2>3. HasMax(U)
    BY <1>5, <2>1, <2>2
  <2> QED BY <2>3, <1>4
<1> QED BY <1>2, <1>6, <1>7, <1>8, <1>9

LEMMA MinOfSet ==
    ASSUME NEW T \in SUBSET Nat, IsFiniteSet(T), T # {} PROVE Min(T) \in T /\ \A y \in T : Min(T) <= y
<1> DEFINE f == [x \in T |-> -x]
<1>1. PICK x \in T : \A y \in T : f[x] >= f[y]
  <2>1. f \in [T -> Int]
    OBVIOUS
  <2> QED BY <2>1, MaxExists
<1>2. \A y \in T : x <= y
  <2>1. SUFFICES ASSUME NEW y \in T PROVE x <= y
    OBVIOUS
  <2>2. -x >= -y /\ x \in Int /\ y \in Int
    BY <1>1
  <2> QED BY <2>2
<1> QED BY <1>2 DEF Min

-----------------------------------------------------------------------------
(* Sequences: what is cut off, and what a sort gives.                       *)
LEMMA Prefix ==
    ASSUME NEW S, NEW s \in Seq(S), NEW n \in Nat, n <= Len(s)
    PROVE  /\ SubSeq(s, 1, n) \in Seq(S) /\ Len(SubSeq(s, 1, n)) = n
           /\ \A i \in 1 .. n : SubSeq(s, 1, n)[i] = s[i]
<1>1. \A i \in 1 .. n : s[i] \in S
  OBVIOUS
<1> QED BY <1>1, SubSeqProperties

LEMMA Cut ==
    ASSUME NEW S, NEW s \in Seq(S), NEW n \in Nat
    PROVE  LET c == SubSeq(s, 1, Min({n, Len(s)})) IN
           /\ c \in Seq(S) /\ Len(c) <= Len(s) /\ Len(c) <= n /\ Len(c) = Min({n, Len(s)})
           /\ (n > 0 /\ s # << >> => c # << >>)
           /\ \A i \in 1 .. Len(c) : c[i] = s[i]
<1> DEFINE m == Min({n, Len(s)})
<1>1. m \in Nat /\ m <= Len(s) /\ m <= n /\ m \in {n, Len(s)}
  BY MinOfTwo
<1> HIDE DEF m
<1>2. /\ SubSeq(s, 1, m) \in Seq(S) /\ Len(SubSeq(s, 1, m)) = m
      /\ \A i \in 1 .. m : SubSeq(s, 1, m)[i] = s[i]
  BY <1>1, Prefix
<1>3. n > 0 /\ s # << >> => SubSeq(s, 1, m) # << >>
  <2>1. s # << >> => Len(s) > 0
    BY EmptySeq
  <2> QED BY <1>1, <1>2, <2>1, EmptySeq
<1> QED BY <1>1, <1>2, <1>3 DEF m

LEMMA MaxOfImage ==
    ASSUME NEW J, IsFiniteSet(J), J # {}, NEW f \in [J -> Int]
    PROVE  LET m == Max({f[j] : j \in J}) IN (\E x \in J : m = f[x]) /\ \A y \in J : m >= f[y]
<1>1. PICK x \in J : \A y \in J : f[x] >= f[y]
  BY MaxExists
<1>2. f[x] \in {f[j] : j \in J} /\ \A v \in {f[j] : j \in J} : f[x] >= v
  BY <1>1
<1> QED BY <1>2 DEF Max

(* A sort keeps what it is given, each once.                                *)
LEMMA SortedIs ==
    ASSUME NEW S, IsFiniteSet(S), NEW score, NEW s \in Sorted(S, score)
    PROVE  /\ s \in Seq(S) /\ Len(s) = Cardinality(S)
           /\ \A i, j \in DOMAIN s : i # j => s[i] # s[j]
           /\ \A c \in S : \E i \in DOMAIN s : s[i] = c
           /\ \A i, j \in DOMAIN s : i < j => score[s[i]] >= score[s[j]]
<1> DEFINE D == 1 .. Cardinality(S)
<1>1. /\ s \in [D -> S] /\ \A i, j \in D : i # j => s[i] # s[j]
      /\ \A i, j \in DOMAIN s : i < j => score[s[i]] >= score[s[j]]
  BY DEF Sorted, SetToSeqs
<1>2. Cardinality(S) \in Nat
  BY FS_CardinalityType
<1>3. s \in Seq(S) /\ Len(s) = Cardinality(S) /\ DOMAIN s = D
  BY <1>1, <1>2, IsASeq
<1>4. \A c \in S : \E i \in D : s[i] = c
  <2>1. IsFiniteSet(D) /\ Cardinality(D) = Cardinality(S)
    BY <1>2, FS_Interval
  <2>2. s \in Injection(D, S)
    BY <1>1 DEF Injection, IsInjective
  <2>3. s \in Surjection(D, S)
    BY <2>1, <2>2, FS_Injection
  <2> QED BY <2>3 DEF Surjection
<1> QED BY <1>1, <1>3, <1>4

(* What a scoring leaves: the best of the sorted, with their scores.        *)
LEMMA RankedIs ==
    ASSUME NEW S \in SUBSET Chunks, NEW score, \A c \in S : score[c] \in Nat, NEW s \in Sorted(S, score)
    PROVE  LET k == KeepTopRelativeScore(Ranked(s, score)) IN
           /\ k \in Seq(Hits) /\ (S # {} => k # << >>) /\ Len(k) <= Len(s)
           /\ s \in Seq(S) /\ \A c \in S : \E i \in DOMAIN s : s[i] = c
           /\ \A i \in DOMAIN k : k[i].chunk = s[i] /\ k[i].score = score[s[i]] /\ k[i].chunk \in S
           /\ \A i, j \in DOMAIN k : i # j => k[i].chunk # k[j].chunk
           /\ \A i, j \in DOMAIN s : i < j => score[s[i]] >= score[s[j]]
<1> DEFINE r == Ranked(s, score)
           below == {i \in DOMAIN r : 20 * r[i].score < 3 * r[1].score}
           n == Min(below \cup {Len(r) + 1}) - 1
           k == SubSeq(r, 1, n)
<1>0. IsFiniteSet(S)
  BY FS_Subset, ChunksAssumption
<1>1. /\ s \in Seq(S) /\ Len(s) = Cardinality(S)
      /\ \A i, j \in DOMAIN s : i # j => s[i] # s[j]
      /\ \A c \in S : \E i \in DOMAIN s : s[i] = c
      /\ \A i, j \in DOMAIN s : i < j => score[s[i]] >= score[s[j]]
  BY <1>0, SortedIs
<1>2. Len(s) \in Nat /\ DOMAIN s = 1 .. Len(s) /\ \A i \in 1 .. Len(s) : s[i] \in S
  BY <1>1, ElementOfSeq, LenProperties
<1>3. /\ r \in Seq(Hits) /\ Len(r) = Len(s) /\ DOMAIN r = 1 .. Len(s)
      /\ \A i \in 1 .. Len(s) : r[i].chunk = s[i] /\ r[i].score = score[s[i]]
  <2>1. /\ r = [i \in 1 .. Len(s) |-> [chunk |-> s[i], score |-> score[s[i]]]]
        /\ \A i \in 1 .. Len(s) : [chunk |-> s[i], score |-> score[s[i]]] \in Hits
    BY <1>2 DEF Ranked, Hits
  <2>2. r \in [1 .. Len(s) -> Hits]
    BY <2>1
  <2> QED BY <1>2, <2>1, <2>2, IsASeq, LenProperties
<1>4. n \in 0 .. Len(s) /\ (S # {} => n # 0)
  <2>1. below \cup {Len(r) + 1} \in SUBSET Nat /\ IsFiniteSet(below \cup {Len(r) + 1})
    <3>1. below \cup {Len(r) + 1} \subseteq 1 .. Len(s) + 1
      BY <1>2, <1>3
    <3>2. IsFiniteSet(1 .. Len(s) + 1)
      BY <1>2, FS_Interval
    <3> QED BY <1>2, <3>1, <3>2, FS_Subset
  <2>2. Min(below \cup {Len(r) + 1}) \in below \cup {Len(r) + 1}
    BY <2>1, MinOfSet
  <2>3. below \subseteq 1 .. Len(s) /\ Len(r) = Len(s)
    BY <1>3
  <2>4. Min(below \cup {Len(r) + 1}) \in 1 .. Len(s) + 1
    BY <1>2, <2>2, <2>3
  <2>5. ASSUME S # {} PROVE 1 \notin below /\ Len(s) # 0
    <3>1. Len(s) # 0 /\ 1 \in 1 .. Len(s)
      BY <1>1, <1>2, <2>5
    <3>2. r[1].score \in Nat
      BY <1>2, <1>3, <3>1
    <3> QED BY <3>1, <3>2
  <2>6. S # {} => Min(below \cup {Len(r) + 1}) # 1
    BY <1>2, <1>3, <2>2, <2>5
  <2> QED BY <1>2, <2>4, <2>6
<1>5. k \in Seq(Hits) /\ Len(k) = n /\ \A i \in 1 .. n : k[i] = r[i]
  <2>1. n \in Nat /\ n <= Len(r) /\ r \in Seq(Hits)
    BY <1>2, <1>3, <1>4
  <2> HIDE DEF r, n
  <2> QED BY <2>1, Prefix
<1>6. KeepTopRelativeScore(Ranked(s, score)) = k
  BY DEF KeepTopRelativeScore
<1> HIDE DEF r, n, k
<1>7. DOMAIN k = 1 .. n
  BY <1>4, <1>5, LenProperties
<1>8. \A i \in DOMAIN k : k[i].chunk = s[i] /\ k[i].score = score[s[i]] /\ k[i].chunk \in S
  BY <1>2, <1>3, <1>4, <1>5, <1>7
<1>9. \A i, j \in DOMAIN k : i # j => k[i].chunk # k[j].chunk
  BY <1>1, <1>2, <1>4, <1>7, <1>8
<1>10. S # {} => k # << >>
  BY <1>4, <1>5, EmptySeq
<1>11. Len(k) <= Len(s)
  BY <1>2, <1>4, <1>5
<1> QED BY <1>1, <1>5, <1>6, <1>8, <1>9, <1>10, <1>11

-----------------------------------------------------------------------------
(* The search changes nothing of what it searches.                          *)
LEMMA CorpusSame ==
    ASSUME UNCHANGED corpusVars
    PROVE  /\ Hybrid' = Hybrid /\ Filter' = Filter /\ Matching' = Matching
           /\ QueryCandidates' = QueryCandidates
           /\ \A c \in Chunks : Admitted(c)' = Admitted(c) /\ Findable(c)' = Findable(c)
           /\ UNCHANGED <<match, cosine, hidden, manager, unindexed, posted, anyIndex, expanded, request>>
<1>1. /\ Hybrid' = Hybrid /\ Filter' = Filter /\ Matching' = Matching
      /\ UNCHANGED <<match, cosine, hidden, manager, unindexed, posted, anyIndex, expanded, request>>
  BY DEF corpusVars, Hybrid, Filter, Matching
<1>2. \A c \in Chunks : Indexed(c)' = Indexed(c) /\ InSection(c)' = InSection(c)
  BY <1>1 DEF Indexed, InSection
<1>3. \A c \in Chunks : Admitted(c)' = Admitted(c)
  BY <1>1, <1>2 DEF Admitted
<1>4. Postings' = Postings /\ Postings \subseteq Chunks
  BY <1>1 DEF Postings, Matching
<1>5. QueryCandidates' = QueryCandidates
  BY <1>1, <1>2, <1>4 DEF QueryCandidates
<1>6. \A c \in Chunks : Findable(c)' = Findable(c)
  BY <1>3, <1>5 DEF Findable
<1> QED BY <1>1, <1>3, <1>5, <1>6

LEMMA CorpusTyped ==
    ASSUME SearchTypes, UNCHANGED corpusVars
    PROVE  match' \in [Chunks -> Nat] /\ cosine' \in [Chunks -> Nat] /\ request' \in Requests
  BY DEF SearchTypes, corpusVars

(* Sections that cannot be read only take from what must be found.          *)
LEMMA WantedKept ==
    ASSUME SearchTypes, UNCHANGED corpusVars, faults' = faults \/ Fails, unread' = {} => unread = {}
    PROVE  faults' \in Nat /\ (Wanted' => Wanted)
<1>1. faults' \in Nat
  BY DEF SearchTypes, Fails
<1>2. \A c \in Matching : c \in Chunks
  BY DEF Matching
<1> QED BY <1>1, <1>2, CorpusSame DEF Wanted

LEMMA SearchStarts == SearchInit => SearchInv
<1>1. SUFFICES ASSUME SearchInit PROVE SearchInv
  OBVIOUS
<1>2. /\ phase = "collect" /\ entries = {} /\ recalled = {} /\ bare = {} /\ dense = Zero
      /\ results = << >> /\ batches = << >> /\ docs = << >> /\ given = << >>
      /\ faults = 0 /\ unread = {} /\ ranking = "none"
  BY <1>1 DEF SearchInit
<1>3. match \in [Chunks -> Nat] /\ cosine \in [Chunks -> Nat] /\ request \in Requests /\ Zero \in [Chunks -> Nat]
  <2>1. Zero \in [Chunks -> Nat]
    BY DEF Zero
  <2>2. match \in [Chunks -> Scores] /\ cosine \in [Chunks -> Cosines] \cup {Zero} /\ request \in Requests
    BY <1>1 DEF SearchInit
  <2> QED BY <2>1, <2>2, ScoresAssumption
<1>4. DOMAIN given = {} /\ given \in [DOMAIN given -> Int]
  <2>1. << >> \in Seq(Int) /\ Len(<< >>) = 0
    BY EmptySeq
  <2>2. DOMAIN << >> = 1 .. 0 /\ << >> \in [1 .. 0 -> Int]
    BY <2>1, LenProperties
  <2> QED BY <1>2, <2>2
<1>5. SearchTypes
  BY <1>2, <1>3, <1>4, EmptySeq DEF SearchTypes, Phases
<1>6. PhaseInv /\ EntriesInv /\ WantedInv
  BY <1>2, <1>4 DEF PhaseInv, EntriesInv, WantedInv, Early
<1>7. HitsInv /\ BatchInv /\ LexicalInv /\ HitsDescend /\ NoneBetter /\ DocsDescend
  BY <1>2 DEF HitsInv, BatchInv, LexicalInv, HitsDescend, NoneBetter, DocsDescend
<1> QED BY <1>6, <1>7, <1>5 DEF SearchInv

-----------------------------------------------------------------------------
(* Candidates.  A step before the scoring leaves the ranking empty.         *)
LEMMA NoRankingYet ==
    ASSUME SearchInv, phase \in Early, phase' # "rerank",
           UNCHANGED <<results, batches, given, docs, ranking>>
    PROVE  HitsInv' /\ BatchInv' /\ LexicalInv' /\ HitsDescend' /\ NoneBetter' /\ DocsDescend'
<1>1. results' = << >> /\ docs' = << >> /\ ranking' = "none"
  BY DEF SearchInv, PhaseInv, Early
<1> QED BY <1>1 DEF HitsInv, BatchInv, LexicalInv, HitsDescend, NoneBetter, DocsDescend

LEMMA EarlyStep ==
    ASSUME SearchInv, phase \in Early, phase' \in Early \cup {"answered"},
           UNCHANGED <<corpusVars, results, batches, given, docs, ranking>>,
           faults' = faults \/ Fails, unread' = {} => unread = {}, dense' \in [Chunks -> Nat],
           phase' \in {"collect", "coarse"} => unread' = {},
           entries' \in SUBSET Chunks, bare' \in SUBSET entries',
           phase' \in {"collect", "coarse", "recall"} => bare' = {},
           phase' \in {"coarse", "recall", "dense", "score"} => entries' # {},
           phase' = "coarse" => Filter.coarse,
           EntriesInv',
           Wanted' => (\E c \in entries' \ bare' : match[c] > 0) /\ phase' # "answered"
    PROVE  SearchInv'
<1>1. /\ results' = << >> /\ batches' = << >> /\ docs' = << >> /\ ranking' = "none" /\ DOMAIN given' = {}
      /\ results = << >> /\ docs = << >>
  BY DEF SearchInv, PhaseInv, Early
<1>2. SearchTypes'
  BY CorpusTyped, WantedKept DEF SearchInv, SearchTypes, Phases, Early
<1>3. PhaseInv'
  BY <1>1, CorpusSame DEF PhaseInv, Early
<1>4. match' = match /\ phase' # "rerank"
  BY DEF corpusVars, Early
<1>5. WantedInv'
  BY <1>4 DEF WantedInv, Early
<1> QED BY <1>2, <1>3, <1>4, <1>5, NoRankingYet DEF SearchInv

LEMMA CollectStep == ASSUME SearchInv, CollectEntries PROVE SearchInv'
<1>1. /\ phase = "collect" /\ entries' = {c \in QueryCandidates : Admitted(c)}
      /\ phase' = CASE entries' = {} -> "answered"
                    [] entries' # {} /\ Filter.coarse -> "coarse"
                    [] OTHER -> "recall"
      /\ UNCHANGED <<corpusVars, recalled, bare, dense, results, batches, given, docs, faults, unread, ranking>>
  BY DEF CollectEntries, rerankVars, rankVars
<1>2. bare' = {} /\ unread' = {} /\ dense' \in [Chunks -> Nat]
  BY <1>1 DEF SearchInv, SearchTypes, PhaseInv
<1>3. entries' \in SUBSET Chunks /\ \A c \in Matching : Findable(c) => Admitted(c) /\ c \in QueryCandidates
  BY <1>1 DEF QueryCandidates, Postings, Matching, Findable
<1>4. /\ phase' \in {"answered", "coarse", "recall"}
      /\ entries' # {} => phase' \in {"coarse", "recall"}
      /\ entries' = {} => phase' = "answered"
      /\ phase' = "coarse" => Filter.coarse
  BY <1>1
<1>5. EntriesInv'
  <2>1. \A c \in Matching : Findable(c) => c \in entries'
    BY <1>1, <1>3
  <2>2. /\ Matching' = Matching /\ Matching \subseteq Chunks /\ QueryCandidates' = QueryCandidates
        /\ \A c \in Chunks : Admitted(c)' = Admitted(c) /\ Findable(c)' = Findable(c)
    BY <1>1, CorpusSame DEF Matching
  <2>3. \A c \in entries' : c \in Chunks /\ Admitted(c) /\ c \in QueryCandidates
    BY <1>1, <1>3
  <2> QED BY <1>4, <2>1, <2>2, <2>3 DEF EntriesInv
<1>6. ASSUME Wanted' PROVE (\E c \in entries' \ bare' : match[c] > 0) /\ phase' # "answered"
  <2>1. PICK c \in Matching : Findable(c)
    BY <1>1, <1>6, WantedKept DEF Wanted, SearchInv
  <2>2. c \in entries' /\ match[c] > 0
    BY <1>1, <1>3, <2>1 DEF Matching
  <2> QED BY <1>2, <1>4, <2>2
<1> QED BY <1>1, <1>2, <1>3, <1>4, <1>5, <1>6, EarlyStep DEF Early

LEMMA CoarseStep == ASSUME SearchInv, CoarseToFineFilter PROVE SearchInv'
<1>1. /\ unread' \in SUBSET SectionsOf(entries)
      /\ LET read == SectionsOf(entries) \ unread' IN
          /\ IF unread' = {} THEN UNCHANGED faults ELSE Fails
          /\ IF read = {} THEN UNCHANGED entries
             ELSE \E T \in SUBSET {s \in read : SectionMatches(s)} :
                     /\ Cardinality(T) = Min({TopSections, Cardinality({s \in read : SectionMatches(s)})})
                     /\ entries' = InSections(T)
  BY DEF CoarseToFineFilter
<1>2. /\ phase = "coarse" /\ phase' = IF entries' = {} THEN "answered" ELSE "recall"
      /\ UNCHANGED <<corpusVars, recalled, bare, dense, results, batches, given, docs, ranking>>
      /\ faults' = faults \/ Fails
  BY <1>1 DEF CoarseToFineFilter, rerankVars, rankVars
<1>3. bare' = {} /\ unread = {} /\ dense' \in [Chunks -> Nat] /\ entries \in SUBSET Chunks
  BY <1>2 DEF SearchInv, SearchTypes, PhaseInv
<1>4. entries' \in SUBSET entries
  BY <1>1 DEF InSections
<1>5. EntriesInv'
  BY <1>2, <1>3, <1>4, CorpusSame DEF SearchInv, EntriesInv
<1>6. ASSUME Wanted' PROVE (\E c \in entries' \ bare' : match[c] > 0) /\ phase' # "answered"
  <2>1. PICK c \in entries \ bare : match[c] > 0
    BY <1>2, <1>3, <1>6, WantedKept DEF SearchInv, WantedInv
  <2>2. c \in Chunks /\ c \in Matching
    BY <1>3, <2>1 DEF Matching
  <2>3. unread' = {} /\ ~expanded
    BY <1>2, <1>6, CorpusSame DEF Wanted, SearchInv, PhaseInv
  <2> DEFINE matching == {s \in SectionsOf(entries) : SectionMatches(s)}
  <2>4. SectionsOf(entries) = {} => entries' = entries
    BY <1>1, <2>3
  <2>5. SectionsOf(entries) # {} =>
           \E T \in SUBSET matching :
              Cardinality(T) = Min({TopSections, Cardinality(matching)}) /\ entries' = InSections(T)
    BY <1>1, <2>3
  <2>6. CASE SectionOf(c) = None
    <3>1. c \in entries'
      BY <2>1, <2>4, <2>5, <2>6 DEF InSections
    <3> QED BY <1>2, <1>3, <2>1, <3>1
  <2>7. CASE SectionOf(c) # None
    <3>1. SectionOf(c) \in matching /\ SectionsOf(entries) # {}
      BY <2>1, <2>2, <2>3, <2>7 DEF SectionsOf, SectionOf, SectionMatches
    <3>2. PICK T \in SUBSET matching :
             Cardinality(T) = Min({TopSections, Cardinality(matching)}) /\ entries' = InSections(T)
      BY <2>5, <3>1
    <3>3. T # {}
      <4>1. IsFiniteSet(matching)
        <5>1. IsFiniteSet(entries)
          BY <1>3, FS_Subset, ChunksAssumption
        <5>2. IsFiniteSet({SectionOf(e) : e \in entries})
          <6> DEFINE f == [e \in entries |-> SectionOf(e)]
          <6>1. f \in Surjection(entries, {SectionOf(e) : e \in entries})
            BY DEF Surjection
          <6> QED BY <5>1, <6>1, FS_Surjection
        <5> QED BY <5>2, FS_Subset DEF SectionsOf
      <4>2. Cardinality(matching) \in Nat /\ Cardinality(matching) # 0
        BY <3>1, <4>1, FS_CardinalityType, FS_EmptySet
      <4>3. Cardinality(T) # 0
        BY <3>2, <4>2, MinOfTwo, LimitsAssumption
      <4> QED BY <4>3, FS_EmptySet
    <3>4. PICK t \in T : TRUE
      BY <3>3
    <3>5. PICK e \in entries : SectionOf(e) = t /\ t # None
      BY <3>2, <3>4 DEF SectionsOf
    <3>6. PICK d \in Matching : Section[d] = t
      BY <3>2, <3>4 DEF SectionMatches
    <3>7. /\ d \in Chunks /\ e \in Chunks /\ match[d] > 0
          /\ Section[e] = t /\ Indexed(e) /\ Doc[d] = Doc[e]
      <4>1. d \in Chunks /\ e \in Chunks /\ match[d] > 0 /\ Section[e] = t /\ Indexed(e)
        BY <1>3, <3>5, <3>6 DEF Matching, SectionOf
      <4> QED BY <3>5, <3>6, <4>1, ChunksAssumption
    <3>8. Admitted(e)
      BY <1>2, <3>5 DEF SearchInv, EntriesInv
    <3>9. Admitted(d) /\ Indexed(d) /\ SectionOf(d) = t
      BY <3>5, <3>6, <3>7, <3>8 DEF Admitted, Indexed, InSection, SectionOf
    <3>10. d \in QueryCandidates
      <4>1. e \in QueryCandidates
        BY <1>2, <3>5 DEF SearchInv, EntriesInv
      <4>2. Postings # {} => e \in Postings
        BY <4>1 DEF QueryCandidates
      <4> QED BY <3>6, <3>7, <3>9, <4>2 DEF QueryCandidates, Postings
    <3>11. Findable(d)
      BY <3>9, <3>10 DEF Findable
    <3>12. d \in entries'
      BY <1>2, <3>2, <3>4, <3>6, <3>9, <3>11 DEF SearchInv, EntriesInv, InSections
    <3> QED BY <1>2, <1>3, <3>7, <3>12
  <2> QED BY <2>6, <2>7
<1>7. /\ phase \in Early /\ phase' \in {"recall", "answered"} /\ (entries' = {} <=> phase' = "answered")
      /\ entries' \in SUBSET Chunks
  BY <1>2, <1>3, <1>4 DEF Early
<1> QED BY <1>2, <1>3, <1>5, <1>6, <1>7, EarlyStep DEF Early

LEMMA RecallStep == ASSUME SearchInv, Recall PROVE SearchInv'
<1>1. /\ phase = "recall" /\ phase' = IF Hybrid THEN "dense" ELSE "score"
      /\ UNCHANGED <<corpusVars, dense, results, batches, given, docs, faults, unread, ranking>>
      /\ IF anyIndex
         THEN \E hits \in TopOf(Beam, {c \in Chunks : cosine[c] > 0}, cosine) :
                 bare' = hits \ entries /\ entries' = entries \cup hits
         ELSE UNCHANGED <<bare, entries>>
  BY DEF Recall, rerankVars, rankVars
<1>2. /\ entries \in SUBSET Chunks /\ entries # {} /\ bare = {} /\ dense' \in [Chunks -> Nat]
      /\ Wanted => \E c \in entries \ bare : match[c] > 0
  BY <1>1 DEF SearchInv, SearchTypes, PhaseInv, WantedInv
<1>3. /\ entries' \in SUBSET Chunks /\ entries \subseteq entries' /\ bare' \in SUBSET entries'
      /\ bare' \cap entries = {}
      /\ ~anyIndex => entries' = entries
  BY <1>1, <1>2 DEF TopOf
<1>4. EntriesInv'
  BY <1>1, <1>2, <1>3, CorpusSame DEF SearchInv, EntriesInv
<1>5. Wanted' => (\E c \in entries' \ bare' : match[c] > 0) /\ phase' # "answered"
  BY <1>1, <1>2, <1>3, WantedKept DEF SearchInv
<1>6. phase \in Early /\ phase' \in {"dense", "score"}
  BY <1>1 DEF Early
<1>7. entries' # {}
  BY <1>2, <1>3
<1> QED BY <1>1, <1>2, <1>3, <1>4, <1>5, <1>6, <1>7, EarlyStep DEF Early

(* The steps that find the vectors' scores leave the candidates.            *)
LEMMA DenseStep ==
    ASSUME SearchInv, phase \in {"recall", "dense"}, phase' \in {"dense", "score"},
           UNCHANGED <<corpusVars, entries, recalled, bare, results, batches, given, docs, unread, ranking>>,
           faults' = faults \/ Fails, dense' \in [Chunks -> Nat]
    PROVE  SearchInv'
<1>1. /\ entries' \in SUBSET Chunks /\ entries' # {} /\ bare' \in SUBSET entries'
      /\ Wanted => \E c \in entries \ bare : match[c] > 0
  BY DEF SearchInv, SearchTypes, PhaseInv, WantedInv
<1>2. EntriesInv'
  BY <1>1, CorpusSame DEF SearchInv, EntriesInv
<1>3. Wanted' => (\E c \in entries' \ bare' : match[c] > 0) /\ phase' # "answered"
  BY <1>1, WantedKept DEF SearchInv
<1>4. phase \in Early /\ phase' \notin {"collect", "coarse", "recall", "answered"} /\ phase' \in Early
  BY DEF Early
<1> QED BY <1>1, <1>2, <1>3, <1>4, EarlyStep

LEMMA EmbeddingFailsStep == ASSUME SearchInv, EmbeddingFails PROVE SearchInv'
<1>1. /\ Fails /\ phase \in {"recall", "dense"} /\ phase' \in {"dense", "score"}
      /\ UNCHANGED <<corpusVars, entries, recalled, bare, results, batches, given, docs, unread, ranking>>
      /\ dense' = dense \/ dense' = [c \in Chunks |-> IF c \in recalled THEN cosine[c] ELSE 0]
  BY DEF EmbeddingFails, rerankVars, rankVars
<1>2. dense' \in [Chunks -> Nat]
  <2>1. dense \in [Chunks -> Nat] /\ cosine \in [Chunks -> Nat]
    BY DEF SearchInv, SearchTypes
  <2>2. CASE dense' = [c \in Chunks |-> IF c \in recalled THEN cosine[c] ELSE 0]
    <3>1. \A c \in Chunks : (IF c \in recalled THEN cosine[c] ELSE 0) \in Nat
      BY <2>1
    <3> QED BY <2>2, <3>1
  <2> QED BY <1>1, <2>1, <2>2
<1> QED BY <1>1, <1>2, DenseStep

LEMMA DenseScoringStep == ASSUME SearchInv, DenseScoring PROVE SearchInv'
<1>1. /\ phase = "dense" /\ phase' = "score" /\ faults' = faults
      /\ UNCHANGED <<corpusVars, entries, recalled, bare, results, batches, given, docs, unread, ranking>>
      /\ dense' = [c \in Chunks |->
            IF c \in recalled \/ (c \in entries /\ Indexed(c)) THEN cosine[c] ELSE 0]
  BY DEF DenseScoring, rerankVars, rankVars
<1>2. dense' \in [Chunks -> Nat]
  <2>1. \A c \in Chunks : (IF c \in recalled \/ (c \in entries /\ Indexed(c)) THEN cosine[c] ELSE 0) \in Nat
    BY DEF SearchInv, SearchTypes
  <2> QED BY <1>1, <2>1
<1> QED BY <1>1, <1>2, DenseStep

-----------------------------------------------------------------------------
(* Scores.                                                                  *)
LEMMA FirstCandidates ==
    ASSUME SearchTypes
    PROVE  /\ Candidates \in Seq(Hits) /\ Len(Candidates) \in Nat /\ Len(Candidates) <= Len(results)
           /\ (results # << >> => Candidates # << >>)
           /\ \A i \in 1 .. Len(Candidates) : Candidates[i] = results[i]
<1>1. results \in Seq(Hits) /\ CandLimit \in Nat /\ CandLimit > 0
  BY LimitsAssumption DEF SearchTypes
<1>2. /\ Candidates \in Seq(Hits) /\ Len(Candidates) <= Len(results)
      /\ (results # << >> => Candidates # << >>)
      /\ \A i \in 1 .. Len(Candidates) : Candidates[i] = results[i]
  BY <1>1, Cut DEF Candidates
<1> QED BY <1>2, LenProperties

LEMMA ScoredStep ==
    ASSUME SearchInv, phase = "score", phase' = "rerank",
           UNCHANGED <<corpusVars, entries, bare, dense, batches, given, docs, faults, unread>>,
           ranking' \in {"bm25", "rrf"},
           NEW S \in SUBSET entries, NEW score, \A c \in S : score[c] \in Nat, NEW s \in Sorted(S, score),
           results' = KeepTopRelativeScore(Ranked(s, score)),
           ~Hybrid => \A c \in S : match[c] > 0, Wanted => S # {},
           \A c \in entries : \A e \in S :
              \/ ranking' = "bm25" /\ match[c] > match[e]
              \/ ranking' = "rrf" /\ Lexical(c) > Lexical(e) /\ dense[c] > dense[e]
              => c \in S /\ score[c] > score[e]
    PROVE  SearchInv'
<1>1. /\ SearchTypes /\ S \in SUBSET Chunks /\ entries # {} /\ batches = << >> /\ docs = << >> /\ DOMAIN given = {}
      /\ Wanted => \E c \in entries \ bare : match[c] > 0
  BY DEF SearchInv, SearchTypes, PhaseInv, WantedInv, Early
<1>2. /\ results' \in Seq(Hits) /\ (S # {} => results' # << >>) /\ Len(results') <= Len(s)
      /\ s \in Seq(S)
      /\ \A i \in DOMAIN results' : /\ results'[i].chunk = s[i] /\ results'[i].score = score[s[i]]
                                    /\ results'[i].chunk \in S
      /\ \A i, j \in DOMAIN results' : i # j => results'[i].chunk # results'[j].chunk
      /\ \A i, j \in DOMAIN s : i < j => score[s[i]] >= score[s[j]]
  BY <1>1, RankedIs
<1>3. SearchTypes'
  BY <1>1, <1>2, CorpusTyped DEF SearchTypes, Phases
<1>4. PhaseInv' /\ EntriesInv'
  <2>1. PhaseInv'
    BY <1>1 DEF PhaseInv, Early
  <2>2. EntriesInv'
    BY <1>1, CorpusSame DEF SearchInv, SearchTypes, EntriesInv
  <2> QED BY <2>1, <2>2
<1>5. HitsInv' /\ LexicalInv'
  BY <1>1, <1>2, CorpusSame DEF HitsInv, LexicalInv
<1>6. HitsDescend'
  <2>1. DOMAIN results' = 1 .. Len(results') /\ DOMAIN s = 1 .. Len(s)
    BY <1>2, LenProperties
  <2>2. \A i \in DOMAIN results' : i \in DOMAIN s
    BY <1>2, <2>1, LenProperties
  <2>3. \A i, j \in DOMAIN results' : i < j => results'[i].score >= results'[j].score
    BY <1>2, <2>2
  <2> QED BY <2>3 DEF HitsDescend
<1>7. BatchInv'
  <2>1. Len(Candidates)' \in Nat
    BY <1>3, FirstCandidates
  <2>2. Len(batches)' = 0 /\ DOMAIN batches' = {} /\ DOMAIN given' = {}
    BY <1>1
  <2> QED BY <2>1, <2>2 DEF BatchInv
<1>8. WantedInv'
  BY <1>1, <1>2, CorpusSame, WantedKept DEF WantedInv
<1>9. DocsDescend'
  BY <1>1 DEF DocsDescend
<1>10. NoneBetter'
  <2>1. \A c \in S : \E i \in DOMAIN s : s[i] = c
    BY <1>1, FS_Subset, ChunksAssumption, SortedIs
  <2>2. SUFFICES ASSUME NEW j \in DOMAIN results', NEW c \in entries,
                        \/ ranking' = "bm25" /\ match[c] > match[results'[j].chunk]
                        \/ ranking' = "rrf" /\ Lexical(c) > Lexical(results'[j].chunk)
                           /\ dense[c] > dense[results'[j].chunk]
                 PROVE  \E i \in 1 .. j - 1 : results'[i].chunk = c
    <3>1. (\A c : Lexical(c)' = Lexical(c)) /\ UNCHANGED <<entries, dense, match>>
      BY CorpusSame DEF Lexical
    <3> QED BY <3>1 DEF NoneBetter, Better
  <2>3. c \in S /\ s[j] \in S /\ score[c] > score[s[j]] /\ score[c] \in Nat /\ score[s[j]] \in Nat
    BY <1>2, <2>2
  <2>4. PICK i \in DOMAIN s : s[i] = c
    BY <2>1, <2>3
  <2>5. /\ i \in 1 .. Len(s) /\ j \in 1 .. Len(results') /\ j \in DOMAIN s
        /\ Len(s) \in Nat /\ Len(results') \in Nat /\ DOMAIN results' = 1 .. Len(results')
    BY <1>2, <2>4, LenProperties
  <2>6. i < j
    <3>1. CASE j < i
      BY <1>2, <2>3, <2>4, <2>5, <3>1
    <3>2. CASE i = j
      BY <2>3, <2>4, <3>2
    <3> QED BY <2>5, <3>1, <3>2
  <2>7. i \in 1 .. j - 1 /\ i \in DOMAIN results'
    BY <2>5, <2>6
  <2> QED BY <1>2, <2>4, <2>7
<1> QED BY <1>3, <1>4, <1>5, <1>6, <1>7, <1>8, <1>9, <1>10 DEF SearchInv

LEMMA BM25Step == ASSUME SearchInv, BM25Scoring PROVE SearchInv'
<1> DEFINE S == {c \in entries : match[c] > 0}
<1>1. PICK s \in Sorted(S, match) : results' = KeepTopRelativeScore(Ranked(s, match))
  BY DEF BM25Scoring
<1>2. /\ phase = "score" /\ phase' = "rerank" /\ ranking' = "bm25"
      /\ UNCHANGED <<corpusVars, entries, bare, dense, batches, given, docs, faults, unread>>
  BY DEF BM25Scoring, rerankVars
<1>3. /\ S \in SUBSET entries /\ \A c \in S : match[c] \in Nat /\ match[c] > 0
      /\ \A c \in entries : match[c] \in Nat /\ (match[c] > 0 => c \in S)
  BY DEF SearchInv, SearchTypes
<1>4. Wanted => S # {}
  BY <1>2 DEF SearchInv, WantedInv, Early
<1> HIDE DEF S
<1>5. \A c \in entries : \A e \in S : match[c] > match[e] => c \in S
  BY <1>3
<1> QED BY <1>1, <1>2, <1>3, <1>4, <1>5, ScoredStep

LEMMA ReciprocalIs ==
    /\ \A i \in 1 .. Cardinality(Chunks) : Reciprocal(i) \in Nat /\ Reciprocal(i) > 0
    /\ \A i, j \in 1 .. Cardinality(Chunks) : i < j => Reciprocal(i) > Reciprocal(j)
<1>1. Cardinality(Chunks) \in Nat
  BY ChunksAssumption, FS_CardinalityType
<1>2. ASSUME NEW i \in 1 .. Cardinality(Chunks) + 1 PROVE Reciprocal(i) \in Nat
  <2>1. rrfK + i - 1 \in Nat \ {0}
    BY <1>1 DEF rrfK
  <2> QED BY <2>1, RanksAssumption DEF Reciprocal
<1>3. ASSUME NEW i \in 1 .. Cardinality(Chunks) PROVE Reciprocal(i) > Reciprocal(Cardinality(Chunks) + 1)
  BY <1>1, RanksAssumption
<1> QED BY <1>1, <1>2, <1>3, RanksAssumption

LEMMA ShareIs ==
    ASSUME entries \in SUBSET Chunks, NEW score, \A c \in entries : score[c] \in Nat,
           NEW order \in Sorted(entries, score)
    PROVE  /\ \A c \in entries : Share(c, order, score) \in Nat /\ (score[c] > 0 => Share(c, order, score) > 0)
           /\ \A c, d \in entries : score[c] > score[d] => Share(c, order, score) > Share(d, order, score)
<1>1. IsFiniteSet(entries) /\ Cardinality(entries) \in Nat /\ Cardinality(Chunks) \in Nat
      /\ Cardinality(entries) <= Cardinality(Chunks)
  BY FS_Subset, FS_CardinalityType, ChunksAssumption
<1>2. /\ order \in Seq(entries) /\ Len(order) = Cardinality(entries)
      /\ \A c \in entries : \E i \in DOMAIN order : order[i] = c
      /\ \A i, j \in DOMAIN order : i < j => score[order[i]] >= score[order[j]]
  BY <1>1, SortedIs
<1>3. DOMAIN order \subseteq 1 .. Cardinality(Chunks)
  BY <1>1, <1>2, LenProperties
<1>4. \A c \in entries : RankIn(order, c) \in DOMAIN order /\ order[RankIn(order, c)] = c
  BY <1>2 DEF RankIn
<1>5. \A c \in entries : Reciprocal(RankIn(order, c)) \in Nat /\ Reciprocal(RankIn(order, c)) > 0
  BY <1>3, <1>4, ReciprocalIs
<1>6. ASSUME NEW c \in entries, NEW d \in entries, score[c] > score[d]
      PROVE  Share(c, order, score) > Share(d, order, score)
  <2> DEFINE i == RankIn(order, c)
             j == RankIn(order, d)
  <2>1. i \in 1 .. Cardinality(Chunks) /\ j \in 1 .. Cardinality(Chunks)
    BY <1>3, <1>4
  <2>2. ~(j <= i)
    <3>1. CASE i = j
      BY <1>4, <1>6, <3>1
    <3>2. CASE j < i
      BY <1>2, <1>4, <1>6, <3>2
    <3> QED BY <1>1, <2>1, <3>1, <3>2
  <2>3. Reciprocal(i) > Reciprocal(j)
    BY <1>1, <2>1, <2>2, ReciprocalIs
  <2> HIDE DEF i, j
  <2>4. Share(c, order, score) = Reciprocal(i) /\ Share(d, order, score) \in {Reciprocal(j), 0}
    BY <1>6 DEF Share, i, j
  <2>5. Reciprocal(i) \in Nat /\ Reciprocal(i) > 0
    BY <1>5 DEF i
  <2> QED BY <2>3, <2>4, <2>5
<1>7. \A c \in entries : Share(c, order, score) \in Nat /\ (score[c] > 0 => Share(c, order, score) > 0)
  BY <1>5 DEF Share
<1> QED BY <1>6, <1>7

LEMMA FusedIs ==
    ASSUME SearchTypes, NEW alpha \in Weights, NEW b \in Sorted(entries, Lexicals), NEW d \in Sorted(entries, dense)
    PROVE  LET rrf == Fused(alpha, b, d) IN
           /\ \A c \in entries : rrf[c] \in Nat /\ (Lexical(c) > 0 => rrf[c] > 0)
           /\ \A c, e \in entries : Lexical(c) > Lexical(e) /\ dense[c] > dense[e] => rrf[c] > rrf[e]
<1>1. entries \in SUBSET Chunks /\ (\A c \in entries : dense[c] \in Nat)
      /\ (\A c \in entries : Lexicals[c] = Lexical(c) /\ Lexicals[c] \in Nat)
  BY DEF SearchTypes, Lexicals, Lexical
<1>2. /\ \A c \in entries : Share(c, b, Lexicals) \in Nat /\ (Lexicals[c] > 0 => Share(c, b, Lexicals) > 0)
      /\ \A c, e \in entries : Lexicals[c] > Lexicals[e] => Share(c, b, Lexicals) > Share(e, b, Lexicals)
  BY <1>1, ShareIs
<1>3. /\ \A c \in entries : Share(c, d, dense) \in Nat
      /\ \A c, e \in entries : dense[c] > dense[e] => Share(c, d, dense) > Share(e, d, dense)
  BY <1>1, ShareIs
<1>4. \A c \in entries : Fused(alpha, b, d)[c] = alpha * Share(c, b, Lexicals) + (10 - alpha) * Share(c, d, dense)
  BY DEF Fused
<1>5. ASSUME NEW x \in Nat, NEW y \in Nat
      PROVE  /\ alpha * x + (10 - alpha) * y \in Nat
             /\ x > 0 => alpha * x + (10 - alpha) * y > 0
             /\ \A u, v \in Nat : x > u /\ y > v => alpha * x + (10 - alpha) * y > alpha * u + (10 - alpha) * v
  <2>1. CASE alpha = 4
    BY <2>1
  <2>2. CASE alpha = 5
    BY <2>2
  <2>3. CASE alpha = 6
    BY <2>3
  <2> QED BY <2>1, <2>2, <2>3 DEF Weights
<1>6. \A c \in entries : Fused(alpha, b, d)[c] \in Nat /\ (Lexical(c) > 0 => Fused(alpha, b, d)[c] > 0)
  BY <1>1, <1>2, <1>3, <1>4, <1>5
<1>7. ASSUME NEW c \in entries, NEW e \in entries, Lexical(c) > Lexical(e), dense[c] > dense[e]
      PROVE  Fused(alpha, b, d)[c] > Fused(alpha, b, d)[e]
  <2>1. Share(c, b, Lexicals) > Share(e, b, Lexicals) /\ Share(c, d, dense) > Share(e, d, dense)
    BY <1>1, <1>2, <1>3, <1>7
  <2> QED BY <1>2, <1>3, <1>4, <1>5, <2>1
<1> QED BY <1>6, <1>7

LEMMA RRFStep == ASSUME SearchInv, RRFFusion PROVE SearchInv'
<1>1. PICK alpha \in Weights, b \in Sorted(entries, Lexicals), d \in Sorted(entries, dense) :
          \E s \in Sorted({c \in entries : Fused(alpha, b, d)[c] > 0}, Fused(alpha, b, d)) :
             results' = KeepTopRelativeScore(Ranked(s, Fused(alpha, b, d)))
  BY DEF RRFFusion
<1> DEFINE rrf == Fused(alpha, b, d)
           S == {c \in entries : rrf[c] > 0}
<1>2. PICK s \in Sorted(S, rrf) : results' = KeepTopRelativeScore(Ranked(s, rrf))
  BY <1>1
<1>3. /\ phase = "score" /\ phase' = "rerank" /\ ranking' = "rrf" /\ Hybrid
      /\ UNCHANGED <<corpusVars, entries, bare, dense, batches, given, docs, faults, unread>>
  BY DEF RRFFusion, rerankVars
<1>4. /\ \A c \in entries : rrf[c] \in Nat /\ (Lexical(c) > 0 => rrf[c] > 0)
      /\ \A c, e \in entries : Lexical(c) > Lexical(e) /\ dense[c] > dense[e] => rrf[c] > rrf[e]
  BY <1>1, FusedIs DEF SearchInv
<1>5. S \in SUBSET entries /\ entries \in SUBSET Chunks /\ \A c \in S : rrf[c] \in Nat /\ rrf[c] > 0
  BY <1>4 DEF SearchInv, SearchTypes
<1>6. Wanted => S # {}
  <2>1. Wanted => \E c \in entries \ bare : match[c] > 0
    BY <1>3 DEF SearchInv, WantedInv, Early
  <2> QED BY <2>1, <1>4 DEF Lexical
<1>7. \A c \in entries : rrf[c] > 0 => c \in S
  OBVIOUS
<1> HIDE DEF rrf, S
<1>8. \A c \in entries : \A e \in S :
         Lexical(c) > Lexical(e) /\ dense[c] > dense[e] => c \in S /\ rrf[c] > rrf[e]
  <2>1. SUFFICES ASSUME NEW c \in entries, NEW e \in S, Lexical(c) > Lexical(e), dense[c] > dense[e]
                 PROVE  c \in S /\ rrf[c] > rrf[e]
    OBVIOUS
  <2>2. rrf[c] > rrf[e] /\ rrf[e] \in Nat /\ rrf[c] \in Nat
    BY <1>4, <1>5, <2>1
  <2>3. rrf[c] > 0
    BY <2>2
  <2> QED BY <1>7, <2>2, <2>3
<1> QED BY <1>2, <1>3, <1>5, <1>6, <1>8, ScoredStep

-----------------------------------------------------------------------------
(* The ranking after the scoring.  Steps that order or cut it keep every    *)
(* hit a candidate, and some of it.                                         *)
LEMMA RankingStep ==
    ASSUME SearchInv, phase \in {"rerank", "cap"}, phase' \in {"cap", "group", "answered"},
           UNCHANGED <<corpusVars, entries, bare, dense, batches, given, docs, unread>>, faults' = faults \/ Fails,
           ranking' \in {"none", "bm25", "rrf", "reranked"}, results' \in Seq(Hits),
           \A i \in DOMAIN results' : \E j \in DOMAIN results : results'[i].chunk = results[j].chunk,
           \A i, j \in DOMAIN results' : i # j => results'[i].chunk # results'[j].chunk,
           results # << >> => results' # << >>,
           ranking' = "reranked" =>
              \A i \in DOMAIN results' :
                 results'[i].chunk \in DOMAIN given /\ results'[i].score = given[results'[i].chunk],
           HitsDescend', NoneBetter', phase' = "answered" => ~request.docs
    PROVE  SearchInv'
<1>1. /\ SearchTypes /\ docs = << >>
      /\ Wanted => (\E c \in entries \ bare : match[c] > 0) /\ results # << >>
  BY DEF SearchInv, PhaseInv, WantedInv, Early
<1>2. SearchTypes'
  BY <1>1, CorpusTyped, WantedKept DEF SearchTypes, Phases
<1>3. PhaseInv'
  BY <1>1 DEF PhaseInv, Early
<1>4. EntriesInv'
  BY <1>1, CorpusSame DEF SearchInv, SearchTypes, EntriesInv
<1>5. HitsInv' /\ LexicalInv'
  BY CorpusSame DEF SearchInv, HitsInv, LexicalInv
<1>6. BatchInv'
  BY DEF BatchInv
<1>7. WantedInv'
  BY <1>1, CorpusSame, WantedKept DEF WantedInv
<1>8. DocsDescend'
  BY <1>1 DEF DocsDescend
<1> QED BY <1>2, <1>3, <1>4, <1>5, <1>6, <1>7, <1>8 DEF SearchInv

(* What a ranking keeps that is cut, or given other scores.                 *)
LEMMA CutKeeps ==
    ASSUME SearchInv, results' \in Seq(Hits), Len(results') <= Len(results),
           \A i \in 1 .. Len(results') : results'[i].chunk = results[i].chunk,
           UNCHANGED <<corpusVars, entries, bare, dense, given, ranking>>
    PROVE  /\ DOMAIN results' \subseteq DOMAIN results
           /\ \A i \in DOMAIN results' : \E j \in DOMAIN results : results'[i].chunk = results[j].chunk
           /\ \A i, j \in DOMAIN results' : i # j => results'[i].chunk # results'[j].chunk
           /\ NoneBetter'
<1>1. /\ DOMAIN results = 1 .. Len(results) /\ DOMAIN results' = 1 .. Len(results')
      /\ Len(results) \in Nat /\ Len(results') \in Nat
  BY LenProperties DEF SearchInv, SearchTypes
<1>2. DOMAIN results' \subseteq DOMAIN results /\ \A i \in DOMAIN results' : results'[i].chunk = results[i].chunk
  BY <1>1
<1>3. \A i, j \in DOMAIN results' : i # j => results'[i].chunk # results'[j].chunk
  BY <1>2 DEF SearchInv, HitsInv
<1>4. NoneBetter'
  <2>1. /\ \A c : Lexical(c)' = Lexical(c)
        /\ UNCHANGED <<match, entries, dense, given, ranking>>
    BY CorpusSame DEF Lexical
  <2>2. SUFFICES ASSUME NEW j \in DOMAIN results', NEW c \in entries, Better(c, results[j].chunk)
                 PROVE  \E i \in 1 .. j - 1 : results'[i].chunk = c
    BY <1>2, <2>1 DEF NoneBetter, Better
  <2>3. PICK i \in 1 .. j - 1 : results[i].chunk = c
    BY <1>2, <2>2 DEF SearchInv, NoneBetter
  <2>4. i \in DOMAIN results'
    BY <1>1, <2>3
  <2> QED BY <1>2, <2>3, <2>4
<1> QED BY <1>2, <1>3, <1>4

(* What is left in its place keeps its order.                               *)
LEMMA StillDescends ==
    ASSUME SearchInv, DOMAIN results' \subseteq DOMAIN results,
           \A i \in DOMAIN results' : results'[i] = results[i], UNCHANGED rescored
    PROVE  HitsDescend'
  BY DEF SearchInv, HitsDescend

LEMMA CapStep == ASSUME SearchInv, Cap PROVE SearchInv'
<1>1. /\ phase = "cap" /\ results' = SubSeq(results, 1, Min({ChunkLimit, Len(results)}))
      /\ phase' = IF request.docs THEN "group" ELSE "answered"
      /\ UNCHANGED <<corpusVars, entries, bare, dense, batches, given, docs, faults, unread, ranking, rescored>>
  BY DEF Cap, rerankVars, rankVars
<1>2. ChunkLimit \in Nat /\ ChunkLimit > 0
  BY LimitsAssumption DEF ChunkLimit
<1>3. /\ results \in Seq(Hits) /\ ranking \in {"none", "bm25", "rrf", "reranked"}
      /\ ranking = "reranked" =>
            \A i \in DOMAIN results :
               results[i].chunk \in DOMAIN given /\ results[i].score = given[results[i].chunk]
  BY DEF SearchInv, SearchTypes, BatchInv
<1>4. /\ results' \in Seq(Hits) /\ Len(results') <= Len(results) /\ (results # << >> => results' # << >>)
      /\ \A i \in 1 .. Len(results') : results'[i] = results[i]
  BY <1>1, <1>2, <1>3, Cut
<1>5. /\ DOMAIN results' \subseteq DOMAIN results
      /\ \A i \in DOMAIN results' : \E j \in DOMAIN results : results'[i].chunk = results[j].chunk
      /\ \A i, j \in DOMAIN results' : i # j => results'[i].chunk # results'[j].chunk
      /\ NoneBetter'
  BY <1>1, <1>4, CutKeeps
<1>6. \A i \in DOMAIN results' : results'[i] = results[i]
  BY <1>4, LenProperties
<1>7. ranking' = "reranked" =>
         \A i \in DOMAIN results' :
            results'[i].chunk \in DOMAIN given /\ results'[i].score = given[results'[i].chunk]
  BY <1>1, <1>3, <1>5, <1>6
<1>8. phase' \in {"cap", "group", "answered"} /\ (phase' = "answered" => ~request.docs)
  BY <1>1
<1>9. HitsDescend'
  BY <1>1, <1>5, <1>6, StillDescends
<1> QED BY <1>1, <1>3, <1>4, <1>5, <1>7, <1>8, <1>9, RankingStep

(* A ranking that stays, on the way to the cut.                             *)
LEMMA NotRerankedStep == ASSUME SearchInv, NotReranked PROVE SearchInv'
<1>1. /\ phase = "rerank" /\ phase' = "cap"
      /\ UNCHANGED <<corpusVars, entries, bare, dense, results, batches, given, docs, faults, unread, ranking, rescored>>
  BY DEF NotReranked, rerankVars, rankVars
<1>2. results \in Seq(Hits) /\ Len(results) \in Nat /\ ranking \in {"bm25", "rrf"}
  BY <1>1, LenProperties DEF SearchInv, SearchTypes, PhaseInv
<1>3. /\ \A i \in DOMAIN results' : \E j \in DOMAIN results : results'[i].chunk = results[j].chunk
      /\ \A i, j \in DOMAIN results' : i # j => results'[i].chunk # results'[j].chunk
      /\ NoneBetter'
  BY <1>1, <1>2, CutKeeps
<1>4. HitsDescend'
  BY <1>1, StillDescends
<1> QED BY <1>1, <1>2, <1>3, <1>4, RankingStep

LEMMA RerankFailsStep == ASSUME SearchInv, RerankFails PROVE SearchInv'
<1>1. /\ phase = "rerank" /\ phase' = "cap" /\ Fails
      /\ UNCHANGED <<corpusVars, entries, bare, dense, batches, given, docs, unread, ranking>>
      /\ \/ results' = Candidates /\ UNCHANGED rescored
         \/ /\ results' = Rescored([i \in DOMAIN Candidates |->
                LET c == Candidates[i].chunk IN IF HasVector(c) THEN cosine[c] ELSE 0])
            /\ rescored' = TRUE
  BY DEF RerankFails, rerankVars
<1>2. SearchTypes /\ ranking \in {"bm25", "rrf"} /\ results \in Seq(Hits)
  BY <1>1 DEF SearchInv, SearchTypes, PhaseInv
<1>3. /\ Candidates \in Seq(Hits) /\ Len(Candidates) \in Nat /\ Len(Candidates) <= Len(results)
      /\ (results # << >> => Candidates # << >>)
      /\ \A i \in 1 .. Len(Candidates) : Candidates[i] = results[i]
  BY <1>2, FirstCandidates
<1>4. CASE results' = Candidates /\ UNCHANGED rescored
  <2>1. /\ DOMAIN results' \subseteq DOMAIN results
        /\ \A i \in DOMAIN results' : \E j \in DOMAIN results : results'[i].chunk = results[j].chunk
        /\ \A i, j \in DOMAIN results' : i # j => results'[i].chunk # results'[j].chunk
        /\ NoneBetter'
    BY <1>1, <1>3, <1>4, CutKeeps
  <2>2. HitsDescend'
    <3>1. \A i \in DOMAIN results' : results'[i] = results[i]
      BY <1>3, <1>4, LenProperties
    <3> QED BY <1>4, <2>1, <3>1, StillDescends
  <2>3. ranking' \in {"bm25", "rrf"} /\ results' \in Seq(Hits) /\ (results # << >> => results' # << >>)
    BY <1>1, <1>2, <1>3, <1>4
  <2> QED BY <1>1, <2>1, <2>2, <2>3, RankingStep
<1>5. CASE rescored' = TRUE /\ results' = Rescored([i \in DOMAIN Candidates |->
                LET c == Candidates[i].chunk IN IF HasVector(c) THEN cosine[c] ELSE 0])
  <2> DEFINE v == [i \in DOMAIN Candidates |-> LET c == Candidates[i].chunk IN IF HasVector(c) THEN cosine[c] ELSE 0]
             n == Len(Candidates)
  <2>1. DOMAIN Candidates = 1 .. n /\ DOMAIN results = 1 .. Len(results) /\ Len(results) \in Nat
        /\ \A i \in 1 .. n : i \in DOMAIN results /\ Candidates[i] = results[i] /\ Candidates[i] \in Hits
    BY <1>2, <1>3, LenProperties, ElementOfSeq
  <2>2. \A i \in 1 .. n : v[i] \in Int
    <3>1. \A i \in 1 .. n : Candidates[i].chunk \in Chunks
      BY <2>1 DEF Hits
    <3>2. cosine \in [Chunks -> Nat]
      BY <1>2 DEF SearchTypes
    <3> QED BY <2>1, <3>1, <3>2
  <2> HIDE DEF v
  <2>3. /\ results' = [i \in 1 .. n |-> [chunk |-> Candidates[i].chunk, score |-> v[i]]]
        /\ \A i \in 1 .. n : [chunk |-> Candidates[i].chunk, score |-> v[i]] \in Hits
    BY <1>5, <2>1, <2>2 DEF Rescored, v, Hits
  <2>4. results' \in Seq(Hits) /\ DOMAIN results' = 1 .. n /\ Len(results') = n
    <3>1. results' \in [1 .. n -> Hits]
      BY <2>3
    <3> QED BY <1>3, <3>1, IsASeq, LenProperties
  <2>5. \A i \in 1 .. n : results'[i].chunk = results[i].chunk
    BY <2>1, <2>3
  <2>6. /\ \A i \in DOMAIN results' : \E j \in DOMAIN results : results'[i].chunk = results[j].chunk
        /\ \A i, j \in DOMAIN results' : i # j => results'[i].chunk # results'[j].chunk
        /\ NoneBetter'
    BY <1>1, <1>3, <2>4, <2>5, CutKeeps
  <2>7. results # << >> => results' # << >>
    BY <1>3, <2>4, EmptySeq
  <2>8. HitsDescend'
    BY <1>5 DEF HitsDescend
  <2> QED BY <1>1, <1>2, <2>4, <2>6, <2>7, <2>8, RankingStep
<1> QED BY <1>1, <1>4, <1>5

LEMMA RerankBatchStep == ASSUME SearchInv, RerankBatch PROVE SearchInv'
<1> DEFINE L == Len(batches)
           n == Len(Candidates)
<1>1. PICK scores \in [DOMAIN NextBatch -> RerankScores] :
          /\ batches' = batches \o scores
          /\ given' = [c \in DOMAIN given \cup {NextBatch[k].chunk : k \in DOMAIN NextBatch} |->
                         IF \E k \in DOMAIN NextBatch : NextBatch[k].chunk = c
                         THEN scores[CHOOSE k \in DOMAIN NextBatch : NextBatch[k].chunk = c] ELSE given[c]]
  BY DEF RerankBatch
<1>2. /\ phase = "rerank" /\ L < n
      /\ UNCHANGED <<corpusVars, phase, entries, recalled, bare, dense, results, docs, faults, unread, ranking, rescored>>
  BY DEF RerankBatch, rankVars
<1>3. /\ SearchTypes /\ results \in Seq(Hits) /\ batches \in Seq(RerankScores) /\ L \in Nat
      /\ ranking \in {"bm25", "rrf"}
  BY <1>2, LenProperties DEF SearchInv, SearchTypes, PhaseInv
<1>4. /\ \A i \in 1 .. L : results[i].chunk \in DOMAIN given /\ given[results[i].chunk] = batches[i]
      /\ \A c \in DOMAIN given : \E i \in 1 .. L : results[i].chunk = c
  <2>1. DOMAIN batches = 1 .. L
    BY <1>3, LenProperties
  <2>2. /\ \A i \in DOMAIN batches : results[i].chunk \in DOMAIN given /\ given[results[i].chunk] = batches[i]
        /\ \A c \in DOMAIN given : \E i \in DOMAIN batches : results[i].chunk = c
    BY <1>2 DEF SearchInv, BatchInv
  <2> QED BY <2>1, <2>2
<1>5. /\ Candidates \in Seq(Hits) /\ n \in Nat /\ n <= Len(results)
      /\ \A i \in 1 .. n : Candidates[i] = results[i]
  BY <1>3, FirstCandidates
<1>6. PICK m \in Nat : /\ L < m /\ m <= n /\ m = Min({L + BatchSize, n})
  <2>1. L + BatchSize \in Nat /\ L + BatchSize > L
    BY <1>3, LimitsAssumption
  <2> QED BY <1>2, <1>3, <1>5, <2>1, MinOfTwo
<1>7. /\ NextBatch \in Seq(Hits) /\ Len(NextBatch) = m - L
      /\ \A k \in 1 .. m - L : NextBatch[k] = results[L + k]
  <2>1. NextBatch = SubSeq(Candidates, L + 1, m)
    BY <1>6 DEF NextBatch
  <2>2. \A i \in (L + 1) .. m : Candidates[i] \in Hits
    BY <1>3, <1>5, <1>6, ElementOfSeq
  <2>3. /\ NextBatch \in Seq(Hits) /\ Len(NextBatch) = IF L + 1 <= m THEN m - (L + 1) + 1 ELSE 0
        /\ \A k \in 1 .. m - (L + 1) + 1 : NextBatch[k] = Candidates[L + 1 + k - 1]
    <3>1. L + 1 \in Int /\ m \in Int
      BY <1>3, <1>6
    <3> QED BY <2>1, <2>2, <3>1, SubSeqProperties
  <2>4. \A k \in 1 .. m - L : Candidates[L + k] = results[L + k]
    BY <1>3, <1>5, <1>6
  <2> HIDE DEF L, n
  <2>5. L + 1 <= m /\ m - (L + 1) + 1 = m - L /\ \A k \in 1 .. m - L : L + 1 + k - 1 = L + k
    BY <1>3, <1>6
  <2> QED BY <2>3, <2>4, <2>5
<1>8. DOMAIN NextBatch = 1 .. m - L /\ m - L \in Nat
  BY <1>3, <1>6, <1>7, LenProperties
<1>9. /\ scores \in Seq(RerankScores) /\ Len(scores) = m - L
  <2>1. scores \in [1 .. m - L -> RerankScores]
    BY <1>1, <1>8
  <2> HIDE DEF L, n
  <2> QED BY <1>8, <2>1, IsASeq, LenProperties
<1> HIDE DEF L, n
<1>10. /\ batches' \in Seq(RerankScores) /\ Len(batches') = m /\ DOMAIN batches' = 1 .. m
       /\ \A i \in 1 .. m : batches'[i] = IF i <= L THEN batches[i] ELSE scores[i - L]
  <2>1. /\ batches' \in Seq(RerankScores) /\ Len(batches') = L + (m - L)
        /\ \A i \in 1 .. L + (m - L) : batches'[i] = IF i <= L THEN batches[i] ELSE scores[i - L]
    <3>1. /\ batches \o scores \in Seq(RerankScores) /\ Len(batches \o scores) = Len(batches) + Len(scores)
          /\ \A i \in 1 .. Len(batches) + Len(scores) :
                (batches \o scores)[i] = IF i <= Len(batches) THEN batches[i] ELSE scores[i - Len(batches)]
      BY <1>3, <1>9, ConcatProperties
    <3> QED BY <1>1, <1>9, <3>1 DEF L
  <2>2. L + (m - L) = m
    BY <1>3, <1>6
  <2> QED BY <2>1, <2>2, LenProperties
<1>11. /\ \A i \in 1 .. n : i \in DOMAIN results /\ results[i].chunk \in Chunks
       /\ \A i, j \in 1 .. n : i # j => results[i].chunk # results[j].chunk
  <2>1. DOMAIN results = 1 .. Len(results) /\ Len(results) \in Nat
    BY <1>3, LenProperties
  <2>2. /\ \A i \in DOMAIN results : results[i].chunk \in entries
        /\ \A i, j \in DOMAIN results : i # j => results[i].chunk # results[j].chunk
        /\ entries \in SUBSET Chunks
    BY DEF SearchInv, HitsInv, SearchTypes
  <2>3. 1 .. n \subseteq DOMAIN results
    BY <1>5, <2>1
  <2> QED BY <2>2, <2>3
<1>12. DOMAIN given' = DOMAIN given \cup {NextBatch[k].chunk : k \in 1 .. m - L}
  BY <1>1, <1>8
<1>13. \A i \in 1 .. m : results[i].chunk \in DOMAIN given'
  <2>1. SUFFICES ASSUME NEW i \in 1 .. m, ~(i <= L) PROVE results[i].chunk \in DOMAIN given'
    BY <1>3, <1>12, <1>4
  <2>2. i - L \in 1 .. m - L /\ L + (i - L) = i
    BY <1>3, <1>6, <2>1
  <2>3. NextBatch[i - L].chunk = results[i].chunk
    BY <1>7, <2>2
  <2> QED BY <1>12, <2>2, <2>3
<1>14. \A c \in DOMAIN given' : \E i \in 1 .. m : results[i].chunk = c
  <2>1. SUFFICES ASSUME NEW c \in DOMAIN given' PROVE \E i \in 1 .. m : results[i].chunk = c
    OBVIOUS
  <2>2. CASE c \in DOMAIN given
    <3>1. PICK i \in 1 .. L : results[i].chunk = c
      BY <1>4, <2>2
    <3>2. i \in 1 .. m
      BY <1>3, <1>6
    <3> QED BY <3>1, <3>2
  <2>3. CASE c \in {NextBatch[k].chunk : k \in 1 .. m - L}
    <3>1. PICK k \in 1 .. m - L : NextBatch[k].chunk = c
      BY <2>3
    <3>2. results[L + k].chunk = c
      BY <1>7, <3>1
    <3>3. L + k \in 1 .. m
      BY <1>3, <1>6
    <3> QED BY <3>2, <3>3
  <2> QED BY <1>12, <2>2, <2>3
<1>15. ASSUME NEW i \in 1 .. m PROVE given'[results[i].chunk] = batches'[i]
  <2> DEFINE c == results[i].chunk
  <2>1. i \in 1 .. n
    BY <1>5, <1>6
  <2>2. c \in DOMAIN given'
    BY <1>13
  <2>3. CASE i <= L
    <3>1. ~\E k \in DOMAIN NextBatch : NextBatch[k].chunk = c
      <4>1. SUFFICES ASSUME NEW k \in 1 .. m - L, NextBatch[k].chunk = c PROVE FALSE
        BY <1>8
      <4>2. L + k \in 1 .. n /\ L + k # i
        BY <1>3, <1>5, <1>6, <2>3, <4>1
      <4> QED BY <1>7, <1>11, <2>1, <4>1, <4>2
    <3>2. given'[c] = given[c]
      BY <1>1, <2>2, <3>1
    <3>3. i \in 1 .. L
      BY <1>3, <2>3
    <3> QED BY <1>10, <1>4, <2>3, <3>2, <3>3
  <2>4. CASE ~(i <= L)
    <3>1. i - L \in 1 .. m - L /\ L + (i - L) = i
      BY <1>3, <1>6, <2>4
    <3>2. NextBatch[i - L].chunk = c
      BY <1>7, <3>1
    <3>3. \A k \in DOMAIN NextBatch : NextBatch[k].chunk = c => k = i - L
      <4>1. SUFFICES ASSUME NEW k \in 1 .. m - L, NextBatch[k].chunk = c PROVE k = i - L
        BY <1>8
      <4>2. L + k \in 1 .. n /\ results[L + k].chunk = c
        <5>1. L + k \in 1 .. n
          BY <1>3, <1>5, <1>6, <4>1
        <5>2. NextBatch[k] = results[L + k]
          BY <1>7, <4>1
        <5> QED BY <4>1, <5>1, <5>2
      <4>3. L + k = i
        BY <1>11, <2>1, <4>2
      <4> QED BY <1>3, <4>1, <4>3
    <3>4. given'[c] = scores[i - L]
      BY <1>1, <1>8, <2>2, <3>1, <3>2, <3>3
    <3> QED BY <1>10, <2>4, <3>4
  <2> QED BY <2>3, <2>4
<1>16. DOMAIN given' \in SUBSET Chunks /\ given' \in [DOMAIN given' -> Int]
  <2>1. DOMAIN given' \in SUBSET Chunks
    <3>1. 1 .. m \subseteq 1 .. n
      BY <1>5, <1>6
    <3> QED BY <1>11, <1>14, <3>1
  <2>2. \A c \in DOMAIN given' : given'[c] \in Int
    <3>1. SUFFICES ASSUME NEW c \in DOMAIN given' PROVE given'[c] \in Int
      OBVIOUS
    <3>2. PICK i \in 1 .. m : results[i].chunk = c
      BY <1>14
    <3>3. given'[c] = batches'[i] /\ batches'[i] \in RerankScores
      BY <1>10, <1>15, <3>2, ElementOfSeq
    <3> QED BY <3>3, ScoresAssumption
  <2>3. given' = [c \in DOMAIN given' |-> given'[c]]
    BY <1>1
  <2> QED BY <2>1, <2>2, <2>3
<1>17. SearchTypes'
  BY <1>2, <1>3, <1>10, <1>16, CorpusTyped DEF SearchTypes
<1>18. BatchInv'
  <2>1. Candidates' = Candidates
    BY <1>2 DEF Candidates
  <2> QED BY <1>2, <1>3, <1>6, <1>10, <1>15, <1>13, <1>14, <2>1 DEF BatchInv, n
<1>19. PhaseInv' /\ DocsDescend'
  BY <1>2, <1>3, CorpusSame DEF SearchInv, PhaseInv, DocsDescend, HitsOf, Early
<1>20. EntriesInv' /\ HitsInv' /\ LexicalInv' /\ HitsDescend'
  BY <1>2, <1>3, CorpusSame DEF SearchInv, SearchTypes, EntriesInv, HitsInv, LexicalInv, HitsDescend
<1>21. NoneBetter'
  BY <1>2, <1>3, CorpusSame DEF SearchInv, NoneBetter, Better, Lexical
<1>22. WantedInv'
  BY <1>2, <1>3, CorpusSame, WantedKept DEF SearchInv, WantedInv, Early
<1> QED BY <1>17, <1>18, <1>19, <1>20, <1>21, <1>22 DEF SearchInv

LEMMA SortStep == ASSUME SearchInv, SortByRerankScores PROVE SearchInv'
<1> DEFINE n == Len(Candidates)
           q == Rescored(batches)
           R == AllHits(batches)
           score == [r \in R |-> r.score]
<1>1. /\ phase = "rerank" /\ phase' = "cap" /\ Len(batches) = n /\ ranking' = "reranked" /\ results # << >>
      /\ UNCHANGED <<corpusVars, entries, bare, dense, batches, given, docs, faults, unread>>
      /\ results' \in SetToSeqs(R) /\ \A i, j \in DOMAIN results' : i < j => results'[i].score >= results'[j].score
  BY DEF SortByRerankScores, ToRerank, rerankVars
<1>2. /\ SearchTypes /\ results \in Seq(Hits) /\ batches \in Seq(RerankScores)
      /\ \A i \in DOMAIN batches :
            results[i].chunk \in DOMAIN given /\ given[results[i].chunk] = batches[i]
      /\ \A c \in DOMAIN given : \E i \in DOMAIN batches : results[i].chunk = c
      /\ given \in [DOMAIN given -> Int]
  BY <1>1 DEF SearchInv, SearchTypes, BatchInv
<1>3. /\ Candidates \in Seq(Hits) /\ n \in Nat /\ n <= Len(results) /\ Candidates # << >>
      /\ \A i \in 1 .. n : Candidates[i] = results[i]
  BY <1>1, <1>2, FirstCandidates
<1>4. DOMAIN Candidates = 1 .. n /\ DOMAIN batches = 1 .. n /\ 1 .. n \subseteq DOMAIN results /\ n > 0
  BY <1>1, <1>2, <1>3, LenProperties, EmptySeq
<1>5. DOMAIN q = 1 .. n /\ \A i \in 1 .. n : q[i] = [chunk |-> results[i].chunk, score |-> batches[i]] /\ q[i] \in Hits
  <2>1. \A i \in 1 .. n : results[i].chunk \in Chunks /\ batches[i] \in Int
    BY <1>2, <1>4, ScoresAssumption, ElementOfSeq DEF SearchInv, HitsInv, SearchTypes
  <2> QED BY <1>3, <1>4, <2>1 DEF Rescored, Hits
<1> HIDE DEF n, q
<1>6. R = {q[i] : i \in 1 .. n} /\ IsFiniteSet(R) /\ R # {}
  <2>1. R = {q[i] : i \in 1 .. n}
    BY <1>5 DEF AllHits, Range, q
  <2>2. IsFiniteSet(1 .. n)
    BY <1>3, FS_Interval
  <2> DEFINE f == [i \in 1 .. n |-> q[i]]
  <2>3. f \in Surjection(1 .. n, R)
    BY <2>1 DEF Surjection
  <2>4. IsFiniteSet(R)
    BY <2>2, <2>3, FS_Surjection
  <2>5. 1 \in 1 .. n
    BY <1>3, <1>4
  <2>6. q[1] \in R
    BY <2>1, <2>5
  <2> QED BY <2>1, <2>4, <2>6
<1>7. \A r \in R : r \in Hits
      /\ \E i \in 1 .. n : r.chunk = results[i].chunk /\ r.score = batches[i]
  BY <1>5, <1>6
<1>8. \A r, t \in R : r.chunk = t.chunk => r = t
  <2>1. SUFFICES ASSUME NEW i \in 1 .. n, NEW j \in 1 .. n, q[i].chunk = q[j].chunk PROVE q[i] = q[j]
    BY <1>6
  <2>2. results[i].chunk = results[j].chunk
    BY <1>5, <2>1
  <2> QED BY <1>4, <2>2 DEF SearchInv, HitsInv
<1> HIDE DEF R
<1>9. results' \in Sorted(R, score)
  <2>1. \A i \in DOMAIN results' : results'[i] \in R
    BY <1>1 DEF SetToSeqs
  <2> QED BY <1>1, <2>1 DEF Sorted
<1> HIDE DEF score
<1>10. /\ results' \in Seq(R) /\ \A i, j \in DOMAIN results' : i # j => results'[i] # results'[j]
       /\ \A r \in R : \E i \in DOMAIN results' : results'[i] = r
  <2>1. IsFiniteSet(R)
    BY <1>6
  <2> QED BY <1>9, <2>1, SortedIs
<1>11. \A i \in DOMAIN results' : results'[i] \in R
  BY <1>10, ElementOfSeq, LenProperties
<1>12. results' \in Seq(Hits)
  BY <1>7, <1>10, SeqMonotonic
<1>13. results' # << >>
  <2>1. PICK r \in R : TRUE
    BY <1>6
  <2>2. PICK i \in DOMAIN results' : results'[i] = r
    BY <1>10, <2>1
  <2> QED BY <2>2
<1>14. /\ \A i \in DOMAIN results' : \E j \in DOMAIN results : results'[i].chunk = results[j].chunk
       /\ \A i, j \in DOMAIN results' : i # j => results'[i].chunk # results'[j].chunk
       /\ \A i \in DOMAIN results' :
             results'[i].chunk \in DOMAIN given /\ results'[i].score = given[results'[i].chunk]
  <2>1. \A i \in DOMAIN results' : \E k \in 1 .. n : results'[i].chunk = results[k].chunk /\ results'[i].score = batches[k]
    BY <1>7, <1>11
  <2>2. \A i, j \in DOMAIN results' : i # j => results'[i].chunk # results'[j].chunk
    BY <1>8, <1>10, <1>11
  <2>3. \A k \in 1 .. n :
           k \in DOMAIN results /\ results[k].chunk \in DOMAIN given /\ given[results[k].chunk] = batches[k]
    BY <1>2, <1>4
  <2> QED BY <2>1, <2>2, <2>3
<1>15. HitsDescend'
  BY <1>1 DEF HitsDescend
<1>16. NoneBetter'
  <2>1. SUFFICES ASSUME NEW j \in DOMAIN results', NEW c \in DOMAIN given, given[c] > given[results'[j].chunk]
                 PROVE  \E i \in 1 .. j - 1 : results'[i].chunk = c
    BY <1>1 DEF NoneBetter, Better
  <2>2. PICK k \in 1 .. n : results[k].chunk = c
    BY <1>2, <1>4
  <2>3. q[k] \in R /\ q[k].chunk = c
    BY <1>5, <1>6, <2>2
  <2>4. PICK i \in DOMAIN results' : results'[i] = q[k]
    BY <1>10, <2>3
  <2>5. /\ results'[i].chunk = c /\ results'[i].score = given[c]
        /\ results'[j].score = given[results'[j].chunk] /\ results'[j].chunk \in DOMAIN given
    BY <1>14, <2>3, <2>4
  <2>6. DOMAIN results' = 1 .. Len(results') /\ Len(results') \in Nat
    BY <1>12, LenProperties
  <2>7. i < j
    <3>1. given[c] \in Int /\ given[results'[j].chunk] \in Int
      BY <1>2, <2>1, <2>5
    <3>2. CASE i = j
      BY <2>1, <2>5, <3>1, <3>2
    <3>3. CASE j < i
      BY <1>1, <2>1, <2>5, <3>1, <3>3
    <3> QED BY <2>6, <3>2, <3>3
  <2> QED BY <2>5, <2>6, <2>7
<1> QED BY <1>1, <1>12, <1>13, <1>14, <1>15, <1>16, RankingStep

LEMMA GroupStep == ASSUME SearchInv, GroupByDocument PROVE SearchInv'
<1> DEFINE D == {Doc[r.chunk] : r \in Range(results)}
           best == [d \in D |-> MaxScore(d)]
           n == Len(results)
<1>1. PICK s \in Sorted(DOMAIN best, best) : docs' = SubSeq(s, 1, Min({Limit, Len(s)}))
  BY DEF GroupByDocument
<1>2. /\ phase = "group" /\ phase' = "answered"
      /\ UNCHANGED <<corpusVars, entries, recalled, bare, dense, results, batches, given, faults, unread, ranking, rescored>>
  BY DEF GroupByDocument, rerankVars, rankVars
<1>3. /\ SearchTypes /\ results \in Seq(Hits) /\ n \in Nat /\ DOMAIN results = 1 .. n
      /\ \A i \in 1 .. n : results[i] \in Hits /\ results[i].chunk \in Chunks /\ results[i].score \in Int
  <2>1. SearchTypes /\ results \in Seq(Hits)
    BY DEF SearchInv, SearchTypes
  <2>2. n \in Nat /\ DOMAIN results = 1 .. n /\ \A i \in 1 .. n : results[i] \in Hits
    BY <2>1, LenProperties, ElementOfSeq
  <2>3. \A h \in Hits : h.chunk \in Chunks /\ h.score \in Int
    BY DEF Hits
  <2> QED BY <2>1, <2>2, <2>3
<1>4. DOMAIN best = D /\ D = {Doc[results[i].chunk] : i \in 1 .. n} /\ D \subseteq Docs
  <2>1. D = {Doc[results[i].chunk] : i \in 1 .. n}
    BY <1>3 DEF Range
  <2> QED BY <1>3, <2>1, ChunksAssumption DEF Docs, Range
<1>5. IsFiniteSet(D)
  <2> DEFINE f == [i \in 1 .. n |-> Doc[results[i].chunk]]
  <2>1. f \in Surjection(1 .. n, D)
    BY <1>4 DEF Surjection
  <2>2. IsFiniteSet(1 .. n)
    <3>1. n \in Int /\ 1 \in Int
      BY <1>3
    <3> HIDE DEF n
    <3> QED BY <3>1, FS_Interval
  <2> QED BY <2>1, <2>2, FS_Surjection
<1>6. ASSUME NEW d \in D
      PROVE  /\ \E x \in HitsOf(d) : MaxScore(d) = results[x].score
             /\ \A y \in HitsOf(d) : MaxScore(d) >= results[y].score
  <2> DEFINE J == HitsOf(d)
             f == [i \in J |-> results[i].score]
  <2>1. J \subseteq 1 .. n /\ J # {}
    BY <1>3, <1>4 DEF HitsOf
  <2>2. IsFiniteSet(J)
    <3>1. n \in Int /\ 1 \in Int
      BY <1>3
    <3> HIDE DEF n, J
    <3>2. IsFiniteSet(1 .. n)
      BY <3>1, FS_Interval
    <3> QED BY <2>1, <3>2, FS_Subset
  <2>3. f \in [J -> Int]
    BY <1>3, <2>1
  <2>4. {f[i] : i \in J} = {results[i].score : i \in HitsOf(d)}
    OBVIOUS
  <2>5. MaxScore(d) = Max({f[i] : i \in J})
    BY <2>4 DEF MaxScore
  <2>6. \A i \in J : f[i] = results[i].score
    OBVIOUS
  <2> HIDE DEF J, f
  <2>7. /\ \E x \in J : Max({f[i] : i \in J}) = f[x]
        /\ \A y \in J : Max({f[i] : i \in J}) >= f[y]
    BY <2>1, <2>2, <2>3, MaxOfImage
  <2>8. /\ \E x \in J : MaxScore(d) = results[x].score
        /\ \A y \in J : MaxScore(d) >= results[y].score
    BY <2>5, <2>6, <2>7
  <2> QED BY <2>8 DEF J
<1>7. \A d \in D : best[d] = MaxScore(d)
  OBVIOUS
<1> HIDE DEF D, best, n
<1>8. /\ s \in Seq(D) /\ \A i, j \in DOMAIN s : i < j => best[s[i]] >= best[s[j]]
      /\ \A d \in D : \E i \in DOMAIN s : s[i] = d
  <2>1. s \in Sorted(D, best)
    BY <1>1, <1>4
  <2> QED BY <1>5, <2>1, SortedIs
<1>9. /\ docs' \in Seq(D) /\ Len(docs') <= Len(s) /\ (s # << >> => docs' # << >>)
      /\ \A i \in 1 .. Len(docs') : docs'[i] = s[i]
  <2>1. Limit \in Nat /\ Limit > 0
    BY LimitsAssumption
  <2> QED BY <1>1, <1>8, <2>1, Cut
<1>10. /\ DOMAIN docs' = 1 .. Len(docs') /\ DOMAIN s = 1 .. Len(s) /\ Len(s) \in Nat /\ Len(docs') \in Nat
       /\ \A i \in DOMAIN docs' : docs'[i] \in D /\ i \in DOMAIN s /\ docs'[i] = s[i]
  <2>1. /\ DOMAIN docs' = 1 .. Len(docs') /\ DOMAIN s = 1 .. Len(s) /\ Len(s) \in Nat /\ Len(docs') \in Nat
    BY <1>8, <1>9, LenProperties
  <2>2. \A i \in DOMAIN docs' : docs'[i] \in D
    BY <1>9, <2>1, ElementOfSeq
  <2> QED BY <1>9, <2>1, <2>2
<1>11. DocsDescend'
  <2>1. SUFFICES ASSUME NEW i \in DOMAIN docs', NEW j \in DOMAIN docs', i < j
                 PROVE  \E x \in HitsOf(docs'[i]) : \A y \in HitsOf(docs'[j]) : results[x].score >= results[y].score
    <3>1. UNCHANGED results /\ \A d : HitsOf(d)' = HitsOf(d)
      BY <1>2 DEF HitsOf
    <3> QED BY <3>1 DEF DocsDescend
  <2>2. best[docs'[i]] >= best[docs'[j]] /\ docs'[i] \in D /\ docs'[j] \in D
    BY <1>8, <1>10, <2>1
  <2>3. PICK x \in HitsOf(docs'[i]) : MaxScore(docs'[i]) = results[x].score
    BY <1>6, <2>2
  <2>4. PICK z \in HitsOf(docs'[j]) : MaxScore(docs'[j]) = results[z].score
    BY <1>6, <2>2
  <2>5. results[x].score >= results[z].score
    BY <1>7, <2>2, <2>3, <2>4
  <2>6. \A y \in HitsOf(docs'[j]) : results[z].score >= results[y].score
    BY <1>6, <2>2, <2>4
  <2>7. \A y \in HitsOf(docs'[j]) \cup {x, z} : results[y].score \in Int
    BY <1>3 DEF HitsOf
  <2>8. \A y \in HitsOf(docs'[j]) : results[x].score >= results[y].score
    BY <2>5, <2>6, <2>7
  <2> QED BY <2>8
<1>12. docs' \in Seq(Docs)
  BY <1>4, <1>9, SeqMonotonic
<1>13. SearchTypes'
  BY <1>2, <1>3, <1>12, CorpusTyped DEF SearchTypes, Phases
<1>14. results # << >> => docs' # << >>
  <2>1. ASSUME results # << >> PROVE s # << >>
    <3>1. 1 \in 1 .. n
      BY <1>3, <2>1, EmptySeq DEF n
    <3>2. Doc[results[1].chunk] \in D
      BY <1>4, <3>1
    <3>3. PICK i \in DOMAIN s : TRUE
      BY <1>8, <3>2
    <3> QED BY <3>3
  <2> QED BY <1>9, <2>1
<1>15. WantedInv'
  BY <1>2, <1>14, CorpusSame, WantedKept DEF SearchInv, WantedInv, Early
<1>16. PhaseInv' /\ BatchInv'
  BY <1>2 DEF SearchInv, PhaseInv, BatchInv, Early
<1>17. EntriesInv' /\ HitsInv' /\ LexicalInv' /\ HitsDescend'
  BY <1>2, <1>3, CorpusSame DEF SearchInv, SearchTypes, EntriesInv, HitsInv, LexicalInv, HitsDescend
<1>18. NoneBetter'
  BY <1>2, CorpusSame DEF SearchInv, NoneBetter, Better, Lexical
<1> QED BY <1>11, <1>13, <1>15, <1>16, <1>17, <1>18 DEF SearchInv

-----------------------------------------------------------------------------
LEMMA SearchStutters == ASSUME SearchInv, UNCHANGED searchVars PROVE SearchInv'
<1>1. /\ UNCHANGED <<corpusVars, phase, entries, recalled, bare, dense, results, batches, docs, faults, unread, ranking,
                  rescored, given>>
  BY DEF searchVars
<1>2. SearchTypes' /\ PhaseInv'
  BY <1>1, CorpusSame, CorpusTyped DEF SearchInv, SearchTypes, PhaseInv
<1>3. EntriesInv' /\ HitsInv' /\ LexicalInv' /\ HitsDescend'
  <2>1. Matching \subseteq Chunks
    BY DEF Matching
  <2> QED BY <1>1, <2>1, CorpusSame DEF SearchInv, SearchTypes, EntriesInv, HitsInv, LexicalInv, HitsDescend
<1>4. NoneBetter' /\ DocsDescend'
  BY <1>1, CorpusSame DEF SearchInv, NoneBetter, Better, Lexical, DocsDescend, HitsOf
<1>5. WantedInv'
  BY <1>1, CorpusSame, WantedKept DEF SearchInv, WantedInv
<1>6. BatchInv'
  BY <1>1 DEF SearchInv, BatchInv, Candidates
<1> QED BY <1>2, <1>3, <1>4, <1>5, <1>6 DEF SearchInv

LEMMA SearchStep == SearchInv /\ [SearchNext]_searchVars => SearchInv'
  BY CollectStep, CoarseStep, RecallStep, EmbeddingFailsStep, DenseScoringStep, BM25Step, RRFStep,
     RerankBatchStep, SortStep, RerankFailsStep, NotRerankedStep, CapStep, GroupStep, SearchStutters, Zenon
     DEF SearchNext

LEMMA SearchKeeps == SearchSpec => []SearchInv
  BY SearchStarts, SearchStep, PTL DEF SearchSpec

(* Without a vector index every hit is of the document asked for, of no     *)
(* document with a tombstone if the check for them has a manager to ask (as *)
(* wired it has none), and of the section asked for, but for the chunks of  *)
(* a document without a chunks index in a scan of everything                *)
(* (search/collect.go).                                                     *)
THEOREM HitsAreAdmitted == SearchSpec => []HitsAdmitted
<1>1. SearchInv => HitsAdmitted
  <2>1. SUFFICES ASSUME SearchInv, ~anyIndex, request.mode # "debug", NEW c \in Found
                 PROVE  /\ manager => Doc[c] \notin hidden
                        /\ request.filter.doc \in {None, Doc[c]}
                        /\ \/ request.filter.section \in {None, Section[c]}
                           \/ ~Indexed(c) /\ Postings = {}
    BY DEF HitsAdmitted
  <2>2. c \in entries
    BY <2>1 DEF Found, Range, SearchInv, HitsInv
  <2>3. Admitted(c) /\ c \in QueryCandidates
    BY <2>1, <2>2 DEF SearchInv, EntriesInv
  <2>4. ~Indexed(c) => Postings = {}
    BY <2>3 DEF QueryCandidates
  <2> QED BY <2>1, <2>3, <2>4 DEF Admitted, Filter, InSection
<1>2. QED BY <1>1, SearchKeeps, PTL

(* A search that has something to find finds, by terms alone, a chunk with  *)
(* a term of the query, and answers by a hit in every mode, whatever calls  *)
(* to models fail; a coarse search, if it could read every section and the  *)
(* terms were those asked for (search/engine.go, rerank.go).                *)
THEOREM MatchesAreFound == SearchSpec => []MatchingIsFound
<1>1. SearchInv => MatchingIsFound
  <2>1. SUFFICES ASSUME SearchInv, Answered, Wanted
                 PROVE  /\ results # << >>
                        /\ ~Hybrid => Found \cap Matching # {}
                        /\ request.docs => docs # << >>
    BY DEF MatchingIsFound, Wanted
  <2>2. results # << >> /\ (request.docs => docs # << >>)
    BY <2>1 DEF SearchInv, WantedInv, Answered, Early
  <2>3. ASSUME ~Hybrid PROVE Found \cap Matching # {}
    <3>1. results \in Seq(Hits)
      BY <2>1 DEF SearchInv, SearchTypes
    <3>2. 1 \in DOMAIN results
      BY <2>2, <3>1, LenProperties, EmptySeq
    <3>3. results[1].chunk \in Found
      BY <3>2 DEF Found, Range
    <3>4. results[1].chunk \in Matching
      BY <2>1, <2>3, <3>2 DEF SearchInv, LexicalInv, HitsInv, SearchTypes, Matching
    <3> QED BY <3>3, <3>4
  <2> QED BY <2>2, <2>3
<1>2. QED BY <1>1, SearchKeeps, PTL

(* No hit stands before or without a candidate better than it by terms, by  *)
(* terms and vector, or by the reranker, whatever is cut and whatever fails *)
(* on the way; but where a failed reranker left it other scores, the order  *)
(* is not that of the scores (search/engine.go, rerank.go).                 *)
THEOREM BestComesFirst == SearchSpec => []BestFirst
<1>1. SearchInv => BestFirst
  BY DEF SearchInv, BestFirst
<1>2. QED BY <1>1, SearchKeeps, PTL

(* Every hit of a reranked search has the score the reranker gave to its    *)
(* text, for any size of batch and any number of candidates                 *)
(* (search/rerank.go).                                                      *)
THEOREM ScoresAreOwn == SearchSpec => []OwnScores
<1>1. SearchInv => OwnScores
  BY DEF SearchInv, BatchInv, OwnScores, Range
<1>2. QED BY <1>1, SearchKeeps, PTL

-----------------------------------------------------------------------------
(* The GPU scheduler: TypeOK, LoadedAccountedFor and ServedFromGPU.         *)

(* A request holds the mutex from Lock to its restore function.             *)
Holding(p) ==
    \/ at[p] = "switch"
    \/ at[p] \in {"ready", "call"} /\ stage[p] \in Guarded \cup {"rescue"}
    \/ at[p] = "plan" /\ stage[p] \in Deferred \cup {"rescue"}

Exclusive == \A p \in Procs : Holding(p) <=> gpu = p

(* Where a request is agrees with the stage and the job it is in.           *)
Coherent ==
    \A p \in Procs :
        /\ at[p] \in {"out", "mu"} => stage[p] = "begin"
        /\ at[p] # "out" => job[p] \in AllJobs
        /\ at[p] \in {"lock", "switch"} => stage[p] \in Guarded
        /\ at[p] \in {"ready", "call"} => stage[p] \in Stages

(* What the holder of the mutex knows of the GPU.                           *)
Served ==
    \A p \in Procs : at[p] \in {"ready", "call"} /\ stage[p] \in Guarded =>
        /\ activeModel = ModelOf[stage[p]]
        /\ at[p] = "call" => ModelOf[stage[p]] \in loaded

(* During a switch only the models still to be slept are unaccounted for.   *)
Switching ==
    \A p \in Procs : at[p] = "switch" =>
        loaded \ (pending \cup {ModelOf[stage[p]]}) \subseteq stray

SharingInv ==
    TypeOK /\ Exclusive /\ Coherent /\ Served /\ Switching /\ LoadedAccountedFor

-----------------------------------------------------------------------------
LEMMA StageModels ==
    /\ \A s \in Stages : ModelOf[s] \in Models
    /\ Guarded \subseteq Stages /\ Deferred \subseteq Guarded
    /\ "rerank" \in Deferred
    /\ "rescue" \in Stages \ Guarded /\ "begin" \notin Stages
BY DEF Stages, ModelOf, Models, Guarded, Deferred

(* A job that keeps the mutex over a deferred restore goes nowhere but to   *)
(* the rescue embedding, and only such a job goes there.                    *)
LEMMA PlanKeepsMutex ==
    ASSUME NEW j \in AllJobs, NEW s, NEW t, <<s, t>> \in Plan[j]
    PROVE  s \in Deferred \cup {"rescue"} <=> t = "rescue"
<1>1. CASE j = "upload" BY <1>1 DEF Plan, Deferred
<1>2. CASE j = "reembed" BY <1>2 DEF Plan, Deferred
<1>3. CASE j = "bm25" BY <1>3 DEF Plan, Deferred
<1>4. CASE j = "hybrid" BY <1>4 DEF Plan, Deferred
<1>5. CASE j = "vector" BY <1>5 DEF Plan, Deferred
<1>6. CASE j = "route" BY <1>6 DEF Plan, Deferred
<1>7. QED BY <1>1, <1>2, <1>3, <1>4, <1>5, <1>6 DEF AllJobs

LEMMA SharingInit == Init => SharingInv
<1>1. SUFFICES ASSUME Init PROVE SharingInv
  OBVIOUS
<1>2. TypeOK
  BY <1>1 DEF Init, TypeOK, Places, Models, Idle
<1>3. Exclusive /\ Coherent /\ Served /\ Switching /\ LoadedAccountedFor
  BY <1>1, FreeIsNobody, StageModels
     DEF Init, Exclusive, Holding, Coherent, Served, Switching, LoadedAccountedFor
<1>4. QED BY <1>2, <1>3 DEF SharingInv

LEMMA SharingStep == SharingInv /\ [Next]_vars => SharingInv'
<1>1. SUFFICES ASSUME SharingInv, [Next]_vars PROVE SharingInv'
  OBVIOUS
<1> USE <1>1 DEF SharingInv
<1>2. ASSUME NEW p \in Procs, Begin(p) PROVE SharingInv'
  BY <1>2, ConfigAssumption, StageModels
     DEF Begin, Move, TypeOK, Places, Exclusive, Holding, Coherent, Served, Switching,
         LoadedAccountedFor, scheduler, memory
<1>3. ASSUME NEW p \in Procs, TakeMu(p) PROVE SharingInv'
  BY <1>3, StageModels
     DEF TakeMu, Move, TypeOK, Places, Exclusive, Holding, Coherent, Served, Switching,
         LoadedAccountedFor, scheduler, memory
<1>4. ASSUME NEW p \in Procs, Enter(p) PROVE SharingInv'
  <2>1. PICK s \in Stages : /\ <<stage[p], s>> \in Plan[job[p]]
                            /\ stage' = [stage EXCEPT ![p] = s]
                            /\ Move(p, IF s \in Guarded THEN "lock" ELSE "ready")
    BY <1>4 DEF Enter, Follow
  <2>2. stage[p] \in Deferred \cup {"rescue"} <=> s = "rescue"
    BY <1>4, <2>1, PlanKeepsMutex DEF Enter, Coherent
  <2>3. QED
    BY <1>4, <2>1, <2>2, StageModels
       DEF Enter, Move, TypeOK, Places, Exclusive, Holding, Coherent, Served, Switching,
           LoadedAccountedFor, scheduler, memory
<1>5. ASSUME NEW p \in Procs, Lock(p) PROVE SharingInv'
  <2>1. ToSleep(ModelOf[stage[p]]) \subseteq Models
    BY DEF ToSleep, TypeOK
  <2>2. TypeOK' /\ Coherent' /\ LoadedAccountedFor'
    BY <1>5, <2>1, StageModels DEF Lock, Move, TypeOK, Places, Coherent, LoadedAccountedFor, memory
  <2>3. Exclusive'
    BY <1>5, FreeIsNobody DEF Lock, Move, TypeOK, Exclusive, Holding, Coherent
  <2>4. Served'
    BY <1>5, StageModels DEF Lock, Move, TypeOK, Served, Coherent, Idle, Models, memory
  <2>5. Switching'
    BY <1>5, <2>1, FreeIsNobody, StageModels
       DEF Lock, Move, TypeOK, Switching, LoadedAccountedFor, Exclusive, Holding, ToSleep,
           memory
  <2>6. QED BY <2>2, <2>3, <2>4, <2>5
<1>6. ASSUME NEW p \in Procs, NEW m \in Models, SleepSent(p, m) PROVE SharingInv'
  <2>1. \A q \in Procs : at[q] = "call" /\ stage[q] \in Guarded => q = p
    BY <1>6 DEF SleepSent, Exclusive, Holding
  <2>2. QED
    BY <1>6, <2>1
       DEF SleepSent, TypeOK, Exclusive, Holding, Coherent, Served, Switching,
           LoadedAccountedFor, requests
<1>7. ASSUME NEW p \in Procs, NEW m \in Models, SleepMissed(p, m) PROVE SharingInv'
  BY <1>7
     DEF SleepMissed, TypeOK, Exclusive, Holding, Coherent, Served, Switching,
         LoadedAccountedFor, requests
<1>8. ASSUME NEW p \in Procs, Switched(p) PROVE SharingInv'
  <2>1. \A q \in Procs : Holding(q) => q = p
    BY <1>8 DEF Switched, Exclusive, Holding
  <2>2. QED
    BY <1>8, <2>1, StageModels
       DEF Switched, Move, TypeOK, Places, Exclusive, Holding, Coherent, Served,
           Switching, LoadedAccountedFor
<1>9. ASSUME NEW p \in Procs, Call(p) PROVE SharingInv'
  BY <1>9, StageModels
     DEF Call, Move, TypeOK, Places, Exclusive, Holding, Coherent, Served, Switching,
         LoadedAccountedFor, scheduler
<1>10. ASSUME NEW p \in Procs, Return(p) PROVE SharingInv'
  BY <1>10, FreeIsNobody, StageModels
     DEF Return, Move, TypeOK, Places, Exclusive, Holding, Coherent, Served, Switching,
         LoadedAccountedFor, memory
<1>11. ASSUME NEW p \in Procs, End(p) PROVE SharingInv'
  BY <1>11, FreeIsNobody, StageModels
     DEF End, Move, TypeOK, Places, Exclusive, Holding, Coherent, Served, Switching,
         LoadedAccountedFor, memory
<1>12. CASE ReloadGPUScheduler
  BY <1>12
     DEF ReloadGPUScheduler, TypeOK, Exclusive, Holding, Coherent, Served, Switching,
         LoadedAccountedFor, scheduler, memory, requests
<1>13. CASE UNCHANGED vars
  BY <1>13
     DEF vars, TypeOK, Exclusive, Holding, Coherent, Served, Switching, LoadedAccountedFor
<1>14. QED
  BY <1>2, <1>3, <1>4, <1>5, <1>6, <1>7, <1>8, <1>9, <1>10, <1>11, <1>12, <1>13
     DEF Next, Step

(* The variables keep their types.                                          *)
THEOREM SchedulerTypes == Spec => []TypeOK
<1>1. SharingInv => TypeOK BY DEF SharingInv
<1>2. QED BY SharingInit, SharingStep, <1>1, PTL DEF Spec

(* PrepareFor* forgets no model and never unloads one whose guarded call is *)
(* in flight, whatever the callers that bypass it do.                       *)
THEOREM GPUIsShared == Spec => [](LoadedAccountedFor /\ ServedFromGPU)
<1>1. SharingInv => LoadedAccountedFor /\ ServedFromGPU
  BY DEF SharingInv, Served, ServedFromGPU
<1>2. QED BY SharingInit, SharingStep, <1>1, PTL DEF Spec

(* A guarded call finds its model on the GPU: no other job has unloaded it  *)
(* between PrepareFor* and the call.                                        *)
COROLLARY GuardedCallsServed == Spec => []ServedFromGPU
<1>1. QED BY GPUIsShared, PTL
=============================================================================
