-------------------------------- MODULE Search --------------------------------
(***************************************************************************)
(* One search of a knowledge base as search/engine.go runs it: Search,     *)
(* HybridSearch and SearchBM25 (the modes "bm25", "hybrid", "debug"), alone *)
(* or under SearchDocuments, from the collection of candidates to the      *)
(* hits.  search_core.go holds the same steps for a Store without engine.  *)
(* What the documents hold does not change meanwhile (SoftDelete and       *)
(* Documents let it); the calls to models and the reads of sections may    *)
(* fail.  BM25 and cosine scores are given with the chunks: their signs    *)
(* and their order matter here, and that a BM25 score is positive exactly  *)
(* if the chunk has a term of the query.                                   *)
(***************************************************************************)
EXTENDS Integers, Sequences, SequencesExt, FiniteSetsExt

CONSTANTS
    Chunks, None,
    Doc, Section,     \* of each chunk, its document and its section, or None
    Requests,         \* the searches asked for
    Corpora,          \* what the knowledge base may be like
    Scores, Cosines,  \* what BM25 and the embedder may give, 0 for no match
    RerankScores,     \* what the reranker may give
    Limit,            \* of the hits asked for
    Beam,             \* of the vector index
    CandLimit,        \* rerankCandidateLimit
    BatchSize,        \* rerankBatchSize
    TopSections,      \* of the coarse filter
    Denominator,      \* common to the reciprocal ranks, which stay integers
    MaxFaults

ASSUME ChunksAssumption ==
    /\ IsFiniteSet(Chunks) /\ DOMAIN Doc = Chunks /\ DOMAIN Section = Chunks
    /\ \A c, d \in Chunks : Section[c] = Section[d] /\ Section[c] # None => Doc[c] = Doc[d]
ASSUME ScoresAssumption ==
    Scores \subseteq Nat /\ Cosines \subseteq Nat /\ RerankScores \subseteq Int
ASSUME LimitsAssumption ==
    /\ {Limit, Beam, CandLimit, BatchSize, TopSections} \subseteq Nat \ {0}
    /\ MaxFaults \in Nat

(* Reciprocal ranks with constant 60, as multiples of 1 / Denominator, which *)
(* tells all of them apart.                                                 *)
rrfK == 60
Reciprocal(rank) == Denominator \div (rrfK + rank - 1)
ASSUME RanksAssumption ==
    /\ Denominator \in Nat
    /\ \A i, j \in 1 .. Cardinality(Chunks) + 1 : i < j => Reciprocal(i) > Reciprocal(j)

VARIABLES
    (* The knowledge base and the request.                                  *)
    match, cosine,
    hidden,    \* the documents with a tombstone
    manager,   \* the check for tombstones has a manager to ask (init.go gives the engine none)
    unindexed, \* the documents without a chunks index
    posted,    \* those whose terms are in the inverted index
    anyIndex,  \* the engine has a vector index
    expanded,  \* the chunks match by terms that the rewriting of the query added
    request,
    (* The search.                                                          *)
    phase,
    entries,   \* the candidates
    recalled,  \* those of the vector index
    bare,      \* those that only it found: they come without terms and vector
    dense,     \* the cosine of each candidate, 0 when it is not known
    results,   \* the ranking: chunks with their scores
    batches,   \* what the reranker has answered so far
    docs,      \* the documents found
    faults,
    unread,    \* history: the sections that could not be read
    ranking,   \* history: what the results are ordered by
    rescored,  \* history: they have been given other scores since
    given      \* history: the score that the reranker gave to each text

corpusVars == <<match, cosine, hidden, manager, unindexed, posted, anyIndex, expanded, request>>
searchVars == <<corpusVars, phase, entries, recalled, bare, dense, results, batches, docs, faults,
                unread, ranking, rescored, given>>
rerankVars == <<batches, given>>
rankVars == <<ranking, rescored>>

Docs == Range(Doc)
Sections == Range(Section) \ {None}
Filters == [doc : Docs \cup {None}, section : Sections \cup {None}, coarse : BOOLEAN]
NoFilter == [doc |-> None, section |-> None, coarse |-> FALSE]
ASSUME RequestsAssumption ==
    Requests \subseteq [mode : {"bm25", "hybrid", "debug"}, docs : BOOLEAN,
                        filter : Filters, reranker : BOOLEAN]
ASSUME CorporaAssumption ==
    Corpora \subseteq [hidden : SUBSET Docs, manager : BOOLEAN,
                       unindexed : SUBSET Docs, posted : SUBSET Docs]
Zero == [c \in Chunks |-> 0]
Matching == {c \in Chunks : match[c] > 0}

SearchInit ==
    /\ match \in [Chunks -> Scores]
    /\ request \in Requests
    /\ cosine \in IF request.mode = "hybrid" \/ request.reranker THEN [Chunks -> Cosines] ELSE {Zero}
    /\ \E kb \in Corpora :
          /\ hidden = kb.hidden /\ manager = kb.manager
          /\ unindexed = kb.unindexed /\ posted = kb.posted
    /\ anyIndex \in IF request.mode = "hybrid" THEN BOOLEAN ELSE {FALSE}
    /\ expanded \in IF request.filter.coarse THEN BOOLEAN ELSE {FALSE}
    /\ phase = "collect" /\ entries = {} /\ recalled = {} /\ bare = {} /\ dense = Zero
    /\ results = << >> /\ batches = << >> /\ docs = << >> /\ given = << >>
    /\ faults = 0 /\ unread = {} /\ ranking = "none" /\ rescored = FALSE

Hybrid == request.mode = "hybrid"

(* SearchBM25 asks for all documents and calls no reranker.                 *)
Filter == IF request.mode = "debug" THEN NoFilter ELSE request.filter
ToRerank == request.mode # "debug" /\ request.reranker /\ results # << >>

Fails == faults < MaxFaults /\ faults' = faults + 1

-----------------------------------------------------------------------------
(* Candidates.                                                              *)

(* A chunk has a vector and a section by its document's chunks index.       *)
Indexed(c) == Doc[c] \notin unindexed
SectionOf(c) == IF Indexed(c) THEN Section[c] ELSE None

(* The postings of the query's terms, as far as documents have a chunks     *)
(* index; without any posting, all chunks are scanned.                      *)
Postings == {c \in Matching : Doc[c] \in posted}
QueryCandidates == IF Postings # {} THEN {c \in Postings : Indexed(c)} ELSE Chunks

InSection(c) == Filter.section \in {None, Section[c]}

(* The scan filters by sections only where there is an index of them.       *)
AdmittedUnhidden(c) ==  \* mutant: the tombstones are not asked
    Filter.doc \in {None, Doc[c]} /\ (Indexed(c) => InSection(c))
Admitted(c) ==
    /\ manager => Doc[c] \notin hidden
    /\ Filter.doc \in {None, Doc[c]}
    /\ Indexed(c) => InSection(c)

CollectEntries ==
    /\ phase = "collect"
    /\ entries' = {c \in QueryCandidates : Admitted(c)}
    /\ phase' = CASE entries' = {} -> "answered"
                  [] entries' # {} /\ Filter.coarse -> "coarse"
                  [] OTHER -> "recall"
    /\ UNCHANGED <<corpusVars, recalled, bare, dense, results, rerankVars, docs, faults, unread, rankVars>>

SectionsOf(E) == {SectionOf(c) : c \in E} \ {None}

(* A section chunk's text is that of its chunks; it is scored among the     *)
(* other sections, by the query as it was asked.                            *)
SectionMatches(s) == ~expanded /\ \E c \in Matching : Section[c] = s

(* The best of a set, as many as there are up to n, in any order of equals. *)
TopOf(n, S, score) ==
    {T \in SUBSET S :
        /\ Cardinality(T) = Min({n, Cardinality(S)})
        /\ \A x \in T, y \in S \ T : score[x] >= score[y]}

InTopSections(T) == {c \in entries : SectionOf(c) \in T}  \* mutant: chunks without a section go
InSections(T) == {c \in entries : SectionOf(c) \in T \cup {None}}

(* Entries of the best sections go on; of the sections that can be read.    *)
CoarseToFineFilter ==
    /\ phase = "coarse"
    /\ unread' \in SUBSET SectionsOf(entries)
    /\ LET read == SectionsOf(entries) \ unread' IN
          /\ IF unread' = {} THEN UNCHANGED faults ELSE Fails
          /\ IF read = {} THEN UNCHANGED entries
             ELSE \E T \in SUBSET {s \in read : SectionMatches(s)} :
                     /\ Cardinality(T) = Min({TopSections, Cardinality({s \in read : SectionMatches(s)})})
                     /\ entries' = InSections(T)
    /\ phase' = IF entries' = {} THEN "answered" ELSE "recall"
    /\ UNCHANGED <<corpusVars, recalled, bare, dense, results, rerankVars, docs, rankVars>>

(* All that the vector index finds is added, unfiltered.                    *)
Recall ==
    /\ phase = "recall"
    /\ IF anyIndex
       THEN \E hits \in TopOf(Beam, {c \in Chunks : cosine[c] > 0}, cosine) :
               recalled' = hits /\ bare' = hits \ entries /\ entries' = entries \cup hits
       ELSE UNCHANGED <<recalled, bare, entries>>
    /\ phase' = IF Hybrid THEN "dense" ELSE "score"
    /\ UNCHANGED <<corpusVars, dense, results, rerankVars, docs, faults, unread, rankVars>>

(* Without the query's vector nothing is recalled; without it again, only   *)
(* the cosines of those recalled are known.                                 *)
EmbeddingFails ==
    /\ Fails
    /\ \/ phase = "recall" /\ anyIndex /\ phase' = "dense" /\ UNCHANGED dense
       \/ /\ phase = "dense" /\ phase' = "score"
          /\ dense' = [c \in Chunks |-> IF c \in recalled THEN cosine[c] ELSE 0]
    /\ UNCHANGED <<corpusVars, entries, recalled, bare, results, rerankVars, docs, unread, rankVars>>

DenseScoring ==
    /\ phase = "dense"
    /\ dense' = [c \in Chunks |->
          IF c \in recalled \/ (c \in entries /\ Indexed(c)) THEN cosine[c] ELSE 0]
    /\ phase' = "score"
    /\ UNCHANGED <<corpusVars, entries, recalled, bare, results, rerankVars, docs, faults, unread, rankVars>>

-----------------------------------------------------------------------------
(* Scores and order.                                                        *)

(* A chunk that only the vector index found comes without its terms.        *)
Lexical(c) == IF c \in bare THEN 0 ELSE match[c]

(* The orders a sort may give: equals in any order.                         *)
Sorted(S, score) == {s \in SetToSeqs(S) : \A i, j \in DOMAIN s : i < j => score[s[i]] >= score[s[j]]}

(* The results are cut before the first below 15% of the best.              *)
KeepTopRelativeScore(s) ==
    LET below == {i \in DOMAIN s : 20 * s[i].score < 3 * s[1].score} IN
    SubSeq(s, 1, Min(below \cup {Len(s) + 1}) - 1)

Ranked(s, score) == [i \in DOMAIN s |-> [chunk |-> s[i], score |-> score[s[i]]]]

BM25Scoring ==
    /\ phase = "score" /\ ~Hybrid
    /\ \E s \in Sorted({c \in entries : match[c] > 0}, match) :
          results' = KeepTopRelativeScore(Ranked(s, match))
    /\ ranking' = "bm25" /\ phase' = "rerank"
    /\ UNCHANGED <<corpusVars, entries, recalled, bare, dense, rerankVars, docs, faults, unread, rescored>>

(* The query's type gives the weight of the lexical rank in tenths.         *)
Weights == {4, 5, 6}
RankIn(order, c) == CHOOSE i \in DOMAIN order : order[i] = c
Share(c, order, score) == IF score[c] > 0 THEN Reciprocal(RankIn(order, c)) ELSE 0
Lexicals == [c \in entries |-> Lexical(c)]

Fused(alpha, b, d) ==
    [c \in entries |-> alpha * Share(c, b, Lexicals) + (10 - alpha) * Share(c, d, dense)]

RRFFusion ==
    /\ phase = "score" /\ Hybrid
    /\ \E alpha \in Weights, b \in Sorted(entries, Lexicals), d \in Sorted(entries, dense) :
          LET rrf == Fused(alpha, b, d) IN
          \E s \in Sorted({c \in entries : rrf[c] > 0}, rrf) :
             results' = KeepTopRelativeScore(Ranked(s, rrf))
    /\ ranking' = "rrf" /\ phase' = "rerank"
    /\ UNCHANGED <<corpusVars, entries, recalled, bare, dense, rerankVars, docs, faults, unread, rescored>>

-----------------------------------------------------------------------------
(* The reranker takes the first candidates' texts, batch by batch.          *)

Candidates == SubSeq(results, 1, Min({CandLimit, Len(results)}))

FirstBatch ==  \* mutant: every batch starts with the first candidate
    SubSeq(Candidates, 1, Min({BatchSize, Len(Candidates) - Len(batches)}))
NextBatch == SubSeq(Candidates, Len(batches) + 1, Min({Len(batches) + BatchSize, Len(Candidates)}))

RerankBatch ==
    /\ phase = "rerank" /\ ToRerank /\ Len(batches) < Len(Candidates)
    /\ \E scores \in [DOMAIN NextBatch -> RerankScores] :
          /\ batches' = batches \o scores
          /\ given' = [c \in DOMAIN given \cup {NextBatch[k].chunk : k \in DOMAIN NextBatch} |->
                         IF \E k \in DOMAIN NextBatch : NextBatch[k].chunk = c
                         THEN scores[CHOOSE k \in DOMAIN NextBatch : NextBatch[k].chunk = c] ELSE given[c]]
    /\ UNCHANGED <<corpusVars, phase, entries, recalled, bare, dense, results, docs, faults, unread, rankVars>>

Rescored(scores) == [i \in DOMAIN Candidates |-> [chunk |-> Candidates[i].chunk, score |-> scores[i]]]

(* SearchDocuments asks for three times as many chunks.                     *)
ChunkLimit == IF request.docs THEN 3 * Limit ELSE Limit

FirstHits(scores) ==  \* mutant: the hits are cut before they are sorted
    Range(SubSeq(Rescored(scores), 1, Min({ChunkLimit, Len(Candidates)})))
AllHits(scores) == Range(Rescored(scores))

SortByRerankScores ==
    /\ phase = "rerank" /\ ToRerank /\ Len(batches) = Len(Candidates)
    /\ \E s \in SetToSeqs(AllHits(batches)) :
          /\ \A i, j \in DOMAIN s : i < j => s[i].score >= s[j].score
          /\ results' = s
    /\ ranking' = "reranked" /\ phase' = "cap"
    /\ UNCHANGED <<corpusVars, entries, recalled, bare, dense, rerankVars, docs, faults, unread, rescored>>

(* When a batch fails the candidates keep their order, with the cosines of  *)
(* the vectors they came with, if there are any, for scores, or else with   *)
(* the scores they had.                                                     *)
HasVector(c) == c \notin bare /\ Indexed(c)
RerankFails ==
    /\ phase = "rerank" /\ ToRerank /\ Len(batches) < Len(Candidates)
    /\ Fails
    /\ \/ results' = Candidates /\ UNCHANGED rescored
       \/ /\ \E r \in Range(Candidates) : HasVector(r.chunk)
          /\ results' = Rescored([i \in DOMAIN Candidates |->
                LET c == Candidates[i].chunk IN IF HasVector(c) THEN cosine[c] ELSE 0])
          /\ rescored' = TRUE
    /\ phase' = "cap"
    /\ UNCHANGED <<corpusVars, entries, recalled, bare, dense, rerankVars, docs, unread, ranking>>

NotReranked ==
    /\ phase = "rerank" /\ ~ToRerank
    /\ phase' = "cap"
    /\ UNCHANGED <<corpusVars, entries, recalled, bare, dense, results, rerankVars, docs, faults, unread, rankVars>>

Cap ==
    /\ phase = "cap"
    /\ results' = SubSeq(results, 1, Min({ChunkLimit, Len(results)}))
    /\ phase' = IF request.docs THEN "group" ELSE "answered"
    /\ UNCHANGED <<corpusVars, entries, recalled, bare, dense, rerankVars, docs, faults, unread, rankVars>>

(* Documents stand with the score of their best chunk.                      *)
HitsOf(d) == {i \in DOMAIN results : Doc[results[i].chunk] = d}
MaxScore(d) == Max({results[i].score : i \in HitsOf(d)})

GroupByDocument ==
    /\ phase = "group"
    /\ LET best == [d \in {Doc[r.chunk] : r \in Range(results)} |-> MaxScore(d)] IN
       \E s \in Sorted(DOMAIN best, best) : docs' = SubSeq(s, 1, Min({Limit, Len(s)}))
    /\ phase' = "answered"
    /\ UNCHANGED <<corpusVars, entries, recalled, bare, dense, results, rerankVars, faults, unread, rankVars>>

SearchNext ==
    \/ CollectEntries \/ CoarseToFineFilter \/ Recall \/ EmbeddingFails \/ DenseScoring
    \/ BM25Scoring \/ RRFFusion
    \/ RerankBatch \/ SortByRerankScores \/ RerankFails \/ NotReranked
    \/ Cap \/ GroupByDocument

SearchSpec == SearchInit /\ [][SearchNext]_searchVars

-----------------------------------------------------------------------------
(* Properties.                                                              *)

Answered == phase = "answered"
Found == {r.chunk : r \in Range(results)}

(* Hits are of documents without a tombstone, if the check has a manager to *)
(* ask, of the document and, where a chunks index names the sections, of    *)
(* the section asked for, whatever fails on the way.  A vector index that   *)
(* recalls does not ask (engine.go:664), nor does the scan of a document    *)
(* without a chunks index (collect.go:103) heed sections, both findings.    *)
HitsAdmitted ==
    Answered /\ ~anyIndex /\ request.mode # "debug" =>
        \A c \in Found :
            /\ manager => Doc[c] \notin hidden
            /\ request.filter.doc \in {None, Doc[c]}
            /\ \/ request.filter.section \in {None, Section[c]}
               \/ ~Indexed(c) /\ Postings = {}

(* Where there are postings, documents without any or without a chunks      *)
(* index are passed over.                                                   *)
Findable(c) == Admitted(c) /\ c \in QueryCandidates

(* A search with a chunk to find answers one with a term of the query or,   *)
(* by vectors or reranked, another, whatever model calls fail; under the    *)
(* coarse filter, if every section could be read and the terms that match   *)
(* were not added to the query.                                             *)
MatchingIsFound ==
    Answered /\ (\E c \in Matching : Findable(c)) /\ ~expanded /\ (Filter.coarse => unread = {}) =>
        /\ results # << >>
        /\ ~Hybrid => Found \cap Matching # {}
        /\ request.docs => docs # << >>

(* c is better than d by what the results are ordered by: a fused ranking   *)
(* owes an order only to chunks that differ the same way in both scores,    *)
(* the reranker's only to those whose texts it was given.                   *)
Better(c, d) ==
    \/ ranking = "bm25" /\ match[c] > match[d]
    \/ ranking = "rrf" /\ Lexical(c) > Lexical(d) /\ dense[c] > dense[d]
    \/ /\ ranking = "reranked" /\ {c, d} \subseteq DOMAIN given
       /\ given[c] > given[d]

(* The cuts and sorts on the way lose nothing better: no hit stands before  *)
(* or without a candidate that is better than it, also when the reranker    *)
(* failed and the order of before is kept; hits stand by their scores but   *)
(* in that case, where the scores are of no use for the order (a finding);  *)
(* and a document stands before another only if a chunk of its is at least  *)
(* as good as all of the other's.                                           *)
NoneBetter ==
    \A j \in DOMAIN results, c \in entries :
        Better(c, results[j].chunk) => \E i \in 1 .. j - 1 : results[i].chunk = c
HitsDescend ==
    ~rescored => \A i, j \in DOMAIN results : i < j => results[i].score >= results[j].score
DocsDescend ==
    \A i, j \in DOMAIN docs : i < j =>
        \E x \in HitsOf(docs[i]) : \A y \in HitsOf(docs[j]) : results[x].score >= results[y].score
BestFirst == Answered => NoneBetter /\ HitsDescend /\ DocsDescend

(* The score of a reranked hit is the one the reranker gave to its text,    *)
(* however the candidates were cut into batches.                            *)
OwnScores ==
    Answered /\ ranking = "reranked" =>
        \A r \in Range(results) : r.chunk \in DOMAIN given /\ r.score = given[r.chunk]
=============================================================================
