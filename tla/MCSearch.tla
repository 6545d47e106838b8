------------------------------- MODULE MCSearch -------------------------------
(* Two documents: d1 with the sections s1 and s2 of a chunk each, d2 with a  *)
(* chunk under no heading.                                                   *)
EXTENDS Search

CONSTANTS c1, c2, c3, d1, d2, s1, s2

MCDoc == c1 :> d1 @@ c2 :> d1 @@ c3 :> d2
MCSection == c1 :> s1 @@ c2 :> s2 @@ c3 :> None

To(doc) == [NoFilter EXCEPT !.doc = doc]
In(section) == [NoFilter EXCEPT !.section = section]
Coarse == [NoFilter EXCEPT !.coarse = TRUE]

(* Searches of documents are not filtered; SearchBM25 is asked to filter and *)
(* to rerank, in vain.                                                       *)
MCRequests ==
    [mode : {"bm25", "hybrid"}, docs : {FALSE}, filter : {NoFilter}, reranker : BOOLEAN]
    \cup [mode : {"bm25", "hybrid"}, docs : {FALSE}, filter : {Coarse, To(d2), In(s1)}, reranker : {FALSE}]
    \cup [mode : {"bm25", "hybrid"}, docs : {TRUE}, filter : {NoFilter}, reranker : BOOLEAN]
    \cup [mode : {"debug"}, docs : {FALSE}, filter : {In(s1)}, reranker : {TRUE}]

(* d1 is hidden where tombstones are asked for, and has no chunks index where *)
(* they are not; there its postings may be missing, too.                     *)
MCCorpora ==
    [hidden : {{}}, manager : {FALSE}, unindexed : {{}}, posted : {{}, {d1, d2}}]
    \cup [hidden : {{d1}}, manager : {TRUE}, unindexed : {{}}, posted : {{}, {d1, d2}}]
    \cup [hidden : {{d1}}, manager : {FALSE}, unindexed : {{d1}}, posted : {{}, {d2}, {d1, d2}}]
=============================================================================
