-------------------------------- MODULE Caches --------------------------------
(***************************************************************************)
(* The read-through cache in front of the storage backend: the keys of     *)
(* internal/cache/keys.go and of the engines, the reads that fill them     *)
(* (store.go, search/engine.go, chunkstore/engine.go, kb/engine.go), and   *)
(* what each change to a document or a knowledge base evicts.              *)
(*                                                                         *)
(* Redis is a map that outlives the process. Every call to it is a step of *)
(* its own and may fail; a failed call is logged and the request goes on.  *)
(***************************************************************************)
EXTENDS Integers, Sequences, FiniteSets

CONSTANTS
    KBs, Flat,   \* knowledge bases; the flat one, whose name is empty
    Docs,        \* slugs: each is uploaded once
    Filters,     \* what a search may be restricted to, by document
    Clients,
    Deployments, \* how the caches are wired, and what clients ask for
    DocKinds,    \* kinds of entries about one document that readers ask for
    Expiring,    \* kinds of entries with a TTL above zero
    MaxRevision, Faults, MaxFaults,
    Nothing

Jobs == {"read", "upload", "rewrite", "remove", "hide", "kb"}
AllDocKinds == {"chunk", "meta", "index"}
Keys == [kind : DocKinds, kb : KBs, doc : Docs]
            \cup [kind : {"query"}, kb : KBs, doc : {Nothing}]
            \cup {[kind |-> "kblist", kb |-> Nothing, doc |-> Nothing]}
QueryKey(k) == [kind |-> "query", kb |-> k, doc |-> Nothing]
KBListKey == [kind |-> "kblist", kb |-> Nothing, doc |-> Nothing]
Removed == MaxRevision + 1

ASSUME NamesAssumption == Flat \in KBs /\ Nothing \notin KBs \cup Docs
ASSUME FiltersAssumption == Filters \subseteq SUBSET Docs
ASSUME KindsAssumption ==
    DocKinds \subseteq AllDocKinds /\ Expiring \subseteq AllDocKinds \cup {"query", "kblist"}
ASSUME DeploymentsAssumption ==
    Deployments \subseteq [wiring : {"store", "engine"}, asks : SUBSET (Jobs \X (KBs \cup {Nothing}))]
ASSUME BoundsAssumption == MaxRevision \in Nat \ {0} /\ MaxFaults \in Nat

VARIABLES
    kbs,       \* knowledge bases of the backend, the flat one among them
    revision,  \* of each document: 0 before its upload, Removed at the end
    hidden,    \* soft-deleted documents
    entries,   \* what Redis holds for each key, Nothing for no entry
    proc,      \* the request each client runs
    deployment,
    faults,
    excused    \* history: entries a fault, a race or a change that evicts
               \* nothing may have left stale

backend == <<kbs, revision, hidden>>
vars == <<backend, entries, proc, deployment, faults, excused>>

Idle == [at |-> "idle", key |-> Nothing, filter |-> {}, val |-> Nothing,
         evict |-> << >>, found |-> {}, job |-> Nothing]
InKB(k) == k \in kbs
Live(k, d) == InKB(k) /\ revision[<<k, d>>] \in 1..MaxRevision

(* What the reads that go to the backend find. cacheQueryHash knows a       *)
(* search's source type and section, not the documents it is restricted to. *)
ReadChunk(k, d) == IF Live(k, d) THEN {revision[<<k, d>>]} ELSE {}
ReadMeta(k, d) == IF Live(k, d) THEN {revision[<<k, d>>]} ELSE {}
ReadChunksIndex(k, d) == IF Live(k, d) THEN {revision[<<k, d>>]} ELSE {}
ListKBs == kbs
Search(k, filter) ==
    {<<d, revision[<<k, d>>]>> : d \in {x \in filter : Live(k, x) /\ <<k, x>> \notin hidden}}

Current(key, filter) ==
    CASE key.kind = "query"  -> Search(key.kb, filter)
      [] key.kind = "kblist" -> ListKBs
      [] key.kind = "chunk"  -> ReadChunk(key.kb, key.doc)
      [] key.kind = "meta"   -> ReadMeta(key.kb, key.doc)
      [] key.kind = "index"  -> ReadChunksIndex(key.kb, key.doc)

(* Every read but ListKBs leaves an empty answer out of the cache.          *)
Caches(key, val) == key.kind = "kblist" \/ val # {}

(* The server gives its Redis client to the Store, to the search engine and *)
(* to the ingest engine: the chunk store and the KB engine work without.    *)
HasClient(key) == deployment.wiring = "store" \/ key.kind = "query"

Init ==
    /\ kbs = KBs
    /\ revision = [x \in KBs \X Docs |-> 0]
    /\ hidden = {}
    /\ entries = [key \in Keys |-> Nothing]
    /\ proc = [p \in Clients |-> Idle]
    /\ deployment \in Deployments
    /\ faults = 0 /\ excused = {}

Fault(kind) == kind \in Faults /\ faults < MaxFaults /\ faults' = faults + 1
Asked(job, k) == <<job, k>> \in deployment.asks
Finish(p) == proc' = [proc EXCEPT ![p] = Idle]

-----------------------------------------------------------------------------
(* Reads: Get, and on a miss the backend, then Set.                         *)

Begin(p, key, filter) ==
    /\ proc[p] = Idle /\ Asked("read", key.kb) /\ HasClient(key)
    /\ proc' = [proc EXCEPT ![p].at = "read", ![p].key = key, ![p].filter = filter,
                            ![p].job = "read"]
    /\ UNCHANGED <<backend, entries, deployment, excused>>

Miss(p, key, filter) ==
    /\ entries[key] = Nothing
    /\ Begin(p, key, filter)
    /\ UNCHANGED faults

GetFails(p, key, filter) ==
    /\ entries[key] # Nothing
    /\ Fault("get")
    /\ Begin(p, key, filter)

Read(p) ==
    /\ proc[p].at = "read"
    /\ LET val == Current(proc[p].key, proc[p].filter)
       IN  IF Caches(proc[p].key, val)
           THEN proc' = [proc EXCEPT ![p].at = "fill", ![p].val = val]
           ELSE Finish(p)
    /\ UNCHANGED <<backend, entries, deployment, faults, excused>>

HasTTLNever(key) == FALSE  \* mutant: Set without the TTL

HasTTL(key) == key.kind \in Expiring

(* A value read before a change the backend has seen since is a lost race.  *)
Fill(p) ==
    /\ proc[p].at = "fill"
    /\ LET key == proc[p].key IN
       /\ entries' = [entries EXCEPT ![key] =
             [val |-> proc[p].val, filter |-> proc[p].filter, expires |-> HasTTL(key)]]
       /\ excused' = IF proc[p].val = Current(key, proc[p].filter)
                     THEN excused \ {key} ELSE excused \cup {key}
    /\ Finish(p)
    /\ UNCHANGED <<backend, deployment, faults>>

SetFails(p) ==
    /\ proc[p].at = "fill"
    /\ Fault("set")
    /\ Finish(p)
    /\ UNCHANGED <<backend, entries, deployment, excused>>

Expire(key) ==
    /\ entries[key] # Nothing /\ entries[key].expires
    /\ entries' = [entries EXCEPT ![key] = Nothing]
    /\ excused' = excused \ {key}
    /\ UNCHANGED <<backend, proc, deployment, faults>>

-----------------------------------------------------------------------------
(* What a change evicts: a list of patterns, each the keys it matches.      *)

(* DocInvalidatePattern, "*:kb:slug:*": a key with something after the slug. *)
DocPattern(k, d) == {key \in Keys : key.kind \in DocKinds /\ key.kb = k /\ key.doc = d}
QueryPattern(k) == {QueryKey(k)}
StorePatterns(k, d) == <<DocPattern(k, d), QueryPattern(k)>>

(* The ingest engine spells its patterns itself: chunks only, and the flat  *)
(* knowledge base called "default", which no key is.                        *)
IngestPatterns(k, d) ==
    IF k = Flat THEN << {}, {} >>
    ELSE <<{key \in DocPattern(k, d) : key.kind = "chunk"}, QueryPattern(k)>>

UploadPatterns(k, d) ==
    IF deployment.wiring = "store" THEN StorePatterns(k, d) ELSE IngestPatterns(k, d)

ListOnly(k, deleted) ==  \* mutant: a deletion forgets the searches
    IF deployment.wiring = "engine" THEN << >> ELSE <<{KBListKey}>>

(* The KB engine has no client; the Store evicts the list, and on a         *)
(* deletion the knowledge base's searches.                                  *)
KBPatterns(k, deleted) ==
    IF deployment.wiring = "engine" THEN << >>
    ELSE IF deleted THEN <<{KBListKey}, QueryPattern(k)>> ELSE <<{KBListKey}>>

Elements(s) == {s[i] : i \in 1..Len(s)}

Stale(key) == entries[key] # Nothing /\ entries[key].val # Current(key, entries[key].filter)

(* The change itself, then the evictions.                                   *)
Change(p, job, evict) ==
    /\ proc[p] = Idle
    /\ proc' = [proc EXCEPT ![p].at = IF evict = << >> THEN "idle" ELSE "evict",
                            ![p].evict = evict,
                            ![p].job = IF evict = << >> THEN Nothing ELSE job]
    /\ UNCHANGED <<entries, deployment, faults>>

Excuse(keys) == excused' = excused \cup {key \in keys : Stale(key)'}

(* Uploads and removals hold Store.mu to the end of their evictions.        *)
StoreFree == \A q \in Clients : proc[q].job \notin {"upload", "remove"}

Upload(p, k, d) ==
    /\ Asked("upload", k) /\ (deployment.wiring = "store" => StoreFree)
    /\ InKB(k) /\ revision[<<k, d>>] = 0
    /\ revision' = [revision EXCEPT ![<<k, d>>] = 1]
    /\ Change(p, IF deployment.wiring = "store" THEN "upload" ELSE "ingest", UploadPatterns(k, d))
    /\ UNCHANGED <<kbs, hidden>>
    /\ Excuse(IF deployment.wiring = "engine" /\ k = Flat THEN Keys ELSE {})

(* AppendDocumentText, and the tag and metadata updates: no eviction.       *)
Rewrite(p, k, d) ==
    /\ Asked("rewrite", k)
    /\ Live(k, d) /\ revision[<<k, d>>] < MaxRevision
    /\ revision' = [revision EXCEPT ![<<k, d>>] = @ + 1]
    /\ Change(p, "rewrite", << >>)
    /\ UNCHANGED <<kbs, hidden>>
    /\ Excuse(Keys)

Remove(p, k, d) ==
    /\ Asked("remove", k) /\ StoreFree
    /\ Live(k, d)
    /\ revision' = [revision EXCEPT ![<<k, d>>] = Removed]
    /\ Change(p, "remove", StorePatterns(k, d))
    /\ UNCHANGED <<kbs, hidden, excused>>

(* SoftDeleteDocument and RestoreDocument: no eviction.                     *)
Hide(p, k, d) ==
    /\ Asked("hide", k) /\ Live(k, d)
    /\ hidden' = IF <<k, d>> \in hidden THEN hidden \ {<<k, d>>} ELSE hidden \cup {<<k, d>>}
    /\ Change(p, "hide", << >>)
    /\ UNCHANGED <<kbs, revision>>
    /\ Excuse(Keys)

CreateKB(p, k) ==
    /\ Asked("kb", k) /\ k \notin kbs
    /\ kbs' = kbs \cup {k}
    /\ Change(p, "kb", KBPatterns(k, FALSE))
    /\ UNCHANGED <<revision, hidden, excused>>

(* The documents of a deleted knowledge base go with it; their own entries  *)
(* are on no pattern.                                                       *)
DeleteKB(p, k) ==
    /\ Asked("kb", k) /\ k \in kbs /\ k # Flat
    /\ kbs' = kbs \ {k}
    /\ revision' = [x \in DOMAIN revision |->
          IF x[1] = k /\ revision[x] # 0 THEN Removed ELSE revision[x]]
    /\ Change(p, "kb", KBPatterns(k, TRUE))
    /\ UNCHANGED hidden
    /\ Excuse({key \in Keys : deployment.wiring = "engine" \/ key.kind \in DocKinds})

-----------------------------------------------------------------------------
(* DeletePattern: KEYS, then DEL of what it returned.                       *)

NextPattern(p) ==
    IF Len(proc[p].evict) = 1 THEN Finish(p)
    ELSE proc' = [proc EXCEPT ![p].evict = Tail(@), ![p].at = "evict", ![p].found = {}]

ListKeys(p) ==
    /\ proc[p].at = "evict"
    /\ LET found == {key \in Head(proc[p].evict) : entries[key] # Nothing}
       IN  IF found = {} THEN NextPattern(p)
           ELSE proc' = [proc EXCEPT ![p].at = "delete", ![p].found = found]
    /\ UNCHANGED <<backend, entries, deployment, faults, excused>>

DeleteKeys(p) ==
    /\ proc[p].at = "delete"
    /\ entries' = [key \in Keys |-> IF key \in proc[p].found THEN Nothing ELSE entries[key]]
    /\ excused' = excused \ proc[p].found
    /\ NextPattern(p)
    /\ UNCHANGED <<backend, deployment, faults>>

EvictFails(p) ==
    /\ proc[p].at \in {"evict", "delete"}
    /\ Fault("evict")
    /\ excused' = excused \cup Head(proc[p].evict)
    /\ NextPattern(p)
    /\ UNCHANGED <<backend, entries, deployment>>

(* The server ends; Redis keeps what it has.                                *)
Restart ==
    /\ Fault("restart")
    /\ proc' = [p \in Clients |-> Idle]
    /\ excused' = excused \cup UNION {UNION Elements(proc[p].evict) : p \in Clients}
    /\ UNCHANGED <<backend, entries, deployment>>

-----------------------------------------------------------------------------
Reads(p) ==
    \/ \E key \in Keys, f \in Filters :
          /\ (key.kind # "query" => f = Docs)
          /\ Miss(p, key, f) \/ GetFails(p, key, f)
    \/ Read(p) \/ Fill(p) \/ SetFails(p)
Changes(p) ==
    \E k \in KBs : \/ \E d \in Docs : Upload(p, k, d) \/ Rewrite(p, k, d) \/ Remove(p, k, d) \/ Hide(p, k, d)
                   \/ CreateKB(p, k) \/ DeleteKB(p, k)
Evictions(p) == ListKeys(p) \/ DeleteKeys(p) \/ EvictFails(p)

Next ==
    \/ \E p \in Clients : Reads(p) \/ Changes(p) \/ Evictions(p)
    \/ \E key \in Keys : Expire(key)
    \/ Restart

(* Redis drops what has expired; a request that has begun goes on.          *)
Fairness ==
    /\ \A key \in Keys : WF_vars(Expire(key))
    /\ \A p \in Clients : WF_vars(Read(p)) /\ WF_vars(Fill(p) \/ SetFails(p)) /\ WF_vars(Evictions(p))
Spec == Init /\ [][Next]_vars /\ Fairness

-----------------------------------------------------------------------------
(* EvictedOrCurrent: an entry agrees with the backend, or an eviction on    *)
(* its way will drop it, or something excuses it: a failed call to Redis, a *)
(* restart before the eviction, a read that overlapped the change, or one   *)
(* of the changes that evict nothing (Store.InvalidateDoc, DeleteKB).       *)
OnTheWay(p) ==
    IF proc[p].at = "delete"
    THEN proc[p].found \cup UNION Elements(Tail(proc[p].evict))
    ELSE UNION Elements(proc[p].evict)
EvictedOrCurrent ==
    \A key \in Keys : Stale(key) => key \in excused \cup UNION {OnTheWay(p) : p \in Clients}

(* StaleSearchesExpire: whatever left a cached search stale, and although   *)
(* hits never renew it, it does not stay: the query TTL ends it             *)
(* (queryCacheTTL, search/engine.go).                                       *)
StaleSearchesExpire == \A k \in KBs : Stale(QueryKey(k)) ~> ~ Stale(QueryKey(k))
=============================================================================
