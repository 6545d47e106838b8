----------------------------- MODULE VectorIndex -----------------------------
(***************************************************************************)
(* The vector index of one named knowledge base and the chunk indexes it   *)
(* mirrors: the Store methods of internal/knowledge/store.go that load,    *)
(* build, update and save it, the requests that call them (uploads,        *)
(* removals, vector searches, vector rebuilds), and VECTOR.gob.            *)
(*                                                                         *)
(* A request works on the pointer its WithKB view was given. Views share   *)
(* an index through vecState.cache, or hold one of their own. Uploads and  *)
(* searches are those of a Store without ingest and search engines: as     *)
(* init.go wires them, the ingest engine indexes every upload in the flat  *)
(* knowledge base, and the search engine is never given an index.          *)
(***************************************************************************)
EXTENDS HNSW

CONSTANTS
    Docs,        \* document slugs
    ChunksOf,    \* the vector IDs of each document
    Clients, Free,
    Models,      \* dimensions of the embedding models an operator may serve
    Served,      \* the one served at the start
    Configured,  \* embedder.dim of the configuration, 0 to detect it
    Overlap,     \* the pairs of operations whose requests may overlap
    Gone, Missing, Torn,  \* no index: freed memory, no file, half a file
    Faults, MaxFaults, MaxIndexes, MaxSwitches

AllOps == {"upload", "remove", "search", "rebuild"}
AllFaults == {"embed", "save", "read", "restart"}

ASSUME DocsAssumption ==
    /\ ChunksOf \in [Docs -> SUBSET Ids]
    /\ \A d, e \in Docs : d # e => ChunksOf[d] \cap ChunksOf[e] = {}
ASSUME PlaceholdersAssumption == {Gone, Missing, Torn} \cap HNSWIndexes = {}
ASSUME ClientsAssumption == Free \notin Clients /\ Overlap \subseteq SUBSET AllOps
ASSUME ModelsAssumption ==
    Models \subseteq Nat \ {0} /\ Served \in Models /\ Configured \in {0} \cup Models
ASSUME BoundsAssumption ==
    /\ MaxFaults \in Nat /\ MaxIndexes \in Nat \ {0} /\ MaxSwitches \in Nat
    /\ Faults \subseteq AllFaults

VARIABLES
    rows,      \* documents with a chunks index
    vectorOf,  \* len(entry.Vector) of each chunk's entry, 0 for none
    heap,      \* the HNSWIndex objects somebody points to, Gone elsewhere
    cache,     \* vecState.cache of the knowledge base, 0 for no entry
    view,      \* Store.vectorIndex of each request's view, 0 for nil
    gob,       \* VECTOR.gob: Missing, Torn or an index
    served,    \* dimension of the model behind the embedding endpoint
    dim,       \* embedder.dim
    detected,  \* embedder.dimOnce has run
    mu, pc, req,
    todo,      \* documents a rebuild has still to look at
    want,      \* the dimension it read when it began
    embedded,  \* result.DocsProcessed > 0
    missed,    \* history: chunks it has passed over, which it does not tell
    faults, switches,
    intact     \* history: nothing has gone wrong since the last full build

rowVars == <<rows, vectorOf>>
indexVars == <<heap, cache, view>>
modelVars == <<served, dim, detected, switches>>
taskVars == <<mu, pc, req, todo, want, embedded, missed>>
vars == <<rowVars, indexVars, gob, modelVars, taskVars, faults, intact>>

OnDisk == gob \notin {Missing, Torn}
NoRequest == [op |-> "none", doc |-> "none"]

----------------------------------------------------------------------------
(* Pointers. What nobody points to any more is garbage.                     *)

Collected(h, c, v) ==
    [i \in 1..MaxIndexes |->
        IF i = c \/ \E p \in Clients : v[p] = i THEN h[i] ELSE Gone]

SetPointers(h, c, v) ==
    heap' = Collected(h, c, v) /\ cache' = c /\ view' = v

FreeSlot == CHOOSE i \in 1..MaxIndexes :
    heap[i] = Gone /\ \A j \in 1..(i - 1) : heap[j] # Gone
HasSlot == \E i \in 1..MaxIndexes : heap[i] = Gone

Mine(p) == heap[view[p]]

Goto(p, label) == pc' = [pc EXCEPT ![p] = label]

Fault(kind) == kind \in Faults /\ faults < MaxFaults /\ faults' = faults + 1

----------------------------------------------------------------------------
Init ==
    /\ rows = {} /\ vectorOf = [i \in Ids |-> 0]
    /\ heap = [i \in 1..MaxIndexes |-> Gone]
    /\ cache = 0 /\ view = [p \in Clients |-> 0]
    /\ gob = Missing
    /\ served = Served /\ dim = Configured /\ detected = FALSE
    /\ mu = Free /\ pc = [p \in Clients |-> "idle"]
    /\ req = [p \in Clients |-> NoRequest]
    /\ todo = {} /\ want = 0 /\ embedded = FALSE /\ missed = {}
    /\ faults = 0 /\ switches = 0 /\ intact = TRUE

(* WithKB at the start of a request: the cached index, or a copy read from  *)
(* the file, which the cache then keeps.                                    *)
WithKB(p) ==
    IF cache # 0
    THEN SetPointers(heap, cache, [view EXCEPT ![p] = cache])
    ELSE IF OnDisk
    THEN /\ HasSlot
         /\ SetPointers([heap EXCEPT ![FreeSlot] = gob], FreeSlot,
                        [view EXCEPT ![p] = FreeSlot])
    ELSE SetPointers(heap, 0, [view EXCEPT ![p] = 0])

Busy == {p \in Clients : pc[p] # "idle"}

Begin(p, op, d) ==
    /\ pc[p] = "idle"
    /\ \A q \in Busy : {op, req[q].op} \in Overlap
    /\ WithKB(p)
    /\ req' = [req EXCEPT ![p] = [op |-> op, doc |-> d]]
    /\ Goto(p, "lock")
    /\ UNCHANGED <<rowVars, gob, modelVars, mu, todo, want, embedded, missed, faults, intact>>

(* A document's slug carries its upload time: it is uploaded once.          *)
BeginUpload(p, d) ==
    /\ d \notin rows /\ \A q \in Busy : req[q].doc # d
    /\ Begin(p, "upload", d)
BeginRemove(p, d) == d \in rows /\ Begin(p, "remove", d)
BeginSearch(p) == Begin(p, "search", "none")
BeginRebuild(p) == Begin(p, "rebuild", "none")

FirstStep == [upload |-> "embed", remove |-> "unlist", search |-> "ensure",
              rebuild |-> "scan"]

Lock(p) ==
    /\ pc[p] = "lock" /\ mu = Free
    /\ mu' = p
    /\ Goto(p, FirstStep[req[p].op])
    /\ UNCHANGED <<rowVars, indexVars, gob, modelVars, req, todo, want, embedded, missed, faults, intact>>

(* Every return unlocks Store.mu; the request's view is gone.               *)
Answer(p) ==
    /\ mu' = Free
    /\ Goto(p, "idle")
    /\ req' = [req EXCEPT ![p] = NoRequest]
    /\ todo' = {} /\ want' = 0 /\ embedded' = FALSE /\ missed' = {}

Return(p) ==
    /\ pc[p] = "answer"
    /\ Answer(p)
    /\ SetPointers(heap, cache, [view EXCEPT ![p] = 0])
    /\ UNCHANGED <<rowVars, gob, modelVars, faults, intact>>

----------------------------------------------------------------------------
(* The embedding service.                                                   *)

(* The first answer settles the dimension, whatever was configured.         *)
Detect == detected' = TRUE /\ dim' = IF detected THEN dim ELSE served

(* A change of configuration makes a new embedder for another model.        *)
SwitchModel ==
    /\ switches < MaxSwitches /\ Busy = {}
    /\ served' \in Models \ {served}
    /\ dim' = Configured /\ detected' = FALSE
    /\ switches' = switches + 1
    /\ UNCHANGED <<rowVars, indexVars, gob, taskVars, faults, intact>>

SetRow(d, length) ==
    /\ rows' = rows \cup {d}
    /\ vectorOf' = [i \in Ids |-> IF i \in ChunksOf[d] THEN length ELSE vectorOf[i]]

(* writeChunksIndexFromMetaWithSections: the entries carry vectors when the *)
(* service answered; without it the index of the document has none and the  *)
(* vector index is left alone.                                              *)
Embed(p) ==
    /\ pc[p] = "embed"
    /\ Detect
    /\ SetRow(req[p].doc, served)
    /\ Goto(p, "ensure")
    /\ UNCHANGED <<indexVars, gob, served, switches, mu, req, todo, want, embedded, missed, faults, intact>>

EmbedFails(p) ==
    /\ pc[p] = "embed"
    /\ Fault("embed")
    /\ SetRow(req[p].doc, 0)
    /\ Goto(p, "answer")
    /\ UNCHANGED <<indexVars, gob, modelVars, mu, req, todo, want, embedded, missed, intact>>

----------------------------------------------------------------------------
(* ensureVectorIndexLocked and buildVectorIndexLocked.                      *)

(* Every index that adding the vectors of docs one after the other to the   *)
(* indexes of start can give.                                               *)
AddAll(start, ids, length) ==
    LET step[S \in SUBSET Ids] ==
            IF S = {} THEN start
            ELSE LET i == CHOOSE i \in S : TRUE
                 IN  UNION {Add(ix, i, length[i]) : ix \in step[S \ {i}]}
    IN  step[{i \in ids : length[i] > 0}]

WithVector(docs) == {i \in UNION {ChunksOf[d] : d \in docs} : vectorOf[i] = dim}
Built(docs) == AddAll({NewHNSWIndex(dim)}, WithVector(docs), vectorOf)

AfterEnsure(op) == IF op = "upload" THEN "update" ELSE "answer"

EnsureLoads(p) ==
    /\ pc[p] = "ensure"
    /\ view[p] = 0 /\ OnDisk
    /\ HasSlot
    /\ SetPointers([heap EXCEPT ![FreeSlot] = gob], cache, [view EXCEPT ![p] = FreeSlot])
    /\ Goto(p, AfterEnsure(req[p].op))
    /\ UNCHANGED <<rowVars, gob, modelVars, mu, req, todo, want, embedded, missed, faults, intact>>

EnsureFinds(p) ==
    /\ pc[p] = "ensure"
    /\ view[p] # 0
    /\ Goto(p, AfterEnsure(req[p].op))
    /\ UNCHANGED <<rowVars, indexVars, gob, modelVars, mu, req, todo, want, embedded, missed, faults, intact>>

EnsureBuilds(p) ==
    /\ pc[p] = "ensure"
    /\ view[p] = 0 /\ ~OnDisk
    /\ Goto(p, "build")
    /\ UNCHANGED <<rowVars, indexVars, gob, modelVars, mu, req, todo, want, embedded, missed, faults, intact>>

(* Without a dimension, or a list of the documents, nothing is built.       *)
BuildSkips(p) ==
    /\ pc[p] = "build"
    /\ \/ dim = 0 /\ UNCHANGED <<faults, intact>>
       \/ dim # 0 /\ Fault("read") /\ intact' = FALSE
    /\ Goto(p, AfterEnsure(req[p].op))
    /\ UNCHANGED <<rowVars, indexVars, gob, modelVars, mu, req, todo, want, embedded, missed>>

(* Documents whose chunks index cannot be read are left out, without a word.*)
(* The cache is told of the new index only if some view has filled it.      *)
CacheKept(i) == cache  \* mutant: the cache is not told of a rebuilt index
CacheAfterBuild(i) == IF cache # 0 THEN i ELSE 0

Build(p) ==
    /\ pc[p] = "build" /\ dim # 0
    /\ HasSlot
    /\ \E docs \in SUBSET rows :
          /\ IF docs = rows THEN UNCHANGED faults ELSE Fault("read")
          /\ \E ix \in Built(docs) :
                SetPointers([heap EXCEPT ![FreeSlot] = ix], CacheAfterBuild(FreeSlot),
                            [view EXCEPT ![p] = FreeSlot])
          /\ intact' = (docs = rows)
    /\ Goto(p, "createBuilt")
    /\ UNCHANGED <<rowVars, gob, modelVars, mu, req, todo, want, embedded, missed>>

(* updateVectorIndex: the document's old entries out, its vectors in.       *)
DropAll(start, ids) ==
    LET step[S \in SUBSET Ids] ==
            IF S = {} THEN start
            ELSE LET i == CHOOSE i \in S : TRUE
                 IN  UNION {Remove(ix, i) : ix \in step[S \ {i}]}
    IN  step[ids]

Update(p) ==
    /\ pc[p] = "update"
    /\ IF view[p] = 0
       THEN UNCHANGED indexVars /\ Goto(p, "answer")
       ELSE /\ \E ix \in AddAll(DropAll({Mine(p)}, ChunksOf[req[p].doc]),
                                ChunksOf[req[p].doc], vectorOf) :
                  heap' = [heap EXCEPT ![view[p]] = ix]
            /\ Goto(p, "create")
            /\ UNCHANGED <<cache, view>>
    /\ UNCHANGED <<rowVars, gob, modelVars, mu, req, todo, want, embedded, missed, faults, intact>>

----------------------------------------------------------------------------
(* RemoveDocument: the rows, then the view's index, then its file.          *)

Unlist(p) ==
    /\ pc[p] = "unlist"
    /\ rows' = rows \ {req[p].doc}
    /\ vectorOf' = [i \in Ids |-> IF i \in ChunksOf[req[p].doc] THEN 0 ELSE vectorOf[i]]
    /\ Goto(p, "unindex")
    /\ UNCHANGED <<indexVars, gob, modelVars, mu, req, todo, want, embedded, missed, faults, intact>>

Unindexed(p) == DropAll({Mine(p)}, ChunksOf[req[p].doc])

Unindex(p) ==
    /\ pc[p] = "unindex"
    /\ IF view[p] = 0
       THEN UNCHANGED heap /\ Goto(p, "answer")
       ELSE /\ \E ix \in Unindexed(p) : heap' = [heap EXCEPT ![view[p]] = ix]
            /\ Goto(p, "create")
    /\ UNCHANGED <<rowVars, cache, view, gob, modelVars, mu, req, todo, want, embedded, missed,
                   faults, intact>>

----------------------------------------------------------------------------
(* saveVectorIndex: the file is truncated, then written. An error is logged *)
(* and the request goes on.                                                 *)

Saving == {"createBuilt", "create"}
AfterSave(p) == IF pc[p] \in {"createBuilt", "writeBuilt"} THEN AfterEnsure(req[p].op)
                ELSE "answer"

Create(p) ==
    /\ pc[p] \in Saving
    /\ gob' = Torn
    /\ Goto(p, IF pc[p] = "create" THEN "write" ELSE "writeBuilt")
    /\ UNCHANGED <<rowVars, indexVars, modelVars, mu, req, todo, want, embedded, missed, faults, intact>>

CreateFails(p) ==
    /\ pc[p] \in Saving
    /\ Fault("save")
    /\ Goto(p, AfterSave(p))
    /\ intact' = FALSE
    /\ UNCHANGED <<rowVars, indexVars, gob, modelVars, mu, req, todo, want, embedded, missed>>

Write(p) ==
    /\ pc[p] \in {"writeBuilt", "write"}
    /\ gob' = Mine(p)
    /\ Goto(p, AfterSave(p))
    /\ UNCHANGED <<rowVars, indexVars, modelVars, mu, req, todo, want, embedded, missed, faults, intact>>

----------------------------------------------------------------------------
(* ReEmbedMissingVectors.                                                   *)

ScanFails(p) ==
    /\ pc[p] = "scan"
    /\ IF dim = 0 THEN UNCHANGED faults ELSE Fault("read")
    /\ Goto(p, "answer")
    /\ UNCHANGED <<rowVars, indexVars, gob, modelVars, mu, req, todo, want, embedded, missed,
                   intact>>

Scan(p) ==
    /\ pc[p] = "scan" /\ dim # 0
    /\ todo' = rows /\ want' = dim
    /\ Goto(p, "reembed")
    /\ UNCHANGED <<rowVars, indexVars, gob, modelVars, mu, req, embedded, missed, faults, intact>>

(* Chunks that lack a vector of the wanted length, readable or not.         *)
JobsWithout(d) == {i \in ChunksOf[d] : vectorOf[i] = 0}  \* mutant: old vectors are kept
Jobs(d) == {i \in ChunksOf[d] : vectorOf[i] # want}

(* A document is passed over when it lacks nothing, and also when its       *)
(* chunks index, or each chunk that lacks a vector, cannot be read.         *)
SkipDocument(p, d) ==
    /\ pc[p] = "reembed" /\ d \in todo
    /\ \/ Jobs(d) = {} /\ UNCHANGED <<faults, missed>>
       \/ Fault("read") /\ missed' = missed \cup Jobs(d)
    /\ todo' = todo \ {d}
    /\ UNCHANGED <<rowVars, indexVars, gob, modelVars, mu, pc, req, want, embedded, intact>>

(* Single chunks may be unreadable, and the service may leave single ones   *)
(* out of its answer: all others get their vectors.  Vectors of another     *)
(* length than the rebuild wants are dropped.                               *)
ReEmbed(p, d) ==
    /\ pc[p] = "reembed" /\ d \in todo
    /\ Jobs(d) # {}
    /\ Detect
    /\ todo' = todo \ {d}
    /\ \E got \in SUBSET Jobs(d) :
          /\ IF got = Jobs(d) THEN UNCHANGED faults
             ELSE Fault("embed") \/ (got # {} /\ Fault("read"))
          /\ missed' = missed \cup (Jobs(d) \ got)
          /\ IF served = want /\ got # {}
             THEN /\ vectorOf' = [i \in Ids |-> IF i \in got THEN want ELSE vectorOf[i]]
                  /\ embedded' = TRUE
             ELSE UNCHANGED <<vectorOf, embedded>>
    /\ UNCHANGED <<rows, indexVars, gob, served, switches, mu, pc, req, want, intact>>

(* An embedding error or the two-hour deadline ends the rebuild, which then *)
(* builds nothing.                                                          *)
RebuildStops(p) ==
    /\ pc[p] = "reembed" /\ todo # {}
    /\ Fault("embed")
    /\ Goto(p, "answer")
    /\ intact' = (intact /\ ~embedded)
    /\ UNCHANGED <<rowVars, indexVars, gob, modelVars, mu, req, todo, want, embedded, missed>>

NeedsBuild(p) == embedded \/ view[p] = 0

Scanned(p) ==
    /\ pc[p] = "reembed" /\ todo = {}
    /\ Goto(p, IF NeedsBuild(p) THEN "build" ELSE "answer")
    /\ missed' = {}
    /\ UNCHANGED <<rowVars, indexVars, gob, modelVars, mu, req, todo, want, embedded,
                   faults, intact>>

----------------------------------------------------------------------------
(* The process ends: what is not in the database or the file is lost.       *)
Restart ==
    /\ Fault("restart")
    /\ SetPointers([i \in 1..MaxIndexes |-> Gone], 0, [p \in Clients |-> 0])
    /\ mu' = Free /\ pc' = [p \in Clients |-> "idle"]
    /\ req' = [p \in Clients |-> NoRequest]
    /\ todo' = {} /\ want' = 0 /\ embedded' = FALSE /\ missed' = {}
    /\ dim' = Configured /\ detected' = FALSE
    /\ intact' = (intact /\ mu = Free)
    /\ UNCHANGED <<rowVars, gob, served, switches>>

(* cmd/cleanup-vector, run beside an idle server: entries of the file whose *)
(* chunk is gone are removed from it.                                       *)
CleanVectorIndex ==
    /\ Busy = {} /\ OnDisk
    /\ LET orphans == AllIDs(gob) \ UNION {ChunksOf[d] : d \in rows}
       IN  orphans # {} /\ gob' \in DropAll({gob}, orphans)
    /\ UNCHANGED <<rowVars, indexVars, modelVars, taskVars, faults, intact>>

Step(p) ==
    \/ Lock(p) \/ Return(p)
    \/ Embed(p) \/ EmbedFails(p)
    \/ EnsureLoads(p) \/ EnsureFinds(p) \/ EnsureBuilds(p)
    \/ BuildSkips(p) \/ Build(p) \/ Update(p)
    \/ Unlist(p) \/ Unindex(p)
    \/ Create(p) \/ CreateFails(p) \/ Write(p)
    \/ ScanFails(p) \/ Scan(p) \/ Scanned(p) \/ RebuildStops(p)
    \/ \E d \in Docs : SkipDocument(p, d) \/ ReEmbed(p, d)

Next ==
    \/ \E p \in Clients :
          \/ \E d \in Docs : BeginUpload(p, d) \/ BeginRemove(p, d)
          \/ BeginSearch(p) \/ BeginRebuild(p)
          \/ Step(p)
    \/ SwitchModel \/ Restart \/ CleanVectorIndex

Spec == Init /\ [][Next]_vars

----------------------------------------------------------------------------
Indexes == {heap[i] : i \in 1..MaxIndexes} \ {Gone}

(* Whatever is added, replaced and removed in whatever order, no index and  *)
(* no file has a link to a node that is gone, or an entry point that is, so *)
(* Search and Add never meet a nil node.                                    *)
GraphSound ==
    \A ix \in Indexes \cup (IF OnDisk THEN {gob} ELSE {}) : Sound(ix)

(* No index is broken, and in each the beam search with its two heaps       *)
(* returns the k best of the vectors it can reach (EfSearch and k at or     *)
(* above the number of vectors).                                            *)
SearchFindsBest ==
    GraphSound /\ \A ix \in Indexes : \A q \in Ids : \A k \in {1, Cardinality(Ids)} :
        FindsBest(ix, q, k) /\ DescendsToPeak(ix, q)

Current == IF cache # 0 THEN heap[cache] ELSE gob

(* While no step of a request has failed, the index the next view gets has  *)
(* exactly the vectors of the chunk indexes, those of its own dimension.    *)
MirrorsChunks ==
    mu = Free /\ intact /\ (cache # 0 \/ OnDisk) =>
        AllIDs(Current) =
            {i \in UNION {ChunksOf[d] : d \in rows} : vectorOf[i] = Current.dim}

(* A rebuild that ends without an error leaves no chunk without a vector of *)
(* the embedder's dimension but those it has passed over: of a chunks index *)
(* or a chunk that could not be read, or that the service left out of its   *)
(* answer.  Nobody is told of these (a finding); a later rebuild takes them *)
(* up again.                                                                *)
RebuildLeavesNoneMissing ==
    [][\A p \in Clients :
          Scanned(p) /\ want = served =>
              \A d \in rows : \A i \in ChunksOf[d] \ missed : vectorOf[i] = dim]_vars
=============================================================================
