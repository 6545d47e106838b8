------------------------------ MODULE Documents ------------------------------
(***************************************************************************)
(* Documents across knowledge bases: the uploads (upload.go,               *)
(* ingest/engine.go), removals (remove.go), replacements and tag updates   *)
(* (manage/handlers_enhanced.go) of one server, statement by statement on  *)
(* its MySQL backend (mysql_backend.go), and Store.WithKB (store.go),      *)
(* which points the three engines all requests share at a knowledge base.  *)
(*                                                                         *)
(* A request is at one of its steps (at); an error takes it to another, the *)
(* end of the process to none.                                             *)
(***************************************************************************)
EXTENDS Integers, Sequences, FiniteSets

CONSTANTS
    Docs,         \* slugs, each given to one uploaded file
    KBs, Base,    \* knowledge bases, and the flat one of the base Store
    Procs, Free,  \* goroutines serving requests; the owner of a free mutex
    Deployments,  \* what clients ask for, whether an embedder is there, what fails
    MaxFaults

Jobs == {"web", "engine", "remove", "replace", "tags"}
Columns == {"source", "raw"}  \* columns of a documents row
Tables == {"chunks", "sections", "documents", "chunks_index", "postings", "index"} \cup Columns

ASSUME NamesAssumption == Base \in KBs /\ Free \notin Procs /\ "none" \notin Docs \cup KBs
ASSUME DeploymentsAssumption ==
    Deployments \subseteq [asks : SUBSET (Jobs \X KBs), embeds : BOOLEAN,
                           faults : SUBSET {"write", "read", "crash"}]
ASSUME FaultsAssumption == MaxFaults \in Nat

VARIABLES
    rows,    \* of each table, the <<knowledge base, document>> it holds
    gob,     \* the knowledge bases with a VECTOR.gob
    cached,  \* those in VecState's cache
    ingestKB, searchKB, chunkKB,  \* the kbName of the shared engines
    mu,      \* who holds Store.mu
    at, req, seen,  \* each request's next step, what it is about, what it has read
    again,   \* requests that will scope the Store once more
    found,   \* removals that have found the metadata
    deployment, faults,
    \* History.
    home,     \* the knowledge base a document was uploaded for
    whole,    \* uploads none of whose statements has failed, and removals of
              \* a document that had its metadata
    uploaded, \* documents whose upload was answered and whole, and whose
              \* entries no failed read has hidden from another upload since
    removing, removed  \* documents somebody began to remove; whole removals answered

database == <<rows, gob>>
engines == <<cached, ingestKB, searchKB, chunkKB>>
locals == <<req, seen, again, found>>
history == <<home, whole, uploaded, removing, removed>>
vars == <<database, engines, mu, at, locals, deployment, faults, history>>

NoRequest == [job |-> "none", kb |-> Base, doc |-> "none", old |-> "none"]

Init ==
    /\ rows = [t \in Tables |-> {}]
    /\ gob = {} /\ cached = {}
    /\ ingestKB = Base /\ searchKB = Base /\ chunkKB = Base
    /\ mu = Free
    /\ at = [p \in Procs |-> "idle"]
    /\ req = [p \in Procs |-> NoRequest]
    /\ seen = [p \in Procs |-> {}]
    /\ again = {} /\ found = {}
    /\ deployment \in Deployments /\ faults = 0
    /\ home = [d \in Docs |-> "none"]
    /\ whole = [p \in Procs |-> TRUE]
    /\ uploaded = {} /\ removing = {} /\ removed = {}

-----------------------------------------------------------------------------
(* The steps of each request, and which one follows.  A write is named for  *)
(* its table.                                                               *)

Scoping == [scope |-> "ingest", ingest |-> "search", search |-> "chunk"]

Upload ==
    [lock |-> "chunks", chunks |-> "sections", sections |-> "documents", documents |-> "chunks_index",
     chunks_index |-> "readPostings", readPostings |-> "postings", postings |-> "vectors",
     vectors |-> "source", source |-> "raw", raw |-> "readIndex", readIndex |-> "index",
     index |-> "uploaded"]

RemovalWithoutPostings ==  \* mutant: the inverted index is forgotten
    [lockRemoval |-> "find", find |-> "dropChunksIndex", dropPostings |-> "dropChunksIndex",
     dropChunksIndex |-> "dropSections", dropSections |-> "dropChunks", dropChunks |-> "dropDocuments",
     dropDocuments |-> "findIndex", findIndex |-> "dropIndex", dropIndex |-> "removed"]

Removal ==
    [lockRemoval |-> "find", find |-> "dropPostings", dropPostings |-> "dropChunksIndex",
     dropChunksIndex |-> "dropSections", dropSections |-> "dropChunks", dropChunks |-> "dropDocuments",
     dropDocuments |-> "findIndex", findIndex |-> "dropIndex", dropIndex |-> "removed"]

Following ==
    [s \in DOMAIN Scoping \cup DOMAIN Upload \cup DOMAIN Removal |->
        IF s \in DOMAIN Scoping THEN Scoping[s] ELSE IF s \in DOMAIN Upload THEN Upload[s] ELSE Removal[s]]

Deleting ==
    [postings |-> "dropPostings", chunks_index |-> "dropChunksIndex", sections |-> "dropSections",
     chunks |-> "dropChunks", documents |-> "dropDocuments"]

Reading == [postings |-> {"readPostings"}, index |-> {"readIndex", "findIndex"}]

(* A replacement and a tag update look for the metadata first.              *)
FirstStep(job) ==
    CASE job \in {"web", "engine"} -> "lock"
      [] job = "remove" -> "lockRemoval"
      [] job \in {"replace", "tags"} -> "check"

Goto(p, step) == at' = [at EXCEPT ![p] = step]
Continue(p) == Goto(p, Following[at[p]])

Fault(kind) == kind \in deployment.faults /\ faults < MaxFaults /\ faults' = faults + 1

(* The knowledge base a statement on table t names: metadata and INDEX.md   *)
(* go through the chunk store, postings through the search engine, and the  *)
(* ingest engine's index callback is bound to the base Store.               *)
KBFor(p, t) ==
    CASE t \in {"documents", "index"} -> chunkKB
      [] t = "postings" -> searchKB
      [] t = "chunks_index" -> IF req[p].job = "web" THEN req[p].kb ELSE Base
      [] OTHER -> IF req[p].job = "web" THEN req[p].kb ELSE ingestKB

-----------------------------------------------------------------------------
(* A request arrives, and scopes the Store.  Clients know the slugs of the  *)
(* documents they have seen listed.                                         *)

Fresh(d) == home[d] = "none"
Listed(k, d) == <<k, d>> \in rows["documents"]
Begins(p, r) ==
    /\ at[p] = "idle"
    /\ <<r.job, r.kb>> \in deployment.asks
    /\ Goto(p, IF r.kb = Base THEN FirstStep(r.job) ELSE "scope")
    /\ again' = IF r.kb # Base /\ r.job = "web" THEN again \cup {p} ELSE again
    /\ req' = [req EXCEPT ![p] = r]
    /\ seen' = [seen EXCEPT ![p] = {}]
    /\ whole' = [whole EXCEPT ![p] = TRUE]
    /\ home' = [d \in Docs |-> IF d = r.doc THEN r.kb ELSE home[d]]
    /\ UNCHANGED <<database, engines, mu, found, deployment, faults, uploaded, removing, removed>>

BeginUpload(p, job, k, d) ==
    /\ job \in {"web", "engine"} /\ Fresh(d)
    /\ Begins(p, [job |-> job, kb |-> k, doc |-> d, old |-> "none"])

BeginRemove(p, k, old) ==
    Listed(k, old) /\ Begins(p, [job |-> "remove", kb |-> k, doc |-> "none", old |-> old])

BeginReplace(p, k, old, d) ==
    /\ Listed(k, old) /\ Fresh(d)
    /\ Begins(p, [job |-> "replace", kb |-> k, doc |-> d, old |-> old])

BeginTags(p, k, old) ==
    Listed(k, old) /\ Begins(p, [job |-> "tags", kb |-> k, doc |-> "none", old |-> old])

(* The management page's upload scopes the Store for the request, and again *)
(* for the task.                                                            *)
EndScoping(p) ==
    /\ Goto(p, IF p \in again THEN "scope" ELSE FirstStep(req[p].job))
    /\ again' = again \ {p}

(* WithKB: a knowledge base whose vector index is cached is answered before *)
(* the engines are pointed at it; one with a VECTOR.gob is cached.          *)
Scope(p) ==
    /\ at[p] = "scope"
    /\ IF req[p].kb \in cached
       THEN EndScoping(p) /\ UNCHANGED cached
       ELSE Continue(p) /\ cached' = cached \cup ({req[p].kb} \cap gob) /\ UNCHANGED again
    /\ UNCHANGED <<database, ingestKB, searchKB, chunkKB, mu, req, seen, found, deployment, faults, history>>

SetIngestKB(p) ==
    /\ at[p] = "ingest" /\ Continue(p)
    /\ ingestKB' = req[p].kb
    /\ UNCHANGED <<database, cached, searchKB, chunkKB, mu, locals, deployment, faults, history>>

SetSearchKB(p) ==
    /\ at[p] = "search" /\ Continue(p)
    /\ searchKB' = req[p].kb
    /\ UNCHANGED <<database, cached, ingestKB, chunkKB, mu, locals, deployment, faults, history>>

SetChunkKBForgotten(p) ==  \* mutant: the chunk store is not told
    /\ at[p] = "chunk" /\ EndScoping(p)
    /\ UNCHANGED <<database, engines, mu, req, seen, found, deployment, faults, history>>

SetChunkKB(p) ==
    /\ at[p] = "chunk" /\ EndScoping(p)
    /\ chunkKB' = req[p].kb
    /\ UNCHANGED <<database, cached, ingestKB, searchKB, mu, req, seen, found, deployment, faults, history>>

-----------------------------------------------------------------------------
(* Store.mu.                                                                *)

LockWhileHeld(p) ==  \* mutant: no mutual exclusion
    /\ at[p] \in {"lock", "lockRemoval"}
    /\ mu' = p
    /\ Continue(p)
    /\ UNCHANGED <<database, engines, locals, deployment, faults, history>>

Lock(p) ==
    /\ at[p] \in {"lock", "lockRemoval"} /\ mu = Free
    /\ mu' = p
    /\ Continue(p)
    /\ UNCHANGED <<database, engines, locals, deployment, faults, history>>

Unlock(p, step) ==
    /\ mu' = Free
    /\ Goto(p, step)
    /\ UNCHANGED <<database, engines, locals, deployment, faults, home, removing>>

AnswerUploaded(p) ==
    /\ at[p] = "uploaded" /\ Unlock(p, "idle")
    /\ uploaded' = IF whole[p] THEN uploaded \cup {req[p].doc} ELSE uploaded
    /\ UNCHANGED <<whole, removed>>

AnswerRemoved(p) ==
    /\ at[p] = "removed" /\ Unlock(p, IF req[p].job = "replace" THEN "lock" ELSE "idle")
    /\ removed' = IF whole[p] THEN removed \cup {req[p].old} ELSE removed
    /\ whole' = [whole EXCEPT ![p] = TRUE]
    /\ UNCHANGED uploaded

AnswerFailed(p) == at[p] = "abort" /\ Unlock(p, "idle") /\ UNCHANGED <<whole, uploaded, removed>>

(* Parsing fails or produces nothing.                                       *)
ParseFails(p) ==
    /\ at[p] = "chunks"
    /\ Goto(p, "abort")
    /\ UNCHANGED <<database, engines, mu, locals, deployment, faults, history>>

-----------------------------------------------------------------------------
(* Statements.                                                              *)

Insert(t, k, d) == rows' = [rows EXCEPT ![t] = @ \cup {<<k, d>>}]
Overwrite(t, k, S) == rows' = [rows EXCEPT ![t] = {r \in @ : r[1] # k} \cup ({k} \X S)]

(* UPDATE of a column does nothing where the row is missing.                *)
WriteRow(p, t) ==
    /\ at[p] = t /\ t \notin {"postings", "index"}
    /\ IF t \in Columns /\ <<KBFor(p, t), req[p].doc>> \notin rows["documents"]
       THEN UNCHANGED rows
       ELSE Insert(t, KBFor(p, t), req[p].doc)
    /\ Continue(p)
    /\ UNCHANGED <<gob, engines, mu, locals, deployment, faults, history>>

WriteFailsLogged(p, t) ==  \* mutant: every failed write is only logged
    /\ at[p] = t /\ Fault("write")
    /\ Continue(p)
    /\ whole' = [whole EXCEPT ![p] = FALSE]
    /\ UNCHANGED <<database, engines, mu, locals, deployment, home, uploaded, removing, removed>>

(* Chunks and metadata end the upload with an error; without a chunks index *)
(* there are no postings and vectors either; the rest is logged.            *)
WriteFails(p, t) ==
    /\ at[p] = t /\ Fault("write")
    /\ CASE t \in {"chunks", "documents"} -> Goto(p, "abort")
         [] t = "chunks_index" -> Goto(p, "source")
         [] OTHER -> Continue(p)
    /\ whole' = [whole EXCEPT ![p] = FALSE]
    /\ UNCHANGED <<database, engines, mu, locals, deployment, home, uploaded, removing, removed>>

Entries(t, k) == {r[2] : r \in {x \in rows[t] : x[1] = k}}

(* The inverted index and INDEX.md are read and rewritten as a whole.       *)
ReadEntries(p, t) ==
    /\ t \in DOMAIN Reading /\ at[p] \in Reading[t]
    /\ seen' = [seen EXCEPT ![p] = Entries(t, KBFor(p, t))]
    /\ Continue(p)
    /\ UNCHANGED <<database, engines, mu, req, again, found, deployment, faults, history>>

(* An upload goes on from nothing when it cannot read them, and so drops    *)
(* the entries of all others; a removal leaves INDEX.md alone.              *)
ReadFails(p, t) ==
    /\ t \in DOMAIN Reading /\ at[p] \in Reading[t] /\ Fault("read")
    /\ seen' = [seen EXCEPT ![p] = {}]
    /\ IF at[p] = "findIndex"
       THEN Goto(p, "removed") /\ UNCHANGED uploaded
       ELSE Continue(p) /\ uploaded' = uploaded \ Entries(t, KBFor(p, t))
    /\ whole' = [whole EXCEPT ![p] = FALSE]
    /\ UNCHANGED <<database, engines, mu, req, again, found, deployment, home, removing, removed>>

(* UpdateInvertedIndex takes the new postings from the chunk store's index. *)
UpdateInvertedIndex(p) ==
    /\ at[p] = "postings"
    /\ LET d == req[p].doc
           new == {d} \cap Entries("chunks_index", chunkKB)
       IN  Overwrite("postings", searchKB, (seen[p] \ {d}) \cup new)
    /\ Continue(p)
    /\ UNCHANGED <<gob, engines, mu, locals, deployment, faults, history>>

UpdateIndex(p) ==
    /\ at[p] = "index"
    /\ Overwrite("index", chunkKB, seen[p] \cup {req[p].doc})
    /\ Continue(p)
    /\ UNCHANGED <<gob, engines, mu, locals, deployment, faults, history>>

RemoveFromIndex(p) ==
    /\ at[p] = "dropIndex"
    /\ Overwrite("index", chunkKB, seen[p] \ {req[p].old})
    /\ Continue(p)
    /\ UNCHANGED <<gob, engines, mu, locals, deployment, faults, history>>

(* The first vectors of a knowledge base create its VECTOR.gob, if it has a *)
(* directory; building the index anew also caches it, once there is a       *)
(* cache.  The flat one has no file, and the embedding may fail.            *)
SaveVectors(p) ==
    /\ at[p] = "vectors"
    /\ LET k == IF req[p].job = "web" THEN req[p].kb ELSE Base
       IN  \E new \in SUBSET (IF deployment.embeds THEN {k} \ {Base} ELSE {}) :
             /\ \E saved \in SUBSET new : gob' = gob \cup saved
             /\ cached' = IF cached = {} THEN {} ELSE cached \cup (new \ gob)
    /\ Continue(p)
    /\ UNCHANGED <<rows, ingestKB, searchKB, chunkKB, mu, locals, deployment, faults, history>>

(* RemoveDocument reads the metadata for INDEX.md, then deletes the rows.   *)
FindForRemoval(p) ==
    /\ at[p] = "find" /\ Continue(p)
    /\ found' = IF Listed(chunkKB, req[p].old) THEN found \cup {p} ELSE found
    /\ removing' = removing \cup {req[p].old}
    /\ whole' = [whole EXCEPT ![p] = @ /\ Listed(chunkKB, req[p].old)]
    /\ UNCHANGED <<database, engines, mu, req, seen, again, deployment, faults, home, uploaded, removed>>

(* Without the metadata INDEX.md keeps its line.                            *)
FindFails(p) ==
    /\ at[p] = "find" /\ Fault("read") /\ Continue(p)
    /\ removing' = removing \cup {req[p].old}
    /\ whole' = [whole EXCEPT ![p] = FALSE]
    /\ UNCHANGED <<database, engines, mu, locals, deployment, home, uploaded, removed>>

AfterDeletion(p, t) ==
    /\ Goto(p, IF t = "documents" /\ p \notin found THEN "removed" ELSE Following[at[p]])
    /\ found' = IF t = "documents" THEN found \ {p} ELSE found

DeleteRows(p, t) ==
    /\ t \in DOMAIN Deleting /\ at[p] = Deleting[t]
    /\ rows' = [x \in Tables |->
                   IF x = t \/ (t = "documents" /\ x \in Columns)
                   THEN rows[x] \ {<<req[p].kb, req[p].old>>} ELSE rows[x]]
    /\ AfterDeletion(p, t)
    /\ UNCHANGED <<gob, engines, mu, req, seen, again, deployment, faults, history>>

(* Only the last statement's error counts.                                  *)
DeleteFails(p, t) ==
    /\ t \in DOMAIN Deleting /\ at[p] = Deleting[t] /\ Fault("write")
    /\ IF t = "documents" THEN Goto(p, "abort") /\ found' = found \ {p} ELSE AfterDeletion(p, t)
    /\ whole' = [whole EXCEPT ![p] = FALSE]
    /\ UNCHANGED <<database, engines, mu, req, seen, again, deployment, home, uploaded, removing, removed>>

IndexKept(p) ==
    /\ at[p] = "dropIndex" /\ Fault("write") /\ Continue(p)
    /\ whole' = [whole EXCEPT ![p] = FALSE]
    /\ UNCHANGED <<database, engines, mu, locals, deployment, home, uploaded, removing, removed>>

(* handleDocReplace, handleDocTagsUpdate: 404 without metadata.             *)
CheckListed(p) ==
    /\ at[p] = "check"
    /\ Goto(p, IF ~Listed(chunkKB, req[p].old) THEN "idle"
               ELSE IF req[p].job = "replace" THEN "lockRemoval" ELSE "retag")
    /\ UNCHANGED <<database, engines, mu, locals, deployment, faults, history>>

(* WriteMeta inserts the row that is not there (any more).                  *)
Retag(p) ==
    /\ at[p] = "retag" /\ Goto(p, "idle")
    /\ Insert("documents", chunkKB, req[p].old)
    /\ UNCHANGED <<gob, engines, mu, locals, deployment, faults, history>>

Restart ==
    /\ Fault("crash")
    /\ at' = [p \in Procs |-> "idle"] /\ again' = {} /\ found' = {}
    /\ mu' = Free
    /\ cached' = {} /\ ingestKB' = Base /\ searchKB' = Base /\ chunkKB' = Base
    /\ UNCHANGED <<database, req, seen, deployment, history>>

-----------------------------------------------------------------------------
Step(p) ==
    \/ Scope(p) \/ SetIngestKB(p) \/ SetSearchKB(p) \/ SetChunkKB(p)
    \/ Lock(p) \/ AnswerUploaded(p) \/ AnswerRemoved(p) \/ AnswerFailed(p) \/ ParseFails(p)
    \/ \E t \in Tables :
         \/ WriteRow(p, t) \/ WriteFails(p, t) \/ ReadEntries(p, t) \/ ReadFails(p, t)
         \/ DeleteRows(p, t) \/ DeleteFails(p, t)
    \/ UpdateInvertedIndex(p) \/ SaveVectors(p) \/ UpdateIndex(p)
    \/ FindForRemoval(p) \/ FindFails(p) \/ RemoveFromIndex(p) \/ IndexKept(p)
    \/ CheckListed(p) \/ Retag(p)

Begin(p) ==
    \E k \in KBs, d \in Docs :
        \/ \E job \in {"web", "engine"} : BeginUpload(p, job, k, d)
        \/ BeginRemove(p, k, d)
        \/ \E new \in Docs : BeginReplace(p, k, d, new)
        \/ BeginTags(p, k, d)

Next == Restart \/ \E p \in Procs : Begin(p) \/ Step(p)

Spec == Init /\ [][Next]_vars

-----------------------------------------------------------------------------

(* What is stored of a document is stored in the knowledge base it was      *)
(* uploaded for ("reads/writes from a KB-scoped subdirectory", WithKB).     *)
ScopedWrites == \A t \in Tables : \A r \in rows[t] : home[r[2]] = r[1]

(* A document that is listed can be read: its metadata is written after its *)
(* chunks, so neither a failure nor a crash of the upload leaves one        *)
(* without; only a removal may.                                             *)
ListedIsReadable ==
    \A r \in rows["documents"] : r[2] \notin removing => r \in rows["chunks"]

(* An upload that was answered without a logged failure stays in the chunks *)
(* index, the inverted index and INDEX.md until its removal: no upload or   *)
(* removal of another document rewrites the last two without it.            *)
FoundWhenUploaded ==
    \A d \in uploaded \ removing :
        \A t \in {"documents", "chunks_index", "postings", "index"} : <<home[d], d>> \in rows[t]

(* After a removal that was answered without a failed statement nothing of  *)
(* the document is left, and no other request brings any of it back; but a  *)
(* tag update beside it that read the metadata before writes that row       *)
(* again, and no more (handlers_enhanced.go:302, a finding).                *)
Rewritten(t, k) == t = "documents" /\ <<"tags", k>> \in deployment.asks
RemovedIsGone ==
    \A d \in removed : \A t \in Tables : <<home[d], d>> \in rows[t] => Rewritten(t, home[d])

=============================================================================
