-------------------------- MODULE DocumentsSafety --------------------------
(***************************************************************************)
(* Theorems about Documents, and about Archive, which adds exports,        *)
(* imports and deletions, for any number of documents, requests and        *)
(* faults.                                                                 *)
(*                                                                         *)
(* Those about Documents hold of a server whose clients ask for one        *)
(* knowledge base: the flat one, or a named one by the requests that scope *)
(* the Store (the engine's uploads and replacements do not scope their     *)
(* chunks index), without a restart where it has vectors.  With two, or    *)
(* after a restart that finds a VECTOR.gob, requests meet engines that     *)
(* point elsewhere.                                                        *)
(***************************************************************************)
EXTENDS Archive, TLAPS

Alone(x, k) ==
    /\ \A ask \in x.asks : ask[2] = k
    /\ k # Base => /\ \A ask \in x.asks : ask[1] \in {"web", "remove", "tags"}
                   /\ "crash" \notin x.faults \/ ~x.embeds
OneKB == \A x \in Deployments : \E k \in KBs : Alone(x, k)

(* Somebody may change tags beside the removals.                            *)
TagsAsked(x, k) == <<"tags", k>> \in x.asks

-----------------------------------------------------------------------------
(* The invariant.                                                           *)

Scopes == {"scope", "ingest", "search", "chunk"}
UploadSteps ==
    {"chunks", "sections", "documents", "chunks_index", "readPostings", "postings", "vectors",
     "source", "raw", "readIndex", "index", "uploaded"}
RemovalSteps ==
    {"find", "dropPostings", "dropChunksIndex", "dropSections", "dropChunks", "dropDocuments",
     "findIndex", "dropIndex", "removed"}
Locked == UploadSteps \cup RemovalSteps \cup {"abort"}
Steps == {"idle", "check", "retag", "lock", "lockRemoval"} \cup Scopes \cup Locked

(* The steps of a request before it lists a new document.                   *)
Unlisted == Scopes \cup RemovalSteps \cup {"check", "lock", "lockRemoval", "chunks", "sections", "documents"}

Uploaders == {"web", "engine", "replace"}
Removers == {"remove", "replace"}
Finders == Removers \cup {"tags"}
Active(p) == at[p] # "idle"
Uploads(p) == at[p] \notin {"idle", "abort"} /\ req[p].job \in Uploaders
Finds(p) == Active(p) /\ req[p].job \in Finders

Types(k) ==
    /\ rows \in [Tables -> SUBSET ({k} \X Docs)]
    /\ gob \subseteq {k} \ {Base} /\ cached \subseteq {k} \ {Base}
    /\ {ingestKB, searchKB, chunkKB} \subseteq {Base, k}
    /\ mu \in Procs \cup {Free}
    /\ at \in [Procs -> Steps]
    /\ req \in [Procs -> [job : Jobs \cup {"none"}, kb : {Base, k}, doc : Docs \cup {"none"}, old : Docs \cup {"none"}]]
    /\ seen \in [Procs -> SUBSET Docs] /\ again \subseteq Procs /\ found \subseteq Procs
    /\ deployment \in Deployments /\ Alone(deployment, k) /\ faults \in Nat
    /\ home \in [Docs -> {"none", k}] /\ whole \in [Procs -> BOOLEAN]
    /\ uploaded \subseteq Docs /\ removing \subseteq Docs /\ removed \subseteq removing

(* What a request is about fits the step it is at.                          *)
RequestInv(k) ==
    \A p \in Procs : Active(p) =>
        /\ req[p].kb = k /\ <<req[p].job, k>> \in deployment.asks
        /\ req[p].job \in Uploaders => req[p].doc \in Docs
        /\ req[p].job \in Finders => req[p].old \in Docs
        /\ at[p] \in Scopes => k # Base
        /\ at[p] \in UploadSteps \cup {"lock"} => req[p].job \in Uploaders
        /\ at[p] \in RemovalSteps \cup {"lockRemoval"} => req[p].job \in Removers
        /\ at[p] = "check" => req[p].job \in {"replace", "tags"}
        /\ at[p] = "retag" => req[p].job = "tags"
        /\ at[p] \in RemovalSteps \ {"find"} => req[p].old \in removing

(* Whoever is past WithKB finds the engines at the knowledge base, and so   *)
(* does a request that WithKB answers from the cache.                       *)
Pointed(k) == searchKB = k /\ chunkKB = k
EnginesInv(k) ==
    /\ gob \cup cached # {} => Pointed(k)
    /\ ~deployment.embeds => gob = {}
    /\ \A p \in Procs : /\ at[p] = "chunk" => searchKB = k
                        /\ Active(p) /\ at[p] \notin Scopes => Pointed(k)

LockInv == \A p \in Procs : at[p] \in Locked <=> mu = p

(* Everything the program knows of was uploaded for the knowledge base.     *)
HomeInv(k) ==
    /\ \A t \in Tables : \A r \in rows[t] : home[r[2]] = k
    /\ \A d \in uploaded \cup removing : home[d] = k
    /\ \A p \in Procs : \A d \in seen[p] : home[d] = k
    /\ \A p \in Procs : Active(p) /\ req[p].job \in Uploaders => home[req[p].doc] = k
    /\ \A p \in Procs : Finds(p) => home[req[p].old] = k

(* A new document is one upload's own, and until it is listed nobody else   *)
(* knows of it.                                                             *)
OwnInv(k) ==
    \A p \in Procs : Uploads(p) =>
        /\ req[p].doc \notin uploaded \cup removing
        /\ \A q \in Procs \ {p} : Uploads(q) => req[q].doc # req[p].doc
        /\ at[p] \in Unlisted => /\ <<k, req[p].doc>> \notin rows["documents"]
                                 /\ \A q \in Procs : Finds(q) => req[q].old # req[p].doc

ReadableInv(k) ==
    /\ \A d \in Docs \ removing : <<k, d>> \in rows["documents"] => <<k, d>> \in rows["chunks"]
    /\ \A p \in Procs :
          /\ at[p] \in {"sections", "documents"} => <<k, req[p].doc>> \in rows["chunks"]
          /\ Finds(p) /\ req[p].old \notin removing => <<k, req[p].old>> \in rows["chunks"]

(* What a rewrite of the inverted index or INDEX.md goes by: nothing that   *)
(* was uploaded is missing, nothing that was removed is in it.              *)
SeenInv ==
    \A p \in Procs : at[p] \in {"postings", "index", "dropIndex"} =>
        /\ uploaded \ removing \subseteq seen[p]
        /\ seen[p] \cap removed = {}

(* What an upload that has not failed has written, by its step.             *)
Indexed == {"vectors", "source", "raw", "readIndex", "index", "uploaded"}
Findable == {"readPostings", "postings"} \cup Indexed
ListedSteps == {"chunks_index"} \cup Findable
UploadedInv(k) ==
    /\ \A d \in uploaded \ removing :
          /\ <<k, d>> \in rows["documents"] /\ <<k, d>> \in rows["chunks_index"]
          /\ <<k, d>> \in rows["postings"] /\ <<k, d>> \in rows["index"]
    /\ \A p \in Procs : whole[p] =>
          /\ at[p] \in ListedSteps => <<k, req[p].doc>> \in rows["documents"]
          /\ at[p] \in Findable => <<k, req[p].doc>> \in rows["chunks_index"]
          /\ at[p] \in Indexed => <<k, req[p].doc>> \in rows["postings"]
          /\ at[p] = "uploaded" => <<k, req[p].doc>> \in rows["index"]

(* What a removal that has not failed has deleted, by its step; somebody    *)
(* asked for it.                                                            *)
AfterDocuments == {"findIndex", "dropIndex", "removed"}
AfterChunks == {"dropDocuments"} \cup AfterDocuments
AfterSections == {"dropChunks"} \cup AfterChunks
AfterChunksIndex == {"dropSections"} \cup AfterSections
AfterPostings == {"dropChunksIndex"} \cup AfterChunksIndex
RemovedInv(k) ==
    /\ \A t \in Tables : \A d \in removed : <<k, d>> \in rows[t] => t = "documents" /\ TagsAsked(deployment, k)
    /\ \A p \in Procs : whole[p] =>
          /\ at[p] \in {"dropPostings"} \cup (AfterPostings \ AfterDocuments) => p \in found
          /\ at[p] \in AfterPostings => <<k, req[p].old>> \notin rows["postings"]
          /\ at[p] \in AfterChunksIndex => <<k, req[p].old>> \notin rows["chunks_index"]
          /\ at[p] \in AfterSections => <<k, req[p].old>> \notin rows["sections"]
          /\ at[p] \in AfterChunks => <<k, req[p].old>> \notin rows["chunks"]
          /\ at[p] \in AfterDocuments => /\ <<k, req[p].old>> \in rows["documents"] => TagsAsked(deployment, k)
                                         /\ <<k, req[p].old>> \notin rows["source"]
                                         /\ <<k, req[p].old>> \notin rows["raw"]
          /\ at[p] = "removed" => <<k, req[p].old>> \notin rows["index"]

DocumentsInv(k) ==
    /\ Types(k) /\ RequestInv(k) /\ EnginesInv(k) /\ LockInv /\ HomeInv(k) /\ OwnInv(k)
    /\ ReadableInv(k) /\ SeenInv /\ UploadedInv(k) /\ RemovedInv(k)

-----------------------------------------------------------------------------
(* The steps and the helpers of Documents.                                  *)

USE DEF Scopes, UploadSteps, RemovalSteps, Locked, Steps, Unlisted, Uploaders, Removers, Finders

LEMMA FollowingIs ==
    /\ Following["scope"] = "ingest" /\ Following["ingest"] = "search" /\ Following["search"] = "chunk"
    /\ Following["lock"] = "chunks" /\ Following["chunks"] = "sections" /\ Following["sections"] = "documents"
    /\ Following["documents"] = "chunks_index" /\ Following["chunks_index"] = "readPostings"
    /\ Following["readPostings"] = "postings" /\ Following["postings"] = "vectors"
    /\ Following["vectors"] = "source" /\ Following["source"] = "raw" /\ Following["raw"] = "readIndex"
    /\ Following["readIndex"] = "index" /\ Following["index"] = "uploaded"
    /\ Following["lockRemoval"] = "find" /\ Following["find"] = "dropPostings"
    /\ Following["dropPostings"] = "dropChunksIndex" /\ Following["dropChunksIndex"] = "dropSections"
    /\ Following["dropSections"] = "dropChunks" /\ Following["dropChunks"] = "dropDocuments"
    /\ Following["dropDocuments"] = "findIndex" /\ Following["findIndex"] = "dropIndex"
    /\ Following["dropIndex"] = "removed"
  BY DEF Following, Scoping, Upload, Removal

(* A request is for the one knowledge base, and the Store is scoped for the *)
(* kinds of request that do it themselves.                                  *)
LEMMA RequestIs ==
    ASSUME NEW k \in KBs, Types(k), RequestInv(k), NEW p \in Procs, Active(p)
    PROVE  /\ req[p].kb = k /\ req[p].job \in Jobs /\ <<req[p].job, k>> \in deployment.asks
           /\ k # Base => req[p].job \in {"web", "remove", "tags"}
<1>1. req[p].kb = k /\ <<req[p].job, k>> \in deployment.asks
  BY DEF RequestInv
<1>2. req[p].job \in Jobs
  BY <1>1, DeploymentsAssumption DEF Types
<1>3. \A ask \in deployment.asks : k # Base => ask[1] \in {"web", "remove", "tags"}
  BY DEF Types, Alone
<1>4. QED
  BY <1>1, <1>2, <1>3

(* Every statement names the one knowledge base.                            *)
LEMMA KBForIs ==
    ASSUME NEW k \in KBs, Types(k), RequestInv(k), EnginesInv(k), NEW p \in Procs, Active(p), at[p] \notin Scopes,
           NEW t \in Tables, t \in {"documents", "postings", "index"} \/ at[p] \in UploadSteps
    PROVE  KBFor(p, t) = k
<1>1. searchKB = k /\ chunkKB = k
  BY DEF EnginesInv, Pointed
<1>2. CASE t \in {"documents", "postings", "index"}
  BY <1>1, <1>2 DEF KBFor
<1>3. CASE t \notin {"documents", "postings", "index"}
  <2>1. req[p].job \in Uploaders /\ req[p].kb = k /\ (k # Base => req[p].job = "web")
    <3>1. req[p].job \in Uploaders
      BY <1>3 DEF RequestInv
    <3>2. req[p].kb = k /\ (k # Base => req[p].job \in {"web", "remove", "tags"})
      BY RequestIs
    <3>3. QED
      BY <3>1, <3>2
  <2>2. ingestKB \in {Base, k}
    BY DEF Types
  <2>3. QED
    BY <1>3, <2>1, <2>2 DEF KBFor
<1>4. QED
  BY <1>2, <1>3

(* With one knowledge base a table holds documents, and rewriting its       *)
(* entries replaces them all.                                               *)
LEMMA EntriesAre ==
    ASSUME NEW k \in KBs, Types(k), NEW t \in Tables
    PROVE  Entries(t, k) = {d \in Docs : <<k, d>> \in rows[t]}
<1>1. rows[t] \in SUBSET ({k} \X Docs)
  BY DEF Types
<1>2. QED
  BY <1>1 DEF Entries

LEMMA OverwriteIs ==
    ASSUME NEW k \in KBs, Types(k), NEW t \in Tables, NEW S \in SUBSET Docs, Overwrite(t, k, S)
    PROVE  /\ rows' \in [Tables -> SUBSET ({k} \X Docs)]
           /\ \A x \in Tables \ {t} : rows'[x] = rows[x]
           /\ \A d \in Docs : <<k, d>> \in rows'[t] <=> d \in S
<1>1. rows \in [Tables -> SUBSET ({k} \X Docs)]
  BY DEF Types
<1>2. {r \in rows[t] : r[1] # k} = {}
  BY <1>1
<1>3. rows' = [rows EXCEPT ![t] = {k} \X S]
  BY <1>1, <1>2 DEF Overwrite
<1>4. QED
  BY <1>1, <1>3

LEMMA InsertIs ==
    ASSUME NEW k \in KBs, Types(k), NEW t \in Tables, NEW d \in Docs, Insert(t, k, d)
    PROVE  /\ rows' \in [Tables -> SUBSET ({k} \X Docs)]
           /\ \A x \in Tables \ {t} : rows'[x] = rows[x]
           /\ rows'[t] = rows[t] \cup {<<k, d>>}
<1>1. rows \in [Tables -> SUBSET ({k} \X Docs)]
  BY DEF Types
<1>2. QED
  BY <1>1 DEF Insert

-----------------------------------------------------------------------------
(* The initial states.                                                      *)

LEMMA InitDocuments == ASSUME OneKB, Init PROVE \E k \in KBs : DocumentsInv(k)
<1>1. PICK k \in KBs : Alone(deployment, k)
  BY DEF OneKB, Init
<1>2. Types(k)
  <2>1. rows \in [Tables -> SUBSET ({k} \X Docs)] /\ seen \in [Procs -> SUBSET Docs]
    BY DEF Init
  <2>2. at \in [Procs -> Steps] /\ home \in [Docs -> {"none", k}]
    BY DEF Init
  <2>3. req \in [Procs -> [job : Jobs \cup {"none"}, kb : {Base, k}, doc : Docs \cup {"none"}, old : Docs \cup {"none"}]]
    BY DEF Init, NoRequest
  <2>4. QED
    BY <1>1, <2>1, <2>2, <2>3 DEF Init, Types
<1>3. RequestInv(k) /\ EnginesInv(k) /\ LockInv
  BY NamesAssumption DEF Init, RequestInv, EnginesInv, LockInv, Active
<1>4. HomeInv(k) /\ OwnInv(k)
  BY DEF Init, HomeInv, OwnInv, Active, Uploads, Finds
<1>5. ReadableInv(k) /\ SeenInv
  BY DEF Init, ReadableInv, SeenInv, Active, Finds, Tables
<1>6. UploadedInv(k) /\ RemovedInv(k)
  BY DEF Init, UploadedInv, RemovedInv, ListedSteps, Findable, Indexed, AfterPostings, AfterChunksIndex,
         AfterSections, AfterChunks, AfterDocuments
<1>7. QED
  BY <1>2, <1>3, <1>4, <1>5, <1>6 DEF DocumentsInv

-----------------------------------------------------------------------------
(* A request that scopes the Store.                                         *)

(* What such a step keeps, whatever it does to the engines.                 *)
LEMMA ScopingKeeps ==
    ASSUME NEW k \in KBs, DocumentsInv(k), NEW p \in Procs, at[p] \in Scopes,
           NEW s \in Scopes \cup {"lock", "lockRemoval", "check"}, at' = [at EXCEPT ![p] = s],
           s = "lock" => req[p].job \in Uploaders, s = "lockRemoval" => req[p].job \in Removers,
           s = "check" => req[p].job \in {"replace", "tags"},
           again' \subseteq Procs, cached' \subseteq {k} \ {Base}, {ingestKB', searchKB', chunkKB'} \subseteq {Base, k},
           EnginesInv(k)',
           UNCHANGED <<database, mu, req, seen, found, deployment, faults, history>>
    PROVE  DocumentsInv(k)'
<1>1. Types(k)'
  BY DEF DocumentsInv, Types, database, history
<1>2. RequestInv(k)'
  BY DEF DocumentsInv, Types, RequestInv, Active, history
<1>3. LockInv'
  BY DEF DocumentsInv, Types, LockInv
<1>4. HomeInv(k)'
  BY DEF DocumentsInv, Types, HomeInv, Active, Finds, database, history
<1>5. OwnInv(k)'
  BY DEF DocumentsInv, Types, OwnInv, Uploads, Finds, Active, database, history
<1>6. ReadableInv(k)' /\ SeenInv'
  BY DEF DocumentsInv, Types, ReadableInv, SeenInv, Finds, Active, database, history
<1>7. UploadedInv(k)' /\ RemovedInv(k)'
  BY DEF DocumentsInv, Types, UploadedInv, RemovedInv, ListedSteps, Findable, Indexed, AfterPostings,
         AfterChunksIndex, AfterSections, AfterChunks, AfterDocuments, database, history
<1>8. QED
  BY <1>1, <1>2, <1>3, <1>4, <1>5, <1>6, <1>7 DEF DocumentsInv

(* Where it goes when the engines point at the knowledge base.              *)
LEMMA EndScopingGoes ==
    ASSUME NEW k \in KBs, DocumentsInv(k), NEW p \in Procs, at[p] \in Scopes, EndScoping(p)
    PROVE  \E s \in {"scope", "lock", "lockRemoval", "check"} :
              /\ at' = [at EXCEPT ![p] = s] /\ again' \subseteq Procs
              /\ s = "lock" => req[p].job \in Uploaders
              /\ s = "lockRemoval" => req[p].job \in Removers
              /\ s = "check" => req[p].job \in {"replace", "tags"}
<1>1. req[p].job \in {"web", "remove", "tags"}
  BY RequestIs DEF DocumentsInv, RequestInv, Active
<1>2. again' \subseteq Procs
  BY DEF DocumentsInv, Types, EndScoping
<1>3. CASE p \in again
  BY <1>2, <1>3 DEF EndScoping, Goto
<1>4. CASE p \notin again
  BY <1>1, <1>2, <1>4 DEF EndScoping, Goto, FirstStep
<1>5. QED
  BY <1>3, <1>4

LEMMA ScopeKeeps == ASSUME NEW k \in KBs, DocumentsInv(k), NEW p \in Procs, Scope(p) PROVE DocumentsInv(k)'
<1>1. req[p].kb = k /\ k # Base
  BY RequestIs DEF DocumentsInv, RequestInv, Active, Scope
<1>2. CASE req[p].kb \in cached
  <2>1. PICK s \in {"scope", "lock", "lockRemoval", "check"} :
              /\ at' = [at EXCEPT ![p] = s] /\ again' \subseteq Procs
              /\ s = "lock" => req[p].job \in Uploaders
              /\ s = "lockRemoval" => req[p].job \in Removers
              /\ s = "check" => req[p].job \in {"replace", "tags"}
    BY <1>2, EndScopingGoes DEF Scope
  <2>2. UNCHANGED <<engines, database, mu, req, seen, found, deployment, faults, history>>
    BY <1>2 DEF Scope, engines
  <2>3. EnginesInv(k)'
    BY <1>2, <2>1, <2>2 DEF DocumentsInv, Types, EnginesInv, Pointed, Active, engines, database
  <2>4. cached' \subseteq {k} \ {Base} /\ {ingestKB', searchKB', chunkKB'} \subseteq {Base, k}
    BY <2>2 DEF DocumentsInv, Types, engines
  <2>5. QED
    BY <2>1, <2>2, <2>3, <2>4, ScopingKeeps DEF Scope
<1>3. CASE req[p].kb \notin cached
  <2>1. at' = [at EXCEPT ![p] = "ingest"] /\ again' = again /\ cached' = cached \cup ({k} \cap gob)
    BY <1>1, <1>3, FollowingIs DEF Scope, Continue, Goto
  <2>2. UNCHANGED <<ingestKB, searchKB, chunkKB, database, mu, req, seen, found, deployment, faults, history>>
    BY DEF Scope
  <2>3. EnginesInv(k)'
    BY <2>1, <2>2 DEF DocumentsInv, Types, EnginesInv, Pointed, Active, database
  <2>4. again' \subseteq Procs /\ cached' \subseteq {k} \ {Base} /\ {ingestKB', searchKB', chunkKB'} \subseteq {Base, k}
    BY <1>1, <2>1, <2>2 DEF DocumentsInv, Types
  <2>5. QED
    BY <2>1, <2>2, <2>3, <2>4, ScopingKeeps DEF Scope
<1>4. QED
  BY <1>2, <1>3

LEMMA SetKeeps ==
    ASSUME NEW k \in KBs, DocumentsInv(k), NEW p \in Procs, SetIngestKB(p) \/ SetSearchKB(p) \/ SetChunkKB(p)
    PROVE  DocumentsInv(k)'
<1>1. at[p] \in Scopes
  BY DEF SetIngestKB, SetSearchKB, SetChunkKB
<1>2. req[p].kb = k
  BY <1>1, RequestIs DEF DocumentsInv, Active
<1>3. PICK s \in Scopes \cup {"lock", "lockRemoval", "check"} :
              /\ at' = [at EXCEPT ![p] = s] /\ again' \subseteq Procs
              /\ s = "lock" => req[p].job \in Uploaders
              /\ s = "lockRemoval" => req[p].job \in Removers
              /\ s = "check" => req[p].job \in {"replace", "tags"}
              /\ s = "chunk" => SetSearchKB(p)
              /\ s \notin Scopes => SetChunkKB(p)
  <2>1. CASE SetIngestKB(p)
    <3>1. at' = [at EXCEPT ![p] = "search"] /\ again' \subseteq Procs
      BY <2>1, FollowingIs DEF DocumentsInv, Types, SetIngestKB, Continue, Goto, locals
    <3>2. QED
      BY <3>1
  <2>2. CASE SetSearchKB(p)
    <3>1. at' = [at EXCEPT ![p] = "chunk"] /\ again' \subseteq Procs
      BY <2>2, FollowingIs DEF DocumentsInv, Types, SetSearchKB, Continue, Goto, locals
    <3>2. QED
      BY <2>2, <3>1
  <2>3. CASE SetChunkKB(p)
    BY <2>3, EndScopingGoes DEF SetChunkKB
  <2>4. QED
    BY <2>1, <2>2, <2>3
<1>4. UNCHANGED <<cached, database, mu, req, seen, found, deployment, faults, history>>
  BY DEF SetIngestKB, SetSearchKB, SetChunkKB, locals
<1>5. /\ ingestKB' = ingestKB \/ ingestKB' = k
      /\ searchKB' = IF SetSearchKB(p) THEN k ELSE searchKB
      /\ chunkKB' = IF SetChunkKB(p) THEN k ELSE chunkKB
  BY <1>2 DEF SetIngestKB, SetSearchKB, SetChunkKB
<1>6. SetChunkKB(p) => searchKB = k
  BY DEF DocumentsInv, EnginesInv, SetChunkKB
<1>7. EnginesInv(k)'
  BY <1>1, <1>3, <1>4, <1>5, <1>6 DEF DocumentsInv, Types, EnginesInv, Pointed, Active, database
<1>8. {ingestKB', searchKB', chunkKB'} \subseteq {Base, k} /\ cached' \subseteq {k} \ {Base}
  BY <1>4, <1>5 DEF DocumentsInv, Types
<1>9. QED
  BY <1>1, <1>3, <1>4, <1>7, <1>8, ScopingKeeps

-----------------------------------------------------------------------------
(* A request that works on documents.                                       *)

(* Which steps it may take next, and what they mean for the mutex.          *)
Takes(p, s) ==
    /\ Active(p) /\ at[p] \notin Scopes /\ s \notin Scopes \cup {"check"}
    /\ at' = [at EXCEPT ![p] = s]
    /\ s \in UploadSteps \cup {"lock"} => req[p].job \in Uploaders
    /\ s \in RemovalSteps \cup {"lockRemoval"} => req[p].job \in Removers
    /\ s \in RemovalSteps \ {"find"} => req[p].old \in removing'
    /\ s = "retag" => req[p].job = "tags"
    /\ s \notin {"idle", "abort"} => at[p] # "abort"
    /\ s \notin {"idle", "abort", "retag"} /\ s \in Unlisted => at[p] \in Unlisted
    /\ mu' = IF s \in Locked THEN p ELSE IF at[p] \in Locked THEN Free ELSE mu
    /\ at[p] \in Locked \/ s \notin Locked \/ mu = Free
    /\ UNCHANGED <<ingestKB, searchKB, chunkKB, req, again, deployment, home>>

LEMMA ControlKept ==
    ASSUME NEW k \in KBs, DocumentsInv(k), NEW p \in Procs, NEW s \in Steps, Takes(p, s), removing \subseteq removing',
           gob \subseteq gob', gob' \subseteq {k} \ {Base}, cached' \subseteq {k} \ {Base},
           ~deployment.embeds => gob' = gob
    PROVE  RequestInv(k)' /\ EnginesInv(k)' /\ LockInv'
<1>1. RequestInv(k)'
  BY DEF DocumentsInv, Types, RequestInv, Active, Takes
<1>2. EnginesInv(k)'
  BY DEF DocumentsInv, Types, EnginesInv, Pointed, Active, Takes
<1>3. LockInv'
  BY NamesAssumption DEF DocumentsInv, Types, LockInv, Takes
<1>4. QED
  BY <1>1, <1>2, <1>3

LEMMA TypesKept ==
    ASSUME NEW k \in KBs, Types(k), NEW p \in Procs, NEW s \in Steps, Takes(p, s),
           rows' \in [Tables -> SUBSET ({k} \X Docs)], gob' \subseteq {k} \ {Base}, cached' \subseteq {k} \ {Base},
           seen' \in [Procs -> SUBSET Docs], found' \subseteq Procs, whole' \in [Procs -> BOOLEAN], faults' \in Nat,
           uploaded' \subseteq Docs, removing' \subseteq Docs, removed' \subseteq removing'
    PROVE  Types(k)'
<1>1. at' \in [Procs -> Steps] /\ mu' \in Procs \cup {Free}
  BY DEF Types, Takes
<1>2. UNCHANGED <<ingestKB, searchKB, chunkKB, req, again, deployment, home>>
  BY DEF Takes
<1>3. QED
  BY <1>1, <1>2 DEF Types

(* A step that stores nothing.                                              *)
LEMMA KnownKept ==
    ASSUME NEW k \in KBs, DocumentsInv(k), NEW p \in Procs, NEW s \in Steps, Takes(p, s),
           s \in {"sections", "documents"} => at[p] \in {"sections", "documents"},
           uploaded' \subseteq uploaded, \A q \in Procs : \A d \in seen'[q] : home[d] = k,
           UNCHANGED <<rows, removing>>
    PROVE  HomeInv(k)' /\ OwnInv(k)' /\ ReadableInv(k)'
<1>1. HomeInv(k)'
  BY DEF DocumentsInv, Types, HomeInv, Active, Finds, Takes
<1>2. OwnInv(k)'
  BY DEF DocumentsInv, Types, RequestInv, OwnInv, Uploads, Finds, Active, Takes
<1>3. ReadableInv(k)'
  BY DEF DocumentsInv, Types, ReadableInv, Finds, Active, Takes
<1>4. QED
  BY <1>1, <1>2, <1>3

(* The steps that come with no claim about what is stored.                  *)
Unclaimed == {"idle", "abort", "lock", "lockRemoval", "chunks", "find", "retag"}

LEMMA MoveKeeps ==
    ASSUME NEW k \in KBs, DocumentsInv(k), NEW p \in Procs,
           NEW s \in Steps \ {"postings", "index", "dropIndex"}, Takes(p, s),
           s \in {"sections", "documents"} => at[p] \in {"sections", "documents"},
           whole' \in [Procs -> BOOLEAN], \A q \in Procs \ {p} : whole'[q] = whole[q], whole'[p] => s \in Unclaimed,
           found' \subseteq Procs, \A q \in Procs \ {p} : q \in found => q \in found', faults' \in Nat,
           UNCHANGED <<database, cached, seen, uploaded, removing, removed>>
    PROVE  DocumentsInv(k)'
<1>1. RequestInv(k)' /\ EnginesInv(k)' /\ LockInv'
  BY ControlKept DEF DocumentsInv, Types, database
<1>2. HomeInv(k)' /\ OwnInv(k)' /\ ReadableInv(k)'
  BY KnownKept DEF DocumentsInv, HomeInv, database
<1>3. Types(k)'
  BY TypesKept DEF DocumentsInv, Types, database
<1>4. SeenInv'
  BY DEF DocumentsInv, Types, SeenInv, Takes
<1>5. UploadedInv(k)'
  BY DEF DocumentsInv, Types, UploadedInv, ListedSteps, Findable, Indexed, Takes, Unclaimed, database
<1>6. RemovedInv(k)'
  BY DEF DocumentsInv, Types, RemovedInv, AfterPostings, AfterChunksIndex, AfterSections, AfterChunks,
         AfterDocuments, Takes, Unclaimed, database
<1>7. QED
  BY <1>1, <1>2, <1>3, <1>4, <1>5, <1>6 DEF DocumentsInv

(* What a request at a step is: the facts every step of it starts from.     *)
LEMMA AtWork ==
    ASSUME NEW k \in KBs, DocumentsInv(k), NEW p \in Procs, Active(p), at[p] \notin Scopes
    PROVE  /\ at[p] \in Locked <=> mu = p
           /\ at[p] \in UploadSteps \cup {"lock"} => req[p].job \in Uploaders /\ req[p].doc \in Docs
           /\ at[p] \in RemovalSteps \cup {"lockRemoval"} => req[p].job \in Removers /\ req[p].old \in Docs
           /\ at[p] \in RemovalSteps \ {"find"} => req[p].old \in removing
           /\ req[p].kb = k /\ searchKB = k /\ chunkKB = k
  BY DEF DocumentsInv, RequestInv, EnginesInv, LockInv, Pointed, Active

LEMMA FaultIs == ASSUME NEW k \in KBs, Types(k), NEW x, Fault(x) PROVE faults' \in Nat
  BY DEF Types, Fault

LEMMA QuietKeeps ==
    ASSUME NEW k \in KBs, DocumentsInv(k), NEW p \in Procs, Lock(p) \/ ParseFails(p) \/ AnswerFailed(p) \/ CheckListed(p)
    PROVE  DocumentsInv(k)'
<1>1. Active(p) /\ at[p] \notin Scopes
  BY DEF Active, Lock, ParseFails, AnswerFailed, CheckListed
<1>2. PICK s \in {"idle", "abort", "chunks", "find", "lockRemoval", "retag"} : Takes(p, s)
  <2>1. CASE Lock(p)
    <3>1. PICK s \in {"chunks", "find"} : at' = [at EXCEPT ![p] = s] /\ (s = "chunks" <=> at[p] = "lock")
      BY <2>1, FollowingIs DEF Lock, Continue, Goto
    <3>2. Takes(p, s)
      BY <1>1, <2>1, <3>1, AtWork DEF Lock, Takes, engines, locals, history
    <3>3. QED
      BY <3>2
  <2>2. CASE ParseFails(p)
    <3>1. Takes(p, "abort")
      BY <1>1, <2>2, AtWork DEF ParseFails, Goto, Takes, engines, locals, history
    <3>2. QED
      BY <3>1
  <2>3. CASE AnswerFailed(p)
    <3>1. Takes(p, "idle")
      BY <1>1, <2>3, AtWork DEF AnswerFailed, Unlock, Goto, Takes, engines, locals
    <3>2. QED
      BY <3>1
  <2>4. CASE CheckListed(p)
    <3>1. req[p].job \in {"replace", "tags"}
      BY <1>1, <2>4 DEF DocumentsInv, RequestInv, CheckListed
    <3>2. PICK s \in {"idle", "lockRemoval", "retag"} :
              at' = [at EXCEPT ![p] = s] /\ (s = "lockRemoval" => req[p].job = "replace")
                                         /\ (s = "retag" => req[p].job = "tags")
      BY <2>4, <3>1 DEF CheckListed, Goto
    <3>3. Takes(p, s)
      BY <1>1, <2>4, <3>2 DEF CheckListed, Takes, engines, locals, history
    <3>4. QED
      BY <3>3
  <2>5. QED
    BY <2>1, <2>2, <2>3, <2>4
<1>3. UNCHANGED <<database, cached, seen, found, whole, uploaded, removing, removed, faults>>
  BY DEF Lock, ParseFails, AnswerFailed, CheckListed, Unlock, engines, locals, history
<1>4. QED
  BY <1>2, <1>3, MoveKeeps DEF DocumentsInv, Types, Unclaimed

(* A failed statement of an upload, or of a removal.                        *)
LEMMA WriteFailsKeeps ==
    ASSUME NEW k \in KBs, DocumentsInv(k), NEW p \in Procs, NEW t \in Tables, WriteFails(p, t) PROVE DocumentsInv(k)'
<1>1. at[p] \in {"chunks", "sections", "documents", "chunks_index", "postings", "source", "raw", "index"} /\ at[p] = t
  BY DEF WriteFails, Tables, Columns
<1>2. PICK s \in {"abort", "documents", "source", "vectors", "raw", "readIndex", "uploaded"} :
              at' = [at EXCEPT ![p] = s] /\ (s = "documents" => at[p] = "sections")
  BY <1>1, FollowingIs DEF WriteFails, Continue, Goto
<1>3. Active(p) /\ at[p] \notin Scopes
  BY <1>1 DEF Active
<1>4. Takes(p, s)
  BY <1>1, <1>2, <1>3, AtWork DEF WriteFails, Takes, engines, locals
<1>5. whole' \in [Procs -> BOOLEAN] /\ ~whole'[p] /\ \A q \in Procs \ {p} : whole'[q] = whole[q]
  BY DEF DocumentsInv, Types, WriteFails
<1>6. faults' \in Nat
  BY FaultIs DEF DocumentsInv, WriteFails
<1>7. UNCHANGED <<database, cached, seen, found, uploaded, removing, removed>>
  BY DEF WriteFails, engines, locals
<1>8. found' \subseteq Procs
  BY <1>7 DEF DocumentsInv, Types
<1>9. QED
  BY <1>2, <1>4, <1>5, <1>6, <1>7, <1>8, MoveKeeps

LEMMA DeletionFailsKeeps ==
    ASSUME NEW k \in KBs, DocumentsInv(k), NEW p \in Procs, IndexKept(p) \/ \E t \in Tables : DeleteFails(p, t)
    PROVE  DocumentsInv(k)'
<1>1. /\ at[p] \in RemovalSteps
      /\ at' = [at EXCEPT ![p] = at'[p]] /\ at'[p] \in {"dropChunksIndex", "dropSections", "dropChunks", "dropDocuments", "abort", "removed"}
      /\ found' \subseteq Procs /\ \A q \in Procs \ {p} : q \in found => q \in found'
  <2>1. at \in [Procs -> Steps] /\ found \subseteq Procs
    BY DEF DocumentsInv, Types
  <2>2. CASE IndexKept(p)
    BY <2>1, <2>2, FollowingIs DEF IndexKept, Continue, Goto, locals
  <2>3. CASE \E t \in Tables : DeleteFails(p, t)
    <3>1. PICK t \in DOMAIN Deleting : DeleteFails(p, t)
      BY <2>3 DEF DeleteFails
    <3>2. at[p] = Deleting[t] /\ t \in {"postings", "chunks_index", "sections", "chunks", "documents"}
      BY <3>1 DEF DeleteFails, Deleting
    <3>3. t # "documents" => at[p] \in {"dropPostings", "dropChunksIndex", "dropSections", "dropChunks"}
      BY <3>2 DEF Deleting
    <3>4. at[p] \in RemovalSteps
      BY <3>2 DEF Deleting
    <3>5. CASE t = "documents"
      BY <2>1, <3>1, <3>4, <3>5 DEF DeleteFails, Goto
    <3>6. CASE t # "documents"
      BY <2>1, <3>1, <3>3, <3>6, FollowingIs DEF DeleteFails, AfterDeletion, Goto
    <3>7. QED
      BY <3>5, <3>6
  <2>4. QED
    BY <2>2, <2>3
<1>2. UNCHANGED <<database, engines, mu, req, seen, again, deployment, home, uploaded, removing, removed>>
  BY DEF IndexKept, DeleteFails, locals
<1>3. whole' \in [Procs -> BOOLEAN] /\ ~whole'[p] /\ \A q \in Procs \ {p} : whole'[q] = whole[q]
  BY DEF DocumentsInv, Types, IndexKept, DeleteFails
<1>4. faults' \in Nat
  BY FaultIs DEF DocumentsInv, IndexKept, DeleteFails
<1>5. Active(p) /\ at[p] \notin Scopes
  BY <1>1 DEF Active
<1>6. PICK s \in {"dropChunksIndex", "dropSections", "dropChunks", "dropDocuments", "abort", "removed"} :
              at' = [at EXCEPT ![p] = s]
  BY <1>1
<1>7. mu = p /\ req[p].job \in Removers /\ (at[p] = "find" \/ req[p].old \in removing)
  BY <1>1, <1>5, AtWork
<1>8. at[p] # "find"
  BY DEF IndexKept, DeleteFails, Deleting
<1>9. Takes(p, s)
  BY <1>1, <1>2, <1>5, <1>6, <1>7, <1>8 DEF Takes, engines
<1>10. QED
  BY <1>1, <1>2, <1>3, <1>4, <1>6, <1>9, MoveKeeps DEF engines

LEMMA ReadKeeps == ASSUME NEW k \in KBs, DocumentsInv(k), NEW p \in Procs, NEW t \in Tables, ReadEntries(p, t) PROVE DocumentsInv(k)'
<1>1. t \in {"postings", "index"} /\ at[p] \in {"readPostings", "readIndex", "findIndex"}
  BY DEF ReadEntries, Reading
<1>2. PICK s \in {"postings", "index", "dropIndex"} :
              at' = [at EXCEPT ![p] = s] /\ (s = "dropIndex" <=> at[p] = "findIndex")
                                         /\ (s = "postings" <=> at[p] = "readPostings")
  BY <1>1, FollowingIs DEF ReadEntries, Continue, Goto
<1>3. Active(p) /\ at[p] \notin Scopes
  BY <1>1 DEF Active
<1>4. DEFINE E == {d \in Docs : <<k, d>> \in rows[t]}
<1>5. KBFor(p, t) = k
  BY <1>1, <1>3, KBForIs DEF DocumentsInv
<1>6. seen' = [seen EXCEPT ![p] = E]
  BY <1>5, EntriesAre DEF ReadEntries, DocumentsInv
<1>7. Takes(p, s)
  BY <1>1, <1>2, <1>3, AtWork DEF ReadEntries, Takes, engines, history
<1>8. UNCHANGED <<database, cached, found, faults, whole, uploaded, removing, removed>>
  BY DEF ReadEntries, engines, history
<1>9. E \subseteq Docs /\ \A d \in E : home[d] = k
  BY DEF DocumentsInv, Types, HomeInv
<1>10. uploaded \ removing \subseteq E
  BY <1>1 DEF DocumentsInv, Types, UploadedInv
<1>11. E \cap removed = {}
  BY <1>1 DEF DocumentsInv, RemovedInv
<1>. HIDE DEF E
<1>12. seen' \in [Procs -> SUBSET Docs] /\ seen'[p] = E /\ \A q \in Procs \ {p} : seen'[q] = seen[q]
  BY <1>6, <1>9 DEF DocumentsInv, Types
<1>13. RequestInv(k)' /\ EnginesInv(k)' /\ LockInv'
  BY <1>2, <1>7, <1>8, ControlKept DEF DocumentsInv, Types, database
<1>14. HomeInv(k)' /\ OwnInv(k)' /\ ReadableInv(k)'
  <2>1. \A q \in Procs : \A d \in seen'[q] : home[d] = k
    BY <1>9, <1>12 DEF DocumentsInv, HomeInv
  <2>2. QED
    BY <1>2, <1>7, <1>8, <2>1, KnownKept DEF database
<1>15. Types(k)'
  BY <1>2, <1>7, <1>8, <1>12, TypesKept DEF DocumentsInv, Types, database
<1>16. SeenInv'
  BY <1>2, <1>7, <1>8, <1>10, <1>11, <1>12 DEF DocumentsInv, SeenInv, Types, Takes
<1>17. UploadedInv(k)' /\ RemovedInv(k)'
  <2>1. (s \in Indexed => at[p] \in Indexed) /\ (s \in Findable => at[p] \in Findable)
    BY <1>1, <1>2 DEF ListedSteps, Findable, Indexed
  <2>2. s \in ListedSteps => at[p] \in ListedSteps
    BY <1>1, <1>2 DEF ListedSteps, Findable, Indexed
  <2>3. UploadedInv(k)'
    BY <1>2, <1>7, <1>8, <2>1, <2>2 DEF DocumentsInv, Types, UploadedInv, Takes, database
  <2>4. QED
    BY <1>1, <1>2, <1>7, <1>8, <2>3 DEF DocumentsInv, Types, RemovedInv, AfterPostings, AfterChunksIndex, AfterSections, AfterChunks,
         AfterDocuments, Takes, database
<1>18. QED
  BY <1>13, <1>14, <1>15, <1>16, <1>17 DEF DocumentsInv

(* What a failed read hides stops counting as uploaded.                     *)
LEMMA ReadFailsKeeps == ASSUME NEW k \in KBs, DocumentsInv(k), NEW p \in Procs, NEW t \in Tables, ReadFails(p, t) PROVE DocumentsInv(k)'
<1>1. t \in {"postings", "index"} /\ at[p] \in {"readPostings", "readIndex", "findIndex"}
  BY DEF ReadFails, Reading
<1>2. PICK s \in {"postings", "index", "removed"} :
              at' = [at EXCEPT ![p] = s] /\ (s = "removed" <=> at[p] = "findIndex")
  BY <1>1, FollowingIs DEF ReadFails, Continue, Goto
<1>3. Active(p) /\ at[p] \notin Scopes
  BY <1>1 DEF Active
<1>4. Takes(p, s)
  BY <1>1, <1>2, <1>3, AtWork DEF ReadFails, Takes, engines
<1>5. UNCHANGED <<database, cached, found, removing, removed>> /\ uploaded' \subseteq uploaded
  BY <1>1 DEF ReadFails, engines
<1>6. /\ seen' \in [Procs -> SUBSET Docs] /\ seen'[p] = {} /\ \A q \in Procs \ {p} : seen'[q] = seen[q]
      /\ whole' \in [Procs -> BOOLEAN] /\ ~whole'[p] /\ \A q \in Procs \ {p} : whole'[q] = whole[q]
  BY DEF ReadFails, DocumentsInv, Types
<1>7. s # "removed" => uploaded' \ removing = {}
  <2>1. KBFor(p, t) = k
    BY <1>1, <1>3, KBForIs DEF DocumentsInv
  <2>2. s # "removed" => uploaded' = uploaded \ {d \in Docs : <<k, d>> \in rows[t]}
    BY <1>2, <2>1, EntriesAre DEF ReadFails, DocumentsInv
  <2>3. \A d \in uploaded \ removing : d \in Docs /\ <<k, d>> \in rows[t]
    BY <1>1 DEF DocumentsInv, Types, UploadedInv
  <2>4. QED
    BY <2>2, <2>3
<1>8. RequestInv(k)' /\ EnginesInv(k)' /\ LockInv'
  BY <1>2, <1>4, <1>5, ControlKept DEF DocumentsInv, Types, database
<1>9. HomeInv(k)' /\ OwnInv(k)' /\ ReadableInv(k)'
  <2>1. \A q \in Procs : \A d \in seen'[q] : home[d] = k
    BY <1>6 DEF DocumentsInv, HomeInv
  <2>2. QED
    BY <1>2, <1>4, <1>5, <2>1, KnownKept DEF database
<1>10. Types(k)'
  <2>1. faults' \in Nat
    BY FaultIs DEF DocumentsInv, ReadFails
  <2>2. found' = found
    BY DEF ReadFails
  <2>3. QED
    BY <1>2, <1>4, <1>5, <1>6, <2>1, <2>2, TypesKept DEF DocumentsInv, Types, database
<1>11. SeenInv'
  BY <1>2, <1>4, <1>5, <1>6, <1>7 DEF DocumentsInv, SeenInv, Types, Takes
<1>12. UploadedInv(k)'
  BY <1>1, <1>2, <1>4, <1>5, <1>6 DEF DocumentsInv, Types, UploadedInv, ListedSteps, Findable, Indexed, Takes, database
<1>13. RemovedInv(k)'
  BY <1>1, <1>2, <1>4, <1>5, <1>6 DEF DocumentsInv, Types, RemovedInv, AfterPostings, AfterChunksIndex, AfterSections, AfterChunks,
         AfterDocuments, Takes, database
<1>14. QED
  BY <1>8, <1>9, <1>10, <1>11, <1>12, <1>13 DEF DocumentsInv

LEMMA SaveVectorsKeeps == ASSUME NEW k \in KBs, DocumentsInv(k), NEW p \in Procs, SaveVectors(p) PROVE DocumentsInv(k)'
<1>1. at[p] = "vectors" /\ Active(p) /\ at[p] \notin Scopes
  BY DEF SaveVectors, Active
<1>2. at' = [at EXCEPT ![p] = "source"]
  BY <1>1, FollowingIs DEF SaveVectors, Continue, Goto
<1>3. Takes(p, "source")
  BY <1>1, <1>2, AtWork DEF SaveVectors, Takes, locals, history
<1>4. req[p].kb = k
  BY <1>1, AtWork
<1>5. /\ gob \subseteq gob' /\ (~deployment.embeds => gob' = gob)
      /\ gob' \subseteq {k} \ {Base} /\ cached' \subseteq {k} \ {Base}
  <2>1. PICK new \in SUBSET ({k} \ {Base}) :
              /\ ~deployment.embeds => new = {}
              /\ \E saved \in SUBSET new : gob' = gob \cup saved
              /\ cached' = IF cached = {} THEN {} ELSE cached \cup (new \ gob)
    BY <1>4 DEF SaveVectors
  <2>2. gob \subseteq {k} \ {Base} /\ cached \subseteq {k} \ {Base}
    BY DEF DocumentsInv, Types
  <2>3. QED
    BY <2>1, <2>2
<1>6. UNCHANGED <<rows, seen, found, whole, uploaded, removing, removed, faults>>
  BY DEF SaveVectors, locals, history
<1>7. RequestInv(k)' /\ EnginesInv(k)' /\ LockInv'
  BY <1>3, <1>5, <1>6, ControlKept
<1>8. HomeInv(k)' /\ OwnInv(k)' /\ ReadableInv(k)'
  BY <1>3, <1>6, KnownKept DEF DocumentsInv, HomeInv
<1>9. Types(k)'
  BY <1>3, <1>5, <1>6, TypesKept DEF DocumentsInv, Types
<1>10. SeenInv' /\ UploadedInv(k)'
  BY <1>1, <1>2, <1>3, <1>6 DEF DocumentsInv, Types, SeenInv, UploadedInv, ListedSteps, Findable, Indexed, Takes
<1>11. RemovedInv(k)'
  BY <1>2, <1>3, <1>6 DEF DocumentsInv, Types, RemovedInv, AfterPostings, AfterChunksIndex, AfterSections,
         AfterChunks, AfterDocuments, Takes
<1>12. QED
  BY <1>7, <1>8, <1>9, <1>10, <1>11 DEF DocumentsInv

LEMMA FindKeeps ==
    ASSUME NEW k \in KBs, DocumentsInv(k), NEW p \in Procs, FindForRemoval(p) \/ FindFails(p) PROVE DocumentsInv(k)'
<1>1. at[p] = "find" /\ Active(p) /\ at[p] \notin Scopes
  BY DEF FindForRemoval, FindFails, Active
<1>2. at' = [at EXCEPT ![p] = "dropPostings"]
  BY <1>1, FollowingIs DEF FindForRemoval, FindFails, Continue, Goto
<1>3. removing' = removing \cup {req[p].old} /\ req[p].old \in Docs /\ home[req[p].old] = k
  BY <1>1, AtWork DEF DocumentsInv, HomeInv, Finds, FindForRemoval, FindFails
<1>4. Takes(p, "dropPostings")
  BY <1>1, <1>2, <1>3, AtWork DEF FindForRemoval, FindFails, Takes, engines, locals
<1>5. UNCHANGED <<database, cached, seen, uploaded, removed>>
  BY DEF FindForRemoval, FindFails, engines, locals
<1>6. whole' \in [Procs -> BOOLEAN] /\ \A q \in Procs \ {p} : whole'[q] = whole[q]
  BY DEF DocumentsInv, Types, FindForRemoval, FindFails
<1>7. found' \subseteq Procs /\ \A q \in Procs : q \in found => q \in found'
  BY DEF DocumentsInv, Types, FindForRemoval, FindFails, locals
<1>8. whole'[p] => p \in found'
  BY DEF DocumentsInv, Types, FindForRemoval, FindFails
<1>9. RequestInv(k)' /\ EnginesInv(k)' /\ LockInv'
  BY <1>3, <1>4, <1>5, ControlKept DEF DocumentsInv, Types, database
<1>10. Types(k)'
  <2>1. faults' \in Nat
    BY FaultIs DEF DocumentsInv, Types, FindForRemoval, FindFails
  <2>2. removing' \subseteq Docs /\ removed' \subseteq removing'
    BY <1>3, <1>5 DEF DocumentsInv, Types
  <2>3. QED
    BY <1>4, <1>5, <1>6, <1>7, <2>1, <2>2, TypesKept DEF DocumentsInv, Types, database
<1>11. HomeInv(k)'
  BY <1>1, <1>2, <1>3, <1>4, <1>5 DEF DocumentsInv, Types, HomeInv, Active, Finds, Takes, database
<1>12. OwnInv(k)'
  <2>1. \A q \in Procs : Uploads(q) => at[q] \in Unlisted
    <3>1. \A q \in Procs \ {p} : at[q] \notin Locked
      BY <1>1 DEF DocumentsInv, LockInv
    <3>2. \A q \in Procs : at[q] \in Steps /\ (Uploads(q) => at[q] \notin {"idle", "abort", "retag"})
      BY DEF DocumentsInv, Types, RequestInv, Uploads, Active
    <3>3. QED
      BY <1>1, <3>1, <3>2
  <2>2. Finds(p)
    BY <1>1, AtWork DEF Finds
  <2>3. \A q \in Procs : Uploads(q) => req[q].doc # req[p].old
    BY <2>1, <2>2 DEF DocumentsInv, OwnInv
  <2>4. QED
    BY <1>1, <1>2, <1>3, <1>4, <1>5, <2>3 DEF DocumentsInv, Types, OwnInv, Uploads, Finds, Active, Takes, database
<1>13. ReadableInv(k)'
  BY <1>1, <1>2, <1>3, <1>4, <1>5 DEF DocumentsInv, Types, ReadableInv, Finds, Active, Takes, database
<1>14. SeenInv'
  BY <1>2, <1>3, <1>4, <1>5 DEF DocumentsInv, Types, SeenInv, Takes
<1>15. UploadedInv(k)'
  BY <1>2, <1>3, <1>5, <1>4, <1>6 DEF DocumentsInv, Types, UploadedInv, ListedSteps, Findable, Indexed, Takes, database
<1>16. RemovedInv(k)'
  <2>1. whole'[p] => p \in found'
    BY <1>8
  <2>2. \A q \in Procs \ {p} : at'[q] = at[q]
    BY <1>2 DEF DocumentsInv, Types
  <2>3. at'[p] = "dropPostings"
    BY <1>2 DEF DocumentsInv, Types
  <2>4. UNCHANGED <<rows, req, deployment, removed>>
    BY <1>4, <1>5 DEF Takes, database
  <2>5. QED
    BY <1>6, <1>7, <2>1, <2>2, <2>3, <2>4 DEF DocumentsInv, RemovedInv, AfterPostings, AfterChunksIndex, AfterSections,
         AfterChunks, AfterDocuments
<1>17. QED
  BY <1>9, <1>10, <1>11, <1>12, <1>13, <1>14, <1>15, <1>16 DEF DocumentsInv

-----------------------------------------------------------------------------
(* Answers.                                                                 *)

LEMMA AnswerUploadedKeeps ==
    ASSUME NEW k \in KBs, DocumentsInv(k), NEW p \in Procs, AnswerUploaded(p) PROVE DocumentsInv(k)'
<1>1. at[p] = "uploaded" /\ Active(p) /\ at[p] \notin Scopes /\ at' = [at EXCEPT ![p] = "idle"]
  BY DEF AnswerUploaded, Unlock, Goto, Active
<1>2. Takes(p, "idle")
  BY <1>1, AtWork DEF AnswerUploaded, Unlock, Takes, engines, locals
<1>3. req[p].doc \in Docs /\ home[req[p].doc] = k /\ req[p].doc \notin removing
  BY <1>1, AtWork DEF DocumentsInv, HomeInv, OwnInv, Uploads
<1>4. UNCHANGED <<database, cached, seen, found, whole, removing, removed, faults>>
  BY DEF AnswerUploaded, Unlock, engines, locals
<1>5. uploaded' = IF whole[p] THEN uploaded \cup {req[p].doc} ELSE uploaded
  BY DEF AnswerUploaded
<1>6. RequestInv(k)' /\ EnginesInv(k)' /\ LockInv'
  BY <1>2, <1>4, ControlKept DEF DocumentsInv, Types, database
<1>7. Types(k)'
  <2>1. uploaded' \subseteq Docs
    BY <1>3, <1>5 DEF DocumentsInv, Types
  <2>2. QED
    BY <1>2, <1>4, <2>1, TypesKept DEF DocumentsInv, Types, database
<1>8. HomeInv(k)'
  BY <1>1, <1>2, <1>3, <1>4, <1>5 DEF DocumentsInv, Types, HomeInv, Active, Finds, Takes, database
<1>9. OwnInv(k)'
  <2>1. \A q \in Procs \ {p} : Uploads(q) => req[q].doc \notin uploaded'
    <3>1. Uploads(p)
      BY <1>1, AtWork DEF Uploads
    <3>2. QED
      BY <1>5, <3>1 DEF DocumentsInv, OwnInv
  <2>2. QED
    BY <1>1, <1>2, <1>4, <2>1 DEF DocumentsInv, Types, OwnInv, Uploads, Finds, Active, Takes, database
<1>10. ReadableInv(k)'
  BY <1>1, <1>2, <1>4 DEF DocumentsInv, Types, ReadableInv, Finds, Active, Takes, database
<1>11. SeenInv'
  BY <1>1 DEF DocumentsInv, Types, LockInv, SeenInv
<1>12. UploadedInv(k)'
  BY <1>1, <1>2, <1>4, <1>5 DEF DocumentsInv, Types, UploadedInv, ListedSteps, Findable, Indexed, Takes, database
<1>13. RemovedInv(k)'
  BY <1>1, <1>2, <1>4 DEF DocumentsInv, Types, RemovedInv, AfterPostings, AfterChunksIndex, AfterSections,
         AfterChunks, AfterDocuments, Takes, database
<1>14. QED
  BY <1>6, <1>7, <1>8, <1>9, <1>10, <1>11, <1>12, <1>13 DEF DocumentsInv

LEMMA AnswerRemovedKeeps ==
    ASSUME NEW k \in KBs, DocumentsInv(k), NEW p \in Procs, AnswerRemoved(p) PROVE DocumentsInv(k)'
<1>1. at[p] = "removed" /\ Active(p) /\ at[p] \notin Scopes
  BY DEF AnswerRemoved, Active
<1>2. PICK s \in {"idle", "lock"} : at' = [at EXCEPT ![p] = s] /\ (s = "lock" => req[p].job = "replace")
  BY DEF AnswerRemoved, Unlock, Goto
<1>3. Takes(p, s)
  BY <1>1, <1>2, AtWork DEF AnswerRemoved, Unlock, Takes, engines, locals
<1>4. UNCHANGED <<database, cached, seen, found, uploaded, removing, faults>>
  BY DEF AnswerRemoved, Unlock, engines, locals
<1>5. removed' = IF whole[p] THEN removed \cup {req[p].old} ELSE removed
  BY DEF AnswerRemoved
<1>6. whole' \in [Procs -> BOOLEAN] /\ \A q \in Procs \ {p} : whole'[q] = whole[q]
  BY DEF DocumentsInv, Types, AnswerRemoved
<1>7. RequestInv(k)' /\ EnginesInv(k)' /\ LockInv'
  BY <1>2, <1>3, <1>4, ControlKept DEF DocumentsInv, Types, database
<1>8. HomeInv(k)' /\ OwnInv(k)' /\ ReadableInv(k)'
  BY <1>2, <1>3, <1>4, KnownKept DEF DocumentsInv, HomeInv, database
<1>9. Types(k)'
  <2>1. req[p].old \in removing
    BY <1>1, AtWork
  <2>2. removed' \subseteq removing'
    BY <1>4, <1>5, <2>1 DEF DocumentsInv, Types
  <2>3. QED
    BY <1>2, <1>3, <1>4, <1>6, <2>2, TypesKept DEF DocumentsInv, Types, database
<1>10. SeenInv'
  BY <1>1, <1>2 DEF DocumentsInv, Types, LockInv, SeenInv
<1>11. UploadedInv(k)'
  BY <1>2, <1>3, <1>4, <1>6 DEF DocumentsInv, Types, UploadedInv, ListedSteps, Findable, Indexed, Takes, database
<1>12. RemovedInv(k)'
  <2>1. ASSUME whole[p], NEW t \in Tables, <<k, req[p].old>> \in rows[t] PROVE t = "documents" /\ TagsAsked(deployment, k)
    BY <1>1, <2>1 DEF DocumentsInv, RemovedInv, AfterPostings, AfterChunksIndex, AfterSections, AfterChunks,
         AfterDocuments, Tables, Columns
  <2>2. ASSUME NEW t \in Tables, NEW d \in removed', <<k, d>> \in rows[t]
        PROVE  t = "documents" /\ TagsAsked(deployment, k)
    BY <1>5, <2>1, <2>2 DEF DocumentsInv, RemovedInv
  <2>3. \A q \in Procs : at'[q] \in RemovalSteps => q # p /\ at'[q] = at[q]
    BY <1>2 DEF DocumentsInv, Types
  <2>4. QED
    BY <1>3, <1>4, <1>6, <2>2, <2>3 DEF DocumentsInv, Types, RemovedInv, AfterPostings, AfterChunksIndex, AfterSections,
         AfterChunks, AfterDocuments, Takes, database
<1>13. QED
  BY <1>7, <1>8, <1>9, <1>10, <1>11, <1>12 DEF DocumentsInv

-----------------------------------------------------------------------------
(* Statements that change rows.                                             *)

(* What they keep, whatever they do to the rows of one table.               *)
LEMMA StoringKeeps ==
    ASSUME NEW k \in KBs, DocumentsInv(k), NEW p \in Procs,
           NEW s \in Steps \ {"postings", "index", "dropIndex"}, Takes(p, s),
           rows' \in [Tables -> SUBSET ({k} \X Docs)], found' \subseteq Procs,
           UNCHANGED <<gob, cached, seen, faults, whole, uploaded, removing, removed>>,
           \A t \in Tables : \A d \in Docs : <<k, d>> \in rows'[t] => home[d] = k,
           \A d \in Docs : <<k, d>> \in rows'["documents"] =>
              \/ <<k, d>> \in rows["documents"]
              \/ Uploads(p) /\ d = req[p].doc /\ s \notin Unlisted
              \/ Finds(p) /\ d = req[p].old
    PROVE  /\ Types(k)' /\ RequestInv(k)' /\ EnginesInv(k)' /\ LockInv'
           /\ HomeInv(k)' /\ OwnInv(k)' /\ SeenInv'
<1>1. RequestInv(k)' /\ EnginesInv(k)' /\ LockInv'
  BY ControlKept DEF DocumentsInv, Types
<1>2. Types(k)'
  BY TypesKept DEF DocumentsInv, Types
<1>3. SeenInv'
  BY DEF DocumentsInv, Types, SeenInv, Takes
<1>4. HomeInv(k)'
  <2>1. \A t \in Tables : \A r \in rows'[t] : home[r[2]] = k
    OBVIOUS
  <2>2. QED
    BY <2>1 DEF DocumentsInv, Types, HomeInv, Active, Finds, Takes
<1>5. OwnInv(k)'
  <2>1. \A q \in Procs : Uploads(q)' => Uploads(q) /\ (at'[q] \in Unlisted => at[q] \in Unlisted)
    <3>1. \A q \in Procs \ {p} : at'[q] = at[q]
      BY DEF DocumentsInv, Types, Takes
    <3>2. at'[p] = s
      BY DEF DocumentsInv, Types, Takes
    <3>3. Uploads(p)' => Uploads(p) /\ (s \in Unlisted => at[p] \in Unlisted)
      BY <3>2 DEF Uploads, Takes, Active
    <3>4. QED
      BY <3>1, <3>2, <3>3 DEF Uploads, Takes
  <2>2. \A q \in Procs : Finds(q)' => Finds(q)
    BY DEF DocumentsInv, Types, Finds, Active, Takes
  <2>3. req' = req /\ (at'[p] \in Unlisted <=> s \in Unlisted)
    BY DEF DocumentsInv, Types, Takes
  <2>4. ASSUME NEW q \in Procs, Uploads(q)', at'[q] \in Unlisted PROVE <<k, req[q].doc>> \notin rows'["documents"]
    <3>1. Uploads(q) /\ at[q] \in Unlisted /\ req[q].doc \in Docs
      BY <2>1, <2>4 DEF DocumentsInv, RequestInv, Uploads, Active
    <3>2. /\ <<k, req[q].doc>> \notin rows["documents"]
          /\ Finds(p) => req[p].old # req[q].doc
          /\ Uploads(p) /\ p # q => req[p].doc # req[q].doc
      BY <3>1 DEF DocumentsInv, OwnInv
    <3>3. QED
      BY <2>3, <2>4, <3>1, <3>2
  <2>5. QED
    BY <2>1, <2>2, <2>3, <2>4 DEF DocumentsInv, OwnInv
<1>6. QED
  BY <1>1, <1>2, <1>3, <1>4, <1>5

LEMMA WriteRowKeeps ==
    ASSUME NEW k \in KBs, DocumentsInv(k), NEW p \in Procs, NEW t \in Tables, WriteRow(p, t) PROVE DocumentsInv(k)'
<1>1. at[p] \in {"chunks", "sections", "documents", "chunks_index", "source", "raw"} /\ at[p] = t
  BY DEF WriteRow, Tables, Columns
<1>2. PICK s \in {"sections", "documents", "chunks_index", "readPostings", "raw", "readIndex"} :
              /\ at' = [at EXCEPT ![p] = s]
              /\ <<at[p], s>> \in {<<"chunks", "sections">>, <<"sections", "documents">>, <<"documents", "chunks_index">>,
                                   <<"chunks_index", "readPostings">>, <<"source", "raw">>, <<"raw", "readIndex">>}
  <2>1. at' = [at EXCEPT ![p] = Following[at[p]]]
    BY DEF WriteRow, Continue, Goto
  <2>2. <<at[p], Following[at[p]]>> \in {<<"chunks", "sections">>, <<"sections", "documents">>, <<"documents", "chunks_index">>,
                                        <<"chunks_index", "readPostings">>, <<"source", "raw">>, <<"raw", "readIndex">>}
    BY <1>1, FollowingIs
  <2>3. QED
    BY <2>1, <2>2
<1>3. Active(p) /\ at[p] \notin Scopes
  BY <1>1 DEF Active
<1>4. Takes(p, s)
  BY <1>1, <1>2, <1>3, AtWork DEF WriteRow, Takes, engines, locals, history
<1>5. req[p].doc \in Docs /\ home[req[p].doc] = k /\ req[p].doc \notin removing
  BY <1>1, <1>3, AtWork DEF DocumentsInv, HomeInv, OwnInv, Uploads
<1>6. KBFor(p, t) = k
  BY <1>1, <1>3, KBForIs DEF DocumentsInv
<1>7. /\ rows' \in [Tables -> SUBSET ({k} \X Docs)]
      /\ \A x \in Tables \ {t} : rows'[x] = rows[x]
      /\ rows'[t] \in {rows[t], rows[t] \cup {<<k, req[p].doc>>}}
      /\ t \notin Columns => <<k, req[p].doc>> \in rows'[t]
  <2>1. rows \in [Tables -> SUBSET ({k} \X Docs)]
    BY DEF DocumentsInv, Types
  <2>2. (UNCHANGED rows /\ t \in Columns) \/ Insert(t, k, req[p].doc)
    BY <1>6 DEF WriteRow
  <2>3. QED
    BY <1>5, <2>1, <2>2, InsertIs DEF DocumentsInv
<1>8. UNCHANGED <<gob, cached, seen, found, faults, whole, uploaded, removing, removed>>
  BY DEF WriteRow, engines, locals, history
<1>9. \A x \in Tables : \A d \in Docs : <<k, d>> \in rows'[x] => <<k, d>> \in rows[x] \/ d = req[p].doc
  BY <1>7
<1>10. /\ Types(k)' /\ RequestInv(k)' /\ EnginesInv(k)' /\ LockInv'
       /\ HomeInv(k)' /\ OwnInv(k)' /\ SeenInv'
  <2>1. \A x \in Tables : \A d \in Docs : <<k, d>> \in rows'[x] => home[d] = k
    BY <1>5, <1>9 DEF DocumentsInv, HomeInv
  <2>2. \A d \in Docs : <<k, d>> \in rows'["documents"] => <<k, d>> \in rows["documents"] \/ (d = req[p].doc /\ at[p] = "documents")
    BY <1>1, <1>7 DEF Tables
  <2>3. Uploads(p) /\ (at[p] = "documents" => s \notin Unlisted)
    BY <1>1, <1>2, <1>3, AtWork DEF Uploads
  <2>4. found' \subseteq Procs
    BY <1>8 DEF DocumentsInv, Types
  <2>5. s \in Steps \ {"postings", "index", "dropIndex"}
    BY <1>2
  <2>6. \A d \in Docs : <<k, d>> \in rows'["documents"] =>
           <<k, d>> \in rows["documents"] \/ (Uploads(p) /\ d = req[p].doc /\ s \notin Unlisted)
    BY <2>2, <2>3
  <2>7. rows' \in [Tables -> SUBSET ({k} \X Docs)]
    BY <1>7
  <2>8. QED
    BY <1>4, <1>8, <2>1, <2>4, <2>5, <2>6, <2>7, StoringKeeps
<1>11. \A x \in Tables : \A d \in Docs : <<k, d>> \in rows[x] => <<k, d>> \in rows'[x]
  BY <1>7
<1>12. ReadableInv(k)'
  <2>1. \A d \in Docs : <<k, d>> \in rows'["documents"] => <<k, d>> \in rows["documents"] \/ (d = req[p].doc /\ at[p] = "documents")
    BY <1>1, <1>7 DEF Tables
  <2>2. s \in {"sections", "documents"} => <<k, req[p].doc>> \in rows'["chunks"]
    BY <1>1, <1>2, <1>5, <1>7, <1>11 DEF DocumentsInv, ReadableInv, Tables, Columns
  <2>3. \A q \in Procs \ {p} : at'[q] = at[q]
    BY <1>2 DEF DocumentsInv, Types
  <2>4. at'[p] = s
    BY <1>2 DEF DocumentsInv, Types
  <2>5. \A d \in Docs \ removing : <<k, d>> \in rows'["documents"] => <<k, d>> \in rows'["chunks"]
    BY <1>11, <2>1 DEF DocumentsInv, ReadableInv, Tables
  <2>6. \A q \in Procs : at'[q] \in {"sections", "documents"} => <<k, req[q].doc>> \in rows'["chunks"]
    <3>1. \A q \in Procs \ {p} : at[q] \notin {"sections", "documents"}
      BY <1>1 DEF DocumentsInv, LockInv
    <3>2. QED
      BY <2>2, <2>3, <2>4, <3>1
  <2>7. \A q \in Procs : Finds(q)' /\ req[q].old \notin removing => <<k, req[q].old>> \in rows'["chunks"]
    <3>1. \A q \in Procs : Finds(q)' => Finds(q) /\ req[q].old \in Docs
      BY <1>3, <1>4, <2>3 DEF DocumentsInv, RequestInv, Finds, Active, Takes
    <3>2. QED
      BY <1>11, <3>1 DEF DocumentsInv, ReadableInv, Tables
  <2>8. UNCHANGED <<req, removing>>
    BY <1>4, <1>8 DEF Takes
  <2>9. QED
    BY <2>5, <2>6, <2>7, <2>8 DEF ReadableInv
<1>13. UploadedInv(k)'
  <2>1. \A q \in Procs \ {p} : at'[q] = at[q] /\ at'[q] \notin ListedSteps
    BY <1>1, <1>2 DEF DocumentsInv, Types, LockInv, ListedSteps, Findable, Indexed
  <2>2. at'[p] = s
    BY <1>2 DEF DocumentsInv, Types
  <2>3. UNCHANGED <<req, uploaded, removing, whole>>
    BY <1>4, <1>8 DEF Takes
  <2>4. whole[p] /\ s \in ListedSteps => <<k, req[p].doc>> \in rows'["documents"]
    BY <1>1, <1>2, <1>5, <1>7, <1>11 DEF DocumentsInv, UploadedInv, ListedSteps, Findable, Indexed, Tables, Columns
  <2>5. whole[p] /\ s \in Findable => <<k, req[p].doc>> \in rows'["chunks_index"]
    BY <1>1, <1>2, <1>5, <1>7, <1>11 DEF DocumentsInv, UploadedInv, Findable, Indexed, Tables, Columns
  <2>6. whole[p] /\ s \in Indexed => <<k, req[p].doc>> \in rows'["postings"]
    BY <1>1, <1>2, <1>5, <1>11 DEF DocumentsInv, UploadedInv, Indexed, Tables
  <2>7. \A d \in uploaded \ removing :
              /\ <<k, d>> \in rows'["documents"] /\ <<k, d>> \in rows'["chunks_index"]
              /\ <<k, d>> \in rows'["postings"] /\ <<k, d>> \in rows'["index"]
    BY <1>11 DEF DocumentsInv, Types, UploadedInv, Tables
  <2>8. s # "uploaded"
    BY <1>2
  <2>9. QED
    BY <2>1, <2>2, <2>3, <2>4, <2>5, <2>6, <2>7, <2>8 DEF UploadedInv, ListedSteps, Findable, Indexed
<1>14. RemovedInv(k)'
  <2>1. \A q \in Procs : at'[q] \notin RemovalSteps
    BY <1>1, <1>2 DEF DocumentsInv, Types, LockInv
  <2>2. \A x \in Tables : \A d \in removed : <<k, d>> \notin rows[x] => <<k, d>> \notin rows'[x]
    BY <1>5, <1>9 DEF DocumentsInv, Types
  <2>3. QED
    BY <1>4, <1>8, <2>1, <2>2 DEF DocumentsInv, Types, RemovedInv, AfterPostings, AfterChunksIndex, AfterSections, AfterChunks,
         AfterDocuments, Takes
<1>15. QED
  BY <1>10, <1>12, <1>13, <1>14 DEF DocumentsInv

(* The inverted index and INDEX.md are rewritten with everything that was   *)
(* uploaded and nothing that was removed.                                   *)
LEMMA RewriteKeeps ==
    ASSUME NEW k \in KBs, DocumentsInv(k), NEW p \in Procs, NEW t \in {"postings", "index"}, NEW S \in SUBSET Docs,
           NEW s \in {"vectors", "uploaded", "removed"}, Takes(p, s), Overwrite(t, k, S), \A d \in S : home[d] = k,
           uploaded \ removing \subseteq S, S \cap removed = {},
           UNCHANGED <<gob, cached, seen, found, faults, whole, uploaded, removing, removed>>,
           s = "vectors" => t = "postings" /\ at[p] = "postings" /\ (whole[p] => req[p].doc \in S),
           s = "uploaded" => t = "index" /\ at[p] = "index" /\ req[p].doc \in S,
           s = "removed" => t = "index" /\ at[p] = "dropIndex" /\ req[p].old \notin S
    PROVE  DocumentsInv(k)'
<1>1. /\ rows' \in [Tables -> SUBSET ({k} \X Docs)]
      /\ \A x \in Tables \ {t} : rows'[x] = rows[x]
      /\ \A d \in Docs : <<k, d>> \in rows'[t] <=> d \in S
  BY OverwriteIs DEF DocumentsInv, Tables
<1>2. at[p] \in {"postings", "index", "dropIndex"} /\ at'[p] = s /\ \A q \in Procs \ {p} : at'[q] = at[q]
  BY DEF DocumentsInv, Types, Takes
<1>3. \A q \in Procs \ {p} : at[q] \notin Locked
  BY <1>2 DEF DocumentsInv, LockInv
<1>4. UNCHANGED <<req, home, deployment>>
  BY DEF Takes
<1>5. /\ rows'["documents"] = rows["documents"] /\ rows'["chunks"] = rows["chunks"] /\ rows'["sections"] = rows["sections"]
      /\ rows'["chunks_index"] = rows["chunks_index"] /\ rows'["source"] = rows["source"] /\ rows'["raw"] = rows["raw"]
  BY <1>1 DEF Tables, Columns
<1>6. /\ Types(k)' /\ RequestInv(k)' /\ EnginesInv(k)' /\ LockInv'
      /\ HomeInv(k)' /\ OwnInv(k)' /\ SeenInv'
  <2>1. \A x \in Tables : \A d \in Docs : <<k, d>> \in rows'[x] => home[d] = k
    BY <1>1 DEF DocumentsInv, HomeInv
  <2>2. found' \subseteq Procs
    BY DEF DocumentsInv, Types
  <2>3. QED
    BY <1>1, <1>5, <2>1, <2>2, StoringKeeps
<1>7. ReadableInv(k)'
  <2>1. \A q \in Procs : Finds(q)' => Finds(q)
    BY <1>2, <1>4 DEF Finds, Active
  <2>2. \A q \in Procs : at'[q] \notin {"sections", "documents"}
    BY <1>2, <1>3
  <2>3. QED
    BY <1>4, <1>5, <2>1, <2>2 DEF DocumentsInv, ReadableInv
<1>8. UploadedInv(k)'
  <2>1. \A d \in uploaded \ removing :
              /\ <<k, d>> \in rows'["documents"] /\ <<k, d>> \in rows'["chunks_index"]
              /\ <<k, d>> \in rows'["postings"] /\ <<k, d>> \in rows'["index"]
    BY <1>1, <1>5 DEF DocumentsInv, Types, UploadedInv, Tables
  <2>2. \A q \in Procs \ {p} : at'[q] \notin ListedSteps
    BY <1>2, <1>3 DEF ListedSteps, Findable, Indexed
  <2>3. whole[p] /\ s \in ListedSteps =>
              /\ <<k, req[p].doc>> \in rows'["documents"] /\ <<k, req[p].doc>> \in rows'["chunks_index"]
              /\ <<k, req[p].doc>> \in rows'["postings"]
    <3>1. CASE s = "vectors"
      BY <1>1, <1>5, <3>1 DEF DocumentsInv, UploadedInv, ListedSteps, Findable, Indexed
    <3>2. CASE s = "uploaded"
      BY <1>1, <1>5, <3>2 DEF DocumentsInv, UploadedInv, ListedSteps, Findable, Indexed, Tables
    <3>3. QED
      BY <3>1, <3>2 DEF ListedSteps, Findable, Indexed
  <2>4. s = "uploaded" => <<k, req[p].doc>> \in rows'["index"]
    BY <1>1
  <2>5. QED
    BY <1>2, <1>4, <2>1, <2>2, <2>3, <2>4 DEF UploadedInv, ListedSteps, Findable, Indexed
<1>9. RemovedInv(k)'
  <2>1. \A x \in Tables : \A d \in removed : <<k, d>> \in rows'[x] => x = "documents" /\ TagsAsked(deployment, k)
    BY <1>1 DEF DocumentsInv, Types, RemovedInv
  <2>2. \A q \in Procs \ {p} : at'[q] \notin RemovalSteps
    BY <1>2, <1>3
  <2>3. CASE s # "removed"
    BY <1>2, <1>4, <2>1, <2>2, <2>3 DEF DocumentsInv, RemovedInv, AfterPostings, AfterChunksIndex, AfterSections,
       AfterChunks, AfterDocuments
  <2>4. CASE s = "removed"
    <3>1. whole[p] =>
              /\ <<k, req[p].old>> \notin rows'["chunks_index"] /\ <<k, req[p].old>> \notin rows'["postings"]
              /\ <<k, req[p].old>> \notin rows'["sections"] /\ <<k, req[p].old>> \notin rows'["chunks"]
              /\ <<k, req[p].old>> \in rows'["documents"] => TagsAsked(deployment, k)
              /\ <<k, req[p].old>> \notin rows'["source"] /\ <<k, req[p].old>> \notin rows'["raw"]
      BY <1>1, <1>5, <2>4 DEF DocumentsInv, RemovedInv, AfterPostings, AfterChunksIndex, AfterSections,
         AfterChunks, AfterDocuments, Tables
    <3>2. <<k, req[p].old>> \notin rows'["index"]
      BY <1>1, <2>4 DEF Tables
    <3>3. QED
      BY <1>2, <1>4, <2>1, <2>2, <2>4, <3>1, <3>2 DEF DocumentsInv, RemovedInv, AfterPostings, AfterChunksIndex,
         AfterSections, AfterChunks, AfterDocuments
  <2>5. QED
    BY <2>3, <2>4
<1>10. QED
  BY <1>6, <1>7, <1>8, <1>9 DEF DocumentsInv

LEMMA UpdateInvertedIndexKeeps ==
    ASSUME NEW k \in KBs, DocumentsInv(k), NEW p \in Procs, UpdateInvertedIndex(p) PROVE DocumentsInv(k)'
<1>1. at[p] = "postings" /\ Active(p) /\ at[p] \notin Scopes
  BY DEF UpdateInvertedIndex, Active
<1>2. Takes(p, "vectors")
  BY <1>1, AtWork, FollowingIs DEF UpdateInvertedIndex, Continue, Goto, Takes, engines, locals, history
<1>3. req[p].doc \in Docs /\ home[req[p].doc] = k /\ req[p].doc \notin uploaded \cup removing
  BY <1>1, AtWork DEF DocumentsInv, HomeInv, OwnInv, Uploads
<1>4. DEFINE S == (seen[p] \ {req[p].doc}) \cup ({req[p].doc} \cap {d \in Docs : <<k, d>> \in rows["chunks_index"]})
<1>5. Overwrite("postings", k, S)
  <2>1. Entries("chunks_index", k) = {d \in Docs : <<k, d>> \in rows["chunks_index"]}
    BY EntriesAre DEF DocumentsInv, Tables
  <2>2. searchKB = k /\ chunkKB = k
    BY <1>1, AtWork
  <2>3. QED
    BY <2>1, <2>2 DEF UpdateInvertedIndex
<1>6. S \in SUBSET Docs /\ \A d \in S : home[d] = k
  BY <1>3 DEF DocumentsInv, Types, HomeInv
<1>7. uploaded \ removing \subseteq S /\ S \cap removed = {}
  BY <1>1, <1>3 DEF DocumentsInv, Types, SeenInv
<1>8. whole[p] => req[p].doc \in S
  BY <1>1, <1>3 DEF DocumentsInv, UploadedInv, Findable
<1>9. UNCHANGED <<gob, cached, seen, found, faults, whole, uploaded, removing, removed>>
  BY DEF UpdateInvertedIndex, engines, locals, history
<1>. HIDE DEF S
<1>10. QED
  BY <1>1, <1>2, <1>5, <1>6, <1>7, <1>8, <1>9, RewriteKeeps

LEMMA UpdateIndexKeeps == ASSUME NEW k \in KBs, DocumentsInv(k), NEW p \in Procs, UpdateIndex(p) PROVE DocumentsInv(k)'
<1>1. at[p] = "index" /\ Active(p) /\ at[p] \notin Scopes
  BY DEF UpdateIndex, Active
<1>2. Takes(p, "uploaded")
  BY <1>1, AtWork, FollowingIs DEF UpdateIndex, Continue, Goto, Takes, engines, locals, history
<1>3. req[p].doc \in Docs /\ home[req[p].doc] = k /\ req[p].doc \notin removing
  BY <1>1, AtWork DEF DocumentsInv, HomeInv, OwnInv, Uploads
<1>4. DEFINE S == seen[p] \cup {req[p].doc}
<1>5. Overwrite("index", k, S)
  BY <1>1, AtWork DEF UpdateIndex
<1>6. S \in SUBSET Docs /\ (\A d \in S : home[d] = k) /\ req[p].doc \in S
  BY <1>3 DEF DocumentsInv, Types, HomeInv
<1>7. uploaded \ removing \subseteq S /\ S \cap removed = {}
  BY <1>1, <1>3 DEF DocumentsInv, Types, SeenInv
<1>8. UNCHANGED <<gob, cached, seen, found, faults, whole, uploaded, removing, removed>>
  BY DEF UpdateIndex, engines, locals, history
<1>. HIDE DEF S
<1>9. QED
  BY <1>1, <1>2, <1>5, <1>6, <1>7, <1>8, RewriteKeeps

LEMMA RemoveFromIndexKeeps == ASSUME NEW k \in KBs, DocumentsInv(k), NEW p \in Procs, RemoveFromIndex(p) PROVE DocumentsInv(k)'
<1>1. at[p] = "dropIndex" /\ Active(p) /\ at[p] \notin Scopes
  BY DEF RemoveFromIndex, Active
<1>2. req[p].old \in removing
  BY <1>1, AtWork
<1>3. Takes(p, "removed")
  BY <1>1, <1>2, AtWork, FollowingIs DEF RemoveFromIndex, Continue, Goto, Takes, engines, locals, history
<1>4. DEFINE S == seen[p] \ {req[p].old}
<1>5. Overwrite("index", k, S)
  BY <1>1, AtWork DEF RemoveFromIndex
<1>6. S \in SUBSET Docs /\ (\A d \in S : home[d] = k) /\ req[p].old \notin S
  BY DEF DocumentsInv, Types, HomeInv
<1>7. uploaded \ removing \subseteq S /\ S \cap removed = {}
  BY <1>1, <1>2 DEF DocumentsInv, Types, SeenInv
<1>8. UNCHANGED <<gob, cached, seen, found, faults, whole, uploaded, removing, removed>>
  BY DEF RemoveFromIndex, engines, locals, history
<1>. HIDE DEF S
<1>9. QED
  BY <1>1, <1>3, <1>5, <1>6, <1>7, <1>8, RewriteKeeps

LEMMA DeleteRowsKeeps ==
    ASSUME NEW k \in KBs, DocumentsInv(k), NEW p \in Procs, NEW t \in Tables, DeleteRows(p, t) PROVE DocumentsInv(k)'
<1>1. /\ t \in {"postings", "chunks_index", "sections", "chunks", "documents"}
      /\ at[p] = Deleting[t]
  BY DEF DeleteRows, Deleting
<1>2. <<t, at[p]>> \in {<<"postings", "dropPostings">>, <<"chunks_index", "dropChunksIndex">>, <<"sections", "dropSections">>,
                        <<"chunks", "dropChunks">>, <<"documents", "dropDocuments">>}
  BY <1>1 DEF Deleting
<1>3. PICK s \in {"dropChunksIndex", "dropSections", "dropChunks", "dropDocuments", "findIndex", "removed"} :
              /\ at' = [at EXCEPT ![p] = s]
              /\ s = "removed" => p \notin found
              /\ <<t, s>> \in {<<"postings", "dropChunksIndex">>, <<"chunks_index", "dropSections">>, <<"sections", "dropChunks">>,
                               <<"chunks", "dropDocuments">>, <<"documents", "findIndex">>, <<"documents", "removed">>}
  <2>1. at' = [at EXCEPT ![p] = IF t = "documents" /\ p \notin found THEN "removed" ELSE Following[at[p]]]
    BY DEF DeleteRows, AfterDeletion, Goto
  <2>2. <<t, Following[at[p]]>> \in {<<"postings", "dropChunksIndex">>, <<"chunks_index", "dropSections">>, <<"sections", "dropChunks">>,
                                    <<"chunks", "dropDocuments">>, <<"documents", "findIndex">>}
    BY <1>2, FollowingIs
  <2>3. CASE t = "documents" /\ p \notin found
    BY <2>1, <2>3
  <2>4. CASE ~(t = "documents" /\ p \notin found)
    BY <2>1, <2>2, <2>4
  <2>5. QED
    BY <2>3, <2>4
<1>4. at[p] \in RemovalSteps \ {"find"} /\ Active(p) /\ at[p] \notin Scopes
  BY <1>2 DEF Active
<1>5. req[p].kb = k /\ req[p].old \in removing /\ req[p].old \in Docs
  BY <1>4, AtWork
<1>6. Takes(p, s)
  BY <1>3, <1>4, <1>5, AtWork DEF DeleteRows, Takes, engines, history
<1>7. UNCHANGED <<gob, cached, seen, faults, whole, uploaded, removing, removed>>
  BY DEF DeleteRows, engines, history
<1>8. found' \subseteq Procs /\ \A q \in Procs \ {p} : q \in found => q \in found'
  BY DEF DocumentsInv, Types, DeleteRows, AfterDeletion
<1>9. t # "documents" => found' = found
  BY DEF DeleteRows, AfterDeletion
<1>10. /\ rows' \in [Tables -> SUBSET ({k} \X Docs)]
       /\ \A x \in Tables : rows'[x] \in {rows[x], rows[x] \ {<<k, req[p].old>>}}
       /\ \A x \in Tables : x = t \/ (t = "documents" /\ x \in Columns) => <<k, req[p].old>> \notin rows'[x]
  <2>1. rows \in [Tables -> SUBSET ({k} \X Docs)]
    BY DEF DocumentsInv, Types
  <2>2. rows' = [x \in Tables |-> IF x = t \/ (t = "documents" /\ x \in Columns)
                                  THEN rows[x] \ {<<k, req[p].old>>} ELSE rows[x]]
    BY <1>5 DEF DeleteRows
  <2>3. QED
    BY <2>1, <2>2
<1>11. \A x \in Tables : \A d \in Docs :
          /\ <<k, d>> \in rows'[x] => <<k, d>> \in rows[x]
          /\ <<k, d>> \in rows[x] /\ d # req[p].old => <<k, d>> \in rows'[x]
  BY <1>5, <1>10
<1>12. \A q \in Procs \ {p} : at'[q] = at[q] /\ at[q] \notin Locked
  BY <1>3, <1>4 DEF DocumentsInv, Types, LockInv
<1>13. at'[p] = s /\ UNCHANGED <<req, home, deployment>>
  BY <1>3, <1>6 DEF DocumentsInv, Types, Takes
<1>14. /\ Types(k)' /\ RequestInv(k)' /\ EnginesInv(k)' /\ LockInv'
       /\ HomeInv(k)' /\ OwnInv(k)' /\ SeenInv'
  <2>1. \A x \in Tables : \A d \in Docs : <<k, d>> \in rows'[x] => home[d] = k
    BY <1>11 DEF DocumentsInv, HomeInv
  <2>2. \A d \in Docs : <<k, d>> \in rows'["documents"] => <<k, d>> \in rows["documents"]
    BY <1>11 DEF Tables
  <2>3. s \in Steps \ {"postings", "index", "dropIndex"} /\ found' \subseteq Procs
    BY <1>3, <1>8
  <2>4. QED
    BY <1>6, <1>7, <1>10, <2>1, <2>2, <2>3, StoringKeeps
<1>15. ReadableInv(k)'
  <2>1. \A q \in Procs : Finds(q)' => Finds(q) /\ req[q].old \in Docs
    BY <1>4, <1>12, <1>13 DEF DocumentsInv, RequestInv, Finds, Active
  <2>2. \A q \in Procs : at'[q] \notin {"sections", "documents"}
    BY <1>3, <1>12, <1>13
  <2>3. \A d \in Docs \ removing : <<k, d>> \in rows'["documents"] => <<k, d>> \in rows'["chunks"]
    BY <1>5, <1>11 DEF DocumentsInv, ReadableInv, Tables
  <2>4. \A q \in Procs : Finds(q)' /\ req[q].old \notin removing => <<k, req[q].old>> \in rows'["chunks"]
    BY <1>5, <1>11, <2>1 DEF DocumentsInv, ReadableInv, Tables
  <2>5. QED
    BY <1>7, <1>13, <2>2, <2>3, <2>4 DEF ReadableInv
<1>16. UploadedInv(k)'
  <2>1. \A d \in uploaded \ removing :
              /\ <<k, d>> \in rows'["documents"] /\ <<k, d>> \in rows'["chunks_index"]
              /\ <<k, d>> \in rows'["postings"] /\ <<k, d>> \in rows'["index"]
    BY <1>5, <1>11 DEF DocumentsInv, Types, UploadedInv, Tables
  <2>2. \A q \in Procs : at'[q] \notin ListedSteps
    BY <1>3, <1>12, <1>13 DEF ListedSteps, Findable, Indexed
  <2>3. QED
    BY <1>7, <2>1, <2>2 DEF UploadedInv, ListedSteps, Findable, Indexed
<1>17. RemovedInv(k)'
  <2>1. \A x \in Tables : \A d \in removed : <<k, d>> \in rows'[x] => x = "documents" /\ TagsAsked(deployment, k)
    BY <1>11 DEF DocumentsInv, Types, RemovedInv
  <2>2. whole[p] => p \in found /\ s # "removed"
    BY <1>2, <1>3 DEF DocumentsInv, RemovedInv, AfterPostings, AfterChunksIndex, AfterSections, AfterChunks, AfterDocuments
  <2>3. whole[p] => (s \notin AfterDocuments => p \in found')
    BY <1>3, <1>9, <2>2 DEF AfterDocuments
  <2>4. whole[p] =>
              /\ <<k, req[p].old>> \notin rows'["postings"]
              /\ s \in AfterChunksIndex => <<k, req[p].old>> \notin rows'["chunks_index"]
              /\ s \in AfterSections => <<k, req[p].old>> \notin rows'["sections"]
    BY <1>2, <1>3, <1>5, <1>10, <1>11 DEF DocumentsInv, RemovedInv, AfterPostings, AfterChunksIndex, AfterSections,
       AfterChunks, AfterDocuments, Tables
  <2>5. whole[p] =>
              /\ s \in AfterChunks => <<k, req[p].old>> \notin rows'["chunks"]
              /\ s \in AfterDocuments => /\ <<k, req[p].old>> \in rows'["documents"] => TagsAsked(deployment, k)
                                         /\ <<k, req[p].old>> \notin rows'["source"]
                                         /\ <<k, req[p].old>> \notin rows'["raw"]
    BY <1>2, <1>3, <1>5, <1>10, <1>11 DEF DocumentsInv, RemovedInv, AfterPostings, AfterChunksIndex, AfterSections,
       AfterChunks, AfterDocuments, Tables, Columns
  <2>6. \A q \in Procs \ {p} : at'[q] \notin RemovalSteps
    BY <1>12
  <2>7. s \in AfterPostings /\ s # "dropPostings"
    BY <1>3 DEF AfterPostings, AfterChunksIndex, AfterSections, AfterChunks, AfterDocuments
  <2>8. \A q \in Procs \ {p} : at'[q] \notin {"dropPostings"} \cup AfterPostings
    BY <2>6 DEF AfterPostings, AfterChunksIndex, AfterSections, AfterChunks, AfterDocuments
  <2>9. QED
    BY <1>7, <1>13, <2>1, <2>2, <2>3, <2>4, <2>5, <2>8 DEF RemovedInv, AfterPostings, AfterChunksIndex, AfterSections,
       AfterChunks, AfterDocuments
<1>18. QED
  BY <1>14, <1>15, <1>16, <1>17 DEF DocumentsInv

(* A tag update puts back a row that a removal may have deleted meanwhile.  *)
LEMMA RetagKeeps == ASSUME NEW k \in KBs, DocumentsInv(k), NEW p \in Procs, Retag(p) PROVE DocumentsInv(k)'
<1>1. at[p] = "retag" /\ Active(p) /\ at[p] \notin Scopes /\ at' = [at EXCEPT ![p] = "idle"]
  BY DEF Retag, Goto, Active
<1>2. req[p].job = "tags" /\ req[p].old \in Docs /\ home[req[p].old] = k /\ Finds(p)
  BY <1>1 DEF DocumentsInv, RequestInv, HomeInv, Finds
<1>3. Takes(p, "idle")
  BY <1>1, AtWork DEF Retag, Takes, engines, locals, history
<1>4. UNCHANGED <<gob, cached, seen, found, faults, whole, uploaded, removing, removed>>
  BY DEF Retag, engines, locals, history
<1>5. /\ rows' \in [Tables -> SUBSET ({k} \X Docs)]
      /\ \A x \in Tables \ {"documents"} : rows'[x] = rows[x]
      /\ rows'["documents"] = rows["documents"] \cup {<<k, req[p].old>>}
  <2>1. Insert("documents", k, req[p].old)
    BY <1>1, AtWork DEF Retag
  <2>2. "documents" \in Tables
    BY DEF Tables
  <2>3. QED
    BY <1>2, <2>1, <2>2, InsertIs DEF DocumentsInv
<1>6. at'[p] = "idle" /\ \A q \in Procs \ {p} : at'[q] = at[q]
  BY <1>1 DEF DocumentsInv, Types
<1>7. UNCHANGED <<req, home, deployment>>
  BY <1>3 DEF Takes
<1>8. \A x \in Tables : \A d \in Docs : <<k, d>> \in rows[x] => <<k, d>> \in rows'[x]
  BY <1>5
<1>9. /\ Types(k)' /\ RequestInv(k)' /\ EnginesInv(k)' /\ LockInv'
      /\ HomeInv(k)' /\ OwnInv(k)' /\ SeenInv'
  <2>1. \A x \in Tables : \A d \in Docs : <<k, d>> \in rows'[x] => home[d] = k
    BY <1>2, <1>5 DEF DocumentsInv, HomeInv
  <2>2. \A d \in Docs : <<k, d>> \in rows'["documents"] => <<k, d>> \in rows["documents"] \/ d = req[p].old
    BY <1>5
  <2>3. found' \subseteq Procs
    BY <1>4 DEF DocumentsInv, Types
  <2>4. QED
    BY <1>2, <1>3, <1>4, <1>5, <2>1, <2>2, <2>3, StoringKeeps
<1>10. ReadableInv(k)'
  <2>1. \A q \in Procs : Finds(q)' => Finds(q) /\ req[q].old \in Docs
    BY <1>6, <1>7 DEF DocumentsInv, RequestInv, Finds, Active
  <2>2. rows'["chunks"] = rows["chunks"]
    BY <1>5 DEF Tables
  <2>3. req[p].old \notin removing => <<k, req[p].old>> \in rows["chunks"]
    BY <1>2 DEF DocumentsInv, ReadableInv
  <2>4. \A d \in Docs \ removing : <<k, d>> \in rows'["documents"] => <<k, d>> \in rows["chunks"]
    BY <1>5, <2>3 DEF DocumentsInv, ReadableInv
  <2>5. QED
    BY <1>4, <1>6, <1>7, <2>1, <2>2, <2>4 DEF DocumentsInv, ReadableInv
<1>11. UploadedInv(k)'
  <2>1. \A q \in Procs : at'[q] \in ListedSteps => at[q] = at'[q] /\ req[q].doc \in Docs
    BY <1>6 DEF DocumentsInv, RequestInv, Active, ListedSteps, Findable, Indexed
  <2>2. \A q \in Procs : whole[q] /\ at'[q] \in ListedSteps =>
              /\ <<k, req[q].doc>> \in rows'["documents"]
              /\ at'[q] \in Findable => <<k, req[q].doc>> \in rows'["chunks_index"]
              /\ at'[q] \in Indexed => <<k, req[q].doc>> \in rows'["postings"]
              /\ at'[q] = "uploaded" => <<k, req[q].doc>> \in rows'["index"]
    BY <1>8, <2>1 DEF DocumentsInv, UploadedInv, Tables
  <2>3. \A d \in uploaded \ removing :
              /\ <<k, d>> \in rows'["documents"] /\ <<k, d>> \in rows'["chunks_index"]
              /\ <<k, d>> \in rows'["postings"] /\ <<k, d>> \in rows'["index"]
    BY <1>8 DEF DocumentsInv, Types, UploadedInv, Tables
  <2>4. QED
    BY <1>4, <1>7, <2>2, <2>3 DEF UploadedInv, ListedSteps, Findable, Indexed
<1>12. RemovedInv(k)'
  <2>1. TagsAsked(deployment, k)
    BY <1>1, <1>2, RequestIs DEF DocumentsInv, TagsAsked
  <2>2. \A x \in Tables \ {"documents"} : rows'[x] = rows[x]
    BY <1>5
  <2>3. \A q \in Procs : at'[q] \in RemovalSteps => at[q] = at'[q]
    BY <1>6
  <2>4. QED
    BY <1>4, <1>7, <2>1, <2>2, <2>3 DEF DocumentsInv, RemovedInv, AfterPostings, AfterChunksIndex, AfterSections, AfterChunks,
       AfterDocuments, Tables, Columns
<1>13. QED
  BY <1>9, <1>10, <1>11, <1>12 DEF DocumentsInv

-----------------------------------------------------------------------------
(* A request arrives; the process restarts.                                 *)

LEMMA BeginsKeeps ==
    ASSUME NEW k \in KBs, DocumentsInv(k), NEW p \in Procs,
           NEW r \in [job : Jobs, kb : KBs, doc : Docs \cup {"none"}, old : Docs \cup {"none"}], Begins(p, r),
           r.job \in Uploaders => r.doc \in Docs, r.doc \in Docs => Fresh(r.doc),
           r.job \in Finders => r.old \in Docs /\ Listed(r.kb, r.old)
    PROVE  DocumentsInv(k)'
<1>1. at[p] = "idle" /\ <<r.job, r.kb>> \in deployment.asks
  BY DEF Begins
<1>2. r.kb = k
  BY <1>1 DEF DocumentsInv, Types, Alone
<1>3. PICK s \in {"scope", "lock", "lockRemoval", "check"} :
              /\ at' = [at EXCEPT ![p] = s]
              /\ s = "scope" <=> k # Base
              /\ s = "lock" => r.job \in Uploaders
              /\ s = "lockRemoval" => r.job \in Removers
              /\ s = "check" => r.job \in {"replace", "tags"}
  <2>1. FirstStep(r.job) \in {"lock", "lockRemoval", "check"}
    BY DEF FirstStep, Jobs
  <2>2. /\ FirstStep(r.job) = "lock" => r.job \in Uploaders
        /\ FirstStep(r.job) = "lockRemoval" => r.job \in Removers
        /\ FirstStep(r.job) = "check" => r.job \in {"replace", "tags"}
    BY DEF FirstStep, Jobs
  <2>3. at' = [at EXCEPT ![p] = IF k = Base THEN FirstStep(r.job) ELSE "scope"]
    BY <1>2 DEF Begins, Goto
  <2>4. QED
    BY <2>1, <2>2, <2>3
<1>4. at'[p] = s /\ req'[p] = r /\ \A q \in Procs \ {p} : at'[q] = at[q] /\ req'[q] = req[q]
  BY <1>3 DEF DocumentsInv, Types, Begins
<1>5. UNCHANGED <<rows, gob, cached, ingestKB, searchKB, chunkKB, mu, found, deployment, faults, uploaded, removing, removed>>
  BY DEF Begins, database, engines
<1>6. /\ \A d \in Docs : home[d] = k => home'[d] = k
      /\ r.doc \in Docs => home[r.doc] = "none" /\ home'[r.doc] = k
  BY <1>2 DEF DocumentsInv, Types, Begins, Fresh
<1>7. k # "none"
  BY NamesAssumption
<1>8. Types(k)'
  <2>1. at' \in [Procs -> Steps] /\ again' \subseteq Procs
    BY <1>3 DEF DocumentsInv, Types, Begins
  <2>2. req' \in [Procs -> [job : Jobs \cup {"none"}, kb : {Base, k}, doc : Docs \cup {"none"}, old : Docs \cup {"none"}]]
    BY <1>2 DEF DocumentsInv, Types, Begins
  <2>3. seen' \in [Procs -> SUBSET Docs] /\ whole' \in [Procs -> BOOLEAN]
    BY DEF DocumentsInv, Types, Begins
  <2>4. home' \in [Docs -> {"none", k}]
    BY <1>2 DEF DocumentsInv, Types, Begins
  <2>5. QED
    BY <1>5, <2>1, <2>2, <2>3, <2>4 DEF DocumentsInv, Types
<1>9. RequestInv(k)'
  BY <1>1, <1>2, <1>3, <1>4, <1>5 DEF DocumentsInv, RequestInv, Active
<1>10. EnginesInv(k)'
  <2>1. s \notin Scopes => searchKB = k /\ chunkKB = k
    BY <1>3 DEF DocumentsInv, Types
  <2>2. QED
    BY <1>3, <1>4, <1>5, <2>1 DEF DocumentsInv, EnginesInv, Pointed, Active
<1>11. LockInv'
  BY <1>1, <1>3, <1>4, <1>5 DEF DocumentsInv, LockInv
<1>12. /\ \A t \in Tables : \A d \in Docs : <<k, d>> \in rows[t] => home[d] = k
       /\ \A d \in uploaded \cup removing : home[d] = k
       /\ \A q \in Procs : Uploads(q) => req[q].doc \in Docs /\ home[req[q].doc] = k
       /\ \A q \in Procs : Finds(q) => req[q].old \in Docs /\ home[req[q].old] = k
  BY DEF DocumentsInv, RequestInv, HomeInv, Uploads, Finds, Active
<1>13. r.job \in Finders => r.old \in Docs /\ <<k, r.old>> \in rows["documents"] /\ home[r.old] = k
  BY <1>2, <1>12 DEF Listed, Tables
<1>14. HomeInv(k)'
  <2>1. \A t \in Tables : \A x \in rows[t] : x[2] \in Docs /\ home[x[2]] = k
    BY DEF DocumentsInv, Types, HomeInv
  <2>2. \A q \in Procs : \A d \in seen'[q] : d \in Docs /\ home[d] = k
    BY DEF DocumentsInv, Types, HomeInv, Begins
  <2>3. \A d \in uploaded \cup removing : d \in Docs /\ home[d] = k
    BY <1>12 DEF DocumentsInv, Types
  <2>4. \A q \in Procs : Active(q)' /\ req'[q].job \in Uploaders => req'[q].doc \in Docs /\ home'[req'[q].doc] = k
    <3>1. \A q \in Procs \ {p} : Active(q) /\ req[q].job \in Uploaders => req[q].doc \in Docs /\ home[req[q].doc] = k
      BY DEF DocumentsInv, RequestInv, HomeInv
    <3>2. QED
      BY <1>4, <1>6, <3>1 DEF Active
  <2>5. \A q \in Procs : Finds(q)' => req'[q].old \in Docs /\ home'[req'[q].old] = k
    BY <1>4, <1>6, <1>12, <1>13 DEF Finds, Active
  <2>6. QED
    BY <1>5, <1>6, <2>1, <2>2, <2>3, <2>4, <2>5 DEF HomeInv
<1>15. OwnInv(k)'
  <2>1. \A q \in Procs \ {p} : (Uploads(q)' <=> Uploads(q)) /\ (Finds(q)' <=> Finds(q))
    BY <1>4 DEF Uploads, Finds, Active
  <2>2. r.job \in Uploaders =>
           /\ r.doc \notin uploaded \cup removing /\ <<k, r.doc>> \notin rows["documents"]
           /\ \A q \in Procs \ {p} : Uploads(q) => req[q].doc # r.doc
           /\ \A q \in Procs \ {p} : Finds(q) => req[q].old # r.doc
           /\ r.job \in Finders => r.old # r.doc
    BY <1>6, <1>7, <1>12, <1>13 DEF Tables
  <2>3. r.job \in Finders => \A q \in Procs \ {p} : Uploads(q) /\ at[q] \in Unlisted => req[q].doc # r.old
    BY <1>13 DEF DocumentsInv, OwnInv
  <2>4. (Uploads(p)' => r.job \in Uploaders) /\ (Finds(p)' => r.job \in Finders)
    BY <1>4 DEF Uploads, Finds
  <2>5. ASSUME NEW q \in Procs, q # p, Uploads(q)
        PROVE  /\ req[q].doc \notin uploaded \cup removing
               /\ \A x \in Procs \ {q} : Uploads(x)' => req'[x].doc # req[q].doc
               /\ at[q] \in Unlisted => /\ <<k, req[q].doc>> \notin rows["documents"]
                                        /\ \A x \in Procs : Finds(x)' => req'[x].old # req[q].doc
    BY <1>4, <2>1, <2>2, <2>3, <2>4, <2>5 DEF DocumentsInv, OwnInv
  <2>6. ASSUME Uploads(p)'
        PROVE  /\ r.doc \notin uploaded \cup removing
               /\ \A x \in Procs \ {p} : Uploads(x)' => req'[x].doc # r.doc
               /\ <<k, r.doc>> \notin rows["documents"]
               /\ \A x \in Procs : Finds(x)' => req'[x].old # r.doc
    BY <1>4, <2>1, <2>2, <2>4, <2>6
  <2>7. QED
    BY <1>4, <1>5, <2>1, <2>5, <2>6 DEF OwnInv
<1>16. ReadableInv(k)'
  <2>1. \A q \in Procs \ {p} : Finds(q)' <=> Finds(q)
    BY <1>4 DEF Finds, Active
  <2>2. Finds(p)' /\ r.old \notin removing => <<k, r.old>> \in rows["chunks"]
    BY <1>4, <1>13 DEF DocumentsInv, ReadableInv, Finds
  <2>3. QED
    BY <1>3, <1>4, <1>5, <2>1, <2>2 DEF DocumentsInv, ReadableInv
<1>17. \A q \in Procs : at'[q] \in Locked => /\ at'[q] = at[q] /\ req'[q] = req[q] /\ seen'[q] = seen[q]
                                             /\ whole'[q] = whole[q]
  <2>1. \A q \in Procs \ {p} : seen'[q] = seen[q] /\ whole'[q] = whole[q]
    BY DEF DocumentsInv, Types, Begins
  <2>2. QED
    BY <1>3, <1>4, <2>1
<1>18. SeenInv'
  BY <1>5, <1>17 DEF DocumentsInv, SeenInv
<1>19. UploadedInv(k)'
  BY <1>5, <1>17 DEF DocumentsInv, UploadedInv, ListedSteps, Findable, Indexed
<1>20. RemovedInv(k)'
  BY <1>5, <1>17 DEF DocumentsInv, RemovedInv, AfterPostings, AfterChunksIndex, AfterSections, AfterChunks, AfterDocuments
<1>21. QED
  BY <1>8, <1>9, <1>10, <1>11, <1>14, <1>15, <1>16, <1>18, <1>19, <1>20 DEF DocumentsInv

LEMMA BeginKeeps == ASSUME NEW k \in KBs, DocumentsInv(k), NEW p \in Procs, Begin(p) PROVE DocumentsInv(k)'
<1>1. PICK r \in [job : Jobs, kb : KBs, doc : Docs \cup {"none"}, old : Docs \cup {"none"}] :
              /\ Begins(p, r)
              /\ r.job \in Uploaders => r.doc \in Docs
              /\ r.doc \in Docs => Fresh(r.doc)
              /\ r.job \in Finders => r.old \in Docs /\ Listed(r.kb, r.old)
  <2>1. PICK l \in KBs, d \in Docs :
              \/ \E job \in {"web", "engine"} : BeginUpload(p, job, l, d)
              \/ BeginRemove(p, l, d)
              \/ \E new \in Docs : BeginReplace(p, l, d, new)
              \/ BeginTags(p, l, d)
    BY DEF Begin
  <2>2. CASE \E job \in {"web", "engine"} : BeginUpload(p, job, l, d)
    BY <2>2 DEF BeginUpload, Jobs
  <2>3. CASE BeginRemove(p, l, d)
    BY <2>3, NamesAssumption DEF BeginRemove, Jobs
  <2>4. CASE \E new \in Docs : BeginReplace(p, l, d, new)
    BY <2>4 DEF BeginReplace, Jobs
  <2>5. CASE BeginTags(p, l, d)
    BY <2>5, NamesAssumption DEF BeginTags, Jobs
  <2>6. QED
    BY <2>1, <2>2, <2>3, <2>4, <2>5
<1>2. QED
  BY <1>1, BeginsKeeps

(* A named knowledge base whose VECTOR.gob a restart finds again is ruled   *)
(* out by Alone.                                                            *)
LEMMA RestartKeeps == ASSUME NEW k \in KBs, DocumentsInv(k), Restart PROVE DocumentsInv(k)'
<1>1. /\ \A p \in Procs : at'[p] = "idle"
      /\ mu' = Free /\ cached' = {} /\ ingestKB' = Base /\ searchKB' = Base /\ chunkKB' = Base
      /\ UNCHANGED <<rows, gob, req, seen, deployment, home, whole, uploaded, removing, removed>>
  BY DEF Restart, database, history
<1>2. Types(k)'
  <2>1. faults' \in Nat /\ at' \in [Procs -> Steps] /\ again' \subseteq Procs /\ found' \subseteq Procs
    BY FaultIs DEF Restart, DocumentsInv
  <2>2. QED
    BY <1>1, <2>1 DEF DocumentsInv, Types
<1>3. EnginesInv(k)'
  <2>1. "crash" \in deployment.faults
    BY DEF Restart, Fault
  <2>2. gob = {} \/ k = Base
    BY <2>1 DEF DocumentsInv, Types, EnginesInv, Alone
  <2>3. QED
    BY <1>1, <2>2 DEF DocumentsInv, EnginesInv, Pointed, Active
<1>4. RequestInv(k)' /\ LockInv' /\ SeenInv'
  BY <1>1, NamesAssumption DEF RequestInv, LockInv, SeenInv, Active
<1>5. HomeInv(k)' /\ OwnInv(k)' /\ ReadableInv(k)'
  BY <1>1 DEF DocumentsInv, HomeInv, OwnInv, ReadableInv, Uploads, Finds, Active
<1>6. UploadedInv(k)' /\ RemovedInv(k)'
  BY <1>1 DEF DocumentsInv, UploadedInv, RemovedInv, ListedSteps, Findable, Indexed, AfterPostings, AfterChunksIndex,
         AfterSections, AfterChunks, AfterDocuments
<1>7. QED
  BY <1>2, <1>3, <1>4, <1>5, <1>6 DEF DocumentsInv

LEMMA StutterKeeps == ASSUME NEW k \in KBs, DocumentsInv(k), UNCHANGED vars PROVE DocumentsInv(k)'
<1>1. UNCHANGED <<rows, gob, cached, ingestKB, searchKB, chunkKB, mu, at, req, seen, again, found, deployment, faults,
                  home, whole, uploaded, removing, removed>>
  BY DEF vars, database, engines, locals, history
<1>2. Types(k)' /\ RequestInv(k)' /\ EnginesInv(k)' /\ LockInv'
  BY <1>1 DEF DocumentsInv, Types, RequestInv, EnginesInv, LockInv, Active, Pointed
<1>3. HomeInv(k)' /\ OwnInv(k)' /\ ReadableInv(k)' /\ SeenInv'
  BY <1>1 DEF DocumentsInv, HomeInv, OwnInv, ReadableInv, SeenInv, Active, Uploads, Finds
<1>4. UploadedInv(k)' /\ RemovedInv(k)'
  BY <1>1 DEF DocumentsInv, UploadedInv, RemovedInv
<1>5. QED
  BY <1>2, <1>3, <1>4 DEF DocumentsInv

-----------------------------------------------------------------------------
(* The theorems.                                                            *)

LEMMA StepKeeps == ASSUME NEW k \in KBs, DocumentsInv(k), [Next]_vars PROVE DocumentsInv(k)'
<1>1. ASSUME NEW p \in Procs, Step(p) PROVE DocumentsInv(k)'
  <2>1. CASE \E t \in Tables : WriteRow(p, t) \/ WriteFails(p, t) \/ ReadEntries(p, t) \/ ReadFails(p, t)
    BY <2>1, WriteRowKeeps, WriteFailsKeeps, ReadKeeps, ReadFailsKeeps
  <2>2. CASE IndexKept(p) \/ \E t \in Tables : DeleteRows(p, t) \/ DeleteFails(p, t)
    BY <2>2, DeleteRowsKeeps, DeletionFailsKeeps
  <2>3. CASE Scope(p) \/ SetIngestKB(p) \/ SetSearchKB(p) \/ SetChunkKB(p)
    BY <2>3, ScopeKeeps, SetKeeps
  <2>4. CASE Lock(p) \/ AnswerFailed(p) \/ ParseFails(p) \/ CheckListed(p)
    BY <2>4, QuietKeeps
  <2>5. CASE AnswerUploaded(p) \/ AnswerRemoved(p) \/ FindForRemoval(p) \/ FindFails(p)
    BY <2>5, AnswerUploadedKeeps, AnswerRemovedKeeps, FindKeeps
  <2>6. CASE UpdateInvertedIndex(p) \/ SaveVectors(p) \/ UpdateIndex(p) \/ RemoveFromIndex(p) \/ Retag(p)
    BY <2>6, UpdateInvertedIndexKeeps, SaveVectorsKeeps, UpdateIndexKeeps, RemoveFromIndexKeeps, RetagKeeps
  <2>7. QED
    BY <1>1, <2>1, <2>2, <2>3, <2>4, <2>5, <2>6 DEF Step
<1>2. QED
  BY <1>1, RestartKeeps, BeginKeeps, StutterKeeps DEF Next

(* The deployment, and so its knowledge base, never changes.                *)
Inv == \E k \in KBs : DocumentsInv(k)

LEMMA InvHolds == ASSUME OneKB PROVE Spec => []Inv
<1>1. Init => Inv
  BY InitDocuments DEF Inv
<1>2. Inv /\ [Next]_vars => Inv'
  BY StepKeeps DEF Inv
<1>3. QED
  BY <1>1, <1>2, PTL DEF Spec

(* With one knowledge base every row of a document is stored in the         *)
(* knowledge base it was uploaded for, whatever fails or crashes: WithKB    *)
(* points the engines before any statement of a request is sent.            *)
THEOREM WritesAreScoped == ASSUME OneKB PROVE Spec => []ScopedWrites
<1>1. Inv => ScopedWrites
  <2> SUFFICES ASSUME NEW k \in KBs, DocumentsInv(k) PROVE ScopedWrites
    BY DEF Inv
  <2>1. ASSUME NEW t \in Tables, NEW r \in rows[t] PROVE home[r[2]] = r[1]
    BY DEF DocumentsInv, Types, HomeInv
  <2>2. QED
    BY <2>1 DEF ScopedWrites
<1>2. QED
  BY <1>1, InvHolds, PTL

(* With one knowledge base a listed document that nobody began to remove    *)
(* has its chunks, although uploads fail and crash at any statement and     *)
(* tag updates write back rows.                                             *)
THEOREM ListedCanBeRead == ASSUME OneKB PROVE Spec => []ListedIsReadable
<1>1. Inv => ListedIsReadable
  <2> SUFFICES ASSUME NEW k \in KBs, DocumentsInv(k) PROVE ListedIsReadable
    BY DEF Inv
  <2>1. \A r \in rows["documents"] : r[2] \in Docs /\ r = <<k, r[2]>>
    BY DEF DocumentsInv, Types, Tables
  <2>2. QED
    BY <2>1 DEF DocumentsInv, ReadableInv, ListedIsReadable
<1>2. QED
  BY <1>1, InvHolds, PTL

(* With one knowledge base what an answered upload has stored stays in all  *)
(* four tables until a removal: the inverted index and INDEX.md are read    *)
(* and rewritten under one hold of Store.mu, so no other upload or removal  *)
(* drops its entries.                                                       *)
THEOREM UploadedIsFound == ASSUME OneKB PROVE Spec => []FoundWhenUploaded
<1>1. Inv => FoundWhenUploaded
  <2> SUFFICES ASSUME NEW k \in KBs, DocumentsInv(k) PROVE FoundWhenUploaded
    BY DEF Inv
  <2>1. \A d \in uploaded : home[d] = k
    BY DEF DocumentsInv, HomeInv
  <2>2. QED
    BY <2>1 DEF DocumentsInv, UploadedInv, FoundWhenUploaded
<1>2. QED
  BY <1>1, InvHolds, PTL

(* Nothing of a removed document is left or comes back, with one knowledge  *)
(* base, but the metadata row where tags are asked for: a tag update writes *)
(* back what it read before the removal.                                    *)
THEOREM RemovedStaysGone == ASSUME OneKB PROVE Spec => []RemovedIsGone
<1>1. Inv => RemovedIsGone
  <2> SUFFICES ASSUME NEW k \in KBs, DocumentsInv(k) PROVE RemovedIsGone
    BY DEF Inv
  <2>1. \A d \in removed : home[d] = k
    BY DEF DocumentsInv, Types, HomeInv
  <2>2. QED
    BY <2>1 DEF DocumentsInv, RemovedInv, RemovedIsGone, Rewritten, TagsAsked
<1>2. QED
  BY <1>1, InvHolds, PTL

-----------------------------------------------------------------------------
(* Archives and deletions. What follows holds of any number of knowledge    *)
(* bases, requests and documents where uploads come through the management  *)
(* page, or where nobody scopes the Store: the engine's uploads and         *)
(* replacements may split a document over two knowledge bases.              *)

PageUploads(x) == \A ask \in x.asks : ask[1] \in {"web", "remove", "tags"}
Unscoped(x) == \A ask \in x.asks : ask[2] = Base
Unsplit == \A x \in Deployments : PageUploads(x) \/ Unscoped(x)

OfDocument == {"documents", "chunks", "sections", "chunks_index", "raw", "source"}
AdminSteps ==
    [none |-> {"none"},
     export |-> {"list", "index", "postings", "next"} \cup OfDocument,
     import |-> {"create", "index", "postings", "next"} \cup OfDocument,
     delete |-> {"postings", "chunks_index", "sections", "chunks", "documents", "row"}]
AdminStep == {"none", "list", "create", "index", "postings", "next", "row"} \cup OfDocument

ArchiveTypes ==
    /\ rows \in [Tables -> SUBSET (KBs \X Docs)] /\ {ingestKB, searchKB, chunkKB} \subseteq KBs
    /\ at \in [Procs -> Steps] /\ seen \in [Procs -> SUBSET Docs]
    /\ req \in [Procs -> [job : Jobs \cup {"none"}, kb : KBs, doc : Docs \cup {"none"}, old : Docs \cup {"none"}]]
    /\ deployment \in Deployments
    /\ PageUploads(deployment) \/ (Unscoped(deployment) /\ ingestKB = Base)
    /\ home \in [Docs -> KBs \cup {"none"}] /\ removing \subseteq Docs /\ torn \subseteq Docs
    /\ admin \in [job : {"none", "export", "import", "delete"}, kb : KBs, at : AdminStep,
                  left : SUBSET Docs, doc : Docs \cup {"none"}, clean : BOOLEAN]
    /\ zip \in [ready : BOOLEAN, files : SUBSET Tables, entries : [Tables -> SUBSET Docs], whole : {zip.whole}]

(* What the requests and the administrator's are about fits their steps.    *)
Fitting(p) ==
    Active(p) =>
        /\ <<req[p].job, req[p].kb>> \in deployment.asks
        /\ req[p].job \in Uploaders => req[p].doc \in Docs /\ home[req[p].doc] = req[p].kb
        /\ req[p].job \in Finders => req[p].old \in Docs /\ home[req[p].old] # "none"
        /\ at[p] \in Scopes => req[p].kb # Base
        /\ at[p] \in UploadSteps \cup {"lock"} => req[p].job \in Uploaders
        /\ at[p] \in RemovalSteps \cup {"lockRemoval"} => req[p].job \in Removers
        /\ at[p] = "check" => req[p].job \in {"replace", "tags"}
        /\ at[p] = "retag" => req[p].job = "tags"
        /\ at[p] \in RemovalSteps \ {"find"} => req[p].old \in removing
AdminFits ==
    /\ admin.at \in AdminSteps[admin.job]
    /\ admin.job \in {"export", "import"} /\ admin.at \in OfDocument => admin.doc \in Docs

(* Until an upload has listed its document nobody else knows of it.         *)
Known == {r[2] : r \in rows["documents"]} \cup zip.entries["documents"] \cup admin.left \cup {admin.doc}
KnownInv ==
    /\ \A d \in Known \cap Docs : home[d] # "none"
    /\ \A p \in Procs : Uploads(p) =>
         /\ \A q \in Procs \ {p} : Uploads(q) => req[q].doc # req[p].doc
         /\ at[p] \in Unlisted => /\ req[p].doc \notin Known
                                  /\ \A q \in Procs : Finds(q) => req[q].old # req[p].doc

(* Chunks are written before the chunks index and deleted after it.         *)
Excepted == removing \cup torn
HasChunks == {"sections", "documents", "chunks_index"}
ChunksInv ==
    /\ \A k \in KBs : \A d \in Docs \ Excepted : <<k, d>> \in rows["chunks_index"] => <<k, d>> \in rows["chunks"]
    /\ \A p \in Procs : at[p] \in HasChunks /\ req[p].doc \notin Excepted =>
          <<req[p].kb, req[p].doc>> \in rows["chunks"]

(* A deletion tears every upload it meets.                                  *)
DeletionInv ==
    admin.job = "delete" =>
        /\ \A p \in Procs : Uploads(p) /\ req[p].kb = admin.kb => req[p].doc \in torn
        /\ admin.at \notin {"postings", "chunks_index"} =>
              \A d \in Docs \ Excepted : <<admin.kb, d>> \notin rows["chunks_index"]

(* An archive has the chunks to its chunks indexes, and an import has       *)
(* written them first.                                                      *)
ZipInv ==
    /\ \A d \in zip.entries["chunks_index"] \ Excepted : d \in zip.entries["chunks"]
    /\ admin.at \in {"sections", "chunks_index"} /\ admin.doc \in Docs \ Excepted =>
          /\ admin.job = "import" /\ admin.doc \in zip.entries["chunks"] => <<admin.kb, admin.doc>> \in rows["chunks"]
          /\ admin.job = "export" /\ <<admin.kb, admin.doc>> \in rows["chunks"] => admin.doc \in zip.entries["chunks"]

RequestsFit == \A p \in Procs : Fitting(p)
ArchiveInv ==
    ArchiveTypes /\ RequestsFit /\ AdminFits /\ KnownInv /\ ChunksInv /\ DeletionInv /\ ZipInv

USE DEF OfDocument, AdminStep, HasChunks

LEMMA ArchiveStarts == ASSUME Unsplit, ArchiveInit PROVE ArchiveInv
<1>1. ArchiveTypes
  <2>1. rows \in [Tables -> SUBSET (KBs \X Docs)] /\ seen \in [Procs -> SUBSET Docs] /\ at \in [Procs -> Steps]
    BY DEF ArchiveInit, Init
  <2>2. /\ req \in [Procs -> [job : Jobs \cup {"none"}, kb : KBs, doc : Docs \cup {"none"}, old : Docs \cup {"none"}]]
        /\ home \in [Docs -> KBs \cup {"none"}]
    BY NamesAssumption DEF ArchiveInit, Init, NoRequest
  <2>3. /\ deployment \in Deployments /\ {ingestKB, searchKB, chunkKB} \subseteq KBs
        /\ PageUploads(deployment) \/ (Unscoped(deployment) /\ ingestKB = Base)
    BY NamesAssumption DEF ArchiveInit, Init, Unsplit
  <2>4. /\ removing \subseteq Docs /\ torn \subseteq Docs
        /\ admin \in [job : {"none", "export", "import", "delete"}, kb : KBs, at : AdminStep,
                      left : SUBSET Docs, doc : Docs \cup {"none"}, clean : BOOLEAN]
    BY NamesAssumption DEF ArchiveInit, Init, AtRest
  <2>5. zip \in [ready : BOOLEAN, files : SUBSET Tables, entries : [Tables -> SUBSET Docs], whole : {zip.whole}]
    BY DEF ArchiveInit, NoArchive, NoEntries
  <2> QED BY <2>1, <2>2, <2>3, <2>4, <2>5 DEF ArchiveTypes
<1>2. RequestsFit /\ AdminFits
  BY DEF ArchiveInit, Init, RequestsFit, Fitting, Active, AdminFits, AdminSteps, AtRest
<1>3. KnownInv
  BY NamesAssumption DEF ArchiveInit, Init, KnownInv, Known, Uploads, NoArchive, NoEntries, AtRest, Tables
<1>4. ChunksInv /\ DeletionInv /\ ZipInv
  BY DEF ArchiveInit, Init, ChunksInv, DeletionInv, ZipInv, NoArchive, NoEntries, AtRest, Tables
<1> QED BY <1>1, <1>2, <1>3, <1>4 DEF ArchiveInv

-----------------------------------------------------------------------------
(* The steps of the requests: where they go.                                *)

Wrote(p) == WriteRow(p, "chunks")

(* A step of p leaves everybody's request as it is, and takes p to a step   *)
(* that fits.                                                               *)
Goes(p) ==
    /\ req' = req /\ home' = home /\ deployment' = deployment
    /\ \A q \in Procs \ {p} : at'[q] = at[q]
    /\ at' \in [Procs -> Steps]
    /\ removing \subseteq removing' /\ removing' \subseteq Docs
    /\ Active(p) /\ Fitting(p)'
    /\ Uploads(p)' => Uploads(p) /\ (at'[p] \in Unlisted => at[p] \in Unlisted)
    /\ at'[p] \in HasChunks => at[p] \in HasChunks \/ Wrote(p)

LEMMA ContinueGoes ==
    ASSUME ArchiveTypes, NEW p \in Procs, Fitting(p), at[p] \in DOMAIN Following, Continue(p),
           at[p] = "chunks" => Wrote(p),
           UNCHANGED <<req, home, deployment>>,
           removing' \in {removing, removing \cup {req[p].old}},
           at[p] = "find" => req[p].old \in removing',
           removing' # removing => req[p].job \in Finders
    PROVE  Goes(p)
<1>1. at[p] \in Steps \ {"idle", "check", "retag", "chunk", "abort", "uploaded", "removed"}
  BY DEF ArchiveTypes, Following, Scoping, Upload, Removal
<1>2. at' = [at EXCEPT ![p] = Following[at[p]]] /\ Active(p)
  BY <1>1 DEF Continue, Goto, Active
<1>3. removing \subseteq removing' /\ removing' \subseteq Docs
  BY <1>2 DEF ArchiveTypes, Fitting
<1>4. at'[p] = Following[at[p]] /\ \A q \in Procs \ {p} : at'[q] = at[q]
  BY <1>2 DEF ArchiveTypes
<1>5. at' \in [Procs -> Steps]
  BY <1>1, <1>2, FollowingIs DEF ArchiveTypes
<1>6. at'[p] \in HasChunks => at[p] \in HasChunks \/ Wrote(p)
  BY <1>1, <1>4, FollowingIs
<1>7. Uploads(p)' => Uploads(p) /\ (at'[p] \in Unlisted => at[p] \in Unlisted)
  BY <1>1, <1>4, FollowingIs DEF Uploads
<1>8. Fitting(p)'
  BY <1>1, <1>2, <1>3, <1>4, FollowingIs DEF Fitting, Active
<1> QED BY <1>2, <1>3, <1>4, <1>5, <1>6, <1>7, <1>8 DEF Goes

(* The steps that go elsewhere.                                             *)
LEMMA GotoGoes ==
    ASSUME ArchiveTypes, NEW p \in Procs, Fitting(p), NEW s \in Steps \ Scopes, Goto(p, s), Active(p),
           UNCHANGED <<req, home, deployment, removing>>,
           s \notin HasChunks, req[p].job \in Uploaders => at[p] # "abort" \/ s = "idle",
           s \in UploadSteps \cup {"lock"} => req[p].job \in Uploaders,
           s \in RemovalSteps \cup {"lockRemoval"} => req[p].job \in Removers,
           s = "check" => req[p].job \in {"replace", "tags"},
           s = "retag" => req[p].job = "tags",
           s \in RemovalSteps \ {"find"} => req[p].old \in removing,
           s \in Unlisted /\ req[p].job \in Uploaders => at[p] \in Unlisted
    PROVE  Goes(p)
<1>1. at' = [at EXCEPT ![p] = s]
  BY DEF Goto
<1>2. at'[p] = s /\ at' \in [Procs -> Steps] /\ \A q \in Procs \ {p} : at'[q] = at[q]
  BY <1>1 DEF ArchiveTypes
<1>3. Fitting(p)'
  BY <1>2 DEF Fitting, Active
<1>4. Uploads(p)' => Uploads(p) /\ (at'[p] \in Unlisted => at[p] \in Unlisted)
  BY <1>2 DEF Uploads, Active
<1> QED BY <1>2, <1>3, <1>4 DEF Goes, ArchiveTypes

LEMMA EndScopingStays ==
    ASSUME ArchiveTypes, NEW p \in Procs, Fitting(p), at[p] \in Scopes, EndScoping(p),
           UNCHANGED <<req, home, deployment, removing>>
    PROVE  Goes(p)
<1>1. req[p].job \in Jobs /\ Active(p)
  <2>1. Active(p) /\ <<req[p].job, req[p].kb>> \in deployment.asks
    BY DEF Fitting, Active
  <2> QED BY <2>1, DeploymentsAssumption DEF ArchiveTypes
<1>2. CASE p \in again
  <2>1. at' = [at EXCEPT ![p] = "scope"]
    BY <1>2 DEF EndScoping, Goto
  <2>2. at'[p] = "scope" /\ at' \in [Procs -> Steps] /\ \A q \in Procs \ {p} : at'[q] = at[q]
    BY <2>1 DEF ArchiveTypes
  <2>3. Fitting(p)'
    BY <1>1, <2>2 DEF Fitting, Active
  <2> QED BY <1>1, <2>2, <2>3 DEF Goes, ArchiveTypes, Uploads
<1>3. CASE p \notin again
  <2>1. Goto(p, FirstStep(req[p].job))
    BY <1>3 DEF EndScoping
  <2>2. /\ req[p].job \in {"web", "engine"} => FirstStep(req[p].job) = "lock"
        /\ req[p].job = "remove" => FirstStep(req[p].job) = "lockRemoval"
        /\ req[p].job \in {"replace", "tags"} => FirstStep(req[p].job) = "check"
    BY DEF FirstStep
  <2>3. FirstStep(req[p].job) \in {"lock", "lockRemoval", "check"}
    BY <1>1, <2>2 DEF Jobs
  <2> DEFINE s == FirstStep(req[p].job)
  <2> HIDE DEF s
  <2>4. /\ s \in {"lock", "lockRemoval", "check"} /\ Goto(p, s)
        /\ s = "lock" => req[p].job \in Uploaders
        /\ s = "lockRemoval" => req[p].job = "remove"
        /\ s = "check" => req[p].job \in {"replace", "tags"}
    BY <1>1, <2>1, <2>2, <2>3 DEF Jobs, s
  <2> QED BY <1>1, <2>4, GotoGoes
<1> QED BY <1>2, <1>3

LEMMA StepGoes == ASSUME ArchiveInv, NEW p \in Procs, Step(p) PROVE Goes(p)
<1> DEFINE Same == UNCHANGED <<req, home, deployment, removing>>
<1>1. ArchiveTypes /\ Fitting(p)
  BY DEF ArchiveInv, RequestsFit
<1>2. CASE Scope(p) \/ SetIngestKB(p) \/ SetSearchKB(p) \/ SetChunkKB(p)
  <2>1. at[p] \in Scopes /\ Same /\ (EndScoping(p) \/ (at[p] # "chunk" /\ Continue(p)))
    BY <1>2 DEF Scope, SetIngestKB, SetSearchKB, SetChunkKB, locals, history
  <2>2. CASE EndScoping(p)
    BY <1>1, <2>1, <2>2, EndScopingStays
  <2>3. CASE at[p] # "chunk" /\ Continue(p)
    <3>1. at[p] \in DOMAIN Following
      BY <2>1, <2>3 DEF Following, Scoping
    <3> QED BY <1>1, <2>1, <2>3, <3>1, ContinueGoes
  <2> QED BY <2>1, <2>2, <2>3
<1>3. CASE AnswerUploaded(p) \/ AnswerFailed(p)
  <2>1. at[p] \in {"uploaded", "abort"} /\ Goto(p, "idle") /\ Same
    BY <1>3 DEF AnswerUploaded, AnswerFailed, Unlock, locals
  <2> QED BY <1>1, <2>1, GotoGoes DEF Active
<1>4. CASE AnswerRemoved(p)
  <2>1. /\ at[p] = "removed" /\ Same
        /\ Goto(p, IF req[p].job = "replace" THEN "lock" ELSE "idle")
    BY <1>4 DEF AnswerRemoved, Unlock, locals
  <2>2. CASE req[p].job = "replace"
    BY <1>1, <2>1, <2>2, GotoGoes DEF Active
  <2>3. CASE req[p].job # "replace"
    BY <1>1, <2>1, <2>3, GotoGoes DEF Active
  <2> QED BY <2>2, <2>3
<1>5. CASE ParseFails(p)
  <2>1. at[p] = "chunks" /\ Goto(p, "abort") /\ Same
    BY <1>5 DEF ParseFails, locals, history
  <2> QED BY <1>1, <2>1, GotoGoes DEF Active
<1>6. CASE CheckListed(p)
  <2>1. at[p] = "check" /\ Same
    BY <1>6 DEF CheckListed, locals, history
  <2>2. \/ Goto(p, "idle")
        \/ Goto(p, "lockRemoval") /\ req[p].job = "replace"
        \/ Goto(p, "retag") /\ req[p].job # "replace"
    BY <1>6 DEF CheckListed
  <2>3. req[p].job \in {"replace", "tags"} /\ Active(p)
    BY <1>1, <2>1 DEF Fitting, Active
  <2>4. CASE Goto(p, "idle")
    BY <1>1, <2>1, <2>3, <2>4, GotoGoes
  <2>5. CASE Goto(p, "lockRemoval") /\ req[p].job = "replace"
    BY <1>1, <2>1, <2>3, <2>5, GotoGoes
  <2>6. CASE Goto(p, "retag") /\ req[p].job # "replace"
    BY <1>1, <2>1, <2>3, <2>6, GotoGoes
  <2> QED BY <2>2, <2>4, <2>5, <2>6
<1>7. CASE Retag(p)
  <2>1. at[p] = "retag" /\ Goto(p, "idle") /\ Same
    BY <1>7 DEF Retag, locals, history
  <2> QED BY <1>1, <2>1, GotoGoes DEF Active
<1>8. CASE Lock(p) \/ FindForRemoval(p) \/ FindFails(p)
  <2>1. /\ at[p] \in {"lock", "lockRemoval", "find"} /\ Continue(p) /\ UNCHANGED <<req, home, deployment>>
        /\ removing' = IF at[p] = "find" THEN removing \cup {req[p].old} ELSE removing
    BY <1>8 DEF Lock, FindForRemoval, FindFails, locals, history
  <2>2. at[p] \in DOMAIN Following
    BY <2>1 DEF Following, Upload, Removal
  <2>3. at[p] = "find" => req[p].job \in Finders
    BY <1>1, <2>1 DEF Fitting, Active
  <2> QED BY <1>1, <2>1, <2>2, <2>3, ContinueGoes
<1>9. CASE UpdateInvertedIndex(p) \/ SaveVectors(p) \/ UpdateIndex(p) \/ RemoveFromIndex(p) \/ IndexKept(p)
  <2>1. at[p] \in {"postings", "vectors", "index", "dropIndex"} /\ Continue(p) /\ Same
    BY <1>9 DEF UpdateInvertedIndex, SaveVectors, UpdateIndex, RemoveFromIndex, IndexKept, locals, history
  <2>2. at[p] \in DOMAIN Following
    BY <2>1 DEF Following, Upload, Removal
  <2> QED BY <1>1, <2>1, <2>2, ContinueGoes
<1>10. ASSUME NEW t \in Tables, WriteRow(p, t) PROVE Goes(p)
  <2>1. at[p] = t /\ t \notin {"postings", "index"} /\ Continue(p) /\ Same
    BY <1>10 DEF WriteRow, locals, history
  <2>2. at[p] \in DOMAIN Following
    BY <2>1 DEF Following, Upload, Tables, Columns
  <2>3. at[p] = "chunks" => Wrote(p)
    BY <1>10, <2>1 DEF Wrote
  <2>4. at[p] # "find" /\ removing' = removing /\ UNCHANGED <<req, home, deployment>> /\ Continue(p)
    BY <2>1 DEF Tables, Columns
  <2> QED BY <1>1, <2>2, <2>3, <2>4, ContinueGoes
<1>11. ASSUME NEW t \in Tables, WriteFails(p, t) PROVE Goes(p)
  <2>1. at[p] = t /\ Same
    BY <1>11 DEF WriteFails, locals, Fault
  <2>2. CASE t \in {"chunks", "documents"}
    <3>1. Goto(p, "abort")
      BY <1>11, <2>2 DEF WriteFails
    <3> QED BY <1>1, <2>1, <2>2, <3>1, GotoGoes DEF Active
  <2>3. CASE t = "chunks_index"
    <3>1. Goto(p, "source")
      BY <1>11, <2>3 DEF WriteFails
    <3>2. req[p].job \in Uploaders
      BY <1>1, <2>1, <2>3 DEF Fitting, Active
    <3> QED BY <1>1, <2>1, <2>3, <3>1, <3>2, GotoGoes DEF Active
  <2>4. CASE t \notin {"chunks", "documents", "chunks_index"}
    <3>1. Continue(p) /\ at[p] # "chunks" /\ at[p] # "find"
      BY <1>11, <2>1, <2>4 DEF WriteFails, Tables, Columns
    <3>2. at[p] \in DOMAIN Following
      BY <2>1, <2>4 DEF Following, Upload, Tables, Columns
    <3> QED BY <1>1, <2>1, <3>1, <3>2, ContinueGoes
  <2> QED BY <2>2, <2>3, <2>4
<1>12. ASSUME NEW t \in Tables, ReadEntries(p, t) \/ ReadFails(p, t) PROVE Goes(p)
  <2>1. at[p] \in {"readPostings", "readIndex", "findIndex"} /\ Same
    BY <1>12 DEF ReadEntries, ReadFails, Reading, history, Fault
  <2>2. at[p] \in DOMAIN Following
    BY <2>1 DEF Following, Upload, Removal
  <2>3. CASE Continue(p)
    BY <1>1, <2>1, <2>2, <2>3, ContinueGoes
  <2>4. CASE Goto(p, "removed") /\ at[p] = "findIndex"
    <3>1. req[p].job \in Removers /\ req[p].old \in removing
      BY <1>1, <2>4 DEF Fitting, Active
    <3> QED BY <1>1, <2>1, <2>4, <3>1, GotoGoes DEF Active
  <2> QED BY <1>12, <2>3, <2>4 DEF ReadEntries, ReadFails
<1>13. ASSUME NEW t \in Tables, DeleteRows(p, t) \/ DeleteFails(p, t) PROVE Goes(p)
  <2>1. at[p] \in {"dropPostings", "dropChunksIndex", "dropSections", "dropChunks", "dropDocuments"} /\ Same
    BY <1>13 DEF DeleteRows, DeleteFails, Deleting, history, Fault
  <2>2. at[p] \in DOMAIN Following
    BY <2>1 DEF Following, Removal
  <2>3. req[p].job \in Removers /\ req[p].old \in removing
    BY <1>1, <2>1 DEF Fitting, Active
  <2>4. Continue(p) \/ Goto(p, "removed") \/ Goto(p, "abort")
    BY <1>13 DEF DeleteRows, DeleteFails, AfterDeletion, Continue
  <2>5. CASE Continue(p)
    BY <1>1, <2>1, <2>2, <2>5, ContinueGoes
  <2>6. CASE Goto(p, "removed")
    BY <1>1, <2>1, <2>3, <2>6, GotoGoes DEF Active
  <2>7. CASE Goto(p, "abort")
    BY <1>1, <2>1, <2>3, <2>7, GotoGoes DEF Active
  <2> QED BY <2>4, <2>5, <2>6, <2>7
<1> QED BY <1>2, <1>3, <1>4, <1>5, <1>6, <1>7, <1>8, <1>9, <1>10, <1>11, <1>12, <1>13 DEF Step

-----------------------------------------------------------------------------
(* What they write.                                                         *)

LEMMA UploadNames ==
    ASSUME ArchiveTypes, NEW p \in Procs, Fitting(p), at[p] \in UploadSteps
    PROVE  /\ KBFor(p, "chunks") = req[p].kb /\ KBFor(p, "chunks_index") = req[p].kb /\ req[p].kb \in KBs
           /\ req[p].doc \in Docs /\ Uploads(p)
           /\ \A t \in Tables : KBFor(p, t) \in KBs
<1>1. /\ <<req[p].job, req[p].kb>> \in deployment.asks /\ req[p].job \in Uploaders
      /\ req[p].doc \in Docs /\ Uploads(p)
  BY DEF Fitting, Active, Uploads
<1>2. /\ req[p].kb \in KBs
      /\ req[p].job = "web" \/ (req[p].kb = Base /\ ingestKB = Base)
  BY <1>1 DEF ArchiveTypes, PageUploads, Unscoped
<1>3. /\ KBFor(p, "chunks") = IF req[p].job = "web" THEN req[p].kb ELSE ingestKB
      /\ KBFor(p, "chunks_index") = IF req[p].job = "web" THEN req[p].kb ELSE Base
      /\ \A t \in Tables : KBFor(p, t) \in {chunkKB, searchKB, req[p].kb, ingestKB, Base}
  BY DEF KBFor
<1>4. {chunkKB, searchKB, ingestKB, Base} \subseteq KBs
  BY NamesAssumption DEF ArchiveTypes
<1> QED BY <1>1, <1>2, <1>3, <1>4

(* What a step of p changes of the tables the invariant is about.           *)
Touched == {"documents", "chunks", "chunks_index"}
RowsGo(p) ==
    /\ rows' \in [Tables -> SUBSET (KBs \X Docs)]
    /\ \A k \in KBs, d \in Docs : <<k, d>> \in rows'["chunks_index"] =>
          \/ <<k, d>> \in rows["chunks_index"]
          \/ at[p] = "chunks_index" /\ k = req[p].kb /\ d = req[p].doc
    /\ \A k \in KBs, d \in Docs : <<k, d>> \in rows["chunks"] => <<k, d>> \in rows'["chunks"] \/ d \in removing
    /\ \A k \in KBs, d \in Docs : <<k, d>> \in rows'["chunks"] =>
          \/ <<k, d>> \in rows["chunks"]
          \/ at[p] = "chunks" /\ d = req[p].doc
    /\ \A k \in KBs, d \in Docs : <<k, d>> \in rows'["documents"] =>
          \/ <<k, d>> \in rows["documents"]
          \/ at[p] = "documents" /\ at'[p] = "chunks_index" /\ d = req[p].doc
          \/ at[p] = "retag" /\ d = req[p].old
    /\ Wrote(p) => <<req[p].kb, req[p].doc>> \in rows'["chunks"]

LEMMA UntouchedGo ==
    ASSUME ArchiveTypes, NEW p \in Procs, rows' \in [Tables -> SUBSET (KBs \X Docs)],
           \A t \in Touched : rows'[t] = rows[t], at[p] # "chunks"
    PROVE  RowsGo(p)
  BY DEF RowsGo, Touched, Wrote, WriteRow

LEMMA InsertIn ==
    ASSUME ArchiveTypes, NEW t \in Tables, NEW k \in KBs, NEW d \in Docs, Insert(t, k, d)
    PROVE  /\ rows' \in [Tables -> SUBSET (KBs \X Docs)]
           /\ rows'[t] = rows[t] \cup {<<k, d>>}
           /\ \A x \in Tables \ {t} : rows'[x] = rows[x]
<1>1. rows \in [Tables -> SUBSET (KBs \X Docs)]
  BY DEF ArchiveTypes
<1> QED BY <1>1 DEF Insert

LEMMA OverwriteIn ==
    ASSUME ArchiveTypes, NEW t \in Tables, NEW k \in KBs, NEW S \in SUBSET Docs, Overwrite(t, k, S)
    PROVE  /\ rows' \in [Tables -> SUBSET (KBs \X Docs)]
           /\ \A x \in Tables \ {t} : rows'[x] = rows[x]
<1>1. rows \in [Tables -> SUBSET (KBs \X Docs)]
  BY DEF ArchiveTypes
<1> QED BY <1>1 DEF Overwrite

LEMMA WriteRowGoes ==
    ASSUME ArchiveInv, NEW p \in Procs, NEW t \in Tables, WriteRow(p, t) PROVE RowsGo(p)
<1>1. ArchiveTypes /\ Fitting(p)
  BY DEF ArchiveInv, RequestsFit
<1>2. at[p] = t /\ t \in UploadSteps /\ t \notin {"postings", "index"} /\ at'[p] = Following[t]
  BY <1>1 DEF WriteRow, Continue, Goto, Tables, Columns, ArchiveTypes
<1>3. /\ KBFor(p, "chunks") = req[p].kb /\ KBFor(p, "chunks_index") = req[p].kb /\ req[p].kb \in KBs
      /\ req[p].doc \in Docs /\ KBFor(p, t) \in KBs
  BY <1>1, <1>2, UploadNames
<1>4. (UNCHANGED rows /\ t \in Columns) \/ Insert(t, KBFor(p, t), req[p].doc)
  BY DEF WriteRow
<1>5. /\ rows \in [Tables -> SUBSET (KBs \X Docs)] /\ rows' \in [Tables -> SUBSET (KBs \X Docs)]
      /\ \A x \in Tables \ {t} : rows'[x] = rows[x]
      /\ t \notin Columns => rows'[t] = rows[t] \cup {<<KBFor(p, t), req[p].doc>>}
  BY <1>1, <1>3, <1>4, InsertIn DEF ArchiveTypes
<1>6. CASE t \notin Touched
  BY <1>1, <1>2, <1>5, <1>6, UntouchedGo DEF Touched, Tables
<1>7. CASE t = "chunks"
  BY <1>2, <1>3, <1>5, <1>7 DEF RowsGo, Tables, Columns
<1>8. CASE t = "chunks_index"
  BY <1>2, <1>3, <1>5, <1>8 DEF RowsGo, Tables, Columns, Wrote, WriteRow
<1>9. CASE t = "documents"
  BY <1>2, <1>3, <1>5, <1>9, FollowingIs DEF RowsGo, Tables, Columns, Wrote, WriteRow
<1> QED BY <1>6, <1>7, <1>8, <1>9 DEF Touched

LEMMA DeleteRowsGoes ==
    ASSUME ArchiveInv, NEW p \in Procs, NEW t \in Tables, DeleteRows(p, t) PROVE RowsGo(p)
<1>1. ArchiveTypes /\ Fitting(p)
  BY DEF ArchiveInv, RequestsFit
<1>2. at[p] \in {"dropPostings", "dropChunksIndex", "dropSections", "dropChunks", "dropDocuments"}
  BY DEF DeleteRows, Deleting
<1>3. req[p].old \in removing
  BY <1>1, <1>2 DEF Fitting, Active
<1>4. \A x \in Tables : rows'[x] \in {rows[x], rows[x] \ {<<req[p].kb, req[p].old>>}}
  BY DEF DeleteRows
<1>5. rows \in [Tables -> SUBSET (KBs \X Docs)] /\ rows' \in [Tables -> SUBSET (KBs \X Docs)]
  BY <1>1 DEF ArchiveTypes, DeleteRows
<1>6. {"documents", "chunks", "chunks_index"} \subseteq Tables
  BY DEF Tables
<1>7. ~Wrote(p)
  BY <1>2 DEF Wrote, WriteRow
<1> QED BY <1>3, <1>4, <1>5, <1>6, <1>7 DEF RowsGo

LEMMA RetagGoes == ASSUME ArchiveInv, NEW p \in Procs, Retag(p) PROVE RowsGo(p)
<1>1. ArchiveTypes /\ Fitting(p)
  BY DEF ArchiveInv, RequestsFit
<1>2. at[p] = "retag" /\ Insert("documents", chunkKB, req[p].old)
  BY DEF Retag
<1>3. req[p].old \in Docs /\ chunkKB \in KBs /\ "documents" \in Tables
  BY <1>1, <1>2 DEF Fitting, Active, ArchiveTypes, Tables
<1>4. /\ rows' \in [Tables -> SUBSET (KBs \X Docs)]
      /\ rows'["documents"] = rows["documents"] \cup {<<chunkKB, req[p].old>>}
      /\ \A x \in Tables \ {"documents"} : rows'[x] = rows[x]
  BY <1>1, <1>2, <1>3, InsertIn
<1>5. ~Wrote(p)
  BY <1>2 DEF Wrote, WriteRow
<1> QED BY <1>2, <1>4, <1>5 DEF RowsGo, Tables

(* The postings and INDEX.md are rewritten from what was read.              *)
LEMMA RewriteGoes ==
    ASSUME ArchiveInv, NEW p \in Procs, UpdateInvertedIndex(p) \/ UpdateIndex(p) \/ RemoveFromIndex(p)
    PROVE  RowsGo(p)
<1>1. ArchiveTypes /\ Fitting(p)
  BY DEF ArchiveInv, RequestsFit
<1>2. searchKB \in KBs /\ chunkKB \in KBs /\ seen[p] \subseteq Docs /\ {"postings", "index"} \subseteq Tables
  BY <1>1 DEF ArchiveTypes, Tables
<1>3. \E t \in {"postings", "index"} : \E k \in KBs : \E S \in SUBSET Docs : Overwrite(t, k, S)
  <2>1. CASE UpdateInvertedIndex(p)
    <3>1. req[p].doc \in Docs
      BY <1>1, <2>1 DEF UpdateInvertedIndex, Fitting, Active
    <3>2. {req[p].doc} \cap Entries("chunks_index", chunkKB) \subseteq Docs
      BY <3>1
    <3>3. (seen[p] \ {req[p].doc}) \cup ({req[p].doc} \cap Entries("chunks_index", chunkKB)) \in SUBSET Docs
      BY <1>2, <3>2
    <3> QED BY <1>2, <2>1, <3>3 DEF UpdateInvertedIndex
  <2>2. CASE UpdateIndex(p)
    <3>1. req[p].doc \in Docs
      BY <1>1, <2>2 DEF UpdateIndex, Fitting, Active
    <3> QED BY <1>2, <2>2, <3>1 DEF UpdateIndex
  <2>3. CASE RemoveFromIndex(p)
    BY <1>2, <2>3 DEF RemoveFromIndex
  <2> QED BY <2>1, <2>2, <2>3
<1>4. rows' \in [Tables -> SUBSET (KBs \X Docs)] /\ \A t \in Touched : rows'[t] = rows[t]
  BY <1>1, <1>2, <1>3, OverwriteIn DEF Touched, Tables
<1>5. at[p] # "chunks"
  BY DEF UpdateInvertedIndex, UpdateIndex, RemoveFromIndex
<1> QED BY <1>1, <1>4, <1>5, UntouchedGo

LEMMA StepRows == ASSUME ArchiveInv, NEW p \in Procs, Step(p) PROVE RowsGo(p)
<1> DEFINE Writes == \/ \E t \in Tables : WriteRow(p, t) \/ DeleteRows(p, t)
                     \/ Retag(p) \/ UpdateInvertedIndex(p) \/ UpdateIndex(p) \/ RemoveFromIndex(p)
<1>1. CASE Writes
  BY <1>1, WriteRowGoes, DeleteRowsGoes, RetagGoes, RewriteGoes
<1>2. CASE ~Writes
  <2>1. rows' = rows
    BY <1>2 DEF Step, Scope, SetIngestKB, SetSearchKB, SetChunkKB, Lock, AnswerUploaded, AnswerRemoved,
                AnswerFailed, Unlock, ParseFails, WriteFails, ReadEntries, ReadFails, DeleteFails, SaveVectors,
                FindForRemoval, FindFails, IndexKept, CheckListed, database
  <2>2. ~Wrote(p)
    BY <1>2 DEF Wrote, Tables
  <2> QED BY <2>1, <2>2 DEF RowsGo, ArchiveInv, ArchiveTypes, Tables
<1> QED BY <1>1, <1>2

LEMMA StepEngines ==
    ASSUME ArchiveInv, NEW p \in Procs, Step(p)
    PROVE  /\ {ingestKB, searchKB, chunkKB}' \subseteq KBs
           /\ seen' \in [Procs -> SUBSET Docs]
           /\ PageUploads(deployment) \/ (Unscoped(deployment) /\ ingestKB' = Base)
<1>1. ArchiveTypes /\ Fitting(p)
  BY DEF ArchiveInv, RequestsFit
<1>2. CASE SetIngestKB(p) \/ SetSearchKB(p) \/ SetChunkKB(p)
  <2>1. <<req[p].job, req[p].kb>> \in deployment.asks /\ req[p].kb # Base /\ req[p].kb \in KBs
    BY <1>1, <1>2 DEF SetIngestKB, SetSearchKB, SetChunkKB, Fitting, Active, ArchiveTypes
  <2>2. PageUploads(deployment)
    BY <1>1, <2>1 DEF ArchiveTypes, Unscoped
  <2> QED BY <1>1, <1>2, <2>1, <2>2 DEF SetIngestKB, SetSearchKB, SetChunkKB, locals, ArchiveTypes
<1>3. ASSUME NEW t \in Tables, ReadEntries(p, t) \/ ReadFails(p, t)
      PROVE  UNCHANGED engines /\ seen' \in [Procs -> SUBSET Docs]
  <2>1. Entries(t, KBFor(p, t)) \subseteq Docs
    BY <1>1 DEF Entries, ArchiveTypes
  <2>2. \E S \in SUBSET Docs : seen' = [seen EXCEPT ![p] = S]
    BY <1>3, <2>1 DEF ReadEntries, ReadFails
  <2> QED BY <1>1, <1>3, <2>2 DEF ReadEntries, ReadFails, ArchiveTypes
<1>4. ASSUME ~(SetIngestKB(p) \/ SetSearchKB(p) \/ SetChunkKB(p)),
             \A t \in Tables : ~ReadEntries(p, t) /\ ~ReadFails(p, t)
      PROVE  UNCHANGED <<ingestKB, searchKB, chunkKB, seen>>
  BY <1>4 DEF Step, Scope, Lock, AnswerUploaded, AnswerRemoved, AnswerFailed, Unlock, ParseFails,
              WriteRow, WriteFails, DeleteRows, DeleteFails, UpdateInvertedIndex, SaveVectors, UpdateIndex,
              FindForRemoval, FindFails, RemoveFromIndex, IndexKept, CheckListed, Retag, engines, locals
<1> QED BY <1>1, <1>2, <1>3, <1>4 DEF engines, ArchiveTypes

-----------------------------------------------------------------------------
(* Requests beside the administrator's.                                     *)

(* What a step of a request does to what the administrator's is about.      *)
Beside ==
    /\ zip' = zip /\ admin'.job = admin.job /\ admin'.kb = admin.kb /\ admin'.at = admin.at
    /\ admin'.left = admin.left /\ admin'.doc = admin.doc
    /\ admin' \in [job : {"none", "export", "import", "delete"}, kb : KBs, at : AdminStep,
                   left : SUBSET Docs, doc : Docs \cup {"none"}, clean : BOOLEAN]
    /\ torn \subseteq torn' /\ torn' \subseteq Docs
    /\ admin.job = "delete" => \A d \in Docs : home'[d] = admin.kb => d \in torn'

LEMMA ServeBeside == ASSUME ArchiveTypes, Serve PROVE Beside
<1>1. admin' \in {admin, Unclean(admin)} /\ zip' = zip
  BY DEF Serve
<1>2. torn' = torn \cup (IF admin.job = "delete" THEN {d \in Docs : home'[d] = admin.kb} ELSE {})
  BY DEF Serve
<1>3. /\ admin'.job = admin.job /\ admin'.kb = admin.kb /\ admin'.at = admin.at
      /\ admin'.left = admin.left /\ admin'.doc = admin.doc
      /\ admin' \in [job : {"none", "export", "import", "delete"}, kb : KBs, at : AdminStep,
                     left : SUBSET Docs, doc : Docs \cup {"none"}, clean : BOOLEAN]
  <2>1. CASE admin' = admin
    BY <2>1 DEF ArchiveTypes
  <2>2. CASE admin' = Unclean(admin)
    BY <2>2 DEF ArchiveTypes, Unclean
  <2> QED BY <1>1, <2>1, <2>2
<1>4. torn \subseteq torn' /\ torn' \subseteq Docs
  BY <1>2 DEF ArchiveTypes
<1> QED BY <1>1, <1>2, <1>3, <1>4 DEF Beside

LEMMA BesideFits == ASSUME AdminFits, Beside PROVE AdminFits'
  BY DEF AdminFits, Beside

LEMMA StepTypes == ASSUME ArchiveInv, NEW p \in Procs, Step(p), Beside PROVE ArchiveTypes'
<1>1. Goes(p) /\ RowsGo(p)
  BY StepGoes, StepRows
<1>2. /\ {ingestKB, searchKB, chunkKB}' \subseteq KBs /\ seen' \in [Procs -> SUBSET Docs]
      /\ PageUploads(deployment) \/ (Unscoped(deployment) /\ ingestKB' = Base)
  BY StepEngines
<1> QED BY <1>1, <1>2 DEF ArchiveInv, ArchiveTypes, Goes, RowsGo, Beside

LEMMA StepFits == ASSUME ArchiveInv, NEW p \in Procs, Goes(p) PROVE RequestsFit'
<1>1. \A q \in Procs \ {p} : Fitting(q)'
  BY DEF ArchiveInv, RequestsFit, Fitting, Active, Goes
<1> QED BY <1>1 DEF Goes, RequestsFit

LEMMA StepKnown == ASSUME ArchiveInv, NEW p \in Procs, Goes(p), RowsGo(p), Beside PROVE KnownInv'
<1>1. ArchiveTypes /\ KnownInv /\ Fitting(p)
  BY DEF ArchiveInv, RequestsFit
<1>2. ASSUME NEW d \in Docs, d \in Known'
      PROVE  \/ d \in Known
             \/ d = req[p].old /\ Finds(p)
             \/ d = req[p].doc /\ at[p] = "documents" /\ at'[p] = "chunks_index" /\ Uploads(p)
  <2>1. CASE d \in {r[2] : r \in rows'["documents"]}
    <3>1. PICK r \in rows'["documents"] : d = r[2]
      BY <2>1
    <3>2. r \in KBs \X Docs
      BY <3>1 DEF RowsGo, Tables
    <3>3. r = <<r[1], d>> /\ r[1] \in KBs
      BY <3>1, <3>2
    <3>4. \/ r \in rows["documents"]
          \/ at[p] = "documents" /\ at'[p] = "chunks_index" /\ d = req[p].doc
          \/ at[p] = "retag" /\ d = req[p].old
      BY <3>1, <3>3 DEF RowsGo
    <3>5. at[p] = "documents" => Uploads(p)
      BY <1>1 DEF Fitting, Active, Uploads
    <3>6. at[p] = "retag" => Finds(p)
      BY <1>1 DEF Fitting, Active, Finds
    <3> QED BY <3>1, <3>4, <3>5, <3>6 DEF Known
  <2>2. CASE d \in zip'.entries["documents"] \cup admin'.left \cup {admin'.doc}
    BY <2>2 DEF Known, Beside
  <2> QED BY <1>2, <2>1, <2>2 DEF Known
<1>3. /\ req' = req /\ home' = home /\ \A q \in Procs \ {p} : at'[q] = at[q]
      /\ Uploads(p)' => Uploads(p) /\ (at'[p] \in Unlisted => at[p] \in Unlisted)
      /\ Active(p)
  BY DEF Goes
<1>4. \A q \in Procs : Uploads(q)' => Uploads(q) /\ (at'[q] \in Unlisted => at[q] \in Unlisted)
  BY <1>3 DEF Uploads
<1>5. \A q \in Procs : Finds(q)' => Finds(q)
  BY <1>3 DEF Finds, Active
<1>6. \A d \in Known' \cap Docs : home'[d] # "none"
  <2> SUFFICES ASSUME NEW d \in Docs, d \in Known' PROVE home[d] # "none"
    BY <1>3
  <2>1. Finds(p) => home[req[p].old] # "none"
    BY <1>1 DEF Fitting, Finds
  <2>2. Uploads(p) => home[req[p].doc] = req[p].kb /\ req[p].kb \in KBs
    BY <1>1 DEF Fitting, Uploads, Active, ArchiveTypes
  <2> QED BY <1>1, <1>2, <2>1, <2>2, NamesAssumption DEF KnownInv
<1>7. ASSUME NEW q \in Procs, Uploads(q)'
      PROVE  /\ \A x \in Procs \ {q} : Uploads(x)' => req'[x].doc # req'[q].doc
             /\ at'[q] \in Unlisted => /\ req'[q].doc \notin Known'
                                       /\ \A x \in Procs : Finds(x)' => req'[x].old # req'[q].doc
  <2>1. Uploads(q) /\ (at'[q] \in Unlisted => at[q] \in Unlisted)
    BY <1>4, <1>7
  <2>2. /\ \A x \in Procs \ {q} : Uploads(x) => req[x].doc # req[q].doc
        /\ at[q] \in Unlisted => /\ req[q].doc \notin Known
                                 /\ \A x \in Procs : Finds(x) => req[x].old # req[q].doc
    BY <1>1, <2>1 DEF KnownInv
  <2>3. req[q].doc \in Docs
    BY <2>1 DEF ArchiveInv, RequestsFit, Fitting, Uploads, Active
  <2>4. at'[q] \in Unlisted => req[q].doc \notin Known'
    BY <1>2, <2>1, <2>2, <2>3
  <2> QED BY <1>3, <1>4, <1>5, <2>1, <2>2, <2>4
<1> QED BY <1>6, <1>7 DEF KnownInv

LEMMA StepChunks == ASSUME ArchiveInv, NEW p \in Procs, Goes(p), RowsGo(p), Beside PROVE ChunksInv'
<1>1. ArchiveTypes /\ ChunksInv /\ Fitting(p)
  BY DEF ArchiveInv, RequestsFit
<1>2. Excepted \subseteq Excepted' /\ removing \subseteq Excepted
  BY DEF Excepted, Goes, Beside
<1>3. ASSUME NEW k \in KBs, NEW d \in Docs \ Excepted', <<k, d>> \in rows'["chunks_index"]
      PROVE  <<k, d>> \in rows'["chunks"]
  <2>1. d \notin Excepted /\ d \notin removing
    BY <1>2, <1>3
  <2>2. <<k, d>> \in rows["chunks"]
    BY <1>1, <1>3, <2>1 DEF RowsGo, ChunksInv
  <2> QED BY <2>1, <2>2 DEF RowsGo
<1>4. ASSUME NEW q \in Procs, at'[q] \in HasChunks, req'[q].doc \notin Excepted'
      PROVE  <<req'[q].kb, req'[q].doc>> \in rows'["chunks"]
  <2>1. req' = req /\ (at[q] \in HasChunks \/ (q = p /\ Wrote(p)))
    BY <1>4 DEF Goes
  <2>2. CASE q = p /\ Wrote(p)
    BY <2>1, <2>2 DEF RowsGo
  <2>3. CASE at[q] \in HasChunks
    <3>1. Fitting(q) /\ Active(q)
      BY <2>3 DEF ArchiveInv, RequestsFit, Active
    <3>2. req[q].doc \in Docs /\ req[q].kb \in KBs
      BY <1>1, <2>3, <3>1 DEF Fitting, ArchiveTypes
    <3>3. req[q].doc \notin Excepted /\ req[q].doc \notin removing
      BY <1>2, <1>4, <2>1
    <3>4. <<req[q].kb, req[q].doc>> \in rows["chunks"]
      BY <1>1, <2>3, <3>3 DEF ChunksInv
    <3> QED BY <2>1, <3>2, <3>3, <3>4 DEF RowsGo
  <2> QED BY <2>1, <2>2, <2>3
<1> QED BY <1>3, <1>4 DEF ChunksInv

LEMMA StepDeletion == ASSUME ArchiveInv, NEW p \in Procs, Goes(p), RowsGo(p), Beside PROVE DeletionInv'
<1> SUFFICES ASSUME admin.job = "delete"
             PROVE  /\ \A q \in Procs : Uploads(q)' /\ req'[q].kb = admin.kb => req'[q].doc \in torn'
                    /\ admin.at \notin {"postings", "chunks_index"} =>
                          \A d \in Docs \ Excepted' : <<admin.kb, d>> \notin rows'["chunks_index"]
  BY DEF DeletionInv, Beside
<1>1. ArchiveTypes /\ DeletionInv /\ Fitting(p) /\ RequestsFit'
  BY StepFits DEF ArchiveInv, RequestsFit
<1>2. \A d \in Docs : home'[d] = admin.kb => d \in torn'
  BY DEF Beside
<1>3. ASSUME NEW q \in Procs, Uploads(q)', req'[q].kb = admin.kb PROVE req'[q].doc \in torn'
  BY <1>1, <1>2, <1>3 DEF RequestsFit, Fitting, Uploads, Active
<1>4. ASSUME admin.at \notin {"postings", "chunks_index"}, NEW d \in Docs \ Excepted',
             <<admin.kb, d>> \in rows'["chunks_index"]
      PROVE  FALSE
  <2>1. d \notin torn' /\ d \notin Excepted /\ admin.kb \in KBs
    BY <1>1, <1>4 DEF Excepted, Goes, Beside, ArchiveTypes
  <2>2. at[p] = "chunks_index" /\ admin.kb = req[p].kb /\ d = req[p].doc
    BY <1>1, <1>4, <2>1 DEF DeletionInv, RowsGo
  <2>3. Uploads(p)
    BY <1>1, <2>2 DEF Fitting, Active, Uploads
  <2>4. d \in torn
    BY <1>1, <2>2, <2>3 DEF DeletionInv
  <2> QED BY <2>1, <2>4 DEF Excepted
<1> QED BY <1>3, <1>4

LEMMA StepZip == ASSUME ArchiveInv, NEW p \in Procs, Goes(p), RowsGo(p), Beside PROVE ZipInv'
<1>1. ArchiveTypes /\ ZipInv /\ KnownInv /\ Fitting(p)
  BY DEF ArchiveInv, RequestsFit
<1>2. Excepted \subseteq Excepted' /\ removing \subseteq Excepted
  BY DEF Excepted, Goes, Beside
<1>3. /\ zip' = zip /\ admin'.job = admin.job /\ admin'.kb = admin.kb /\ admin'.at = admin.at
      /\ admin'.doc = admin.doc /\ admin.kb \in KBs
  BY <1>1 DEF Beside, ArchiveTypes
<1>4. ASSUME NEW d \in Docs \ Excepted', d = admin.doc
      PROVE  <<admin.kb, d>> \in rows'["chunks"] <=> <<admin.kb, d>> \in rows["chunks"]
  <2>1. d \notin removing
    BY <1>2, <1>4
  <2>2. at[p] = "chunks" => d # req[p].doc
    <3>1. at[p] = "chunks" => Uploads(p)
      BY <1>1 DEF Fitting, Active, Uploads
    <3> QED BY <1>1, <1>4, <3>1 DEF KnownInv, Known
  <2> QED BY <1>3, <2>1, <2>2 DEF RowsGo
<1>5. \A d \in zip'.entries["chunks_index"] \ Excepted' : d \in zip'.entries["chunks"]
  BY <1>1, <1>2, <1>3 DEF ZipInv
<1>6. admin'.at \in {"sections", "chunks_index"} /\ admin'.doc \in Docs \ Excepted' =>
          /\ admin'.job = "import" /\ admin'.doc \in zip'.entries["chunks"] => <<admin'.kb, admin'.doc>> \in rows'["chunks"]
          /\ admin'.job = "export" /\ <<admin'.kb, admin'.doc>> \in rows'["chunks"] => admin'.doc \in zip'.entries["chunks"]
  BY <1>1, <1>2, <1>3, <1>4 DEF ZipInv
<1> QED BY <1>5, <1>6 DEF ZipInv

LEMMA StepServed == ASSUME ArchiveInv, NEW p \in Procs, Step(p), Beside PROVE ArchiveInv'
<1>1. Goes(p) /\ RowsGo(p) /\ AdminFits
  BY StepGoes, StepRows DEF ArchiveInv
<1> QED BY <1>1, StepTypes, StepFits, BesideFits, StepKnown, StepChunks, StepDeletion, StepZip DEF ArchiveInv

(* A request arrives.                                                       *)
LEMMA BeginsServed ==
    ASSUME ArchiveInv, NEW p \in Procs, Beside,
           NEW r \in [job : Jobs, kb : KBs, doc : Docs \cup {"none"}, old : Docs \cup {"none"}], Begins(p, r),
           r.job \in Uploaders => r.doc \in Docs /\ Fresh(r.doc), r.job \notin Uploaders => r.doc = "none",
           r.job \in Finders => r.old \in Docs /\ Listed(r.kb, r.old)
    PROVE  ArchiveInv'
<1>1. ArchiveTypes /\ RequestsFit /\ KnownInv /\ ChunksInv /\ DeletionInv /\ ZipInv /\ AdminFits
  BY DEF ArchiveInv
<1>2. FirstStep(r.job) \in {"lock", "lockRemoval", "check"}
  BY DEF FirstStep, Jobs
<1>3. /\ FirstStep(r.job) = "lock" => r.job \in Uploaders
      /\ FirstStep(r.job) = "lockRemoval" => r.job \in Removers
      /\ FirstStep(r.job) = "check" => r.job \in {"replace", "tags"}
  BY DEF FirstStep, Jobs
<1> DEFINE first == IF r.kb = Base THEN FirstStep(r.job) ELSE "scope"
<1>4. /\ first \in {"lock", "lockRemoval", "check", "scope"}
      /\ first = "lock" => r.job \in Uploaders
      /\ first = "lockRemoval" => r.job \in Removers
      /\ first = "check" => r.job \in {"replace", "tags"}
      /\ first = "scope" => r.kb # Base
  BY <1>2, <1>3
<1>5. /\ at[p] = "idle" /\ <<r.job, r.kb>> \in deployment.asks
      /\ at' = [at EXCEPT ![p] = first] /\ req' = [req EXCEPT ![p] = r] /\ seen' = [seen EXCEPT ![p] = {}]
      /\ home' = [d \in Docs |-> IF d = r.doc THEN r.kb ELSE home[d]]
      /\ UNCHANGED <<rows, ingestKB, searchKB, chunkKB, deployment, removing>>
  BY DEF Begins, Goto, database, engines
<1> HIDE DEF first
<1>6. /\ at'[p] = first /\ req'[p] = r
      /\ \A q \in Procs \ {p} : at'[q] = at[q] /\ req'[q] = req[q]
      /\ at' \in [Procs -> Steps] /\ seen' \in [Procs -> SUBSET Docs]
      /\ req' \in [Procs -> [job : Jobs \cup {"none"}, kb : KBs, doc : Docs \cup {"none"}, old : Docs \cup {"none"}]]
      /\ home' \in [Docs -> KBs \cup {"none"}]
  BY <1>1, <1>4, <1>5 DEF ArchiveTypes
<1>7. \A d \in Docs : home[d] # "none" => home'[d] = home[d]
  BY <1>5, NamesAssumption DEF Fresh
<1>8. ArchiveTypes'
  BY <1>1, <1>5, <1>6 DEF ArchiveTypes, Beside
<1>9. r.job \in Finders => home[r.old] # "none" /\ r.old # r.doc
  <2>1. r.job \in Finders => r.old \in Known
    BY DEF Listed, Known
  <2> QED BY <1>1, <2>1, NamesAssumption DEF KnownInv, Fresh
<1>10. Fitting(p)'
  <2>1. r.job \in Uploaders => home'[r.doc] = r.kb
    BY <1>5
  <2>2. r.job \in Finders => home'[r.old] # "none"
    BY <1>7, <1>9
  <2> QED BY <1>4, <1>5, <1>6, <2>1, <2>2 DEF Fitting
<1>11. \A q \in Procs \ {p} : Fitting(q)'
  <2> SUFFICES ASSUME NEW q \in Procs \ {p} PROVE Fitting(q)'
    OBVIOUS
  <2>1. Fitting(q) /\ at'[q] = at[q] /\ req'[q] = req[q] /\ removing' = removing /\ deployment' = deployment
    BY <1>1, <1>5, <1>6 DEF RequestsFit
  <2>2. Active(q) /\ req[q].job \in Uploaders => req[q].doc \in Docs /\ home'[req[q].doc] = req[q].kb
    <3>1. req[q].kb # "none"
      BY <1>1, NamesAssumption DEF ArchiveTypes
    <3> QED BY <1>7, <2>1, <3>1 DEF Fitting
  <2>3. Active(q) /\ req[q].job \in Finders => req[q].old \in Docs /\ home'[req[q].old] # "none"
    BY <1>7, <2>1 DEF Fitting
  <2> QED BY <2>1, <2>2, <2>3 DEF Fitting, Active
<1>12. Known' = Known
  BY <1>5 DEF Known, Beside
<1>13. \A q \in Procs \ {p} : (Uploads(q)' <=> Uploads(q)) /\ (Finds(q)' <=> Finds(q))
  BY <1>6 DEF Uploads, Finds, Active
<1>14. ASSUME NEW q \in Procs \ {p}, Uploads(q) PROVE req[q].doc # r.doc /\ (Finds(p)' /\ at[q] \in Unlisted => r.old # req[q].doc)
  <2>1. req[q].doc \in Docs /\ home[req[q].doc] \in KBs
    BY <1>1, <1>14 DEF RequestsFit, Fitting, Uploads, Active, ArchiveTypes
  <2>2. req[q].doc # r.doc
    BY <2>1, NamesAssumption DEF Fresh
  <2>3. Finds(p)' => r.old \in Known
    BY <1>6 DEF Finds, Listed, Known
  <2> QED BY <1>1, <1>14, <2>2, <2>3 DEF KnownInv
<1>15. KnownInv'
  <2>1. \A d \in Known' \cap Docs : home'[d] # "none"
    BY <1>1, <1>7, <1>12 DEF KnownInv
  <2>2. ASSUME NEW q \in Procs \ {p}, Uploads(q)'
        PROVE  /\ \A x \in Procs \ {q} : Uploads(x)' => req'[x].doc # req'[q].doc
               /\ at'[q] \in Unlisted => /\ req'[q].doc \notin Known'
                                         /\ \A x \in Procs : Finds(x)' => req'[x].old # req'[q].doc
    <3>1. /\ \A x \in Procs \ {q} : Uploads(x) => req[x].doc # req[q].doc
          /\ at[q] \in Unlisted => /\ req[q].doc \notin Known
                                   /\ \A x \in Procs : Finds(x) => req[x].old # req[q].doc
      BY <1>1, <1>13, <2>2 DEF KnownInv
    <3>2. /\ req'[p].doc # req'[q].doc
          /\ Finds(p)' /\ at'[q] \in Unlisted => req'[p].old # req'[q].doc
      BY <1>6, <1>13, <1>14, <2>2
    <3> QED BY <1>6, <1>12, <1>13, <3>1, <3>2
  <2>3. ASSUME Uploads(p)'
        PROVE  /\ \A x \in Procs \ {p} : Uploads(x)' => req'[x].doc # req'[p].doc
               /\ at'[p] \in Unlisted => /\ req'[p].doc \notin Known'
                                         /\ \A x \in Procs : Finds(x)' => req'[x].old # req'[p].doc
    <3>1. r.doc \in Docs /\ home[r.doc] = "none"
      BY <1>6, <2>3 DEF Uploads, Fresh
    <3>2. r.doc \notin Known
      BY <1>1, <3>1 DEF KnownInv
    <3>3. \A x \in Procs \ {p} : Finds(x) => req[x].old # r.doc
      BY <1>1, <3>1 DEF RequestsFit, Fitting, Finds
    <3>4. Finds(p)' => r.old # r.doc
      BY <1>6, <1>9 DEF Finds
    <3>5. \A x \in Procs : Finds(x)' => req'[x].old # r.doc
      BY <1>6, <1>13, <3>3, <3>4
    <3> QED BY <1>6, <1>12, <1>13, <1>14, <3>2, <3>5
  <2> QED BY <2>1, <2>2, <2>3 DEF KnownInv
<1>16. Excepted \subseteq Excepted'
  BY <1>5 DEF Excepted, Beside
<1>17. ChunksInv'
  BY <1>1, <1>4, <1>5, <1>6, <1>16 DEF ChunksInv
<1>18. DeletionInv'
  <2> SUFFICES ASSUME admin.job = "delete"
               PROVE  /\ \A q \in Procs : Uploads(q)' /\ req'[q].kb = admin.kb => req'[q].doc \in torn'
                      /\ admin.at \notin {"postings", "chunks_index"} =>
                            \A d \in Docs \ Excepted' : <<admin.kb, d>> \notin rows'["chunks_index"]
    BY DEF DeletionInv, Beside
  <2>1. \A q \in Procs : Uploads(q)' => req'[q].doc \in Docs /\ home'[req'[q].doc] = req'[q].kb
    BY <1>10, <1>11 DEF Fitting, Uploads, Active
  <2> QED BY <1>1, <1>5, <1>16, <2>1 DEF Beside, DeletionInv
<1>19. ZipInv'
  BY <1>1, <1>5, <1>16 DEF ZipInv, Beside
<1> QED BY <1>1, <1>8, <1>10, <1>11, <1>15, <1>17, <1>18, <1>19, BesideFits DEF ArchiveInv, RequestsFit

LEMMA BeginServed == ASSUME ArchiveInv, NEW p \in Procs, Begin(p), Beside PROVE ArchiveInv'
<1>1. PICK k \in KBs, d \in Docs :
        \/ \E job \in {"web", "engine"} : BeginUpload(p, job, k, d)
        \/ BeginRemove(p, k, d)
        \/ \E new \in Docs : BeginReplace(p, k, d, new)
        \/ BeginTags(p, k, d)
  BY DEF Begin
<1> DEFINE Body == [job : Jobs, kb : KBs, doc : Docs \cup {"none"}, old : Docs \cup {"none"}]
<1>2. ASSUME NEW job \in {"web", "engine"}, BeginUpload(p, job, k, d) PROVE ArchiveInv'
  <2> DEFINE r == [job |-> job, kb |-> k, doc |-> d, old |-> "none"]
  <2>1. r \in Body /\ r.job = job /\ r.doc = d /\ r.job \in Uploaders /\ r.job \notin Finders
    BY DEF Jobs
  <2>2. Begins(p, r) /\ Fresh(d)
    BY <1>2 DEF BeginUpload
  <2> HIDE DEF r
  <2> QED BY <2>1, <2>2, BeginsServed
<1>3. CASE BeginRemove(p, k, d)
  <2> DEFINE r == [job |-> "remove", kb |-> k, doc |-> "none", old |-> d]
  <2>1. r \in Body /\ r.job = "remove" /\ r.doc = "none" /\ r.kb = k /\ r.old = d
    BY DEF Jobs
  <2>2. Begins(p, r) /\ Listed(k, d)
    BY <1>3 DEF BeginRemove
  <2> HIDE DEF r
  <2> QED BY <2>1, <2>2, BeginsServed
<1>4. ASSUME NEW new \in Docs, BeginReplace(p, k, d, new) PROVE ArchiveInv'
  <2> DEFINE r == [job |-> "replace", kb |-> k, doc |-> new, old |-> d]
  <2>1. r \in Body /\ r.job = "replace" /\ r.doc = new /\ r.kb = k /\ r.old = d
    BY DEF Jobs
  <2>2. Begins(p, r) /\ Listed(k, d) /\ Fresh(new)
    BY <1>4 DEF BeginReplace
  <2> HIDE DEF r
  <2> QED BY <2>1, <2>2, BeginsServed
<1>5. CASE BeginTags(p, k, d)
  <2> DEFINE r == [job |-> "tags", kb |-> k, doc |-> "none", old |-> d]
  <2>1. r \in Body /\ r.job = "tags" /\ r.doc = "none" /\ r.kb = k /\ r.old = d
    BY DEF Jobs
  <2>2. Begins(p, r) /\ Listed(k, d)
    BY <1>5 DEF BeginTags
  <2> HIDE DEF r
  <2> QED BY <2>1, <2>2, BeginsServed
<1> QED BY <1>1, <1>2, <1>3, <1>4, <1>5

-----------------------------------------------------------------------------
(* The administrator's requests.                                            *)

Still ==
    /\ UNCHANGED <<at, req, seen, home, deployment, removing, ingestKB, searchKB, chunkKB>>
    /\ torn \subseteq torn' /\ torn' \subseteq Docs
    /\ rows' \in [Tables -> SUBSET (KBs \X Docs)]

AdminTyped(a) ==
    a \in [job : {"none", "export", "import", "delete"}, kb : KBs, at : AdminStep,
           left : SUBSET Docs, doc : Docs \cup {"none"}, clean : BOOLEAN]
ZipTyped(z) ==
    z \in [ready : BOOLEAN, files : SUBSET Tables, entries : [Tables -> SUBSET Docs], whole : {z.whole}]

LEMMA StillFits ==
    ASSUME ArchiveInv, Still, AdminTyped(admin'), ZipTyped(zip'), AdminFits', Known' \cap Docs \subseteq Known
    PROVE  ArchiveTypes' /\ RequestsFit' /\ KnownInv' /\ Excepted \subseteq Excepted'
<1>1. ArchiveTypes /\ RequestsFit /\ KnownInv
  BY DEF ArchiveInv
<1>2. ArchiveTypes'
  BY <1>1 DEF ArchiveTypes, Still, AdminTyped, ZipTyped
<1>3. RequestsFit'
  BY <1>1 DEF RequestsFit, Fitting, Active, Still
<1>4. KnownInv'
  <2>1. \A p \in Procs : Uploads(p)' => Uploads(p) /\ req[p].doc \in Docs
    BY <1>1 DEF Still, Uploads, RequestsFit, Fitting, Active
  <2>2. \A p \in Procs : Finds(p)' => Finds(p)
    BY DEF Still, Finds, Active
  <2> QED BY <1>1, <2>1, <2>2 DEF KnownInv, Still
<1>5. Excepted \subseteq Excepted'
  BY DEF Still, Excepted
<1> QED BY <1>2, <1>3, <1>4, <1>5

LEMMA ChunksStill ==
    ASSUME ArchiveInv, Still,
           \A k \in KBs, d \in Docs \ Excepted' :
              <<k, d>> \in rows'["chunks_index"] => <<k, d>> \in rows["chunks_index"],
           \A k \in KBs, d \in Docs : <<k, d>> \in rows["chunks"] => <<k, d>> \in rows'["chunks"]
    PROVE  ChunksInv'
<1>1. ArchiveTypes /\ RequestsFit /\ ChunksInv
  BY DEF ArchiveInv
<1>2. Excepted \subseteq Excepted'
  BY DEF Still, Excepted
<1>3. \A p \in Procs : at[p] \in HasChunks => req[p].doc \in Docs /\ req[p].kb \in KBs
  BY <1>1 DEF RequestsFit, Fitting, Active, ArchiveTypes
<1>4. \A k \in KBs : \A d \in Docs \ Excepted' : <<k, d>> \in rows'["chunks_index"] => <<k, d>> \in rows'["chunks"]
  BY <1>1, <1>2 DEF ChunksInv
<1>5. \A p \in Procs : at'[p] \in HasChunks /\ req'[p].doc \notin Excepted' => <<req'[p].kb, req'[p].doc>> \in rows'["chunks"]
  BY <1>1, <1>2, <1>3 DEF ChunksInv, Still
<1> QED BY <1>4, <1>5 DEF ChunksInv

(* The steps of the three requests.                                         *)
LEMMA AfterIs ==
    /\ admin.job = "delete" =>
          /\ After("postings") = "chunks_index" /\ After("chunks_index") = "sections"
          /\ After("sections") = "chunks" /\ After("chunks") = "documents" /\ After("documents") = "row"
    /\ admin.job \in {"export", "import"} =>
          /\ After("list") = "index" /\ After("create") = "index" /\ After("index") = "postings"
          /\ After("postings") = "next" /\ After("next") = "documents" /\ After("documents") = "chunks"
          /\ After("chunks") = "sections" /\ After("sections") = "chunks_index"
          /\ After("chunks_index") = "raw" /\ After("raw") = "source" /\ After("source") = "next"
<1>1. DOMAIN KBWide = {"list", "create", "index", "postings"}
  BY DEF KBWide
<1>2. /\ DOMAIN ExportPerDocument = {"next", "documents", "chunks", "sections", "chunks_index", "raw", "source"}
      /\ DOMAIN ImportPerDocument = {"next", "documents", "chunks", "sections", "chunks_index", "raw", "source"}
  BY DEF ExportPerDocument, ImportPerDocument, PerDocument
<1>3. CASE admin.job = "delete"
  BY <1>3 DEF After, Deletion
<1>4. CASE admin.job = "export"
  <2>1. \A s \in DOMAIN KBWide : After(s) = KBWide[s]
    BY <1>2, <1>4 DEF After, KBWide
  <2>2. \A s \in DOMAIN ExportPerDocument : After(s) = ExportPerDocument[s]
    BY <1>1, <1>2, <1>4 DEF After
  <2> QED BY <1>1, <1>2, <1>4, <2>1, <2>2 DEF KBWide, ExportPerDocument, PerDocument
<1>5. CASE admin.job = "import"
  <2>1. \A s \in DOMAIN KBWide : After(s) = KBWide[s]
    BY <1>2, <1>5 DEF After, KBWide
  <2>2. \A s \in DOMAIN ImportPerDocument : After(s) = ImportPerDocument[s]
    BY <1>1, <1>2, <1>5 DEF After
  <2> QED BY <1>1, <1>2, <1>5, <2>1, <2>2 DEF KBWide, ImportPerDocument, PerDocument
<1> QED BY <1>3, <1>4, <1>5

(* Where a request of the administrator's goes on.                          *)
LEMMA DoneIs ==
    ASSUME ArchiveTypes, AdminFits, admin.job # "none", admin.at # "row",
           admin.at # "next" \/ admin.job = "delete"
    PROVE  /\ AdminTyped(Done) /\ Done.job = admin.job /\ Done.kb = admin.kb /\ Done.left = admin.left
           /\ Done.doc = admin.doc /\ Done.at = After(admin.at)
           /\ Done.at \in AdminSteps[admin.job]
           /\ admin.job # "delete" /\ Done.at \in OfDocument => admin.doc \in Docs
<1>1. /\ admin.job \in {"export", "import", "delete"} /\ admin.at \in AdminStep
      /\ admin.job = "export" => admin.at \in {"list", "index", "postings", "next"} \cup OfDocument
      /\ admin.job = "import" => admin.at \in {"create", "index", "postings", "next"} \cup OfDocument
      /\ admin.job = "delete" => admin.at \in {"postings", "chunks_index", "sections", "chunks", "documents", "row"}
  BY DEF AdminFits, ArchiveTypes, AdminSteps
<1>2. After(admin.at) \in AdminStep /\ After(admin.at) \in AdminSteps[admin.job]
  BY <1>1, AfterIs DEF AdminSteps
<1>3. admin.job # "delete" /\ After(admin.at) \in OfDocument => admin.at \in OfDocument
  BY <1>1, AfterIs
<1>4. /\ AdminTyped(Done) /\ Done.job = admin.job /\ Done.kb = admin.kb /\ Done.left = admin.left
      /\ Done.doc = admin.doc /\ Done.at = After(admin.at)
  BY <1>2 DEF ArchiveTypes, AdminTyped, Done
<1> QED BY <1>1, <1>2, <1>3, <1>4 DEF AdminFits

(* A request that goes on with its next step, or one that is done.          *)
Onward(a) ==
    /\ AdminTyped(a) /\ a.job = admin.job /\ a.kb = admin.kb /\ a.left = admin.left /\ a.doc = admin.doc
    /\ a.at = After(admin.at)
LEMMA OnwardFits ==
    ASSUME ArchiveTypes, AdminFits, admin.job # "none", admin.at # "row", admin.at # "next",
           admin' \in {Done, Unclean(Done)}
    PROVE  Onward(admin') /\ AdminFits'
<1>1. /\ AdminTyped(Done) /\ Done.job = admin.job /\ Done.kb = admin.kb /\ Done.left = admin.left
      /\ Done.doc = admin.doc /\ Done.at = After(admin.at)
      /\ Done.at \in AdminSteps[admin.job]
      /\ admin.job # "delete" /\ Done.at \in OfDocument => admin.doc \in Docs
  BY DoneIs
<1>2. Onward(admin')
  BY <1>1 DEF AdminTyped, Unclean, Onward
<1> QED BY <1>1, <1>2 DEF AdminFits, Onward

LEMMA RestFits == AdminTyped(AtRest) /\ (admin' = AtRest => AdminFits')
  BY NamesAssumption DEF AdminTyped, AtRest, AdminFits, AdminSteps

(* Steps that leave the tables and the archive's chunks alone.              *)
RowsStill == \A t \in Touched : rows'[t] = rows[t]
EntriesStill == \A t \in Touched : zip'.entries[t] = zip.entries[t]

LEMMA OnwardKeeps ==
    ASSUME ArchiveInv, Still, RowsStill, ZipTyped(zip'), EntriesStill,
           admin.job # "none", Onward(admin'), AdminFits',
           admin.job = "delete" /\ admin.at = "chunks_index" =>
              \A d \in Docs \ Excepted' : <<admin.kb, d>> \notin rows["chunks_index"],
           admin.job # "delete" /\ admin.at = "chunks" => admin.doc \in torn'
    PROVE  ArchiveInv'
<1>1. ArchiveTypes /\ DeletionInv /\ ZipInv /\ AdminFits /\ ChunksInv
  BY DEF ArchiveInv
<1>2. /\ admin'.job = admin.job /\ admin'.kb = admin.kb /\ admin'.left = admin.left /\ admin'.doc = admin.doc
      /\ admin'.at = After(admin.at) /\ AdminTyped(admin')
  BY DEF Onward
<1>3. /\ rows'["documents"] = rows["documents"] /\ rows'["chunks"] = rows["chunks"]
      /\ rows'["chunks_index"] = rows["chunks_index"]
      /\ zip'.entries["documents"] = zip.entries["documents"] /\ zip'.entries["chunks"] = zip.entries["chunks"]
      /\ zip'.entries["chunks_index"] = zip.entries["chunks_index"]
  BY DEF RowsStill, EntriesStill, Touched
<1>4. Known' = Known
  BY <1>2, <1>3 DEF Known
<1>5. ArchiveTypes' /\ RequestsFit' /\ KnownInv' /\ Excepted \subseteq Excepted'
  BY <1>2, <1>4, StillFits
<1>6. ChunksInv'
  BY <1>3, ChunksStill
<1>7. /\ admin.job \in {"export", "import", "delete"}
      /\ admin.job = "export" => admin.at \in {"list", "index", "postings", "next"} \cup OfDocument
      /\ admin.job = "import" => admin.at \in {"create", "index", "postings", "next"} \cup OfDocument
      /\ admin.job = "delete" => admin.at \in {"postings", "chunks_index", "sections", "chunks", "documents", "row"}
  BY <1>1 DEF AdminFits, ArchiveTypes, AdminSteps
<1>8. DeletionInv'
  <2> SUFFICES ASSUME admin.job = "delete"
               PROVE  /\ \A p \in Procs : Uploads(p)' /\ req'[p].kb = admin.kb => req'[p].doc \in torn'
                      /\ admin'.at \notin {"postings", "chunks_index"} =>
                            \A d \in Docs \ Excepted' : <<admin.kb, d>> \notin rows["chunks_index"]
    BY <1>2, <1>3 DEF DeletionInv
  <2>1. \A p \in Procs : Uploads(p)' /\ req'[p].kb = admin.kb => req'[p].doc \in torn'
    BY <1>1 DEF DeletionInv, Still, Uploads
  <2>2. CASE admin.at = "postings"
    BY <1>2, <2>1, <2>2, AfterIs
  <2>3. CASE admin.at = "chunks_index"
    BY <2>1, <2>3
  <2>4. CASE admin.at \notin {"postings", "chunks_index"}
    BY <1>1, <1>5, <2>1, <2>4 DEF DeletionInv
  <2> QED BY <2>2, <2>3, <2>4
<1>9. ZipInv'
  <2>1. \A d \in zip'.entries["chunks_index"] \ Excepted' : d \in zip'.entries["chunks"]
    BY <1>1, <1>3, <1>5 DEF ZipInv
  <2>2. CASE admin.job = "delete"
    BY <1>2, <2>1, <2>2 DEF ZipInv
  <2>3. CASE admin.job # "delete"
    <3>1. /\ admin'.at = "sections" => admin.at = "chunks"
          /\ admin'.at = "chunks_index" => admin.at = "sections"
      BY <1>2, <1>7, <2>3, AfterIs
    <3>2. admin.at = "chunks" => admin.doc \in Excepted'
      BY <2>3 DEF Excepted
    <3> QED BY <1>1, <1>2, <1>3, <1>5, <2>1, <3>1, <3>2 DEF ZipInv
  <2> QED BY <2>2, <2>3
<1> QED BY <1>5, <1>6, <1>8, <1>9 DEF ArchiveInv

LEMMA RestKeeps ==
    ASSUME ArchiveInv, Still, RowsStill, admin' = AtRest, ZipTyped(zip'),
           EntriesStill \/ \A t \in Touched : zip'.entries[t] = {}
    PROVE  ArchiveInv'
<1>1. ArchiveTypes /\ ZipInv /\ ChunksInv
  BY DEF ArchiveInv
<1>2. AdminTyped(admin') /\ AdminFits'
  BY RestFits
<1>3. admin'.job = "none" /\ admin'.at = "none" /\ admin'.left = {} /\ admin'.doc = "none"
  BY DEF AtRest
<1>4. /\ rows'["documents"] = rows["documents"] /\ rows'["chunks"] = rows["chunks"]
      /\ rows'["chunks_index"] = rows["chunks_index"]
      /\ zip'.entries["documents"] \subseteq zip.entries["documents"]
      /\ \/ /\ zip'.entries["chunks"] = zip.entries["chunks"]
            /\ zip'.entries["chunks_index"] = zip.entries["chunks_index"]
         \/ zip'.entries["chunks_index"] = {}
  BY DEF RowsStill, EntriesStill, Touched
<1>5. Known' \cap Docs \subseteq Known
  BY <1>3, <1>4, NamesAssumption DEF Known
<1>6. ArchiveTypes' /\ RequestsFit' /\ KnownInv' /\ Excepted \subseteq Excepted'
  BY <1>2, <1>5, StillFits
<1>7. ChunksInv'
  BY <1>4, ChunksStill
<1>8. DeletionInv' /\ ZipInv'
  BY <1>1, <1>3, <1>4, <1>6 DEF DeletionInv, ZipInv
<1> QED BY <1>2, <1>6, <1>7, <1>8 DEF ArchiveInv

(* What leaves the requests and the database as they are.                   *)
LEMMA VarsStill ==
    ASSUME ArchiveInv, UNCHANGED <<engines, at, locals, deployment, history>>, torn \subseteq torn', torn' \subseteq Docs,
           rows' = rows
    PROVE  Still /\ RowsStill
  BY DEF ArchiveInv, ArchiveTypes, engines, locals, history, Still, RowsStill

LEMMA ZipIsTyped == ASSUME ArchiveTypes, zip' = zip PROVE ZipTyped(zip') /\ EntriesStill
  BY DEF ArchiveTypes, ZipTyped, EntriesStill

-----------------------------------------------------------------------------
(* Orders.                                                                  *)

LEMMA OrderIs ==
    ASSUME ArchiveInv, NEW job \in {"export", "import", "delete"}, NEW k \in KBs, NEW left \in SUBSET Docs,
           NEW first \in AdminStep, Order(job, k, left, first), torn \subseteq torn', torn' \subseteq Docs,
           first \in AdminSteps[job], first \notin OfDocument \/ job = "delete"
    PROVE  /\ Still /\ RowsStill /\ AdminTyped(admin') /\ AdminFits'
           /\ admin'.job = job /\ admin'.kb = k /\ admin'.at = first /\ admin'.left = left /\ admin'.doc = "none"
           /\ UNCHANGED vars
<1>1. UNCHANGED vars
  BY DEF Order
<1>2. admin' = [AtRest EXCEPT !.job = job, !.kb = k, !.left = left, !.at = first, !.clean = Quiet]
  BY DEF Order
<1>3. Quiet \in BOOLEAN
  BY DEF Quiet
<1> HIDE DEF Quiet
<1>4. /\ AdminTyped(admin')
      /\ admin'.job = job /\ admin'.kb = k /\ admin'.at = first /\ admin'.left = left /\ admin'.doc = "none"
  BY <1>2, <1>3 DEF AtRest, AdminTyped
<1>5. AdminFits'
  BY <1>4 DEF AdminFits
<1>6. Still /\ RowsStill
  BY <1>1, VarsStill DEF vars, database
<1> QED BY <1>1, <1>4, <1>5, <1>6

LEMMA BeginExportKeeps == ASSUME ArchiveInv, NEW k \in KBs, BeginExport(k) PROVE ArchiveInv'
<1>1. ArchiveTypes
  BY DEF ArchiveInv
<1>2. Order("export", k, {}, "list") /\ zip' = NoArchive /\ torn' = torn
  BY DEF BeginExport
<1>3. /\ Still /\ RowsStill /\ AdminTyped(admin') /\ AdminFits'
      /\ admin'.job = "export" /\ admin'.at = "list" /\ admin'.left = {} /\ admin'.doc = "none"
  BY <1>1, <1>2, OrderIs DEF AdminSteps, ArchiveTypes
<1>4. ZipTyped(zip') /\ \A t \in Tables : zip'.entries[t] = {}
  BY <1>2 DEF ZipTyped, NoArchive, NoEntries
<1>5. {"documents", "chunks", "chunks_index"} \subseteq Tables
  BY DEF Tables
<1>6. rows'["documents"] = rows["documents"] /\ rows'["chunks"] = rows["chunks"] /\ rows'["chunks_index"] = rows["chunks_index"]
  BY <1>3 DEF RowsStill, Touched
<1>7. Known' \cap Docs \subseteq Known
  BY <1>3, <1>4, <1>5, <1>6, NamesAssumption DEF Known
<1>8. ArchiveTypes' /\ RequestsFit' /\ KnownInv' /\ Excepted \subseteq Excepted'
  BY <1>3, <1>4, <1>7, StillFits
<1>9. ChunksInv'
  BY <1>3, <1>6, ChunksStill
<1>10. DeletionInv' /\ ZipInv'
  BY <1>3, <1>4, <1>5 DEF DeletionInv, ZipInv
<1> QED BY <1>3, <1>8, <1>9, <1>10 DEF ArchiveInv

LEMMA BeginImportKeeps == ASSUME ArchiveInv, NEW k \in KBs, BeginImport(k) PROVE ArchiveInv'
<1>1. ArchiveTypes /\ ZipInv
  BY DEF ArchiveInv
<1>2. Order("import", k, zip.entries["documents"], "create") /\ zip' = zip /\ torn' = torn
  BY DEF BeginImport
<1>3. zip.entries["documents"] \in SUBSET Docs
  BY <1>1 DEF ArchiveTypes, Tables
<1>4. /\ Still /\ RowsStill /\ AdminTyped(admin') /\ AdminFits'
      /\ admin'.job = "import" /\ admin'.at = "create" /\ admin'.left = zip.entries["documents"] /\ admin'.doc = "none"
  BY <1>1, <1>2, <1>3, OrderIs DEF AdminSteps, ArchiveTypes
<1>5. rows'["documents"] = rows["documents"] /\ rows'["chunks"] = rows["chunks"] /\ rows'["chunks_index"] = rows["chunks_index"]
  BY <1>4 DEF RowsStill, Touched
<1>6. Known' \cap Docs \subseteq Known
  BY <1>2, <1>4, <1>5, NamesAssumption DEF Known
<1>7. ArchiveTypes' /\ RequestsFit' /\ KnownInv' /\ Excepted \subseteq Excepted'
  BY <1>1, <1>2, <1>4, <1>6, StillFits, ZipIsTyped
<1>8. ChunksInv'
  BY <1>4, <1>5, ChunksStill
<1>9. DeletionInv' /\ ZipInv'
  BY <1>1, <1>2, <1>4, <1>7 DEF DeletionInv, ZipInv
<1> QED BY <1>4, <1>7, <1>8, <1>9 DEF ArchiveInv

LEMMA BeginDeleteKeeps == ASSUME ArchiveInv, NEW k \in KBs, BeginDelete(k) PROVE ArchiveInv'
<1>1. ArchiveTypes /\ ZipInv /\ RequestsFit
  BY DEF ArchiveInv
<1>2. Order("delete", k, {}, "postings") /\ zip' = zip
  BY DEF BeginDelete, Deletion
<1>3. /\ torn \subseteq torn' /\ torn' \subseteq Docs
      /\ ~Quiet => UploadedFor(k) \subseteq torn'
  BY <1>1 DEF BeginDelete, UploadedFor, ArchiveTypes
<1>4. /\ Still /\ RowsStill /\ AdminTyped(admin') /\ AdminFits'
      /\ admin'.job = "delete" /\ admin'.kb = k /\ admin'.at = "postings" /\ admin'.left = {} /\ admin'.doc = "none"
  BY <1>1, <1>2, <1>3, OrderIs DEF AdminSteps
<1>5. rows'["documents"] = rows["documents"] /\ rows'["chunks"] = rows["chunks"] /\ rows'["chunks_index"] = rows["chunks_index"]
  BY <1>4 DEF RowsStill, Touched
<1>6. Known' \cap Docs \subseteq Known
  BY <1>2, <1>4, <1>5, NamesAssumption DEF Known
<1>7. ArchiveTypes' /\ RequestsFit' /\ KnownInv' /\ Excepted \subseteq Excepted'
  BY <1>1, <1>2, <1>4, <1>6, StillFits, ZipIsTyped
<1>8. ChunksInv'
  BY <1>4, <1>5, ChunksStill
<1>9. ASSUME NEW p \in Procs, Uploads(p)', req'[p].kb = k PROVE req'[p].doc \in torn'
  <2>1. at[p] # "idle" /\ Uploads(p) /\ req' = req
    BY <1>4, <1>9 DEF Still, Uploads
  <2>2. ~Quiet
    BY <2>1 DEF Quiet
  <2>3. req[p].doc \in Docs /\ home[req[p].doc] = k
    BY <1>1, <1>9, <2>1 DEF RequestsFit, Fitting, Uploads, Active
  <2> QED BY <1>3, <2>1, <2>2, <2>3 DEF UploadedFor
<1>10. DeletionInv'
  BY <1>4, <1>9 DEF DeletionInv
<1>11. ZipInv'
  BY <1>1, <1>2, <1>4, <1>7 DEF ZipInv
<1> QED BY <1>4, <1>7, <1>8, <1>10, <1>11 DEF ArchiveInv

-----------------------------------------------------------------------------
(* Export and import, step by step.                                         *)

LEMMA NextDocumentKeeps == ASSUME ArchiveInv, NextDocument PROVE ArchiveInv'
<1>1. ArchiveTypes /\ ZipInv /\ AdminFits
  BY DEF ArchiveInv
<1>2. admin.job \in {"export", "import"} /\ admin.at = "next" /\ UNCHANGED <<vars, zip, torn>>
  <2>1. admin.at = "next" /\ UNCHANGED <<vars, zip, torn>>
    BY DEF NextDocument
  <2>2. admin.job \in {"none", "export", "import", "delete"} /\ admin.at \in AdminSteps[admin.job]
    BY <1>1 DEF ArchiveTypes, AdminFits
  <2> QED BY <2>1, <2>2 DEF AdminSteps
<1>3. PICK d \in admin.left : admin' = [Done EXCEPT !.left = @ \ {d}, !.doc = d]
  BY DEF NextDocument
<1>4. Done = [admin EXCEPT !.at = "documents"]
  BY <1>2, AfterIs DEF Done
<1>5. d \in Docs
  BY <1>1 DEF ArchiveTypes
<1>6. /\ AdminTyped(admin') /\ admin'.job = admin.job /\ admin'.at = "documents" /\ admin'.doc = d
      /\ admin'.left \subseteq admin.left
  BY <1>1, <1>3, <1>4, <1>5 DEF ArchiveTypes, AdminTyped
<1>7. AdminFits'
  BY <1>2, <1>5, <1>6 DEF AdminFits, AdminSteps
<1>8. Still /\ RowsStill
  BY <1>2, VarsStill DEF vars, database, ArchiveInv, ArchiveTypes
<1>9. rows'["documents"] = rows["documents"] /\ rows'["chunks"] = rows["chunks"] /\ rows'["chunks_index"] = rows["chunks_index"]
  BY <1>8 DEF RowsStill, Touched
<1>10. Known' \cap Docs \subseteq Known
  BY <1>2, <1>3, <1>6, <1>9 DEF Known
<1>11. ArchiveTypes' /\ RequestsFit' /\ KnownInv' /\ Excepted \subseteq Excepted'
  BY <1>1, <1>2, <1>6, <1>7, <1>8, <1>10, StillFits, ZipIsTyped
<1>12. ChunksInv'
  BY <1>8, <1>9, ChunksStill
<1>13. DeletionInv' /\ ZipInv'
  BY <1>1, <1>2, <1>6, <1>11 DEF DeletionInv, ZipInv
<1> QED BY <1>7, <1>11, <1>12, <1>13 DEF ArchiveInv

LEMMA ListSlugsKeeps == ASSUME ArchiveInv, ListSlugs PROVE ArchiveInv'
<1>1. ArchiveTypes /\ ZipInv /\ AdminFits
  BY DEF ArchiveInv
<1>2. admin.job = "export" /\ admin.at = "list" /\ UNCHANGED <<vars, zip, torn>>
  BY DEF ListSlugs, Doing
<1>3. admin' = [Done EXCEPT !.left = Entries("documents", admin.kb)] /\ Done = [admin EXCEPT !.at = "index"]
  BY <1>2, AfterIs DEF ListSlugs, Done
<1>4. Entries("documents", admin.kb) \subseteq Docs /\ Entries("documents", admin.kb) \subseteq Known
  BY <1>1 DEF Entries, Known, ArchiveTypes, Tables
<1>5. /\ AdminTyped(admin') /\ admin'.job = "export" /\ admin'.at = "index" /\ admin'.doc = admin.doc
      /\ admin'.left \subseteq Known
  BY <1>1, <1>2, <1>3, <1>4 DEF ArchiveTypes, AdminTyped
<1>6. AdminFits'
  BY <1>5 DEF AdminFits, AdminSteps
<1>7. Still /\ RowsStill
  BY <1>2, VarsStill DEF vars, database, ArchiveInv, ArchiveTypes
<1>8. rows'["documents"] = rows["documents"] /\ rows'["chunks"] = rows["chunks"] /\ rows'["chunks_index"] = rows["chunks_index"]
  BY <1>7 DEF RowsStill, Touched
<1>9. Known' \cap Docs \subseteq Known
  BY <1>2, <1>5, <1>8 DEF Known
<1>10. ArchiveTypes' /\ RequestsFit' /\ KnownInv' /\ Excepted \subseteq Excepted'
  BY <1>1, <1>2, <1>5, <1>6, <1>7, <1>9, StillFits, ZipIsTyped
<1>11. ChunksInv'
  BY <1>7, <1>8, ChunksStill
<1>12. DeletionInv' /\ ZipInv'
  BY <1>1, <1>2, <1>5, <1>10 DEF DeletionInv, ZipInv
<1> QED BY <1>6, <1>10, <1>11, <1>12 DEF ArchiveInv

LEMMA RestsKeep ==
    ASSUME ArchiveInv, ListFails \/ Downloaded \/ Imported \/ DeleteKBRow
    PROVE  ArchiveInv'
<1>1. ArchiveTypes
  BY DEF ArchiveInv
<1>2. admin' = AtRest /\ torn' = torn /\ UNCHANGED <<engines, at, locals, deployment, history>>
  BY DEF ListFails, Downloaded, Imported, DeleteKBRow, vars
<1>3. ZipTyped(zip') /\ EntriesStill
  <2>1. zip' = zip \/ \E W : zip' = [zip EXCEPT !.ready = TRUE, !.whole = W]
    BY DEF ListFails, Downloaded, Imported, DeleteKBRow
  <2>2. CASE zip' = zip
    BY <1>1, <2>2, ZipIsTyped
  <2>3. ASSUME NEW W, zip' = [zip EXCEPT !.ready = TRUE, !.whole = W] PROVE ZipTyped(zip') /\ EntriesStill
    BY <1>1, <2>3 DEF ArchiveTypes, ZipTyped, EntriesStill
  <2> QED BY <2>1, <2>2, <2>3
<1>4. Still /\ RowsStill
  <2>1. CASE DeleteKBRow
    <3>1. Overwrite("index", admin.kb, {}) /\ admin.kb \in KBs /\ "index" \in Tables
      BY <1>1, <2>1 DEF DeleteKBRow, ArchiveTypes, Tables
    <3>2. /\ rows' \in [Tables -> SUBSET (KBs \X Docs)]
          /\ \A x \in Tables \ {"index"} : rows'[x] = rows[x]
      BY <1>1, <3>1, OverwriteIn
    <3> QED BY <1>1, <1>2, <3>2 DEF Still, RowsStill, Touched, Tables, engines, locals, history, ArchiveTypes
  <2>2. CASE rows' = rows
    BY <1>1, <1>2, <2>2, VarsStill DEF ArchiveTypes
  <2> QED BY <2>1, <2>2 DEF ListFails, Downloaded, Imported, vars, database
<1> QED BY <1>2, <1>3, <1>4, RestKeeps

(* Steps that fail, and those of the other tables.                          *)
LEMMA TakeWideKeeps == ASSUME ArchiveInv, NEW t \in Tables, TakeWide(t) PROVE ArchiveInv'
<1>1. ArchiveTypes /\ AdminFits
  BY DEF ArchiveInv
<1>2. admin.job = "export" /\ admin.at = t /\ t \in DOMAIN KBWide /\ admin' = Done /\ torn' = torn /\ UNCHANGED vars
  BY DEF TakeWide, Doing
<1>3. t \in {"index", "postings"}
  BY <1>2 DEF KBWide, Tables, Columns
<1>4. Entries(t, admin.kb) \subseteq Docs
  BY <1>1 DEF ArchiveTypes, Entries
<1>5. ZipTyped(zip') /\ EntriesStill
  <2>1. \/ zip' = zip
        \/ zip' = [zip EXCEPT !.files = @ \cup {t}, !.entries[t] = Entries(t, admin.kb)]
    BY DEF TakeWide
  <2>2. CASE zip' = zip
    BY <1>1, <2>2, ZipIsTyped
  <2>3. CASE zip' = [zip EXCEPT !.files = @ \cup {t}, !.entries[t] = Entries(t, admin.kb)]
    BY <1>1, <1>3, <1>4, <2>3 DEF ArchiveTypes, ZipTyped, EntriesStill, Touched, Tables
  <2> QED BY <2>1, <2>2, <2>3
<1>6. Still /\ RowsStill
  BY <1>1, <1>2, VarsStill DEF vars, database, ArchiveTypes
<1>7. Onward(admin') /\ AdminFits'
  BY <1>1, <1>2, <1>3, OnwardFits
<1> QED BY <1>2, <1>3, <1>5, <1>6, <1>7, OnwardKeeps

LEMMA TakeOneKeeps == ASSUME ArchiveInv, NEW t \in Tables, TakeOne(t) PROVE ArchiveInv'
<1>1. ArchiveTypes /\ AdminFits /\ ZipInv /\ ChunksInv
  BY DEF ArchiveInv
<1>2. admin.job = "export" /\ admin.at = t /\ t \notin DOMAIN KBWide /\ admin' = Done /\ torn' = torn /\ UNCHANGED vars
  BY DEF TakeOne, Doing
<1>3. t \in OfDocument /\ t \notin {"index", "postings", "next"} /\ admin.doc \in Docs /\ admin.kb \in KBs
  BY <1>1, <1>2 DEF KBWide, Tables, Columns, AdminFits, ArchiveTypes
<1>4. zip' = [zip EXCEPT !.entries[t] = @ \cup ({admin.doc} \cap Entries(t, admin.kb))]
  BY DEF TakeOne
<1>5. /\ ZipTyped(zip') /\ \A x \in Tables \ {t} : zip'.entries[x] = zip.entries[x]
      /\ zip'.entries[t] = zip.entries[t] \cup ({admin.doc} \cap Entries(t, admin.kb))
  BY <1>1, <1>3, <1>4 DEF ArchiveTypes, ZipTyped
<1>6. Still /\ RowsStill
  BY <1>1, <1>2, VarsStill DEF vars, database, ArchiveTypes
<1>7. Onward(admin') /\ AdminFits'
  BY <1>1, <1>2, <1>3, OnwardFits
<1>8. CASE t \notin Touched
  <2>1. EntriesStill
    BY <1>5, <1>8 DEF EntriesStill, Touched, Tables
  <2> QED BY <1>2, <1>5, <1>6, <1>7, <1>8, <2>1, OnwardKeeps DEF Touched
<1>9. CASE t \in Touched
  <2>1. /\ rows' = rows /\ admin'.job = "export" /\ admin'.kb = admin.kb /\ admin'.doc = admin.doc
        /\ admin'.left = admin.left /\ admin'.at = After(t)
    BY <1>2, <1>7 DEF Onward, vars, database
  <2>2. {"documents", "chunks", "chunks_index"} \subseteq Tables
    BY DEF Tables
  <2>3. Known' \cap Docs \subseteq Known
    <3>1. zip'.entries["documents"] \subseteq zip.entries["documents"] \cup {admin.doc}
      BY <1>5, <2>2
    <3> QED BY <2>1, <3>1 DEF Known
  <2>4. ArchiveTypes' /\ RequestsFit' /\ KnownInv' /\ Excepted \subseteq Excepted'
    BY <1>5, <1>6, <1>7, <2>3, StillFits DEF Onward
  <2>5. ChunksInv'
    BY <1>6, <2>1, ChunksStill
  <2>6. DeletionInv'
    BY <2>1 DEF DeletionInv
  <2>7. \A d \in zip'.entries["chunks_index"] \ Excepted' : d \in zip'.entries["chunks"]
    <3>1. CASE t # "chunks_index"
      <4>1. zip'.entries["chunks_index"] = zip.entries["chunks_index"] /\ zip.entries["chunks"] \subseteq zip'.entries["chunks"]
        BY <1>5, <2>2, <3>1
      <4> QED BY <1>1, <2>4, <4>1 DEF ZipInv
    <3>2. CASE t = "chunks_index"
      <4>1. zip'.entries["chunks"] = zip.entries["chunks"]
        BY <1>5, <2>2, <3>2
      <4>2. ASSUME NEW d \in zip'.entries["chunks_index"] \ Excepted', d \notin zip.entries["chunks_index"]
            PROVE  d \in zip.entries["chunks"]
        <5>1. d = admin.doc /\ d \in Entries("chunks_index", admin.kb) /\ d \in Docs \ Excepted
          BY <1>3, <1>5, <2>4, <3>2, <4>2
        <5>2. <<admin.kb, d>> \in rows["chunks_index"]
          <6>1. PICK r \in rows["chunks_index"] : r[1] = admin.kb /\ r[2] = d
            BY <5>1 DEF Entries
          <6>2. rows["chunks_index"] \subseteq KBs \X Docs
            BY <1>1, <2>2 DEF ArchiveTypes
          <6> QED BY <6>1, <6>2
        <5>3. <<admin.kb, d>> \in rows["chunks"]
          BY <1>1, <1>3, <5>1, <5>2 DEF ChunksInv
        <5> QED BY <1>1, <1>2, <3>2, <5>1, <5>3 DEF ZipInv
      <4> QED BY <1>1, <2>4, <4>1, <4>2 DEF ZipInv
    <3> QED BY <3>1, <3>2
  <2>8. admin'.at \in {"sections", "chunks_index"} =>
            (<<admin.kb, admin.doc>> \in rows["chunks"] => admin.doc \in zip'.entries["chunks"])
    <3>1. admin'.at \in {"sections", "chunks_index"} => t = "chunks"
      BY <1>2, <1>9, <2>1, AfterIs DEF Touched
    <3>2. t = "chunks" /\ <<admin.kb, admin.doc>> \in rows["chunks"] => admin.doc \in Entries("chunks", admin.kb)
      BY DEF Entries
    <3> QED BY <1>5, <3>1, <3>2
  <2>9. ZipInv'
    BY <2>1, <2>7, <2>8 DEF ZipInv
  <2> QED BY <1>7, <2>4, <2>5, <2>6, <2>9 DEF ArchiveInv
<1> QED BY <1>8, <1>9

LEMMA TakeFailsKeeps == ASSUME ArchiveInv, NEW t \in Tables, TakeFails(t) PROVE ArchiveInv'
<1>1. ArchiveTypes /\ AdminFits
  BY DEF ArchiveInv
<1>2. /\ admin.job = "export" /\ admin.at = t /\ admin' = Unclean(Done) /\ zip' = zip
      /\ torn' = (IF t = "chunks" THEN torn \cup {admin.doc} ELSE torn)
      /\ UNCHANGED <<engines, at, locals, deployment, history>> /\ rows' = rows
  BY DEF TakeFails, Doing, database
<1>3. t \notin {"row", "next"} /\ (t = "chunks" => admin.doc \in Docs)
  BY <1>1, <1>2 DEF Tables, Columns, AdminFits
<1>4. torn \subseteq torn' /\ torn' \subseteq Docs /\ (t = "chunks" => admin.doc \in torn')
  BY <1>1, <1>2, <1>3 DEF ArchiveTypes
<1>5. Still /\ RowsStill
  BY <1>2, <1>4, VarsStill
<1>6. Onward(admin') /\ AdminFits'
  BY <1>1, <1>2, <1>3, OnwardFits
<1> QED BY <1>1, <1>2, <1>4, <1>5, <1>6, OnwardKeeps, ZipIsTyped

LEMMA CreateRowKeeps == ASSUME ArchiveInv, CreateRow PROVE ArchiveInv'
<1>1. ArchiveTypes /\ AdminFits
  BY DEF ArchiveInv
<1>2. admin.job = "import" /\ admin.at = "create" /\ admin' = Done /\ torn' = torn /\ zip' = zip /\ UNCHANGED vars
  BY DEF CreateRow, Doing
<1>3. Still /\ RowsStill
  BY <1>1, <1>2, VarsStill DEF vars, database, ArchiveTypes
<1>4. Onward(admin') /\ AdminFits'
  BY <1>1, <1>2, OnwardFits
<1> QED BY <1>1, <1>2, <1>3, <1>4, OnwardKeeps, ZipIsTyped

LEMMA PutWideKeeps == ASSUME ArchiveInv, NEW t \in Tables, PutWide(t) PROVE ArchiveInv'
<1>1. ArchiveTypes /\ AdminFits
  BY DEF ArchiveInv
<1>2. /\ admin.job = "import" /\ admin.at = t /\ t \in DOMAIN KBWide /\ admin' = Done /\ torn' = torn /\ zip' = zip
      /\ UNCHANGED <<engines, at, locals, deployment, history>>
  BY DEF PutWide, Doing
<1>3. t \in {"index", "postings"}
  BY <1>2 DEF KBWide, Tables, Columns
<1>4. /\ rows' \in [Tables -> SUBSET (KBs \X Docs)]
      /\ \A x \in Tables \ {t} : rows'[x] = rows[x]
  <2>1. zip.entries[t] \in SUBSET Docs /\ admin.kb \in KBs
    BY <1>1 DEF ArchiveTypes
  <2>2. rows' = rows \/ Overwrite(t, admin.kb, zip.entries[t])
    BY DEF PutWide
  <2> QED BY <1>1, <2>1, <2>2, OverwriteIn DEF ArchiveTypes
<1>5. Still /\ RowsStill
  BY <1>1, <1>2, <1>3, <1>4 DEF Still, RowsStill, Touched, Tables, engines, locals, history, ArchiveTypes
<1>6. Onward(admin') /\ AdminFits'
  BY <1>1, <1>2, <1>3, OnwardFits
<1> QED BY <1>1, <1>2, <1>3, <1>5, <1>6, OnwardKeeps, ZipIsTyped

(* An import that writes a document's row of one table.                     *)
LEMMA PutOneKeeps == ASSUME ArchiveInv, NEW t \in Tables, PutOne(t) PROVE ArchiveInv'
<1>1. ArchiveTypes /\ AdminFits /\ ZipInv /\ ChunksInv
  BY DEF ArchiveInv
<1>2. /\ admin.job = "import" /\ admin.at = t /\ t \notin DOMAIN KBWide /\ admin' = Done /\ torn' = torn /\ zip' = zip
      /\ UNCHANGED <<engines, at, locals, deployment, history>>
  BY DEF PutOne, Doing
<1>3. t \in OfDocument /\ t \notin {"index", "postings", "next"} /\ admin.doc \in Docs /\ admin.kb \in KBs
  BY <1>1, <1>2 DEF KBWide, Tables, Columns, AdminFits, ArchiveTypes
<1>4. \/ rows' = rows /\ (t \notin Columns => admin.doc \notin zip.entries[t])
      \/ admin.doc \in zip.entries[t] /\ Insert(t, admin.kb, admin.doc)
  BY DEF PutOne
<1>5. /\ rows' \in [Tables -> SUBSET (KBs \X Docs)]
      /\ \A x \in Tables \ {t} : rows'[x] = rows[x]
      /\ \/ rows'[t] = rows[t] /\ (t \notin Columns => admin.doc \notin zip.entries[t])
         \/ rows'[t] = rows[t] \cup {<<admin.kb, admin.doc>>} /\ admin.doc \in zip.entries[t]
  BY <1>1, <1>3, <1>4, InsertIn DEF ArchiveTypes
<1>6. Still
  BY <1>1, <1>2, <1>5 DEF Still, engines, locals, history, ArchiveTypes
<1>7. Onward(admin') /\ AdminFits' /\ ZipTyped(zip') /\ EntriesStill
  BY <1>1, <1>2, <1>3, OnwardFits, ZipIsTyped
<1>8. CASE t \notin Touched
  <2>1. RowsStill
    BY <1>5, <1>8 DEF RowsStill, Touched, Tables
  <2> QED BY <1>2, <1>6, <1>7, <1>8, <2>1, OnwardKeeps DEF Touched
<1>9. CASE t \in Touched
  <2>1. /\ admin'.job = "import" /\ admin'.kb = admin.kb /\ admin'.doc = admin.doc
        /\ admin'.left = admin.left /\ admin'.at = After(t) /\ AdminTyped(admin')
    BY <1>2, <1>7 DEF Onward
  <2>2. {"documents", "chunks", "chunks_index"} \subseteq Tables /\ Touched \cap Columns = {}
    BY DEF Tables, Touched, Columns
  <2>3. Known' \cap Docs \subseteq Known
    <3>1. \A r \in rows'["documents"] : r \in rows["documents"] \/ r = <<admin.kb, admin.doc>>
      BY <1>5, <2>2
    <3> QED BY <1>2, <2>1, <3>1 DEF Known
  <2>4. ArchiveTypes' /\ RequestsFit' /\ KnownInv' /\ Excepted \subseteq Excepted'
    BY <1>6, <1>7, <2>1, <2>3, StillFits
  <2>5. \A k \in KBs, d \in Docs : <<k, d>> \in rows["chunks"] => <<k, d>> \in rows'["chunks"]
    BY <1>5, <2>2
  <2>6. ChunksInv'
    <3>1. CASE t # "chunks_index"
      BY <1>5, <1>6, <2>2, <2>5, <3>1, ChunksStill
    <3>2. CASE t = "chunks_index"
      <4>1. rows'["chunks"] = rows["chunks"]
        BY <1>5, <2>2, <3>2
      <4>2. ASSUME NEW k \in KBs, NEW d \in Docs \ Excepted', <<k, d>> \in rows'["chunks_index"]
            PROVE  <<k, d>> \in rows["chunks"]
        <5>1. d \notin Excepted
          BY <2>4, <4>2
        <5>2. CASE <<k, d>> \in rows["chunks_index"]
          BY <1>1, <4>2, <5>1, <5>2 DEF ChunksInv
        <5>3. CASE <<k, d>> \notin rows["chunks_index"]
          <6>1. k = admin.kb /\ d = admin.doc /\ d \in zip.entries["chunks_index"]
            BY <1>5, <3>2, <4>2, <5>3
          <6> QED BY <1>1, <1>2, <3>2, <4>2, <5>1, <6>1 DEF ZipInv
        <5> QED BY <5>2, <5>3
      <4>3. \A p \in Procs : at'[p] \in HasChunks /\ req'[p].doc \notin Excepted' => <<req'[p].kb, req'[p].doc>> \in rows'["chunks"]
        BY <1>1, <1>6, <2>4, <4>1 DEF ChunksInv, Still
      <4> QED BY <4>1, <4>2, <4>3 DEF ChunksInv
    <3> QED BY <3>1, <3>2
  <2>7. DeletionInv'
    BY <2>1 DEF DeletionInv
  <2>8. admin'.at \in {"sections", "chunks_index"} =>
            (admin.doc \in zip.entries["chunks"] => <<admin.kb, admin.doc>> \in rows'["chunks"])
    <3>1. admin'.at \in {"sections", "chunks_index"} => t = "chunks"
      BY <1>2, <1>9, <2>1, AfterIs DEF Touched
    <3>2. t = "chunks" /\ admin.doc \in zip.entries["chunks"] => <<admin.kb, admin.doc>> \in rows'["chunks"]
      BY <1>5, <2>2 DEF Touched
    <3> QED BY <3>1, <3>2
  <2>9. ZipInv'
    <3>1. \A d \in zip'.entries["chunks_index"] \ Excepted' : d \in zip'.entries["chunks"]
      BY <1>1, <1>2, <2>4 DEF ZipInv
    <3> QED BY <1>2, <2>1, <2>8, <3>1 DEF ZipInv
  <2> QED BY <1>7, <2>4, <2>6, <2>7, <2>9 DEF ArchiveInv
<1> QED BY <1>8, <1>9

LEMMA PutFailsKeeps ==
    ASSUME ArchiveInv, NEW step \in Tables \cup {"create", "row"}, PutFails(step) PROVE ArchiveInv'
<1>1. ArchiveTypes /\ AdminFits
  BY DEF ArchiveInv
<1>2. /\ admin.job = "import" /\ admin.at = step /\ admin' = Unclean(Done) /\ zip' = zip
      /\ torn' = (IF step = "chunks" THEN torn \cup {admin.doc} ELSE torn)
      /\ UNCHANGED <<engines, at, locals, deployment, history>> /\ rows' = rows
  BY DEF PutFails, Doing, database
<1>3. step \notin {"row", "next"} /\ (step = "chunks" => admin.doc \in Docs)
  BY <1>1, <1>2 DEF Tables, Columns, AdminFits, AdminSteps
<1>4. torn \subseteq torn' /\ torn' \subseteq Docs /\ (step = "chunks" => admin.doc \in torn')
  BY <1>1, <1>2, <1>3 DEF ArchiveTypes
<1>5. Still /\ RowsStill
  BY <1>2, <1>4, VarsStill
<1>6. Onward(admin') /\ AdminFits'
  BY <1>1, <1>2, <1>3, OnwardFits
<1> QED BY <1>1, <1>2, <1>4, <1>5, <1>6, OnwardKeeps, ZipIsTyped

-----------------------------------------------------------------------------
(* Deletion, statement by statement.                                        *)

LEMMA DeleteAllOfKeeps == ASSUME ArchiveInv, NEW t \in Tables, DeleteAllOf(t) PROVE ArchiveInv'
<1>1. ArchiveTypes /\ AdminFits /\ DeletionInv /\ ZipInv /\ ChunksInv /\ RequestsFit
  BY DEF ArchiveInv
<1>2. /\ admin.job = "delete" /\ admin.at = t /\ admin' = Done /\ torn' = torn /\ zip' = zip
      /\ UNCHANGED <<engines, at, locals, deployment, history>>
  BY DEF DeleteAllOf, Doing
<1>3. t \in {"postings", "chunks_index", "sections", "chunks", "documents"} /\ admin.kb \in KBs
  BY <1>1, <1>2 DEF AdminFits, AdminSteps, ArchiveTypes, Tables, Columns
<1>4. rows' = [x \in Tables |-> IF x = t \/ (t = "documents" /\ x \in Columns)
                               THEN {r \in rows[x] : r[1] # admin.kb} ELSE rows[x]]
  BY DEF DeleteAllOf
<1>5. /\ rows' \in [Tables -> SUBSET (KBs \X Docs)]
      /\ \A x \in Touched : rows'[x] = IF x = t THEN {r \in rows[x] : r[1] # admin.kb} ELSE rows[x]
  BY <1>1, <1>4 DEF ArchiveTypes, Touched, Tables, Columns
<1>6. Still
  BY <1>1, <1>2, <1>5 DEF Still, engines, locals, history, ArchiveTypes
<1>7. Onward(admin') /\ AdminFits' /\ ZipTyped(zip') /\ EntriesStill
  BY <1>1, <1>2, <1>3, OnwardFits, ZipIsTyped
<1>8. /\ admin'.job = "delete" /\ admin'.kb = admin.kb /\ admin'.doc = admin.doc
      /\ admin'.left = admin.left /\ admin'.at = After(t) /\ AdminTyped(admin')
  BY <1>2, <1>7 DEF Onward
<1>9. CASE t \in {"postings", "sections"}
  <2>1. RowsStill
    BY <1>5, <1>9 DEF RowsStill, Touched
  <2> QED BY <1>2, <1>6, <1>7, <1>9, <2>1, OnwardKeeps
<1>10. CASE t \in Touched
  <2>1. /\ rows'["documents"] \subseteq rows["documents"]
        /\ rows'["chunks_index"] \subseteq rows["chunks_index"]
        /\ t = "chunks_index" => \A d \in Docs : <<admin.kb, d>> \notin rows'["chunks_index"]
        /\ t # "chunks" => rows'["chunks"] = rows["chunks"]
        /\ \A k \in KBs, d \in Docs : k # admin.kb /\ <<k, d>> \in rows["chunks"] => <<k, d>> \in rows'["chunks"]
    BY <1>5 DEF Touched
  <2>2. Known' \cap Docs \subseteq Known
    BY <1>2, <1>8, <2>1 DEF Known
  <2>3. ArchiveTypes' /\ RequestsFit' /\ KnownInv' /\ Excepted \subseteq Excepted'
    BY <1>6, <1>7, <1>8, <2>2, StillFits
  <2>4. \A p \in Procs : at[p] \in HasChunks =>
            /\ req[p].doc \in Docs /\ req[p].kb \in KBs
            /\ req[p].kb = admin.kb => req[p].doc \in Excepted
    <3>1. \A p \in Procs : at[p] \in HasChunks => Uploads(p) /\ req[p].doc \in Docs /\ req[p].kb \in KBs
      BY <1>1 DEF RequestsFit, Fitting, Active, Uploads, ArchiveTypes
    <3> QED BY <1>1, <1>2, <3>1 DEF DeletionInv, Excepted
  <2>5. t \in {"chunks", "documents"} => \A d \in Docs \ Excepted : <<admin.kb, d>> \notin rows["chunks_index"]
    BY <1>1, <1>2 DEF DeletionInv
  <2>6. ChunksInv'
    <3>1. CASE t # "chunks"
      BY <1>6, <2>1, <3>1, ChunksStill
    <3>2. CASE t = "chunks"
      <4>1. \A k \in KBs : \A d \in Docs \ Excepted' : <<k, d>> \in rows'["chunks_index"] => <<k, d>> \in rows'["chunks"]
        BY <1>1, <2>1, <2>3, <2>5, <3>2 DEF ChunksInv
      <4>2. \A p \in Procs : at'[p] \in HasChunks /\ req'[p].doc \notin Excepted' => <<req'[p].kb, req'[p].doc>> \in rows'["chunks"]
        BY <1>1, <1>6, <2>1, <2>3, <2>4 DEF ChunksInv, Still
      <4> QED BY <4>1, <4>2 DEF ChunksInv
    <3> QED BY <3>1, <3>2
  <2>7. DeletionInv'
    <3>1. \A p \in Procs : Uploads(p)' /\ req'[p].kb = admin.kb => req'[p].doc \in torn'
      BY <1>1, <1>2, <1>6 DEF DeletionInv, Still, Uploads
    <3>2. \A d \in Docs \ Excepted' : <<admin.kb, d>> \notin rows'["chunks_index"]
      BY <1>10, <2>1, <2>3, <2>5 DEF Touched
    <3> QED BY <1>8, <3>1, <3>2 DEF DeletionInv
  <2>8. ZipInv'
    BY <1>1, <1>2, <1>8, <2>3 DEF ZipInv
  <2> QED BY <1>7, <2>3, <2>6, <2>7, <2>8 DEF ArchiveInv
<1> QED BY <1>3, <1>9, <1>10 DEF Touched

LEMMA StatementFailsKeeps ==
    ASSUME ArchiveInv, NEW step \in Tables \cup {"create", "row"}, DeletionFails(step) PROVE ArchiveInv'
<1>1. ArchiveTypes /\ AdminFits
  BY DEF ArchiveInv
<1>2. /\ admin.job = "delete" /\ admin.at = step /\ zip' = zip
      /\ admin' = (IF step = "row" THEN AtRest ELSE Unclean(Done))
      /\ torn' = (IF step = "chunks_index" THEN torn \cup Entries("chunks_index", admin.kb) ELSE torn)
      /\ UNCHANGED <<engines, at, locals, deployment, history>> /\ rows' = rows
  BY DEF DeletionFails, Doing, database
<1>3. Entries("chunks_index", admin.kb) = {d \in Docs : <<admin.kb, d>> \in rows["chunks_index"]}
  BY <1>1 DEF Entries, ArchiveTypes, Tables
<1>4. torn \subseteq torn' /\ torn' \subseteq Docs
  BY <1>1, <1>2, <1>3 DEF ArchiveTypes
<1>5. step = "chunks_index" => \A d \in Docs \ Excepted' : <<admin.kb, d>> \notin rows["chunks_index"]
  BY <1>2, <1>3 DEF Excepted
<1>6. Still /\ RowsStill /\ ZipTyped(zip') /\ EntriesStill
  BY <1>1, <1>2, <1>4, VarsStill, ZipIsTyped
<1>7. CASE step = "row"
  BY <1>2, <1>6, <1>7, RestKeeps
<1>8. CASE step # "row"
  <2>1. step # "next"
    BY <1>1, <1>2 DEF AdminFits, AdminSteps
  <2>2. Onward(admin') /\ AdminFits'
    BY <1>1, <1>2, <1>8, <2>1, OnwardFits
  <2> QED BY <1>2, <1>5, <1>6, <2>2, OnwardKeeps
<1> QED BY <1>7, <1>8

-----------------------------------------------------------------------------
(* Every step.                                                              *)

LEMMA AdministerKeeps == ASSUME ArchiveInv, Administer PROVE ArchiveInv'
<1>1. CASE \E k \in KBs : BeginExport(k) \/ BeginImport(k) \/ BeginDelete(k)
  BY <1>1, BeginExportKeeps, BeginImportKeeps, BeginDeleteKeeps
<1>2. CASE NextDocument \/ ListSlugs \/ ListFails \/ Downloaded \/ CreateRow \/ Imported \/ DeleteKBRow
  BY <1>2, NextDocumentKeeps, ListSlugsKeeps, CreateRowKeeps, RestsKeep
<1>3. CASE \E t \in Tables :
             TakeWide(t) \/ TakeOne(t) \/ TakeFails(t) \/ PutWide(t) \/ PutOne(t) \/ DeleteAllOf(t)
  BY <1>3, TakeWideKeeps, TakeOneKeeps, TakeFailsKeeps, PutWideKeeps, PutOneKeeps, DeleteAllOfKeeps
<1>4. CASE \E s \in Tables \cup {"create", "row"} : PutFails(s) \/ DeletionFails(s)
  BY <1>4, PutFailsKeeps, StatementFailsKeeps
<1> QED BY <1>1, <1>2, <1>3, <1>4 DEF Administer

LEMMA ServeKeeps == ASSUME ArchiveInv, Serve PROVE ArchiveInv'
<1>1. Beside
  BY ServeBeside DEF ArchiveInv
<1>2. PICK p \in Procs : Begin(p) \/ Step(p)
  BY DEF Serve
<1> QED BY <1>1, <1>2, BeginServed, StepServed

(* Nobody is served after a restart, and nothing is scoped.                 *)
LEMMA RestartAllKeeps == ASSUME ArchiveInv, RestartAll PROVE ArchiveInv'
<1>1. ArchiveTypes /\ RequestsFit /\ KnownInv /\ ChunksInv /\ ZipInv
  BY DEF ArchiveInv
<1>2. /\ Restart /\ admin' = AtRest /\ torn' = torn
      /\ zip' \in {zip, NoArchive}
  BY DEF RestartAll
<1>3. /\ rows' = rows /\ at' = [p \in Procs |-> "idle"] /\ UNCHANGED <<req, seen, deployment, home, removing>>
      /\ ingestKB' = Base /\ searchKB' = Base /\ chunkKB' = Base
  BY <1>2 DEF Restart, database, history
<1>4. AdminTyped(admin') /\ AdminFits'
  BY <1>2, RestFits
<1>5. /\ ZipTyped(zip') /\ zip'.entries["documents"] \subseteq zip.entries["documents"]
      /\ zip'.entries["chunks_index"] = {} \/ zip' = zip
  <2>1. CASE zip' = zip
    BY <1>1, <2>1, ZipIsTyped
  <2>2. CASE zip' = NoArchive
    <3>1. NoArchive.entries["documents"] = {} /\ NoArchive.entries["chunks_index"] = {}
      BY DEF NoArchive, NoEntries, Tables
    <3>2. ZipTyped(NoArchive)
      BY DEF ZipTyped, NoArchive, NoEntries
    <3> QED BY <2>2, <3>1, <3>2
  <2> QED BY <1>2, <2>1, <2>2
<1>6. ArchiveTypes'
  <2>1. /\ rows' \in [Tables -> SUBSET (KBs \X Docs)] /\ {ingestKB', searchKB', chunkKB'} \subseteq KBs
        /\ seen' \in [Procs -> SUBSET Docs] /\ deployment' \in Deployments
        /\ PageUploads(deployment') \/ (Unscoped(deployment') /\ ingestKB' = Base)
        /\ home' \in [Docs -> KBs \cup {"none"}] /\ removing' \subseteq Docs /\ torn' \subseteq Docs
    BY <1>1, <1>2, <1>3, NamesAssumption DEF ArchiveTypes
  <2>2. at' \in [Procs -> Steps]
    BY <1>3
  <2>3. req' \in [Procs -> [job : Jobs \cup {"none"}, kb : KBs, doc : Docs \cup {"none"}, old : Docs \cup {"none"}]]
    BY <1>1, <1>3 DEF ArchiveTypes
  <2> QED BY <1>4, <1>5, <2>1, <2>2, <2>3 DEF ArchiveTypes, AdminTyped, ZipTyped
<1>7. RequestsFit' /\ Excepted' = Excepted /\ \A p \in Procs : ~Uploads(p)'
  BY <1>2, <1>3 DEF RequestsFit, Fitting, Active, Uploads, Excepted
<1>8. KnownInv'
  <2>1. Known' \cap Docs \subseteq Known
    BY <1>2, <1>3, <1>5, NamesAssumption DEF Known, AtRest
  <2> QED BY <1>1, <1>3, <1>7, <2>1 DEF KnownInv
<1>9. ChunksInv' /\ DeletionInv' /\ ZipInv'
  BY <1>1, <1>2, <1>3, <1>5, <1>7 DEF ChunksInv, DeletionInv, ZipInv, AtRest
<1> QED BY <1>4, <1>6, <1>7, <1>8, <1>9 DEF ArchiveInv

LEMMA ArchiveInductive == ASSUME ArchiveInv, [ArchiveNext]_allVars PROVE ArchiveInv'
<1>1. CASE UNCHANGED allVars
  <2>1. UNCHANGED <<rows, ingestKB, searchKB, chunkKB, at, seen, req, deployment, home, removing, torn, admin, zip>>
    BY <1>1 DEF allVars, archiveVars, vars, database, engines, locals, history
  <2>2. ArchiveTypes' /\ RequestsFit' /\ AdminFits'
    BY <2>1 DEF ArchiveInv, ArchiveTypes, RequestsFit, Fitting, Active, AdminFits
  <2>3. KnownInv'
    BY <2>1 DEF ArchiveInv, KnownInv, Known, Uploads, Finds, Active
  <2>4. ChunksInv' /\ DeletionInv' /\ ZipInv'
    BY <2>1 DEF ArchiveInv, ChunksInv, DeletionInv, ZipInv, Excepted, Uploads
  <2> QED BY <2>2, <2>3, <2>4 DEF ArchiveInv
<1> QED BY <1>1, ServeKeeps, RestartAllKeeps, AdministerKeeps DEF ArchiveNext

(* A search that takes a document from its chunks index finds the chunks,   *)
(* however many uploads, removals, exports, imports and deletions overlap   *)
(* and whichever of their statements fail or crashes end: unless somebody   *)
(* began to remove it, one read or write of its chunks failed, or its       *)
(* knowledge base was deleted under its upload.                             *)
THEOREM IndexedCanBeRead == ASSUME Unsplit PROVE ArchiveSpec => []IndexedIsReadable
<1>1. ArchiveInit => ArchiveInv
  BY ArchiveStarts
<1>2. ArchiveInv /\ [ArchiveNext]_allVars => ArchiveInv'
  BY ArchiveInductive
<1>3. ArchiveInv => IndexedIsReadable
  <2> SUFFICES ASSUME ArchiveInv, NEW r \in rows["chunks_index"], r[2] \notin removing \cup torn
               PROVE  r \in rows["chunks"]
    BY DEF IndexedIsReadable
  <2>1. r \in KBs \X Docs
    BY DEF ArchiveInv, ArchiveTypes, Tables
  <2>2. r = <<r[1], r[2]>> /\ r[1] \in KBs /\ r[2] \in Docs \ Excepted
    BY <2>1 DEF Excepted
  <2> QED BY <2>2 DEF ArchiveInv, ChunksInv
<1> QED BY <1>1, <1>2, <1>3, PTL DEF ArchiveSpec

-----------------------------------------------------------------------------
(* Deleted knowledge bases. What follows holds where every request scopes   *)
(* the Store and no vectors are there for WithKB to answer from: else a     *)
(* request writes where an earlier one has pointed the engines.             *)

ScopedPlain == \A x \in Deployments : ~x.embeds /\ \A ask \in x.asks : ask[2] # Base

Names == Docs \cup {"none"}
GoneTypes ==
    /\ rows \in [Tables -> SUBSET (KBs \X Names)] /\ {ingestKB, searchKB, chunkKB} \subseteq KBs
    /\ gob = {} /\ cached = {} /\ ~deployment.embeds /\ \A ask \in deployment.asks : ask[2] # Base
    /\ at \in [Procs -> Steps] /\ seen \in [Procs -> SUBSET Names]
    /\ req \in [Procs -> [job : Jobs \cup {"none"}, kb : KBs, doc : Names, old : Names]]
    /\ admin \in [job : {"none", "export", "import", "delete"}, kb : KBs, at : {admin.at},
                  left : SUBSET Names, doc : Names, clean : BOOLEAN]
    /\ zip \in [ready : BOOLEAN, files : SUBSET Tables, entries : [Tables -> SUBSET Names], whole : {zip.whole}]
    /\ kbRow \in [KBs -> {"absent", "there", "indexed"}] /\ gone \subseteq KBs \ {Base}
    /\ deployment \in Deployments
    /\ \A p \in Procs : at[p] # "idle" => <<req[p].job, req[p].kb>> \in deployment.asks

NoRows(t, k) == \A r \in rows[t] : r[1] # k

(* The tables a deletion has emptied at each of its steps.                  *)
Emptied ==
    [postings |-> {}, chunks_index |-> {"postings"}, sections |-> {"postings", "chunks_index"},
     chunks |-> {"postings", "chunks_index", "sections"},
     documents |-> {"postings", "chunks_index", "sections", "chunks"}, row |-> Tables \ {"index"}]
EmptiedInv ==
    admin.job = "delete" =>
        /\ admin.kb # Base /\ admin.at \in DOMAIN Emptied
        /\ admin.clean => Quiet /\ \A t \in Emptied[admin.at] : NoRows(t, admin.kb)

(* Whoever has scoped the Store past an engine has pointed it elsewhere.    *)
Elsewhere(k, p) ==
    at[p] # "idle" =>
        /\ req[p].kb # k
        /\ at[p] \notin {"scope", "ingest"} => ingestKB # k
        /\ at[p] \notin {"scope", "ingest", "search"} => searchKB # k
        /\ at[p] \notin Scopes => chunkKB # k
GoneInv ==
    \A k \in gone :
        /\ kbRow[k] = "absent" /\ \A t \in Tables : NoRows(t, k)
        /\ ~(admin.job = "import" /\ admin.kb = k)
        /\ \A p \in Procs : Elsewhere(k, p)

DeletedInv == GoneTypes /\ EmptiedInv /\ GoneInv

LEMMA DeletedStarts == ASSUME ScopedPlain, ArchiveInit PROVE DeletedInv
<1>1. /\ rows \in [Tables -> SUBSET (KBs \X Names)] /\ {ingestKB, searchKB, chunkKB} \subseteq KBs
      /\ gob = {} /\ cached = {} /\ deployment \in Deployments
      /\ at \in [Procs -> Steps] /\ seen \in [Procs -> SUBSET Names]
  BY NamesAssumption DEF ArchiveInit, Init
<1>2. ~deployment.embeds /\ \A ask \in deployment.asks : ask[2] # Base
  BY <1>1 DEF ScopedPlain
<1>3. req \in [Procs -> [job : Jobs \cup {"none"}, kb : KBs, doc : Names, old : Names]]
  BY NamesAssumption DEF ArchiveInit, Init, NoRequest, Names
<1>4. admin \in [job : {"none", "export", "import", "delete"}, kb : KBs, at : {admin.at},
                 left : SUBSET Names, doc : Names, clean : BOOLEAN]
  BY NamesAssumption DEF ArchiveInit, AtRest, Names
<1>5. zip \in [ready : BOOLEAN, files : SUBSET Tables, entries : [Tables -> SUBSET Names], whole : {zip.whole}]
  BY DEF ArchiveInit, NoArchive, NoEntries
<1>6. kbRow \in [KBs -> {"absent", "there", "indexed"}] /\ gone = {}
  BY DEF ArchiveInit
<1>7. EmptiedInv /\ GoneInv
  BY <1>6 DEF EmptiedInv, GoneInv, ArchiveInit, AtRest
<1>8. \A p \in Procs : at[p] = "idle"
  BY DEF ArchiveInit, Init
<1> QED BY <1>1, <1>2, <1>3, <1>4, <1>5, <1>6, <1>7, <1>8 DEF DeletedInv, GoneTypes

(* Where a request's steps take it.                                         *)
StaysOut(p) ==
    /\ req' = req /\ deployment' = deployment /\ at' \in [Procs -> Steps]
    /\ \A q \in Procs \ {p} : at'[q] = at[q]
    /\ at[p] # "idle"
    /\ \/ at[p] \notin Scopes /\ at'[p] \notin Scopes
       \/ at[p] \in {"scope", "ingest", "search"} /\ at'[p] = Following[at[p]]
       \/ at[p] = "chunk" /\ (at'[p] = "scope" \/ at'[p] \notin Scopes)

LEMMA ContinueOut ==
    ASSUME GoneTypes, NEW p \in Procs, at[p] \in DOMAIN Following, Continue(p), UNCHANGED <<req, deployment>>,
           at[p] # "chunk"
    PROVE  StaysOut(p)
<1>1. at[p] \in Steps \ {"idle", "check", "retag", "chunk", "abort", "uploaded", "removed"}
  BY DEF GoneTypes, Following, Scoping, Upload, Removal
<1>2. at' = [at EXCEPT ![p] = Following[at[p]]]
  BY DEF Continue, Goto
<1>3. at' \in [Procs -> Steps] /\ at'[p] = Following[at[p]] /\ \A q \in Procs \ {p} : at'[q] = at[q]
  BY <1>1, <1>2, FollowingIs DEF GoneTypes
<1>4. at[p] \notin Scopes => at'[p] \notin Scopes
  BY <1>1, <1>3, FollowingIs
<1> QED BY <1>1, <1>3, <1>4 DEF StaysOut

LEMMA GotoOut ==
    ASSUME GoneTypes, NEW p \in Procs, NEW s \in Steps, Goto(p, s), UNCHANGED <<req, deployment>>, at[p] # "idle",
           \/ at[p] \notin Scopes /\ s \notin Scopes
           \/ at[p] = "chunk" /\ (s = "scope" \/ s \notin Scopes)
    PROVE  StaysOut(p)
<1>1. at' = [at EXCEPT ![p] = s]
  BY DEF Goto
<1>2. at' \in [Procs -> Steps] /\ at'[p] = s /\ \A q \in Procs \ {p} : at'[q] = at[q]
  BY <1>1 DEF GoneTypes
<1> QED BY <1>2 DEF StaysOut

LEMMA StepOut == ASSUME GoneTypes, NEW p \in Procs, Step(p) PROVE StaysOut(p)
<1> DEFINE Same == UNCHANGED <<req, deployment>>
<1>1. at[p] # "idle" => req[p].job \in Jobs
  <2>1. deployment.asks \in SUBSET (Jobs \X KBs)
    <3>1. deployment \in Deployments
      BY DEF GoneTypes
    <3> QED BY <3>1, DeploymentsAssumption
  <2> QED BY <2>1 DEF GoneTypes
<1>2. CASE Scope(p) \/ SetIngestKB(p) \/ SetSearchKB(p)
  <2>1. at[p] \in {"scope", "ingest", "search"} /\ Same /\ Continue(p)
    BY <1>2 DEF Scope, SetIngestKB, SetSearchKB, locals, GoneTypes
  <2>2. at[p] \in DOMAIN Following
    BY <2>1 DEF Following, Scoping
  <2> QED BY <2>1, <2>2, ContinueOut
<1>3. CASE SetChunkKB(p)
  <2>1. at[p] = "chunk" /\ Same /\ Goto(p, IF p \in again THEN "scope" ELSE FirstStep(req[p].job))
    BY <1>3 DEF SetChunkKB, EndScoping
  <2>2. FirstStep(req[p].job) \in {"lock", "lockRemoval", "check"}
    BY <1>1, <2>1 DEF FirstStep, Jobs
  <2> DEFINE s == IF p \in again THEN "scope" ELSE FirstStep(req[p].job)
  <2>3. s \in {"scope", "lock", "lockRemoval", "check"} /\ Goto(p, s)
    BY <2>1, <2>2
  <2> HIDE DEF s
  <2> QED BY <2>1, <2>3, GotoOut
<1>4. CASE AnswerUploaded(p) \/ AnswerFailed(p) \/ AnswerRemoved(p) \/ ParseFails(p) \/ Retag(p)
  <2>1. at[p] \in {"uploaded", "abort", "removed", "chunks", "retag"} /\ Same
    BY <1>4 DEF AnswerUploaded, AnswerFailed, AnswerRemoved, ParseFails, Retag, Unlock, locals
  <2>2. Goto(p, "idle") \/ Goto(p, "lock") \/ Goto(p, "abort")
    BY <1>4 DEF AnswerUploaded, AnswerFailed, AnswerRemoved, ParseFails, Retag, Unlock
  <2> QED BY <2>1, <2>2, GotoOut
<1>5. CASE CheckListed(p)
  <2>1. at[p] = "check" /\ Same
    BY <1>5 DEF CheckListed, locals
  <2>2. Goto(p, "idle") \/ Goto(p, "lockRemoval") \/ Goto(p, "retag")
    BY <1>5 DEF CheckListed
  <2> QED BY <2>1, <2>2, GotoOut
<1>6. CASE Lock(p) \/ FindForRemoval(p) \/ FindFails(p) \/ UpdateInvertedIndex(p) \/ SaveVectors(p)
           \/ UpdateIndex(p) \/ RemoveFromIndex(p) \/ IndexKept(p)
  <2>1. /\ at[p] \in {"lock", "lockRemoval", "find", "postings", "vectors", "index", "dropIndex"}
        /\ Continue(p) /\ Same
    BY <1>6 DEF Lock, FindForRemoval, FindFails, UpdateInvertedIndex, SaveVectors, UpdateIndex,
                RemoveFromIndex, IndexKept, locals
  <2>2. at[p] \in DOMAIN Following
    BY <2>1 DEF Following, Upload, Removal
  <2> QED BY <2>1, <2>2, ContinueOut
<1>7. ASSUME NEW t \in Tables, WriteRow(p, t) \/ WriteFails(p, t) PROVE StaysOut(p)
  <2>1. at[p] = t /\ Same
    BY <1>7 DEF WriteRow, WriteFails, locals
  <2>2. Goto(p, "abort") \/ Goto(p, "source") \/ Continue(p)
    BY <1>7 DEF WriteRow, WriteFails
  <2>3. t \in DOMAIN Following /\ t \notin Scopes /\ t # "idle"
    BY DEF Following, Upload, Tables, Columns
  <2>4. CASE Continue(p)
    BY <2>1, <2>3, <2>4, ContinueOut
  <2>5. CASE Goto(p, "abort")
    BY <2>1, <2>3, <2>5, GotoOut
  <2>6. CASE Goto(p, "source")
    BY <2>1, <2>3, <2>6, GotoOut
  <2> QED BY <2>2, <2>4, <2>5, <2>6
<1>8. ASSUME NEW t \in Tables, ReadEntries(p, t) \/ ReadFails(p, t) \/ DeleteRows(p, t) \/ DeleteFails(p, t)
      PROVE  StaysOut(p)
  <2>1. at[p] \in {"readPostings", "readIndex", "findIndex", "dropPostings", "dropChunksIndex", "dropSections",
                   "dropChunks", "dropDocuments"} /\ Same
    BY <1>8 DEF ReadEntries, ReadFails, Reading, DeleteRows, DeleteFails, Deleting
  <2>2. at[p] \in DOMAIN Following
    BY <2>1 DEF Following, Upload, Removal
  <2>3. Continue(p) \/ Goto(p, "removed") \/ Goto(p, "abort")
    BY <1>8 DEF ReadEntries, ReadFails, DeleteRows, DeleteFails, AfterDeletion, Continue
  <2>4. CASE Continue(p)
    BY <2>1, <2>2, <2>4, ContinueOut
  <2>5. CASE Goto(p, "removed")
    BY <2>1, <2>5, GotoOut
  <2>6. CASE Goto(p, "abort")
    BY <2>1, <2>6, GotoOut
  <2> QED BY <2>3, <2>4, <2>5, <2>6
<1> QED BY <1>2, <1>3, <1>4, <1>5, <1>6, <1>7, <1>8 DEF Step

(* What they write: rows of the knowledge bases the engines point at, of    *)
(* the one the request is for, and of the flat one.                         *)
Target(p, k) ==
    \/ k = Base \/ k = req[p].kb
    \/ at[p] \notin Scopes /\ k \in {ingestKB, searchKB, chunkKB}
AddsAt(p) ==
    /\ rows' \in [Tables -> SUBSET (KBs \X Names)]
    /\ \A t \in Tables : \A r \in rows'[t] : r \in rows[t] \/ Target(p, r[1])

LEMMA InsertAdds ==
    ASSUME GoneTypes, NEW p \in Procs, NEW t \in Tables, NEW k \in KBs, NEW d \in Names, Insert(t, k, d), Target(p, k)
    PROVE  AddsAt(p)
<1>1. rows \in [Tables -> SUBSET (KBs \X Names)]
  BY DEF GoneTypes
<1>2. rows' \in [Tables -> SUBSET (KBs \X Names)]
  BY <1>1 DEF Insert
<1>3. \A x \in Tables : \A r \in rows'[x] : r \in rows[x] \/ r = <<k, d>>
  BY <1>1 DEF Insert
<1> QED BY <1>2, <1>3 DEF AddsAt

LEMMA OverwriteAdds ==
    ASSUME GoneTypes, NEW p \in Procs, NEW t \in Tables, NEW k \in KBs, NEW S \in SUBSET Names, Overwrite(t, k, S),
           Target(p, k)
    PROVE  AddsAt(p)
<1>1. rows \in [Tables -> SUBSET (KBs \X Names)]
  BY DEF GoneTypes
<1>2. rows' \in [Tables -> SUBSET (KBs \X Names)]
  BY <1>1 DEF Overwrite
<1>3. \A x \in Tables : \A r \in rows'[x] : r \in rows[x] \/ r \in {k} \X S
  BY <1>1 DEF Overwrite
<1>4. \A r \in {k} \X S : r[1] = k
  OBVIOUS
<1> QED BY <1>2, <1>3, <1>4 DEF AddsAt

LEMMA StepAdds == ASSUME GoneTypes, NEW p \in Procs, Step(p) PROVE AddsAt(p)
<1>1. /\ req[p].kb \in KBs /\ Base \in KBs /\ {ingestKB, searchKB, chunkKB} \subseteq KBs
      /\ req[p].doc \in Names /\ req[p].old \in Names /\ seen[p] \subseteq Names
      /\ rows \in [Tables -> SUBSET (KBs \X Names)]
  BY NamesAssumption DEF GoneTypes
<1>2. \A t \in Tables : KBFor(p, t) \in {chunkKB, searchKB, req[p].kb, ingestKB, Base}
  BY DEF KBFor
<1>3. ASSUME NEW t \in Tables, WriteRow(p, t) PROVE AddsAt(p)
  <2>1. at[p] = t /\ t \notin Scopes
    BY <1>3 DEF WriteRow, Tables, Columns
  <2>2. KBFor(p, t) \in KBs /\ Target(p, KBFor(p, t))
    BY <1>1, <1>2, <2>1 DEF Target
  <2>3. rows' = rows \/ Insert(t, KBFor(p, t), req[p].doc)
    BY <1>3 DEF WriteRow
  <2> QED BY <1>1, <2>2, <2>3, InsertAdds DEF AddsAt
<1>4. ASSUME NEW t \in Tables, DeleteRows(p, t) PROVE AddsAt(p)
  BY <1>1, <1>4 DEF DeleteRows, AddsAt
<1>5. CASE Retag(p)
  <2>1. at[p] \notin Scopes /\ Insert("documents", chunkKB, req[p].old) /\ "documents" \in Tables
    BY <1>5 DEF Retag, Tables
  <2> QED BY <1>1, <2>1, InsertAdds DEF Target
<1>6. CASE UpdateInvertedIndex(p)
  <2>1. at[p] \notin Scopes /\ "postings" \in Tables
    BY <1>6 DEF UpdateInvertedIndex, Tables
  <2>2. (seen[p] \ {req[p].doc}) \cup ({req[p].doc} \cap Entries("chunks_index", chunkKB)) \in SUBSET Names
    BY <1>1
  <2> QED BY <1>1, <1>6, <2>1, <2>2, OverwriteAdds DEF UpdateInvertedIndex, Target
<1>7. CASE UpdateIndex(p) \/ RemoveFromIndex(p)
  <2>1. at[p] \notin Scopes /\ "index" \in Tables
    BY <1>7 DEF UpdateIndex, RemoveFromIndex, Tables
  <2>2. \E S \in SUBSET Names : Overwrite("index", chunkKB, S)
    BY <1>1, <1>7 DEF UpdateIndex, RemoveFromIndex
  <2> QED BY <1>1, <2>1, <2>2, OverwriteAdds DEF Target
<1>8. ASSUME \A t \in Tables : ~WriteRow(p, t) /\ ~DeleteRows(p, t),
             ~(Retag(p) \/ UpdateInvertedIndex(p) \/ UpdateIndex(p) \/ RemoveFromIndex(p))
      PROVE  rows' = rows
  BY <1>8 DEF Step, Scope, SetIngestKB, SetSearchKB, SetChunkKB, Lock, AnswerUploaded, AnswerRemoved,
              AnswerFailed, Unlock, ParseFails, WriteFails, ReadEntries, ReadFails, DeleteFails, SaveVectors,
              FindForRemoval, FindFails, IndexKept, CheckListed, database
<1> QED BY <1>1, <1>3, <1>4, <1>5, <1>6, <1>7, <1>8 DEF AddsAt

(* Where the engines point afterwards: nothing else is pointed but by the   *)
(* steps of WithKB, as nothing is cached.                                   *)
Points(p) ==
    /\ ingestKB' = IF at[p] = "ingest" THEN req[p].kb ELSE ingestKB
    /\ searchKB' = IF at[p] = "search" THEN req[p].kb ELSE searchKB
    /\ chunkKB' = IF at[p] = "chunk" THEN req[p].kb ELSE chunkKB
    /\ gob' = {} /\ cached' = {} /\ seen' \in [Procs -> SUBSET Names]

LEMMA StepPoints == ASSUME GoneTypes, NEW p \in Procs, Step(p) PROVE Points(p)
<1>1. gob = {} /\ cached = {} /\ seen \in [Procs -> SUBSET Names] /\ ~deployment.embeds
  BY DEF GoneTypes
<1>2. CASE Scope(p) \/ SetIngestKB(p) \/ SetSearchKB(p) \/ SetChunkKB(p)
  BY <1>1, <1>2 DEF Scope, SetIngestKB, SetSearchKB, SetChunkKB, Points, database, locals
<1>3. ASSUME NEW t \in Tables, ReadEntries(p, t) \/ ReadFails(p, t) PROVE Points(p)
  <2>1. rows \in [Tables -> SUBSET (KBs \X Names)]
    BY DEF GoneTypes
  <2>2. Entries(t, KBFor(p, t)) \subseteq Names
    BY <2>1 DEF Entries
  <2>3. \E S \in SUBSET Names : seen' = [seen EXCEPT ![p] = S]
    BY <1>3, <2>2 DEF ReadEntries, ReadFails
  <2>4. seen' \in [Procs -> SUBSET Names]
    BY <1>1, <2>3
  <2>5. at[p] \notin Scopes /\ UNCHANGED <<database, engines>>
    BY <1>3 DEF ReadEntries, ReadFails, Reading
  <2> QED BY <1>1, <2>4, <2>5 DEF Points, database, engines
<1>4. CASE SaveVectors(p)
  BY <1>1, <1>4 DEF SaveVectors, Points, locals
<1>5. ASSUME ~(Scope(p) \/ SetIngestKB(p) \/ SetSearchKB(p) \/ SetChunkKB(p) \/ SaveVectors(p)),
             \A t \in Tables : ~ReadEntries(p, t) /\ ~ReadFails(p, t)
      PROVE  UNCHANGED <<gob, cached, ingestKB, searchKB, chunkKB, seen>> /\ at[p] \notin Scopes
  <2>1. UNCHANGED <<gob, cached, ingestKB, searchKB, chunkKB, seen>>
    BY <1>5 DEF Step, Lock, AnswerUploaded, AnswerRemoved, AnswerFailed, Unlock, ParseFails,
                WriteRow, WriteFails, DeleteRows, DeleteFails, UpdateInvertedIndex, UpdateIndex,
                FindForRemoval, FindFails, RemoveFromIndex, IndexKept, CheckListed, Retag,
                database, engines, locals
  <2>2. at[p] \notin Scopes
    BY <1>5 DEF Step, Lock, AnswerUploaded, AnswerRemoved, AnswerFailed, ParseFails,
                WriteRow, WriteFails, DeleteRows, DeleteFails, Deleting, UpdateInvertedIndex, UpdateIndex,
                FindForRemoval, FindFails, RemoveFromIndex, IndexKept, CheckListed, Retag, Tables, Columns
  <2> QED BY <2>1, <2>2
<1> QED BY <1>1, <1>2, <1>3, <1>4, <1>5 DEF Points

(* A request arrives, and will scope the Store.                             *)
Arrives(p) ==
    /\ \E r \in [job : Jobs, kb : KBs, doc : Names, old : Names] :
          <<r.job, r.kb>> \in deployment.asks /\ req' = [req EXCEPT ![p] = r]
    /\ at' = [at EXCEPT ![p] = "scope"] /\ seen' = [seen EXCEPT ![p] = {}]
    /\ UNCHANGED <<rows, gob, cached, ingestKB, searchKB, chunkKB, deployment>>

LEMMA BeginArrives == ASSUME GoneTypes, NEW p \in Procs, Begin(p) PROVE Arrives(p)
<1>1. PICK r \in [job : Jobs, kb : KBs, doc : Names, old : Names] : Begins(p, r)
  <2>1. PICK k \in KBs, d \in Docs :
          \/ \E job \in {"web", "engine"} : BeginUpload(p, job, k, d)
          \/ BeginRemove(p, k, d)
          \/ \E new \in Docs : BeginReplace(p, k, d, new)
          \/ BeginTags(p, k, d)
    BY DEF Begin
  <2>2. ASSUME NEW job \in {"web", "engine"}, BeginUpload(p, job, k, d)
        PROVE  \E r \in [job : Jobs, kb : KBs, doc : Names, old : Names] : Begins(p, r)
    <3>1. [job |-> job, kb |-> k, doc |-> d, old |-> "none"] \in [job : Jobs, kb : KBs, doc : Names, old : Names]
      BY DEF Jobs, Names
    <3> QED BY <2>2, <3>1 DEF BeginUpload
  <2>3. CASE BeginRemove(p, k, d)
    <3>1. [job |-> "remove", kb |-> k, doc |-> "none", old |-> d] \in [job : Jobs, kb : KBs, doc : Names, old : Names]
      BY DEF Jobs, Names
    <3> QED BY <2>3, <3>1 DEF BeginRemove
  <2>4. ASSUME NEW new \in Docs, BeginReplace(p, k, d, new)
        PROVE  \E r \in [job : Jobs, kb : KBs, doc : Names, old : Names] : Begins(p, r)
    <3>1. [job |-> "replace", kb |-> k, doc |-> new, old |-> d] \in [job : Jobs, kb : KBs, doc : Names, old : Names]
      BY DEF Jobs, Names
    <3> QED BY <2>4, <3>1 DEF BeginReplace
  <2>5. CASE BeginTags(p, k, d)
    <3>1. [job |-> "tags", kb |-> k, doc |-> "none", old |-> d] \in [job : Jobs, kb : KBs, doc : Names, old : Names]
      BY DEF Jobs, Names
    <3> QED BY <2>5, <3>1 DEF BeginTags
  <2> QED BY <2>1, <2>2, <2>3, <2>4, <2>5
<1>2. r.kb # Base
  BY <1>1 DEF Begins, GoneTypes
<1>3. /\ <<r.job, r.kb>> \in deployment.asks /\ req' = [req EXCEPT ![p] = r]
      /\ at' = [at EXCEPT ![p] = "scope"] /\ seen' = [seen EXCEPT ![p] = {}]
      /\ UNCHANGED <<rows, gob, cached, ingestKB, searchKB, chunkKB, deployment>>
  BY <1>1, <1>2 DEF Begins, Goto, database, engines
<1> QED BY <1>3 DEF Arrives

(* Neither a step nor an arrival writes to or points at a knowledge base    *)
(* that stays deleted.                                                      *)
LEMMA StepSpares ==
    ASSUME GoneTypes, GoneInv, NEW p \in Procs, StaysOut(p), AddsAt(p), Points(p),
           NEW k \in gone, \A q \in Procs : req'[q].kb # k
    PROVE  /\ \A t \in Tables : NoRows(t, k)'
           /\ \A q \in Procs : Elsewhere(k, q)'
<1>1. /\ k \in KBs \ {Base} /\ \A t \in Tables : NoRows(t, k)
      /\ \A q \in Procs : Elsewhere(k, q)
      /\ \A q \in Procs : req[q].kb # k /\ req' = req
  BY DEF GoneTypes, GoneInv, StaysOut
<1>2. ~Target(p, k)
  BY <1>1 DEF Target, Elsewhere, StaysOut
<1>3. \A t \in Tables : NoRows(t, k)'
  BY <1>1, <1>2 DEF AddsAt, NoRows
<1>4. \A q \in Procs \ {p} : Elsewhere(k, q)'
  BY <1>1 DEF Elsewhere, StaysOut, Points
<1>5. Elsewhere(k, p)'
  <2>1. CASE at[p] \notin Scopes /\ at'[p] \notin Scopes
    BY <1>1, <2>1 DEF Elsewhere, StaysOut, Points
  <2>2. CASE at[p] \in {"scope", "ingest", "search"} /\ at'[p] = Following[at[p]]
    BY <1>1, <2>2, FollowingIs DEF Elsewhere, Points
  <2>3. CASE at[p] = "chunk" /\ (at'[p] = "scope" \/ at'[p] \notin Scopes)
    BY <1>1, <2>3 DEF Elsewhere, Points
  <2> QED BY <2>1, <2>2, <2>3 DEF StaysOut
<1> QED BY <1>3, <1>4, <1>5

LEMMA ArrivalSpares ==
    ASSUME GoneTypes, GoneInv, NEW p \in Procs, Arrives(p), NEW k \in gone, \A q \in Procs : req'[q].kb # k
    PROVE  /\ \A t \in Tables : NoRows(t, k)'
           /\ \A q \in Procs : Elsewhere(k, q)'
<1>1. (\A t \in Tables : NoRows(t, k)) /\ \A q \in Procs : Elsewhere(k, q)
  BY DEF GoneInv
<1>2. \A q \in Procs : (q = p /\ at'[q] = "scope") \/ at'[q] = at[q]
  BY DEF Arrives, GoneTypes
<1>3. UNCHANGED <<rows, ingestKB, searchKB, chunkKB>>
  BY DEF Arrives
<1> QED BY <1>1, <1>2, <1>3 DEF NoRows, Elsewhere

LEMMA ServeTypes ==
    ASSUME GoneTypes, Serve, NEW p \in Procs, (StaysOut(p) /\ AddsAt(p) /\ Points(p)) \/ Arrives(p)
    PROVE  GoneTypes'
<1>1. admin' \in {admin, Unclean(admin)} /\ zip' = zip /\ gone' \subseteq gone
      /\ kbRow' \in {kbRow, [kbRow EXCEPT ![chunkKB] = "indexed"]}
  BY DEF Serve
<1>2. /\ admin' \in [job : {"none", "export", "import", "delete"}, kb : KBs, at : {admin'.at},
                     left : SUBSET Names, doc : Names, clean : BOOLEAN]
  <2>1. CASE admin' = admin
    BY <2>1 DEF GoneTypes
  <2>2. CASE admin' = Unclean(admin)
    BY <2>2 DEF GoneTypes, Unclean
  <2> QED BY <1>1, <2>1, <2>2
<1>3. zip' \in [ready : BOOLEAN, files : SUBSET Tables, entries : [Tables -> SUBSET Names], whole : {zip'.whole}]
  BY <1>1 DEF GoneTypes
<1>4. kbRow' \in [KBs -> {"absent", "there", "indexed"}] /\ gone' \subseteq KBs \ {Base}
  BY <1>1 DEF GoneTypes
<1>5. /\ rows' \in [Tables -> SUBSET (KBs \X Names)] /\ {ingestKB', searchKB', chunkKB'} \subseteq KBs
      /\ gob' = {} /\ cached' = {} /\ deployment' = deployment
      /\ seen' \in [Procs -> SUBSET Names]
  <2>1. CASE StaysOut(p) /\ AddsAt(p) /\ Points(p)
    BY <2>1 DEF GoneTypes, StaysOut, AddsAt, Points
  <2>2. CASE Arrives(p)
    BY <2>2 DEF GoneTypes, Arrives
  <2> QED BY <2>1, <2>2
<1>6. /\ at' \in [Procs -> Steps]
      /\ req' \in [Procs -> [job : Jobs \cup {"none"}, kb : KBs, doc : Names, old : Names]]
      /\ \A q \in Procs : at'[q] # "idle" => <<req'[q].job, req'[q].kb>> \in deployment.asks
  <2>1. CASE StaysOut(p) /\ AddsAt(p) /\ Points(p)
    BY <2>1 DEF GoneTypes, StaysOut
  <2>2. CASE Arrives(p)
    <3>1. PICK r \in [job : Jobs, kb : KBs, doc : Names, old : Names] :
            <<r.job, r.kb>> \in deployment.asks /\ req' = [req EXCEPT ![p] = r]
      BY <2>2 DEF Arrives
    <3>2. r \in [job : Jobs \cup {"none"}, kb : KBs, doc : Names, old : Names]
      OBVIOUS
    <3>3. at' = [at EXCEPT ![p] = "scope"]
      BY <2>2 DEF Arrives
    <3> QED BY <3>1, <3>2, <3>3 DEF GoneTypes
  <2> QED BY <2>1, <2>2
<1> QED BY <1>2, <1>3, <1>4, <1>5, <1>6 DEF GoneTypes

LEMMA ServeSpares == ASSUME DeletedInv, Serve PROVE DeletedInv'
<1>1. GoneTypes /\ EmptiedInv /\ GoneInv
  BY DEF DeletedInv
<1>2. PICK p \in Procs : Begin(p) \/ Step(p)
  BY DEF Serve
<1>3. (StaysOut(p) /\ AddsAt(p) /\ Points(p)) \/ Arrives(p)
  BY <1>1, <1>2, StepOut, StepAdds, StepPoints, BeginArrives
<1>4. GoneTypes'
  BY <1>1, <1>3, ServeTypes
<1>5. admin' = (IF admin = AtRest THEN admin ELSE Unclean(admin)) /\ gone' = gone \ {req'[q].kb : q \in Procs}
  BY DEF Serve
<1>6. EmptiedInv'
  <2>1. admin' \in {AtRest, Unclean(admin)}
    BY <1>5
  <2>2. admin' = AtRest => admin'.job = "none"
    BY DEF AtRest
  <2>3. admin' = Unclean(admin) =>
            admin'.job = admin.job /\ admin'.kb = admin.kb /\ admin'.at = admin.at /\ admin'.clean = FALSE
    BY <1>1 DEF Unclean, GoneTypes
  <2> QED BY <1>1, <2>1, <2>2, <2>3 DEF EmptiedInv
<1>7. ASSUME NEW k \in gone'
      PROVE  /\ kbRow'[k] = "absent" /\ \A t \in Tables : NoRows(t, k)'
             /\ ~(admin'.job = "import" /\ admin'.kb = k)
             /\ \A q \in Procs : Elsewhere(k, q)'
  <2>1. k \in gone /\ \A q \in Procs : req'[q].kb # k
    BY <1>5, <1>7
  <2>2. (\A t \in Tables : NoRows(t, k)') /\ \A q \in Procs : Elsewhere(k, q)'
    BY <1>1, <1>3, <2>1, StepSpares, ArrivalSpares
  <2>3. kbRow'[k] = "absent"
    <3>1. kbRow[k] = "absent" /\ \A q \in Procs : Elsewhere(k, q)
      BY <1>1, <2>1 DEF GoneInv
    <3>2. IndexWritten => chunkKB # k
      BY <3>1 DEF IndexWritten, Elsewhere
    <3>3. kbRow' = IF IndexWritten THEN [kbRow EXCEPT ![chunkKB] = "indexed"] ELSE kbRow
      BY DEF Serve
    <3> HIDE DEF IndexWritten
    <3> QED BY <1>1, <2>1, <3>1, <3>2, <3>3 DEF GoneTypes
  <2>4. admin'.job = admin.job /\ admin'.kb = admin.kb
    BY <1>1, <1>5 DEF Unclean, GoneTypes
  <2> QED BY <1>1, <2>1, <2>2, <2>3, <2>4 DEF GoneInv
<1>8. GoneInv'
  BY <1>7 DEF GoneInv
<1> QED BY <1>4, <1>6, <1>8 DEF DeletedInv

(* The administrator's requests touch neither engines nor requests.         *)
Apart == UNCHANGED <<gob, cached, ingestKB, searchKB, chunkKB, at, req, seen, deployment>>
OrderTyped(a) ==
    a \in [job : {"none", "export", "import", "delete"}, kb : KBs, at : {a.at},
           left : SUBSET Names, doc : Names, clean : BOOLEAN]
ArchiveTyped(z) ==
    z \in [ready : BOOLEAN, files : SUBSET Tables, entries : [Tables -> SUBSET Names], whole : {z.whole}]
RowTyped(f) == f \in [KBs -> {"absent", "there", "indexed"}]
MineToFill(k) == admin.job = "import" /\ k = admin.kb

LEMMA ApartSpares ==
    ASSUME DeletedInv, Apart, OrderTyped(admin'), ArchiveTyped(zip'), RowTyped(kbRow'), gone' \subseteq gone,
           rows' \in [Tables -> SUBSET (KBs \X Names)],
           \A t \in Tables : \A r \in rows'[t] : r \in rows[t] \/ MineToFill(r[1]),
           \A k \in KBs : kbRow[k] = "absent" => kbRow'[k] = "absent" \/ MineToFill(k),
           \A k \in gone' : ~(admin'.job = "import" /\ admin'.kb = k),
           EmptiedInv'
    PROVE  DeletedInv'
<1>1. GoneTypes /\ GoneInv
  BY DEF DeletedInv
<1>2. GoneTypes'
  BY <1>1 DEF GoneTypes, Apart, OrderTyped, ArchiveTyped, RowTyped
<1>3. ASSUME NEW k \in gone'
      PROVE  /\ kbRow'[k] = "absent" /\ \A t \in Tables : NoRows(t, k)'
             /\ \A q \in Procs : Elsewhere(k, q)'
  <2>1. /\ k \in KBs /\ kbRow[k] = "absent" /\ \A t \in Tables : NoRows(t, k)
        /\ ~MineToFill(k) /\ \A q \in Procs : Elsewhere(k, q)
    BY <1>1, <1>3 DEF GoneTypes, GoneInv, MineToFill
  <2>2. \A t \in Tables : NoRows(t, k)'
    BY <2>1 DEF NoRows
  <2>3. \A q \in Procs : Elsewhere(k, q)'
    BY <2>1 DEF Elsewhere, Apart
  <2> QED BY <2>1, <2>2, <2>3
<1>4. GoneInv'
  BY <1>3 DEF GoneInv
<1> QED BY <1>2, <1>4 DEF DeletedInv

(* What a step of the administrator's makes of his request.                 *)
OrderGoes(a) == OrderTyped(a) /\ (a.job = "none" \/ (a.job = admin.job /\ a.kb = admin.kb))

LEMMA OrderGoesOn ==
    ASSUME GoneTypes
    PROVE  /\ OrderGoes(AtRest) /\ OrderGoes(Done) /\ OrderGoes(Unclean(Done))
           /\ \A L \in SUBSET Names : OrderGoes([Done EXCEPT !.left = L])
           /\ \A d \in Names : OrderGoes([Done EXCEPT !.left = @ \ {d}, !.doc = d])
           /\ Done.job = admin.job /\ Done.kb = admin.kb /\ Done.at = After(admin.at) /\ Done.clean = admin.clean
           /\ Unclean(Done).job = admin.job /\ Unclean(Done).kb = admin.kb
           /\ Unclean(Done).at = After(admin.at) /\ Unclean(Done).clean = FALSE
<1>1. OrderTyped(admin)
  BY DEF GoneTypes, OrderTyped
<1>2. OrderGoes(AtRest)
  BY NamesAssumption DEF OrderGoes, OrderTyped, AtRest, Names
<1> DEFINE s == After(admin.at)
<1>3. Done = [admin EXCEPT !.at = s]
  BY DEF Done
<1> HIDE DEF s
<1>4. /\ OrderTyped(Done) /\ Done.job = admin.job /\ Done.kb = admin.kb /\ Done.at = s /\ Done.clean = admin.clean
  BY <1>1, <1>3 DEF OrderTyped
<1>5. /\ OrderTyped(Unclean(Done)) /\ Unclean(Done).job = admin.job /\ Unclean(Done).kb = admin.kb
      /\ Unclean(Done).at = s /\ Unclean(Done).clean = FALSE
  BY <1>4 DEF OrderTyped, Unclean
<1>6. \A L \in SUBSET Names : OrderGoes([Done EXCEPT !.left = L])
  BY <1>4 DEF OrderTyped, OrderGoes
<1>7. \A d \in Names : OrderGoes([Done EXCEPT !.left = @ \ {d}, !.doc = d])
  BY <1>4 DEF OrderTyped, OrderGoes
<1> QED BY <1>2, <1>4, <1>5, <1>6, <1>7 DEF OrderGoes, s

LEMMA OrdersSpare ==
    ASSUME DeletedInv, NEW k \in KBs, BeginExport(k) \/ BeginImport(k) \/ BeginDelete(k) PROVE DeletedInv'
<1>1. GoneTypes
  BY DEF DeletedInv
<1>2. PICK job \in {"export", "import", "delete"}, left \in SUBSET Names, first \in {"list", "create", "postings"} :
        /\ Order(job, k, left, first)
        /\ job = "delete" => first = "postings"
        /\ job = "import" => gone' = gone \ {k}
        /\ gone' \subseteq gone
  <2>1. zip.entries["documents"] \in SUBSET Names
    BY <1>1 DEF GoneTypes, Tables
  <2>2. Deletion["begin"] = "postings"
    BY DEF Deletion
  <2>3. CASE BeginExport(k)
    BY <2>3 DEF BeginExport
  <2>4. CASE BeginImport(k)
    BY <2>1, <2>4 DEF BeginImport
  <2>5. CASE BeginDelete(k)
    BY <2>2, <2>5 DEF BeginDelete
  <2> QED BY <2>3, <2>4, <2>5
<1>3. UNCHANGED vars /\ <<job, k>> \in Orders[deployment]
      /\ admin' = [AtRest EXCEPT !.job = job, !.kb = k, !.left = left, !.at = first, !.clean = Quiet]
  BY <1>2 DEF Order
<1>4. k # Base
  BY <1>1, <1>3, OrdersAssumption DEF GoneTypes
<1>5. Quiet \in BOOLEAN /\ Quiet' = Quiet
  BY <1>3 DEF Quiet, vars
<1> DEFINE q == Quiet
<1>6. q \in BOOLEAN /\ admin' = [AtRest EXCEPT !.job = job, !.kb = k, !.left = left, !.at = first, !.clean = q]
  BY <1>3, <1>5
<1> HIDE DEF q
<1>7. OrderTyped(admin') /\ admin'.job = job /\ admin'.kb = k /\ admin'.at = first /\ admin'.clean = q
  BY <1>6 DEF AtRest, OrderTyped, Names
<1>8. EmptiedInv'
  <2>1. Emptied["postings"] = {} /\ "postings" \in DOMAIN Emptied
    BY DEF Emptied
  <2> QED BY <1>2, <1>4, <1>5, <1>7, <2>1 DEF EmptiedInv, q
<1>9. zip' \in {zip, NoArchive} /\ kbRow' = kbRow
  BY DEF BeginExport, BeginImport, BeginDelete
<1>10. ArchiveTyped(zip') /\ RowTyped(kbRow')
  <2>1. ArchiveTyped(NoArchive)
    BY DEF NoArchive, NoEntries, ArchiveTyped
  <2> QED BY <1>1, <1>9, <2>1 DEF GoneTypes, ArchiveTyped, RowTyped
<1>11. Apart /\ rows' = rows /\ rows \in [Tables -> SUBSET (KBs \X Names)]
  BY <1>1, <1>3 DEF vars, database, engines, locals, Apart, GoneTypes
<1>12. \A x \in gone' : ~(admin'.job = "import" /\ admin'.kb = x)
  BY <1>2, <1>7
<1> QED BY <1>2, <1>7, <1>8, <1>9, <1>10, <1>11, <1>12, ApartSpares

(* Steps of an export or import that leave the tables alone.                *)
LEMMA ReadingSpares ==
    ASSUME DeletedInv, admin.job # "delete", Apart, OrderGoes(admin'), ArchiveTyped(zip'),
           gone' = gone, kbRow' = kbRow, rows' = rows
    PROVE  DeletedInv'
<1>1. GoneTypes /\ GoneInv
  BY DEF DeletedInv
<1>2. EmptiedInv' /\ \A k \in gone' : ~(admin'.job = "import" /\ admin'.kb = k)
  BY <1>1 DEF EmptiedInv, GoneInv, OrderGoes
<1> QED BY <1>1, <1>2, ApartSpares DEF OrderGoes, GoneTypes, RowTyped

LEMMA ExportSpares ==
    ASSUME DeletedInv,
           \/ NextDocument \/ ListSlugs \/ ListFails \/ Downloaded \/ Imported
           \/ \E t \in Tables : TakeWide(t) \/ TakeOne(t) \/ TakeFails(t)
           \/ \E s \in Tables \cup {"create", "row"} : PutFails(s)
    PROVE  DeletedInv'
<1>1. GoneTypes /\ EmptiedInv
  BY DEF DeletedInv
<1>2. \A t \in Tables, k \in KBs : Entries(t, k) \in SUBSET Names
  BY <1>1 DEF GoneTypes, Entries
<1>3. Apart /\ gone' = gone /\ kbRow' = kbRow /\ rows' = rows
  BY DEF NextDocument, ListSlugs, ListFails, Downloaded, Imported, TakeWide, TakeOne, TakeFails, PutFails,
         Apart, vars, database, engines, locals
<1>4. admin.job # "delete"
  <2>1. NextDocument \/ admin.job \in {"export", "import"}
    BY DEF ListSlugs, ListFails, Downloaded, Imported, TakeWide, TakeOne, TakeFails, PutFails, Doing
  <2>2. CASE NextDocument
    BY <1>1, <2>2 DEF NextDocument, EmptiedInv, Emptied
  <2> QED BY <2>1, <2>2
<1>5. OrderGoes(admin')
  <2>1. admin.left \subseteq Names /\ admin.kb \in KBs /\ Entries("documents", admin.kb) \in SUBSET Names
    BY <1>1, <1>2 DEF GoneTypes, Tables
  <2>2. \/ admin' \in {AtRest, Done, Unclean(Done), [Done EXCEPT !.left = Entries("documents", admin.kb)]}
        \/ \E d \in admin.left : admin' = [Done EXCEPT !.left = @ \ {d}, !.doc = d]
    BY DEF NextDocument, ListSlugs, ListFails, Downloaded, Imported, TakeWide, TakeOne, TakeFails, PutFails
  <2> QED BY <1>1, <2>1, <2>2, OrderGoesOn
<1>6. ArchiveTyped(zip')
  <2>1. ArchiveTyped(zip) /\ admin.kb \in KBs
    BY <1>1 DEF GoneTypes, ArchiveTyped
  <2>2. \/ zip' = zip
        \/ \E W : zip' = [zip EXCEPT !.ready = TRUE, !.whole = W]
        \/ \E t \in Tables : zip' = [zip EXCEPT !.files = @ \cup {t}, !.entries[t] = Entries(t, admin.kb)]
        \/ \E t \in Tables : zip' = [zip EXCEPT !.entries[t] = @ \cup ({admin.doc} \cap Entries(t, admin.kb))]
    BY DEF NextDocument, ListSlugs, ListFails, Downloaded, Imported, TakeWide, TakeOne, TakeFails, PutFails
  <2>3. ASSUME NEW W, zip' = [zip EXCEPT !.ready = TRUE, !.whole = W] PROVE ArchiveTyped(zip')
    BY <2>1, <2>3 DEF ArchiveTyped
  <2>4. ASSUME NEW t \in Tables, NEW E \in SUBSET Names, zip' = [zip EXCEPT !.files = @ \cup {t}, !.entries[t] = E]
        PROVE  ArchiveTyped(zip')
    BY <2>1, <2>4 DEF ArchiveTyped
  <2>5. ASSUME NEW t \in Tables, NEW E \in SUBSET Names, zip' = [zip EXCEPT !.entries[t] = @ \cup ({admin.doc} \cap E)]
        PROVE  ArchiveTyped(zip')
    BY <2>1, <2>5 DEF ArchiveTyped
  <2>6. CASE \E t \in Tables : zip' = [zip EXCEPT !.files = @ \cup {t}, !.entries[t] = Entries(t, admin.kb)]
    BY <1>2, <2>1, <2>4, <2>6
  <2>7. CASE \E t \in Tables : zip' = [zip EXCEPT !.entries[t] = @ \cup ({admin.doc} \cap Entries(t, admin.kb))]
    BY <1>2, <2>1, <2>5, <2>7
  <2>8. CASE \E W : zip' = [zip EXCEPT !.ready = TRUE, !.whole = W]
    BY <2>3, <2>8
  <2> QED BY <2>1, <2>2, <2>6, <2>7, <2>8
<1> QED BY <1>3, <1>4, <1>5, <1>6, ReadingSpares

LEMMA ImportSpares ==
    ASSUME DeletedInv, CreateRow \/ \E t \in Tables : PutWide(t) \/ PutOne(t) PROVE DeletedInv'
<1>1. GoneTypes /\ GoneInv
  BY DEF DeletedInv
<1>2. /\ admin.job = "import" /\ admin' = Done /\ zip' = zip /\ gone' = gone
      /\ Apart
  BY DEF CreateRow, PutWide, PutOne, Doing, Apart, vars, database, engines, locals
<1>3. OrderGoes(admin') /\ ArchiveTyped(zip') /\ admin.kb \in KBs /\ admin.doc \in Names
  BY <1>1, <1>2, OrderGoesOn DEF GoneTypes, ArchiveTyped
<1>4. /\ rows' \in [Tables -> SUBSET (KBs \X Names)]
      /\ \A t \in Tables : \A r \in rows'[t] : r \in rows[t] \/ r[1] = admin.kb
  <2>1. rows \in [Tables -> SUBSET (KBs \X Names)] /\ \A t \in Tables : zip.entries[t] \in SUBSET Names
    BY <1>1 DEF GoneTypes
  <2>2. ASSUME NEW t \in Tables, PutWide(t) PROVE rows' = rows \/ Overwrite(t, admin.kb, zip.entries[t])
    BY <2>2 DEF PutWide
  <2>3. ASSUME NEW t \in Tables, NEW S \in SUBSET Names, Overwrite(t, admin.kb, S)
        PROVE  /\ rows' \in [Tables -> SUBSET (KBs \X Names)]
               /\ \A x \in Tables : \A r \in rows'[x] : r \in rows[x] \/ r[1] = admin.kb
    <3>1. rows' \in [Tables -> SUBSET (KBs \X Names)]
      BY <1>3, <2>1, <2>3 DEF Overwrite
    <3>2. \A x \in Tables : \A r \in rows'[x] : r \in rows[x] \/ r \in {admin.kb} \X S
      BY <2>1, <2>3 DEF Overwrite
    <3> QED BY <3>1, <3>2
  <2>4. ASSUME NEW t \in Tables, Insert(t, admin.kb, admin.doc)
        PROVE  /\ rows' \in [Tables -> SUBSET (KBs \X Names)]
               /\ \A x \in Tables : \A r \in rows'[x] : r \in rows[x] \/ r[1] = admin.kb
    <3>1. rows' \in [Tables -> SUBSET (KBs \X Names)]
      BY <1>3, <2>1, <2>4 DEF Insert
    <3>2. \A x \in Tables : \A r \in rows'[x] : r \in rows[x] \/ r = <<admin.kb, admin.doc>>
      BY <2>1, <2>4 DEF Insert
    <3> QED BY <3>1, <3>2
  <2>5. \/ rows' = rows
        \/ \E t \in Tables : Overwrite(t, admin.kb, zip.entries[t])
        \/ \E t \in Tables : Insert(t, admin.kb, admin.doc)
    BY <2>2 DEF CreateRow, PutOne, vars, database
  <2> QED BY <2>1, <2>3, <2>4, <2>5
<1>5. RowTyped(kbRow') /\ \A k \in KBs : kbRow[k] = "absent" => kbRow'[k] = "absent" \/ k = admin.kb
  <2>1. kbRow \in [KBs -> {"absent", "there", "indexed"}]
    BY <1>1 DEF GoneTypes
  <2>2. \E v \in {"absent", "there", "indexed"} : kbRow' \in {kbRow, [kbRow EXCEPT ![admin.kb] = v]}
    <3>1. CASE CreateRow
      <4>1. kbRow' = [kbRow EXCEPT ![admin.kb] = IF kbRow[admin.kb] = "absent" THEN "there" ELSE kbRow[admin.kb]]
        BY <3>1 DEF CreateRow
      <4> QED BY <1>3, <2>1, <4>1
    <3>2. CASE \E t \in Tables : PutWide(t) \/ PutOne(t)
      BY <3>2 DEF PutWide, PutOne
    <3> QED BY <3>1, <3>2
  <2> QED BY <1>3, <2>1, <2>2 DEF RowTyped
<1>6. EmptiedInv' /\ \A k \in gone' : ~(admin'.job = "import" /\ admin'.kb = k)
  BY <1>1, <1>2, <1>3 DEF EmptiedInv, GoneInv, OrderGoes
<1> QED BY <1>2, <1>3, <1>4, <1>5, <1>6, ApartSpares DEF MineToFill, OrderGoes

LEMMA DeletionSpares ==
    ASSUME DeletedInv,
           \/ \E t \in Tables : DeleteAllOf(t)
           \/ \E s \in Tables \cup {"create", "row"} : DeletionFails(s)
    PROVE  DeletedInv'
<1>1. GoneTypes /\ GoneInv /\ EmptiedInv
  BY DEF DeletedInv
<1>2. /\ admin.job = "delete" /\ zip' = zip /\ gone' = gone /\ kbRow' = kbRow /\ Apart
      /\ admin' \in {AtRest, Done, Unclean(Done)}
  BY DEF DeleteAllOf, DeletionFails, Doing, Apart, database, engines, locals
<1>3. OrderGoes(admin') /\ ArchiveTyped(zip') /\ RowTyped(kbRow')
  BY <1>1, <1>2, OrderGoesOn DEF GoneTypes, ArchiveTyped, RowTyped
<1>4. rows \in [Tables -> SUBSET (KBs \X Names)] /\ Quiet' = Quiet
  BY <1>1, <1>2 DEF GoneTypes, Quiet, Apart
<1>5. /\ rows' \in [Tables -> SUBSET (KBs \X Names)]
      /\ \A t \in Tables : rows'[t] \subseteq rows[t]
  <2>1. CASE rows' = rows
    BY <1>4, <2>1
  <2>2. ASSUME NEW t \in Tables, DeleteAllOf(t)
        PROVE  rows' \in [Tables -> SUBSET (KBs \X Names)] /\ \A x \in Tables : rows'[x] \subseteq rows[x]
    BY <1>4, <2>2 DEF DeleteAllOf
  <2> QED BY <2>1, <2>2 DEF DeletionFails, database
<1>6. /\ admin.kb # Base /\ admin.at \in DOMAIN Emptied
      /\ admin.clean => Quiet /\ \A x \in Emptied[admin.at] : NoRows(x, admin.kb)
  BY <1>1, <1>2 DEF EmptiedInv
<1>7. DOMAIN Emptied = {"postings", "chunks_index", "sections", "chunks", "documents", "row"}
  BY DEF Emptied
<1>8. EmptiedInv'
  <2>1. CASE admin'.job # "delete"
    BY <2>1 DEF EmptiedInv
  <2>2. ASSUME NEW s \in Tables \cup {"create", "row"}, DeletionFails(s), admin'.job = "delete" PROVE EmptiedInv'
    <3>1. admin.at = s /\ admin' = IF s = "row" THEN AtRest ELSE Unclean(Done)
      BY <2>2 DEF DeletionFails, Doing
    <3>2. s # "row" /\ admin' = Unclean(Done)
      BY <2>2, <3>1 DEF AtRest
    <3>3. admin'.kb = admin.kb /\ admin'.at = After(s) /\ admin'.clean = FALSE
      BY <1>1, <3>1, <3>2, OrderGoesOn
    <3>4. After(s) \in DOMAIN Emptied
      BY <1>2, <1>6, <1>7, <3>1, <3>2, AfterIs
    <3> QED BY <1>6, <3>3, <3>4 DEF EmptiedInv
  <2>3. ASSUME NEW t \in Tables, DeleteAllOf(t) PROVE EmptiedInv'
    <3>1. /\ admin.at = t /\ admin' = Done
          /\ rows' = [x \in Tables |-> IF x = t \/ (t = "documents" /\ x \in Columns)
                                       THEN {r \in rows[x] : r[1] # admin.kb} ELSE rows[x]]
      BY <2>3 DEF DeleteAllOf, Doing
    <3>2. t \in {"postings", "chunks_index", "sections", "chunks", "documents"}
      BY <1>6, <1>7, <3>1 DEF Tables, Columns
    <3>3. admin'.kb = admin.kb /\ admin'.at = After(t) /\ admin'.clean = admin.clean
      BY <1>1, <3>1, OrderGoesOn
    <3>4. After(t) \in DOMAIN Emptied
      BY <1>2, <1>7, <3>2, AfterIs
    <3>5. \A x \in Emptied[After(t)] : x \in Tables /\ (x \in Emptied[t] \/ x = t \/ (t = "documents" /\ x \in Columns))
      <4>1. CASE t = "postings"
        BY <1>2, <4>1, AfterIs DEF Emptied, Tables
      <4>2. CASE t = "chunks_index"
        BY <1>2, <4>2, AfterIs DEF Emptied, Tables
      <4>3. CASE t = "sections"
        BY <1>2, <4>3, AfterIs DEF Emptied, Tables
      <4>4. CASE t = "chunks"
        BY <1>2, <4>4, AfterIs DEF Emptied, Tables
      <4>5. CASE t = "documents"
        BY <1>2, <4>5, AfterIs DEF Emptied, Tables
      <4> QED BY <3>2, <4>1, <4>2, <4>3, <4>4, <4>5
    <3>6. ASSUME admin.clean, NEW x \in Emptied[After(t)] PROVE NoRows(x, admin.kb)'
      <4>1. admin'.kb = admin.kb
        BY <3>3
      <4>2. CASE x = t \/ (t = "documents" /\ x \in Columns)
        BY <3>1, <3>5, <4>1, <4>2 DEF NoRows
      <4>3. CASE x \in Emptied[t]
        BY <1>5, <1>6, <3>1, <3>5, <3>6, <4>1, <4>3 DEF NoRows
      <4> QED BY <3>5, <3>6, <4>2, <4>3
    <3> QED BY <1>4, <1>6, <3>3, <3>4, <3>6 DEF EmptiedInv
  <2> QED BY <2>1, <2>2, <2>3
<1>9. \A k \in gone' : ~(admin'.job = "import" /\ admin'.kb = k)
  BY <1>2, <1>3 DEF OrderGoes
<1> QED BY <1>2, <1>3, <1>5, <1>8, <1>9, ApartSpares DEF OrderGoes

(* The last statement of a deletion: here a knowledge base comes to be gone. *)
LEMMA RowDeleted == ASSUME DeletedInv, DeleteKBRow PROVE DeletedInv'
<1>1. GoneTypes /\ GoneInv /\ EmptiedInv
  BY DEF DeletedInv
<1>2. /\ admin.job = "delete" /\ admin.at = "row" /\ admin' = AtRest /\ zip' = zip /\ Apart
      /\ kbRow' = [kbRow EXCEPT ![admin.kb] = "absent"]
      /\ gone' = (IF admin.clean THEN gone \cup {admin.kb} ELSE gone)
      /\ Overwrite("index", admin.kb, {})
  BY DEF DeleteKBRow, Doing, Apart, engines, locals
<1>3. /\ rows \in [Tables -> SUBSET (KBs \X Names)] /\ admin.kb \in KBs /\ admin.kb # Base
      /\ kbRow \in [KBs -> {"absent", "there", "indexed"}] /\ gone \subseteq KBs \ {Base}
      /\ admin.clean => Quiet /\ \A x \in Tables \ {"index"} : NoRows(x, admin.kb)
  BY <1>1, <1>2 DEF GoneTypes, EmptiedInv, Emptied
<1>4. /\ rows' \in [Tables -> SUBSET (KBs \X Names)]
      /\ \A x \in Tables : rows'[x] \subseteq rows[x]
      /\ \A r \in rows'["index"] : r[1] # admin.kb
  <2>1. rows' = [rows EXCEPT !["index"] = {r \in rows["index"] : r[1] # admin.kb}]
    <3>1. {admin.kb} \X {} = {}
      OBVIOUS
    <3> QED BY <1>2, <3>1 DEF Overwrite
  <2> QED BY <1>3, <2>1 DEF Tables
<1>5. GoneTypes'
  <2>1. OrderTyped(admin') /\ ArchiveTyped(zip') /\ RowTyped(kbRow')
    BY <1>1, <1>2, <1>3, OrderGoesOn DEF GoneTypes, OrderGoes, ArchiveTyped, RowTyped
  <2>2. gone' \subseteq KBs \ {Base}
    BY <1>2, <1>3
  <2> QED BY <1>1, <1>2, <1>4, <2>1, <2>2 DEF GoneTypes, Apart, OrderTyped, ArchiveTyped, RowTyped
<1>6. EmptiedInv' /\ admin'.job = "none"
  BY <1>2 DEF EmptiedInv, AtRest
<1>7. ASSUME NEW k \in gone'
      PROVE  /\ kbRow'[k] = "absent" /\ \A t \in Tables : NoRows(t, k)'
             /\ \A q \in Procs : Elsewhere(k, q)'
  <2>1. CASE k \in gone
    <3>1. /\ k \in KBs /\ kbRow[k] = "absent" /\ \A t \in Tables : NoRows(t, k)
          /\ \A q \in Procs : Elsewhere(k, q)
      BY <1>1, <1>3, <2>1 DEF GoneInv
    <3>2. kbRow'[k] = "absent"
      BY <1>2, <1>3, <3>1
    <3>3. \A t \in Tables : NoRows(t, k)'
      BY <1>4, <3>1 DEF NoRows
    <3>4. \A q \in Procs : Elsewhere(k, q)'
      BY <1>2, <3>1 DEF Elsewhere, Apart
    <3> QED BY <3>2, <3>3, <3>4
  <2>2. CASE k = admin.kb /\ admin.clean
    <3>1. kbRow'[k] = "absent"
      BY <1>2, <1>3, <2>2
    <3>2. \A t \in Tables : NoRows(t, k)'
      BY <1>3, <1>4, <2>2 DEF NoRows
    <3>3. \A q \in Procs : at'[q] = "idle"
      BY <1>2, <1>3, <2>2 DEF Quiet, Apart
    <3> QED BY <3>1, <3>2, <3>3 DEF Elsewhere
  <2> QED BY <1>2, <1>7, <2>1, <2>2
<1>8. GoneInv'
  BY <1>6, <1>7 DEF GoneInv
<1> QED BY <1>5, <1>6, <1>8 DEF DeletedInv

(* After a restart nobody is served and the engines point at the flat       *)
(* knowledge base.                                                          *)
LEMMA RestartSpares == ASSUME DeletedInv, RestartAll PROVE DeletedInv'
<1>1. GoneTypes /\ GoneInv
  BY DEF DeletedInv
<1>2. /\ admin' = AtRest /\ zip' \in {zip, NoArchive} /\ kbRow' = kbRow /\ gone' = gone
      /\ at' = [p \in Procs |-> "idle"] /\ cached' = {}
      /\ ingestKB' = Base /\ searchKB' = Base /\ chunkKB' = Base
      /\ UNCHANGED <<rows, gob, req, seen, deployment>>
  BY DEF RestartAll, Restart, database
<1>3. OrderTyped(admin') /\ ArchiveTyped(zip') /\ admin'.job = "none"
  <2>1. ArchiveTyped(zip) /\ OrderTyped(AtRest)
    BY <1>1, OrderGoesOn DEF GoneTypes, ArchiveTyped, OrderGoes
  <2>2. ArchiveTyped(NoArchive) /\ AtRest.job = "none"
    BY DEF NoArchive, NoEntries, ArchiveTyped, AtRest
  <2> QED BY <1>2, <2>1, <2>2
<1>4. GoneTypes'
  BY <1>1, <1>2, <1>3, NamesAssumption DEF GoneTypes, OrderTyped, ArchiveTyped
<1>5. \A k \in gone' : (\A t \in Tables : NoRows(t, k)') /\ \A q \in Procs : Elsewhere(k, q)'
  BY <1>1, <1>2 DEF GoneInv, NoRows, Elsewhere
<1> QED BY <1>1, <1>2, <1>3, <1>4, <1>5 DEF DeletedInv, EmptiedInv, GoneInv

LEMMA DeletedInductive == ASSUME DeletedInv, [ArchiveNext]_allVars PROVE DeletedInv'
<1>1. CASE UNCHANGED allVars
  <2>1. UNCHANGED <<rows, gob, cached, ingestKB, searchKB, chunkKB, at, seen, req, deployment, admin, zip, kbRow, gone>>
    BY <1>1 DEF allVars, archiveVars, vars, database, engines, locals
  <2>2. GoneTypes' /\ EmptiedInv'
    BY <2>1 DEF DeletedInv, GoneTypes, EmptiedInv, NoRows, Quiet
  <2>3. GoneInv'
    BY <2>1 DEF DeletedInv, GoneInv, NoRows, Elsewhere
  <2> QED BY <2>2, <2>3 DEF DeletedInv
<1>2. CASE Administer
  BY <1>2, OrdersSpare, ExportSpares, ImportSpares, DeletionSpares, RowDeleted DEF Administer
<1> QED BY <1>1, <1>2, ServeSpares, RestartSpares DEF ArchiveNext

(* Nothing comes back of a knowledge base whose deletion nobody else's      *)
(* request met, until somebody asks for it again: whatever is uploaded,     *)
(* removed, tagged, exported, imported and deleted elsewhere, and wherever  *)
(* a statement fails or the process ends.                                   *)
THEOREM DeletedStaysDeleted == ASSUME ScopedPlain PROVE ArchiveSpec => []DeletedRowsAreGone
<1>1. ArchiveInit => DeletedInv
  BY DeletedStarts
<1>2. DeletedInv /\ [ArchiveNext]_allVars => DeletedInv'
  BY DeletedInductive
<1>3. DeletedInv => DeletedRowsAreGone
  <2>1. ASSUME NEW t \in Tables, NEW k, NoRows(t, k) PROVE Entries(t, k) = {}
    BY <2>1 DEF NoRows, Entries
  <2> QED BY <2>1 DEF DeletedInv, GoneInv, DeletedRowsAreGone
<1> QED BY <1>1, <1>2, <1>3, PTL DEF ArchiveSpec
-----------------------------------------------------------------------------
(* Restored documents. What follows holds where also the requests of a      *)
(* deployment are for one knowledge base, or one is served at a time: else  *)
(* one request writes where another has pointed the engines meanwhile.      *)

Companions ==
    \/ \A p \in Procs : \A q \in Procs : p = q
    \/ \A x \in Deployments : \A a \in x.asks : \A b \in x.asks : a[2] = b[2]

(* The documents whose rows nobody but their removal, a deletion or an      *)
(* import may touch, of each knowledge base.                                *)
Kept == uploaded \ (removing \cup lost)
Promised(k) == {d \in Docs : (d \in Kept /\ home[d] = k) \/ <<k, d>> \in restored}

(* The steps at which an upload has written each table.                     *)
PastRaw == {"readIndex", "index", "uploaded"}
PastSource == {"raw"} \cup PastRaw
PastPostings == {"vectors", "source"} \cup PastSource
PastChunksIndex == {"readPostings", "postings"} \cup PastPostings
PastDocuments == {"chunks_index"} \cup PastChunksIndex
PastSections == {"documents"} \cup PastDocuments
Past ==
    [index |-> {"uploaded"}, raw |-> PastRaw, source |-> PastSource, postings |-> PastPostings,
     chunks_index |-> PastChunksIndex, documents |-> PastDocuments, sections |-> PastSections,
     chunks |-> {"sections"} \cup PastSections]

(* Whether an export or import is through with a table of a document, or of *)
(* all of them.                                                             *)
Until ==
    [index |-> {"list", "create", "index"}, postings |-> {"list", "create", "index", "postings"},
     documents |-> {"documents"}, chunks |-> {"documents", "chunks"},
     sections |-> {"documents", "chunks", "sections"},
     chunks_index |-> {"documents", "chunks", "sections", "chunks_index"},
     raw |-> OfDocument \ {"source"}, source |-> OfDocument]
Through(t, d) ==
    /\ admin.at # "list" /\ (t \in {"index", "postings"} => admin.at \notin Until[t])
    /\ t \in OfDocument => d \notin admin.left /\ (d = admin.doc => admin.at \notin Until[t])

WholeTypes ==
    /\ uploaded \subseteq Docs /\ lost \subseteq Docs /\ zip.whole \subseteq Docs
    /\ restored \subseteq KBs \X Docs /\ whole \in [Procs -> BOOLEAN] /\ faults \in Nat

(* Active requests are for one knowledge base, and whoever is past WithKB   *)
(* finds the engines there.                                                 *)
CompanyInv ==
    \A p \in Procs : Active(p) =>
        /\ \A q \in Procs : Active(q) => req[q].kb = req[p].kb
        /\ at[p] = "chunk" \/ at[p] \notin Scopes => searchKB = req[p].kb
        /\ at[p] \notin Scopes => chunkKB = req[p].kb

(* What was promised has another name than what is being uploaded, and      *)
(* nobody removes what was restored.                                        *)
ApartInv ==
    /\ \A d \in uploaded \cup zip.whole : home[d] # "none"
    /\ \A r \in restored : home[r[2]] # "none"
    /\ \A p \in Procs :
         /\ Uploads(p) => /\ req[p].doc \notin uploaded \cup zip.whole
                          /\ \A k \in KBs : <<k, req[p].doc>> \notin restored
         /\ Active(p) => <<req[p].kb, req[p].old>> \notin restored

(* What a rewrite goes by.                                                  *)
Rewriting == {"postings", "index", "dropIndex"}
ReadInv ==
    \A p \in Procs : at[p] \in Rewriting => Promised(req[p].kb) \subseteq seen[p]

(* Whose rows an import or a deletion may change.                           *)
LostInv ==
    admin.job \in {"import", "delete"} =>
        /\ \A d \in Docs : home[d] = admin.kb => d \in lost \/ (admin.job = "import" /\ d \in zip.whole)
        /\ \A r \in restored : r[1] # admin.kb

WrittenInv ==
    \A p \in Procs : \A t \in Tables :
        at[p] \in Past[t] /\ whole[p] /\ req[p].doc \notin removing \cup lost =>
            <<req[p].kb, req[p].doc>> \in rows[t]
PromisedInv == \A t \in Tables : \A k \in KBs : \A d \in Promised(k) : <<k, d>> \in rows[t]
IndexedInv == \A r \in rows["index"] : kbRow[r[1]] = "indexed"

InArchive(t, d) == d \in zip.entries[t] /\ (t \in {"index", "postings"} => t \in zip.files)
CopiedInv ==
    /\ \A d \in zip.whole : \A t \in Tables : InArchive(t, d)
    /\ admin.job = "export" => zip.whole = {}
    /\ admin.job = "import" /\ admin.clean => Quiet
    /\ admin.job = "export" /\ admin.clean =>
         \A t \in Tables : \A d \in Kept : home[d] = admin.kb /\ Through(t, d) => InArchive(t, d)
    /\ admin.job = "import" /\ admin.clean =>
         \A t \in Tables : \A d \in zip.whole : Through(t, d) => <<admin.kb, d>> \in rows[t]

WholeInv ==
    /\ LockInv /\ WholeTypes /\ CompanyInv /\ ApartInv /\ ReadInv /\ LostInv
    /\ WrittenInv /\ PromisedInv /\ IndexedInv /\ CopiedInv
RestoredInv == ArchiveInv /\ DeletedInv /\ WholeInv

-----------------------------------------------------------------------------
(* The steps of the requests: the mutex.                                    *)

Locks(p) ==
    /\ mu' = IF at'[p] \in Locked THEN p ELSE IF at[p] \in Locked THEN Free ELSE mu
    /\ at[p] \in Locked \/ at'[p] \notin Locked \/ mu = Free

LEMMA WorkLocks ==
    ASSUME ArchiveTypes, LockInv, NEW p \in Procs, at[p] \in Locked \ {"uploaded", "removed", "abort"},
           Continue(p) \/ Goto(p, "abort") \/ Goto(p, "source") \/ Goto(p, "removed"), mu' = mu
    PROVE  Locks(p)
<1>1. at'[p] \in Locked
  <2>1. CASE Continue(p)
    <3>1. at'[p] = Following[at[p]]
      BY <2>1 DEF Continue, Goto, ArchiveTypes
    <3> QED BY <3>1, FollowingIs
  <2>2. CASE ~Continue(p)
    BY <2>2 DEF Goto, ArchiveTypes
  <2> QED BY <2>1, <2>2
<1>2. mu = p
  BY DEF LockInv
<1> QED BY <1>1, <1>2 DEF Locks

LEMMA StepLocks == ASSUME ArchiveInv, LockInv, NEW p \in Procs, Step(p) PROVE Locks(p)
<1>1. ArchiveTypes /\ Fitting(p) /\ at \in [Procs -> Steps]
  BY DEF ArchiveInv, RequestsFit, ArchiveTypes
<1>2. CASE Scope(p) \/ SetIngestKB(p) \/ SetSearchKB(p) \/ SetChunkKB(p)
  <2>1. at[p] \in Scopes /\ mu' = mu /\ (EndScoping(p) \/ (at[p] # "chunk" /\ Continue(p)))
    BY <1>2 DEF Scope, SetIngestKB, SetSearchKB, SetChunkKB
  <2>2. at'[p] \notin Locked
    <3>1. CASE at[p] # "chunk" /\ Continue(p)
      <4>1. at'[p] = Following[at[p]]
        BY <1>1, <3>1 DEF Continue, Goto
      <4> QED BY <2>1, <3>1, <4>1, FollowingIs
    <3>2. CASE EndScoping(p)
      <4>1. Active(p) /\ <<req[p].job, req[p].kb>> \in deployment.asks
        BY <1>1, <2>1 DEF Fitting, Active
      <4>2. req[p].job \in Jobs
        BY <1>1, <4>1, DeploymentsAssumption DEF ArchiveTypes
      <4>3. FirstStep(req[p].job) \in {"lock", "lockRemoval", "check"}
        BY <4>2 DEF FirstStep, Jobs
      <4>4. at'[p] \in {"scope", FirstStep(req[p].job)}
        BY <1>1, <3>2 DEF EndScoping, Goto
      <4> QED BY <4>3, <4>4
    <3> QED BY <2>1, <3>1, <3>2
  <2> QED BY <2>1, <2>2 DEF Locks
<1>3. CASE Lock(p)
  <2>1. at[p] \in {"lock", "lockRemoval"} /\ mu = Free /\ mu' = p /\ at'[p] = Following[at[p]]
    BY <1>1, <1>3 DEF Lock, Continue, Goto
  <2> QED BY <2>1, FollowingIs DEF Locks
<1>4. CASE AnswerUploaded(p) \/ AnswerRemoved(p) \/ AnswerFailed(p)
  <2>1. at[p] \in {"uploaded", "removed", "abort"} /\ mu' = Free /\ at'[p] \in {"idle", "lock"}
    BY <1>1, <1>4 DEF AnswerUploaded, AnswerRemoved, AnswerFailed, Unlock, Goto
  <2> QED BY <2>1 DEF Locks
<1>5. CASE CheckListed(p) \/ Retag(p)
  <2>1. at[p] \in {"check", "retag"} /\ mu' = mu /\ at'[p] \in {"idle", "lockRemoval", "retag"}
    BY <1>1, <1>5 DEF CheckListed, Retag, Goto
  <2> QED BY <2>1 DEF Locks
<1>6. CASE ParseFails(p) \/ UpdateInvertedIndex(p) \/ SaveVectors(p) \/ UpdateIndex(p) \/ FindForRemoval(p)
           \/ FindFails(p) \/ RemoveFromIndex(p) \/ IndexKept(p)
  BY <1>1, <1>6, WorkLocks DEF ParseFails, UpdateInvertedIndex, SaveVectors, UpdateIndex, FindForRemoval,
     FindFails, RemoveFromIndex, IndexKept
<1>7. ASSUME NEW t \in Tables, WriteRow(p, t) \/ WriteFails(p, t) PROVE Locks(p)
  <2>1. at[p] = t /\ mu' = mu /\ (Continue(p) \/ Goto(p, "abort") \/ Goto(p, "source"))
    BY <1>7 DEF WriteRow, WriteFails
  <2> QED BY <1>1, <2>1, WorkLocks DEF Tables, Columns
<1>8. ASSUME NEW t \in Tables, ReadEntries(p, t) \/ ReadFails(p, t) \/ DeleteRows(p, t) \/ DeleteFails(p, t)
      PROVE  Locks(p)
  <2>1. at[p] \in {"readPostings", "readIndex", "findIndex", "dropPostings", "dropChunksIndex", "dropSections",
                   "dropChunks", "dropDocuments"} /\ mu' = mu
    BY <1>8 DEF ReadEntries, ReadFails, Reading, DeleteRows, DeleteFails, Deleting
  <2>2. Continue(p) \/ Goto(p, "removed") \/ Goto(p, "abort")
    BY <1>8 DEF ReadEntries, ReadFails, DeleteRows, DeleteFails, AfterDeletion, Continue
  <2> QED BY <1>1, <2>1, <2>2, WorkLocks
<1> QED BY <1>2, <1>3, <1>4, <1>5, <1>6, <1>7, <1>8 DEF Step

-----------------------------------------------------------------------------
(* What they record.                                                        *)

Records(p) ==
    /\ uploaded' \subseteq uploaded \cup {req[p].doc} /\ uploaded' \subseteq Docs
    /\ req[p].doc \in uploaded' \ uploaded => at[p] = "uploaded" /\ at'[p] = "idle" /\ whole[p]
    /\ whole' \in [Procs -> BOOLEAN] /\ \A q \in Procs \ {p} : whole'[q] = whole[q]
    /\ whole'[p] => whole[p] \/ at[p] = "removed"
    /\ faults' \in Nat

LEMMA FaultCounts == ASSUME faults \in Nat, NEW x, Fault(x) PROVE faults' \in Nat /\ faults' # faults
  BY DEF Fault

LEMMA StepRecords == ASSUME ArchiveInv, WholeTypes, NEW p \in Procs, Step(p) PROVE Records(p)
<1>1. ArchiveTypes /\ Fitting(p) /\ at \in [Procs -> Steps]
  BY DEF ArchiveInv, RequestsFit, ArchiveTypes
<1>2. uploaded \subseteq Docs /\ whole \in [Procs -> BOOLEAN] /\ faults \in Nat
  BY DEF WholeTypes
<1>3. CASE AnswerUploaded(p)
  <2>1. at[p] = "uploaded" /\ at'[p] = "idle" /\ whole' = whole /\ faults' = faults
    BY <1>1, <1>3 DEF AnswerUploaded, Unlock, Goto
  <2>2. req[p].doc \in Docs
    BY <1>1, <2>1 DEF Fitting, Active
  <2>3. uploaded' = IF whole[p] THEN uploaded \cup {req[p].doc} ELSE uploaded
    BY <1>3 DEF AnswerUploaded
  <2> QED BY <1>2, <2>1, <2>2, <2>3 DEF Records
<1>4. CASE AnswerRemoved(p)
  <2>1. at[p] = "removed" /\ uploaded' = uploaded /\ faults' = faults /\ whole' = [whole EXCEPT ![p] = TRUE]
    BY <1>4 DEF AnswerRemoved, Unlock
  <2> QED BY <1>2, <2>1 DEF Records
<1>5. CASE FindForRemoval(p)
  <2>1. uploaded' = uploaded /\ faults' = faults /\ whole' = [whole EXCEPT ![p] = @ /\ Listed(chunkKB, req[p].old)]
    BY <1>5 DEF FindForRemoval
  <2>2. Listed(chunkKB, req[p].old) \in BOOLEAN
    BY DEF Listed
  <2> HIDE DEF Listed
  <2> QED BY <1>2, <2>1, <2>2 DEF Records
<1>6. CASE FindFails(p) \/ IndexKept(p) \/ \E t \in Tables : WriteFails(p, t) \/ DeleteFails(p, t)
  <2>1. uploaded' = uploaded /\ whole' = [whole EXCEPT ![p] = FALSE]
    BY <1>6 DEF FindFails, IndexKept, WriteFails, DeleteFails
  <2>2. faults' \in Nat
    BY <1>2, <1>6, FaultCounts DEF FindFails, IndexKept, WriteFails, DeleteFails
  <2> QED BY <1>2, <2>1, <2>2 DEF Records
<1>7. ASSUME NEW t \in Tables, ReadFails(p, t) PROVE Records(p)
  <2>1. uploaded' \subseteq uploaded /\ whole' = [whole EXCEPT ![p] = FALSE]
    BY <1>7 DEF ReadFails
  <2>2. faults' \in Nat
    BY <1>2, <1>7, FaultCounts DEF ReadFails
  <2> QED BY <1>2, <2>1, <2>2 DEF Records
<1>8. ASSUME ~(AnswerUploaded(p) \/ AnswerRemoved(p) \/ FindForRemoval(p) \/ FindFails(p) \/ IndexKept(p)),
             \A t \in Tables : ~(WriteFails(p, t) \/ DeleteFails(p, t) \/ ReadFails(p, t))
      PROVE  uploaded' = uploaded /\ whole' = whole /\ faults' = faults
  BY <1>8 DEF Step, Scope, SetIngestKB, SetSearchKB, SetChunkKB, Lock, AnswerFailed, Unlock, ParseFails, WriteRow,
              ReadEntries, DeleteRows, UpdateInvertedIndex, SaveVectors, UpdateIndex, RemoveFromIndex, CheckListed,
              Retag, history
<1> QED BY <1>2, <1>3, <1>4, <1>5, <1>6, <1>7, <1>8 DEF Records

-----------------------------------------------------------------------------
(* What they do to the tables.                                              *)

LEMMA PastIs ==
    ASSUME NEW t \in Tables
    PROVE  /\ Past[t] \subseteq UploadSteps \ {"chunks"} /\ "uploaded" \in Past[t]
           /\ \A s \in UploadSteps \ {"uploaded"} : Following[s] \in Past[t] => s \in Past[t] \/ s = t
           /\ t \in Columns => t \in Past["documents"]
           /\ "postings" \in Past["chunks_index"]
<1>1. /\ Past["index"] = {"uploaded"} /\ Past["raw"] = PastRaw /\ Past["source"] = PastSource
      /\ Past["postings"] = PastPostings /\ Past["chunks_index"] = PastChunksIndex
      /\ Past["documents"] = PastDocuments /\ Past["sections"] = PastSections
      /\ Past["chunks"] = {"sections"} \cup PastSections
  BY DEF Past
<1>2. t \in {"chunks", "sections", "documents", "chunks_index", "postings", "index", "source", "raw"}
  BY DEF Tables, Columns
<1>3. CASE t \in {"chunks", "sections"}
  BY <1>1, <1>3, FollowingIs DEF PastRaw, PastSource, PastPostings, PastChunksIndex, PastDocuments, PastSections, Columns
<1>4. CASE t \in {"documents", "chunks_index"}
  BY <1>1, <1>4, FollowingIs DEF PastRaw, PastSource, PastPostings, PastChunksIndex, PastDocuments, Columns
<1>5. CASE t \in {"postings", "index", "source", "raw"}
  BY <1>1, <1>5, FollowingIs DEF PastRaw, PastSource, PastPostings, PastChunksIndex, PastDocuments, Columns
<1> QED BY <1>2, <1>3, <1>4, <1>5

(* Where every request scopes the Store, the engines' uploads and           *)
(* replacements are none of them, and all statements name the knowledge     *)
(* base the request is for.                                                 *)
LEMMA PageIs ==
    ASSUME ArchiveInv, GoneTypes, NEW p \in Procs, Active(p)
    PROVE  /\ req[p].job \in {"web", "remove", "tags"} /\ req[p].kb \in KBs \ {Base}
           /\ <<req[p].job, req[p].kb>> \in deployment.asks
<1>1. <<req[p].job, req[p].kb>> \in deployment.asks
  BY DEF ArchiveInv, RequestsFit, Fitting
<1>2. req[p].kb \in KBs \ {Base} /\ PageUploads(deployment)
  BY <1>1 DEF ArchiveInv, ArchiveTypes, GoneTypes, Unscoped
<1> QED BY <1>1, <1>2 DEF PageUploads

LEMMA NamesIts ==
    ASSUME ArchiveInv, GoneTypes, CompanyInv, NEW p \in Procs, Active(p), at[p] \notin Scopes, NEW t \in Tables,
           at[p] \in UploadSteps \/ t \in {"documents", "index", "postings"}
    PROVE  KBFor(p, t) = req[p].kb
<1>1. searchKB = req[p].kb /\ chunkKB = req[p].kb
  BY DEF CompanyInv
<1>2. at[p] \in UploadSteps => req[p].job = "web"
  <2>1. at[p] \in UploadSteps => req[p].job \in Uploaders
    BY DEF ArchiveInv, RequestsFit, Fitting
  <2> QED BY <2>1, PageIs
<1> QED BY <1>1, <1>2 DEF KBFor

(* Promises are kept, and whoever does not hold the mutex deletes nothing.  *)
Honours(p) ==
    /\ \A t \in Tables : \A k \in KBs : \A d \in Promised(k) : <<k, d>> \in rows'[t]
    /\ at[p] \notin Locked => \A t \in Tables : rows[t] \subseteq rows'[t]
    /\ whole'[p] /\ req[p].doc \notin removing \cup lost =>
         \A t \in Tables : at'[p] \in Past[t] => <<req[p].kb, req[p].doc>> \in rows'[t]
    /\ \A r \in rows'["index"] :
         \/ r \in rows["index"]
         \/ r[1] = chunkKB /\ at[p] \in {"index", "dropIndex"} /\ at'[p] = Following[at[p]] /\ faults' = faults

LEMMA WriteHonours ==
    ASSUME ArchiveInv, GoneTypes, WholeInv, NEW p \in Procs, NEW t \in Tables, WriteRow(p, t) PROVE Honours(p)
<1>1. /\ ArchiveTypes /\ Fitting(p) /\ WrittenInv /\ PromisedInv /\ CompanyInv
      /\ rows \in [Tables -> SUBSET (KBs \X Docs)]
  BY DEF ArchiveInv, RequestsFit, WholeInv, ArchiveTypes
<1>2. /\ at[p] = t /\ t \in UploadSteps \ {"uploaded"} /\ t \notin {"postings", "index"} /\ Active(p)
      /\ at'[p] = Following[t] /\ whole' = whole
  BY <1>1 DEF WriteRow, Continue, Goto, Tables, Columns, ArchiveTypes, Active, history
<1>3. KBFor(p, t) = req[p].kb /\ req[p].kb \in KBs /\ req[p].doc \in Docs
  BY <1>1, <1>2, NamesIts, UploadNames
<1>4. \/ rows' = rows /\ t \in Columns /\ <<req[p].kb, req[p].doc>> \notin rows["documents"]
      \/ Insert(t, req[p].kb, req[p].doc)
  BY <1>3 DEF WriteRow
<1>5. /\ \A x \in Tables : rows[x] \subseteq rows'[x]
      /\ \A x \in Tables \ {t} : rows'[x] = rows[x]
      /\ Insert(t, req[p].kb, req[p].doc) => <<req[p].kb, req[p].doc>> \in rows'[t]
  <2>1. CASE rows' = rows /\ t \in Columns /\ <<req[p].kb, req[p].doc>> \notin rows["documents"]
    <3>1. Insert(t, req[p].kb, req[p].doc) => <<req[p].kb, req[p].doc>> \in rows'[t]
      BY <1>1, <1>3, InsertIn
    <3> QED BY <2>1, <3>1
  <2>2. CASE Insert(t, req[p].kb, req[p].doc)
    BY <1>1, <1>3, <2>2, InsertIn
  <2> QED BY <1>4, <2>1, <2>2
<1>6. ASSUME whole[p], req[p].doc \notin removing \cup lost PROVE <<req[p].kb, req[p].doc>> \in rows'[t]
  <2>1. t \in Columns => <<req[p].kb, req[p].doc>> \in rows["documents"]
    <3>1. t \in Columns => t \in Past["documents"] /\ "documents" \in Tables
      BY PastIs DEF Tables
    <3> QED BY <1>1, <1>2, <1>6, <3>1 DEF WrittenInv
  <2> QED BY <1>4, <1>5, <2>1
<1>7. ASSUME whole'[p], req[p].doc \notin removing \cup lost, NEW x \in Tables, at'[p] \in Past[x]
      PROVE  <<req[p].kb, req[p].doc>> \in rows'[x]
  <2>1. at[p] \in Past[x] \/ x = t
    BY <1>2, <1>7, PastIs
  <2>2. CASE at[p] \in Past[x]
    BY <1>1, <1>2, <1>5, <1>7, <2>2 DEF WrittenInv
  <2> QED BY <1>2, <1>6, <1>7, <2>1, <2>2
<1>8. rows'["index"] = rows["index"]
  BY <1>2, <1>5 DEF Tables
<1>9. \A x \in Tables : \A k \in KBs : \A d \in Promised(k) : <<k, d>> \in rows'[x]
  BY <1>1, <1>5 DEF PromisedInv
<1> QED BY <1>5, <1>7, <1>8, <1>9 DEF Honours

LEMMA DeleteHonours ==
    ASSUME ArchiveInv, GoneTypes, WholeInv, NEW p \in Procs, NEW t \in Tables, DeleteRows(p, t) PROVE Honours(p)
<1>1. /\ ArchiveTypes /\ Fitting(p) /\ ApartInv /\ PromisedInv
  BY DEF ArchiveInv, RequestsFit, WholeInv
<1>2. at[p] \in {"dropPostings", "dropChunksIndex", "dropSections", "dropChunks", "dropDocuments"} /\ Active(p)
  BY DEF DeleteRows, Deleting, Active
<1>3. req[p].old \in removing /\ <<req[p].kb, req[p].old>> \notin restored
  BY <1>1, <1>2 DEF Fitting, ApartInv
<1>4. \A x \in Tables : rows'[x] \in {rows[x], rows[x] \ {<<req[p].kb, req[p].old>>}}
  BY DEF DeleteRows
<1>5. \A x \in Tables : \A k \in KBs : \A d \in Promised(k) : <<k, d>> \in rows'[x]
  <2> SUFFICES ASSUME NEW x \in Tables, NEW k \in KBs, NEW d \in Promised(k) PROVE <<k, d>> \in rows'[x]
    OBVIOUS
  <2>1. <<k, d>> \in rows[x]
    BY <1>1 DEF PromisedInv
  <2>2. <<k, d>> # <<req[p].kb, req[p].old>>
    BY <1>3 DEF Promised, Kept
  <2> QED BY <1>4, <2>1, <2>2
<1>6. at'[p] \notin UploadSteps
  <2>1. Continue(p) \/ Goto(p, "removed")
    BY DEF DeleteRows, AfterDeletion, Continue
  <2>2. at'[p] = Following[at[p]] \/ at'[p] = "removed"
    BY <1>1, <2>1 DEF Continue, Goto, ArchiveTypes
  <2> QED BY <1>2, <2>2, FollowingIs
<1>7. \A x \in Tables : at'[p] \notin Past[x]
  BY <1>6, PastIs
<1>8. \A r \in rows'["index"] : r \in rows["index"]
  BY <1>4 DEF Tables
<1> QED BY <1>2, <1>5, <1>7, <1>8 DEF Honours

LEMMA RetagHonours == ASSUME ArchiveInv, WholeInv, NEW p \in Procs, Retag(p) PROVE Honours(p)
<1>1. ArchiveTypes /\ Fitting(p) /\ PromisedInv
  BY DEF ArchiveInv, RequestsFit, WholeInv
<1>2. at[p] = "retag" /\ at'[p] = "idle" /\ Insert("documents", chunkKB, req[p].old)
  BY <1>1 DEF Retag, Goto, ArchiveTypes
<1>3. req[p].old \in Docs /\ chunkKB \in KBs /\ {"documents", "index"} \subseteq Tables
  BY <1>1, <1>2 DEF Fitting, Active, ArchiveTypes, Tables
<1>4. /\ rows'["documents"] = rows["documents"] \cup {<<chunkKB, req[p].old>>}
      /\ \A x \in Tables \ {"documents"} : rows'[x] = rows[x]
  BY <1>1, <1>2, <1>3, InsertIn
<1>5. \A x \in Tables : rows[x] \subseteq rows'[x] /\ at'[p] \notin Past[x]
  BY <1>2, <1>4, PastIs
<1> QED BY <1>1, <1>3, <1>4, <1>5 DEF PromisedInv, Honours

(* A rewrite: the promised documents were read.                             *)
LEMMA OverwriteGives ==
    ASSUME ArchiveTypes, NEW t \in Tables, NEW k \in KBs, NEW S \in SUBSET Docs, Overwrite(t, k, S)
    PROVE  /\ \A x \in Tables \ {t} : rows'[x] = rows[x]
           /\ \A d \in S : <<k, d>> \in rows'[t]
           /\ \A j \in KBs \ {k}, d \in Docs : <<j, d>> \in rows'[t] <=> <<j, d>> \in rows[t]
           /\ \A r \in rows'[t] : r \in rows[t] \/ r[1] = k
<1>1. rows \in [Tables -> SUBSET (KBs \X Docs)]
  BY DEF ArchiveTypes
<1>2. rows'[t] = {r \in rows[t] : r[1] # k} \cup ({k} \X S) /\ \A x \in Tables \ {t} : rows'[x] = rows[x]
  BY <1>1 DEF Overwrite
<1>3. \A r \in {k} \X S : r[1] = k
  OBVIOUS
<1>4. \A j \in KBs \ {k}, d \in Docs : <<j, d>>[1] = j /\ <<j, d>> \notin {k} \X S
  OBVIOUS
<1>5. \A d \in S : <<k, d>> \in {k} \X S
  OBVIOUS
<1> QED BY <1>2, <1>3, <1>4, <1>5

LEMMA RewriteHonours ==
    ASSUME ArchiveInv, WholeInv, NEW p \in Procs, NEW t \in {"postings", "index"}, NEW S \in SUBSET Docs,
           Overwrite(t, req[p].kb, S), at[p] \in {"postings", "index", "dropIndex"},
           \A d \in seen[p] : d \in S \/ (d \notin Promised(req[p].kb)),
           at'[p] = Following[at[p]], at[p] \in UploadSteps => at[p] = t, UNCHANGED <<whole, faults>>,
           whole[p] /\ req[p].doc \notin removing \cup lost /\ at[p] \in UploadSteps => req[p].doc \in S,
           t = "index" => req[p].kb = chunkKB /\ at[p] \in {"index", "dropIndex"}
    PROVE  Honours(p)
<1>1. ArchiveTypes /\ Fitting(p) /\ PromisedInv /\ WrittenInv /\ ReadInv /\ Active(p)
  BY DEF ArchiveInv, RequestsFit, WholeInv, Active
<1>2. req[p].kb \in KBs /\ t \in Tables /\ "index" \in Tables /\ at[p] \in Locked
  BY <1>1 DEF ArchiveTypes, Tables
<1>3. /\ \A x \in Tables \ {t} : rows'[x] = rows[x]
      /\ \A d \in S : <<req[p].kb, d>> \in rows'[t]
      /\ \A j \in KBs \ {req[p].kb}, d \in Docs : <<j, d>> \in rows'[t] <=> <<j, d>> \in rows[t]
      /\ \A r \in rows'[t] : r \in rows[t] \/ r[1] = req[p].kb
  BY <1>1, <1>2, OverwriteGives
<1>4. \A x \in Tables : \A k \in KBs : \A d \in Promised(k) : <<k, d>> \in rows'[x]
  <2> SUFFICES ASSUME NEW x \in Tables, NEW k \in KBs, NEW d \in Promised(k) PROVE <<k, d>> \in rows'[x]
    OBVIOUS
  <2>1. <<k, d>> \in rows[x] /\ d \in Docs
    BY <1>1 DEF PromisedInv, Promised
  <2>2. CASE x = t /\ k = req[p].kb
    <3>1. d \in seen[p]
      BY <1>1, <2>2 DEF ReadInv, Rewriting
    <3> QED BY <1>3, <2>2, <3>1
  <2> QED BY <1>3, <2>1, <2>2
<1>5. ASSUME whole[p], req[p].doc \notin removing \cup lost, NEW x \in Tables, at'[p] \in Past[x]
      PROVE  <<req[p].kb, req[p].doc>> \in rows'[x]
  <2>1. at[p] \in UploadSteps
    <3>1. at'[p] \in UploadSteps
      BY <1>5, PastIs
    <3> QED BY <3>1, FollowingIs
  <2>2. at[p] \in Past[x] \/ x = t
    BY <1>5, <2>1, PastIs
  <2>3. CASE x = t
    BY <1>3, <1>5, <2>1, <2>3
  <2>4. CASE x # t
    BY <1>1, <1>3, <1>5, <2>2, <2>4 DEF WrittenInv
  <2> QED BY <2>3, <2>4
<1>6. \A r \in rows'["index"] : \/ r \in rows["index"]
                                \/ r[1] = chunkKB /\ at[p] \in {"index", "dropIndex"} /\ faults' = faults
  <2>1. CASE t = "index"
    BY <1>3, <2>1
  <2>2. CASE t # "index"
    BY <1>2, <1>3, <2>2
  <2> QED BY <2>1, <2>2
<1> QED BY <1>2, <1>4, <1>5, <1>6 DEF Honours

LEMMA InvertedHonours ==
    ASSUME ArchiveInv, GoneTypes, WholeInv, NEW p \in Procs, UpdateInvertedIndex(p) PROVE Honours(p)
<1>1. /\ ArchiveTypes /\ Fitting(p) /\ CompanyInv /\ ApartInv /\ WrittenInv
  BY DEF ArchiveInv, RequestsFit, WholeInv
<1>2. /\ at[p] = "postings" /\ at'[p] = Following[at[p]] /\ UNCHANGED <<whole, faults>> /\ Active(p)
  BY <1>1 DEF UpdateInvertedIndex, Continue, Goto, ArchiveTypes, Active, history
<1>3. searchKB = req[p].kb /\ chunkKB = req[p].kb /\ req[p].doc \in Docs /\ seen[p] \subseteq Docs /\ Uploads(p)
  BY <1>1, <1>2 DEF CompanyInv, Fitting, ArchiveTypes, Uploads
<1> DEFINE new == {req[p].doc} \cap Entries("chunks_index", req[p].kb)
           S == (seen[p] \ {req[p].doc}) \cup new
<1>4. Overwrite("postings", req[p].kb, S) /\ S \in SUBSET Docs
  BY <1>3 DEF UpdateInvertedIndex
<1>5. req[p].doc \notin Promised(req[p].kb)
  BY <1>1, <1>3 DEF ApartInv, Promised, Kept, ArchiveTypes
<1>6. ASSUME whole[p], req[p].doc \notin removing \cup lost PROVE req[p].doc \in S
  <2>1. <<req[p].kb, req[p].doc>> \in rows["chunks_index"]
    BY <1>1, <1>2, <1>6, PastIs DEF WrittenInv, Tables
  <2> QED BY <2>1 DEF Entries
<1> HIDE DEF S
<1>7. \A d \in seen[p] : d \in S \/ d \notin Promised(req[p].kb)
  BY <1>5 DEF S
<1> QED BY <1>2, <1>4, <1>6, <1>7, RewriteHonours

LEMMA IndexHonours ==
    ASSUME ArchiveInv, GoneTypes, WholeInv, NEW p \in Procs, UpdateIndex(p) \/ RemoveFromIndex(p) PROVE Honours(p)
<1>1. /\ ArchiveTypes /\ Fitting(p) /\ CompanyInv /\ ApartInv
  BY DEF ArchiveInv, RequestsFit, WholeInv
<1>2. /\ at[p] \in {"index", "dropIndex"} /\ at'[p] = Following[at[p]] /\ UNCHANGED <<whole, faults>> /\ Active(p)
  BY <1>1 DEF UpdateIndex, RemoveFromIndex, Continue, Goto, ArchiveTypes, Active, history
<1>3. chunkKB = req[p].kb /\ seen[p] \subseteq Docs
  BY <1>1, <1>2 DEF CompanyInv, ArchiveTypes
<1>4. CASE UpdateIndex(p)
  <2>1. at[p] = "index" /\ req[p].doc \in Docs
    BY <1>1, <1>2, <1>4 DEF UpdateIndex, Fitting
  <2> DEFINE S == seen[p] \cup {req[p].doc}
  <2>2. Overwrite("index", req[p].kb, S) /\ S \in SUBSET Docs /\ seen[p] \subseteq S /\ req[p].doc \in S
    BY <1>3, <1>4, <2>1 DEF UpdateIndex
  <2> HIDE DEF S
  <2> QED BY <1>2, <1>3, <2>1, <2>2, RewriteHonours
<1>5. CASE RemoveFromIndex(p)
  <2>1. at[p] = "dropIndex" /\ req[p].old \in removing
    BY <1>1, <1>2, <1>5 DEF RemoveFromIndex, Fitting
  <2> DEFINE S == seen[p] \ {req[p].old}
  <2>2. Overwrite("index", req[p].kb, S) /\ S \in SUBSET Docs
    BY <1>3, <1>5 DEF RemoveFromIndex
  <2>3. req[p].old \notin Promised(req[p].kb)
    BY <1>1, <1>2, <2>1 DEF ApartInv, Promised, Kept
  <2>4. \A d \in seen[p] : d \in S \/ d \notin Promised(req[p].kb)
    BY <2>3
  <2> HIDE DEF S
  <2> QED BY <1>2, <1>3, <2>1, <2>2, <2>4, RewriteHonours
<1> QED BY <1>4, <1>5

(* The steps that leave the tables alone take an upload past none.          *)
LEMMA IdlesPast ==
    ASSUME ArchiveInv, WholeInv, NEW p \in Procs, Step(p),
           ~(\E t \in Tables : WriteRow(p, t) \/ DeleteRows(p, t)), ~Retag(p),
           ~(UpdateInvertedIndex(p) \/ UpdateIndex(p) \/ RemoveFromIndex(p)), NEW t \in Tables, at'[p] \in Past[t]
    PROVE  whole'[p] = FALSE \/ (at[p] \in Past[t] /\ whole'[p] = whole[p])
<1>1. ArchiveTypes /\ at \in [Procs -> Steps] /\ whole \in [Procs -> BOOLEAN]
  BY DEF ArchiveInv, ArchiveTypes, WholeInv, WholeTypes
<1>2. at'[p] \in UploadSteps \ {"chunks"} /\ Locks(p)
  BY PastIs, StepLocks DEF WholeInv
<1>3. CASE SaveVectors(p)
  <2>1. at[p] = "vectors" /\ at'[p] = Following["vectors"] /\ whole' = whole
    BY <1>1, <1>3 DEF SaveVectors, Continue, Goto, history
  <2>2. "vectors" \notin Tables
    BY DEF Tables, Columns
  <2> QED BY <2>1, <2>2, PastIs
<1>4. ASSUME NEW x \in Tables, ReadEntries(p, x) \/ ReadFails(p, x)
      PROVE  whole'[p] = FALSE \/ (at[p] \in Past[t] /\ whole'[p] = whole[p])
  <2>1. CASE ReadEntries(p, x)
    <3>1. at[p] \in {"readPostings", "readIndex", "findIndex"} /\ at'[p] = Following[at[p]] /\ whole' = whole
      BY <1>1, <2>1 DEF ReadEntries, Reading, Continue, Goto, history
    <3>2. at[p] \in {"readPostings", "readIndex"} /\ at[p] # t
      BY <1>2, <3>1, FollowingIs DEF Tables, Columns
    <3> QED BY <3>1, <3>2, PastIs
  <2>2. CASE ReadFails(p, x)
    BY <1>1, <2>2 DEF ReadFails
  <2> QED BY <1>4, <2>1, <2>2
<1>5. CASE FindFails(p) \/ IndexKept(p) \/ \E x \in Tables : WriteFails(p, x) \/ DeleteFails(p, x)
  BY <1>1, <1>5 DEF FindFails, IndexKept, WriteFails, DeleteFails
<1>6. CASE FindForRemoval(p) \/ Lock(p)
  <2>1. at[p] \in {"find", "lock", "lockRemoval"} /\ at'[p] = Following[at[p]]
    BY <1>1, <1>6 DEF FindForRemoval, Lock, Continue, Goto
  <2> QED BY <1>2, <2>1, FollowingIs
<1>7. CASE Scope(p) \/ SetIngestKB(p) \/ SetSearchKB(p) \/ SetChunkKB(p)
  <2>1. at[p] \in Scopes /\ mu' = mu
    BY <1>7 DEF Scope, SetIngestKB, SetSearchKB, SetChunkKB
  <2> QED BY <1>2, <2>1, NamesAssumption DEF Locks
<1>8. CASE AnswerUploaded(p) \/ AnswerRemoved(p) \/ AnswerFailed(p) \/ ParseFails(p) \/ CheckListed(p)
  BY <1>1, <1>2, <1>8 DEF AnswerUploaded, AnswerRemoved, AnswerFailed, Unlock, ParseFails, CheckListed, Goto
<1> QED BY <1>3, <1>4, <1>5, <1>6, <1>7, <1>8 DEF Step

LEMMA StepHonours == ASSUME ArchiveInv, GoneTypes, WholeInv, NEW p \in Procs, Step(p) PROVE Honours(p)
<1> DEFINE Writes == \/ \E t \in Tables : WriteRow(p, t) \/ DeleteRows(p, t)
                     \/ Retag(p) \/ UpdateInvertedIndex(p) \/ UpdateIndex(p) \/ RemoveFromIndex(p)
<1>1. CASE Writes
  BY <1>1, WriteHonours, DeleteHonours, RetagHonours, InvertedHonours, IndexHonours
<1>2. CASE ~Writes
  <2>1. rows' = rows
    BY <1>2 DEF Step, Scope, SetIngestKB, SetSearchKB, SetChunkKB, Lock, AnswerUploaded, AnswerRemoved,
                AnswerFailed, Unlock, ParseFails, WriteFails, ReadEntries, ReadFails, DeleteFails, SaveVectors,
                FindForRemoval, FindFails, IndexKept, CheckListed, database
  <2>2. \A t \in Tables : at'[p] \in Past[t] => whole'[p] = FALSE \/ (at[p] \in Past[t] /\ whole'[p] = whole[p])
    BY <1>2, IdlesPast
  <2> QED BY <2>1, <2>2 DEF WholeInv, PromisedInv, WrittenInv, Honours
<1> QED BY <1>1, <1>2

(* What a request has read when it comes to a rewrite.                      *)
Reads(p) ==
    /\ \A q \in Procs \ {p} : seen'[q] = seen[q]
    /\ at'[p] \in Rewriting =>
         \/ Promised(req[p].kb) \subseteq seen'[p] /\ uploaded' \subseteq uploaded
         \/ faults' # faults /\ \A d \in Kept : home[d] = req[p].kb => d \notin uploaded'

LEMMA StepReads == ASSUME ArchiveInv, GoneTypes, WholeInv, NEW p \in Procs, Step(p) PROVE Reads(p)
<1>1. /\ ArchiveTypes /\ Fitting(p) /\ at \in [Procs -> Steps] /\ PromisedInv /\ CompanyInv
      /\ seen \in [Procs -> SUBSET Docs] /\ Locks(p) /\ faults \in Nat /\ LockInv
  BY StepLocks DEF ArchiveInv, ArchiveTypes, RequestsFit, WholeInv, WholeTypes
<1>2. ASSUME NEW t \in Tables, ReadEntries(p, t) \/ ReadFails(p, t) PROVE Reads(p)
  <2>1. at[p] \in {"readPostings", "readIndex", "findIndex"} /\ t \in {"postings", "index"} /\ Active(p)
    BY <1>2 DEF ReadEntries, ReadFails, Reading, Active
  <2>2. KBFor(p, t) = req[p].kb /\ req[p].kb \in KBs
    BY <1>1, <2>1, NamesIts DEF ArchiveTypes
  <2>3. Promised(req[p].kb) \subseteq Entries(t, req[p].kb)
    <3> SUFFICES ASSUME NEW d \in Promised(req[p].kb) PROVE d \in Entries(t, req[p].kb)
      OBVIOUS
    <3>1. <<req[p].kb, d>> \in rows[t]
      BY <1>1, <2>2 DEF PromisedInv
    <3> QED BY <3>1 DEF Entries
  <2>4. CASE ReadEntries(p, t)
    <3>1. seen' = [seen EXCEPT ![p] = Entries(t, req[p].kb)] /\ uploaded' = uploaded
      BY <2>2, <2>4 DEF ReadEntries, history
    <3> QED BY <1>1, <2>3, <3>1 DEF Reads
  <2>5. CASE ReadFails(p, t)
    <3>1. seen' = [seen EXCEPT ![p] = {}] /\ faults' # faults
      BY <1>1, <2>5, FaultCounts DEF ReadFails
    <3>2. at'[p] \in Rewriting => uploaded' = uploaded \ Entries(t, req[p].kb)
      BY <1>1, <2>2, <2>5 DEF ReadFails, Goto, Rewriting
    <3>3. \A d \in Kept : home[d] = req[p].kb => d \in Promised(req[p].kb)
      BY DEF Promised, Kept, WholeInv, WholeTypes
    <3> QED BY <1>1, <2>3, <3>1, <3>2, <3>3 DEF Reads
  <2> QED BY <1>2, <2>4, <2>5
<1>3. ASSUME \A t \in Tables : ~ReadEntries(p, t) /\ ~ReadFails(p, t) PROVE Reads(p)
  <2>1. seen' = seen
    BY <1>3 DEF Step, Scope, SetIngestKB, SetSearchKB, SetChunkKB, Lock, AnswerUploaded, AnswerRemoved,
                AnswerFailed, Unlock, ParseFails, WriteRow, WriteFails, DeleteRows, DeleteFails, SaveVectors,
                UpdateInvertedIndex, UpdateIndex, RemoveFromIndex, Retag,
                FindForRemoval, FindFails, IndexKept, CheckListed, locals
  <2>2. at'[p] \notin Rewriting
    <3>1. CASE Scope(p) \/ SetIngestKB(p) \/ SetSearchKB(p) \/ SetChunkKB(p)
      <4>1. at[p] \in Scopes /\ mu' = mu
        BY <3>1 DEF Scope, SetIngestKB, SetSearchKB, SetChunkKB
      <4> QED BY <1>1, <4>1, NamesAssumption DEF Locks, Rewriting
    <3>2. CASE AnswerUploaded(p) \/ AnswerRemoved(p) \/ AnswerFailed(p) \/ ParseFails(p) \/ CheckListed(p) \/ Retag(p)
      BY <1>1, <3>2 DEF AnswerUploaded, AnswerRemoved, AnswerFailed, Unlock, ParseFails, CheckListed, Retag, Goto, Rewriting
    <3>3. CASE ~(Scope(p) \/ SetIngestKB(p) \/ SetSearchKB(p) \/ SetChunkKB(p) \/ AnswerUploaded(p) \/ AnswerRemoved(p)
                 \/ AnswerFailed(p) \/ ParseFails(p) \/ CheckListed(p) \/ Retag(p))
      <4>1. \/ at[p] \in {"lock", "lockRemoval", "find", "postings", "vectors", "index", "dropIndex"} /\ Continue(p)
            \/ \E t \in Tables : WriteRow(p, t) \/ WriteFails(p, t) \/ DeleteRows(p, t) \/ DeleteFails(p, t)
        BY <1>3, <3>3 DEF Step, Lock, FindForRemoval, FindFails, UpdateInvertedIndex, SaveVectors, UpdateIndex,
                          RemoveFromIndex, IndexKept
      <4>2. CASE at[p] \in {"lock", "lockRemoval", "find", "postings", "vectors", "index", "dropIndex"} /\ Continue(p)
        <5>1. at'[p] = Following[at[p]]
          BY <1>1, <4>2 DEF Continue, Goto
        <5> QED BY <4>2, <5>1, FollowingIs DEF Rewriting
      <4>3. ASSUME NEW t \in Tables, WriteRow(p, t) \/ WriteFails(p, t) PROVE at'[p] \notin Rewriting
        <5>1. at[p] = t /\ at'[p] \in {Following[t], "abort", "source"}
          BY <1>1, <4>3 DEF WriteRow, WriteFails, Continue, Goto
        <5> QED BY <5>1, FollowingIs DEF Tables, Columns, Rewriting
      <4>4. ASSUME NEW t \in Tables, DeleteRows(p, t) \/ DeleteFails(p, t) PROVE at'[p] \notin Rewriting
        <5>1. at[p] \in {"dropPostings", "dropChunksIndex", "dropSections", "dropChunks", "dropDocuments"}
          BY <4>4 DEF DeleteRows, DeleteFails, Deleting
        <5>2. at'[p] \in {Following[at[p]], "abort", "removed"}
          BY <1>1, <4>4 DEF DeleteRows, DeleteFails, AfterDeletion, Goto
        <5> QED BY <5>1, <5>2, FollowingIs DEF Rewriting
      <4> QED BY <4>1, <4>2, <4>3, <4>4
    <3> QED BY <3>1, <3>2, <3>3
  <2> QED BY <2>1, <2>2 DEF Reads
<1> QED BY <1>2, <1>3

-----------------------------------------------------------------------------
(* A request beside the administrator's.                                    *)

(* What is recorded of the administrator's request and of what was restored.*)
Noted ==
    /\ zip' = zip /\ lost \subseteq lost' /\ lost' \subseteq Docs
    /\ admin'.job = admin.job /\ admin'.kb = admin.kb
    /\ admin'.job # "none" => admin'.clean = FALSE
    /\ admin.job \in {"import", "delete"} => \A d \in Docs : home'[d] = admin.kb => d \in lost'
    /\ restored' \subseteq restored /\ (faults' # faults => restored' = {})
    /\ \A q \in Procs : Active(q)' => <<req'[q].kb, req'[q].old>> \notin restored'

LEMMA ServeNotes == ASSUME ArchiveInv, WholeTypes, Serve PROVE Noted
<1>1. admin' = (IF admin = AtRest THEN admin ELSE Unclean(admin)) /\ zip' = zip
  BY DEF Serve
<1>2. /\ admin'.job = admin.job /\ admin'.kb = admin.kb
      /\ admin'.job # "none" => admin'.clean = FALSE
  <2>1. CASE admin = AtRest
    BY <1>1, <2>1 DEF AtRest
  <2>2. CASE admin # AtRest
    BY <1>1, <2>2 DEF Unclean, ArchiveInv, ArchiveTypes
  <2> QED BY <2>1, <2>2
<1>3. lost' = lost \cup (IF admin.job \in {"delete", "import"} THEN {d \in Docs : home'[d] = admin.kb} ELSE {})
  BY DEF Serve
<1>4. restored' = IF faults' # faults THEN {} ELSE {r \in restored : ~AskedAgain(r[1], r[2])}
  BY DEF Serve
<1>5. ASSUME NEW q \in Procs, Active(q)', <<req'[q].kb, req'[q].old>> \in restored' PROVE FALSE
  <2>1. ~AskedAgain(req'[q].kb, req'[q].old)
    BY <1>4, <1>5
  <2> QED BY <1>5, <2>1 DEF AskedAgain, Active
<1>6. lost \subseteq lost' /\ lost' \subseteq Docs
  BY <1>3 DEF WholeTypes
<1> QED BY <1>1, <1>2, <1>3, <1>4, <1>5, <1>6 DEF Noted

LEMMA StepCompany ==
    ASSUME ArchiveInv, GoneTypes, CompanyInv, NEW p \in Procs, Step(p) PROVE CompanyInv'
<1>1. Points(p) /\ StaysOut(p)
  BY StepPoints, StepOut
<1>2. \A q \in Procs : Active(q)' => Active(q)
  BY <1>1 DEF StaysOut, Active
<1>3. req' = req /\ \A q \in Procs \ {p} : at'[q] = at[q]
  BY <1>1 DEF StaysOut
<1>4. ASSUME NEW q \in Procs, Active(q)', NEW x \in Procs, Active(x)' PROVE req'[x].kb = req'[q].kb
  BY <1>2, <1>3, <1>4 DEF CompanyInv
<1>5. \A q \in Procs : Active(q)' => req[q].kb = req[p].kb
  BY <1>1, <1>2 DEF CompanyInv, StaysOut, Active
<1>6. ASSUME NEW q \in Procs \ {p}, Active(q)'
      PROVE  /\ at'[q] = "chunk" \/ at'[q] \notin Scopes => searchKB' = req'[q].kb
             /\ at'[q] \notin Scopes => chunkKB' = req'[q].kb
  BY <1>1, <1>2, <1>3, <1>5, <1>6 DEF CompanyInv, Points
<1>7. ASSUME Active(p)'
      PROVE  /\ at'[p] = "chunk" \/ at'[p] \notin Scopes => searchKB' = req'[p].kb
             /\ at'[p] \notin Scopes => chunkKB' = req'[p].kb
  <2>1. CASE at[p] \notin Scopes /\ at'[p] \notin Scopes
    BY <1>1, <1>2, <1>3, <1>7, <2>1 DEF CompanyInv, Points
  <2>2. CASE at[p] \in {"scope", "ingest", "search"} /\ at'[p] = Following[at[p]]
    BY <1>1, <1>3, <2>2, FollowingIs DEF Points
  <2>3. CASE at[p] = "chunk" /\ (at'[p] = "scope" \/ at'[p] \notin Scopes)
    BY <1>1, <1>2, <1>3, <1>7, <2>3 DEF CompanyInv, Points
  <2> QED BY <1>1, <2>1, <2>2, <2>3 DEF StaysOut
<1> QED BY <1>4, <1>6, <1>7 DEF CompanyInv

LEMMA AnswersAlone == ASSUME NEW p \in Procs, Step(p), at[p] = "uploaded" PROVE rows' = rows
<1>1. \A t \in Tables : t # "uploaded"
  BY DEF Tables, Columns
<1>2. ~(\E t \in Tables : WriteRow(p, t) \/ WriteFails(p, t))
  BY <1>1 DEF WriteRow, WriteFails
<1>3. ~(\E t \in Tables : ReadEntries(p, t) \/ ReadFails(p, t))
  BY DEF ReadEntries, ReadFails, Reading
<1>4. ~(\E t \in Tables : DeleteRows(p, t) \/ DeleteFails(p, t))
  BY DEF DeleteRows, DeleteFails, Deleting
<1>5. AnswerUploaded(p)
  BY <1>2, <1>3, <1>4 DEF Step, Scope, SetIngestKB, SetSearchKB, SetChunkKB, Lock, AnswerRemoved, AnswerFailed,
     ParseFails, UpdateInvertedIndex, SaveVectors, UpdateIndex, FindForRemoval, FindFails, RemoveFromIndex, IndexKept,
     CheckListed, Retag
<1> QED BY <1>5 DEF AnswerUploaded, Unlock, database

(* Only the answer to an upload adds to what was promised.                  *)
LEMMA StepPromises ==
    ASSUME ArchiveInv, WholeInv, NEW p \in Procs, Goes(p), Records(p), Noted, NEW k \in KBs, NEW d \in Promised(k)'
    PROVE  \/ d \in Promised(k)
           \/ /\ d = req[p].doc /\ k = req[p].kb /\ at[p] = "uploaded" /\ at'[p] = "idle" /\ whole[p]
              /\ d \notin removing \cup lost
<1>1. d \in Docs /\ ((d \in Kept' /\ home'[d] = k) \/ <<k, d>> \in restored')
  BY DEF Promised
<1>2. CASE <<k, d>> \in restored'
  BY <1>1, <1>2 DEF Noted, Promised
<1>3. CASE d \in Kept' /\ home'[d] = k
  <2>1. home' = home /\ removing \subseteq removing' /\ lost \subseteq lost' /\ Fitting(p) /\ Active(p)
    BY DEF Goes, Noted, ArchiveInv, RequestsFit
  <2>2. d \in uploaded' /\ d \notin removing \cup lost /\ home[d] = k
    BY <1>3, <2>1 DEF Kept
  <2>3. CASE d \in uploaded
    BY <1>1, <2>2, <2>3 DEF Promised, Kept
  <2>4. CASE d \notin uploaded
    <3>1. d = req[p].doc /\ at[p] = "uploaded" /\ at'[p] = "idle" /\ whole[p]
      BY <2>2, <2>4 DEF Records
    <3>2. home[req[p].doc] = req[p].kb
      BY <2>1, <3>1 DEF Fitting
    <3> QED BY <2>2, <3>1, <3>2
  <2> QED BY <2>3, <2>4
<1> QED BY <1>1, <1>2, <1>3

LEMMA StepApart ==
    ASSUME ArchiveInv, WholeInv, NEW p \in Procs, Goes(p), Records(p), Noted PROVE ApartInv'
<1>1. ApartInv /\ KnownInv /\ ArchiveTypes /\ RequestsFit /\ Fitting(p)
  BY DEF WholeInv, ArchiveInv, RequestsFit
<1>2. /\ req' = req /\ home' = home /\ zip' = zip /\ restored' \subseteq restored
      /\ \A q \in Procs \ {p} : at'[q] = at[q]
      /\ Uploads(p)' => Uploads(p)
  BY DEF Goes, Noted
<1>3. ASSUME NEW d \in uploaded' PROVE d \in uploaded \/ (d = req[p].doc /\ Uploads(p) /\ ~Uploads(p)' /\ home[d] # "none")
  <2>1. d \in uploaded \/ (d = req[p].doc /\ at[p] = "uploaded" /\ at'[p] = "idle")
    BY DEF Records
  <2>2. at[p] = "uploaded" => Uploads(p) /\ home[req[p].doc] = req[p].kb /\ req[p].kb # "none"
    BY <1>1, NamesAssumption DEF Fitting, Active, Uploads, ArchiveTypes
  <2> QED BY <2>1, <2>2 DEF Uploads
<1>4. \A d \in uploaded' \cup zip'.whole : home'[d] # "none"
  BY <1>1, <1>2, <1>3 DEF ApartInv
<1>5. \A r \in restored' : home'[r[2]] # "none"
  BY <1>1, <1>2 DEF ApartInv
<1>6. ASSUME NEW q \in Procs, Uploads(q)'
      PROVE  req'[q].doc \notin uploaded' \cup zip'.whole /\ \A k \in KBs : <<k, req'[q].doc>> \notin restored'
  <2>1. Uploads(q)
    BY <1>2, <1>6 DEF Uploads
  <2>2. q # p => ~(Uploads(p) /\ req[p].doc = req[q].doc)
    BY <1>1, <2>1 DEF KnownInv
  <2> QED BY <1>1, <1>2, <1>3, <1>6, <2>1, <2>2 DEF ApartInv
<1>7. \A q \in Procs : Active(q)' => <<req'[q].kb, req'[q].old>> \notin restored'
  BY DEF Noted
<1> QED BY <1>4, <1>5, <1>6, <1>7 DEF ApartInv

LEMMA StepWhole == ASSUME RestoredInv, Serve, NEW p \in Procs, Step(p) PROVE WholeInv'
<1>1. /\ ArchiveInv /\ GoneTypes /\ WholeInv /\ ArchiveTypes
      /\ Goes(p) /\ Locks(p) /\ Records(p) /\ Honours(p) /\ Reads(p) /\ Noted
  BY StepGoes, StepLocks, StepRecords, StepHonours, StepReads, ServeNotes
     DEF RestoredInv, DeletedInv, WholeInv, ArchiveInv
<1>2. /\ req' = req /\ home' = home /\ \A q \in Procs \ {p} : at'[q] = at[q]
      /\ removing \subseteq removing' /\ lost \subseteq lost' /\ at' \in [Procs -> Steps]
  BY <1>1 DEF Goes, Noted
<1>3. LockInv'
  <2>1. Free \notin Procs
    BY NamesAssumption
  <2> QED BY <1>1, <1>2, <2>1 DEF WholeInv, LockInv, Locks
<1>4. WholeTypes'
  BY <1>1 DEF WholeInv, WholeTypes, Records, Noted
<1>5. CompanyInv'
  BY <1>1, StepCompany DEF WholeInv
<1>6. ApartInv'
  BY <1>1, StepApart
<1>7. \A q \in Procs \ {p} : at[q] \in Locked => at[p] \notin Locked
  BY <1>1 DEF WholeInv, LockInv
<1>8. ReadInv'
  <2> SUFFICES ASSUME NEW q \in Procs, at'[q] \in {"postings", "index", "dropIndex"}
               PROVE  \A k \in KBs : k = req[q].kb => Promised(k)' \subseteq seen'[q]
    <3>1. \A q \in Procs : req'[q].kb \in KBs /\ req'[q] = req[q]
      BY <1>1, <1>2 DEF ArchiveTypes
    <3> QED BY <3>1 DEF ReadInv, Rewriting
  <2> TAKE k \in KBs
  <2> HAVE k = req[q].kb
  <2> SUFFICES ASSUME NEW d \in Promised(k)' PROVE d \in seen'[q]
    OBVIOUS
  <2>1. \/ d \in Promised(k)
        \/ at[p] = "uploaded" /\ at'[p] = "idle"
    BY <1>1, StepPromises
  <2>2. CASE q # p
    <3>1. at[p] # "uploaded" /\ seen'[q] = seen[q] /\ at[q] \in {"postings", "index", "dropIndex"}
      BY <1>1, <1>2, <1>7, <2>2 DEF Reads
    <3> QED BY <1>1, <2>1, <3>1 DEF WholeInv, ReadInv, Rewriting
  <2>3. CASE q = p
    <3>1. d \in Promised(req[p].kb)
      BY <2>1, <2>3
    <3>2. CASE Promised(req[p].kb) \subseteq seen'[p]
      BY <2>3, <3>1, <3>2
    <3>3. CASE faults' # faults /\ \A x \in Kept : home[x] = req[p].kb => x \notin uploaded'
      <4>1. restored' = {}
        BY <1>1, <3>3 DEF Noted
      <4>2. d \in uploaded' /\ home[d] = req[p].kb /\ d \notin removing \cup lost
        BY <1>2, <2>3, <4>1 DEF Promised, Kept
      <4>3. d \notin uploaded
        BY <3>3, <4>2 DEF Kept
      <4>4. at'[p] = "idle"
        BY <1>1, <4>2, <4>3 DEF Records
      <4> QED BY <2>3, <4>4
    <3> QED BY <1>1, <2>3, <3>2, <3>3 DEF Reads, Rewriting
  <2> QED BY <2>2, <2>3
<1>9. LostInv'
  BY <1>1 DEF WholeInv, LostInv, Noted
<1>10. WrittenInv'
  <2> SUFFICES ASSUME NEW q \in Procs, NEW t \in Tables, at'[q] \in Past[t], whole'[q], req[q].doc \notin removing' \cup lost'
               PROVE  <<req[q].kb, req[q].doc>> \in rows'[t]
    BY <1>2 DEF WrittenInv
  <2>1. CASE q = p
    BY <1>1, <1>2, <2>1 DEF Honours
  <2>2. CASE q # p
    <3>1. at[q] \in Past[t] /\ whole[q] /\ at[q] \in Locked
      BY <1>1, <1>2, <2>2, PastIs DEF Records
    <3>2. <<req[q].kb, req[q].doc>> \in rows[t]
      BY <1>1, <1>2, <3>1 DEF WholeInv, WrittenInv
    <3> QED BY <1>1, <1>7, <2>2, <3>1, <3>2 DEF Honours
  <2> QED BY <2>1, <2>2
<1>11. PromisedInv'
  <2> SUFFICES ASSUME NEW t \in Tables, NEW k \in KBs, NEW d \in Promised(k)' PROVE <<k, d>> \in rows'[t]
    BY DEF PromisedInv
  <2>1. CASE d \in Promised(k)
    BY <1>1, <2>1 DEF Honours
  <2>2. CASE d \notin Promised(k)
    <3>1. /\ d = req[p].doc /\ k = req[p].kb /\ at[p] = "uploaded" /\ whole[p]
          /\ d \notin removing \cup lost
      BY <1>1, <2>2, StepPromises
    <3>2. <<k, d>> \in rows[t]
      BY <1>1, <3>1, PastIs DEF WholeInv, WrittenInv
    <3> QED BY <3>1, <3>2, AnswersAlone
  <2> QED BY <2>1, <2>2
<1>12. IndexedInv'
  <2>1. kbRow' = IF IndexWritten THEN [kbRow EXCEPT ![chunkKB] = "indexed"] ELSE kbRow
    BY DEF Serve
  <2>2. kbRow \in [KBs -> {"absent", "there", "indexed"}] /\ chunkKB \in KBs
    BY <1>1 DEF GoneTypes
  <2> SUFFICES ASSUME NEW r \in rows'["index"] PROVE kbRow'[r[1]] = "indexed"
    BY DEF IndexedInv
  <2>3. CASE r \in rows["index"]
    <3>1. kbRow[r[1]] = "indexed" /\ rows["index"] \in SUBSET (KBs \X Docs)
      BY <1>1, <2>3 DEF WholeInv, IndexedInv, ArchiveTypes, Tables
    <3>2. r[1] \in KBs
      BY <2>3, <3>1
    <3> HIDE DEF IndexWritten
    <3> QED BY <2>1, <2>2, <3>1, <3>2
  <2>4. CASE r[1] = chunkKB /\ at[p] \in {"index", "dropIndex"} /\ at'[p] = Following[at[p]] /\ faults' = faults
    <3>1. IndexWritten
      BY <2>4 DEF IndexWritten
    <3> HIDE DEF IndexWritten
    <3> QED BY <2>1, <2>2, <2>4, <3>1
  <2> QED BY <1>1, <2>3, <2>4 DEF Honours
<1>13. CopiedInv'
  BY <1>1 DEF WholeInv, CopiedInv, InArchive, Noted
<1> QED BY <1>3, <1>4, <1>5, <1>6, <1>8, <1>9, <1>10, <1>11, <1>12, <1>13 DEF WholeInv

-----------------------------------------------------------------------------
(* A request arrives.                                                       *)

Comes(p) ==
    /\ at' = [at EXCEPT ![p] = "scope"] /\ at[p] = "idle"
    /\ \A q \in Procs \ {p} : req'[q] = req[q] /\ seen'[q] = seen[q] /\ whole'[q] = whole[q]
    /\ UNCHANGED <<rows, searchKB, chunkKB, mu, faults, uploaded, removing, deployment>>
    /\ whole' \in [Procs -> BOOLEAN] /\ <<req'[p].job, req'[p].kb>> \in deployment.asks
    /\ \A d \in Docs : home[d] # "none" => home'[d] = home[d]
    /\ req'[p].job \in Uploaders => req'[p].doc \in Docs /\ home[req'[p].doc] = "none"

LEMMA BeginsComes ==
    ASSUME ArchiveInv, GoneTypes, whole \in [Procs -> BOOLEAN], NEW p \in Procs, NEW r, Begins(p, r),
           r.job \in Uploaders => r.doc \in Docs /\ Fresh(r.doc), r.job \notin Uploaders => r.doc = "none"
    PROVE  Comes(p)
<1>1. ArchiveTypes
  BY DEF ArchiveInv
<1>2. at[p] = "idle" /\ <<r.job, r.kb>> \in deployment.asks /\ r.kb # Base
  BY DEF Begins, GoneTypes
<1>3. /\ at' = [at EXCEPT ![p] = "scope"] /\ req' = [req EXCEPT ![p] = r] /\ seen' = [seen EXCEPT ![p] = {}]
      /\ whole' = [whole EXCEPT ![p] = TRUE]
  BY <1>2 DEF Begins, Goto
<1>4. /\ home' = [d \in Docs |-> IF d = r.doc THEN r.kb ELSE home[d]]
      /\ UNCHANGED <<rows, searchKB, chunkKB, mu, faults, uploaded, removing, deployment>>
  BY DEF Begins, database, engines
<1>5. req'[p] = r /\ \A q \in Procs \ {p} : req'[q] = req[q] /\ seen'[q] = seen[q] /\ whole'[q] = whole[q]
  BY <1>1, <1>3 DEF ArchiveTypes
<1>6. ASSUME NEW d \in Docs, home[d] # "none" PROVE home'[d] = home[d]
  BY <1>4, <1>6, NamesAssumption DEF Fresh
<1> QED BY <1>2, <1>3, <1>4, <1>5, <1>6 DEF Comes, Fresh

LEMMA BeginComes ==
    ASSUME ArchiveInv, GoneTypes, whole \in [Procs -> BOOLEAN], NEW p \in Procs, Begin(p) PROVE Comes(p)
<1>1. PICK k \in KBs, d \in Docs :
        \/ \E job \in {"web", "engine"} : BeginUpload(p, job, k, d)
        \/ BeginRemove(p, k, d)
        \/ \E new \in Docs : BeginReplace(p, k, d, new)
        \/ BeginTags(p, k, d)
  BY DEF Begin
<1>2. ASSUME NEW job \in {"web", "engine"}, BeginUpload(p, job, k, d) PROVE Comes(p)
  <2> DEFINE r == [job |-> job, kb |-> k, doc |-> d, old |-> "none"]
  <2>1. r.job \in Uploaders /\ r.doc = d
    OBVIOUS
  <2>2. Begins(p, r) /\ Fresh(d)
    BY <1>2 DEF BeginUpload
  <2> HIDE DEF r
  <2> QED BY <2>1, <2>2, BeginsComes
<1>3. ASSUME NEW job \in {"remove", "tags"},
             Begins(p, [job |-> job, kb |-> k, doc |-> "none", old |-> d]) PROVE Comes(p)
  <2> DEFINE r == [job |-> job, kb |-> k, doc |-> "none", old |-> d]
  <2>1. r.job \notin Uploaders /\ r.doc = "none"
    OBVIOUS
  <2>2. Begins(p, r)
    BY <1>3
  <2> HIDE DEF r
  <2> QED BY <2>1, <2>2, BeginsComes
<1>4. ASSUME NEW new \in Docs, BeginReplace(p, k, d, new) PROVE Comes(p)
  <2> DEFINE r == [job |-> "replace", kb |-> k, doc |-> new, old |-> d]
  <2>1. r.job \in Uploaders /\ r.doc = new
    OBVIOUS
  <2>2. Begins(p, r) /\ Fresh(new)
    BY <1>4 DEF BeginReplace
  <2> HIDE DEF r
  <2> QED BY <2>1, <2>2, BeginsComes
<1> QED BY <1>1, <1>2, <1>3, <1>4 DEF BeginRemove, BeginTags

LEMMA ComesApart ==
    ASSUME ArchiveInv, WholeInv, NEW p \in Procs, Comes(p), Noted PROVE ApartInv'
<1>1. ApartInv /\ ArchiveTypes /\ WholeTypes
  BY DEF WholeInv, ArchiveInv
<1>2. /\ uploaded' = uploaded /\ zip' = zip /\ restored' \subseteq restored
      /\ \A q \in Procs \ {p} : at'[q] = at[q] /\ req'[q] = req[q]
      /\ \A d \in Docs : home[d] # "none" => home'[d] = home[d]
  BY <1>1 DEF Comes, Noted, ArchiveTypes
<1>3. \A d \in uploaded' \cup zip'.whole : home'[d] # "none"
  BY <1>1, <1>2 DEF ApartInv, WholeTypes
<1>4. ASSUME NEW r \in restored' PROVE home'[r[2]] # "none" /\ home[r[2]] # "none"
  <2>1. r[2] \in Docs /\ r \in restored
    BY <1>1, <1>2 DEF WholeTypes
  <2> QED BY <1>1, <1>2, <2>1 DEF ApartInv
<1>5. ASSUME NEW q \in Procs, Uploads(q)'
      PROVE  req'[q].doc \notin uploaded' \cup zip'.whole /\ \A k \in KBs : <<k, req'[q].doc>> \notin restored'
  <2>1. CASE q # p
    <3>1. Uploads(q)
      BY <1>2, <1>5, <2>1 DEF Uploads
    <3> QED BY <1>1, <1>2, <2>1, <3>1 DEF ApartInv
  <2>2. CASE q = p
    <3>1. home[req'[p].doc] = "none"
      BY <1>5, <2>2 DEF Comes, Uploads
    <3>2. req'[p].doc \notin uploaded \cup zip.whole
      BY <1>1, <3>1 DEF ApartInv
    <3>3. \A k \in KBs : <<k, req'[p].doc>> \notin restored'
      BY <1>4, <3>1
    <3> QED BY <1>2, <2>2, <3>2, <3>3
  <2> QED BY <2>1, <2>2
<1>6. \A q \in Procs : Active(q)' => <<req'[q].kb, req'[q].old>> \notin restored'
  BY DEF Noted
<1> QED BY <1>3, <1>4, <1>5, <1>6 DEF ApartInv

LEMMA ComesCompany ==
    ASSUME Companions, ArchiveInv, CompanyInv, NEW p \in Procs, Comes(p) PROVE CompanyInv'
<1>1. /\ at'[p] = "scope" /\ \A q \in Procs \ {p} : at'[q] = at[q] /\ req'[q] = req[q]
      /\ UNCHANGED <<searchKB, chunkKB>>
  BY DEF Comes, ArchiveInv, ArchiveTypes
<1>2. ASSUME NEW q \in Procs, Active(q)' PROVE <<req'[q].job, req'[q].kb>> \in deployment.asks
  <2>1. CASE q # p
    BY <1>1, <1>2, <2>1 DEF ArchiveInv, RequestsFit, Fitting, Active
  <2> QED BY <2>1 DEF Comes
<1>3. ASSUME NEW q \in Procs, Active(q)', NEW x \in Procs, Active(x)' PROVE req'[x].kb = req'[q].kb
  <2>1. CASE \A a \in Procs : \A b \in Procs : a = b
    BY <2>1
  <2>2. CASE \A y \in Deployments : \A a \in y.asks : \A b \in y.asks : a[2] = b[2]
    <3>1. deployment \in Deployments
      BY DEF ArchiveInv, ArchiveTypes
    <3>2. /\ <<req'[q].job, req'[q].kb>> \in deployment.asks
          /\ <<req'[x].job, req'[x].kb>> \in deployment.asks
      BY <1>2, <1>3
    <3>3. <<req'[q].job, req'[q].kb>>[2] = <<req'[x].job, req'[x].kb>>[2]
      BY <2>2, <3>1, <3>2
    <3> QED BY <3>3
  <2> QED BY <2>1, <2>2 DEF Companions
<1>4. ASSUME NEW q \in Procs, Active(q)'
      PROVE  /\ at'[q] = "chunk" \/ at'[q] \notin Scopes => searchKB' = req'[q].kb
             /\ at'[q] \notin Scopes => chunkKB' = req'[q].kb
  BY <1>1, <1>4 DEF CompanyInv, Active
<1> QED BY <1>3, <1>4 DEF CompanyInv

LEMMA BeginWhole == ASSUME Companions, RestoredInv, Serve, NEW p \in Procs, Begin(p) PROVE WholeInv'
<1>1. ArchiveInv /\ GoneTypes /\ WholeInv /\ ArchiveTypes /\ WholeTypes /\ Comes(p) /\ Noted
  BY BeginComes, ServeNotes DEF RestoredInv, DeletedInv, WholeInv, WholeTypes, ArchiveInv
<1>2. /\ at[p] = "idle" /\ at'[p] = "scope"
      /\ \A q \in Procs \ {p} : at'[q] = at[q] /\ req'[q] = req[q] /\ seen'[q] = seen[q] /\ whole'[q] = whole[q]
      /\ removing' = removing /\ lost \subseteq lost' /\ rows' = rows /\ mu' = mu
  BY <1>1 DEF Comes, Noted, ArchiveTypes
<1>3. LockInv'
  BY <1>1, <1>2 DEF WholeInv, LockInv
<1>4. WholeTypes'
  BY <1>1 DEF WholeTypes, Comes, Noted
<1>5. CompanyInv' /\ ApartInv'
  BY <1>1, ComesCompany, ComesApart DEF WholeInv
<1>6. ASSUME NEW k \in KBs PROVE Promised(k)' \subseteq Promised(k)
  <2> SUFFICES ASSUME NEW d \in Promised(k)' PROVE d \in Promised(k)
    OBVIOUS
  <2>1. CASE <<k, d>> \in restored'
    BY <1>1, <2>1 DEF Noted, Promised
  <2>2. CASE d \in Kept' /\ home'[d] = k
    <3>1. d \in uploaded /\ d \notin removing \cup lost /\ d \in Docs
      BY <1>1, <1>2, <2>2 DEF Kept, Comes, WholeTypes
    <3>2. home[d] = k
      BY <1>1, <2>2, <3>1 DEF WholeInv, ApartInv, Comes
    <3> QED BY <3>1, <3>2 DEF Promised, Kept
  <2> QED BY <2>1, <2>2 DEF Promised
<1>7. ReadInv'
  <2> SUFFICES ASSUME NEW q \in Procs, at'[q] \in {"postings", "index", "dropIndex"}
               PROVE  \A k \in KBs : k = req[q].kb => Promised(k)' \subseteq seen'[q]
    <3>1. \A q \in Procs \ {p} : req'[q].kb \in KBs /\ req'[q] = req[q]
      BY <1>1, <1>2 DEF ArchiveTypes
    <3> QED BY <1>2, <3>1 DEF ReadInv, Rewriting
  <2>1. q # p /\ at[q] = at'[q] /\ seen'[q] = seen[q]
    BY <1>2
  <2> QED BY <1>1, <1>6, <2>1 DEF WholeInv, ReadInv, Rewriting
<1>8. LostInv'
  BY <1>1 DEF WholeInv, LostInv, Noted
<1>9. WrittenInv'
  BY <1>1, <1>2, PastIs DEF WholeInv, WrittenInv
<1>10. PromisedInv'
  BY <1>1, <1>2, <1>6 DEF WholeInv, PromisedInv
<1>11. IndexedInv'
  <2>1. kbRow' = IF IndexWritten THEN [kbRow EXCEPT ![chunkKB] = "indexed"] ELSE kbRow
    BY DEF Serve
  <2>2. kbRow \in [KBs -> {"absent", "there", "indexed"}] /\ rows["index"] \in SUBSET (KBs \X Docs)
    BY <1>1 DEF GoneTypes, ArchiveTypes, Tables
  <2> HIDE DEF IndexWritten
  <2> QED BY <1>1, <1>2, <2>1, <2>2 DEF WholeInv, IndexedInv
<1>12. CopiedInv'
  BY <1>1 DEF WholeInv, CopiedInv, InArchive, Noted
<1> QED BY <1>3, <1>4, <1>5, <1>7, <1>8, <1>9, <1>10, <1>11, <1>12 DEF WholeInv

LEMMA ServeWhole == ASSUME Companions, RestoredInv, Serve PROVE WholeInv'
  BY StepWhole, BeginWhole DEF Serve

-----------------------------------------------------------------------------
(* The administrator's requests.                                            *)

LEMMA StartsWhole == ASSUME ArchiveInit PROVE WholeInv
<1>1. /\ at = [p \in Procs |-> "idle"] /\ whole = [p \in Procs |-> TRUE] /\ mu = Free /\ faults = 0
      /\ uploaded = {} /\ lost = {} /\ restored = {} /\ rows = [t \in Tables |-> {}]
      /\ zip.whole = {} /\ admin.job = "none"
  BY DEF ArchiveInit, Init, NoArchive, AtRest
<1>2. LockInv
  BY <1>1, NamesAssumption DEF LockInv
<1>3. WholeTypes
  BY <1>1 DEF WholeTypes
<1>4. CompanyInv /\ ApartInv
  BY <1>1 DEF CompanyInv, ApartInv, Active, Uploads
<1>5. ReadInv /\ LostInv
  BY <1>1 DEF ReadInv, Rewriting, LostInv
<1>6. WrittenInv
  BY <1>1, PastIs DEF WrittenInv
<1>7. PromisedInv /\ IndexedInv
  BY <1>1 DEF PromisedInv, Promised, Kept, IndexedInv, Tables
<1>8. CopiedInv
  BY <1>1 DEF CopiedInv
<1> QED BY <1>2, <1>3, <1>4, <1>5, <1>6, <1>7, <1>8 DEF WholeInv

(* They leave the other requests alone, and of the tables take only rows    *)
(* nobody was promised.                                                     *)
Frame ==
    /\ UNCHANGED <<at, req, seen, searchKB, chunkKB, mu, uploaded, removing, home, whole, deployment>>
    /\ faults' \in Nat /\ lost \subseteq lost' /\ lost' \subseteq Docs
MayGo(k, d) == admin.job \in {"import", "delete"} /\ k = admin.kb /\ (admin.job = "import" => d \notin zip.whole)
Spares ==
    \A t \in Tables : \A k \in KBs : \A d \in Docs :
        <<k, d>> \in rows[t] => <<k, d>> \in rows'[t] \/ MayGo(k, d)

LEMMA FrameKeeps ==
    ASSUME ArchiveInv, WholeInv, Frame, zip'.whole \subseteq zip.whole \cup uploaded,
           \A r \in restored' : r \in restored \/ (Quiet /\ r \in KBs \X zip.whole)
    PROVE  LockInv' /\ WholeTypes' /\ CompanyInv' /\ ApartInv'
<1>1. ApartInv /\ WholeTypes /\ CompanyInv /\ LockInv
  BY DEF WholeInv
<1>2. LockInv' /\ CompanyInv'
  BY <1>1 DEF Frame, LockInv, CompanyInv, Active
<1>3. WholeTypes'
  BY <1>1 DEF Frame, WholeTypes
<1>4. \A d \in uploaded' \cup zip'.whole : home'[d] # "none"
  BY <1>1 DEF Frame, ApartInv
<1>5. \A r \in restored' : home'[r[2]] # "none"
  BY <1>1 DEF Frame, ApartInv
<1>6. ASSUME NEW p \in Procs, Active(p)'
      PROVE  /\ Uploads(p)' => /\ req'[p].doc \notin uploaded' \cup zip'.whole
                               /\ \A k \in KBs : <<k, req'[p].doc>> \notin restored'
             /\ <<req'[p].kb, req'[p].old>> \notin restored'
  <2>1. ~Quiet /\ Active(p) /\ (Uploads(p)' => Uploads(p))
    BY <1>6 DEF Quiet, Frame, Active, Uploads
  <2>2. restored' \subseteq restored
    BY <2>1
  <2> HIDE DEF Quiet
  <2> QED BY <1>1, <2>1, <2>2 DEF Frame, ApartInv
<1>7. \A p \in Procs : Uploads(p)' => Active(p)'
  BY DEF Uploads, Active
<1> QED BY <1>2, <1>3, <1>4, <1>5, <1>6, <1>7 DEF ApartInv

LEMMA Unpromised ==
    ASSUME ArchiveInv, WholeInv, NEW k \in KBs, NEW d \in Docs, MayGo(k, d)
    PROVE  /\ d \notin Promised(k)
           /\ \A p \in Procs : at[p] \in UploadSteps /\ req[p].doc = d /\ req[p].kb = k => d \in lost
<1>1. /\ \A x \in Docs : home[x] = k => x \in lost \/ (admin.job = "import" /\ x \in zip.whole)
      /\ \A r \in restored : r[1] # k
  BY DEF WholeInv, LostInv, MayGo
<1>2. home[d] = k => d \in lost
  BY <1>1 DEF MayGo
<1>3. <<k, d>> \notin restored
  <2>1. <<k, d>>[1] = k
    OBVIOUS
  <2> QED BY <1>1, <2>1
<1>4. \A p \in Procs : at[p] \in UploadSteps => home[req[p].doc] = req[p].kb
  BY DEF ArchiveInv, RequestsFit, Fitting, Active
<1> QED BY <1>2, <1>3, <1>4 DEF Promised, Kept

LEMMA OrderKeeps ==
    ASSUME ArchiveInv, WholeInv, Frame, zip'.whole \subseteq zip.whole \cup uploaded, restored' \subseteq restored,
           Spares, LostInv', IndexedInv', CopiedInv'
    PROVE  WholeInv'
<1>1. ArchiveTypes /\ WrittenInv /\ PromisedInv /\ ReadInv
  BY DEF ArchiveInv, WholeInv
<1>2. LockInv' /\ WholeTypes' /\ CompanyInv' /\ ApartInv'
  BY FrameKeeps
<1>3. \A k \in KBs : Promised(k)' \subseteq Promised(k)
  BY DEF Frame, Promised, Kept
<1>4. ReadInv'
  <2> SUFFICES ASSUME NEW q \in Procs, at'[q] \in {"postings", "index", "dropIndex"}
               PROVE  \A k \in KBs : k = req[q].kb => Promised(k)' \subseteq seen'[q]
    <3>1. \A q \in Procs : req'[q].kb \in KBs /\ req'[q] = req[q]
      BY <1>1 DEF ArchiveTypes, Frame
    <3> QED BY <3>1 DEF ReadInv, Rewriting
  <2> QED BY <1>1, <1>3 DEF ReadInv, Rewriting, Frame
<1>5. WrittenInv'
  <2> SUFFICES ASSUME NEW p \in Procs, NEW t \in Tables, at[p] \in Past[t], whole[p], req[p].doc \notin removing \cup lost
               PROVE  <<req[p].kb, req[p].doc>> \in rows'[t]
    BY DEF WrittenInv, Frame
  <2>1. at[p] \in UploadSteps
    BY PastIs
  <2>2. <<req[p].kb, req[p].doc>> \in rows[t] /\ req[p].kb \in KBs /\ req[p].doc \in Docs
    BY <1>1, <2>1 DEF WrittenInv, ArchiveTypes, ArchiveInv, RequestsFit, Fitting, Active
  <2>3. ~MayGo(req[p].kb, req[p].doc)
    BY <2>1, <2>2, Unpromised
  <2> QED BY <2>2, <2>3 DEF Spares
<1>6. PromisedInv'
  <2> SUFFICES ASSUME NEW t \in Tables, NEW k \in KBs, NEW d \in Promised(k)' PROVE <<k, d>> \in rows'[t]
    BY DEF PromisedInv
  <2>1. d \in Promised(k) /\ d \in Docs
    BY <1>3 DEF Promised
  <2>2. <<k, d>> \in rows[t] /\ ~MayGo(k, d)
    BY <1>1, <2>1, Unpromised DEF PromisedInv
  <2> QED BY <2>1, <2>2 DEF Spares
<1> QED BY <1>2, <1>4, <1>5, <1>6 DEF WholeInv

(* The request goes on or comes to its end.                                 *)
LEMMA LostGoesOn ==
    ASSUME LostInv, Frame, restored' \subseteq restored, zip'.whole = zip.whole \/ admin'.job \notin {"import", "delete"},
           \/ admin'.job \in {"none", "export"}
           \/ admin'.job = admin.job /\ admin'.kb = admin.kb
    PROVE  LostInv'
  BY DEF LostInv, Frame

LEMMA IndexedStays ==
    ASSUME ArchiveTypes, IndexedInv, rows'["index"] = rows["index"],
           \A k \in KBs : kbRow[k] = "indexed" => kbRow'[k] = "indexed"
    PROVE  IndexedInv'
<1>1. \A r \in rows["index"] : r[1] \in KBs
  BY DEF ArchiveTypes, Tables
<1> QED BY <1>1 DEF IndexedInv

(* A step of an export or import is through with its own table, and with no *)
(* other.                                                                   *)
LEMMA ThroughGoes ==
    ASSUME ArchiveTypes, AdminFits, admin.job \in {"export", "import"}, admin.at \notin {"next", "list"}, Onward(admin'),
           NEW t \in Tables, NEW d, Through(t, d)'
    PROVE  Through(t, d) \/ (t = admin.at /\ (t \in OfDocument => d = admin.doc))
<1>1. admin.at \in {"create", "index", "postings"} \cup OfDocument
  BY DEF AdminFits, AdminSteps
<1>2. admin'.left = admin.left /\ admin'.doc = admin.doc /\ admin'.at = After(admin.at)
  BY DEF Onward
<1>3. CASE t \in {"index", "postings"}
  BY <1>1, <1>2, <1>3, AfterIs DEF Through, Until
<1>4. CASE t \in OfDocument
  <2>1. d \notin admin.left /\ (d = admin.doc => After(admin.at) \notin Until[t])
    BY <1>2, <1>4 DEF Through
  <2>2. CASE d # admin.doc
    BY <1>4, <2>1, <2>2 DEF Through
  <2>3. After(admin.at) \notin Until[t] => admin.at \notin Until[t] \/ t = admin.at
    <3>1. CASE t \in {"documents", "chunks", "sections"}
      BY <1>1, <3>1, AfterIs DEF Until
    <3>2. CASE t \in {"chunks_index", "raw", "source"}
      BY <1>1, <3>2, AfterIs DEF Until
    <3> QED BY <1>4, <3>1, <3>2
  <2> QED BY <1>4, <2>1, <2>2, <2>3 DEF Through
<1> QED BY <1>3, <1>4 DEF Tables, Columns

(* An export or import that goes on with its next step.                     *)
Proceeds ==
    /\ Frame /\ Quiet' = Quiet /\ Onward(admin') /\ admin'.clean \in {admin.clean, FALSE}
    /\ admin.job \in {"export", "import"} /\ admin.at \notin {"next", "list"}

LEMMA DoneProceeds ==
    ASSUME ArchiveInv, Frame, admin.job \in {"export", "import"}, admin.at \notin {"next", "list"},
           admin' \in {Done, Unclean(Done)}
    PROVE  Proceeds /\ (admin' = Done => admin'.clean = admin.clean) /\ (admin' = Unclean(Done) => admin'.clean = FALSE)
<1>1. ArchiveTypes /\ AdminFits /\ admin.at # "row"
  BY DEF ArchiveInv, AdminFits, AdminSteps
<1>2. Onward(admin')
  BY <1>1, OnwardFits
<1>3. Done.clean = admin.clean /\ Unclean(Done).clean = FALSE
  <2> DEFINE s == After(admin.at)
  <2>1. Done = [admin EXCEPT !.at = s]
    BY DEF Done
  <2> HIDE DEF s
  <2>2. Done.clean = admin.clean /\ AdminTyped(Done)
    <3>1. AdminTyped(Done)
      BY <1>1, DoneIs
    <3> QED BY <1>1, <2>1, <3>1 DEF ArchiveTypes
  <2> QED BY <2>2 DEF Unclean, AdminTyped
<1>4. Quiet' = Quiet
  BY DEF Quiet, Frame
<1> QED BY <1>2, <1>3, <1>4 DEF Proceeds

LEMMA ExportProceeds ==
    ASSUME ArchiveInv, WholeInv, Proceeds, admin.job = "export", zip'.whole = zip.whole, rows' = rows, kbRow' = kbRow,
           restored' = restored,
           \A t \in Tables, d \in Docs : InArchive(t, d) /\ (t # admin.at \/ t \in OfDocument) => InArchive(t, d)',
           \A t \in Tables : t = admin.at /\ admin'.clean =>
              \A d \in Promised(admin.kb) : (t \in OfDocument => d = admin.doc) => InArchive(t, d)'
    PROVE  WholeInv'
<1>1. ArchiveTypes /\ AdminFits /\ LostInv /\ IndexedInv /\ CopiedInv /\ Frame
  BY DEF ArchiveInv, WholeInv, Proceeds
<1>2. admin'.job = "export" /\ admin'.kb = admin.kb
  BY DEF Proceeds, Onward
<1>3. LostInv'
  BY <1>1, <1>2, LostGoesOn
<1>4. IndexedInv'
  BY <1>1, IndexedStays
<1>5. zip'.whole = {}
  BY <1>1 DEF CopiedInv
<1>6. ASSUME admin'.clean, NEW t \in Tables, NEW d \in Kept', home'[d] = admin'.kb, Through(t, d)'
      PROVE  InArchive(t, d)'
  <2> HIDE DEF InArchive
  <2>1. admin.clean /\ d \in Kept /\ home[d] = admin.kb /\ d \in Docs /\ d \in Promised(admin.kb)
    BY <1>1, <1>2, <1>6 DEF Proceeds, Frame, Kept, Promised, WholeInv, WholeTypes
  <2>2. Through(t, d) \/ (t = admin.at /\ (t \in OfDocument => d = admin.doc))
    BY <1>1, <1>6, ThroughGoes DEF Proceeds
  <2>3. Through(t, d) => InArchive(t, d)
    BY <1>1, <2>1 DEF CopiedInv
  <2>4. CASE t # admin.at
    BY <2>1, <2>2, <2>3, <2>4
  <2>5. CASE t = admin.at /\ (t \in OfDocument => d = admin.doc)
    BY <1>6, <2>1, <2>5
  <2>6. CASE t = admin.at /\ t \in OfDocument /\ Through(t, d)
    BY <2>1, <2>3, <2>6
  <2> QED BY <2>2, <2>4, <2>5, <2>6
<1>7. CopiedInv'
  BY <1>2, <1>5, <1>6 DEF CopiedInv
<1>8. Spares
  BY DEF Spares
<1> QED BY <1>1, <1>3, <1>4, <1>5, <1>7, <1>8, OrderKeeps

LEMMA TakesWhole ==
    ASSUME ArchiveInv, WholeInv, NEW x \in Tables, TakeWide(x) \/ TakeOne(x) \/ TakeFails(x) PROVE WholeInv'
<1>1. ArchiveTypes /\ AdminFits /\ CopiedInv /\ PromisedInv /\ IndexedInv /\ WholeTypes
  BY DEF ArchiveInv, WholeInv
<1>2. admin.job = "export" /\ admin.at = x /\ admin.at \notin {"next", "list"} /\ admin.kb \in KBs
  BY <1>1 DEF TakeWide, TakeOne, TakeFails, Doing, Tables, Columns, ArchiveTypes
<1>3. rows' = rows /\ kbRow' = kbRow /\ restored' = restored /\ Frame
  <2>1. faults' \in Nat
    BY <1>1, FaultCounts DEF TakeWide, TakeOne, TakeFails, WholeTypes, vars
  <2> QED BY <1>1, <2>1 DEF TakeWide, TakeOne, TakeFails, vars, database, engines, locals, history, Frame, WholeTypes
<1>4. admin' \in {Done, Unclean(Done)} /\ (TakeFails(x) => admin' = Unclean(Done))
  BY DEF TakeWide, TakeOne, TakeFails
<1>5. Proceeds /\ (TakeFails(x) => admin'.clean = FALSE)
  BY <1>2, <1>3, <1>4, DoneProceeds
<1>6. \A t \in Tables : Promised(admin.kb) \subseteq Entries(t, admin.kb) /\ Entries(t, admin.kb) \subseteq Docs
  <2>1. rows \in [Tables -> SUBSET (KBs \X Docs)]
    BY <1>1 DEF ArchiveTypes
  <2> SUFFICES ASSUME NEW t \in Tables, NEW d \in Promised(admin.kb) PROVE d \in Entries(t, admin.kb)
    BY <2>1 DEF Entries
  <2>2. <<admin.kb, d>> \in rows[t]
    BY <1>1, <1>2 DEF PromisedInv
  <2> QED BY <2>2 DEF Entries
<1>7. x \in OfDocument <=> x \notin DOMAIN KBWide
  BY DEF KBWide, Tables, Columns
<1>8. CASE TakeWide(x)
  <2> DEFINE E == Entries(x, admin.kb)
  <2>1. /\ x \notin OfDocument
        /\ zip' = IF x = "index" /\ kbRow[admin.kb] # "indexed" THEN zip
                  ELSE [zip EXCEPT !.files = @ \cup {x}, !.entries[x] = E]
    BY <1>7, <1>8 DEF TakeWide
  <2>2. x = "index" /\ kbRow[admin.kb] # "indexed" => Promised(admin.kb) = {}
    <3> SUFFICES ASSUME x = "index", NEW d \in Promised(admin.kb) PROVE kbRow[admin.kb] = "indexed"
      OBVIOUS
    <3>1. <<admin.kb, d>> \in rows["index"]
      BY <1>1, <1>2 DEF PromisedInv
    <3>2. <<admin.kb, d>>[1] = admin.kb
      OBVIOUS
    <3> QED BY <1>1, <3>1, <3>2 DEF IndexedInv
  <2>3. Promised(admin.kb) \subseteq E
    BY <1>6
  <2> HIDE DEF E
  <2>4. CASE zip' = zip /\ Promised(admin.kb) = {}
    BY <1>1, <1>2, <1>3, <1>5, <2>1, <2>4, ExportProceeds DEF InArchive
  <2>5. CASE zip' = [zip EXCEPT !.files = @ \cup {x}, !.entries[x] = E]
    <3>1. /\ zip'.files = zip.files \cup {x} /\ zip'.whole = zip.whole
          /\ \A t \in Tables : zip'.entries[t] = IF t = x THEN E ELSE zip.entries[t]
      BY <1>1, <2>5 DEF ArchiveTypes
    <3>2. \A t \in Tables, d \in Docs : InArchive(t, d) /\ (t # x \/ t \in OfDocument) => InArchive(t, d)'
      BY <2>1, <3>1 DEF InArchive
    <3>3. \A t \in Tables : t = x => \A d \in Promised(admin.kb) : InArchive(t, d)'
      BY <2>3, <3>1 DEF InArchive
    <3> HIDE DEF InArchive
    <3> QED BY <1>1, <1>2, <1>3, <1>5, <3>1, <3>2, <3>3, ExportProceeds
  <2> QED BY <2>1, <2>2, <2>4, <2>5
<1>9. CASE TakeOne(x)
  <2> DEFINE E == Entries(x, admin.kb)
  <2>1. x \in OfDocument /\ zip' = [zip EXCEPT !.entries[x] = @ \cup ({admin.doc} \cap E)]
    BY <1>7, <1>9 DEF TakeOne
  <2>2. Promised(admin.kb) \subseteq E
    BY <1>6
  <2> HIDE DEF E
  <2>3. /\ zip'.files = zip.files /\ zip'.whole = zip.whole
        /\ \A t \in Tables : zip'.entries[t] = IF t = x THEN zip.entries[t] \cup ({admin.doc} \cap E) ELSE zip.entries[t]
    BY <1>1, <2>1 DEF ArchiveTypes
  <2>4. \A t \in Tables, d \in Docs : InArchive(t, d) => InArchive(t, d)'
    BY <2>3 DEF InArchive
  <2>5. \A t \in Tables : t = x => \A d \in Promised(admin.kb) : d = admin.doc => InArchive(t, d)'
    BY <2>1, <2>2, <2>3 DEF InArchive
  <2> HIDE DEF InArchive
  <2> QED BY <1>1, <1>2, <1>3, <1>5, <2>1, <2>3, <2>4, <2>5, ExportProceeds
<1>10. CASE TakeFails(x)
  <2>1. zip' = zip
    BY <1>10 DEF TakeFails
  <2>2. \A t \in Tables, d \in Docs : InArchive(t, d) => InArchive(t, d)'
    BY <2>1 DEF InArchive
  <2> HIDE DEF InArchive
  <2> QED BY <1>1, <1>2, <1>3, <1>5, <1>10, <2>1, <2>2, ExportProceeds
<1> QED BY <1>8, <1>9, <1>10

LEMMA ImportProceeds ==
    ASSUME ArchiveInv, WholeInv, Proceeds, admin.job = "import", zip' = zip, restored' = restored, Spares, IndexedInv',
           \A t \in Tables : t = admin.at /\ admin'.clean =>
              \A d \in zip.whole : (t \in OfDocument => d = admin.doc /\ d \notin admin.left) =>
                 <<admin.kb, d>> \in rows'[t]
    PROVE  WholeInv'
<1>1. ArchiveTypes /\ AdminFits /\ LostInv /\ CopiedInv /\ Frame /\ WholeTypes
  BY DEF ArchiveInv, WholeInv, Proceeds
<1>2. admin'.job = "import" /\ admin'.kb = admin.kb /\ admin.kb \in KBs /\ admin'.left = admin.left
  BY <1>1 DEF Proceeds, Onward, ArchiveTypes
<1>3. LostInv'
  BY <1>1, <1>2, LostGoesOn
<1>4. ASSUME admin'.clean, NEW t \in Tables, NEW d \in zip.whole, Through(t, d)'
      PROVE  <<admin.kb, d>> \in rows'[t]
  <2>1. admin.clean /\ d \in Docs
    BY <1>1, <1>4 DEF Proceeds, WholeTypes
  <2>2. Through(t, d) \/ (t = admin.at /\ (t \in OfDocument => d = admin.doc))
    BY <1>1, <1>4, ThroughGoes DEF Proceeds
  <2>3. CASE Through(t, d)
    <3>1. <<admin.kb, d>> \in rows[t]
      BY <1>1, <2>1, <2>3 DEF CopiedInv
    <3> QED BY <1>2, <1>4, <2>1, <3>1 DEF Spares, MayGo
  <2>4. t \in OfDocument => d \notin admin.left
    BY <1>2, <1>4 DEF Through
  <2> QED BY <1>4, <2>2, <2>3, <2>4
<1>5. CopiedInv'
  BY <1>1, <1>2, <1>4 DEF CopiedInv, InArchive, Proceeds
<1> QED BY <1>1, <1>3, <1>5, OrderKeeps

LEMMA PutsWhole ==
    ASSUME ArchiveInv, GoneTypes, WholeInv,
           CreateRow \/ (\E x \in Tables : PutWide(x) \/ PutOne(x)) \/ \E s \in Tables \cup {"create", "row"} : PutFails(s)
    PROVE  WholeInv'
<1>1. ArchiveTypes /\ AdminFits /\ CopiedInv /\ IndexedInv /\ WholeTypes
  BY DEF ArchiveInv, WholeInv
<1>2. admin.job = "import" /\ admin.at \notin {"next", "list"} /\ admin.kb \in KBs
  <2>1. admin.job = "import" /\ admin.at \in Tables \cup {"create", "row"}
    BY DEF CreateRow, PutWide, PutOne, PutFails, Doing
  <2> QED BY <1>1, <2>1 DEF Tables, Columns, ArchiveTypes
<1>3. zip' = zip /\ restored' = restored /\ Frame
  <2>1. faults' \in Nat
    BY <1>1, FaultCounts DEF CreateRow, PutWide, PutOne, PutFails, WholeTypes, vars
  <2> QED BY <1>1, <2>1 DEF CreateRow, PutWide, PutOne, PutFails, vars, database, engines, locals, history, Frame,
                            WholeTypes
<1>4. admin' \in {Done, Unclean(Done)}
  BY DEF CreateRow, PutWide, PutOne, PutFails
<1>5. Proceeds /\ (admin' = Unclean(Done) => admin'.clean = FALSE)
  BY <1>2, <1>3, <1>4, DoneProceeds
<1>6. CASE CreateRow \/ \E s \in Tables \cup {"create", "row"} : PutFails(s)
  <2>1. /\ rows' = rows /\ kbRow' \in {kbRow, [kbRow EXCEPT ![admin.kb] = IF @ = "absent" THEN "there" ELSE @]}
        /\ admin.at = "create" \/ admin' = Unclean(Done)
    BY <1>6 DEF CreateRow, PutFails, Doing, vars, database
  <2>2. kbRow \in [KBs -> {"absent", "there", "indexed"}]
    BY DEF GoneTypes
  <2>3. IndexedInv'
    BY <1>1, <2>1, <2>2, IndexedStays
  <2>4. Spares
    BY <2>1 DEF Spares
  <2>5. \A t \in Tables : t = admin.at => ~admin'.clean
    BY <1>5, <2>1 DEF Tables, Columns
  <2> QED BY <1>2, <1>3, <1>5, <2>3, <2>4, <2>5, ImportProceeds
<1>7. ASSUME NEW x \in Tables, PutWide(x) PROVE WholeInv'
  <2>1. x \in {"index", "postings"} /\ admin.at = x
    BY <1>7 DEF PutWide, Doing, KBWide, Tables, Columns
  <2>2. \A d \in zip.whole : d \in zip.entries[x] /\ x \in zip.files /\ d \in Docs
    BY <1>1, <2>1 DEF CopiedInv, InArchive, WholeTypes
  <2>3. CASE x \notin zip.files
    <3>1. rows' = rows /\ kbRow' = kbRow /\ zip.whole = {}
      BY <1>7, <2>2, <2>3 DEF PutWide
    <3>2. IndexedInv' /\ Spares
      BY <1>1, <3>1, IndexedStays DEF Spares
    <3> QED BY <1>2, <1>3, <1>5, <3>1, <3>2, ImportProceeds
  <2>4. CASE x \in zip.files
    <3> DEFINE E == zip.entries[x]
    <3>1. /\ Overwrite(x, admin.kb, E) /\ E \in SUBSET Docs /\ zip.whole \subseteq E
          /\ kbRow' = IF x = "index" THEN [kbRow EXCEPT ![admin.kb] = "indexed"] ELSE kbRow
      BY <1>1, <1>7, <2>2, <2>4 DEF PutWide, ArchiveTypes
    <3> HIDE DEF E
    <3>2. /\ \A t \in Tables \ {x} : rows'[t] = rows[t]
          /\ \A d \in E : <<admin.kb, d>> \in rows'[x]
          /\ \A j \in KBs \ {admin.kb}, d \in Docs : <<j, d>> \in rows'[x] <=> <<j, d>> \in rows[x]
          /\ \A r \in rows'[x] : r \in rows[x] \/ r[1] = admin.kb
      BY <1>1, <1>2, <3>1, OverwriteGives
    <3>3. Spares
      <4> SUFFICES ASSUME NEW t \in Tables, NEW k \in KBs, NEW d \in Docs, <<k, d>> \in rows[t], ~MayGo(k, d)
                   PROVE  <<k, d>> \in rows'[t]
        BY DEF Spares
      <4>1. k # admin.kb \/ d \in E
        BY <1>2, <3>1 DEF MayGo
      <4> QED BY <3>2, <4>1
    <3>4. IndexedInv'
      <4>1. kbRow \in [KBs -> {"absent", "there", "indexed"}]
        BY DEF GoneTypes
      <4>2. CASE x = "index"
        <5> SUFFICES ASSUME NEW r \in rows'["index"] PROVE kbRow'[r[1]] = "indexed"
          BY DEF IndexedInv
        <5>1. CASE r \in rows["index"]
          <6>1. kbRow[r[1]] = "indexed" /\ r[1] \in KBs
            BY <1>1, <5>1 DEF IndexedInv, ArchiveTypes, Tables
          <6> QED BY <3>1, <4>1, <4>2, <6>1
        <5>2. CASE r[1] = admin.kb
          BY <1>2, <3>1, <4>1, <4>2, <5>2
        <5> QED BY <3>2, <4>2, <5>1, <5>2
      <4>3. CASE x # "index"
        <5>1. rows'["index"] = rows["index"] /\ kbRow' = kbRow
          BY <3>1, <3>2, <4>3 DEF Tables
        <5> QED BY <1>1, <5>1, IndexedStays
      <4> QED BY <4>2, <4>3
    <3> QED BY <1>2, <1>3, <1>5, <2>1, <3>1, <3>2, <3>3, <3>4, ImportProceeds
  <2> QED BY <2>3, <2>4
<1>8. ASSUME NEW x \in Tables, PutOne(x) PROVE WholeInv'
  <2>1. x \in OfDocument /\ admin.at = x /\ x # "index" /\ kbRow' = kbRow /\ admin.doc \in Docs
    BY <1>1, <1>8 DEF PutOne, Doing, KBWide, Tables, Columns, AdminFits
  <2>2. \/ rows' = rows /\ (admin.doc \notin zip.entries[x] \/ (x \in Columns /\ ~Listed(admin.kb, admin.doc)))
        \/ Insert(x, admin.kb, admin.doc)
    BY <1>8 DEF PutOne
  <2>3. /\ \A t \in Tables : rows[t] \subseteq rows'[t]
        /\ \A t \in Tables \ {x} : rows'[t] = rows[t]
        /\ Insert(x, admin.kb, admin.doc) => <<admin.kb, admin.doc>> \in rows'[x]
    <3>1. rows \in [Tables -> SUBSET (KBs \X Docs)]
      BY <1>1 DEF ArchiveTypes
    <3>2. CASE Insert(x, admin.kb, admin.doc)
      BY <1>1, <1>2, <2>1, <3>1, <3>2, InsertIn
    <3> QED BY <2>2, <3>2
  <2>4. Spares
    BY <2>3 DEF Spares
  <2>5. IndexedInv'
    BY <1>1, <2>1, <2>3, IndexedStays DEF Tables
  <2>6. ASSUME admin'.clean, admin.doc \in zip.whole, admin.doc \notin admin.left
        PROVE  <<admin.kb, admin.doc>> \in rows'[x]
    <3>1. admin.doc \in zip.entries[x]
      BY <1>1, <2>6 DEF CopiedInv, InArchive
    <3>2. x \in Columns => Through("documents", admin.doc)
      BY <2>1, <2>6 DEF Through, Until, Columns
    <3>3. x \in Columns => Listed(admin.kb, admin.doc)
      BY <1>1, <1>2, <1>5, <2>6, <3>2 DEF CopiedInv, Proceeds, Tables, Listed
    <3> QED BY <2>2, <2>3, <3>1, <3>3
  <2> QED BY <1>2, <1>3, <1>5, <2>1, <2>4, <2>5, <2>6, ImportProceeds
<1> QED BY <1>6, <1>7, <1>8

LEMMA OrdersWhole ==
    ASSUME ArchiveInv, WholeInv, NEW k \in KBs, BeginExport(k) \/ BeginImport(k) \/ BeginDelete(k) PROVE WholeInv'
<1>1. ArchiveTypes /\ CopiedInv /\ LostInv /\ IndexedInv /\ WholeTypes
  BY DEF ArchiveInv, WholeInv
<1>2. PICK job \in {"export", "import", "delete"}, left \in SUBSET Docs, first \in {"list", "create", "postings"} :
        /\ Order(job, k, left, first)
        /\ job = "export" => /\ first = "list" /\ zip' = NoArchive /\ lost' = lost /\ restored' = restored
        /\ job = "import" => /\ left = zip.entries["documents"] /\ first = "create" /\ zip' = zip
                             /\ lost' = lost \cup (UploadedFor(k) \ zip.whole) /\ restored' = restored \ Of(k)
        /\ job = "delete" => zip' = zip /\ lost' = lost \cup UploadedFor(k) /\ restored' = restored \ Of(k)
  <2>1. zip.entries["documents"] \in SUBSET Docs /\ Deletion["begin"] = "postings"
    BY <1>1 DEF ArchiveTypes, Tables, Deletion
  <2>2. CASE BeginExport(k)
    BY <2>2 DEF BeginExport
  <2>3. CASE BeginImport(k)
    BY <2>1, <2>3 DEF BeginImport
  <2>4. CASE BeginDelete(k)
    BY <2>1, <2>4 DEF BeginDelete
  <2> QED BY <2>2, <2>3, <2>4
<1>3. rows' = rows /\ kbRow' = kbRow /\ restored' \subseteq restored /\ Frame
  <2>1. UNCHANGED vars
    BY <1>2 DEF Order
  <2>2. lost \subseteq lost' /\ lost' \subseteq Docs /\ restored' \subseteq restored
    BY <1>1, <1>2 DEF WholeTypes, UploadedFor
  <2> QED BY <1>1, <2>1, <2>2 DEF BeginExport, BeginImport, BeginDelete, vars, database, engines, locals, history, Frame,
                                  WholeTypes
<1>4. Quiet' = Quiet
  BY <1>3 DEF Quiet, Frame
<1>5. admin'.job = job /\ admin'.kb = k /\ admin'.left = left /\ admin'.at = first /\ admin'.clean = Quiet
  <2> DEFINE q == Quiet
  <2>1. admin' = [AtRest EXCEPT !.job = job, !.kb = k, !.left = left, !.at = first, !.clean = q]
    BY <1>2 DEF Order
  <2> HIDE DEF q
  <2>2. admin'.job = job /\ admin'.kb = k /\ admin'.left = left /\ admin'.at = first /\ admin'.clean = q
    BY <2>1 DEF AtRest
  <2> QED BY <2>2 DEF q
<1>6. zip'.whole \subseteq zip.whole
  BY <1>2 DEF NoArchive
<1>7. LostInv'
  <2>1. \A r \in restored \ Of(k) : r[1] # k
    BY <1>1 DEF WholeTypes, Of
  <2>2. \A d \in Docs : home[d] = k => d \in UploadedFor(k)
    BY DEF UploadedFor
  <2> QED BY <1>2, <1>3, <1>5, <2>1, <2>2 DEF LostInv, Frame
<1>8. CopiedInv'
  <2>1. CASE job = "export"
    <3>1. zip'.whole = {} /\ admin'.at = "list"
      BY <1>2, <1>5, <2>1 DEF NoArchive
    <3> QED BY <1>5, <2>1, <3>1 DEF CopiedInv, Through
  <2>2. CASE job = "import"
    <3>1. zip' = zip /\ admin'.at = "create" /\ admin'.left = zip.entries["documents"]
      BY <1>2, <1>5, <2>2
    <3>2. \A d \in zip.whole : d \in zip.entries["documents"] /\ \A t \in Tables : InArchive(t, d)
      BY <1>1 DEF CopiedInv, InArchive, Tables
    <3>3. \A t \in Tables : \A d \in zip.whole : ~Through(t, d)'
      BY <3>1, <3>2 DEF Through, Until, Tables, Columns
    <3> QED BY <1>4, <1>5, <2>2, <3>1, <3>2, <3>3 DEF CopiedInv, InArchive
  <2>3. CASE job = "delete"
    BY <1>1, <1>2, <1>5, <2>3 DEF CopiedInv, InArchive
  <2> QED BY <2>1, <2>2, <2>3
<1>9. IndexedInv' /\ Spares
  BY <1>1, <1>3, IndexedStays DEF Spares
<1> QED BY <1>3, <1>6, <1>7, <1>8, <1>9, OrderKeeps

LEMMA NextDocumentWhole == ASSUME ArchiveInv, GoneTypes, EmptiedInv, WholeInv, NextDocument PROVE WholeInv'
<1>1. ArchiveTypes /\ AdminFits /\ CopiedInv /\ LostInv /\ IndexedInv /\ WholeTypes
  BY DEF ArchiveInv, WholeInv
<1>2. admin.at = "next" /\ admin.job \in {"export", "import"}
  BY <1>1 DEF NextDocument, AdminFits, AdminSteps, ArchiveTypes
<1>3. rows' = rows /\ kbRow' = kbRow /\ zip' = zip /\ restored' = restored /\ Frame
  BY <1>1 DEF NextDocument, vars, database, engines, locals, history, Frame, WholeTypes
<1>4. PICK d \in admin.left : admin' = [Done EXCEPT !.left = @ \ {d}, !.doc = d]
  BY DEF NextDocument
<1>5. /\ admin'.job = admin.job /\ admin'.kb = admin.kb /\ admin'.at = "documents" /\ admin'.clean = admin.clean
      /\ admin'.left = admin.left \ {d} /\ admin'.doc = d
  <2> DEFINE s == After(admin.at)
  <2>1. Done = [admin EXCEPT !.at = s] /\ s = "documents"
    BY <1>2, AfterIs DEF Done
  <2> HIDE DEF s
  <2> QED BY <1>1, <1>4, <2>1 DEF ArchiveTypes
<1>6. ASSUME NEW t \in Tables, NEW x, Through(t, x)' PROVE Through(t, x)
  <2>1. t \in OfDocument => "documents" \in Until[t]
    BY DEF Until
  <2>2. t \in {"index", "postings"} => admin.at \notin Until[t]
    BY <1>2 DEF Until
  <2>3. t \in OfDocument => admin.at \notin Until[t]
    BY <1>2 DEF Until
  <2> HIDE DEF Until
  <2> QED BY <1>2, <1>5, <1>6, <2>1, <2>2, <2>3 DEF Through
<1>7. Quiet' = Quiet
  BY <1>3 DEF Quiet, Frame
<1>8. Kept' = Kept \/ Kept' \subseteq Kept
  BY <1>3 DEF Kept, Frame
<1>9. CopiedInv'
  <2> HIDE DEF Through, Quiet, Kept
  <2> QED BY <1>1, <1>3, <1>5, <1>6, <1>7, <1>8 DEF CopiedInv, InArchive, Frame
<1>10. LostInv' /\ IndexedInv' /\ Spares
  BY <1>1, <1>3, <1>5, LostGoesOn, IndexedStays DEF Spares
<1> QED BY <1>3, <1>9, <1>10, OrderKeeps

LEMMA ListWhole == ASSUME ArchiveInv, WholeInv, ListSlugs \/ ListFails PROVE WholeInv'
<1>1. ArchiveTypes /\ AdminFits /\ CopiedInv /\ LostInv /\ IndexedInv /\ WholeTypes /\ PromisedInv
  BY DEF ArchiveInv, WholeInv
<1>2. admin.at = "list" /\ admin.job = "export" /\ admin.kb \in KBs
  BY <1>1 DEF ListSlugs, ListFails, Doing, ArchiveTypes
<1>3. rows' = rows /\ kbRow' = kbRow /\ zip' = zip /\ restored' = restored /\ Frame
  <2>1. faults' \in Nat
    BY <1>1, FaultCounts DEF ListSlugs, ListFails, WholeTypes, vars
  <2> QED BY <1>1, <2>1 DEF ListSlugs, ListFails, vars, database, engines, locals, history, Frame, WholeTypes
<1>4. zip.whole = {}
  BY <1>1, <1>2 DEF CopiedInv
<1>5. CASE ListSlugs
  <2> DEFINE E == Entries("documents", admin.kb)
             s == After(admin.at)
  <2>1. admin' = [Done EXCEPT !.left = E] /\ Done = [admin EXCEPT !.at = s] /\ s = "index"
    BY <1>2, <1>5, AfterIs DEF ListSlugs, Done
  <2>2. Promised(admin.kb) \subseteq E
    <3> SUFFICES ASSUME NEW d \in Promised(admin.kb) PROVE d \in Entries("documents", admin.kb)
      OBVIOUS
    <3>1. <<admin.kb, d>> \in rows["documents"]
      BY <1>1, <1>2 DEF PromisedInv, Tables
    <3> QED BY <3>1 DEF Entries
  <2> HIDE DEF E, s
  <2>3. admin'.job = "export" /\ admin'.kb = admin.kb /\ admin'.at = "index" /\ admin'.left = E
    BY <1>1, <1>2, <2>1 DEF ArchiveTypes
  <2>4. ASSUME NEW t \in Tables, NEW d \in Kept', home'[d] = admin'.kb PROVE ~Through(t, d)'
    <3>1. d \in Promised(admin.kb)
      BY <1>1, <1>3, <2>3, <2>4 DEF Kept, Frame, Promised, WholeTypes
    <3>2. t \in OfDocument \/ t \in {"index", "postings"}
      BY DEF Tables, Columns
    <3> QED BY <2>2, <2>3, <3>1, <3>2 DEF Through, Until
  <2>5. CopiedInv'
    BY <1>3, <1>4, <2>3, <2>4 DEF CopiedInv
  <2>6. LostInv' /\ IndexedInv' /\ Spares
    BY <1>1, <1>3, <2>3, LostGoesOn, IndexedStays DEF Spares
  <2> QED BY <1>3, <2>5, <2>6, OrderKeeps
<1>6. CASE ListFails
  <2>1. admin'.job = "none"
    BY <1>6 DEF ListFails, AtRest
  <2>2. CopiedInv'
    BY <1>3, <1>4, <2>1 DEF CopiedInv
  <2>3. LostInv' /\ IndexedInv' /\ Spares
    BY <1>1, <1>3, <2>1, LostGoesOn, IndexedStays DEF Spares
  <2> QED BY <1>3, <2>2, <2>3, OrderKeeps
<1> QED BY <1>5, <1>6

LEMMA DownloadedWhole == ASSUME ArchiveInv, WholeInv, Downloaded PROVE WholeInv'
<1>1. ArchiveTypes /\ CopiedInv /\ LostInv /\ IndexedInv /\ WholeTypes
  BY DEF ArchiveInv, WholeInv
<1>2. admin.at = "next" /\ admin.job = "export" /\ admin.left = {} /\ admin'.job = "none"
  BY DEF Downloaded, Doing, AtRest
<1>3. rows' = rows /\ kbRow' = kbRow /\ restored' = restored /\ Frame
  BY <1>1 DEF Downloaded, vars, database, engines, locals, history, Frame, WholeTypes
<1> DEFINE W == IF admin.clean THEN {d \in uploaded \ (removing \cup lost) : home[d] = admin.kb} ELSE {}
<1>4. zip' = [zip EXCEPT !.ready = TRUE, !.whole = W]
  BY DEF Downloaded
<1>5. /\ W \subseteq {d \in Kept : home[d] = admin.kb} /\ (W # {} => admin.clean)
  BY DEF Kept
<1> HIDE DEF W
<1>6. zip'.whole = W /\ zip'.files = zip.files /\ zip'.entries = zip.entries
  BY <1>1, <1>4 DEF ArchiveTypes
<1>7. \A t \in Tables : \A d : Through(t, d)
  BY <1>2 DEF Through, Until
<1>8. \A d \in W : \A t \in Tables : InArchive(t, d)
  <2> HIDE DEF Through, InArchive
  <2> QED BY <1>1, <1>2, <1>5, <1>7 DEF CopiedInv
<1>9. CopiedInv'
  BY <1>2, <1>6, <1>8 DEF CopiedInv, InArchive
<1>10. LostInv' /\ IndexedInv' /\ Spares
  BY <1>1, <1>2, <1>3, LostGoesOn, IndexedStays DEF Spares
<1>11. zip'.whole \subseteq zip.whole \cup uploaded
  BY <1>5, <1>6 DEF Kept
<1> QED BY <1>3, <1>9, <1>10, <1>11, OrderKeeps

LEMMA ImportedWhole == ASSUME ArchiveInv, WholeInv, Imported PROVE WholeInv'
<1>1. ArchiveTypes /\ CopiedInv /\ LostInv /\ IndexedInv /\ WholeTypes /\ PromisedInv
  BY DEF ArchiveInv, WholeInv
<1>2. admin.at = "next" /\ admin.job = "import" /\ admin.left = {} /\ admin'.job = "none" /\ admin.kb \in KBs
  BY <1>1 DEF Imported, Doing, AtRest, ArchiveTypes
<1>3. rows' = rows /\ kbRow' = kbRow /\ zip' = zip /\ Frame
  BY <1>1 DEF Imported, vars, database, engines, locals, history, Frame, WholeTypes
<1>4. CopiedInv' /\ Spares /\ IndexedInv'
  <2>1. CopiedInv'
    BY <1>1, <1>2, <1>3 DEF CopiedInv, InArchive
  <2> QED BY <1>1, <1>3, <2>1, IndexedStays DEF Spares
<1>5. CASE admin.clean
  <2>1. restored' = restored \cup ({admin.kb} \X zip.whole) /\ Quiet
    BY <1>1, <1>2, <1>5 DEF Imported, CopiedInv
  <2>2. \A r \in restored' : r \in restored \/ r \in KBs \X zip.whole
    BY <1>2, <2>1
  <2>3. LockInv' /\ WholeTypes' /\ CompanyInv' /\ ApartInv'
    <3> HIDE DEF Quiet
    <3> QED BY <1>3, <2>1, <2>2, FrameKeeps
  <2>4. ReadInv' /\ WrittenInv'
    <3>1. \A p \in Procs : at'[p] = "idle"
      BY <1>3, <2>1 DEF Quiet, Frame
    <3> QED BY <3>1, PastIs DEF ReadInv, Rewriting, WrittenInv
  <2>5. PromisedInv'
    <3> SUFFICES ASSUME NEW t \in Tables, NEW k \in KBs, NEW d \in Promised(k)' PROVE <<k, d>> \in rows[t]
      BY <1>3 DEF PromisedInv
    <3>1. d \in Promised(k) \/ (k = admin.kb /\ d \in zip.whole)
      BY <1>3, <2>1 DEF Promised, Kept, Frame
    <3>2. \A x : Through(t, x)
      BY <1>2 DEF Through, Until
    <3>3. k = admin.kb /\ d \in zip.whole => <<k, d>> \in rows[t]
      <4> HIDE DEF Through
      <4> QED BY <1>1, <1>2, <1>5, <3>2 DEF CopiedInv
    <3> QED BY <1>1, <3>1, <3>3 DEF PromisedInv
  <2>6. LostInv'
    BY <1>2 DEF LostInv
  <2> QED BY <1>4, <2>3, <2>4, <2>5, <2>6 DEF WholeInv
<1>6. CASE ~admin.clean
  <2>1. restored' = restored
    BY <1>6 DEF Imported
  <2>2. LostInv'
    BY <1>2 DEF LostInv
  <2> QED BY <1>3, <1>4, <2>1, <2>2, OrderKeeps
<1> QED BY <1>5, <1>6

LEMMA DeletionWhole ==
    ASSUME ArchiveInv, GoneTypes, WholeInv,
           DeleteKBRow \/ (\E x \in Tables : DeleteAllOf(x)) \/ \E s \in Tables \cup {"create", "row"} : DeletionFails(s)
    PROVE  WholeInv'
<1>1. ArchiveTypes /\ AdminFits /\ CopiedInv /\ LostInv /\ IndexedInv /\ WholeTypes
  BY DEF ArchiveInv, WholeInv
<1>2. admin.job = "delete" /\ admin.kb \in KBs
  BY <1>1 DEF DeleteKBRow, DeleteAllOf, DeletionFails, Doing, ArchiveTypes
<1>3. zip' = zip /\ restored' = restored /\ Frame
  <2>1. faults' \in Nat
    BY <1>1, FaultCounts DEF DeleteKBRow, DeleteAllOf, DeletionFails, WholeTypes
  <2> QED BY <1>1, <2>1 DEF DeleteKBRow, DeleteAllOf, DeletionFails, database, engines, locals, history, Frame, WholeTypes
<1>4. admin'.job = "none" \/ (admin'.job = "delete" /\ admin'.kb = admin.kb)
  <2>1. admin' \in {AtRest, Done, Unclean(Done)}
    BY DEF DeleteKBRow, DeleteAllOf, DeletionFails
  <2>2. AtRest.job = "none"
    BY DEF AtRest
  <2>3. Done.job = admin.job /\ Done.kb = admin.kb /\ Unclean(Done).job = admin.job /\ Unclean(Done).kb = admin.kb
    BY OrderGoesOn
  <2> QED BY <1>2, <2>1, <2>2, <2>3
<1>5. LostInv'
  BY <1>1, <1>2, <1>3, <1>4, LostGoesOn
<1>6. CopiedInv'
  BY <1>1, <1>3, <1>4 DEF CopiedInv, InArchive
<1>7. CASE DeleteKBRow
  <2>1. Overwrite("index", admin.kb, {}) /\ kbRow' = [kbRow EXCEPT ![admin.kb] = "absent"]
    BY <1>7 DEF DeleteKBRow
  <2>2. kbRow \in [KBs -> {"absent", "there", "indexed"}] /\ rows \in [Tables -> SUBSET (KBs \X Docs)]
    BY <1>1 DEF GoneTypes, ArchiveTypes
  <2>3. /\ \A t \in Tables \ {"index"} : rows'[t] = rows[t]
        /\ rows'["index"] = {r \in rows["index"] : r[1] # admin.kb} /\ "index" \in Tables
    BY <2>1, <2>2 DEF Overwrite, Tables
  <2>4. Spares
    <3> SUFFICES ASSUME NEW t \in Tables, NEW k \in KBs, NEW d \in Docs, <<k, d>> \in rows[t], k # admin.kb
                 PROVE  <<k, d>> \in rows'[t]
      BY <1>2 DEF Spares, MayGo
    <3>1. <<k, d>>[1] # admin.kb
      OBVIOUS
    <3> QED BY <2>3, <3>1
  <2>5. IndexedInv'
    <3> SUFFICES ASSUME NEW r \in rows'["index"] PROVE kbRow'[r[1]] = "indexed"
      BY DEF IndexedInv
    <3>1. r \in rows["index"] /\ r[1] # admin.kb
      BY <2>3
    <3>2. kbRow[r[1]] = "indexed" /\ r[1] \in KBs
      BY <1>1, <2>2, <2>3, <3>1 DEF IndexedInv
    <3> QED BY <2>1, <2>2, <3>1, <3>2
  <2> QED BY <1>3, <1>5, <1>6, <2>4, <2>5, OrderKeeps
<1>8. ASSUME NEW x \in Tables, DeleteAllOf(x) PROVE WholeInv'
  <2>1. kbRow' = kbRow /\ \A t \in Tables : rows'[t] \in {rows[t], {r \in rows[t] : r[1] # admin.kb}}
    BY <1>8 DEF DeleteAllOf
  <2>2. Spares
    <3> SUFFICES ASSUME NEW t \in Tables, NEW k \in KBs, NEW d \in Docs, <<k, d>> \in rows[t], k # admin.kb
                 PROVE  <<k, d>> \in rows'[t]
      BY <1>2 DEF Spares, MayGo
    <3>1. <<k, d>>[1] # admin.kb
      OBVIOUS
    <3> QED BY <2>1, <3>1
  <2>3. IndexedInv'
    BY <1>1, <2>1 DEF IndexedInv, Tables
  <2> QED BY <1>3, <1>5, <1>6, <2>2, <2>3, OrderKeeps
<1>9. ASSUME NEW s \in Tables \cup {"create", "row"}, DeletionFails(s) PROVE WholeInv'
  <2>1. rows' = rows /\ kbRow' = kbRow
    BY <1>9 DEF DeletionFails, database
  <2>2. IndexedInv' /\ Spares
    BY <1>1, <2>1, IndexedStays DEF Spares
  <2> QED BY <1>3, <1>5, <1>6, <2>2, OrderKeeps
<1> QED BY <1>7, <1>8, <1>9

LEMMA RestartWhole == ASSUME ArchiveInv, WholeInv, RestartAll PROVE WholeInv'
<1>1. ArchiveTypes /\ CopiedInv /\ PromisedInv /\ IndexedInv /\ WholeTypes /\ ApartInv
  BY DEF ArchiveInv, WholeInv
<1>2. /\ at' = [p \in Procs |-> "idle"] /\ mu' = Free /\ admin'.job = "none" /\ zip' \in {zip, NoArchive}
      /\ UNCHANGED <<rows, kbRow, req, home, whole, uploaded, removing, restored, lost>>
  BY DEF RestartAll, Restart, database, history, AtRest
<1>3. faults' \in Nat
  BY <1>1, FaultCounts DEF RestartAll, Restart, WholeTypes
<1>4. \A p \in Procs : at'[p] = "idle"
  BY <1>2
<1>5. zip'.whole \subseteq zip.whole /\ (zip' = zip \/ zip'.whole = {})
  BY <1>2 DEF NoArchive
<1>6. LockInv' /\ CompanyInv' /\ ReadInv' /\ LostInv'
  BY <1>2, <1>4, NamesAssumption DEF LockInv, CompanyInv, ReadInv, Rewriting, LostInv, Active
<1>7. WholeTypes'
  BY <1>1, <1>2, <1>3, <1>5 DEF WholeTypes
<1>8. ApartInv'
  BY <1>1, <1>2, <1>4, <1>5 DEF ApartInv, Active, Uploads
<1>9. WrittenInv'
  BY <1>4, PastIs DEF WrittenInv
<1>10. PromisedInv' /\ IndexedInv'
  BY <1>1, <1>2 DEF PromisedInv, Promised, Kept, IndexedInv
<1>11. CopiedInv'
  BY <1>1, <1>2, <1>5 DEF CopiedInv, InArchive
<1> QED BY <1>6, <1>7, <1>8, <1>9, <1>10, <1>11 DEF WholeInv

LEMMA WholeInductive ==
    ASSUME Companions, RestoredInv, [ArchiveNext]_allVars PROVE RestoredInv'
<1>1. ArchiveInv /\ DeletedInv /\ WholeInv /\ GoneTypes /\ EmptiedInv
  BY DEF RestoredInv, DeletedInv
<1>2. ArchiveInv' /\ DeletedInv'
  BY <1>1, ArchiveInductive, DeletedInductive
<1>3. CASE UNCHANGED allVars
  <2>1. /\ rows' = rows /\ kbRow' = kbRow /\ zip' = zip /\ restored' = restored /\ admin' = admin /\ Frame
    BY <1>1, <1>3 DEF allVars, archiveVars, vars, database, engines, locals, history, Frame, WholeInv, WholeTypes
  <2>2. Quiet' = Quiet
    BY <2>1 DEF Quiet, Frame
  <2>3. Kept' = Kept /\ home' = home
    BY <1>3 DEF Kept, allVars, archiveVars, vars, history
  <2>4. CopiedInv'
    <3> HIDE DEF Quiet, Kept
    <3> QED BY <1>1, <2>1, <2>2, <2>3 DEF WholeInv, CopiedInv, InArchive, Through
  <2>5. LostInv' /\ IndexedInv' /\ Spares
    BY <1>1, <2>1, LostGoesOn DEF WholeInv, IndexedInv, Spares
  <2> QED BY <1>1, <1>2, <2>1, <2>4, <2>5, OrderKeeps DEF RestoredInv
<1>4. CASE Administer
  BY <1>1, <1>2, <1>4, OrdersWhole, NextDocumentWhole, ListWhole, DownloadedWhole, ImportedWhole, TakesWhole, PutsWhole,
     DeletionWhole DEF Administer, RestoredInv
<1> QED BY <1>1, <1>2, <1>3, <1>4, ServeWhole, RestartWhole DEF ArchiveNext, RestoredInv

(* What was exported and imported with nobody else active is in every table *)
(* of the knowledge base it was imported into, and stays there: no upload,  *)
(* removal or tag update of another document takes it along, nor a later    *)
(* export, import into or deletion of another knowledge base, whatever they *)
(* overlap with and wherever the process ends.  (A request one of whose     *)
(* statements fails may: RestoredIsWhole is silent from then on.)           *)
THEOREM RestoredStaysWhole ==
    ASSUME Unsplit, ScopedPlain, Companions PROVE ArchiveSpec => []RestoredIsWhole
<1>1. ArchiveInit => RestoredInv
  BY ArchiveStarts, DeletedStarts, StartsWhole DEF RestoredInv
<1>2. RestoredInv /\ [ArchiveNext]_allVars => RestoredInv'
  BY WholeInductive
<1>3. RestoredInv => RestoredIsWhole
  <2> SUFFICES ASSUME RestoredInv, NEW r \in restored, NEW t \in Tables PROVE r \in rows[t]
    BY DEF RestoredIsWhole
  <2>1. r = <<r[1], r[2]>> /\ r[1] \in KBs /\ r[2] \in Docs
    BY DEF RestoredInv, WholeInv, WholeTypes
  <2>2. r[2] \in Promised(r[1])
    BY <2>1 DEF Promised
  <2>3. <<r[1], r[2]>> \in rows[t]
    BY <2>1, <2>2 DEF RestoredInv, WholeInv, PromisedInv
  <2> QED BY <2>1, <2>3
<1> QED BY <1>1, <1>2, <1>3, PTL DEF ArchiveSpec
=============================================================================
