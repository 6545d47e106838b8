# Specifications of knowledge-mcp

TLA+ models of the knowledge-base server in this repository (`internal/knowledge`
and the `package main` files around it), the TLC runs that check them on small
instances, and proofs of their main safety properties. File names below are
relative to `src/internal/knowledge/` unless they start with `src/`.

Run a check with `tlc -config <run>.cfg <MC module>.tla`, a proof with
`tlapm <module>.tla`.

## 1. The system

One Go process (`src/serve.go`, `src/stdio.go`, `src/manage_run.go`) serves MCP
tools and a management HTTP API. Each request runs in its own goroutine. They
share one `Store`, its backend (MySQL), and a few objects that outlive requests.

| component | state | operations | talks to | what makes it correct |
|---|---|---|---|---|
| **Soft delete** (`tombstone.go`, `version.go`, `store_incremental.go`) | a map of tombstones per manager, `TOMBSTONES.json`, the manager pointer in each `Store` view | soft delete, restore, clean, the hourly cleaner, the check of a search | backend (physical removal), `Store.mu` | an answered delete sticks; nothing is purged before its retention ends; what is hidden is not found; what is expired goes |
| **GPU scheduler** (`gpu_scheduler.go`) | which model is believed loaded, a mutex held between `PrepareFor*` and its restore function | prepare, restore, reload by the configuration page | model services; called by uploads, searches, routing, rebuilds | one model at a time; a call in flight keeps its model; nobody waits for ever |
| **Background tasks** (`upload_task.go`, `manage/handlers_core.go`) | tasks, event logs, a `doneCh` each, `tasks/<id>.json` | create, record event, mark done or error, follow by SSE, cleanup, load at start | upload pipeline, event streams | one end per task, told to every stream, events in order, results survive a restart |
| **Documents** (`upload.go`, `ingest/engine.go`, `remove.go`, `store.go`, `mysql_backend.go`) | rows of six MySQL tables, `INDEX.md`, the knowledge base each shared engine points at, cached vector indexes | upload (two pipelines), remove, replace, retag, `WithKB` | backend, `Store.mu`, search and chunk engines | data stays in its knowledge base; listed means readable; uploaded means indexed; removed means gone |
| **Search** (`search/`, `search_*.go`) | query cache, memory of reranked queries | keyword, vector, hybrid, document and debug search, reranking | chunk store, scheduler, tombstones, models | hits pass the tests that are made, none stands before or without a better one; a match is found although models fail |
| **Caches** (`src/internal/cache/`, the read paths of `store.go`, `search/`, `kb/`) | Redis, or a list and a map in memory | read through, evict by pattern | backend | what is served is what is stored, or expires |
| **Vector index and rebuild** (`vector_index.go`, `store.go`, `embed.go`) | HNSW graphs in a cache shared by views, `VECTOR.gob` | load, build, add, remove, search, rebuild, clean up | embedding service, `Store.mu` | the graph is sound; the index mirrors the chunk indexes; a rebuild leaves nothing missing but what it could not read |
| **Knowledge base administration** (`manage/handlers_enhanced.go`, `kb/engine.go`) | rows of a whole knowledge base, archives | create, delete, export, import | backend, beside uploads and removals | a restored archive is whole; what is deleted is gone |
| **Versions** (`store_incremental.go`, `manifest.go`, `reconcile.go`, `chunk_id.go`) | chunks, index, manifest and metadata of one document | numbered and content addressed upload, append, reconcile | backend | a document reads back; reports are honest |
| **Task state machine** (`state_machine.go`) | state, attempts and checkpoints of a record | advance, record error, retry | nobody | an exhausted task stays ended |
| **Chunker** (`chunker.go`) | four parameters shared by all texts | cut a text, set parameters | uploads, configuration page | no text is lost, whatever the parameters do meanwhile |
| **Configuration** (`src/internal/config/`, `manage/handlers_config.go`, `store_settings.go`) | one `Config`, its file, settings, model clients | change, save, restart | everything above | what was given is in force, and saved unless the save failed |
| KB router, query understanding, dictionaries, MCP tools | mostly functions of their input | | | |

`PROJECT.json` lists every component with what is modelled of it and why the
rest is not.

### What is hard about it

* **Locks with different scopes.** `Store.mu` serialises writers but not
  `RestoreTombstone`, searches, tag updates or `WithKB`; the scheduler's mutex is
  kept across a model call; `getTombstoneManager` takes no lock.
* **Shared engines behind scoped views.** `WithKB` copies the `Store`, but points
  the one ingest, search and chunk engine at the new knowledge base.
* **Several writes for one operation.** An upload is up to nine statements, a
  removal seven, without a transaction; most errors are logged and dropped.
* **Files truncated and rewritten** (`TOMBSTONES.json`, task files, `VECTOR.gob`,
  the configuration).
* **Copies that lag behind**: cached reads, vector indexes held by old views,
  settings built from a configuration that has changed.
* **External services that time out or refuse** while a mutex is held.
* **Streams that attach and detach** while a task ends, is cleaned up, or the
  server restarts.

The full list, each with its line and the properties that watch it, is
`hazards` in `PROJECT.json`.

## 2. Modules

| module | what it models | model-checked by | proofs |
|---|---|---|---|
| `SoftDelete` | soft delete, restore, clean, hard delete, search check, cleaner, restarts | `MCSoftDelete`: `SoftDelete_*` | `SoftDeleteSafety` |
| `GPUScheduler` | the scheduler and every caller of a model | `MCGPUScheduler`: `GPUScheduler_*` | `SearchSafety` |
| `UploadTasks` | tasks, their workers, streams, files, cleanup | `MCUploadTasks`: `UploadTasks_*` | `UploadTasksSafety` |
| `Documents` | uploads, removals, replacements, tag updates, `WithKB` | `MCDocuments`: `Documents_*` | `DocumentsSafety` |
| `Archive` | export, import and deletion of a knowledge base beside the requests of `Documents`, which it extends | `MCArchive`: `Archive_*` | `DocumentsSafety` |
| `HNSW` | the graph as a value: add, remove, search, prune | with `VectorIndex` | `VectorIndexSafety` |
| `VectorIndex` | views, cache and file of the index; uploads, removals, searches, rebuilds; extends `HNSW` | `MCVectorIndex`: `VectorIndex_*` | `VectorIndexSafety` |
| `Caches` | reads that fill the cache, changes that evict from it | `MCCaches`: `Caches_fill` | `CachesSafety` |
| `Search` | one search from its candidates to its hits | `MCSearch`: `Search_pipeline` | `SearchSafety` |
| `Config` | changes of the configuration, its file, restarts | `MCConfig`: `Config_*` | `ConfigSafety` |
| `Versions`, `TaskRecord`, `Chunker` | library code that shares no state with the rest | `MCLibrary`: `Library*` | `LibrarySafety` |
| `MemCache`, `LossyCache` | the memory cache, and what a cache promises | `MCLibrary`: `Library` | `LibrarySafety` |

`Archive` composes with `Documents` by extending it: its next-state relation has
the actions of `Documents` beside its own, on the same tables. `MCLibrary` joins
modules only to check them in one run: in each behaviour one of them moves.

`search_core.go`, `search_collect.go` and `search_rerank.go` hold the same code as
`search/engine.go`, `search/collect.go` and `search/rerank.go`, for a `Store`
without a search engine. The modules follow the engine, and the map names the
other where a module models that wiring.

In every module an action is one step of one goroutine: what it does between two
points where another goroutine, a crash or a failing call can intervene. History
variables (marked in the declarations) record what callers were told; no guard
reads them. A definition whose comment says `mutant:` is a plausible mistake in
the definition next to it; it is used only to show that the property it breaks
can be broken.

### SoftDelete

`rows` is the backend, `disk` the tombstone file of each knowledge base, `heap`
the managers allocated since the start, `baseTm` and `own` the pointers in the
base `Store` and in a request's `WithKB` copy, `mu` is `Store.mu`, and a
manager's `writer` its own lock. A goroutine's place is `pc`. A handler is a path
of actions: begin, lock `Store.mu` (not for restore and search), find or build
the manager, change its map, open and write the file, roll back when that fails,
answer. `Sweep` collects the expired slugs, removes the documents one at a time
(each removal may fail), then drops the tombstones of those removed. `Restart`
ends every request and forgets the heap.

Abstractions: a time unit is a tick, `Second` of them make a second, and `Tick`
advances time up to `MaxTime`; retention that would end later is not asked for.
`DeletedAt` is stored to the second (`tombstone.go:105`) and compared with the
exact time (`version.go:121`), so a document expires up to one second before its
retention has passed: `TTLRespected` says less than a second, and the early
second is in the findings. `Duration` wraps as `time.Duration` does, at
`DurationLimit`, which every run keeps above its retention values: a wrapped
retention may expire at once, `TTLRespected` would not hold of it, and the wrap
is in the findings too. A negative TTL cannot reach the code (the handler accepts only
positive ones). Without the fault `"tear"`, a restart spares a file that is being
written; with it, the file reads as empty, because `Init`'s parse error is
dropped. `EngineWired = FALSE` is the program without the search engine, the
path `search_collect.go` takes and the tests exercise; `TRUE` is the wiring of
`src/init.go`. The query cache is in `Caches`, the vector index in `VectorIndex`.
`MaxManagers = 1` leaves out two requests that both find no manager: two managers
overwrite each other's file, and no promise of this module holds then.

### GPUScheduler

A request walks through the stages of its job (`Jobs`, and the order in
`Plan`), each of which calls one model. A guarded stage takes `gpu`, sends
the sleep requests in `pending` (each may fail), then calls; the restore function
gives `gpu` back. An unguarded stage calls at once. `loaded` is GPU memory;
`stray` records, as history, the models that were loaded past the scheduler or
refused to sleep. `ReloadGPUScheduler` clears the pointers a configuration change clears.

Abstractions: a stage's batches are one call; the order of sleep requests in the
idle branch is free (the code ranges over a map); a scheduler that was never
configured coordinates nothing and is not modelled. `bm25` and `reembed` are
sub-walks of `hybrid` and `upload`, and left out of the run for its size (the
proofs cover them). The sleep and wake calls of the management page are not
modelled.

### UploadTasks

An event is its number in the log. `t.mu` sections are atomic. A worker creates
the task file in two steps (truncate, write), records events, marks the end and
rewrites the file. A stream copies the log, takes a snapshot, polls and sends the
final event. `GrowOld` makes a task old enough for `Cleanup`; `Restart` drops
goroutines and streams and reloads the files that can be read. A panic of an
upload is recovered by its goroutine and is a failure here. Task IDs are unique
(`generateTaskID` uses milliseconds and a random number). `Delete` is not called
by the program, `ListActive` and the status endpoint only read.

### Documents

`rows` holds, for each table, which document it has in which knowledge base; a
row of `chunks` stands for all chunks of the document. A request is at one step
(`at`), named for the statement it takes next; the records `Upload` and `Removal`
say which one follows in the pipelines, `Scoping` orders the assignments at the
end of `WithKB`, `Deleting` and `Reading` name the table of a step. An error
return goes to `"abort"`, a logged error to the next step, the end of the process
to `"idle"`. `again` holds the uploads of the management page, which scope the
`Store` for the request and once more for the task; `found` the removals that
have found the metadata, without which `INDEX.md` keeps its line. `KBFor` says which knowledge base each statement names:
the request's, the one an engine points at, or the flat one. `cached` and `gob`
decide whether `WithKB` returns early; the write of `VECTOR.gob` fails where the
knowledge base has no directory, so it is a choice.

Abstractions: a client names documents it has seen listed; a removal without
`kbName`, which goes through all knowledge bases, is left out, and so are the
`default KB` setting, caches, manifests and task records. Docs get
slugs with a timestamp (`SlugFromPath`), so one slug is one upload.
`AppendDocumentText` and `UploadDocumentAtomic` have no callers in the program
(they are in `Versions`), nor have `AppendChunksIndex` and `RebuildInvertedIndex`. One server: a management
process started beside a stdio process has a `Store.mu` of its own.

### Archive

`admin` is the one request of the administrator: its next step (`at`), the
document at work and the documents left; `zip` the archive last downloaded;
`kbRow` the row of a knowledge base. The order of the steps is data: `KBWide` has
the statements about the whole knowledge base, `PerDocument` those about one
document, with `next` to take up another, and `Deletion` those of a deletion;
`After` looks up the one that follows. No failed write ends an import, and only the
last statement of a deletion is looked at, so both go on. The history says which
requests were alone (`clean`) and which documents lost something to them
(`torn`, `lost`): the code promises nothing else of those.

### HNSW and VectorIndex

A graph is a record: nodes with a level and a set of neighbours in each layer, an
entry point, a dimension. Levels are drawn freely up to `TopLevel`, the code's
order of a Go map is a choice, and similarity is `Score`, in which no two pairs
are equal. `VectorIndex` has the objects in a `heap`, pointers to them in `cache`
and in each request's `view`, and the file `gob`; a rebuild looks at one document
at a time. A change of the embedding model changes the dimension `served`. A failed
read (fault `"read"`) leaves documents out of a build and makes a rebuild pass over a
document or single chunks, as an answer of the service that lacks vectors does; it
still answers without an error, and the history variable `missed` remembers what it
passed over. A rebuild limited to one document is left out.

Uploads and searches are those of a `Store` without ingest and search engines: as
`src/init.go` wires them, the ingest engine indexes uploads in the flat knowledge
base and the search engine never has an index, so the program proper reaches less
of the module (removals and rebuilds). A search's query has the dimension of the
index. `Overlap` says which requests may be under way together. In the passing run
only searches are: a request that overlaps a writer (an upload, a removal, a
rebuild) can be left with an object the cache has dropped, or fill the cache from a
file that is about to be replaced, and with a second fault, or a configured
dimension, an upload beside a search is enough for that. `VectorIndex_views` below
is the shortest counterexample. `intact` records, as history, that nothing has
failed since the last full build.

`searchLayer` is `SearchLayer`: a recursive function over beams, the candidate and
result heaps and the visited set at the top of the loop (`Beams`), with `Ends` for
the loop's exits and `Explored` for one turn. The descent through the upper layers
is a recursive function over levels. `HNSWIndexes` is the set of all records an
index can be, broken ones included.

### Caches

`entries` is Redis; a request reads, fills, or evicts pattern by pattern, each
call a step that may fail. `Deployments` are the two wirings - a `Store` by
itself, and the server's, in which neither the chunk store nor the KB engine has
a client - with what clients ask for. `excused` records, as history, the entries
that are stale for a reason the code accepts or cannot help: a read that raced
with a change, a failed call, a restart, a change that evicts nothing. The memory
cache in its place is `MemCache`.

### Search

A search is a sequence of phases, each with the failure of its model call or read
as an alternative. `BM25` and cosine scores are chosen when a search begins, up to
their order; fusion adds reciprocal ranks with the code's constant, scaled to a
common denominator (`Denominator`, large enough to tell all ranks apart) so that
they stay integers. The coarse filter over sections keeps the best `TopSections`
of the sections that match; `KeepTopRelativeScore` is the cut of fused scores.
What documents hold does not change during a search. `Corpora` says what may stand
between a search and a document: a tombstone, a manager to ask about it (`init.go`
gives the engine none, so as wired a tombstone hides nothing from it), a missing
chunks index (the scan then takes all its chunks, of whatever section; the path
over the postings passes it over), missing postings. When the reranker fails, the
candidates keep their order and get the cosines of their vectors for scores
(`rescored`); `HitsDescend` does not hold of them, `NoneBetter`, which compares
hits by what they are ordered by and with the candidates that were cut, does.

### Config

A request handles the fields it was given in the handler's order (`left` are those
it has still to do), each in two steps, the assignment to the `Config` and the
setter or reload (`begun` is the field between the two), then saves in three
steps. Two requests interleave freely. One field stands for all that are treated
alike. A start reads the file; an empty one names no MySQL server and ends the
process, and of one that is missing or does not parse nothing is said: the start goes
by the variables of the environment (`Environments`). A part of a text that happens to
parse is taken as one that does not.

### Versions, TaskRecord, Chunker

`Versions` runs one call at a time on one document, a statement a step (`call.at`;
`Following` orders the statements of each kind of call, `done` counts the chunks
written), with failing statements: what is left of a failed call is where the next one starts.
`TaskRecord` has every method of the record and, as nothing in the program calls
them, any order of them. `Chunker` cuts a text of numbered runes: `source.last` is
each paragraph's last rune, and every step takes the next of what a pass has before
it (`todo`), a paragraph or, within a long one, a sentence (`taken` is where the last
ends). The parameters change between its reads of them. Of a section only the set of
its runes is kept.

### MemCache and LossyCache

`LossyCache` is the abstract specification: a cache may forget, but answers only
with the value last set, and with none after a deletion. `MemCache` has the list,
the map, the clock and the capacity, and `ImplementsCache` is the refinement: the
specification of `INSTANCE LossyCache WITH contents <- stored`, where `stored[k]`
is the entry of `k` that has not expired.

## 3. Runs

| run | instance | question and answer |
|---|---|---|
| `SoftDelete_warm` | 1 document, 2 clients and the cleaner, every operation, 2 faults | Are there only answered deletes, is retention respected to less than a second, are deleted documents hidden? Yes. |
| `SoftDelete_restart` | 2 documents, 1 client and the cleaner, a lazily built manager, 1 fault or restart | Is a delete lost over a restart, does the file differ from memory, does a request hang, is everything expired purged in the end? No, no, no, yes. |
| `SoftDelete_engine` | as wired by `src/init.go` | Does a search hide a deleted document? **No**: `Engine.IsTombstoned` has no manager. |
| `GPUScheduler_full` | 2 requests of 4 kinds, failing sleeps, a missing URL, reloads | Is a loaded model ever forgotten, does a guarded call lose its model, does anybody wait for ever? No. |
| `UploadTasks_follow` | 1 task, 2 streams, 3 events, 2 faults | Is every stream told the upload's own outcome, in order, and do streams end? Yes. |
| `Documents_onekb` | 2 documents, 2 requests, 1 knowledge base (flat with tag updates beside removals, named with embedder and removals, named with tag updates), 1 fault | Is what is stored in the right knowledge base, what is listed readable, what is uploaded indexed, what is removed gone? Yes, except the metadata row a tag update writes back. |
| `Archive_restore` | 2 documents, 1 request, 2 named knowledge bases, 2 orders of the administrator; with removals, with a deletion, with failures | Is a restored archive whole, has what is indexed its chunks, is what was deleted gone from the database? Yes. |
| `VectorIndex_mirror` | 3 chunks in 2 documents, 2 clients, 3 indexes at a time, writers alone beside overlapping searches, 2 faults, 1 change of model | Is a graph ever broken, does a wide beam miss the best, does the index differ from the chunk indexes before a fault, does a rebuild leave a vector out but those it passed over? No. |
| `Caches_fill` | 1 document, 2 knowledge bases, 2 clients, 4 deployments, 2 faults | Is an entry stale without a reason, does a stale search stay for ever? No. |
| `Search_pipeline` | 3 chunks of 2 documents, 15 requests, 7 corpora, 1 failure | Is a hidden or filtered chunk found (but where nobody can be asked, or no index names the sections), a match missed, a better candidate cut or put behind, a hit given another's score? No. |
| `Config_put` | 2 administrators, 8 bodies, 3 requests, 2 restarts, starts from a file and from the environment | Does the file lack something after a request that was alone and whose save did not fail, is a setting that was given not in force, does the chunker get sizes it cannot work with? No. |
| `Library` | documents of up to 5 chunks with 2 faults; a record with 0, 2 or 3 attempts; a cache of 2 entries for 3 keys; texts of up to 6 runes | Does a document read back and keep its chunks, is a report true but for its known false alarms, does an exhausted task stay ended, does the memory cache keep its promise, is text lost? Yes, yes, yes, yes, no. |

Further configurations are kept for reading their counterexamples; each shows a
finding of `PROJECT.json`, which names it, and is run like the others with the
module of its name:

| configuration | property | why it does not hold |
|---|---|---|
| `SoftDelete_restorerace` | `RestoredDocumentSurvives` | restore takes no `Store.mu` and may race with the sweep |
| `SoftDelete_twokbs` | `NoLostDelete` | a delete in a second knowledge base is recorded with the first one's manager |
| `GPUScheduler_onemodel` | `OneModelLoaded` | some calls skip the scheduler |
| `UploadTasks_log` | `LogDelivered` | events between a stream's copy and its snapshot are lost |
| `Documents_scope` | `ScopedWrites` | with a cached vector index `WithKB` leaves the engines at the knowledge base before |
| `Archive_delete` | `DeletedKBIsGone` | `VECTOR.gob` stays |
| `Library_reconcile` | `ErrorsMeanMissing` | a section of a single chunk has the chunk's identifier |
| `Library_params` | `SafeForConcurrentUse` | a larger overlap set between two reads makes a slice start negative |
| `VectorIndex_views` | `MirrorsChunks` | an upload that waited during a rebuild updates the index the rebuild has replaced; with uploads or rebuilds beside searches a longer run shows the same of their indexes |
| `Config_restart` | `SettingsSurvive` | a start applies only what is not zero, and no chunk sizes |
| `Config_reload` | `ReloadReachesSearches` | new model clients reach the management server alone |

`findings` in `PROJECT.json` quotes, for each violation, the line of the code or its
comments that says otherwise, and lists disagreements met while modelling for
which there is no run.

**Bounds.** Two goroutines are enough for every interleaving the properties speak
of: each relates one writer and one other actor (a reader, a sweep, a stream), and
the cleaner is a third in `SoftDelete`. One document suffices where operations on
different documents only share locks (`SoftDelete_warm`); two are used where a
sweep handles some and not others, and where one upload rewrites the index
entries of another. Tasks and streams of different tasks share nothing but the
cleanup, so one task with two streams covers them. `MaxFaults` bounds failures:
two where a second failure can hit the recovery from a first, one elsewhere (two
in `VectorIndex`, where it takes two failed saves to end an upload without a file).
In `Archive` two orders are an export and what undoes or repeats it; in
`VectorIndex` three chunks make a graph with a node that is reached only through
another, and one of the two documents survives the other's removal; in `Search`
three chunks for two hits let each cut drop something, and batches of two leave a
last batch of one; in `Library` a text of six runes has a paragraph that is cut,
one that joins the one before and an overlap; a cache of two entries for three
keys evicts.
Three seconds (`MaxTime`; in ticks of half a second in `SoftDelete_warm`, where a
fraction can be lost) let a retention of one second and of two end, pass, and be
renewed.
Symmetry is used only in runs without liveness.

**Deadlock** is checked except where the system may stop: in `UploadTasks_*`,
`Documents_*` and `Archive_*` everything may have been uploaded, removed and asked
for; in `Library` a part reaches its bounds; a search ends with its answer; in
`Config_*` a server whose file is empty does not start.

**Fairness.** Goroutines that can run do (weak fairness of each one's steps); a
`sync.Mutex` hands itself to a waiter after a millisecond, so lock steps are
strongly fair; HTTP calls to model services and sleep URLs have timeouts, so they
return. In `SoftDelete` time passes and the hourly ticker fires again and again,
and strong fairness is given to each goroutine's steps as a whole, which contain
its lock steps. In `Caches` Redis drops what has expired and a request that has
begun goes on. Faults, arrivals of requests and restarts are never fair. The other
modules state no fairness: what is checked of them are safety properties, and a
process may end at any step.

## 4. Proofs

All proofs hold for every value of the constants that meets the modules'
assumptions; what a theorem assumes beyond them is named here. Each proof has an
Init lemma, a lemma per action (or group of actions that disturb the same
conjuncts), a step lemma, and the temporal conclusion.

**SoftDeleteSafety.**

* `TypeCorrect`: every variable keeps its type. `TypeInv` adds that a goroutine
  past `getTombstoneManager` has a manager, and which goroutines may be sweeping
  or saving; without it a use of `heap[tm[p]]` has no type.
* `DeletesStick`, `FileIsCurrent`, `RestoresStick`: under `OneManager` (traffic
  starts with the manager loaded, one knowledge base, and a restart does not hit a
  file being written) an answered delete is on record until restored or purged, no
  other tombstone exists, and the file holds what the next process has to read.
  The inductive `SafetyInv` says, for a goroutine inside a mutation, which records
  the promise, the map, the undo copy and the file disagree on; `NoLostDelete`
  alone is not inductive, because it says nothing of the moment between the map's
  change and the file's. The counterexamples above show that `OneManager` cannot
  be dropped.
* `RetentionIsKept`: under `OneManager` and `NoneWraps` (no retention reaches the
  width of `time.Duration`) a sweep purges a document less than a second
  before the end its last soft delete set, or later: `DeletedAt` loses its fraction
  (`Truncation`), and nothing else is lost. `DeletedStaysHidden`: with `~EngineWired` besides, a search
  returns nothing that has been soft-deleted since before it began. `PromiseInv`
  carries both: a record's end agrees with the history's `due`, in the map, in the
  undo copy and in the file; what a sweep has collected is due, unless deleted
  anew since, and then it will not be purged.

**DocumentsSafety.** The theorems about `Documents` assume `OneKB`: the clients of a deployment ask for
one knowledge base, either the flat one, or a named one by uploads of the
management page, removals and tag updates, without a crash where it has an
embedder. `Documents_scope` shows why two knowledge bases do not do; the engine's
own uploads index in the flat knowledge base whatever they were asked for; and
after a restart `WithKB` may find a `VECTOR.gob` before it has pointed any engine.
The deployments of the run `Documents_onekb` meet it.

* `WritesAreScoped`: every row of a document is in the knowledge base it was
  uploaded for. `EnginesInv`: a request past `WithKB` finds the engines pointed at
  the knowledge base, and so does one that is answered from the cache, because an
  index is cached only after the engines were pointed.
* `ListedCanBeRead`: a listed document nobody began to remove has its chunks. The
  hard part is a tag update, which writes a row back: it was for a listed document
  (`ReadableInv`), and a document that is not yet listed is one upload's own and
  known to nobody else (`OwnInv`).
* `UploadedIsFound`: what a whole upload wrote stays in metadata, chunks index,
  inverted index and `INDEX.md` until a removal, although every other upload and
  removal rewrites the last two as a whole. `SeenInv` relates what a rewrite has
  read to what was uploaded; it holds because reading and writing are under one
  hold of `Store.mu` (`LockInv`).
* `RemovedStaysGone`: an answered, whole removal leaves no row in any table and
  none comes back, but the metadata row where somebody asks for tags: a tag update
  that read it before the removal writes it again
  (`manage/handlers_enhanced.go:302`, a finding), and no rewrite of an index follows.
  `RemovedInv` says what is gone at each step of a removal, `SeenInv` that no
  rewrite has read the document before.

The three about `Archive` hold with any number of knowledge bases.

* `IndexedCanBeRead`: what is in a chunks index has its chunks, unless somebody
  began to remove the document, one read or write of its chunks failed, or its
  knowledge base was deleted under its upload. It assumes `Unsplit`: the requests
  of a deployment are uploads of the management page, removals and tag updates,
  for any knowledge bases, or all of them are for the flat one; an upload or
  replacement of the engine's writes chunks and chunks index to different
  knowledge bases once the engines point elsewhere. The deployments of
  `Archive_restore` meet it. `ChunksInv` says that an upload past its
  chunks has them, `DeletionInv` that a deletion has torn every upload it meets
  and that, past its second statement, no chunks index of the knowledge base is
  left, `ZipInv` that an archive has the chunks to its chunks indexes, also while
  it is read or written, and `KnownInv` that a document not yet listed is in no
  archive, list or request but its upload's: without it an export could take a
  chunks index whose chunks it had looked for too early.
* `DeletedStaysDeleted`: no table has a row of a knowledge base whose deletion was
  undisturbed, until somebody asks for it again. It assumes `ScopedPlain`: every
  request scopes the Store and there are no embedder's vectors, because a request
  for the flat knowledge base, or one that `WithKB` answers from the cache, writes
  where an earlier one has pointed the engines, which may be the deleted one. The
  deployments of `Archive_restore` meet it too.
  `EmptiedInv` says which tables are empty at each statement of an undisturbed
  deletion, `Elsewhere` that whoever is past an engine in `WithKB` has seen it
  pointed at another knowledge base.
* `RestoredStaysWhole`: what was uploaded whole, exported and imported undisturbed is
  in every table and stays there, whatever is uploaded, removed, tagged, exported,
  imported or deleted beside it, until somebody asks for that document or knowledge
  base again or a statement of a request fails (an upload whose read of `INDEX.md`
  or of the inverted index failed rewrites it without the other documents, so
  nothing stronger holds). It assumes `Unsplit`, `ScopedPlain` and `Companions`: one
  request is served at a time (the administrator's beside it), or all requests of a
  deployment are for one knowledge base, while archives go between any. With two
  uploads at once for two knowledge bases TLC finds a counterexample: `WithKB` points
  the engines at the other one under a running upload, whose metadata, postings and
  line in `INDEX.md` then go there; the upload is answered whole all the same, and an
  export of its knowledge base has nothing of it. The deployments of
  `Archive_restore` are served by one goroutine.
  The argument joins both sides. `PromisedInv` says that every document answered
  whole (`Kept`) or restored is in every table, `WrittenInv` how far an upload under
  way has come with each (`Past`), `ReadInv` that a rewrite has read all that was
  promised, `ApartInv` that the document being uploaded is in no promise and no
  archive. `CopiedInv` says the same of an archive: an undisturbed export has copied
  every kept document into each table it is through with (`Through`), and an
  undisturbed import has written them back; `LostInv` that nothing is promised of a
  knowledge base an import or deletion is changing but what the archive holds; and
  `IndexedInv` that a knowledge base with entries in `INDEX.md` is exported with it.

**SearchSafety.** For any finite corpus, any scores, limits and failures:
`HitsAreAdmitted` (without a vector index no hit fails the tests: the tombstone
where there is a manager to ask, the document, and the section where a chunks index
names it), `MatchesAreFound` (no stage, cut or failing model call leaves a search
empty-handed when a candidate that passes the tests has a term of the query; a
coarse search only if it could read every section and no terms were added),
`BestComesFirst` (no hit stands before or without a candidate better by terms, by
terms and vector both, or by the reranker, also when the reranker fails; hits stand
by their scores unless that failure gave them others), `ScoresAreOwn` (a reranked
hit has the score given to its own text).
`SearchInv` relates the candidates, the ranking and the batches in each phase;
`WantedInv` follows one matching chunk through the stages. The assumption
`RanksAssumption` makes `Denominator` fine enough that ranks differ.

**SearchSafety, the GPU scheduler.** `SchedulerTypes`, `GPUIsShared`, `GuardedCallsServed`: who
holds the mutex is at one of its places, and a model that is loaded is the active
one, about to be put to sleep, or stray; so the scheduler accounts for every
model, and a guarded call keeps its own, for any number of requests.

**UploadTasksSafety.** `TaskTypes`, `StreamsAreTrue`, `StreamsAreOrdered`,
`ResultsAreKept`: the invariant ties a task's status to its worker's place and to
what its file says, and a stream's place to how far it has read.

**CachesSafety.** `StaleIsExplained`: an entry of Redis is current, about to be
evicted by a request under way, or excused. The inductive invariant adds what a
request has still to evict at each place, that nobody fills an entry without a
client, and that a deleted knowledge base has no documents.

**ConfigSafety.**

* `ChunkerStaysUsable`: the setters check what the settings hold however it got
  there, so the chunker's sizes stay usable.
* `SavesAreInForce`: with no request in progress, the file holds the whole `Config`
  if the last request overlapped no other and its save did not fail, or if the
  process began from the file and none has come (`saved`); and while no two requests
  have overlapped since the start, each setting that was given is in force as the
  `Config` says, saved or not, and each other one as the start made it. Of a request
  whose save fails, which the handler answers like any other, nothing is said of the
  file (a finding). `ConfigInv` says which field of a request under way the `Config`
  and the settings may differ in (`SyncInv`), and what the file holds meanwhile
  (`FileInv`). What the environment says is any `Config`.

**LibrarySafety.**

* `CacheImplemented`: every behaviour of `MemCache` is one of `LossyCache`. The
  invariant `MapOK` is the type of the map (known keys, a value and an expiry
  each) and of the clock, which is positive, so that an expiry just set is never
  taken for "no expiry"; each action then maps to the call of the same name, an
  eviction to a set that forgets the evicted key, and the clock to forgetting. It
  holds for any capacity, default TTL and patterns.
* `ExhaustedStaysEnded`: a task at its limit and failed for good stays so, and `Retry`
  counts no further than the limit. It is no bound on tries: `Transition` resumes a
  failed task without counting (a finding).
* `ChunksAreKept`, `DocumentReadsBack`, `ReconcileIsHonest`, for texts of any
  length: `VersionsInv` says which numbers the chunk names of the index have at
  each statement of a call (`NamesInv`, `NumbersInv`), and, while nothing has
  failed, that the index followed by what the call has still to write is the text
  (`WholeInv`). `ReconcileIsHonest` names the false alarms among the reasons for an
  error: a manifest of one chunk, or with one twice.
* `CutsLoseNoText`: for a text of any length, with any headings, sentence ends and
  parameters. `ChunkerInv` says of each pass that what it has produced and what it
  has still to take follow each other without a gap (`Chain`): before the overlap
  each chunk has the runes after the one before, each once and in order (`Straight`);
  from then on it may also repeat what was told (`Follows`). `LinkJoin` is why
  joining two neighbours keeps this, `SentenceStraight` why cutting does,
  `OverlapFollows` why a tail put in front does; `HeadingFound` is why every chunk
  has a section. `TextIsCovered` speaks only of the end.

**VectorIndexSafety.** For any finite number of chunks, documents and clients, any
levels, scores, beam widths, faults and restarts:

* `GraphsStaySound`, with no hypothesis on what overlaps: every index in memory and
  the one in the file has an entry point that exists and reaches the highest layer,
  and its links lead to other nodes that are there and have that layer.
  `InsertSound`, `RemoveSound`, `AddAllSound` and `DropAllSound` say that each method
  keeps this; `BaseInv` adds what the pointers of cache and views point to, where a
  request may be, and who is inside `Store.mu`.
* `RebuildsLeaveNoneMissing`: `RebuildOK` says that a document a rebuild has behind
  it has all its vectors but the `missed` ones, and who holds `Store.mu` meanwhile.
* `IndexMirrorsChunks` assumes `WritersAlone`: no request overlaps one that writes.
  `MirrorInv` says, at each place of a request, whether its view is the cached
  object (`ViewOK`), and what its object holds beside the chunk indexes (`Copies`):
  all but the document under way, or all of it. `MirrorsChunks` alone is not
  inductive, because it speaks only of moments when nobody is inside. Which overlaps
  break it is said above.
* `WideSearchIsExact` assumes `WideBeam` (a beam as wide as there are chunks):
  `WideSearchReaches` proves that the two-heap loop, which stops at the first
  candidate worse than all it keeps, ends with exactly the nodes linked to its seed;
  `NarrowSearchClimbs` that with a beam of one it ends on a node no neighbour beats;
  `DescentLands` that the descent enters every layer at a node that has it. Without
  `WideBeam` a search of such a graph is approximate, and nothing is claimed.

These rest on recursive functions. That one is defined, and what it computes, is an
induction over data, and no induction theorem with an operator parameter can be
used; it is done instead by a minimal counterexample, from `WFMin` of
`WellFoundedInduction`, which is about a set. `LoopDefined` and `DescentDefined`
show that a function that calls itself on a later beam, or on the next level, exists
(the largest set on which it does is everything), `FoldDefined` the same for a fold
over a finite set; `Later` orders the beams of a loop: a turn has visited more, or
as much with fewer candidates left.

**Only model-checked.** All liveness (`RequestsComplete`, `StreamsEnd`,
`ExpiredEventuallyPurged`, `StaleSearchesExpire`), which is out of the prover's
reach. Every safety property of a passing run is stated by a theorem.

## 5. Plan

What is left, in order of what it protects:

1. An abstract specification of a recoverable delete (hidden, recoverable until
   due, then gone), and `SoftDelete` shown to implement it under `OneManager`.
2. The sleep and wake calls of the management page, and sleep polling, beside the
   scheduler's own.
3. Two server processes on one database.

## 6. Not modelled

Parsing of files, tokenising, language-model prompts, scoring formulas, snippets
and hints of a search, the router's choice, the setup wizard, logging, the web
page, evaluation scripts and vendored code: functions of their input or plain
I/O, with no state that steps of two actors could get wrong. Data races on plain
fields (a pointer cleared by a configuration reload while another goroutine tests
it) are modelled as the value one of the two sees, not as torn reads. Two
processes on one database are not modelled: they share no lock. The version table
and list snapshots of the backend are read by no request of the program.
