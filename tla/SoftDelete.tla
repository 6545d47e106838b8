----------------------------- MODULE SoftDelete -----------------------------
(***************************************************************************)
(* The soft-delete lifecycle of knowledge-mcp: TombstoneManager            *)
(* (internal/knowledge/tombstone.go), the Store operations that use it     *)
(* (store_incremental.go, store.go, remove.go) and the callers that run    *)
(* them concurrently: the HTTP handlers of the management server and its   *)
(* hourly cleaner (manage/router.go).                                      *)
(*                                                                         *)
(* Two locks guard the state: Store.mu (here mu), a pointer every WithKB   *)
(* view shares, and the lock of each TombstoneManager (field writer).      *)
(* Restore and search take only the second one, and getTombstoneManager    *)
(* takes none.                                                             *)
(***************************************************************************)
EXTENDS Integers, Sequences, FiniteSets

CONSTANTS
    Docs,          \* document slugs: timestamped, never reused
    Clients,       \* goroutines of the HTTP server
    Cleaner,       \* the goroutine of the hourly ticker
    Free,          \* the owner of a lock nobody holds
    KBs, BaseKB,   \* knowledge bases, and the one the base Store is scoped to
    DocKB,         \* the knowledge base that holds each document
    Ops,           \* what clients ask for, a subset of AllOps
    Views,         \* how a request reaches its KB: a subset of {"base", "copy"}
    TTLs,          \* values of the ttl query parameter, 0 when absent
    DefaultTTL,
    Second,        \* ticks of the clock in a second
    DurationLimit, \* in ticks: time.Duration holds -DurationLimit .. DurationLimit - 1
    EngineWired,   \* init.go injects the search engine; unit tests do not
    Warm,          \* the base Store has loaded its manager when traffic starts
    Faults, MaxFaults, \* the faults that may happen, and how many in a run
    MaxTime, MaxManagers

AllOps == {"softdelete", "restore", "harddelete", "clean", "search"}
AllFaults == {"openfail", "tear", "backendfail", "restart"}
Procs == Clients \cup {Cleaner}

ASSUME ProcsDiffer == Free \notin Procs /\ Cleaner \notin Clients
ASSUME KBsAssumption == BaseKB \in KBs /\ DocKB \in [Docs -> KBs]
ASSUME TrafficAssumption == Ops \subseteq AllOps /\ Views \subseteq {"base", "copy"}
ASSUME TTLAssumption == TTLs \subseteq Nat /\ DefaultTTL \in Nat \ {0}
ASSUME BoundsAssumption ==
    /\ DurationLimit \in Nat \ {0} /\ Second \in Nat \ {0}
    /\ MaxFaults \in Nat /\ MaxTime \in Nat /\ MaxManagers \in Nat \ {0}
ASSUME SwitchesAssumption ==
    EngineWired \in BOOLEAN /\ Warm \in BOOLEAN /\ Faults \subseteq AllFaults

VARIABLES
    rows,     \* the documents the backend holds
    disk,     \* TOMBSTONES.json of each KB; a truncated file reads as no record
    heap,     \* the TombstoneManagers allocated since the process started
    baseTm,   \* Store.tombstoneManager of the base Store, 0 for nil
    mu,       \* who holds Store.mu
    pc, req,  \* where each goroutine is, and its request
    own,      \* the tombstoneManager pointer in the request's WithKB copy
    tm,       \* the manager the request works on
    todo, cleaned,  \* a sweep's slugs still to purge, and those purged
    undo,     \* the records to go back to when a save fails
    now, faults,
    \* History: what callers have been promised.
    hidden,   \* soft-deleted, and neither restored nor cleaned since
    due,      \* when the retention a document's last soft delete asked for ends
    shadowed  \* searches whose document has been hidden since they began

storeVars == <<rows, disk, heap, baseTm, mu>>
taskVars == <<pc, req, own, tm, todo, cleaned, undo>>
history == <<hidden, due, shadowed>>
vars == <<storeVars, taskVars, now, faults, history>>

----------------------------------------------------------------------------
(* Tombstone records: what the manager's map and TOMBSTONES.json hold.     *)

Record(d, expiry) == [slug |-> d, expiry |-> expiry]
Slugs(recs) == {r.slug : r \in recs}
Drop(recs, S) == {r \in recs : r.slug \notin S}

(* DeletedAt is the whole second of the delete (time.Now().Truncate); the   *)
(* sweep compares a time that is not truncated.                             *)
DeletedAt == now - (now % Second)

(* time.Duration(ttl) * time.Second, which wraps; ttl is in seconds.        *)
DurationUnscaled(ttl) == ttl  \* mutant: the factor time.Second is missing
Duration(ttl) == ((Second * ttl + DurationLimit) % (2 * DurationLimit)) - DurationLimit
ExpiryOf(ttl) == DeletedAt + Duration(ttl)
Expired(r) == now > r.expiry

EffectiveTTL(p) == IF req[p].ttl = 0 THEN DefaultTTL ELSE req[p].ttl

KBOf(r) == IF r.view = "base" THEN BaseKB ELSE r.kb
Pointer(p) == IF req[p].view = "base" THEN baseTm ELSE own[p]

ManagerNotRead(kb) == [kb |-> kb, recs |-> {}, writer |-> Free] \* mutant: no Init
Manager(kb) == [kb |-> kb, recs |-> disk[kb], writer |-> Free]

NoRequest == [op |-> "none", view |-> "base", kb |-> BaseKB, doc |-> "none", ttl |-> 0]

----------------------------------------------------------------------------
Init ==
    /\ rows = Docs
    /\ disk = [k \in KBs |-> {}]
    /\ heap = IF Warm THEN <<Manager(BaseKB)>> ELSE << >>
    /\ baseTm = IF Warm THEN 1 ELSE 0
    /\ mu = Free
    /\ pc = [p \in Procs |-> "idle"]
    /\ req = [p \in Procs |-> NoRequest]
    /\ own = [p \in Procs |-> 0]
    /\ tm = [p \in Procs |-> 0]
    /\ todo = [p \in Procs |-> {}]
    /\ cleaned = [p \in Procs |-> {}]
    /\ undo = [p \in Procs |-> {}]
    /\ now = 0 /\ faults = 0
    /\ hidden = {} /\ due = [d \in Docs |-> 0] /\ shadowed = {}

Goto(p, label) == pc' = [pc EXCEPT ![p] = label]

(* The request is answered: what its goroutine held on its stack is gone.   *)
Finish(p) ==
    /\ Goto(p, "idle")
    /\ req' = [req EXCEPT ![p] = NoRequest]
    /\ own' = [own EXCEPT ![p] = 0]
    /\ tm' = [tm EXCEPT ![p] = 0]
    /\ todo' = [todo EXCEPT ![p] = {}]
    /\ cleaned' = [cleaned EXCEPT ![p] = {}]
    /\ undo' = [undo EXCEPT ![p] = {}]

Fault(kind) == kind \in Faults /\ faults < MaxFaults /\ faults' = faults + 1

----------------------------------------------------------------------------
(* Arrival of a request.                                                    *)

Start(p, r, label) ==
    /\ pc[p] = "idle"
    /\ Goto(p, label)
    /\ req' = [req EXCEPT ![p] = r]
    /\ own' = [own EXCEPT ![p] = IF r.view = "copy" THEN baseTm ELSE 0]
    /\ UNCHANGED <<storeVars, tm, todo, cleaned, undo, now, faults, hidden, due>>

RequestOn(op, view, d, ttl) ==
    [op |-> op, view |-> view, kb |-> DocKB[d], doc |-> d, ttl |-> ttl]

BeginSoftDelete(p, view, d, ttl) ==
    /\ Start(p, RequestOn("softdelete", view, d, ttl), "lock")
    /\ UNCHANGED shadowed

BeginRestore(p, view, d) ==
    Start(p, RequestOn("restore", view, d, 0), "getTM") /\ UNCHANGED shadowed

(* handleManageDelete answers 404 before it locks when ReadMeta fails.      *)
BeginHardDelete(p, view, d) ==
    /\ d \in rows
    /\ Start(p, RequestOn("harddelete", view, d, 0), "lock")
    /\ UNCHANGED shadowed

BeginClean(p, view, d) ==
    /\ Start(p, [RequestOn("clean", view, d, 0) EXCEPT !.doc = "none"], "lock")
    /\ UNCHANGED shadowed

(* A search that reaches document d: its metadata has just been read.  With *)
(* the engine wired, the tombstone check goes to chunkstore.Engine, whose   *)
(* manager is nil: it hides nothing.                                        *)
BeginSearch(p, view, d) ==
    /\ d \in rows
    /\ Start(p, RequestOn("search", view, d, 0), IF EngineWired THEN "read" ELSE "getTM")
    /\ shadowed' = IF d \in hidden THEN shadowed \cup {p} ELSE shadowed

Begin(p, view, d) ==
    /\ view = "base" => DocKB[d] = BaseKB
    /\ \/ /\ "softdelete" \in Ops
          /\ \E ttl \in TTLs : BeginSoftDelete(p, view, d, ttl)
       \/ "restore" \in Ops /\ BeginRestore(p, view, d)
       \/ "harddelete" \in Ops /\ BeginHardDelete(p, view, d)
       \/ "clean" \in Ops /\ BeginClean(p, view, d)
       \/ "search" \in Ops /\ BeginSearch(p, view, d)

(* The hourly ticker: CleanExpiredTombstones on the base Store only.        *)
TickerFires ==
    Start(Cleaner, [NoRequest EXCEPT !.op = "clean"], "lock") /\ UNCHANGED shadowed

----------------------------------------------------------------------------
(* Store.mu and the lazily built manager.                                   *)

Lock(p) ==
    /\ pc[p] = "lock" /\ mu = Free
    /\ mu' = p
    /\ Goto(p, IF req[p].op = "harddelete" THEN "remove" ELSE "getTM")
    /\ UNCHANGED <<rows, disk, heap, baseTm, req, own, tm, todo, cleaned, undo,
                   now, faults, history>>

Unlock(p) ==
    /\ pc[p] = "unlock"
    /\ mu' = Free
    /\ Finish(p)
    /\ UNCHANGED <<rows, disk, heap, baseTm, now, faults, history>>

GetManagerUnchecked(p) ==  \* mutant: the nil check is gone
    /\ pc[p] = "getTM"
    /\ tm' = [tm EXCEPT ![p] = Pointer(p)]
    /\ Goto(p, "use")
    /\ UNCHANGED <<storeVars, req, own, todo, cleaned, undo, now, faults, history>>

GetManager(p) ==
    /\ pc[p] = "getTM" /\ Pointer(p) # 0
    /\ tm' = [tm EXCEPT ![p] = Pointer(p)]
    /\ Goto(p, "use")
    /\ UNCHANGED <<storeVars, req, own, todo, cleaned, undo, now, faults, history>>

(* Saw nil: a new manager is read from disk, Init's error being dropped...  *)
LoadManager(p) ==
    /\ pc[p] = "getTM" /\ Pointer(p) = 0
    /\ Len(heap) < MaxManagers
    /\ heap' = Append(heap, Manager(KBOf(req[p])))
    /\ tm' = [tm EXCEPT ![p] = Len(heap')]
    /\ Goto(p, "publish")
    /\ UNCHANGED <<rows, disk, baseTm, mu, req, own, todo, cleaned, undo, now, faults, history>>

(* ...and stored in the view, over whatever is there by now.                *)
Publish(p) ==
    /\ pc[p] = "publish"
    /\ IF req[p].view = "base"
       THEN baseTm' = tm[p] /\ UNCHANGED own
       ELSE own' = [own EXCEPT ![p] = tm[p]] /\ UNCHANGED baseTm
    /\ Goto(p, "use")
    /\ UNCHANGED <<rows, disk, heap, mu, req, tm, todo, cleaned, undo, now, faults, history>>

----------------------------------------------------------------------------
(* TombstoneManager operations.  A mutation holds the manager's lock from   *)
(* the change of the map to the end of the save.                            *)

Recs(p) == heap[tm[p]].recs
UsesUnlocked(p, op) == pc[p] = "use" /\ req[p].op = op  \* mutant: no RLock
Uses(p, op) == pc[p] = "use" /\ req[p].op = op /\ heap[tm[p]].writer = Free

(* Change the map, remember what to roll back to, and go on to the save.    *)
Mutate(p, recs) ==
    /\ heap' = [heap EXCEPT ![tm[p]] = [@ EXCEPT !.recs = recs, !.writer = p]]
    /\ undo' = [undo EXCEPT ![p] = Recs(p)]
    /\ Goto(p, "open")
    /\ UNCHANGED <<rows, disk, baseTm, mu, req, own, tm, todo, cleaned, now, faults>>

Add(p) ==
    /\ Uses(p, "softdelete")
    /\ req[p].doc \notin Slugs(Recs(p))
    /\ Mutate(p, Recs(p) \cup {Record(req[p].doc, ExpiryOf(EffectiveTTL(p)))})
    /\ due' = [due EXCEPT ![req[p].doc] = now + Second * EffectiveTTL(p)]
    /\ UNCHANGED <<hidden, shadowed>>

AddRefusedHoldingMu(p) ==  \* mutant: an early return that forgets Store.mu
    /\ Uses(p, "softdelete")
    /\ req[p].doc \in Slugs(Recs(p))
    /\ Finish(p)
    /\ UNCHANGED <<storeVars, now, faults, history>>

(* Add reports that a tombstone already exists.                             *)
AddRefused(p) ==
    /\ Uses(p, "softdelete")
    /\ req[p].doc \in Slugs(Recs(p))
    /\ Goto(p, "unlock")
    /\ UNCHANGED <<storeVars, req, own, tm, todo, cleaned, undo, now, faults, history>>

(* handleTombstoneRestore looks the tombstone up, then calls Remove.        *)
CheckTombstone(p) ==
    /\ Uses(p, "restore")
    /\ IF req[p].doc \in Slugs(Recs(p))
       THEN /\ Goto(p, "getTM")
            /\ req' = [req EXCEPT ![p].op = "remove"]
            /\ UNCHANGED <<own, tm, todo, cleaned, undo>>
       ELSE Finish(p)
    /\ UNCHANGED <<storeVars, now, faults, history>>

Remove(p) ==
    /\ Uses(p, "remove")
    /\ req[p].doc \in Slugs(Recs(p))
    /\ Mutate(p, Drop(Recs(p), {req[p].doc}))
    /\ UNCHANGED history

(* Remove is idempotent: the caller is told "restored" all the same.        *)
RemoveNothing(p) ==
    /\ Uses(p, "remove")
    /\ req[p].doc \notin Slugs(Recs(p))
    /\ Finish(p)
    /\ UNCHANGED <<storeVars, now, faults, history>>

SelectExpired(p) ==
    /\ Uses(p, "clean")
    /\ todo' = [todo EXCEPT ![p] = Slugs({r \in Recs(p) : Expired(r)})]
    /\ Goto(p, IF todo'[p] = {} THEN "unlock" ELSE "purge")
    /\ UNCHANGED <<storeVars, req, own, tm, cleaned, undo, now, faults, history>>

(* One backend.RemoveDocument(s.kbName, slug): deleting a document another  *)
(* KB holds deletes nothing and is no error.                                *)
Purge(p, d) ==
    /\ pc[p] = "purge" /\ d \in todo[p]
    /\ rows' = IF DocKB[d] = KBOf(req[p]) THEN rows \ {d} ELSE rows
    /\ todo' = [todo EXCEPT ![p] = @ \ {d}]
    /\ cleaned' = [cleaned EXCEPT ![p] = @ \cup {d}]
    /\ UNCHANGED <<disk, heap, baseTm, mu, pc, req, own, tm, undo, now, faults, history>>

PurgeFails(p, d) ==
    /\ pc[p] = "purge" /\ d \in todo[p]
    /\ Fault("backendfail")
    /\ todo' = [todo EXCEPT ![p] = @ \ {d}]
    /\ UNCHANGED <<storeVars, pc, req, own, tm, cleaned, undo, now, history>>

CleanupUnsaved(p) ==  \* mutant: the records are dropped in memory only
    /\ pc[p] = "purge" /\ todo[p] = {} /\ heap[tm[p]].writer = Free
    /\ heap' = [heap EXCEPT ![tm[p]] = [@ EXCEPT !.recs = Drop(Recs(p), cleaned[p])]]
    /\ Goto(p, "unlock")
    /\ UNCHANGED <<rows, disk, baseTm, mu, req, own, tm, todo, cleaned, undo, now, faults, history>>

CleanupOfSome(p) ==  \* mutant: no way out when no slug could be removed
    /\ cleaned[p] # {}
    /\ pc[p] = "purge" /\ todo[p] = {} /\ heap[tm[p]].writer = Free
    /\ Mutate(p, Drop(Recs(p), cleaned[p]))
    /\ UNCHANGED history

(* Cleanup saves even when no slug could be removed.                        *)
Cleanup(p) ==
    /\ pc[p] = "purge" /\ todo[p] = {} /\ heap[tm[p]].writer = Free
    /\ Mutate(p, Drop(Recs(p), cleaned[p]))
    /\ UNCHANGED history

----------------------------------------------------------------------------
(* saveLocked: os.WriteFile truncates, then writes; a failure rolls back.   *)

Leave(p) ==
    IF req[p].op = "remove" THEN Finish(p)
    ELSE Goto(p, "unlock") /\ UNCHANGED <<req, own, tm, todo, cleaned, undo>>

RollBackForgotten(p) ==  \* mutant: a failed save keeps the change
    /\ heap' = [heap EXCEPT ![tm[p]] = [@ EXCEPT !.writer = Free]]
    /\ Leave(p)

RollBack(p) ==
    /\ heap' = [heap EXCEPT ![tm[p]] = [@ EXCEPT !.recs = undo[p], !.writer = Free]]
    /\ Leave(p)

OpenFile(p) ==
    /\ pc[p] = "open"
    /\ disk' = [disk EXCEPT ![heap[tm[p]].kb] = {}]
    /\ Goto(p, "write")
    /\ UNCHANGED <<rows, heap, baseTm, mu, req, own, tm, todo, cleaned, undo, now, faults, history>>

OpenFails(p) ==
    /\ pc[p] = "open" /\ Fault("openfail")
    /\ RollBack(p)
    /\ UNCHANGED <<rows, disk, baseTm, mu, now, history>>

WriteFile(p) ==
    /\ pc[p] = "write"
    /\ disk' = [disk EXCEPT ![heap[tm[p]].kb] = Recs(p)]
    /\ heap' = [heap EXCEPT ![tm[p]] = [@ EXCEPT !.writer = Free]]
    /\ Leave(p)
    /\ hidden' = CASE req[p].op = "softdelete" -> hidden \cup {req[p].doc}
                   [] req[p].op = "remove"     -> hidden \ {req[p].doc}
                   [] OTHER                    -> hidden \ (cleaned[p] \ rows)
    /\ shadowed' = {s \in shadowed : req[s].doc \in hidden'}
    /\ UNCHANGED <<rows, baseTm, mu, now, faults, due>>

(* The write stops part-way: the file stays truncated.                      *)
WriteTears(p) ==
    /\ pc[p] = "write" /\ Fault("tear")
    /\ RollBack(p)
    /\ UNCHANGED <<rows, disk, baseTm, mu, now, history>>

----------------------------------------------------------------------------
(* Hard delete and search.                                                  *)

RemoveDocument(p) ==
    /\ pc[p] = "remove"
    /\ \/ rows' = rows \ {req[p].doc} /\ UNCHANGED faults
       \/ Fault("backendfail") /\ UNCHANGED rows
    /\ Goto(p, "unlock")
    /\ UNCHANGED <<disk, heap, baseTm, mu, req, own, tm, todo, cleaned, undo, now, history>>

(* collectEntries skips a tombstoned document...                            *)
SearchCheck(p) ==
    /\ Uses(p, "search")
    /\ IF req[p].doc \in Slugs(Recs(p))
       THEN Finish(p) /\ shadowed' = shadowed \ {p}
       ELSE /\ Goto(p, "read")
            /\ UNCHANGED <<req, own, tm, todo, cleaned, undo, shadowed>>
    /\ UNCHANGED <<storeVars, now, faults, hidden, due>>

(* ...then reads the chunks of the others: a hit if the rows still exist.   *)
SearchRead(p) ==
    /\ pc[p] = "read"
    /\ Finish(p)
    /\ shadowed' = shadowed \ {p}
    /\ UNCHANGED <<storeVars, now, faults, hidden, due>>

----------------------------------------------------------------------------
(* The clock, and the end and restart of the process.                       *)

Tick ==
    /\ now < MaxTime
    /\ now' = now + 1
    /\ UNCHANGED <<storeVars, taskVars, faults, history>>

(* Without "tear" among the faults a crash spares a file being written.     *)
Restart ==
    /\ Fault("restart")
    /\ "tear" \in Faults \/ \A p \in Procs : pc[p] # "write"
    /\ heap' = IF Warm THEN <<Manager(BaseKB)>> ELSE << >>
    /\ baseTm' = IF Warm THEN 1 ELSE 0
    /\ mu' = Free
    /\ pc' = [p \in Procs |-> "idle"]
    /\ req' = [p \in Procs |-> NoRequest]
    /\ own' = [p \in Procs |-> 0]
    /\ tm' = [p \in Procs |-> 0]
    /\ todo' = [p \in Procs |-> {}]
    /\ cleaned' = [p \in Procs |-> {}]
    /\ undo' = [p \in Procs |-> {}]
    /\ shadowed' = {}
    /\ UNCHANGED <<rows, disk, now, hidden, due>>

----------------------------------------------------------------------------
Save(p) == OpenFile(p) \/ OpenFails(p) \/ WriteFile(p) \/ WriteTears(p)

Sweep(p) ==
    \/ SelectExpired(p)
    \/ \E d \in Docs : Purge(p, d) \/ PurgeFails(p, d)
    \/ Cleanup(p)

Work(p) ==
    \/ Lock(p) \/ Unlock(p)
    \/ GetManager(p) \/ LoadManager(p) \/ Publish(p)
    \/ Add(p) \/ AddRefused(p)
    \/ CheckTombstone(p) \/ Remove(p) \/ RemoveNothing(p)
    \/ Sweep(p) \/ Save(p)
    \/ RemoveDocument(p)
    \/ SearchCheck(p) \/ SearchRead(p)

Next ==
    \/ \E p \in Clients, view \in Views, d \in Docs : Begin(p, view, d)
    \/ TickerFires
    \/ \E p \in Procs : Work(p)
    \/ Tick \/ Restart

Spec == Init /\ [][Next]_vars

(* Goroutines are scheduled, sync.Mutex and sync.RWMutex hand the lock to a *)
(* waiter that keeps losing it, the ticker keeps firing and time passes.    *)
Fairness ==
    /\ WF_vars(TickerFires) /\ WF_vars(Tick)
    /\ \A p \in Procs : SF_vars(Work(p))

FairSpec == Spec /\ Fairness

----------------------------------------------------------------------------
(* Properties.                                                              *)

Records == [slug : Docs, expiry : Int]

Requests == [op : AllOps \cup {"none", "remove"}, view : {"base", "copy"}, kb : KBs,
             doc : Docs \cup {"none"}, ttl : Nat]

Labels == {"idle", "lock", "getTM", "publish", "use", "purge", "open", "write",
           "remove", "read", "unlock"}

(* Every variable keeps its type; in particular no goroutine works on a nil *)
(* manager: getTombstoneManager always returns one (store_incremental.go).  *)
TypeOK ==
    /\ rows \subseteq Docs /\ hidden \subseteq Docs /\ shadowed \subseteq Procs
    /\ disk \in [KBs -> SUBSET Records]
    /\ heap \in Seq([kb : KBs, recs : SUBSET Records, writer : Procs \cup {Free}])
    /\ baseTm \in 0..Len(heap)
    /\ mu \in Procs \cup {Free}
    /\ pc \in [Procs -> Labels]
    /\ req \in [Procs -> Requests]
    /\ own \in [Procs -> 0..Len(heap)] /\ tm \in [Procs -> 0..Len(heap)]
    /\ todo \in [Procs -> SUBSET Docs] /\ cleaned \in [Procs -> SUBSET Docs]
    /\ undo \in [Procs -> SUBSET Records]
    /\ due \in [Docs -> Nat]
    /\ now \in 0..MaxTime /\ faults \in 0..MaxFaults
    /\ \A p \in Procs : pc[p] \in {"publish", "use", "purge", "open", "write"} => tm[p] # 0

(* The records of a manager, without the change a save may still undo.      *)
Committed(m) ==
    IF heap[m].writer = Free THEN heap[m].recs ELSE undo[heap[m].writer]

(* What the next request on a knowledge base goes by.                       *)
Standing(kb) == IF baseTm # 0 THEN Committed(baseTm) ELSE disk[kb]

(* A soft delete that was answered "tombstoned" sticks: until the document  *)
(* is restored or its files are gone, its tombstone is on record, whatever  *)
(* saves fail, sweeps skip and requests interleave (tombstone.go, "the      *)
(* document appears deleted"; a tombstone ends with a physical removal).    *)
NoLostDelete == \A d \in hidden \cap rows : d \in Slugs(Standing(DocKB[d]))

(* Only an answered soft delete leaves a tombstone: one whose save failed,  *)
(* or that was undone by a restore, is not on record to be purged later.    *)
NoPhantomDelete == Slugs(Standing(BaseKB)) \subseteq hidden

(* A tombstone file that is not being written holds the manager's records.  *)
DiskMatchesMemory ==
    baseTm # 0 /\ heap[baseTm].writer = Free => disk[BaseKB] = heap[baseTm].recs

Purged(p) == IF pc[p] = "purge" /\ todo'[p] # todo[p] THEN rows \ rows' ELSE {}

(* A sweep removes a document's files less than a second before the end of  *)
(* the retention its last soft delete asked for, or later ("retained for    *)
(* the given TTL", store_incremental.go), whatever restores, later deletes, *)
(* failed saves and sweeps lie in between.  Not before that end would be    *)
(* too much to say: the delete is recorded at the whole second before it.   *)
TTLRespected ==
    [][\A p \in Procs : \A d \in Purged(p) : due[d] > 0 /\ due[d] < now + Second]_vars

(* A sweep removes no document whose restore has been answered.             *)
RestoredDocumentSurvives ==
    [][\A p \in Procs : Purged(p) \subseteq hidden]_vars

(* A search never returns a document that has been soft-deleted ever since  *)
(* the search began ("immediately hidden from search").                     *)
HiddenFromSearch ==
    [][\A p \in shadowed : pc[p] = "read" /\ pc'[p] = "idle" => req[p].doc \notin rows]_vars

(* Every request is answered: no lock is left held, no sweep gets stuck.    *)
RequestsComplete == \A p \in Procs : pc[p] # "idle" ~> pc[p] = "idle"

(* The hourly cleaner eventually removes a soft-deleted document whose      *)
(* retention ends, unless it is restored; retentions that end after the     *)
(* model's clock does are not asked about.                                  *)
ExpiredEventuallyPurged ==
    \A d \in Docs : d \in hidden /\ due[d] < MaxTime ~> d \notin hidden \cap rows
=============================================================================
