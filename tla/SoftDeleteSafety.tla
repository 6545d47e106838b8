--------------------------- MODULE SoftDeleteSafety ---------------------------
(***************************************************************************)
(* Theorems about SoftDelete, for any number of documents, goroutines,     *)
(* faults and any retention times.                                         *)
(*                                                                         *)
(* The types are kept by every deployment.  NoLostDelete, NoPhantomDelete, *)
(* DiskMatchesMemory, TTLRespected and HiddenFromSearch hold where one     *)
(* manager serves every request: a server with one knowledge base whose    *)
(* base Store has loaded its manager.  Without that, two managers          *)
(* overwrite each other's file, as the runs show.                          *)
(***************************************************************************)
EXTENDS SoftDelete, SequenceTheorems, TLAPS

-----------------------------------------------------------------------------
(* Types.                                                                   *)

(* TypeOK does not say which requests name a document; Add and Remove need  *)
(* it to keep the records typed.                                            *)
NamesDocument ==
    \A p \in Procs : req[p].op \notin {"none", "clean"} => req[p].doc \in Docs

TypeInv == TypeOK /\ NamesDocument

Managers == [kb : KBs, recs : SUBSET Records, writer : Procs \cup {Free}]

(* The heap keeps its type and its length when a manager is changed.        *)
LEMMA HeapUpdate ==
    ASSUME NEW h \in Seq(Managers), NEW i \in 1..Len(h), NEW m \in Managers
    PROVE  [h EXCEPT ![i] = m] \in Seq(Managers) /\ Len([h EXCEPT ![i] = m]) = Len(h)
  BY ExceptSeq

LEMMA ManagerUpdate ==
    ASSUME NEW m \in Managers, NEW rs \in SUBSET Records, NEW w \in Procs \cup {Free}
    PROVE  [m EXCEPT !.recs = rs, !.writer = w] \in Managers /\ [m EXCEPT !.writer = w] \in Managers
  BY DEF Managers

LEMMA InitTyped == Init => TypeInv
<1> SUFFICES ASSUME Init PROVE TypeInv
  OBVIOUS
<1>1. BaseKB \in KBs /\ MaxTime \in Nat /\ MaxFaults \in Nat
  BY KBsAssumption, BoundsAssumption
<1>2. Manager(BaseKB) \in Managers
  BY <1>1 DEF Init, Manager, Managers
<1>3. heap \in Seq(Managers) /\ baseTm \in 0..Len(heap)
  BY <1>2 DEF Init
<1>4. req \in [Procs -> Requests] /\ NamesDocument
  BY <1>1 DEF Init, NoRequest, Requests, NamesDocument
<1>5. QED
  BY <1>1, <1>3, <1>4 DEF Init, TypeInv, TypeOK, Managers, Labels
(* What a goroutine keeps while it works: the variables of its stack.       *)
TaskTypes ==
    /\ pc \in [Procs -> Labels] /\ req \in [Procs -> Requests]
    /\ own \in [Procs -> 0..Len(heap)] /\ tm \in [Procs -> 0..Len(heap)]
    /\ todo \in [Procs -> SUBSET Docs] /\ cleaned \in [Procs -> SUBSET Docs]
    /\ undo \in [Procs -> SUBSET Records]
    /\ \A p \in Procs : pc[p] \in {"publish", "use", "purge", "open", "write"} => tm[p] # 0
    /\ NamesDocument

(* Answering a request leaves the task variables typed.                     *)
LEMMA FinishTyped ==
    ASSUME TypeInv, NEW p \in Procs, Finish(p), Len(heap') = Len(heap)
    PROVE  TaskTypes'
<1>1. NoRequest \in Requests /\ NoRequest.op = "none"
  BY KBsAssumption DEF NoRequest, Requests
<1>2. req' \in [Procs -> Requests] /\ NamesDocument'
  BY <1>1 DEF Finish, TypeInv, TypeOK, NamesDocument
<1>3. pc' \in [Procs -> Labels] /\ own' \in [Procs -> 0..Len(heap')]
      /\ tm' \in [Procs -> 0..Len(heap')]
  BY DEF Finish, Goto, TypeInv, TypeOK, Labels
<1>4. todo' \in [Procs -> SUBSET Docs] /\ cleaned' \in [Procs -> SUBSET Docs]
      /\ undo' \in [Procs -> SUBSET Records]
  BY DEF Finish, TypeInv, TypeOK
<1>5. \A q \in Procs :
        pc'[q] \in {"publish", "use", "purge", "open", "write"} => tm'[q] # 0
  BY DEF Finish, Goto, TypeInv, TypeOK
<1>6. QED BY <1>2, <1>3, <1>4, <1>5 DEF TaskTypes

LEMMA BeginTyped ==
    ASSUME TypeInv,
           NEW p \in Procs, NEW r \in Requests, NEW label \in {"lock", "getTM", "read"},
           Start(p, r, label), r.op \notin {"none", "clean"} => r.doc \in Docs,
           shadowed' \in SUBSET Procs
    PROVE  TypeInv'
<1>1. req' \in [Procs -> Requests] /\ NamesDocument'
  BY DEF Start, TypeInv, TypeOK, NamesDocument
<1>2. pc' \in [Procs -> Labels] /\ own' \in [Procs -> 0..Len(heap')]
  BY DEF Start, Goto, TypeInv, TypeOK, Labels, storeVars
<1>3. \A q \in Procs :
        pc'[q] \in {"publish", "use", "purge", "open", "write"} => tm'[q] # 0
  BY DEF Start, Goto, TypeInv, TypeOK
<1>4. QED
  BY <1>1, <1>2, <1>3 DEF Start, TypeInv, TypeOK, storeVars

LEMMA RequestTyped ==
    ASSUME NEW op \in AllOps, NEW view \in Views, NEW d \in Docs, NEW ttl \in TTLs \cup {0}
    PROVE  RequestOn(op, view, d, ttl) \in Requests
  BY KBsAssumption, TrafficAssumption, TTLAssumption DEF RequestOn, Requests

LEMMA ArrivalTyped ==
    ASSUME TypeInv, NEW p \in Clients, NEW view \in Views, NEW d \in Docs, Begin(p, view, d)
    PROVE  TypeInv'
<1>1. p \in Procs /\ shadowed \subseteq Procs
  BY DEF Procs, TypeInv, TypeOK
<1>2. CASE \E ttl \in TTLs : BeginSoftDelete(p, view, d, ttl)
  <2>1. PICK ttl \in TTLs : BeginSoftDelete(p, view, d, ttl)
    BY <1>2
  <2>2. RequestOn("softdelete", view, d, ttl) \in Requests
    BY RequestTyped DEF AllOps
  <2>3. QED BY <1>1, <2>1, <2>2, BeginTyped DEF BeginSoftDelete, RequestOn
<1>3. CASE BeginRestore(p, view, d)
  <2>1. RequestOn("restore", view, d, 0) \in Requests
    BY RequestTyped DEF AllOps
  <2>2. QED BY <1>1, <1>3, <2>1, BeginTyped DEF BeginRestore, RequestOn
<1>4. CASE BeginHardDelete(p, view, d)
  <2>1. RequestOn("harddelete", view, d, 0) \in Requests
    BY RequestTyped DEF AllOps
  <2>2. QED BY <1>1, <1>4, <2>1, BeginTyped DEF BeginHardDelete, RequestOn
<1>5. CASE BeginClean(p, view, d)
  <2> DEFINE r == [RequestOn("clean", view, d, 0) EXCEPT !.doc = "none"]
  <2>1. r \in Requests /\ r.op = "clean"
    BY KBsAssumption, TrafficAssumption DEF RequestOn, Requests, AllOps
  <2>2. Start(p, r, "lock") /\ UNCHANGED shadowed
    BY <1>5 DEF BeginClean
  <2> HIDE DEF r
  <2>3. QED BY <1>1, <2>1, <2>2, BeginTyped
<1>6. CASE BeginSearch(p, view, d)
  <2>1. RequestOn("search", view, d, 0) \in Requests
    BY RequestTyped DEF AllOps
  <2>2. shadowed' \in SUBSET Procs
    BY <1>1, <1>6 DEF BeginSearch
  <2>3. QED BY <1>1, <1>6, <2>1, <2>2, BeginTyped DEF BeginSearch, RequestOn
<1>7. QED BY <1>2, <1>3, <1>4, <1>5, <1>6 DEF Begin

LEMMA TickerTyped == ASSUME TypeInv, TickerFires PROVE TypeInv'
<1> DEFINE r == [NoRequest EXCEPT !.op = "clean"]
<1>1. r \in Requests /\ r.op = "clean"
  BY KBsAssumption DEF NoRequest, Requests, AllOps
<1>2. Start(Cleaner, r, "lock") /\ UNCHANGED shadowed /\ Cleaner \in Procs
  BY DEF TickerFires, Procs
<1>3. shadowed' \in SUBSET Procs
  BY <1>2 DEF TypeInv, TypeOK
<1> HIDE DEF r
<1>4. QED BY <1>1, <1>2, <1>3, BeginTyped
LEMMA LockTyped == ASSUME TypeInv, NEW p \in Procs, Lock(p) PROVE TypeInv'
  BY DEF Lock, Goto, history, Labels, TypeInv, TypeOK, NamesDocument

(* A step that only ends a request: Unlock, Remove of nothing, a search.    *)
LEMMA AnswerTyped ==
    ASSUME TypeInv, NEW p \in Procs, Finish(p),
           UNCHANGED <<rows, disk, heap, baseTm, now, faults, hidden, due>>,
           mu' \in Procs \cup {Free}, shadowed' \in SUBSET Procs
    PROVE  TypeInv'
<1>1. TaskTypes'
  BY FinishTyped
<1>2. QED BY <1>1 DEF TaskTypes, TypeInv, TypeOK

LEMMA UnlockTyped == ASSUME TypeInv, NEW p \in Procs, Unlock(p) PROVE TypeInv'
  BY AnswerTyped DEF Unlock, history, TypeInv, TypeOK

LEMMA GetManagerTyped == ASSUME TypeInv, NEW p \in Procs, GetManager(p) PROVE TypeInv'
<1>1. Pointer(p) \in 0..Len(heap) /\ Pointer(p) # 0
  BY DEF GetManager, Pointer, TypeInv, TypeOK
<1>2. tm' \in [Procs -> 0..Len(heap)] /\ tm'[p] # 0
  BY <1>1 DEF GetManager, TypeInv, TypeOK
<1>3. QED
  BY <1>2 DEF GetManager, Goto, storeVars, history, Labels, TypeInv, TypeOK, NamesDocument

LEMMA LoadManagerTyped == ASSUME TypeInv, NEW p \in Procs, LoadManager(p) PROVE TypeInv'
<1> DEFINE m == Manager(KBOf(req[p]))
<1>1. KBOf(req[p]) \in KBs
  BY KBsAssumption DEF KBOf, TypeInv, TypeOK, Requests
<1>2. m \in Managers
  BY <1>1 DEF Manager, Managers, TypeInv, TypeOK
<1>3. heap \in Seq(Managers) /\ heap' = Append(heap, m)
  BY DEF LoadManager, TypeInv, TypeOK, Managers
<1> HIDE DEF m
<1>4. heap' \in Seq(Managers) /\ Len(heap') = Len(heap) + 1 /\ Len(heap) \in Nat
  BY <1>2, <1>3
<1>5. /\ tm' \in [Procs -> 0..Len(heap')] /\ own' \in [Procs -> 0..Len(heap')]
      /\ baseTm' \in 0..Len(heap') /\ tm'[p] # 0
  BY <1>4 DEF LoadManager, TypeInv, TypeOK
<1>6. \A q \in Procs :
        pc'[q] \in {"publish", "use", "purge", "open", "write"} => tm'[q] # 0
  BY <1>5 DEF LoadManager, Goto, TypeInv, TypeOK
<1>7. pc' \in [Procs -> Labels]
  BY DEF LoadManager, Goto, TypeInv, TypeOK, Labels
<1>8. QED
  BY <1>4, <1>5, <1>6, <1>7 DEF LoadManager, history, Managers, TypeInv, TypeOK, NamesDocument

LEMMA PublishTyped == ASSUME TypeInv, NEW p \in Procs, Publish(p) PROVE TypeInv'
  BY DEF Publish, Goto, history, Labels, TypeInv, TypeOK, NamesDocument

(* Mutate: the map is changed under the manager's lock.                     *)
LEMMA MutateTyped ==
    ASSUME TypeInv, NEW p \in Procs, tm[p] # 0, NEW rs \in SUBSET Records, Mutate(p, rs),
           hidden' \in SUBSET Docs, due' \in [Docs -> Nat], shadowed' \in SUBSET Procs
    PROVE  TypeInv'
<1>1. tm[p] \in 1..Len(heap) /\ heap \in Seq(Managers)
  BY DEF TypeInv, TypeOK, Managers
<1>2. heap' \in Seq(Managers) /\ Len(heap') = Len(heap)
  <2> DEFINE m == [heap[tm[p]] EXCEPT !.recs = rs, !.writer = p]
  <2>1. heap[tm[p]] \in Managers
    BY <1>1, ElementOfSeq
  <2>2. m \in Managers
    BY <2>1, ManagerUpdate
  <2>3. heap' = [heap EXCEPT ![tm[p]] = m]
    BY DEF Mutate
  <2> HIDE DEF m
  <2>4. QED BY <1>1, <2>2, <2>3, HeapUpdate
<1>3. Recs(p) \in SUBSET Records
  <2>1. heap[tm[p]] \in Managers
    BY <1>1, ElementOfSeq
  <2>2. QED BY <2>1 DEF Managers, Recs
<1>4. pc' \in [Procs -> Labels] /\ undo' \in [Procs -> SUBSET Records]
  BY <1>3 DEF Mutate, Goto, Labels, TypeInv, TypeOK
<1>5. \A q \in Procs :
        pc'[q] \in {"publish", "use", "purge", "open", "write"} => tm'[q] # 0
  BY DEF Mutate, Goto, TypeInv, TypeOK
<1>6. QED
  BY <1>2, <1>4, <1>5 DEF Mutate, Managers, TypeInv, TypeOK, NamesDocument

LEMMA RecsTyped == ASSUME TypeInv, NEW p \in Procs, tm[p] # 0 PROVE Recs(p) \in SUBSET Records
<1>1. tm[p] \in 1..Len(heap) /\ heap \in Seq(Managers)
  BY DEF TypeInv, TypeOK, Managers
<1>2. heap[tm[p]] \in Managers
  BY <1>1, ElementOfSeq
<1>3. QED BY <1>2 DEF Managers, Recs

LEMMA UsesTyped ==
    ASSUME TypeInv, NEW p \in Procs, NEW op, Uses(p, op)
    PROVE  tm[p] # 0 /\ (op \notin {"none", "clean"} => req[p].doc \in Docs)
  BY DEF Uses, TypeInv, TypeOK, NamesDocument

LEMMA AddTyped == ASSUME TypeInv, NEW p \in Procs, Add(p) PROVE TypeInv'
<1>1. tm[p] # 0 /\ req[p].doc \in Docs
  BY UsesTyped DEF Add
<1>2. EffectiveTTL(p) \in Nat /\ now \in Nat
  BY TTLAssumption, BoundsAssumption DEF EffectiveTTL, TypeInv, TypeOK, Requests
<1>3. DeletedAt \in Int /\ Duration(EffectiveTTL(p)) \in Int /\ Second * EffectiveTTL(p) \in Nat
  <2> DEFINE ticks == Second * EffectiveTTL(p)
  <2>1. ticks \in Nat /\ DeletedAt \in Int
    BY <1>2, BoundsAssumption DEF DeletedAt
  <2> HIDE DEF ticks
  <2>2. ((ticks + DurationLimit) % (2 * DurationLimit)) - DurationLimit \in Int
    BY <2>1, BoundsAssumption
  <2> QED BY <2>1, <2>2 DEF Duration, ticks
<1>4. Record(req[p].doc, ExpiryOf(EffectiveTTL(p))) \in Records
  BY <1>1, <1>2, <1>3 DEF ExpiryOf, Record, Records
<1>5. Recs(p) \in SUBSET Records
  BY <1>1, RecsTyped
<1>6. due' \in [Docs -> Nat]
  BY <1>1, <1>2, <1>3 DEF Add, TypeInv, TypeOK
<1>7. QED
  BY <1>1, <1>4, <1>5, <1>6, MutateTyped DEF Add, TypeInv, TypeOK
LEMMA AddRefusedTyped == ASSUME TypeInv, NEW p \in Procs, AddRefused(p) PROVE TypeInv'
  BY DEF AddRefused, Goto, storeVars, history, Labels, TypeInv, TypeOK, NamesDocument

LEMMA CheckTombstoneTyped ==
    ASSUME TypeInv, NEW p \in Procs, CheckTombstone(p) PROVE TypeInv'
<1>1. CASE req[p].doc \in Slugs(Recs(p))
  <2>1. req[p].doc \in Docs
    BY UsesTyped DEF CheckTombstone
  <2> DEFINE r == [req[p] EXCEPT !.op = "remove"]
  <2>2. r \in Requests /\ r.doc = req[p].doc
    <3>1. req[p] \in Requests
      BY DEF TypeInv, TypeOK
    <3>2. QED BY <3>1 DEF Requests
  <2>3. req' = [req EXCEPT ![p] = r]
    BY <1>1 DEF CheckTombstone
  <2> HIDE DEF r
  <2>4. req' \in [Procs -> Requests] /\ NamesDocument'
    BY <2>1, <2>2, <2>3 DEF TypeInv, TypeOK, NamesDocument
  <2>5. QED
    BY <1>1, <2>4 DEF CheckTombstone, Goto, storeVars, history, Labels, TypeInv, TypeOK
<1>2. CASE req[p].doc \notin Slugs(Recs(p))
  BY <1>2, AnswerTyped DEF CheckTombstone, storeVars, history, TypeInv, TypeOK
<1>3. QED BY <1>1, <1>2

LEMMA RemoveTyped == ASSUME TypeInv, NEW p \in Procs, Remove(p) PROVE TypeInv'
<1>1. tm[p] # 0
  BY UsesTyped DEF Remove
<1>2. Drop(Recs(p), {req[p].doc}) \in SUBSET Records
  BY <1>1, RecsTyped DEF Drop
<1>3. QED
  BY <1>1, <1>2, MutateTyped DEF Remove, history, TypeInv, TypeOK

LEMMA RemoveNothingTyped ==
    ASSUME TypeInv, NEW p \in Procs, RemoveNothing(p) PROVE TypeInv'
  BY AnswerTyped DEF RemoveNothing, storeVars, history, TypeInv, TypeOK

LEMMA SweepTyped == ASSUME TypeInv, NEW p \in Procs, Sweep(p) PROVE TypeInv'
<1>1. CASE SelectExpired(p)
  <2>1. Recs(p) \in SUBSET Records
    BY <1>1, UsesTyped, RecsTyped DEF SelectExpired
  <2>2. Slugs({r \in Recs(p) : Expired(r)}) \in SUBSET Docs
    BY <2>1 DEF Slugs, Records
  <2>3. todo' \in [Procs -> SUBSET Docs]
    BY <1>1, <2>2 DEF SelectExpired, TypeInv, TypeOK
  <2>4. pc' \in [Procs -> Labels]
    BY <1>1 DEF SelectExpired, Goto, TypeInv, TypeOK, Labels
  <2>5. \A q \in Procs :
          pc'[q] \in {"publish", "use", "purge", "open", "write"} => tm'[q] # 0
    BY <1>1 DEF SelectExpired, Uses, Goto, TypeInv, TypeOK
  <2>6. QED
    BY <1>1, <2>3, <2>4, <2>5
    DEF SelectExpired, storeVars, history, TypeInv, TypeOK, NamesDocument
<1>2. CASE \E d \in Docs : Purge(p, d)
  BY <1>2 DEF Purge, history, TypeInv, TypeOK, NamesDocument
<1>3. CASE \E d \in Docs : PurgeFails(p, d)
  BY <1>3, BoundsAssumption
  DEF PurgeFails, Fault, storeVars, history, TypeInv, TypeOK, NamesDocument
<1>4. CASE Cleanup(p)
  <2>1. tm[p] # 0
    BY <1>4 DEF Cleanup, TypeInv, TypeOK
  <2>2. Drop(Recs(p), cleaned[p]) \in SUBSET Records
    BY <2>1, RecsTyped DEF Drop
  <2>3. QED
    BY <1>4, <2>1, <2>2, MutateTyped DEF Cleanup, history, TypeInv, TypeOK
<1>5. QED BY <1>1, <1>2, <1>3, <1>4 DEF Sweep

(* The end of a save, whether it is kept or rolled back.                    *)
LEMMA LeaveTyped ==
    ASSUME TypeInv, NEW p \in Procs, Leave(p), Len(heap') = Len(heap)
    PROVE  TaskTypes'
<1>1. CASE req[p].op = "remove"
  BY <1>1, FinishTyped DEF Leave
<1>2. CASE req[p].op # "remove"
  BY <1>2 DEF Leave, Goto, Labels, TaskTypes, TypeInv, TypeOK, NamesDocument
<1>3. QED BY <1>1, <1>2

LEMMA RollBackTyped ==
    ASSUME TypeInv, NEW p \in Procs, tm[p] # 0, RollBack(p),
           UNCHANGED <<rows, disk, baseTm, mu, now, history>>, faults' \in 0..MaxFaults
    PROVE  TypeInv'
<1> DEFINE m == [heap[tm[p]] EXCEPT !.recs = undo[p], !.writer = Free]
<1>1. tm[p] \in 1..Len(heap) /\ heap \in Seq(Managers) /\ undo[p] \in SUBSET Records
  BY DEF TypeInv, TypeOK, Managers
<1>2. m \in Managers
  BY <1>1, ElementOfSeq, ManagerUpdate
<1>3. heap' = [heap EXCEPT ![tm[p]] = m]
  BY DEF RollBack
<1> HIDE DEF m
<1>4. heap' \in Seq(Managers) /\ Len(heap') = Len(heap)
  BY <1>1, <1>2, <1>3, HeapUpdate
<1>5. TaskTypes'
  BY <1>4, LeaveTyped DEF RollBack
<1>6. QED
  BY <1>4, <1>5 DEF TaskTypes, Managers, history, TypeInv, TypeOK

LEMMA SaveTyped == ASSUME TypeInv, NEW p \in Procs, Save(p) PROVE TypeInv'
<1>1. pc[p] \in {"open", "write"} /\ tm[p] # 0
  BY DEF Save, OpenFile, OpenFails, WriteFile, WriteTears, TypeInv, TypeOK
<1>2. tm[p] \in 1..Len(heap) /\ heap \in Seq(Managers)
  BY <1>1 DEF TypeInv, TypeOK, Managers
<1>3. heap[tm[p]] \in Managers
  BY <1>2, ElementOfSeq
<1>4. CASE OpenFile(p)
  <2>1. disk' \in [KBs -> SUBSET Records]
    BY <1>4 DEF OpenFile, TypeInv, TypeOK
  <2>2. QED
    BY <1>4, <2>1 DEF OpenFile, Goto, history, Labels, TypeInv, TypeOK, NamesDocument
<1>5. CASE OpenFails(p)
  <2>1. faults' \in 0..MaxFaults
    BY <1>5, BoundsAssumption DEF OpenFails, Fault, TypeInv, TypeOK
  <2>2. QED BY <1>1, <1>5, <2>1, RollBackTyped DEF OpenFails
<1>6. CASE WriteFile(p)
  <2> DEFINE m == [heap[tm[p]] EXCEPT !.writer = Free]
  <2>1. m \in Managers /\ heap' = [heap EXCEPT ![tm[p]] = m]
    BY <1>3, <1>6 DEF WriteFile, Managers
  <2> HIDE DEF m
  <2>2. heap' \in Seq(Managers) /\ Len(heap') = Len(heap)
    BY <1>2, <2>1, HeapUpdate
  <2>3. TaskTypes'
    BY <1>6, <2>2, LeaveTyped DEF WriteFile
  <2>4. disk' \in [KBs -> SUBSET Records]
    BY <1>3, <1>6 DEF WriteFile, Recs, Managers, TypeInv, TypeOK
  <2>5. hidden' \in SUBSET Docs /\ shadowed' \in SUBSET Procs
    BY <1>6 DEF WriteFile, TypeInv, TypeOK, NamesDocument
  <2>6. QED
    BY <1>6, <2>2, <2>3, <2>4, <2>5 DEF WriteFile, TaskTypes, Managers, TypeInv, TypeOK
<1>7. CASE WriteTears(p)
  <2>1. faults' \in 0..MaxFaults
    BY <1>7, BoundsAssumption DEF WriteTears, Fault, TypeInv, TypeOK
  <2>2. QED BY <1>1, <1>7, <2>1, RollBackTyped DEF WriteTears
<1>8. QED BY <1>4, <1>5, <1>6, <1>7 DEF Save

LEMMA RemoveDocumentTyped ==
    ASSUME TypeInv, NEW p \in Procs, RemoveDocument(p) PROVE TypeInv'
<1>1. rows' \subseteq Docs /\ faults' \in 0..MaxFaults
  BY BoundsAssumption DEF RemoveDocument, Fault, TypeInv, TypeOK
<1>2. QED
  BY <1>1 DEF RemoveDocument, Goto, history, Labels, TypeInv, TypeOK, NamesDocument

LEMMA SearchTyped ==
    ASSUME TypeInv, NEW p \in Procs, SearchCheck(p) \/ SearchRead(p) PROVE TypeInv'
<1>1. CASE SearchRead(p)
  BY <1>1, AnswerTyped DEF SearchRead, storeVars, TypeInv, TypeOK
<1>2. CASE SearchCheck(p) /\ req[p].doc \in Slugs(Recs(p))
  BY <1>2, AnswerTyped DEF SearchCheck, storeVars, TypeInv, TypeOK
<1>3. CASE SearchCheck(p) /\ req[p].doc \notin Slugs(Recs(p))
  BY <1>3 DEF SearchCheck, Goto, storeVars, Labels, TypeInv, TypeOK, NamesDocument
<1>4. QED BY <1>1, <1>2, <1>3

LEMMA RestartTyped == ASSUME TypeInv, Restart PROVE TypeInv'
<1>1. Manager(BaseKB) \in Managers
  BY KBsAssumption DEF Manager, Managers, TypeInv, TypeOK
<1>2. heap' \in Seq(Managers) /\ baseTm' \in 0..Len(heap')
  BY <1>1 DEF Restart
<1>3. faults' \in 0..MaxFaults
  BY BoundsAssumption DEF Restart, Fault, TypeInv, TypeOK
<1>4. req' \in [Procs -> Requests] /\ NamesDocument'
  BY KBsAssumption DEF Restart, NoRequest, Requests, NamesDocument
<1>5. QED
  BY <1>2, <1>3, <1>4 DEF Restart, Managers, Labels, TypeInv, TypeOK

LEMMA TickTyped == ASSUME TypeInv, Tick PROVE TypeInv'
  BY BoundsAssumption
  DEF Tick, storeVars, taskVars, history, TypeInv, TypeOK, NamesDocument

LEMMA StutterTyped == ASSUME TypeInv, UNCHANGED vars PROVE TypeInv'
  BY DEF vars, storeVars, taskVars, history, TypeInv, TypeOK, NamesDocument

LEMMA WorkTyped == ASSUME TypeInv, NEW p \in Procs, Work(p) PROVE TypeInv'
  BY LockTyped, UnlockTyped, GetManagerTyped, LoadManagerTyped, PublishTyped, AddTyped,
     AddRefusedTyped, CheckTombstoneTyped, RemoveTyped, RemoveNothingTyped, SweepTyped,
     SaveTyped, RemoveDocumentTyped, SearchTyped
  DEF Work

LEMMA StepTyped == TypeInv /\ [Next]_vars => TypeInv'
  BY ArrivalTyped, TickerTyped, WorkTyped, TickTyped, RestartTyped, StutterTyped DEF Next

(* Every variable of the soft-delete lifecycle keeps its type, and no       *)
(* goroutine ever works on a manager it has not obtained.                   *)
THEOREM TypeCorrect == Spec => []TypeOK
<1>1. TypeInv => TypeOK
  BY DEF TypeInv
<1>2. QED
  BY <1>1, InitTyped, StepTyped, PTL DEF Spec

-----------------------------------------------------------------------------
(* What is on record.                                                       *)

OneManager == Warm /\ KBs = {BaseKB} /\ ("tear" \notin Faults \/ "restart" \notin Faults)

Saving == {"open", "write"}

(* Every request finds the base Store's manager, the only one there is.     *)
Sole ==
    /\ Len(heap) = 1 /\ baseTm = 1
    /\ \A p \in Procs : pc[p] # "publish"
    /\ \A p \in Procs : pc[p] # "idle" /\ req[p].view = "copy" => own[p] = 1

(* The manager's lock is held by the goroutine that saves, and by it alone. *)
WriterSaves == \A p \in Procs : heap[1].writer = p <=> pc[p] \in Saving

(* What a save under way is about to commit.                                *)
Pending ==
    \A p \in Procs : pc[p] \in Saving =>
        /\ req[p].op \in {"softdelete", "remove", "clean"}
        /\ req[p].op = "softdelete" => Slugs(heap[1].recs) = Slugs(undo[p]) \cup {req[p].doc}
        /\ req[p].op = "remove" => Slugs(heap[1].recs) = Slugs(undo[p]) \ {req[p].doc}
        /\ req[p].op = "clean" => Slugs(heap[1].recs) = Slugs(undo[p]) \ cleaned[p]

(* A sweep's list of purged documents is true.                              *)
Sweeping ==
    \A p \in Procs : cleaned[p] \cap rows = {} /\ (pc[p] = "purge" => req[p].op = "clean")

Answers ==
    Slugs(Committed(1)) \subseteq hidden /\ hidden \cap rows \subseteq Slugs(Committed(1))

Durable ==
    "tear" \notin Faults /\ (\A p \in Procs : pc[p] # "write") => disk[BaseKB] = Committed(1)

SafetyInv ==
    TypeInv /\ Sole /\ WriterSaves /\ Pending /\ Sweeping /\ Answers /\ Durable

LEMMA AnswersImplied == ASSUME OneManager, SafetyInv PROVE NoLostDelete /\ NoPhantomDelete
<1>1. Standing(BaseKB) = Committed(1) /\ \A d \in Docs : Standing(DocKB[d]) = Committed(1)
  BY DEF Standing, SafetyInv, Sole
<1>2. NoLostDelete
  BY <1>1 DEF NoLostDelete, SafetyInv, Answers, TypeInv, TypeOK
<1>3. NoPhantomDelete
  BY <1>1 DEF NoPhantomDelete, SafetyInv, Answers
<1>4. QED BY <1>2, <1>3

LEMMA DurableImplied == ASSUME "tear" \notin Faults, SafetyInv PROVE DiskMatchesMemory
<1>1. SUFFICES ASSUME heap[1].writer = Free PROVE disk[BaseKB] = heap[1].recs
  BY DEF DiskMatchesMemory, SafetyInv, Sole
<1>2. \A p \in Procs : pc[p] # "write"
  BY <1>1, ProcsDiffer DEF SafetyInv, WriterSaves, Saving
<1>3. QED BY <1>1, <1>2 DEF SafetyInv, Durable, Committed

LEMMA TheManager ==
    ASSUME SafetyInv
    PROVE  heap \in Seq(Managers) /\ heap[1] \in Managers /\ Len(heap) = 1
<1>1. heap \in Seq(Managers) /\ Len(heap) = 1
  BY DEF SafetyInv, TypeInv, TypeOK, Sole, Managers
<1>2. 1 \in 1..Len(heap)
  BY <1>1
<1>3. heap[1] \in Managers
  BY <1>1, <1>2, ElementOfSeq
<1>4. QED BY <1>1, <1>3

LEMMA InitSafe == ASSUME OneManager, Init PROVE SafetyInv
<1>1. TypeInv
  BY InitTyped
<1>2. /\ heap = <<Manager(BaseKB)>> /\ baseTm = 1 /\ Len(heap) = 1
      /\ heap[1].recs = {} /\ heap[1].writer = Free /\ disk[BaseKB] = {}
      /\ \A p \in Procs : pc[p] = "idle"
  BY KBsAssumption DEF Init, OneManager, Manager
<1>3. Sole /\ WriterSaves /\ Pending
  BY <1>2, ProcsDiffer DEF Sole, WriterSaves, Pending, Saving
<1>4. Sweeping
  BY <1>2 DEF Init, Sweeping
<1>5. Committed(1) = {} /\ hidden = {}
  BY <1>2 DEF Committed, Init
<1>6. Answers /\ Durable
  BY <1>2, <1>5 DEF Answers, Durable, Slugs
<1>7. QED BY <1>1, <1>3, <1>4, <1>6 DEF SafetyInv

(* A step of p that neither starts nor ends a save, and changes no record.  *)
LEMMA QuietStep ==
    ASSUME OneManager, SafetyInv, TypeInv', NEW p \in Procs,
           UNCHANGED <<heap, disk, baseTm, hidden>>, rows' \subseteq rows,
           pc[p] \notin Saving, pc'[p] \notin Saving \cup {"publish"},
           pc'[p] # "idle" /\ req'[p].view = "copy" => own'[p] = 1,
           \A q \in Procs \ {p} :
               /\ pc'[q] = pc[q] /\ req'[q] = req[q] /\ own'[q] = own[q]
               /\ undo'[q] = undo[q] /\ cleaned'[q] = cleaned[q],
           cleaned'[p] \cap rows' = {}, pc'[p] = "purge" => req'[p].op = "clean"
    PROVE  SafetyInv'
<1>1. Sole' /\ WriterSaves'
  BY DEF SafetyInv, Sole, WriterSaves
<1>2. Pending' /\ Sweeping'
  BY DEF SafetyInv, Pending, Sweeping
<1>3. Committed(1)' = Committed(1)
  <2>1. heap[1] \in Managers
    BY TheManager
  <2>2. heap[1].writer \in Procs \cup {Free} /\ heap[1].writer # p
    BY <2>1, ProcsDiffer DEF Managers, SafetyInv, WriterSaves
  <2>3. QED BY <2>2 DEF Committed
<1>4. Answers' /\ Durable'
  <2>1. Answers'
    BY <1>3 DEF SafetyInv, Answers
  <2>2. (\A q \in Procs : pc'[q] # "write") => \A q \in Procs : pc[q] # "write"
    BY DEF Saving
  <2>3. Durable'
    BY <1>3, <2>2 DEF SafetyInv, Durable
  <2>4. QED BY <2>1, <2>3
<1>5. QED BY <1>1, <1>2, <1>4 DEF SafetyInv

(* The start of a save: the change is pending, what is committed is not     *)
(* touched.                                                                 *)
LEMMA MutateSafe ==
    ASSUME OneManager, SafetyInv, TypeInv', NEW p \in Procs, tm[p] = 1,
           pc[p] \in {"use", "purge"}, heap[1].writer = Free, NEW rs, Mutate(p, rs), hidden' = hidden,
           req[p].op \in {"softdelete", "remove", "clean"},
           req[p].op = "softdelete" => Slugs(rs) = Slugs(heap[1].recs) \cup {req[p].doc},
           req[p].op = "remove" => Slugs(rs) = Slugs(heap[1].recs) \ {req[p].doc},
           req[p].op = "clean" => Slugs(rs) = Slugs(heap[1].recs) \ cleaned[p]
    PROVE  SafetyInv'
<1>1. heap[1] \in Managers /\ heap \in Seq(Managers)
  BY TheManager
<1>2. /\ heap'[1].recs = rs /\ heap'[1].writer = p /\ Len(heap') = 1
  BY <1>1 DEF Mutate, Managers, SafetyInv, Sole
<1>3. /\ pc' = [pc EXCEPT ![p] = "open"] /\ undo' = [undo EXCEPT ![p] = heap[1].recs]
      /\ pc \in [Procs -> Labels] /\ undo \in [Procs -> SUBSET Records]
  BY DEF Mutate, Goto, Recs, SafetyInv, TypeInv, TypeOK
<1>4. \A q \in Procs : pc[q] \notin Saving
  BY ProcsDiffer DEF SafetyInv, WriterSaves
<1>5. Sole'
  <2>1. Len(heap') = 1 /\ baseTm' = 1
    BY <1>2 DEF Mutate, SafetyInv, Sole
  <2>2. \A q \in Procs : pc'[q] # "publish"
    BY <1>3 DEF SafetyInv, Sole
  <2>3. \A q \in Procs : pc'[q] # "idle" => pc[q] # "idle"
    BY <1>3
  <2>4. req' = req /\ own' = own
    BY DEF Mutate
  <2>5. QED BY <2>1, <2>2, <2>3, <2>4 DEF SafetyInv, Sole
<1>6. WriterSaves'
  BY <1>2, <1>3, <1>4 DEF WriterSaves, Saving
<1>7. Pending'
  BY <1>2, <1>3, <1>4 DEF Pending, Mutate, Saving
<1>8. Sweeping'
  <2>1. \A q \in Procs : pc'[q] = "purge" => pc[q] = "purge"
    BY <1>3
  <2>2. UNCHANGED <<rows, req, cleaned>>
    BY DEF Mutate
  <2>3. QED BY <2>1, <2>2 DEF SafetyInv, Sweeping
<1>9. Committed(1) = heap[1].recs /\ Committed(1)' = heap[1].recs
  BY <1>2, <1>3, ProcsDiffer DEF Committed
<1>10. Answers' /\ Durable'
  BY <1>3, <1>4, <1>9 DEF Mutate, SafetyInv, Answers, Durable, Saving
<1>11. QED BY <1>5, <1>6, <1>7, <1>8, <1>10 DEF SafetyInv
LEMMA OpenFileSafe == ASSUME OneManager, SafetyInv, NEW p \in Procs, OpenFile(p) PROVE SafetyInv'
<1>1. TypeInv'
  BY SaveTyped DEF Save, SafetyInv
<1>2. /\ UNCHANGED <<rows, heap, baseTm, req, own, cleaned, undo, hidden>>
      /\ pc[p] = "open" /\ pc' = [pc EXCEPT ![p] = "write"] /\ pc \in [Procs -> Labels]
  BY DEF OpenFile, Goto, history, SafetyInv, TypeInv, TypeOK
<1>3. \A q \in Procs : pc'[q] \in Saving <=> pc[q] \in Saving
  BY <1>2 DEF Saving
<1>4. \A q \in Procs : pc'[q] # "publish" /\ (pc'[q] # "idle" <=> pc[q] # "idle")
  BY <1>2 DEF SafetyInv, Sole
<1>5. Sole' /\ WriterSaves' /\ Pending' /\ Sweeping'
  BY <1>2, <1>3, <1>4 DEF SafetyInv, Sole, WriterSaves, Pending, Sweeping
<1>6. Committed(1)' = Committed(1)
  BY <1>2 DEF Committed
<1>7. pc'[p] = "write"
  BY <1>2
<1>8. Answers' /\ Durable'
  BY <1>2, <1>6, <1>7 DEF SafetyInv, Answers, Durable
<1>9. QED BY <1>1, <1>5, <1>8 DEF SafetyInv

(* After the end of a save by p no goroutine is saving.                     *)
LEMMA SaveEnds ==
    ASSUME OneManager, SafetyInv, NEW p \in Procs, pc[p] \in Saving, Leave(p),
           Len(heap') = 1, heap'[1].writer = Free, baseTm' = baseTm, rows' = rows
    PROVE  /\ Sole' /\ WriterSaves' /\ Pending' /\ Sweeping'
           /\ \A q \in Procs : pc'[q] \notin Saving
<1>1. \A q \in Procs \ {p} : pc[q] \notin Saving
  BY ProcsDiffer DEF SafetyInv, WriterSaves
<1>2. /\ pc'[p] \in {"idle", "unlock"}
      /\ \A q \in Procs \ {p} : pc'[q] = pc[q] /\ req'[q] = req[q] /\ own'[q] = own[q]
      /\ pc'[p] = "unlock" => req'[p] = req[p] /\ own'[p] = own[p]
      /\ cleaned'[p] \in {{}, cleaned[p]}
      /\ \A q \in Procs \ {p} : cleaned'[q] = cleaned[q]
  BY DEF Leave, Finish, Goto, SafetyInv, TypeInv, TypeOK
<1>3. \A q \in Procs : pc'[q] \notin Saving
  BY <1>1, <1>2 DEF Saving
<1>4. Sole'
  <2>1. \A q \in Procs : pc'[q] # "publish"
    BY <1>2 DEF SafetyInv, Sole
  <2>2. \A q \in Procs : pc'[q] # "idle" /\ req'[q].view = "copy" => own'[q] = 1
    BY <1>2 DEF SafetyInv, Sole, Saving
  <2>3. QED BY <2>1, <2>2 DEF SafetyInv, Sole
<1>5. WriterSaves' /\ Pending'
  BY <1>3, ProcsDiffer DEF WriterSaves, Pending
<1>6. Sweeping'
  BY <1>2 DEF SafetyInv, Sweeping
<1>7. QED BY <1>3, <1>4, <1>5, <1>6

LEMMA RollBackSafe ==
    ASSUME OneManager, SafetyInv, TypeInv', NEW p \in Procs, tm[p] = 1, RollBack(p),
           pc[p] = "open" \/ (pc[p] = "write" /\ "tear" \in Faults),
           UNCHANGED <<rows, disk, baseTm, hidden>>
    PROVE  SafetyInv'
<1>1. /\ heap'[1].recs = undo[p] /\ heap'[1].writer = Free /\ Len(heap') = 1
  BY TheManager DEF RollBack, Managers
<1>2. pc[p] \in Saving /\ Leave(p)
  BY DEF RollBack, Saving
<1>3. /\ Sole' /\ WriterSaves' /\ Pending' /\ Sweeping'
      /\ \A q \in Procs : pc'[q] \notin Saving
  BY <1>1, <1>2, SaveEnds
<1>4. heap[1].writer = p
  BY <1>2 DEF SafetyInv, WriterSaves
<1>5. Committed(1) = undo[p] /\ Committed(1)' = undo[p]
  BY <1>1, <1>4, ProcsDiffer DEF Committed
<1>6. Answers'
  BY <1>5 DEF SafetyInv, Answers
<1>7. ASSUME "tear" \notin Faults PROVE \A q \in Procs : pc[q] # "write"
  BY <1>7, <1>4, ProcsDiffer DEF SafetyInv, WriterSaves, Saving
<1>8. Durable'
  BY <1>5, <1>7 DEF SafetyInv, Durable
<1>9. QED BY <1>3, <1>6, <1>8 DEF SafetyInv

LEMMA WriteFileSafe ==
    ASSUME OneManager, SafetyInv, NEW p \in Procs, tm[p] = 1, WriteFile(p) PROVE SafetyInv'
<1>1. TypeInv'
  BY SaveTyped DEF Save, SafetyInv
<1>2. heap'[1].recs = heap[1].recs /\ heap'[1].writer = Free /\ Len(heap') = 1
  BY TheManager DEF WriteFile, Managers
<1>3. pc[p] \in Saving /\ Leave(p) /\ baseTm' = baseTm /\ rows' = rows
  BY DEF WriteFile, Saving
<1>4. /\ Sole' /\ WriterSaves' /\ Pending' /\ Sweeping'
      /\ \A q \in Procs : pc'[q] \notin Saving
  BY <1>2, <1>3, SaveEnds
<1>5. heap[1].writer = p
  BY <1>3 DEF SafetyInv, WriterSaves
<1>6. Committed(1) = undo[p] /\ Committed(1)' = heap[1].recs
  BY <1>2, <1>5, ProcsDiffer DEF Committed
<1>7. Slugs(undo[p]) \subseteq hidden /\ hidden \cap rows \subseteq Slugs(undo[p])
  BY <1>6 DEF SafetyInv, Answers
<1>8. Slugs(heap[1].recs) \subseteq hidden' /\ hidden' \cap rows \subseteq Slugs(heap[1].recs)
  <2>1. CASE req[p].op = "softdelete"
    BY <1>3, <1>7, <2>1 DEF WriteFile, SafetyInv, Pending
  <2>2. CASE req[p].op = "remove"
    BY <1>3, <1>7, <2>2 DEF WriteFile, SafetyInv, Pending
  <2>3. CASE req[p].op = "clean"
    <3>1. hidden' = hidden \ (cleaned[p] \ rows)
      BY <2>3 DEF WriteFile
    <3>2. cleaned[p] \cap rows = {}
      BY DEF SafetyInv, Sweeping
    <3>3. Slugs(heap[1].recs) = Slugs(undo[p]) \ cleaned[p]
      BY <1>3, <2>3 DEF SafetyInv, Pending
    <3>4. QED BY <1>7, <3>1, <3>2, <3>3
  <2>4. QED BY <1>3, <2>1, <2>2, <2>3 DEF SafetyInv, Pending
<1>9. Answers'
  BY <1>3, <1>6, <1>8 DEF Answers
<1>10. disk'[BaseKB] = heap[1].recs
  <2>1. heap[1].kb = BaseKB
    BY TheManager DEF Managers, OneManager
  <2>2. QED BY <2>1, KBsAssumption DEF WriteFile, Recs, SafetyInv, TypeInv, TypeOK
<1>11. Durable'
  BY <1>6, <1>10 DEF Durable
<1>12. QED BY <1>1, <1>4, <1>9, <1>11 DEF SafetyInv
LEMMA SaveSafe == ASSUME OneManager, SafetyInv, NEW p \in Procs, Save(p) PROVE SafetyInv'
<1>1. TypeInv'
  BY SaveTyped DEF SafetyInv
<1>2. tm[p] = 1
  BY DEF Save, OpenFile, OpenFails, WriteFile, WriteTears, SafetyInv, Sole, TypeInv, TypeOK
<1>3. CASE OpenFile(p)
  BY <1>3, OpenFileSafe
<1>4. CASE OpenFails(p)
  BY <1>1, <1>2, <1>4, RollBackSafe DEF OpenFails, history
<1>5. CASE WriteFile(p)
  BY <1>2, <1>5, WriteFileSafe
<1>6. CASE WriteTears(p)
  BY <1>1, <1>2, <1>6, RollBackSafe DEF WriteTears, Fault, history
<1>7. QED BY <1>3, <1>4, <1>5, <1>6 DEF Save

LEMMA BeginSafe ==
    ASSUME OneManager, SafetyInv, TypeInv', NEW p \in Procs, NEW r,
           NEW label \in {"lock", "getTM", "read"}, Start(p, r, label)
    PROVE  SafetyInv'
<1>1. /\ pc \in [Procs -> Labels] /\ req \in [Procs -> Requests]
      /\ own \in [Procs -> 0..Len(heap)] /\ baseTm = 1
  BY DEF SafetyInv, Sole, TypeInv, TypeOK
<1>2. /\ pc[p] = "idle" /\ pc'[p] = label
      /\ req'[p] = r /\ (r.view = "copy" => own'[p] = 1)
      /\ \A q \in Procs \ {p} : pc'[q] = pc[q] /\ req'[q] = req[q] /\ own'[q] = own[q]
  BY <1>1 DEF Start, Goto
<1>3. /\ UNCHANGED <<rows, heap, disk, baseTm, hidden, undo, cleaned>>
  BY DEF Start, storeVars
<1>4. cleaned'[p] \cap rows' = {}
  BY <1>3 DEF SafetyInv, Sweeping
<1>5. QED BY <1>2, <1>3, <1>4, QuietStep DEF Saving

LEMMA ArrivalSafe ==
    ASSUME OneManager, SafetyInv, NEW p \in Clients, NEW view \in Views, NEW d \in Docs,
           Begin(p, view, d)
    PROVE  SafetyInv'
<1>1. TypeInv' /\ p \in Procs
  BY ArrivalTyped DEF SafetyInv, Procs
<1>2. CASE \E ttl \in TTLs : BeginSoftDelete(p, view, d, ttl)
  BY <1>1, <1>2, BeginSafe DEF BeginSoftDelete
<1>3. CASE BeginRestore(p, view, d)
  BY <1>1, <1>3, BeginSafe DEF BeginRestore
<1>4. CASE BeginHardDelete(p, view, d)
  BY <1>1, <1>4, BeginSafe DEF BeginHardDelete
<1>5. CASE BeginClean(p, view, d)
  BY <1>1, <1>5, BeginSafe DEF BeginClean
<1>6. CASE BeginSearch(p, view, d)
  BY <1>1, <1>6, BeginSafe DEF BeginSearch
<1>7. QED BY <1>2, <1>3, <1>4, <1>5, <1>6 DEF Begin

LEMMA TickerSafe == ASSUME OneManager, SafetyInv, TickerFires PROVE SafetyInv'
<1>1. TypeInv' /\ Cleaner \in Procs
  BY TickerTyped DEF SafetyInv, Procs
<1>2. QED BY <1>1, BeginSafe DEF TickerFires

(* A step that ends p's request and touches nothing shared but Store.mu.    *)
LEMMA AnswerSafe ==
    ASSUME OneManager, SafetyInv, TypeInv', NEW p \in Procs, Finish(p), pc[p] \notin Saving,
           UNCHANGED <<rows, disk, heap, baseTm, hidden>>
    PROVE  SafetyInv'
<1>1. /\ pc'[p] = "idle" /\ cleaned'[p] = {}
      /\ \A q \in Procs \ {p} :
           /\ pc'[q] = pc[q] /\ req'[q] = req[q] /\ own'[q] = own[q]
           /\ undo'[q] = undo[q] /\ cleaned'[q] = cleaned[q]
  BY DEF Finish, Goto, SafetyInv, TypeInv, TypeOK
<1>2. QED BY <1>1, QuietStep DEF Saving

(* A step that moves p to another label and touches nothing that matters.   *)
LEMMA MoveSafe ==
    ASSUME OneManager, SafetyInv, TypeInv', NEW p \in Procs, NEW label, Goto(p, label),
           pc[p] \notin Saving \cup {"idle"}, label \notin Saving \cup {"publish"},
           UNCHANGED <<disk, heap, baseTm, hidden, own, undo, cleaned>>, rows' \subseteq rows,
           \/ req' = req /\ (label = "purge" => req[p].op = "clean")
           \/ req' = [req EXCEPT ![p].op = "remove"] /\ label # "purge"
    PROVE  SafetyInv'
<1>1. /\ pc'[p] = label /\ req'[p].view = req[p].view
      /\ label = "purge" => req'[p].op = "clean"
      /\ \A q \in Procs \ {p} : pc'[q] = pc[q] /\ req'[q] = req[q]
  BY DEF Goto, SafetyInv, TypeInv, TypeOK, Requests
<1>2. cleaned'[p] \cap rows' = {}
  BY DEF SafetyInv, Sweeping
<1>3. req[p].view = "copy" => own'[p] = 1
  BY DEF SafetyInv, Sole
<1>4. QED BY <1>1, <1>2, <1>3, QuietStep

LEMMA LockSafe ==
    ASSUME OneManager, SafetyInv, NEW p \in Procs, Lock(p) \/ Unlock(p) PROVE SafetyInv'
<1>1. TypeInv'
  BY LockTyped, UnlockTyped DEF SafetyInv
<1>2. CASE Lock(p)
  BY <1>1, <1>2, MoveSafe DEF Lock, history, Saving
<1>3. CASE Unlock(p)
  BY <1>1, <1>3, AnswerSafe DEF Unlock, history, Saving
<1>4. QED BY <1>2, <1>3

LEMMA ManagerSafe ==
    ASSUME OneManager, SafetyInv, NEW p \in Procs,
           GetManager(p) \/ LoadManager(p) \/ Publish(p)
    PROVE  SafetyInv'
<1>1. CASE GetManager(p)
  <2>1. TypeInv'
    BY <1>1, GetManagerTyped DEF SafetyInv
  <2>2. QED
    BY <1>1, <2>1, MoveSafe DEF GetManager, storeVars, history, Saving
<1>2. CASE LoadManager(p)
  <2>1. req[p] \in Requests
    BY DEF SafetyInv, TypeInv, TypeOK
  <2>2. req[p].view \in {"base", "copy"}
    BY <2>1 DEF Requests
  <2>3. Pointer(p) # 0
    BY <1>2, <2>2 DEF LoadManager, Pointer, SafetyInv, Sole
  <2>4. QED BY <1>2, <2>3 DEF LoadManager
<1>3. CASE Publish(p)
  BY <1>3 DEF Publish, SafetyInv, Sole
<1>4. QED BY <1>1, <1>2, <1>3

LEMMA UsesTheManager ==
    ASSUME SafetyInv, NEW p \in Procs, pc[p] \in {"use", "purge"}
    PROVE  tm[p] = 1
  BY DEF SafetyInv, Sole, TypeInv, TypeOK

LEMMA AddSafe ==
    ASSUME OneManager, SafetyInv, NEW p \in Procs, Add(p) \/ AddRefused(p) PROVE SafetyInv'
<1>1. TypeInv'
  BY AddTyped, AddRefusedTyped DEF SafetyInv
<1>2. CASE Add(p)
  <2> DEFINE new == Record(req[p].doc, ExpiryOf(EffectiveTTL(p)))
             rs == Recs(p) \cup {new}
  <2>1. /\ pc[p] = "use" /\ req[p].op = "softdelete" /\ heap[tm[p]].writer = Free
        /\ Mutate(p, rs) /\ hidden' = hidden
    BY <1>2 DEF Add, Uses
  <2>2. tm[p] = 1
    BY <2>1, UsesTheManager
  <2>3. new.slug = req[p].doc
    BY DEF Record
  <2> HIDE DEF new
  <2>4. Slugs(rs) = Slugs(heap[1].recs) \cup {req[p].doc}
    BY <2>2, <2>3 DEF Slugs, Recs
  <2> HIDE DEF rs
  <2>5. QED BY <1>1, <2>1, <2>2, <2>4, MutateSafe
<1>3. CASE AddRefused(p)
  BY <1>1, <1>3, MoveSafe DEF AddRefused, Uses, storeVars, history, Saving
<1>4. QED BY <1>2, <1>3

LEMMA RestoreSafe ==
    ASSUME OneManager, SafetyInv, NEW p \in Procs,
           CheckTombstone(p) \/ Remove(p) \/ RemoveNothing(p)
    PROVE  SafetyInv'
<1>1. TypeInv'
  BY CheckTombstoneTyped, RemoveTyped, RemoveNothingTyped DEF SafetyInv
<1>2. CASE CheckTombstone(p) /\ req[p].doc \in Slugs(Recs(p))
  BY <1>1, <1>2, MoveSafe DEF CheckTombstone, Uses, storeVars, history, Saving
<1>3. CASE CheckTombstone(p) /\ req[p].doc \notin Slugs(Recs(p))
  BY <1>1, <1>3, AnswerSafe DEF CheckTombstone, Uses, storeVars, history, Saving
<1>4. CASE Remove(p)
  <2>1. /\ pc[p] = "use" /\ req[p].op = "remove" /\ heap[tm[p]].writer = Free
        /\ Mutate(p, Drop(Recs(p), {req[p].doc})) /\ hidden' = hidden
    BY <1>4 DEF Remove, Uses, history
  <2>2. tm[p] = 1
    BY <2>1, UsesTheManager
  <2>3. Slugs(Drop(Recs(p), {req[p].doc})) = Slugs(heap[1].recs) \ {req[p].doc}
    BY <2>2 DEF Slugs, Drop, Recs
  <2>4. QED BY <1>1, <2>1, <2>2, <2>3, MutateSafe
<1>5. CASE RemoveNothing(p)
  BY <1>1, <1>5, AnswerSafe DEF RemoveNothing, Uses, storeVars, history, Saving
<1>6. QED BY <1>2, <1>3, <1>4, <1>5

LEMMA SweepSafe == ASSUME OneManager, SafetyInv, NEW p \in Procs, Sweep(p) PROVE SafetyInv'
<1>1. TypeInv'
  BY SweepTyped DEF SafetyInv
<1>2. CASE SelectExpired(p)
  BY <1>1, <1>2, MoveSafe DEF SelectExpired, Uses, storeVars, history, Saving
<1>3. ASSUME NEW d \in Docs, Purge(p, d) PROVE SafetyInv'
  <2>1. DocKB[d] = BaseKB /\ KBOf(req[p]) = BaseKB
    BY KBsAssumption DEF OneManager, KBOf, SafetyInv, TypeInv, TypeOK, Requests
  <2>2. rows' = rows \ {d}
    BY <1>3, <2>1 DEF Purge
  <2>3. /\ cleaned'[p] = cleaned[p] \cup {d} /\ pc' = pc /\ pc[p] = "purge"
        /\ \A q \in Procs \ {p} : cleaned'[q] = cleaned[q]
        /\ UNCHANGED <<heap, disk, baseTm, hidden, req, own, undo>>
    BY <1>3 DEF Purge, history, SafetyInv, TypeInv, TypeOK
  <2>4. cleaned'[p] \cap rows' = {} /\ req'[p].op = "clean"
    BY <2>2, <2>3 DEF SafetyInv, Sweeping
  <2>5. req'[p].view = "copy" => own'[p] = 1
    BY <2>3 DEF SafetyInv, Sole
  <2>6. rows' \subseteq rows /\ pc[p] \notin Saving /\ pc'[p] \notin Saving \cup {"publish"}
    BY <2>2, <2>3 DEF Saving
  <2>7. QED BY <1>1, <2>3, <2>4, <2>5, <2>6, QuietStep
<1>4. ASSUME NEW d \in Docs, PurgeFails(p, d) PROVE SafetyInv'
  <2>1. /\ UNCHANGED <<rows, heap, disk, baseTm, hidden, pc, req, own, undo, cleaned>>
        /\ pc[p] = "purge"
    BY <1>4 DEF PurgeFails, storeVars, history
  <2>2. /\ cleaned'[p] \cap rows' = {} /\ req'[p].op = "clean"
        /\ req'[p].view = "copy" => own'[p] = 1
    BY <2>1 DEF SafetyInv, Sweeping, Sole
  <2>3. QED BY <1>1, <2>1, <2>2, QuietStep DEF Saving
<1>5. CASE Cleanup(p)
  <2>1. /\ pc[p] = "purge" /\ heap[tm[p]].writer = Free
        /\ Mutate(p, Drop(Recs(p), cleaned[p])) /\ hidden' = hidden
        /\ req[p].op = "clean"
    BY <1>5 DEF Cleanup, history, SafetyInv, Sweeping
  <2>2. tm[p] = 1
    BY <2>1, UsesTheManager
  <2>3. Slugs(Drop(Recs(p), cleaned[p])) = Slugs(heap[1].recs) \ cleaned[p]
    BY <2>2 DEF Slugs, Drop, Recs
  <2>4. QED BY <1>1, <2>1, <2>2, <2>3, MutateSafe
<1>6. QED BY <1>2, <1>3, <1>4, <1>5 DEF Sweep

LEMMA HardDeleteSafe ==
    ASSUME OneManager, SafetyInv, NEW p \in Procs, RemoveDocument(p) PROVE SafetyInv'
<1>1. TypeInv'
  BY RemoveDocumentTyped DEF SafetyInv
<1>2. rows' \subseteq rows
  BY DEF RemoveDocument
<1>3. QED BY <1>1, <1>2, MoveSafe DEF RemoveDocument, history, Saving

LEMMA SearchSafe ==
    ASSUME OneManager, SafetyInv, NEW p \in Procs, SearchCheck(p) \/ SearchRead(p)
    PROVE  SafetyInv'
<1>1. TypeInv'
  BY SearchTyped DEF SafetyInv
<1>2. CASE SearchRead(p)
  BY <1>1, <1>2, AnswerSafe DEF SearchRead, storeVars, Saving
<1>3. CASE SearchCheck(p) /\ req[p].doc \in Slugs(Recs(p))
  BY <1>1, <1>3, AnswerSafe DEF SearchCheck, Uses, storeVars, Saving
<1>4. CASE SearchCheck(p) /\ req[p].doc \notin Slugs(Recs(p))
  BY <1>1, <1>4, MoveSafe DEF SearchCheck, Uses, storeVars, Saving
<1>5. QED BY <1>2, <1>3, <1>4

(* A crash that spares the file: what was committed is what is read back.   *)
LEMMA RestartSafe == ASSUME OneManager, SafetyInv, Restart PROVE SafetyInv'
<1>1. TypeInv'
  BY RestartTyped DEF SafetyInv
<1>2. "tear" \notin Faults /\ \A p \in Procs : pc[p] # "write"
  BY DEF Restart, Fault, OneManager
<1>3. disk[BaseKB] = Committed(1)
  BY <1>2 DEF SafetyInv, Durable
<1>4. /\ heap'[1].recs = disk[BaseKB] /\ heap'[1].writer = Free /\ Len(heap') = 1
      /\ baseTm' = 1 /\ UNCHANGED <<rows, disk, hidden>>
      /\ \A p \in Procs : pc'[p] = "idle" /\ cleaned'[p] = {}
  BY DEF Restart, OneManager, Manager
<1>5. Sole' /\ WriterSaves' /\ Pending' /\ Sweeping'
  BY <1>4, ProcsDiffer DEF Sole, WriterSaves, Pending, Sweeping, Saving
<1>6. Committed(1)' = disk[BaseKB]
  BY <1>4 DEF Committed
<1>7. Answers' /\ Durable'
  BY <1>3, <1>4, <1>6 DEF SafetyInv, Answers, Durable
<1>8. QED BY <1>1, <1>5, <1>7 DEF SafetyInv

LEMMA StillSafe == ASSUME SafetyInv, Tick \/ UNCHANGED vars PROVE SafetyInv'
<1>1. TypeInv'
  BY TickTyped, StutterTyped DEF SafetyInv
<1>2. UNCHANGED <<storeVars, taskVars, hidden>>
  BY DEF Tick, vars, history
<1>3. Committed(1)' = Committed(1)
  BY <1>2 DEF Committed, storeVars, taskVars
<1>4. QED
  BY <1>1, <1>2, <1>3
  DEF SafetyInv, Sole, WriterSaves, Pending, Sweeping, Answers, Durable, storeVars, taskVars

LEMMA StepSafe == ASSUME OneManager, SafetyInv, [Next]_vars PROVE SafetyInv'
<1>1. ASSUME NEW p \in Procs, Work(p) PROVE SafetyInv'
  BY <1>1, LockSafe, ManagerSafe, AddSafe, RestoreSafe, SweepSafe, SaveSafe, HardDeleteSafe,
     SearchSafe
  DEF Work
<1>2. QED
  BY <1>1, ArrivalSafe, TickerSafe, RestartSafe, StillSafe DEF Next

(* An answered soft delete stays on record until the document is restored   *)
(* or gone, and nothing else is on record.                                  *)
THEOREM DeletesStick ==
    ASSUME OneManager PROVE Spec => [](NoLostDelete /\ NoPhantomDelete)
<1>1. Init => SafetyInv
  BY InitSafe
<1>2. SafetyInv /\ [Next]_vars => SafetyInv'
  BY StepSafe
<1>3. SafetyInv => NoLostDelete /\ NoPhantomDelete
  BY AnswersImplied
<1>4. QED BY <1>1, <1>2, <1>3, PTL DEF Spec

(* Where no write is cut short, the tombstone file is what the manager of   *)
(* the next process has to read.                                            *)
THEOREM FileIsCurrent ==
    ASSUME OneManager, "tear" \notin Faults PROVE Spec => []DiskMatchesMemory
<1>1. Init => SafetyInv
  BY InitSafe
<1>2. SafetyInv /\ [Next]_vars => SafetyInv'
  BY StepSafe
<1>3. SafetyInv => DiskMatchesMemory
  BY DurableImplied
<1>4. QED BY <1>1, <1>2, <1>3, PTL DEF Spec

(* Nothing is on record that nobody asked to delete, or that was restored:  *)
(* neither a rolled-back cleanup nor a restart brings a tombstone back.     *)
COROLLARY RestoresStick ==
    ASSUME OneManager PROVE Spec => []NoPhantomDelete
<1>1. Spec => [](NoLostDelete /\ NoPhantomDelete)
  BY DeletesStick
<1>2. QED BY <1>1, PTL

-----------------------------------------------------------------------------
(* When a sweep purges, and what a search returns.                          *)

Exclusive == {"softdelete", "harddelete", "clean"}

(* These requests hold Store.mu from the lock to the answer.                *)
Locked(p) ==
    /\ req[p].op \in Exclusive /\ pc[p] \notin {"idle", "lock"} => mu = p
    /\ pc[p] \in {"lock", "remove", "purge", "unlock"} => req[p].op \in Exclusive
    /\ req[p].op = "softdelete" => req[p].ttl \in TTLs

(* Records end less than a second before the retention that was asked for,  *)
(* those a save may go back to as well, and what a sweep has selected is    *)
(* less than a second from due.                                             *)
Timed(recs) == \A r \in recs : due[r.slug] < r.expiry + Second /\ due[r.slug] > 0
Retained(p) ==
    /\ pc[p] \in Saving => Timed(undo[p])
    /\ pc[p] = "purge" => \A d \in todo[p] : due[d] > 0 /\ due[d] < now + Second

(* A search of a document that has stayed hidden passes a check that has    *)
(* the manager only when the document is gone.                              *)
Unseen(p) == p \in shadowed =>
    /\ req[p].op = "search" /\ req[p].doc \in hidden /\ pc[p] \in {"getTM", "use", "read"}
    /\ pc[p] = "read" /\ ~EngineWired => req[p].doc \notin rows

PromiseInv ==
    SafetyInv /\ Timed(heap[1].recs) /\ \A p \in Procs : Locked(p) /\ Retained(p) /\ Unseen(p)

(* No retention is as long as a time.Duration can be.                       *)
NoneWraps == \A ttl \in TTLs \cup {DefaultTTL} : Second * ttl < DurationLimit

LEMMA DurationIs ==
    ASSUME NEW ttl \in Nat, Second * ttl < DurationLimit PROVE Duration(ttl) = Second * ttl
<1> DEFINE ticks == Second * ttl
<1>1. DurationLimit \in Nat /\ DurationLimit > 0 /\ ticks \in Nat /\ ticks < DurationLimit
  BY BoundsAssumption
<1> HIDE DEF ticks
<1>2. (ticks + DurationLimit) % (2 * DurationLimit) = ticks + DurationLimit
  BY <1>1
<1>3. (ticks + DurationLimit) - DurationLimit = ticks
  BY <1>1
<1> QED BY <1>2, <1>3 DEF Duration, ticks

(* What truncation takes off is less than a second.                         *)
LEMMA Truncation ==
    ASSUME now \in Nat PROVE DeletedAt \in Int /\ DeletedAt <= now /\ now < DeletedAt + Second
  BY BoundsAssumption DEF DeletedAt

(* A step of p leaves the others where they are.                            *)
OthersStay(p) == \A q \in Procs \ {p} :
    pc'[q] = pc[q] /\ req'[q] = req[q] /\ undo'[q] = undo[q] /\ todo'[q] = todo[q]

LEMMA StepOfOne ==
    ASSUME PromiseInv, SafetyInv', NEW p \in Procs, OthersStay(p), UNCHANGED <<due, now>>,
           mu' = mu \/ mu \in {Free, p}, rows' \subseteq rows,
           \A s \in shadowed' \ {p} : s \in shadowed /\ req[s].doc \in hidden',
           Timed(heap[1].recs)', Locked(p)', Retained(p)', Unseen(p)'
    PROVE  PromiseInv'
<1>1. ASSUME NEW q \in Procs \ {p} PROVE Locked(q)'
  BY ProcsDiffer DEF PromiseInv, Locked, OthersStay
<1>2. ASSUME NEW q \in Procs \ {p} PROVE Retained(q)'
  BY DEF PromiseInv, Retained, OthersStay, Timed
<1>3. ASSUME NEW q \in Procs \ {p} PROVE Unseen(q)'
  BY DEF PromiseInv, Unseen, OthersStay
<1> QED BY <1>1, <1>2, <1>3 DEF PromiseInv

LEMMA InitPromises == ASSUME OneManager, Init PROVE PromiseInv
<1>1. SafetyInv
  BY InitSafe
<1>2. heap[1].recs = {}
  BY KBsAssumption DEF Init, OneManager, Manager
<1> QED BY <1>1, <1>2 DEF PromiseInv, Init, Locked, Retained, Unseen, Timed, NoRequest, Exclusive, Saving

LEMMA Functions ==
    ASSUME PromiseInv
    PROVE  /\ pc \in [Procs -> Labels] /\ req \in [Procs -> Requests]
           /\ todo \in [Procs -> SUBSET Docs] /\ undo \in [Procs -> SUBSET Records]
           /\ heap[1] \in Managers /\ shadowed \subseteq Procs /\ now \in Nat /\ due \in [Docs -> Nat]
           /\ Free \notin Procs
<1>1. heap[1] \in Managers /\ now \in 0 .. MaxTime
  BY TheManager DEF PromiseInv, SafetyInv, TypeInv, TypeOK
<1> QED BY <1>1, ProcsDiffer, BoundsAssumption DEF PromiseInv, SafetyInv, TypeInv, TypeOK

LEMMA BeginPromises ==
    ASSUME OneManager, PromiseInv, SafetyInv', NEW p \in Procs, NEW r,
           NEW label \in {"lock", "getTM", "read"}, Start(p, r, label),
           label = "lock" <=> r.op \in Exclusive, r.op = "softdelete" => r.ttl \in TTLs,
           \/ UNCHANGED shadowed
           \/ /\ r.op = "search" /\ label = IF EngineWired THEN "read" ELSE "getTM"
              /\ shadowed' = shadowed \cup ({p} \cap {q \in Procs : r.doc \in hidden})
    PROVE  PromiseInv'
<1>1. /\ pc[p] = "idle" /\ pc'[p] = label /\ req'[p] = r /\ OthersStay(p)
  BY Functions DEF Start, Goto, OthersStay
<1>2. UNCHANGED <<rows, heap, mu, due, now, hidden>>
  BY DEF Start, storeVars
<1>3. Timed(heap[1].recs)' /\ Locked(p)' /\ Retained(p)'
  BY <1>1, <1>2 DEF PromiseInv, Timed, Locked, Retained, Saving
<1>4. p \notin shadowed
  BY <1>1 DEF PromiseInv, Unseen
<1>5. Unseen(p)'
  BY <1>1, <1>2, <1>4 DEF Unseen
<1>6. \A s \in shadowed' \ {p} : s \in shadowed /\ req[s].doc \in hidden'
  BY <1>2, Functions DEF PromiseInv, Unseen
<1> QED BY <1>1, <1>2, <1>3, <1>5, <1>6, StepOfOne

LEMMA ArrivalPromises ==
    ASSUME OneManager, PromiseInv, NEW p \in Clients, NEW view \in Views, NEW d \in Docs,
           Begin(p, view, d)
    PROVE  PromiseInv'
<1>1. SafetyInv' /\ p \in Procs
  BY ArrivalSafe DEF PromiseInv, Procs
<1>2. CASE \E ttl \in TTLs : BeginSoftDelete(p, view, d, ttl)
  <2>1. PICK ttl \in TTLs : BeginSoftDelete(p, view, d, ttl)
    BY <1>2
  <2> QED BY <1>1, <2>1, BeginPromises DEF BeginSoftDelete, RequestOn, Exclusive
<1>3. CASE BeginRestore(p, view, d)
  BY <1>1, <1>3, BeginPromises DEF BeginRestore, RequestOn, Exclusive
<1>4. CASE BeginHardDelete(p, view, d)
  BY <1>1, <1>4, BeginPromises DEF BeginHardDelete, RequestOn, Exclusive
<1>5. CASE BeginClean(p, view, d)
  BY <1>1, <1>5, BeginPromises DEF BeginClean, RequestOn, Exclusive
<1>6. CASE BeginSearch(p, view, d)
  <2> DEFINE r == RequestOn("search", view, d, 0)  label == IF EngineWired THEN "read" ELSE "getTM"
  <2>1. Start(p, r, label) /\ r.op = "search" /\ r.doc = d
    BY <1>6 DEF BeginSearch, RequestOn
  <2>2. shadowed' = shadowed \cup ({p} \cap {q \in Procs : r.doc \in hidden})
    BY <1>1, <1>6, <2>1 DEF BeginSearch
  <2>3. label \in {"getTM", "read"} /\ label # "lock" /\ label = IF EngineWired THEN "read" ELSE "getTM"
    OBVIOUS
  <2> HIDE DEF r, label
  <2> QED BY <1>1, <2>1, <2>2, <2>3, BeginPromises DEF Exclusive
<1>7. QED BY <1>2, <1>3, <1>4, <1>5, <1>6 DEF Begin

LEMMA TickerPromises == ASSUME OneManager, PromiseInv, TickerFires PROVE PromiseInv'
<1>1. SafetyInv' /\ Cleaner \in Procs
  BY TickerSafe DEF PromiseInv, Procs
<1> QED BY <1>1, BeginPromises DEF TickerFires, NoRequest, Exclusive

(* The request of p ends, and what it held of Store.mu with it.             *)
LEMMA EndPromises ==
    ASSUME PromiseInv, SafetyInv', NEW p \in Procs, Finish(p), UNCHANGED <<due, now>>,
           mu' = mu \/ mu \in {Free, p}, rows' \subseteq rows,
           \A s \in shadowed' : s # p /\ s \in shadowed /\ req[s].doc \in hidden',
           Timed(heap[1].recs)'
    PROVE  PromiseInv'
<1>1. pc'[p] = "idle" /\ req'[p] = NoRequest /\ OthersStay(p)
  BY Functions DEF Finish, Goto, OthersStay
<1>2. Locked(p)' /\ Retained(p)' /\ Unseen(p)'
  BY <1>1 DEF Locked, Retained, Unseen, NoRequest, Saving
<1> QED BY <1>1, <1>2, StepOfOne

(* A step of p on its way that changes no record and ends no promise.       *)
LEMMA WayPromises ==
    ASSUME PromiseInv, SafetyInv', NEW p \in Procs, NEW label, Goto(p, label),
           UNCHANGED <<due, now, hidden, shadowed, undo>>, heap'[1].recs = heap[1].recs,
           mu' = mu \/ (mu = Free /\ mu' = p), rows' \subseteq rows,
           \A q \in Procs \ {p} : todo'[q] = todo[q] /\ req'[q] = req[q],
           req'[p] = req[p] \/ req'[p] = [req[p] EXCEPT !.op = "remove"],
           label \in Labels \ (Saving \cup {"idle", "lock", "read"}),
           label = "purge" => \A d \in todo'[p] : due[d] > 0 /\ due[d] < now + Second,
           label \in {"remove", "purge", "unlock"} => req'[p].op \in Exclusive,
           req'[p].op \in Exclusive => mu' = p,
           p \in shadowed => req'[p] = req[p] /\ label \in {"getTM", "use"}
    PROVE  PromiseInv'
<1>1. pc'[p] = label /\ OthersStay(p)
  BY Functions DEF Goto, OthersStay
<1>2. Timed(heap[1].recs)'
  BY DEF PromiseInv, Timed
<1>3. req[p] \in Requests /\ ([req[p] EXCEPT !.op = "remove"]).op = "remove"
  BY Functions DEF Requests
<1>4. Locked(p)'
  BY <1>1, <1>3 DEF PromiseInv, Locked
<1>5. Retained(p)'
  BY <1>1 DEF Retained
<1>6. Unseen(p)'
  BY <1>1 DEF PromiseInv, Unseen
<1>7. \A s \in shadowed' \ {p} : s \in shadowed /\ req[s].doc \in hidden'
  BY Functions DEF PromiseInv, Unseen
<1> QED BY <1>1, <1>2, <1>4, <1>5, <1>6, <1>7, StepOfOne

LEMMA LockPromises ==
    ASSUME OneManager, PromiseInv, NEW p \in Procs, Lock(p) \/ Unlock(p) PROVE PromiseInv'
<1>1. SafetyInv'
  BY LockSafe DEF PromiseInv
<1>2. CASE Lock(p)
  <2>1. p \notin shadowed /\ req[p].op \in Exclusive
    BY <1>2 DEF PromiseInv, Lock, Unseen, Locked
  <2> DEFINE label == IF req[p].op = "harddelete" THEN "remove" ELSE "getTM"
  <2>2. /\ Goto(p, label) /\ label \in {"remove", "getTM"} /\ mu = Free /\ mu' = p
        /\ UNCHANGED <<due, now, hidden, shadowed, undo, heap, rows, todo, req>>
    BY <1>2 DEF Lock, history
  <2> HIDE DEF label
  <2> QED BY <1>1, <2>1, <2>2, WayPromises DEF Labels, Saving
<1>3. CASE Unlock(p)
  <2>1. mu = p /\ p \notin shadowed
    BY <1>3 DEF PromiseInv, Unlock, Locked, Unseen
  <2>2. /\ Finish(p) /\ UNCHANGED <<due, now, rows, heap, hidden, shadowed>>
    BY <1>3 DEF Unlock, history
  <2>3. Timed(heap[1].recs)' /\ \A s \in shadowed' : s # p /\ s \in shadowed /\ req[s].doc \in hidden'
    BY <2>1, <2>2, Functions DEF PromiseInv, Timed, Unseen
  <2> QED BY <1>1, <2>1, <2>2, <2>3, EndPromises
<1> QED BY <1>2, <1>3

LEMMA ManagerPromises ==
    ASSUME OneManager, PromiseInv, NEW p \in Procs, GetManager(p) \/ LoadManager(p) \/ Publish(p)
    PROVE  PromiseInv'
<1>1. SafetyInv'
  BY ManagerSafe DEF PromiseInv
<1>2. CASE GetManager(p)
  <2>1. /\ Goto(p, "use") /\ pc[p] = "getTM"
        /\ UNCHANGED <<due, now, hidden, shadowed, undo, heap, rows, todo, req, mu>>
    BY <1>2 DEF GetManager, storeVars, history
  <2>2. req[p].op \in Exclusive => mu = p
    BY <2>1 DEF PromiseInv, Locked
  <2> QED BY <1>1, <2>1, <2>2, WayPromises DEF Labels, Saving
<1>3. CASE LoadManager(p)
  <2>1. req[p].view \in {"base", "copy"}
    BY Functions DEF Requests
  <2>2. Pointer(p) # 0
    BY <1>3, <2>1 DEF LoadManager, Pointer, PromiseInv, SafetyInv, Sole
  <2> QED BY <1>3, <2>2 DEF LoadManager
<1>4. CASE Publish(p)
  BY <1>4 DEF Publish, PromiseInv, SafetyInv, Sole
<1> QED BY <1>2, <1>3, <1>4

(* The start of a save that adds no record.                                 *)
LEMMA DropPromises ==
    ASSUME PromiseInv, SafetyInv', NEW p \in Procs, NEW S, tm[p] = 1, p \notin shadowed,
           Mutate(p, Drop(Recs(p), S)), UNCHANGED history, req[p].op \in Exclusive => mu = p
    PROVE  PromiseInv'
<1>1. heap \in Seq(Managers) /\ heap[1] \in Managers /\ Len(heap) = 1
  BY TheManager DEF PromiseInv
<1>2. heap'[1].recs = Drop(heap[1].recs, S)
  BY <1>1 DEF Mutate, Managers, Recs
<1>3. Timed(heap[1].recs)'
  BY <1>2 DEF PromiseInv, Timed, Drop, history
<1>4. /\ pc'[p] = "open" /\ undo'[p] = heap[1].recs /\ OthersStay(p) /\ req' = req
      /\ UNCHANGED <<due, now, mu, rows, shadowed, hidden>>
  BY Functions DEF Mutate, Goto, OthersStay, Recs, history
<1>5. Locked(p)' /\ Retained(p)' /\ Unseen(p)'
  BY <1>4 DEF PromiseInv, Locked, Retained, Unseen, Timed
<1>6. \A s \in shadowed' \ {p} : s \in shadowed /\ req[s].doc \in hidden'
  BY <1>4, Functions DEF PromiseInv, Unseen
<1> QED BY <1>3, <1>4, <1>5, <1>6, StepOfOne

(* A soft delete gives its document the only record whose end it has set.   *)
LEMMA AddPromises ==
    ASSUME OneManager, NoneWraps, PromiseInv, NEW p \in Procs, Add(p) PROVE PromiseInv'
<1> DEFINE d == req[p].doc  ttl == EffectiveTTL(p)  rs == Recs(p) \cup {Record(d, ExpiryOf(ttl))}
<1>1. SafetyInv'
  BY AddSafe DEF PromiseInv
<1>2. /\ pc[p] = "use" /\ req[p].op = "softdelete" /\ heap[tm[p]].writer = Free
      /\ d \notin Slugs(Recs(p)) /\ Mutate(p, rs) /\ UNCHANGED <<hidden, shadowed>>
      /\ due' = [due EXCEPT ![d] = now + Second * ttl]
  BY DEF Add, Uses
<1>3. tm[p] = 1 /\ d \in Docs
  BY <1>2, UsesTheManager DEF PromiseInv, SafetyInv, TypeInv, NamesDocument
<1>4. /\ ttl \in Nat \ {0} /\ Second * ttl < DurationLimit
      /\ Second * ttl \in Nat /\ Second * ttl > 0
  <2>1. ttl \in Nat \ {0} /\ Second * ttl < DurationLimit
    BY <1>2, TTLAssumption DEF PromiseInv, Locked, EffectiveTTL, NoneWraps
  <2> HIDE DEF ttl
  <2> QED BY <2>1, BoundsAssumption
<1>5. now \in Nat /\ now + Second * ttl < ExpiryOf(ttl) + Second /\ now + Second * ttl > 0
  <2>1. now \in Nat /\ DeletedAt \in Int /\ now < DeletedAt + Second /\ Second \in Nat
    BY Functions, Truncation, BoundsAssumption
  <2>2. ExpiryOf(ttl) = DeletedAt + Second * ttl
    BY <1>4, DurationIs DEF ExpiryOf
  <2> HIDE DEF ttl
  <2> QED BY <1>4, <2>1, <2>2
<1>6. due'[d] = now + Second * ttl /\ \A e \in Docs \ {d} : due'[e] = due[e]
  BY <1>2, <1>3, Functions
<1> HIDE DEF ttl, d
<1>7. \A r \in Recs(p) : r.slug \in Docs \ {d}
  <2>1. Recs(p) \in SUBSET Records
    BY <1>3, Functions DEF Recs, Managers
  <2> QED BY <1>2, <2>1 DEF Records, Slugs
<1>8. /\ heap'[1].recs = rs
  <2>1. heap \in Seq(Managers) /\ heap[1] \in Managers /\ Len(heap) = 1
    BY TheManager DEF PromiseInv
  <2> QED BY <1>2, <1>3, <2>1 DEF Mutate, Managers, Recs
<1>9. \A r \in Recs(p) : due'[r.slug] < r.expiry + Second /\ due'[r.slug] > 0
  BY <1>3, <1>6, <1>7 DEF PromiseInv, Timed, Recs
<1>10. Timed(heap[1].recs)'
  BY <1>5, <1>6, <1>8, <1>9 DEF Timed, Record
<1>11. /\ pc'[p] = "open" /\ undo'[p] = Recs(p) /\ OthersStay(p) /\ req' = req /\ mu' = mu /\ now' = now
       /\ rows' = rows
  BY <1>2, Functions DEF Mutate, Goto, OthersStay
<1>12. mu = p /\ p \notin shadowed
  BY <1>2, Functions DEF PromiseInv, Locked, Unseen, Exclusive
<1>13. \A q \in Procs \ {p} : pc[q] \notin Saving /\ pc[q] # "purge"
  <2>1. heap[1].writer = Free
    BY <1>2, <1>3
  <2>2. \A q \in Procs : pc[q] \notin Saving
    BY <2>1, Functions DEF PromiseInv, SafetyInv, WriterSaves
  <2> QED BY <1>12, <2>2 DEF PromiseInv, SafetyInv, Sweeping, Locked, Exclusive
<1>14. \A q \in Procs : Locked(q)'
  BY <1>2, <1>11 DEF PromiseInv, Locked, OthersStay
<1>15. \A q \in Procs \ {p} : Retained(q)'
  BY <1>11, <1>13 DEF Retained, OthersStay
<1>16. Retained(p)'
  BY <1>9, <1>11 DEF Retained, Timed
<1>17. \A q \in Procs : Unseen(q)'
  BY <1>2, <1>11, <1>12 DEF PromiseInv, Unseen, OthersStay
<1> QED BY <1>1, <1>10, <1>14, <1>15, <1>16, <1>17 DEF PromiseInv

LEMMA RefusalPromises ==
    ASSUME OneManager, PromiseInv, NEW p \in Procs, AddRefused(p) PROVE PromiseInv'
<1>1. SafetyInv'
  BY AddSafe DEF PromiseInv
<1>2. /\ Goto(p, "unlock") /\ pc[p] = "use" /\ req[p].op = "softdelete"
      /\ UNCHANGED <<due, now, hidden, shadowed, undo, heap, rows, todo, req, mu>>
  BY DEF AddRefused, Uses, storeVars, history
<1>3. mu = p /\ p \notin shadowed
  BY <1>2 DEF PromiseInv, Locked, Unseen, Exclusive
<1> QED BY <1>1, <1>2, <1>3, WayPromises DEF Labels, Saving, Exclusive

LEMMA RestorePromises ==
    ASSUME OneManager, PromiseInv, NEW p \in Procs, CheckTombstone(p) \/ Remove(p) \/ RemoveNothing(p)
    PROVE  PromiseInv'
<1>1. SafetyInv'
  BY RestoreSafe DEF PromiseInv
<1>2. p \notin shadowed /\ req[p].op \notin Exclusive
  BY DEF PromiseInv, Unseen, CheckTombstone, Remove, RemoveNothing, Uses, Exclusive
<1>3. ASSUME Finish(p), UNCHANGED <<storeVars, now, history>> PROVE PromiseInv'
  <2>1. Timed(heap[1].recs)' /\ \A s \in shadowed' : s # p /\ s \in shadowed /\ req[s].doc \in hidden'
    BY <1>2, <1>3, Functions DEF PromiseInv, Timed, Unseen, storeVars, history
  <2> QED BY <1>1, <1>3, <2>1, EndPromises DEF storeVars, history
<1>4. CASE CheckTombstone(p) /\ req[p].doc \in Slugs(Recs(p))
  <2>1. /\ Goto(p, "getTM") /\ req' = [req EXCEPT ![p].op = "remove"]
        /\ UNCHANGED <<due, now, hidden, shadowed, undo, heap, rows, todo, mu>>
    BY <1>4 DEF CheckTombstone, storeVars, history
  <2>2. /\ req'[p] = [req[p] EXCEPT !.op = "remove"] /\ \A q \in Procs \ {p} : req'[q] = req[q]
        /\ ([req[p] EXCEPT !.op = "remove"]).op = "remove"
    BY <2>1, Functions DEF Requests
  <2> QED BY <1>1, <1>2, <2>1, <2>2, WayPromises DEF Labels, Saving, Exclusive
<1>5. CASE CheckTombstone(p) /\ req[p].doc \notin Slugs(Recs(p))
  BY <1>3, <1>5 DEF CheckTombstone
<1>6. CASE Remove(p)
  <2>1. pc[p] = "use" /\ Mutate(p, Drop(Recs(p), {req[p].doc})) /\ UNCHANGED history
    BY <1>6 DEF Remove, Uses
  <2>2. tm[p] = 1
    BY <2>1, UsesTheManager DEF PromiseInv
  <2> QED BY <1>1, <1>2, <2>1, <2>2, DropPromises
<1>7. CASE RemoveNothing(p)
  BY <1>3, <1>7 DEF RemoveNothing
<1> QED BY <1>4, <1>5, <1>6, <1>7

LEMMA SweepPromises == ASSUME OneManager, PromiseInv, NEW p \in Procs, Sweep(p) PROVE PromiseInv'
<1>1. SafetyInv'
  BY SweepSafe DEF PromiseInv
<1>2. /\ pc[p] \in {"use", "purge"} /\ req[p].op = "clean"
  BY DEF Sweep, SelectExpired, Purge, PurgeFails, Cleanup, Uses, PromiseInv, SafetyInv, Sweeping
<1>3. mu = p /\ p \notin shadowed /\ tm[p] = 1
  BY <1>2, UsesTheManager DEF PromiseInv, Locked, Unseen, Exclusive
<1>4. CASE SelectExpired(p)
  <2> DEFINE label == IF todo'[p] = {} THEN "unlock" ELSE "purge"
  <2>1. /\ Goto(p, label) /\ label \in {"unlock", "purge"}
        /\ todo' = [todo EXCEPT ![p] = Slugs({r \in Recs(p) : Expired(r)})]
        /\ UNCHANGED <<due, now, hidden, shadowed, undo, heap, rows, req, mu>>
    BY <1>4 DEF SelectExpired, storeVars, history
  <2>2. \A d \in Slugs({r \in Recs(p) : Expired(r)}) : due[d] > 0 /\ due[d] < now + Second
    <3>1. /\ now \in Nat /\ Second \in Nat /\ Recs(p) \in SUBSET Records
          /\ \A d \in Docs : due[d] \in Nat
      BY <1>3, Functions, BoundsAssumption, RecsTyped DEF PromiseInv, SafetyInv
    <3>2. \A r \in Recs(p) : r.expiry \in Int /\ r.slug \in Docs
      BY <3>1 DEF Records
    <3>3. \A r \in Recs(p) : Expired(r) => due[r.slug] > 0 /\ due[r.slug] < now + Second
      BY <1>3, <3>1, <3>2 DEF Expired, Recs, PromiseInv, Timed
    <3> QED BY <3>3 DEF Slugs
  <2>3. \A d \in todo'[p] : due[d] > 0 /\ due[d] < now + Second
    BY <2>1, <2>2, Functions
  <2>4. \A q \in Procs \ {p} : todo'[q] = todo[q] /\ req'[q] = req[q]
    BY <2>1, Functions
  <2> HIDE DEF label
  <2> QED BY <1>1, <1>2, <1>3, <2>1, <2>3, <2>4, WayPromises DEF Labels, Saving, Exclusive
<1>5. ASSUME NEW d \in Docs, Purge(p, d) \/ PurgeFails(p, d) PROVE PromiseInv'
  <2>1. /\ pc[p] = "purge" /\ pc' = pc /\ Goto(p, "purge") /\ rows' \subseteq rows
        /\ todo' = [todo EXCEPT ![p] = @ \ {d}]
        /\ UNCHANGED <<due, now, hidden, shadowed, undo, heap, req, mu>>
    BY <1>5, Functions DEF Purge, PurgeFails, storeVars, history, Goto
  <2>2. /\ \A q \in Procs \ {p} : todo'[q] = todo[q] /\ req'[q] = req[q]
        /\ \A e \in todo'[p] : due[e] > 0 /\ due[e] < now + Second
    BY <2>1, Functions DEF PromiseInv, Retained
  <2> QED BY <1>1, <1>2, <1>3, <2>1, <2>2, WayPromises DEF Labels, Saving, Exclusive
<1>6. CASE Cleanup(p)
  BY <1>1, <1>3, <1>6, DropPromises DEF Cleanup
<1> QED BY <1>4, <1>5, <1>6 DEF Sweep

(* However a save ends, what is on record is what was, or what it put there. *)
LEMMA SavePromises == ASSUME OneManager, PromiseInv, NEW p \in Procs, Save(p) PROVE PromiseInv'
<1>1. SafetyInv'
  BY SaveSafe DEF PromiseInv
<1>2. /\ pc[p] \in Saving /\ req[p].op \in {"softdelete", "remove", "clean"} /\ tm[p] = 1
      /\ p \notin shadowed /\ (req[p].op \in Exclusive => mu = p) /\ Timed(undo[p])
  <2>1. pc[p] \in Saving
    BY DEF Save, OpenFile, OpenFails, WriteFile, WriteTears, Saving
  <2> QED BY <2>1 DEF PromiseInv, SafetyInv, Pending, Unseen, Locked, Retained, Saving, Sole, TypeInv, TypeOK
<1>3. heap \in Seq(Managers) /\ heap[1] \in Managers /\ Len(heap) = 1
  BY TheManager DEF PromiseInv
<1>4. ASSUME Leave(p), UNCHANGED <<due, now, mu, rows>>, Timed(heap'[1].recs),
             \A s \in shadowed' : s \in shadowed /\ req[s].doc \in hidden'
      PROVE  PromiseInv'
  <2>1. Timed(heap[1].recs)' /\ \A s \in shadowed' : s # p
    BY <1>2, <1>4 DEF Timed
  <2>2. CASE req[p].op = "remove"
    BY <1>1, <1>4, <2>1, <2>2, EndPromises DEF Leave
  <2>3. CASE req[p].op # "remove"
    <3>1. /\ pc'[p] = "unlock" /\ OthersStay(p) /\ UNCHANGED <<req, undo, todo>>
      BY <1>4, <2>3, Functions DEF Leave, Goto, OthersStay
    <3>2. Locked(p)' /\ Retained(p)' /\ Unseen(p)'
      BY <1>2, <1>4, <2>1, <2>3, <3>1 DEF PromiseInv, Locked, Retained, Unseen, Exclusive, Saving
    <3> QED BY <1>1, <1>4, <2>1, <3>1, <3>2, StepOfOne
  <2> QED BY <2>2, <2>3
<1>5. CASE OpenFile(p)
  <2>1. /\ pc'[p] = "write" /\ OthersStay(p)
        /\ UNCHANGED <<due, now, mu, rows, heap, req, undo, todo, hidden, shadowed>>
    BY <1>5, Functions DEF OpenFile, Goto, OthersStay, history
  <2>2. Timed(heap[1].recs)' /\ Locked(p)' /\ Retained(p)' /\ Unseen(p)'
    BY <1>2, <2>1 DEF PromiseInv, Timed, Locked, Retained, Unseen
  <2>3. \A s \in shadowed' \ {p} : s \in shadowed /\ req[s].doc \in hidden'
    BY <2>1, Functions DEF PromiseInv, Unseen
  <2> QED BY <1>1, <2>1, <2>2, <2>3, StepOfOne
<1>6. CASE OpenFails(p) \/ WriteTears(p)
  <2>1. RollBack(p) /\ UNCHANGED <<due, now, mu, rows, hidden, shadowed>>
    BY <1>6 DEF OpenFails, WriteTears, history
  <2>2. heap'[1].recs = undo[p]
    BY <1>2, <1>3, <2>1 DEF RollBack, Managers
  <2>3. \A s \in shadowed' : s \in shadowed /\ req[s].doc \in hidden'
    BY <2>1, Functions DEF PromiseInv, Unseen
  <2> QED BY <1>2, <1>4, <2>1, <2>2, <2>3 DEF RollBack
<1>7. CASE WriteFile(p)
  <2>1. heap'[1].recs = heap[1].recs
    BY <1>2, <1>3, <1>7 DEF WriteFile, Managers
  <2> QED BY <1>4, <1>7, <2>1 DEF WriteFile, PromiseInv
<1> QED BY <1>5, <1>6, <1>7 DEF Save

LEMMA RemovalPromises == ASSUME OneManager, PromiseInv, NEW p \in Procs, RemoveDocument(p) PROVE PromiseInv'
<1>1. SafetyInv'
  BY HardDeleteSafe DEF PromiseInv
<1>2. /\ Goto(p, "unlock") /\ pc[p] = "remove" /\ rows' \subseteq rows
      /\ UNCHANGED <<due, now, hidden, shadowed, undo, heap, todo, req, mu>>
  BY DEF RemoveDocument, history
<1>3. req[p].op \in Exclusive /\ mu = p /\ p \notin shadowed
  BY <1>2 DEF PromiseInv, Locked, Unseen
<1> QED BY <1>1, <1>2, <1>3, WayPromises DEF Labels, Saving

(* The check of a search sees every document that is hidden and there.      *)
LEMMA SearchPromises ==
    ASSUME OneManager, PromiseInv, NEW p \in Procs, SearchCheck(p) \/ SearchRead(p) PROVE PromiseInv'
<1>1. SafetyInv'
  BY SearchSafe DEF PromiseInv
<1>2. ASSUME Finish(p), shadowed' = shadowed \ {p}, UNCHANGED <<storeVars, now, hidden, due>>
      PROVE  PromiseInv'
  <2>1. Timed(heap[1].recs)' /\ \A s \in shadowed' : s # p /\ s \in shadowed /\ req[s].doc \in hidden'
    BY <1>2, Functions DEF PromiseInv, Timed, Unseen, storeVars
  <2> QED BY <1>1, <1>2, <2>1, EndPromises DEF storeVars
<1>3. CASE SearchRead(p)
  BY <1>2, <1>3 DEF SearchRead
<1>4. CASE SearchCheck(p) /\ req[p].doc \in Slugs(Recs(p))
  BY <1>2, <1>4 DEF SearchCheck
<1>5. CASE SearchCheck(p) /\ req[p].doc \notin Slugs(Recs(p))
  <2>1. /\ pc[p] = "use" /\ req[p].op = "search" /\ heap[tm[p]].writer = Free
        /\ Goto(p, "read") /\ UNCHANGED <<storeVars, req, todo, undo, shadowed, now, hidden, due>>
    BY <1>5 DEF SearchCheck, Uses
  <2>2. tm[p] = 1
    BY <2>1, UsesTheManager DEF PromiseInv
  <2>3. hidden \cap rows \subseteq Slugs(Recs(p))
    BY <2>1, <2>2 DEF PromiseInv, SafetyInv, Answers, Committed, Recs
  <2>4. pc'[p] = "read" /\ OthersStay(p) /\ UNCHANGED <<heap, mu, rows>>
    BY <2>1, Functions DEF Goto, OthersStay, storeVars
  <2>5. Timed(heap[1].recs)' /\ Locked(p)' /\ Retained(p)'
    BY <2>1, <2>4 DEF PromiseInv, Timed, Locked, Retained, Saving, Exclusive
  <2>6. Unseen(p)'
    BY <1>5, <2>1, <2>3, <2>4 DEF PromiseInv, Unseen
  <2>7. \A s \in shadowed' \ {p} : s \in shadowed /\ req[s].doc \in hidden'
    BY <2>1, Functions DEF PromiseInv, Unseen
  <2> QED BY <1>1, <2>1, <2>4, <2>5, <2>6, <2>7, StepOfOne
<1> QED BY <1>3, <1>4, <1>5

(* The process ends: the file has the records, and nobody is on the way.    *)
LEMMA RestartPromises == ASSUME OneManager, PromiseInv, Restart PROVE PromiseInv'
<1>1. SafetyInv'
  BY RestartSafe DEF PromiseInv
<1>2. "tear" \notin Faults /\ \A p \in Procs : pc[p] # "write"
  BY DEF Restart, Fault, OneManager
<1>3. heap'[1].recs = Committed(1)
  BY <1>2 DEF PromiseInv, SafetyInv, Durable, Restart, OneManager, Manager
<1>4. Timed(Committed(1))
  <2>1. CASE heap[1].writer = Free
    BY <2>1 DEF Committed, PromiseInv
  <2>2. CASE heap[1].writer # Free
    <3>1. heap[1].writer \in Procs /\ pc[heap[1].writer] \in Saving
      BY <2>2, Functions DEF Managers, PromiseInv, SafetyInv, WriterSaves
    <3> QED BY <2>2, <3>1 DEF Committed, PromiseInv, Retained
  <2> QED BY <2>1, <2>2
<1>5. Timed(heap[1].recs)'
  BY <1>3, <1>4 DEF Timed, Restart
<1>6. \A p \in Procs : pc'[p] = "idle" /\ req'[p] = NoRequest /\ shadowed' = {}
  BY DEF Restart
<1>7. \A p \in Procs : Locked(p)' /\ Retained(p)' /\ Unseen(p)'
  BY <1>6 DEF Locked, Retained, Unseen, NoRequest, Saving, Exclusive
<1> QED BY <1>1, <1>5, <1>7 DEF PromiseInv

LEMMA StillPromises == ASSUME PromiseInv, Tick \/ UNCHANGED vars PROVE PromiseInv'
<1>1. SafetyInv'
  BY StillSafe DEF PromiseInv
<1>2. UNCHANGED <<storeVars, taskVars, history>> /\ now \in Nat /\ (now' = now \/ now' = now + 1)
  BY Functions DEF Tick, vars
<1>3. Timed(heap[1].recs)' /\ \A p \in Procs : Locked(p)' /\ Unseen(p)'
  BY <1>2 DEF PromiseInv, Timed, Locked, Unseen, storeVars, taskVars, history
<1>4. \A p \in Procs : Retained(p)'
  <2>1. Second \in Nat /\ \A p \in Procs : \A d \in todo[p] : due[d] \in Nat
    BY Functions, BoundsAssumption
  <2>2. \A p \in Procs : pc[p] = "purge" => \A d \in todo[p] : due[d] > 0 /\ due[d] < now' + Second
    BY <1>2, <2>1 DEF PromiseInv, Retained
  <2> QED BY <1>2, <2>2 DEF PromiseInv, Retained, Timed, storeVars, taskVars, history
<1> QED BY <1>1, <1>3, <1>4 DEF PromiseInv

LEMMA StepPromises ==
    ASSUME OneManager, NoneWraps, PromiseInv, [Next]_vars PROVE PromiseInv'
<1>1. ASSUME NEW p \in Procs, Work(p) PROVE PromiseInv'
  BY <1>1, LockPromises, ManagerPromises, AddPromises, RefusalPromises, RestorePromises, SweepPromises,
     SavePromises, RemovalPromises, SearchPromises
  DEF Work
<1>2. QED
  BY <1>1, ArrivalPromises, TickerPromises, RestartPromises, StillPromises DEF Next

(* What a sweep purges in a step is one document that it had selected.      *)
LEMMA PurgedIsDue ==
    ASSUME PromiseInv, Next, NEW p \in Procs, NEW d \in Purged(p) PROVE due[d] > 0 /\ due[d] < now + Second
<1>1. pc[p] = "purge" /\ todo'[p] # todo[p] /\ d \in rows \ rows'
  BY DEF Purged
<1>2. PICK q \in Procs : Purge(q, d) \/ RemoveDocument(q)
  <2>1. PICK q \in Procs : rows' # rows /\ Work(q)
    BY <1>1 DEF Next, Begin, BeginSoftDelete, BeginRestore, BeginHardDelete, BeginClean, BeginSearch,
       Start, TickerFires, Tick, Restart, storeVars
  <2>2. (\E e \in Docs : Purge(q, e)) \/ RemoveDocument(q)
    BY <2>1 DEF Work, Lock, Unlock, GetManager, LoadManager, Publish, Add, AddRefused, CheckTombstone,
       Remove, RemoveNothing, Mutate, Sweep, SelectExpired, PurgeFails, Cleanup, Save, OpenFile,
       OpenFails, WriteFile, WriteTears, SearchCheck, SearchRead, storeVars
  <2>3. CASE RemoveDocument(q)
    BY <2>3
  <2>4. ASSUME NEW e \in Docs, Purge(q, e) PROVE Purge(q, d)
    BY <1>1, <2>4 DEF Purge
  <2> QED BY <2>2, <2>3, <2>4
<1>3. Purge(q, d) /\ q = p
  BY <1>1, <1>2, Functions DEF RemoveDocument, Purge
<1> QED BY <1>1, <1>3 DEF Purge, PromiseInv, Retained

(* A sweep of one manager's server removes a document less than a second    *)
(* before the retention of its last soft delete has passed, or later, but   *)
(* never earlier, whatever restores, failed saves and restarts lie in       *)
(* between. The second is lost where DeletedAt is stored without fractions. *)
THEOREM RetentionIsKept ==
    ASSUME OneManager, NoneWraps PROVE Spec => TTLRespected
<1>1. Init => PromiseInv
  BY InitPromises
<1>2. PromiseInv /\ [Next]_vars => PromiseInv'
  BY StepPromises
<1>3. PromiseInv /\ [Next]_vars => [\A p \in Procs : \A d \in Purged(p) : due[d] > 0 /\ due[d] < now + Second]_vars
  BY PurgedIsDue
<1> QED BY <1>1, <1>2, <1>3, PTL DEF Spec, TTLRespected

(* A search answers nothing of a document that has been soft-deleted since  *)
(* before it began, where the check has the manager (~EngineWired).         *)
THEOREM DeletedStaysHidden ==
    ASSUME OneManager, NoneWraps, ~EngineWired PROVE Spec => HiddenFromSearch
<1> DEFINE Hides == \A p \in shadowed : pc[p] = "read" /\ pc'[p] = "idle" => req[p].doc \notin rows
<1>1. Init => PromiseInv
  BY InitPromises
<1>2. PromiseInv /\ [Next]_vars => PromiseInv'
  BY StepPromises
<1>3. PromiseInv => \A p \in shadowed : pc[p] = "read" => req[p].doc \notin rows
  BY Functions DEF PromiseInv, Unseen
<1>4. PromiseInv /\ [Next]_vars => [Hides]_vars
  BY <1>3
<1> QED BY <1>1, <1>2, <1>4, PTL DEF Spec, HiddenFromSearch
=============================================================================
