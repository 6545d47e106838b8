---------------------------- MODULE LibrarySafety ----------------------------
(***************************************************************************)
(* Proofs about four parts of the library that share no state: the memory  *)
(* cache implements a cache that may forget (MemCache, LossyCache), an     *)
(* exhausted task stays ended (TaskRecord), uploads and appends keep       *)
(* chunks and index in step (Versions), and a text that is cut into chunks *)
(* is covered by them (Chunker).                                           *)
(***************************************************************************)
EXTENDS Versions, TaskRecord, MemCache, Chunker, FiniteSetTheorems, SequenceTheorems, WellFoundedInduction,
        TLAPS

-----------------------------------------------------------------------------
(* MemCache.                                                                *)

(* What the proof needs of the state: the map holds elements and the clock  *)
(* runs in the naturals.                                                    *)
MapOK ==
    /\ DOMAIN items \subseteq Keys
    /\ items = [k \in DOMAIN items |-> items[k]]
    /\ \A k \in DOMAIN items : items[k] \in [value : Values, expiry : Nat]
    /\ now \in Nat \ {0}

USE DEF Lossy!Call, Call

(* The empty cache.                                                         *)
LEMMA MapOKInit == MemInit => MapOK
  BY DEF MemInit, MapOK

(* An expiry never lies in the past when it is set.                         *)
LEMMA ExpiryAhead ==
    ASSUME MapOK, NEW ttl \in TTLs
    PROVE Expiry(ttl) \in Nat /\ (Expiry(ttl) = 0 \/ now <= Expiry(ttl))
  BY NumbersAssumption DEF Expiry, MapOK

(* Every call leaves the map well formed.                                   *)
LEMMA MapOKNext == MapOK /\ [MemNext]_memVars => MapOK'
<1> SUFFICES ASSUME MapOK, [MemNext]_memVars PROVE MapOK'
  OBVIOUS
<1>1. ASSUME NEW S, Drop(S), UNCHANGED now PROVE MapOK'
  <2>1. items' = [k \in DOMAIN items \ S |-> items[k]]
    BY <1>1 DEF Drop, Restrict
  <2> QED BY <2>1, <1>1 DEF MapOK
<1>2. ASSUME NEW k \in Keys, NEW v \in Values, NEW ttl \in TTLs, NEW X \in SUBSET DOMAIN items,
             items' = Holding(k, v, ttl, X), UNCHANGED now
      PROVE MapOK'
  BY <1>2, ExpiryAhead DEF Holding, MapOK
<1>3. CASE \E k \in Keys : Get(k)
  BY <1>1, <1>3 DEF Get, MapOK
<1>4. CASE \E k \in Keys, v \in Values, ttl \in TTLs : Set(k, v, ttl)
  BY <1>2, <1>4 DEF Set
<1>5. CASE \E S \in Patterns : Delete(S)
  BY <1>1, <1>5 DEF Delete
<1>6. CASE Tick
  BY <1>6, NumbersAssumption DEF Tick, MapOK
<1>7. CASE UNCHANGED memVars
  BY <1>7 DEF memVars, MapOK
<1> QED BY <1>3, <1>4, <1>5, <1>6, <1>7 DEF MemNext

-----------------------------------------------------------------------------
(* A call that takes elements out of the map forgets their keys.            *)
LEMMA DropForgets ==
    ASSUME MapOK, NEW S \in SUBSET Keys, Drop(S), UNCHANGED now
    PROVE stored' = Lossy!Forgetting(S)
  BY DEF Drop, Restrict, stored, MapOK, Lossy!Forgetting

(* A Get of a live entry answers with what is stored, any other with a      *)
(* miss; neither changes what a later one answers.                          *)
LEMMA GetAsks ==
    ASSUME MapOK, NEW k \in Keys, Get(k)
    PROVE Lossy!Ask(k)
<1>1. CASE Found(k)
  <2>1. stored' = stored /\ stored[k] = items[k].value
    BY <1>1 DEF Get, stored, Found, Expired, MapOK
  <2> QED BY <1>1, <2>1 DEF Get, Lossy!Ask
<1>2. CASE ~Found(k)
  <2>1. stored[k] = None
    BY <1>2 DEF stored, Found, Expired, MapOK
  <2>2. stored' = Lossy!Forgetting({k})
    BY <1>2, DropForgets DEF Get
  <2>3. stored' = stored
    BY <2>1, <2>2 DEF Lossy!Forgetting, stored
  <2> QED BY <1>2, <2>1, <2>3 DEF Get, Lossy!Ask
<1> QED BY <1>1, <1>2

(* A Set forgets what it evicts, and what it stores has not expired.        *)
LEMMA SetPuts ==
    ASSUME MapOK, NEW k \in Keys, NEW v \in Values, NEW ttl \in TTLs, Set(k, v, ttl)
    PROVE Lossy!Put(k, v)
<1>1. PICK X \in SUBSET DOMAIN items : items' = Holding(k, v, ttl, X)
  BY DEF Set
<1>2. stored' = [Lossy!Forgetting(Keys \ X) EXCEPT ![k] = v]
  <2>1. \A x \in Keys : stored'[x] = IF x = k THEN v ELSE IF x \in X THEN stored[x] ELSE None
    BY <1>1, ExpiryAhead DEF Set, Holding, stored, MapOK
  <2> QED BY <2>1 DEF stored, Lossy!Forgetting
<1> QED BY <1>2 DEF Lossy!Put, Set

(* The passage of time only lets entries expire.                            *)
LEMMA TickForgets ==
    ASSUME MapOK, Tick
    PROVE Lossy!Forget
<1> DEFINE S == {k \in Keys : stored'[k] = None}
<1>1. \A k \in Keys : stored'[k] \in {None, stored[k]}
  BY NumbersAssumption DEF Tick, stored, MapOK
<1>2. stored' = Lossy!Forgetting(S)
  BY <1>1 DEF Lossy!Forgetting, stored
<1> QED BY <1>2 DEF Lossy!Forget, Tick

(* A new cache stores nothing.                                              *)
LEMMA MapsInit == MemInit => Lossy!LossyInit
  BY DEF MemInit, Lossy!LossyInit, stored

(* Every step is one of the abstract cache, or changes nothing of it.       *)
LEMMA MapsNext ==
    MapOK /\ [MemNext]_memVars => [Lossy!LossyNext]_<<stored, last>>
<1> SUFFICES ASSUME MapOK, [MemNext]_memVars PROVE Lossy!LossyNext \/ UNCHANGED <<stored, last>>
  OBVIOUS
<1>1. CASE \E k \in Keys : Get(k)
  BY <1>1, GetAsks DEF Lossy!LossyNext
<1>2. CASE \E k \in Keys, v \in Values, ttl \in TTLs : Set(k, v, ttl)
  BY <1>2, SetPuts DEF Lossy!LossyNext
<1>3. CASE \E S \in Patterns : Delete(S)
  <2>1. PICK S \in SUBSET Keys : Delete(S)
    BY <1>3, KeysAssumption
  <2>2. stored' = Lossy!Forgetting(S)
    BY <2>1, DropForgets DEF Delete
  <2>3. Lossy!Remove(S)
    BY <2>1, <2>2 DEF Delete, Lossy!Remove
  <2> QED BY <2>3 DEF Lossy!LossyNext
<1>4. CASE Tick
  BY <1>4, TickForgets DEF Lossy!LossyNext
<1>5. CASE UNCHANGED memVars
  BY <1>5 DEF memVars, stored
<1> QED BY <1>1, <1>2, <1>3, <1>4, <1>5 DEF MemNext

(* Whatever expires or is evicted, a Get of the memory cache answers with   *)
(* the value last set or with a miss, and nothing deleted comes back        *)
(* (memory.go, Get, Set, Delete, DeletePattern, Close).                     *)
THEOREM CacheImplemented == MemSpec => ImplementsCache
<1>1. MemInit => MapOK /\ Lossy!LossyInit
  BY MapOKInit, MapsInit
<1>2. MapOK /\ [MemNext]_memVars => MapOK' /\ [Lossy!LossyNext]_<<stored, last>>
  BY MapOKNext, MapsNext
<1> QED BY <1>1, <1>2, PTL DEF MemSpec, ImplementsCache, Lossy!LossySpec

-----------------------------------------------------------------------------
(* TaskRecord.                                                              *)

(* Attempts are counted up to the limit; a limit is a number.               *)
AttemptsWithin ==
    /\ attempt \in Nat /\ maxAttempts \in Nat
    /\ maxAttempts > 0 => attempt <= maxAttempts

(* A task that an error has ended for good is one no transition starts from.*)
LEMMA EndedStays == ASSUME NEW target, state = "failed_permanent" PROVE ~CanTransitionTo(target)
  BY DEF CanTransitionTo, Forward

LEMMA RecordStep ==
    ASSUME AttemptsWithin, [RecordNext]_recordVars
    PROVE  /\ AttemptsWithin'
           /\ Exhausted /\ state = "failed_permanent" => state' = "failed_permanent"
<1>1. ASSUME NEW target, Transition(target) PROVE /\ AttemptsWithin' /\ state # "failed_permanent"
  BY <1>1, EndedStays DEF Transition, AttemptsWithin
<1>2. CASE RecordError
  BY <1>2 DEF RecordError, AttemptsWithin
<1>3. CASE Retry
  BY <1>3 DEF Retry, Exhausted, AttemptsWithin
<1>4. CASE Checkpoint
  BY <1>4 DEF Checkpoint, AttemptsWithin
<1>5. CASE UNCHANGED recordVars
  BY <1>5 DEF recordVars, AttemptsWithin
<1> QED BY <1>1, <1>2, <1>3, <1>4, <1>5 DEF RecordNext, Resume

(* Whatever is called on the record of a task whose attempts are used up    *)
(* and that is failed for good, it stays so, and the counter of attempts    *)
(* never exceeds the limit (state_machine.go, RecordError, Retry,           *)
(* Transition).  The counter is of Retry's calls, not of all tries.         *)
THEOREM ExhaustedStaysEnded == RecordSpec => ExhaustedIsFinal
<1>1. NewTaskRecord => AttemptsWithin
  BY LimitsAssumption DEF NewTaskRecord, AttemptsWithin
<1>2. AttemptsWithin /\ [RecordNext]_recordVars
        => /\ AttemptsWithin'
           /\ [/\ maxAttempts > 0 => attempt' <= maxAttempts
               /\ Exhausted /\ state = "failed_permanent" => state' = "failed_permanent"]_recordVars
  <2> SUFFICES ASSUME AttemptsWithin, [RecordNext]_recordVars
               PROVE  /\ AttemptsWithin'
                      /\ maxAttempts > 0 => attempt' <= maxAttempts
                      /\ Exhausted /\ state = "failed_permanent" => state' = "failed_permanent"
    OBVIOUS
  <2>1. AttemptsWithin' /\ (Exhausted /\ state = "failed_permanent" => state' = "failed_permanent")
    BY RecordStep
  <2>2. UNCHANGED maxAttempts
    BY DEF RecordNext, Resume, Transition, RecordError, Retry, Checkpoint, recordVars
  <2> QED BY <2>1, <2>2 DEF AttemptsWithin
<1> QED BY <1>1, <1>2, PTL DEF RecordSpec, ExhaustedIsFinal

-----------------------------------------------------------------------------
(* Versions.                                                                *)

Entry == [id : Nat \cup Contents, of : Contents]
Statements == {"none", "list", "chunk", "readindex", "index", "manifest", "meta"}
Calls == [op : {"none", "plain", "atomic", "append"}, at : Statements, new : Seq(Contents),
          done : Nat, start : Nat, known : Nat, base : Seq(Entry)]

VersionsTypes ==
    /\ DOMAIN chunks \subseteq Nat \cup Contents /\ IsFiniteSet(DOMAIN chunks)
    /\ \A id \in DOMAIN chunks : chunks[id] \in Contents
    /\ index \in Seq(Entry) /\ manifest \in Seq(Contents)
    /\ count \in Nat \cup {-1} /\ faults \in Nat
    /\ call \in Calls
    /\ text \in Seq(Contents) /\ whole \in BOOLEAN /\ blind \in BOOLEAN

(* A call is at one of its own statements, with its chunks written or not.  *)
CallInv ==
    /\ call.at # "none" => call.op # "none" /\ call.at \in DOMAIN Following[call.op]
    /\ call.at \in {"list", "chunk"} => call.done < Len(call.new)
    /\ call.at = "list" => call.done = 0 /\ call.start = 0
    /\ call.at \notin {"none", "list", "chunk"} => call.done = Len(call.new)
    /\ blind => call.op = "append" /\ call.at # "list" /\ ~whole
    /\ text = << >> => call.op = "none"
    /\ call.op = "none" =>
          /\ call.at = "none" /\ DOMAIN chunks = {} /\ index = << >> /\ manifest = << >> /\ count = -1
          /\ call.new = << >> /\ text = << >>

(* A content addressed chunk holds what its name says, in the index too.    *)
NamesInv ==
    /\ \A id \in DOMAIN chunks \cap Contents : chunks[id] = id
    /\ \A i \in DOMAIN index : index[i].id \in Contents => index[i].of = index[i].id
    /\ \A i \in DOMAIN call.base : call.base[i].id \in Contents => call.base[i].of = call.base[i].id

(* Numbers are given out in order, so that the number of chunks is free.    *)
NumbersInv ==
    /\ \A id \in DOMAIN chunks \cap Nat : id < Cardinality(DOMAIN chunks)
    /\ call.at = "chunk" /\ call.op # "atomic" =>
          IF blind THEN call.start = 0 /\ 0 .. call.done - 1 \subseteq DOMAIN chunks
          ELSE Cardinality(DOMAIN chunks) = call.start + call.done

(* The statements before the index is written.                              *)
Unindexed ==
    call.at \in {"list", "chunk", "readindex", "index"} \/ (call.op = "plain" /\ call.at = "meta")

Of(entries) == [i \in DOMAIN entries |-> entries[i].of]

(* While nothing has failed: the index has the chunks of the calls before,  *)
(* then those of the call under way too; each chunk written so far is under *)
(* the identifier the index gives it.                                       *)
WholeInv == whole =>
    /\ text = IF Unindexed THEN Of(index) \o call.new ELSE Of(index)
    /\ \A i \in DOMAIN index : index[i].id \in DOMAIN chunks /\ chunks[index[i].id] = index[i].of
    /\ Unindexed => call.known = Len(index)
    /\ call.at \in {"none", "list"} /\ text # << >> => count = Len(index)
    /\ call.at \notin {"none", "list"} =>
          /\ call.op # "atomic" => call.start = call.known
          /\ \A i \in 1 .. call.done : ChunkID(i) \in DOMAIN chunks /\ chunks[ChunkID(i)] = call.new[i]
    /\ Cardinality(DOMAIN chunks) =
          IF Unindexed THEN Len(index) + call.done ELSE Len(index)
    /\ call.at = "index" => call.base = index
    /\ call.op \in {"plain", "atomic"} => IF Unindexed THEN index = << >> ELSE TRUE
    /\ call.op \in {"plain", "atomic"} => call.base = << >>
    /\ call.op = "atomic" /\ call.at = "chunk" =>
          IsInjective(call.new) /\ DOMAIN chunks = {call.new[i] : i \in 1 .. call.done}
    /\ call.at \in {"manifest", "meta"} => call.known + Len(call.new) = Len(text)
    /\ call.op = "plain" /\ call.at = "index" => count = Len(call.new)

VersionsInv == VersionsTypes /\ CallInv /\ NamesInv /\ NumbersInv /\ WholeInv

-----------------------------------------------------------------------------
LEMMA OfEntries ==
    ASSUME NEW s \in Seq(Entry)
    PROVE  Of(s) \in Seq(Contents) /\ Len(Of(s)) = Len(s) /\ \A i \in 1 .. Len(s) : Of(s)[i] = s[i].of
<1>1. DOMAIN s = 1 .. Len(s) /\ Len(s) \in Nat /\ \A i \in 1 .. Len(s) : s[i] \in Entry
  OBVIOUS
<1>2. Of(s) = [i \in 1 .. Len(s) |-> s[i].of]
  BY <1>1 DEF Of
<1>3. \A i \in 1 .. Len(s) : s[i].of \in Contents
  BY <1>1 DEF Entry
<1> QED BY <1>1, <1>2, <1>3

LEMMA OfEmpty == Of(<< >>) = << >>
<1>1. << >> \in Seq(Entry)
  OBVIOUS
<1>2. Of(<< >>) \in Seq(Contents) /\ Len(Of(<< >>)) = 0
  BY <1>1, OfEntries
<1> QED BY <1>2, EmptySeq

(* Entries for the chunks of t behind others: what is read is t behind them.*)
LEMMA OfConcat ==
    ASSUME NEW s \in Seq(Entry), NEW t \in Seq(Contents), NEW e \in Seq(Entry),
           Len(e) = Len(t), \A i \in 1 .. Len(t) : e[i].of = t[i]
    PROVE  Of(s \o e) = Of(s) \o t
<1>1. s \o e \in Seq(Entry) /\ Len(s \o e) = Len(s) + Len(t)
  OBVIOUS
<1>0. Of(s) \in Seq(Contents) /\ Len(Of(s)) = Len(s) /\ Len(s) \in Nat /\ Len(t) \in Nat
  BY OfEntries
<1>2. Of(s) \o t \in Seq(Contents) /\ Len(Of(s) \o t) = Len(s) + Len(t)
  BY <1>0
<1>3. Of(s \o e) \in Seq(Contents) /\ Len(Of(s \o e)) = Len(s) + Len(t)
  BY <1>1, OfEntries
<1>4. ASSUME NEW i \in 1 .. Len(s) + Len(t) PROVE Of(s \o e)[i] = (Of(s) \o t)[i]
  <2>1. Of(s \o e)[i] = (s \o e)[i].of
    BY <1>1, OfEntries
  <2>2. CASE i <= Len(s)
    <3>1. (s \o e)[i] = s[i] /\ Of(s)[i] = s[i].of /\ Len(Of(s)) = Len(s) /\ Of(s) \in Seq(Contents)
      BY <2>2, OfEntries
    <3>2. (Of(s) \o t)[i] = Of(s)[i]
      BY <2>2, <3>1
    <3> QED BY <2>1, <3>1, <3>2
  <2>3. CASE i > Len(s)
    <3>1. (s \o e)[i] = e[i - Len(s)] /\ Len(Of(s)) = Len(s) /\ Of(s) \in Seq(Contents)
      BY <2>3, OfEntries
    <3>2. (Of(s) \o t)[i] = t[i - Len(s)]
      BY <2>3, <3>1
    <3>3. i - Len(s) \in 1 .. Len(t)
      BY <2>3
    <3> QED BY <2>1, <3>1, <3>2, <3>3
  <2> QED BY <1>0, <2>2, <2>3
<1> QED BY <1>2, <1>3, <1>4, SeqEqual

(* The statements in their order.                                           *)
LEMMA Orders ==
    /\ DOMAIN Following["plain"] = {"chunk", "meta", "index"}
    /\ DOMAIN Following["atomic"] = {"chunk", "index", "manifest", "meta"}
    /\ DOMAIN Following["append"] = {"list", "chunk", "readindex", "index", "meta"}
    /\ Following["plain"]["chunk"] = "meta" /\ Following["plain"]["meta"] = "index"
    /\ Following["plain"]["index"] = "none"
    /\ Following["atomic"]["chunk"] = "index" /\ Following["atomic"]["index"] = "manifest"
    /\ Following["atomic"]["manifest"] = "meta" /\ Following["atomic"]["meta"] = "none"
    /\ Following["append"]["list"] = "chunk" /\ Following["append"]["chunk"] = "readindex"
    /\ Following["append"]["readindex"] = "index" /\ Following["append"]["index"] = "meta"
    /\ Following["append"]["meta"] = "none"
  BY DEF Following, PlainUpload, AtomicUpload, AppendDocumentText

LEMMA VersionsStart == VersionsInit => VersionsInv
<1>1. SUFFICES ASSUME VersionsInit PROVE VersionsInv
  OBVIOUS
<1>2. DOMAIN chunks = {} /\ IsFiniteSet({}) /\ Cardinality({}) = 0
  BY <1>1, FS_EmptySet DEF VersionsInit
<1>3. VersionsTypes
  <2>1. << >> \in Seq(Contents) /\ << >> \in Seq(Entry)
    OBVIOUS
  <2>2. NoCall \in Calls
    BY <2>1 DEF NoCall, Statements, Calls
  <2> QED BY <1>1, <1>2, <2>1, <2>2 DEF VersionsInit, VersionsTypes
<1>4. CallInv /\ NamesInv /\ NumbersInv
  BY <1>1, <1>2 DEF VersionsInit, NoCall, CallInv, NamesInv, NumbersInv
<1>5. WholeInv
  BY <1>1, <1>2, OfEmpty DEF VersionsInit, NoCall, WholeInv, Unindexed
<1> QED BY <1>3, <1>4, <1>5 DEF VersionsInv

LEMMA BeginIs ==
    ASSUME NEW op, NEW t, BeginCall(op, t)
    PROVE  call' = [op |-> op, at |-> IF op = "append" THEN "list" ELSE "chunk", new |-> t, done |-> 0,
                    start |-> 0, known |-> IF count < 0 THEN 0 ELSE count, base |-> << >>]
  BY DEF BeginCall, NoCall

LEMMA TextIsSeq ==
    ASSUME NEW t \in Texts PROVE t \in Seq(Contents) /\ t # << >> /\ Len(t) \in Nat \ {0}
  BY TextsAssumption, EmptySeq

LEMMA BeginUploadStep ==
    ASSUME VersionsInv, NEW t \in Texts, BeginUpload(t) \/ BeginAtomicUpload(t) PROVE VersionsInv'
<1>1. /\ t \in Seq(Contents) /\ t # << >> /\ Len(t) \in Nat \ {0}
      /\ text = << >> /\ text' = t /\ UNCHANGED <<chunks, index, manifest, count, faults>>
      /\ blind' = FALSE /\ call.op = "none"
  <2>1. t \in Seq(Contents) /\ t # << >> /\ Len(t) \in Nat \ {0} /\ << >> \o t = t
    BY TextIsSeq
  <2> QED BY <2>1 DEF BeginUpload, BeginAtomicUpload, BeginCall, VersionsInv, CallInv
<1>2. DOMAIN chunks = {} /\ index = << >> /\ count = -1 /\ Cardinality({}) = 0
  BY <1>1, FS_EmptySet DEF VersionsInv, CallInv
<1>3. PICK op \in {"plain", "atomic"} :
         call' = [op |-> op, at |-> "chunk", new |-> t, done |-> 0, start |-> 0, known |-> 0, base |-> << >>]
  <2>1. CASE BeginUpload(t)
    <3>1. BeginCall("plain", t)
      BY <2>1 DEF BeginUpload
    <3> QED BY <1>2, <3>1, BeginIs
  <2>2. CASE BeginAtomicUpload(t)
    <3>1. BeginCall("atomic", t)
      BY <2>2 DEF BeginAtomicUpload
    <3> QED BY <1>2, <3>1, BeginIs
  <2> QED BY <2>1, <2>2
<1>4. whole' \in BOOLEAN /\ (call'.op = "atomic" /\ whole' => IsInjective(t))
  <2>1. CASE BeginUpload(t)
    <3>1. BeginCall("plain", t) /\ UNCHANGED whole
      BY <2>1 DEF BeginUpload
    <3> QED BY <3>1, BeginIs DEF VersionsInv, VersionsTypes
  <2>2. CASE BeginAtomicUpload(t)
    BY <2>2 DEF BeginAtomicUpload, IsInjective
  <2> QED BY <2>1, <2>2
<1>5. VersionsTypes'
  <2>1. call' \in Calls
    BY <1>1, <1>3 DEF Calls, Statements
  <2> QED BY <1>1, <1>4, <2>1 DEF VersionsInv, VersionsTypes
<1>6. CallInv'
  BY <1>1, <1>3, Orders DEF CallInv
<1>7. NamesInv' /\ NumbersInv'
  BY <1>1, <1>2, <1>3 DEF NamesInv, NumbersInv
<1>8. Of(index') \o t = t
  BY <1>1, <1>2, OfEmpty
<1>9. WholeInv'
  BY <1>1, <1>2, <1>3, <1>4, <1>8 DEF WholeInv, Unindexed
<1> QED BY <1>5, <1>6, <1>7, <1>9 DEF VersionsInv

LEMMA BeginAppendStep ==
    ASSUME VersionsInv, NEW t \in Texts, BeginAppend(t) PROVE VersionsInv'
<1>1. /\ t \in Seq(Contents) /\ t # << >> /\ Len(t) \in Nat \ {0}
      /\ UNCHANGED <<chunks, index, manifest, count, faults, whole>>
      /\ text' = text \o t /\ blind' = FALSE /\ call.at = "none" /\ count \in Nat
  BY TextIsSeq DEF BeginAppend, BeginCall, VersionsInv, VersionsTypes
<1>2. call' = [op |-> "append", at |-> "list", new |-> t, done |-> 0, start |-> 0, known |-> count, base |-> << >>]
  <2>1. BeginCall("append", t)
    BY DEF BeginAppend
  <2> QED BY <1>1, <2>1, BeginIs
<1>3. call.op # "none" /\ text # << >> /\ text \in Seq(Contents)
  BY <1>1 DEF VersionsInv, CallInv, VersionsTypes
<1>4. text' \in Seq(Contents) /\ text' # << >>
  <2>1. Len(text \o t) = Len(text) + Len(t) /\ Len(text) \in Nat /\ text \o t \in Seq(Contents)
    BY <1>1, <1>3
  <2> QED BY <1>1, <2>1, EmptySeq
<1>5. VersionsTypes'
  <2>1. call' \in Calls
    BY <1>1, <1>2 DEF Calls, Statements
  <2> QED BY <1>1, <1>4, <2>1 DEF VersionsInv, VersionsTypes
<1>6. CallInv'
  BY <1>1, <1>2, <1>4, Orders DEF CallInv
<1>7. NamesInv' /\ NumbersInv'
  BY <1>1, <1>2 DEF VersionsInv, NamesInv, NumbersInv
<1>8. WholeInv'
  <2>1. SUFFICES ASSUME whole PROVE WholeInv'
    BY <1>1 DEF WholeInv
  <2>2. text = Of(index) /\ count = Len(index) /\ Cardinality(DOMAIN chunks) = Len(index)
        /\ \A i \in DOMAIN index : index[i].id \in DOMAIN chunks /\ chunks[index[i].id] = index[i].of
    BY <1>1, <1>3, <2>1 DEF VersionsInv, WholeInv, Unindexed
  <2>3. Len(index) \in Nat
    BY DEF VersionsInv, VersionsTypes
  <2> QED BY <1>1, <1>2, <2>2, <2>3 DEF WholeInv, Unindexed
<1> QED BY <1>5, <1>6, <1>7, <1>8 DEF VersionsInv

LEMMA ListStep ==
    ASSUME VersionsInv, ListChunkIDs \/ ListFails PROVE VersionsInv'
<1>1. /\ call.at = "list" /\ call.op = "append" /\ call.done = 0 /\ call.start = 0 /\ ~blind
      /\ call.done < Len(call.new) /\ call \in Calls /\ text # << >>
      /\ UNCHANGED <<chunks, index, manifest, count, text>>
  BY Orders DEF ListChunkIDs, ListFails, VersionsInv, CallInv, VersionsTypes, Calls
<1>2. Cardinality(DOMAIN chunks) \in Nat
  BY FS_CardinalityType DEF VersionsInv, VersionsTypes
<1>3. Continued = [call EXCEPT !.at = "chunk"]
  BY <1>1, Orders DEF Continued
<1>4. PICK n \in Nat :
         /\ call' = [call EXCEPT !.at = "chunk", !.start = n]
         /\ \/ UNCHANGED <<whole, blind, faults>> /\ n = Cardinality(DOMAIN chunks)
            \/ ~whole' /\ blind' = TRUE /\ whole' \in BOOLEAN /\ faults' \in Nat /\ n = 0
  <2>1. CASE ListChunkIDs
    BY <1>2, <1>3, <2>1 DEF ListChunkIDs, Calls
  <2>2. CASE ListFails
    <3>1. call' = [call EXCEPT !.at = "chunk", !.start = 0]
      BY <1>1, <1>3, <2>2 DEF ListFails, Calls
    <3>2. whole' = FALSE /\ blind' = TRUE
      BY <2>2 DEF ListFails
    <3>3. faults' \in Nat
      BY <2>2 DEF ListFails, StatementFails, VersionsInv, VersionsTypes
    <3> QED BY <3>1, <3>2, <3>3
  <2> QED BY <2>1, <2>2
<1>5. call' \in Calls /\ UNCHANGED <<call.op, call.new, call.known, call.base, call.done>>
      /\ call'.at = "chunk" /\ call'.start = n
  BY <1>1, <1>4 DEF Calls, Statements
<1>6. VersionsTypes'
  BY <1>1, <1>4, <1>5 DEF VersionsInv, VersionsTypes
<1>7. CallInv'
  BY <1>1, <1>4, <1>5, Orders DEF CallInv
<1>8. NamesInv'
  BY <1>1, <1>5 DEF VersionsInv, NamesInv
<1>9. NumbersInv'
  BY <1>1, <1>2, <1>4, <1>5 DEF VersionsInv, NumbersInv
<1>10. WholeInv'
  <2>1. SUFFICES ASSUME whole' PROVE WholeInv'
    BY DEF WholeInv
  <2>2. whole /\ n = Cardinality(DOMAIN chunks)
    BY <1>4, <2>1
  <2>3. /\ text = Of(index) \o call.new /\ call.known = Len(index)
        /\ Cardinality(DOMAIN chunks) = Len(index) + 0 /\ Len(index) \in Nat
        /\ \A i \in DOMAIN index : index[i].id \in DOMAIN chunks /\ chunks[index[i].id] = index[i].of
    BY <1>1, <2>2 DEF VersionsInv, VersionsTypes, WholeInv, Unindexed
  <2> QED BY <1>1, <1>5, <2>2, <2>3 DEF WholeInv, Unindexed
<1> QED BY <1>6, <1>7, <1>8, <1>9, <1>10 DEF VersionsInv

(* The text is as long as the index and what it does not have yet.          *)
LEMMA TextLength ==
    ASSUME VersionsInv, whole
    PROVE  Len(text) = IF Unindexed THEN Len(index) + Len(call.new) ELSE Len(index)
<1>1. Of(index) \in Seq(Contents) /\ Len(Of(index)) = Len(index) /\ call.new \in Seq(Contents)
  BY OfEntries DEF VersionsInv, VersionsTypes, Calls
<1>2. text = IF Unindexed THEN Of(index) \o call.new ELSE Of(index)
  BY DEF VersionsInv, WholeInv
<1>3. Len(Of(index) \o call.new) = Len(index) + Len(call.new)
  BY <1>1
<1> QED BY <1>1, <1>2, <1>3

LEMMA WriteChunkFacts ==
    ASSUME VersionsInv, WriteChunk, NEW c, NEW i, i = call.done + 1, c = ChunkID(i)
    PROVE  /\ call.at = "chunk" /\ call \in Calls /\ call.op # "none" /\ text # << >>
           /\ i \in 1 .. Len(call.new) /\ call.new[i] \in Contents /\ Len(call.new) \in Nat
           /\ c = (IF call.op = "atomic" THEN call.new[i] ELSE call.start + call.done)
           /\ c \in (IF call.op = "atomic" THEN Contents ELSE Nat)
           /\ DOMAIN chunks' = DOMAIN chunks \cup {c} /\ chunks'[c] = call.new[i]
           /\ \A id \in DOMAIN chunks \ {c} : chunks'[id] = chunks[id]
           /\ call' \in Calls /\ UNCHANGED <<call.op, call.new, call.known, call.base, call.start>>
           /\ call'.done = i
           /\ call'.at = IF i = Len(call.new) THEN Following[call.op]["chunk"] ELSE "chunk"
           /\ UNCHANGED <<index, manifest, count, faults, text, whole, blind>>
<1>1. /\ call.at = "chunk" /\ call \in Calls /\ call.op # "none" /\ text # << >>
      /\ i \in 1 .. Len(call.new) /\ Len(call.new) \in Nat
      /\ UNCHANGED <<index, manifest, count, faults, text, whole, blind>>
  BY DEF WriteChunk, VersionsInv, CallInv, VersionsTypes, Calls
<1>2. call.new[i] \in Contents
  BY <1>1 DEF Calls
<1>3. /\ c = (IF call.op = "atomic" THEN call.new[i] ELSE call.start + call.done)
      /\ c \in (IF call.op = "atomic" THEN Contents ELSE Nat)
  BY <1>1, <1>2 DEF ChunkID, Calls
<1>4. /\ DOMAIN chunks' = DOMAIN chunks \cup {c} /\ chunks'[c] = call.new[i]
      /\ \A id \in DOMAIN chunks \ {c} : chunks'[id] = chunks[id]
  BY DEF WriteChunk
<1>5. call' = [(IF i = Len(call.new) THEN Continued ELSE call) EXCEPT !.done = i]
  BY DEF WriteChunk
<1>6. Following[call.op]["chunk"] \in Statements
  BY <1>1, Orders DEF Calls, Statements
<1>7. Continued = [call EXCEPT !.at = Following[call.op]["chunk"]]
  BY <1>1 DEF Continued
<1>8. /\ call' \in Calls /\ UNCHANGED <<call.op, call.new, call.known, call.base, call.start>>
      /\ call'.done = i
      /\ call'.at = IF i = Len(call.new) THEN Following[call.op]["chunk"] ELSE "chunk"
  <2>1. i \in Nat
    BY <1>1
  <2> DEFINE f == Following[call.op]["chunk"]
  <2>2. CASE i = Len(call.new)
    <3>1. call' = [call EXCEPT !.at = f, !.done = i]
      BY <1>1, <1>5, <1>7, <2>2 DEF Calls
    <3> HIDE DEF f
    <3> QED BY <1>1, <1>6, <2>1, <2>2, <3>1 DEF Calls, f
  <2>3. CASE i # Len(call.new)
    BY <1>1, <1>5, <2>1, <2>3 DEF Calls
  <2> QED BY <2>2, <2>3
<1> QED BY <1>1, <1>2, <1>3, <1>4, <1>8

(* Unless chunks could not be listed, no chunk is replaced by another one,  *)
(* and one without a content address is new.                                *)
LEMMA WriteChunkKeeps ==
    ASSUME VersionsInv, WriteChunk, ~blind
    PROVE  /\ \A id \in DOMAIN chunks : id \in DOMAIN chunks' /\ chunks'[id] = chunks[id]
           /\ call.op # "atomic" => ChunkID(call.done + 1) \notin DOMAIN chunks
<1> DEFINE i == call.done + 1
           c == ChunkID(i)
<1>1. /\ c = (IF call.op = "atomic" THEN call.new[i] ELSE call.start + call.done)
      /\ c \in (IF call.op = "atomic" THEN Contents ELSE Nat)
      /\ DOMAIN chunks' = DOMAIN chunks \cup {c} /\ chunks'[c] = call.new[i]
      /\ \A id \in DOMAIN chunks \ {c} : chunks'[id] = chunks[id]
      /\ call.at = "chunk"
  BY WriteChunkFacts
<1>2. call.op # "atomic" => c = Cardinality(DOMAIN chunks)
  BY <1>1 DEF VersionsInv, NumbersInv
<1>3. call.op # "atomic" => c \notin DOMAIN chunks
  BY <1>1, <1>2 DEF VersionsInv, NumbersInv
<1>4. call.op = "atomic" /\ c \in DOMAIN chunks => chunks[c] = chunks'[c]
  BY <1>1 DEF VersionsInv, NamesInv
<1>5. c = ChunkID(call.done + 1)
  OBVIOUS
<1> HIDE DEF c
<1> QED BY <1>1, <1>3, <1>4, <1>5

LEMMA WriteChunkStep == ASSUME VersionsInv, WriteChunk PROVE VersionsInv'
<1> DEFINE i == call.done + 1
           c == ChunkID(i)
           D == DOMAIN chunks
<1>1. /\ call.at = "chunk" /\ call \in Calls /\ call.op # "none" /\ text # << >>
      /\ i \in 1 .. Len(call.new) /\ call.new[i] \in Contents /\ Len(call.new) \in Nat
      /\ c = (IF call.op = "atomic" THEN call.new[i] ELSE call.start + call.done)
      /\ c \in (IF call.op = "atomic" THEN Contents ELSE Nat)
      /\ DOMAIN chunks' = D \cup {c} /\ chunks'[c] = call.new[i]
      /\ \A id \in D \ {c} : chunks'[id] = chunks[id]
      /\ call' \in Calls /\ UNCHANGED <<call.op, call.new, call.known, call.base, call.start>>
      /\ call'.done = i
      /\ call'.at = IF i = Len(call.new) THEN Following[call.op]["chunk"] ELSE "chunk"
      /\ UNCHANGED <<index, manifest, count, faults, text, whole, blind>>
  BY WriteChunkFacts
<1>2. ~blind => (\A id \in D : id \in DOMAIN chunks' /\ chunks'[id] = chunks[id])
                /\ (call.op # "atomic" => c \notin D)
  BY WriteChunkKeeps
<1>3. call.done \in Nat /\ call.start \in Nat /\ call.known \in Nat
  BY <1>1 DEF Calls
<1> HIDE DEF c
<1>4. /\ IsFiniteSet(D \cup {c}) /\ Cardinality(D) \in Nat
      /\ Cardinality(D \cup {c}) = IF c \in D THEN Cardinality(D) ELSE Cardinality(D) + 1
  BY FS_AddElement, FS_CardinalityType DEF VersionsInv, VersionsTypes
<1>5. VersionsTypes'
  <2>1. DOMAIN chunks' \subseteq Nat \cup Contents /\ \A id \in DOMAIN chunks' : chunks'[id] \in Contents
    BY <1>1 DEF VersionsInv, VersionsTypes
  <2> QED BY <1>1, <1>4, <2>1 DEF VersionsInv, VersionsTypes
<1>6. CallInv'
  BY <1>1, <1>3, Orders DEF VersionsInv, CallInv, Calls
<1>7. NamesInv'
  <2>1. \A id \in DOMAIN chunks' \cap Contents : chunks'[id] = id
    BY <1>1, BoundsAssumption DEF VersionsInv, NamesInv
  <2> QED BY <1>1, <2>1 DEF VersionsInv, NamesInv
<1>8. NumbersInv'
  <2>1. CASE call.op = "atomic"
    BY <1>1, <1>4, <2>1, BoundsAssumption, Orders DEF VersionsInv, NumbersInv
  <2>2. CASE call.op # "atomic" /\ ~blind
    <3>1. c = Cardinality(D) /\ c \notin D
      BY <1>1, <1>2, <2>2 DEF VersionsInv, NumbersInv
    <3> QED BY <1>1, <1>3, <1>4, <2>2, <3>1 DEF VersionsInv, NumbersInv
  <2>3. CASE call.op # "atomic" /\ blind
    <3>1. c = call.done /\ call.start = 0 /\ 0 .. call.done - 1 \subseteq D
      BY <1>1, <1>3, <2>3 DEF VersionsInv, NumbersInv
    <3>2. 0 .. call.done \subseteq D \cup {c}
      BY <1>3, <3>1
    <3>3. call.done + 1 <= Cardinality(D \cup {c})
      <4>1. IsFiniteSet(0 .. call.done) /\ Cardinality(0 .. call.done) = call.done + 1
        <5>1. 0 \in Int /\ call.done \in Int /\ ~ 0 > call.done
          BY <1>3
        <5> HIDE DEF i
        <5> QED BY <5>1, FS_Interval
      <4> QED BY <1>4, <3>2, <4>1, FS_Subset
    <3> QED BY <1>1, <1>3, <1>4, <2>3, <3>1, <3>2, <3>3 DEF VersionsInv, NumbersInv
  <2> QED BY <2>1, <2>2, <2>3
<1>9. WholeInv'
  <2>1. SUFFICES ASSUME whole PROVE WholeInv'
    BY <1>1 DEF WholeInv
  <2>2. /\ text = Of(index) \o call.new /\ call.known = Len(index) /\ Len(index) \in Nat
        /\ Cardinality(D) = Len(index) + call.done
        /\ \A j \in DOMAIN index : index[j].id \in D /\ chunks[index[j].id] = index[j].of
        /\ call.op # "atomic" => call.start = call.known
        /\ \A j \in 1 .. call.done : ChunkID(j) \in D /\ chunks[ChunkID(j)] = call.new[j]
        /\ call.op \in {"plain", "atomic"} => index = << >> /\ call.base = << >>
        /\ call.op = "atomic" => IsInjective(call.new) /\ D = {call.new[j] : j \in 1 .. call.done}
    BY <1>1, <2>1 DEF VersionsInv, VersionsTypes, WholeInv, Unindexed
  <2>3. ~blind
    BY <2>1 DEF VersionsInv, CallInv
  <2>4. c \notin D
    <3>1. CASE call.op # "atomic"
      BY <1>2, <2>3, <3>1
    <3>2. CASE call.op = "atomic"
      <4>1. DOMAIN call.new = 1 .. Len(call.new)
        BY <1>1 DEF Calls
      <4>2. \A j \in 1 .. call.done : call.new[j] # call.new[i]
        <5>1. IsInjective(call.new) /\ i \in DOMAIN call.new
          BY <1>1, <2>2, <3>2, <4>1
        <5>2. \A j \in 1 .. call.done : j \in DOMAIN call.new /\ j # i
          BY <1>1, <1>3, <4>1
        <5> HIDE DEF i
        <5> QED BY <5>1, <5>2 DEF IsInjective
      <4> QED BY <1>1, <2>2, <3>2, <4>2
    <3> QED BY <3>1, <3>2
  <2>5. \A j \in DOMAIN index : index[j].id \in DOMAIN chunks' /\ chunks'[index[j].id] = index[j].of
    BY <1>1, <1>2, <2>2, <2>3
  <2>6. \A j \in 1 .. call.done + 1 : ChunkID(j)' \in DOMAIN chunks' /\ chunks'[ChunkID(j)'] = call.new[j]
    <3>1. \A j : ChunkID(j)' = ChunkID(j)
      BY <1>1 DEF ChunkID
    <3>2. \A j \in 1 .. call.done + 1 : j \in 1 .. call.done \/ j = i
      BY <1>3
    <3>3. ChunkID(i) = c
      BY DEF c
    <3> QED BY <1>1, <1>2, <2>2, <2>3, <3>1, <3>2, <3>3
  <2>7. call.op = "atomic" => DOMAIN chunks' = {call.new[j] : j \in 1 .. call.done + 1}
    BY <1>1, <1>3, <2>2
  <2>8. Unindexed'
    BY <1>1, Orders DEF Unindexed, Calls
  <2>9. call.known + Len(call.new) = Len(text)
    BY <1>1, <2>1, <2>2, TextLength DEF Unindexed
  <2>10. Cardinality(DOMAIN chunks') = Len(index) + i
    BY <1>1, <1>3, <1>4, <2>2, <2>4
  <2>11. /\ call'.at \in {"chunk", "meta", "index", "readindex"}
         /\ call'.at = "index" => call.op = "atomic"
         /\ call'.op = "atomic" /\ call'.at = "chunk" => IsInjective(call'.new)
         /\ UNCHANGED <<call.op, call.new, call.known, call.base, call.start, text, index>>
    BY <1>1, <2>2, Orders DEF Calls
  <2>12. call'.done = call.done + 1
    BY <1>1
  <2>13. /\ text' = Of(index') \o call'.new
         /\ call'.known = Len(index') /\ Cardinality(DOMAIN chunks') = Len(index') + call'.done
         /\ call'.op \in {"plain", "atomic"} => index' = << >> /\ call'.base = << >>
         /\ call'.op # "atomic" => call'.start = call'.known
         /\ call'.known + Len(call'.new) = Len(text')
         /\ call'.at = "index" => call'.base = index'
    BY <2>2, <2>9, <2>10, <2>11, <2>12
  <2>14. \A j \in DOMAIN index' : index'[j].id \in DOMAIN chunks' /\ chunks'[index'[j].id] = index'[j].of
    BY <2>5, <2>11
  <2>15. \A j \in 1 .. call'.done : ChunkID(j)' \in DOMAIN chunks' /\ chunks'[ChunkID(j)'] = call'.new[j]
    BY <2>6, <2>11, <2>12
  <2>16. call'.op = "atomic" => DOMAIN chunks' = {call'.new[j] : j \in 1 .. call'.done}
    BY <2>7, <2>11, <2>12
  <2> QED BY <2>8, <2>11, <2>13, <2>14, <2>15, <2>16 DEF WholeInv
<1> QED BY <1>5, <1>6, <1>7, <1>8, <1>9 DEF VersionsInv

(* What a call is and what holds of it behind its chunks.                   *)
LEMMA Behind ==
    ASSUME VersionsInv, call.at \notin {"none", "list", "chunk"}
    PROVE  /\ call \in Calls /\ call.op \in {"plain", "atomic", "append"} /\ text # << >>
           /\ call.at \in DOMAIN Following[call.op] /\ call.done = Len(call.new)
           /\ Continued \in Calls /\ Continued = [call EXCEPT !.at = Following[call.op][call.at]]
           /\ Following[call.op][call.at] \notin {"list", "chunk"}
<1>1. /\ call \in Calls /\ call.op \in {"plain", "atomic", "append"} /\ text # << >>
      /\ call.at \in DOMAIN Following[call.op] /\ call.done = Len(call.new)
  BY DEF VersionsInv, VersionsTypes, CallInv, Calls
<1>2. /\ Following[call.op][call.at] \in Statements
      /\ Following[call.op][call.at] \notin {"list", "chunk"}
  BY <1>1, Orders DEF Statements
<1>3. Continued = [call EXCEPT !.at = Following[call.op][call.at]]
  BY DEF Continued
<1>4. Continued \in Calls
  <2> DEFINE f == Following[call.op][call.at]
  <2> HIDE DEF f
  <2>1. Continued = [call EXCEPT !.at = f]
    BY <1>3 DEF f
  <2> QED BY <1>1, <1>2, <2>1 DEF Calls, f
<1> QED BY <1>1, <1>2, <1>3, <1>4

(* A step that fails, and what it may leave.                                *)
LEMMA FailureStep ==
    ASSUME VersionsInv, call.op # "none", StatementFails, whole' = FALSE, call' \in Calls,
           UNCHANGED <<chunks, index, manifest, count, text, blind, call.op, call.new, call.done, call.base>>,
           call'.at # "none" => call'.at \in DOMAIN Following[call.op] \ {"list", "chunk"} /\ call.done = Len(call.new),
           call.at # "list"
    PROVE  VersionsInv'
<1>1. VersionsTypes'
  <2>1. whole' \in BOOLEAN
    OBVIOUS
  <2>2. faults' \in Nat
    BY DEF VersionsInv, VersionsTypes, StatementFails
  <2> QED BY <2>1, <2>2 DEF VersionsInv, VersionsTypes
<1>2. CallInv'
  BY DEF VersionsInv, CallInv
<1>3. NamesInv' /\ NumbersInv'
  BY DEF VersionsInv, NamesInv, NumbersInv
<1>4. WholeInv'
  BY DEF WholeInv
<1> QED BY <1>1, <1>2, <1>3, <1>4 DEF VersionsInv

LEMMA ReadIndexStep == ASSUME VersionsInv, ReadIndex PROVE VersionsInv'
<1>1. /\ call.at = "readindex" /\ call.op = "append" /\ call \in Calls /\ call.done = Len(call.new) /\ text # << >>
      /\ Continued = [call EXCEPT !.at = "index"]
      /\ UNCHANGED <<chunks, index, manifest, count, faults, text, whole, blind>>
  BY Behind, Orders DEF ReadIndex
<1>2. index \in Seq(Entry)
  BY DEF VersionsInv, VersionsTypes
<1>3. call' = [call EXCEPT !.at = "index", !.base = index]
  BY <1>1 DEF ReadIndex, Calls
<1>4. /\ call' \in Calls /\ UNCHANGED <<call.op, call.new, call.done, call.start, call.known>>
      /\ call'.at = "index" /\ call'.base = index
  BY <1>1, <1>2, <1>3 DEF Calls, Statements
<1>5. VersionsTypes'
  BY <1>1, <1>4 DEF VersionsInv, VersionsTypes
<1>6. CallInv'
  BY <1>1, <1>4, Orders DEF VersionsInv, CallInv
<1>7. NamesInv' /\ NumbersInv'
  BY <1>1, <1>4 DEF VersionsInv, NamesInv, NumbersInv
<1>8. WholeInv'
  <2>1. \A j : ChunkID(j)' = ChunkID(j)
    BY <1>4 DEF ChunkID
  <2> QED BY <1>1, <1>4, <2>1 DEF VersionsInv, WholeInv, Unindexed
<1> QED BY <1>5, <1>6, <1>7, <1>8 DEF VersionsInv

LEMMA ReadIndexFailsStep == ASSUME VersionsInv, ReadIndexFails PROVE VersionsInv'
<1>1. /\ call.at = "readindex" /\ call.op = "append" /\ call \in Calls /\ call.done = Len(call.new)
      /\ call' = [call EXCEPT !.at = "index"] /\ call' \in Calls
  BY Behind, Orders DEF ReadIndexFails
<1>2. UNCHANGED <<call.op, call.new, call.done, call.base>> /\ call'.at = "index"
  BY <1>1 DEF Calls
<1> QED BY <1>1, <1>2, FailureStep, Orders DEF ReadIndexFails

LEMMA WriteFailsStep == ASSUME VersionsInv, WriteFails PROVE VersionsInv'
<1>1. call.at \in {"chunk", "index", "manifest", "meta"} /\ StatementFails /\ whole' = FALSE
      /\ UNCHANGED <<chunks, index, manifest, count, text, blind>>
  BY DEF WriteFails
<1>2. call \in Calls /\ call.op # "none"
  BY <1>1 DEF VersionsInv, VersionsTypes, CallInv
<1>3. CASE call.at \in {"index", "manifest"} /\ call.op # "append"
  <2>1. call' = Continued
    BY <1>3 DEF WriteFails
  <2>2. /\ call' \in Calls /\ call' = [call EXCEPT !.at = Following[call.op][call.at]]
        /\ Following[call.op][call.at] \in {"none", "manifest", "meta"}
        /\ call.op \in {"plain", "atomic"} /\ call.done = Len(call.new)
        /\ Following[call.op][call.at] # "none" => call.op = "atomic"
    BY <1>3, <2>1, Behind, Orders
  <2>3. UNCHANGED <<call.op, call.new, call.done, call.base>> /\ call'.at = Following[call.op][call.at]
    BY <1>2, <2>2 DEF Calls
  <2> QED BY <1>1, <1>2, <2>2, <2>3, FailureStep, Orders
<1>4. CASE ~(call.at \in {"index", "manifest"} /\ call.op # "append")
  <2>1. call' = [call EXCEPT !.at = "none"]
    BY <1>4 DEF WriteFails
  <2>2. call' \in Calls /\ UNCHANGED <<call.op, call.new, call.done, call.base>> /\ call'.at = "none"
    BY <1>2, <2>1 DEF Calls, Statements
  <2> QED BY <1>1, <1>2, <2>2, FailureStep
<1> QED BY <1>3, <1>4

LEMMA ConcatElements ==
    ASSUME NEW S, NEW s \in Seq(S), NEW t \in Seq(S)
    PROVE  /\ s \o t \in Seq(S) /\ Len(s \o t) = Len(s) + Len(t)
           /\ \A i \in DOMAIN (s \o t) : \/ i \in DOMAIN s /\ (s \o t)[i] = s[i]
                                       \/ \E j \in 1 .. Len(t) : (s \o t)[i] = t[j]
<1>1. s \o t \in Seq(S) /\ Len(s \o t) = Len(s) + Len(t) /\ Len(s) \in Nat /\ Len(t) \in Nat
  OBVIOUS
<1>2. ASSUME NEW i \in DOMAIN (s \o t), i \notin DOMAIN s
      PROVE  \E j \in 1 .. Len(t) : (s \o t)[i] = t[j]
  <2>1. i \in 1 .. Len(s) + Len(t) /\ i > Len(s)
    BY <1>1, <1>2
  <2>2. i - Len(s) \in 1 .. Len(t) /\ (s \o t)[i] = t[i - Len(s)]
    BY <1>1, <2>1
  <2> QED BY <2>2
<1>3. ASSUME NEW i \in DOMAIN s PROVE (s \o t)[i] = s[i]
  BY <1>1
<1> QED BY <1>1, <1>2, <1>3

LEMMA WriteIndexStep == ASSUME VersionsInv, WriteIndex PROVE VersionsInv'
<1> DEFINE E == [i \in 1 .. Len(call.new) |-> [id |-> EntryID(i), of |-> call.new[i]]]
<1>1. /\ call.at = "index" /\ call \in Calls /\ call.op \in {"plain", "atomic", "append"} /\ text # << >>
      /\ call.done = Len(call.new) /\ call' \in Calls /\ call' = [call EXCEPT !.at = Following[call.op]["index"]]
      /\ index' = call.base \o E
      /\ UNCHANGED <<chunks, manifest, count, faults, text, whole, blind>>
  BY Behind DEF WriteIndex
<1>2. /\ UNCHANGED <<call.op, call.new, call.done, call.start, call.known, call.base>>
      /\ call'.at = Following[call.op]["index"]
      /\ Following[call.op]["index"] \in {"none", "manifest", "meta"}
      /\ Following[call.op]["index"] = "none" => call.op = "plain"
      /\ Following[call.op]["index"] = "manifest" => call.op = "atomic"
      /\ Following[call.op]["index"] \in DOMAIN Following[call.op] \cup {"none"}
  BY <1>1, Orders DEF Calls
<1>3. /\ call.base \in Seq(Entry) /\ call.new \in Seq(Contents) /\ call.known \in Nat /\ Len(call.new) \in Nat
      /\ \A i \in 1 .. Len(call.new) : call.new[i] \in Contents
  BY <1>1 DEF Calls
<1>4. \A i \in 1 .. Len(call.new) :
          /\ EntryID(i) = (IF call.op = "atomic" THEN call.new[i] ELSE call.known + i - 1)
          /\ EntryID(i) \in (IF call.op = "atomic" THEN Contents ELSE Nat)
  BY <1>3 DEF EntryID
<1>5. E \in Seq(Entry) /\ Len(E) = Len(call.new)
      /\ \A i \in 1 .. Len(call.new) : E[i].of = call.new[i] /\ E[i].id = EntryID(i)
  <2>1. \A i \in 1 .. Len(call.new) : [id |-> EntryID(i), of |-> call.new[i]] \in Entry
    BY <1>3, <1>4 DEF Entry
  <2> QED BY <1>3, <2>1
<1> HIDE DEF E
<1>6. index' \in Seq(Entry) /\ Len(index') = Len(call.base) + Len(call.new)
  <2>1. call.base \o E \in Seq(Entry) /\ Len(call.base \o E) = Len(call.base) + Len(E)
    BY <1>3, <1>5, ConcatElements
  <2> QED BY <1>1, <1>5, <2>1
<1>7. \A i \in DOMAIN index' : \/ i \in DOMAIN call.base /\ index'[i] = call.base[i]
                               \/ \E j \in 1 .. Len(call.new) : index'[i] = E[j]
  BY <1>1, <1>3, <1>5, ConcatElements
<1>8. VersionsTypes'
  BY <1>1, <1>6 DEF VersionsInv, VersionsTypes
<1>9. CallInv'
  BY <1>1, <1>2 DEF VersionsInv, CallInv
<1>10. NamesInv'
  <2>1. \A j \in 1 .. Len(call.new) : E[j].id \in Contents => E[j].of = E[j].id
    BY <1>3, <1>4, <1>5, BoundsAssumption
  <2> QED BY <1>1, <1>2, <1>7, <2>1 DEF VersionsInv, NamesInv
<1>11. NumbersInv'
  BY <1>1, <1>2 DEF VersionsInv, NumbersInv
<1>12. WholeInv'
  <2>1. SUFFICES ASSUME whole PROVE WholeInv'
    BY <1>1 DEF WholeInv
  <2>2. /\ text = Of(index) \o call.new /\ call.known = Len(index) /\ Len(index) \in Nat
        /\ Cardinality(DOMAIN chunks) = Len(index) + call.done
        /\ \A j \in DOMAIN index : index[j].id \in DOMAIN chunks /\ chunks[index[j].id] = index[j].of
        /\ call.op # "atomic" => call.start = call.known
        /\ \A j \in 1 .. call.done : ChunkID(j) \in DOMAIN chunks /\ chunks[ChunkID(j)] = call.new[j]
        /\ call.op \in {"plain", "atomic"} => index = << >> /\ call.base = << >>
        /\ call.base = index
        /\ call.op = "plain" => count = Len(call.new)
    BY <1>1, <2>1 DEF VersionsInv, VersionsTypes, WholeInv, Unindexed
  <2>3. text = Of(index')
    BY <1>1, <1>3, <1>5, <2>2, OfConcat
  <2>4. \A j \in 1 .. Len(call.new) : E[j].id \in DOMAIN chunks /\ chunks[E[j].id] = E[j].of
    BY <1>1, <1>4, <1>5, <2>2 DEF ChunkID
  <2>5. \A i \in DOMAIN index' : index'[i].id \in DOMAIN chunks /\ chunks[index'[i].id] = index'[i].of
    BY <1>7, <2>2, <2>4
  <2>6. Len(index') = Len(index) + Len(call.new) /\ Cardinality(DOMAIN chunks) = Len(index')
    BY <1>1, <1>6, <2>2
  <2>7. call.op = "plain" => count = Len(index')
    BY <1>3, <2>2, <2>6
  <2>8. call.known + Len(call.new) = Len(text)
    BY <1>1, <2>1, <2>2, TextLength DEF Unindexed
  <2>9. \A j : ChunkID(j)' = ChunkID(j)
    BY <1>2 DEF ChunkID
  <2>10. ~Unindexed'
    BY <1>1, <1>2, Orders DEF Unindexed
  <2> QED BY <1>1, <1>2, <2>2, <2>3, <2>5, <2>6, <2>7, <2>8, <2>9, <2>10 DEF WholeInv
<1> QED BY <1>8, <1>9, <1>10, <1>11, <1>12 DEF VersionsInv

LEMMA WriteManifestStep == ASSUME VersionsInv, WriteManifest PROVE VersionsInv'
<1>1. /\ call.at = "manifest" /\ call.op = "atomic" /\ call \in Calls /\ call.done = Len(call.new) /\ text # << >>
      /\ call' \in Calls /\ call' = [call EXCEPT !.at = "meta"] /\ manifest' = call.new
      /\ UNCHANGED <<chunks, index, count, faults, text, whole, blind>>
  BY Behind, Orders DEF WriteManifest
<1>2. UNCHANGED <<call.op, call.new, call.done, call.start, call.known, call.base>> /\ call'.at = "meta"
  BY <1>1 DEF Calls
<1>3. VersionsTypes'
  BY <1>1 DEF VersionsInv, VersionsTypes, Calls
<1>4. CallInv'
  BY <1>1, <1>2, Orders DEF VersionsInv, CallInv
<1>5. NamesInv' /\ NumbersInv'
  BY <1>1, <1>2 DEF VersionsInv, NamesInv, NumbersInv
<1>6. WholeInv'
  <2>1. \A j : ChunkID(j)' = ChunkID(j)
    BY <1>2 DEF ChunkID
  <2> QED BY <1>1, <1>2, <2>1 DEF VersionsInv, WholeInv, Unindexed
<1> QED BY <1>3, <1>4, <1>5, <1>6 DEF VersionsInv

LEMMA WriteMetaStep == ASSUME VersionsInv, WriteMeta PROVE VersionsInv'
<1>1. /\ call.at = "meta" /\ call \in Calls /\ call.op \in {"plain", "atomic", "append"} /\ text # << >>
      /\ call.done = Len(call.new) /\ call' \in Calls
      /\ call' = [call EXCEPT !.at = IF call.op = "plain" THEN "index" ELSE "none"]
      /\ count' = call.known + Len(call.new)
      /\ UNCHANGED <<chunks, index, manifest, faults, text, whole, blind>>
  BY Behind, Orders DEF WriteMeta
<1>2. /\ UNCHANGED <<call.op, call.new, call.done, call.start, call.known, call.base>>
      /\ call'.at = IF call.op = "plain" THEN "index" ELSE "none"
      /\ call.known \in Nat /\ Len(call.new) \in Nat
  BY <1>1 DEF Calls
<1>3. VersionsTypes'
  BY <1>1, <1>2 DEF VersionsInv, VersionsTypes
<1>4. CallInv'
  BY <1>1, <1>2, Orders DEF VersionsInv, CallInv
<1>5. NamesInv' /\ NumbersInv'
  BY <1>1, <1>2 DEF VersionsInv, NamesInv, NumbersInv
<1>6. WholeInv'
  <2>1. SUFFICES ASSUME whole PROVE WholeInv'
    BY <1>1 DEF WholeInv
  <2>2. \A j : ChunkID(j)' = ChunkID(j)
    BY <1>2 DEF ChunkID
  <2>3. call.known + Len(call.new) = Len(text)
    BY <1>1, <2>1 DEF VersionsInv, WholeInv
  <2>4. CASE call.op = "plain"
    <3>1. index = << >> /\ call.base = << >> /\ call.known = 0
      BY <1>1, <2>1, <2>4 DEF VersionsInv, WholeInv, Unindexed
    <3> QED BY <1>1, <1>2, <2>1, <2>2, <2>4, <3>1 DEF VersionsInv, WholeInv, Unindexed
  <2>5. CASE call.op # "plain"
    <3>1. count' = Len(index)
      BY <1>1, <2>1, <2>3, <2>5, TextLength DEF Unindexed
    <3> QED BY <1>1, <1>2, <2>1, <2>2, <2>5, <3>1 DEF VersionsInv, WholeInv, Unindexed
  <2> QED BY <2>4, <2>5
<1> QED BY <1>3, <1>4, <1>5, <1>6 DEF VersionsInv

LEMMA VersionsStep == VersionsInv /\ [VersionsNext]_versionsVars => VersionsInv'
<1> SUFFICES ASSUME VersionsInv, [VersionsNext]_versionsVars PROVE VersionsInv'
  OBVIOUS
<1>1. CASE UNCHANGED versionsVars
  <2>1. VersionsTypes'
    BY <1>1 DEF versionsVars, VersionsInv, VersionsTypes
  <2>2. CallInv' /\ NamesInv' /\ NumbersInv'
    BY <1>1 DEF versionsVars, VersionsInv, CallInv, NamesInv, NumbersInv
  <2>3. WholeInv'
    BY <1>1 DEF versionsVars, VersionsInv, WholeInv, Unindexed, ChunkID
  <2> QED BY <2>1, <2>2, <2>3 DEF VersionsInv
<1> QED BY <1>1, BeginUploadStep, BeginAppendStep, ListStep, WriteChunkStep, ReadIndexStep, ReadIndexFailsStep,
           WriteIndexStep, WriteManifestStep, WriteMetaStep, WriteFailsStep DEF VersionsNext

(* Warnings are no errors.                                                  *)
LEMMA SomeErrors ==
    ASSUME NEW S, NEW T
    PROVE  LET errors == {Finding("error", {id}) : id \in S}
               warnings == {Finding("warn", {id}) : id \in T}
           IN  /\ HasErrors(errors \cup warnings) <=> \E id \in S : TRUE
               /\ HasErrors(warnings \cup errors) <=> \E id \in S : TRUE
<1> DEFINE errors == {Finding("error", {id}) : id \in S}
           warnings == {Finding("warn", {id}) : id \in T}
<1>1. \A f \in errors : f.severity = "error" /\ \E id \in S : TRUE
  BY DEF Finding
<1>2. \A f \in warnings : f.severity = "warn"
  BY DEF Finding
<1>3. \A id \in S : Finding("error", {id}) \in errors
  OBVIOUS
<1> HIDE DEF errors, warnings
<1>4. /\ HasErrors(errors \cup warnings) <=> \E id \in S : TRUE
      /\ HasErrors(warnings \cup errors) <=> \E id \in S : TRUE
  BY <1>1, <1>2, <1>3 DEF HasErrors
<1> QED BY <1>4 DEF errors, warnings

(* However many uploads and appends there are and whichever statements      *)
(* fail, no chunk is replaced by another one, unless an append could not    *)
(* list them (store.go, AppendChunks).                                      *)
THEOREM ChunksAreKept == VersionsSpec => ChunksKept
<1> DEFINE Kept_ == blind \/ \A id \in DOMAIN chunks : id \in DOMAIN chunks' /\ chunks'[id] = chunks[id]
<1>1. VersionsInv /\ [VersionsNext]_versionsVars => [Kept_]_versionsVars
  <2>1. SUFFICES ASSUME VersionsInv, VersionsNext, ~blind PROVE Kept_
    OBVIOUS
  <2>2. CASE WriteChunk
    BY <2>1, <2>2, WriteChunkKeeps
  <2>3. CASE ~WriteChunk
    <3>1. UNCHANGED chunks
      BY <2>1, <2>3 DEF VersionsNext, BeginUpload, BeginAtomicUpload, BeginAppend, BeginCall, ListChunkIDs, ListFails,
            ReadIndex, ReadIndexFails, WriteIndex, WriteManifest, WriteMeta, WriteFails
    <3> QED BY <3>1
  <2> QED BY <2>2, <2>3
<1> QED BY <1>1, VersionsStart, VersionsStep, PTL DEF VersionsSpec, ChunksKept

(* While nothing has failed a document reads, entry by entry of its index,  *)
(* as what was uploaded and appended (upload.go, store_incremental.go,      *)
(* AppendDocumentText).                                                     *)
THEOREM DocumentReadsBack == VersionsSpec => []ReadsBack
<1>1. VersionsInv => ReadsBack
  <2>1. SUFFICES ASSUME VersionsInv, whole, call.at = "none" PROVE
           /\ text = [i \in DOMAIN index |-> index[i].of]
           /\ \A e \in ToSet(index) : e.id \in DOMAIN chunks /\ chunks[e.id] = e.of
           /\ text # << >> => count = Len(text)
    BY DEF ReadsBack
  <2>2. /\ text = Of(index) /\ (text # << >> => count = Len(index))
        /\ \A i \in DOMAIN index : index[i].id \in DOMAIN chunks /\ chunks[index[i].id] = index[i].of
    BY <2>1 DEF VersionsInv, WholeInv, Unindexed
  <2>3. Len(text) = Len(index)
    BY <2>1, TextLength DEF Unindexed
  <2> QED BY <2>2, <2>3 DEF Of, ToSet
<1> QED BY <1>1, VersionsStart, VersionsStep, PTL DEF VersionsSpec

(* Reconcile reports an error of a listed document with a manifest exactly  *)
(* when a chunk of the manifest is missing, changed or not indexed, or the  *)
(* manifest has one chunk alone or one twice, after any failures            *)
(* (reconcile.go, ValidateManifest, ValidateChunkFiles,                     *)
(* ValidateIndexEntries).                                                   *)
THEOREM ReconcileIsHonest == VersionsSpec => []ReconcileHonest
<1>1. VersionsInv => ReconcileHonest
  <2>0. ASSUME manifest # << >>, ~VerifyManifestIntegrity
        PROVE  HasErrors(Reconcile) /\ (Len(manifest) = 1 \/ ~IsInjective(manifest))
    <3>1. Reconcile = {Finding("error", {})}
      BY <2>0 DEF Reconcile, ValidateManifest
    <3> QED BY <2>0, <3>1 DEF HasErrors, Finding, VerifyManifestIntegrity
  <2>1. SUFFICES ASSUME VersionsInv, manifest # << >>, VerifyManifestIntegrity
                 PROVE  HasErrors(Reconcile)
                          <=> \E c \in ToSet(manifest) :
                                 \/ [id |-> c, of |-> c] \notin ToSet(index)
                                 \/ <<c, c>> \notin {<<id, chunks[id]>> : id \in DOMAIN chunks}
    BY <2>0 DEF ReconcileHonest, VerifyManifestIntegrity
  <2>2. Reconcile = ValidateChunkFiles \cup ValidateIndexEntries
    BY <2>1 DEF Reconcile, ValidateManifest
  <2>3. manifest \in Seq(Contents) /\ index \in Seq(Entry)
    BY <2>1 DEF VersionsInv, VersionsTypes
  <2>4. \E c \in Contents : c \in ToSet(manifest)
    <3>1. Len(manifest) \in Nat \ {0} /\ 1 \in DOMAIN manifest
      BY <2>1, <2>3, EmptySeq
    <3> QED BY <2>3, <3>1 DEF ToSet
  <2>5. HasErrors(Reconcile) <=> HasErrors(ValidateChunkFiles) \/ HasErrors(ValidateIndexEntries)
    BY <2>2 DEF HasErrors
  <2>6. HasErrors(ValidateChunkFiles) <=> \E c \in ToSet(manifest) : c \notin DOMAIN chunks \/ chunks[c] # c
    <3> DEFINE S == {c \in ToSet(manifest) : c \notin DOMAIN chunks \/ chunks[c] # c}
               T == DOMAIN chunks \ ToSet(manifest)
    <3>1. ValidateChunkFiles = {Finding("error", {id}) : id \in S} \cup {Finding("warn", {id}) : id \in T}
      BY DEF ValidateChunkFiles
    <3> HIDE DEF S, T
    <3>2. HasErrors(ValidateChunkFiles) <=> \E c \in S : TRUE
      BY <3>1, SomeErrors
    <3> QED BY <3>2 DEF S
  <2>7. HasErrors(ValidateIndexEntries) <=> \E c \in ToSet(manifest) : c \notin Indexed
    <3>1. CASE index = << >>
      <4>1. HasErrors(ValidateIndexEntries)
        BY <3>1 DEF HasErrors, ValidateIndexEntries, Finding
      <4>2. Indexed = {}
        BY <3>1 DEF Indexed, ToSet
      <4> QED BY <2>4, <4>1, <4>2
    <3>2. CASE index # << >>
      <4>1. HasErrors(ValidateIndexEntries) <=> \E c \in ToSet(manifest) \ Indexed : TRUE
        BY <3>2, SomeErrors DEF ValidateIndexEntries
      <4> QED BY <4>1
    <3> QED BY <3>1, <3>2
  <2>8. \A c \in Contents : c \in Indexed <=> [id |-> c, of |-> c] \in ToSet(index)
    <3>1. \A i \in DOMAIN index : index[i] \in Entry
      BY <2>3
    <3>2. \A i \in DOMAIN index : index[i].id \in Contents => index[i] = [id |-> index[i].id, of |-> index[i].id]
      BY <2>1, <3>1 DEF VersionsInv, NamesInv, Entry
    <3> QED BY <3>2 DEF Indexed, ToSet
  <2>9. ToSet(manifest) \subseteq Contents
    BY <2>3 DEF ToSet
  <2>10. \A c : c \in DOMAIN chunks /\ chunks[c] = c <=> <<c, c>> \in {<<id, chunks[id]>> : id \in DOMAIN chunks}
    OBVIOUS
  <2> QED BY <2>5, <2>6, <2>7, <2>8, <2>9, <2>10
<1> QED BY <1>1, VersionsStart, VersionsStep, PTL DEF VersionsSpec

-----------------------------------------------------------------------------
(* Chunker.                                                                 *)

End(c) == c[Len(c)]

(* The text from after rune n on, each rune once and in order.              *)
Straight(c, n) ==
    /\ c \in Seq(Nat) /\ c # << >> /\ n \in Nat
    /\ c[1] = n + 1 /\ End(c) # 0
    /\ \A i, j \in DOMAIN c : i < j /\ c[i] # 0 /\ c[j] # 0 => c[i] < c[j]
    /\ \A r \in n + 1 .. End(c) : \E i \in DOMAIN c : c[i] = r

(* The text from after rune n on, with runes told before in between.        *)
Follows(c, n) ==
    /\ c \in Seq(Nat) /\ c # << >> /\ n \in Nat /\ n <= End(c)
    /\ \A j \in DOMAIN c : c[j] <= End(c)
    /\ \A r \in n + 1 .. End(c) : \E i \in DOMAIN c : c[i] = r
    /\ \A j \in DOMAIN c : c[j] > n + 1 => \E i \in 1 .. j - 1 : c[i] = c[j] - 1

Link(kind, c, n) == IF kind = "straight" THEN Straight(c, n) ELSE Follows(c, n)

(* Chunks that tell the text from after rune n up to rune m.                *)
EndOf(s, n) == IF s = << >> THEN n ELSE End(s[Len(s)].content)
Chain(kind, s, n, m) ==
    /\ \A k \in DOMAIN s : Link(kind, s[k].content, IF k = 1 THEN n ELSE End(s[k - 1].content))
    /\ m = EndOf(s, n)

(* A nonempty set of naturals has a least element.                          *)
LEMMA MinOfNat ==
    ASSUME NEW S \in SUBSET Nat, S # {}
    PROVE Min(S) \in S /\ \A y \in S : Min(S) <= y
<1>1. PICK x \in S : \A y \in S : ~(<<y, x>> \in OpToRel(<, Nat))
  BY NatLessThanWellFounded, WFMin
<1>2. \A y \in S : x <= y
  <2> TAKE y \in S
  <2>1. x \in Nat /\ y \in Nat
    OBVIOUS
  <2>2. ~(y < x)
    BY <1>1, <2>1 DEF OpToRel
  <2> QED BY <2>1, <2>2
<1> QED BY <1>2 DEF Min

LEMMA StraightFollows ==
    ASSUME NEW c, NEW n, Straight(c, n)
    PROVE Follows(c, n)
<1> USE DEF Straight, End
<1>1. Len(c) \in DOMAIN c /\ 1 \in DOMAIN c /\ \A j \in DOMAIN c : c[j] \in Nat
  OBVIOUS
<1>2. \A j \in DOMAIN c : c[j] <= c[Len(c)]
  <2> TAKE j \in DOMAIN c
  <2> QED BY <1>1
<1>3. n <= c[Len(c)]
  BY <1>1, <1>2
<1>4. ASSUME NEW j \in DOMAIN c, c[j] > n + 1
      PROVE \E i \in 1 .. j - 1 : c[i] = c[j] - 1
  <2>1. c[j] - 1 \in n + 1 .. c[Len(c)]
    BY <1>1, <1>2, <1>4
  <2>2. PICK i \in DOMAIN c : c[i] = c[j] - 1
    BY <2>1
  <2>3. ~(j < i) /\ i # j
    BY <2>2, <1>1, <1>4
  <2> QED BY <2>2, <2>3
<1> QED BY <1>2, <1>3, <1>4 DEF Follows

LEMMA ContentFacts ==
    ASSUME NEW c \in Seq(Nat), c # << >>
    PROVE /\ DOMAIN c = 1 .. Len(c) /\ Len(c) \in Nat \ {0}
          /\ \A i \in DOMAIN c : c[i] \in Nat
          /\ End(c) \in Nat /\ 1 \in DOMAIN c /\ Len(c) \in DOMAIN c
  BY DEF End

(* Two contents with only separators between: the second begins after l.    *)
Joins(e, c, d, l) ==
    /\ e \in Seq(Nat) /\ e # << >> /\ e[1] = c[1] /\ End(e) = End(d)
    /\ l \in Nat /\ Len(c) <= l
    /\ \A i \in DOMAIN c : i \in DOMAIN e /\ e[i] = c[i]
    /\ \A i \in DOMAIN d : i + l \in DOMAIN e /\ e[i + l] = d[i]
    /\ \A i \in DOMAIN e : \/ i \in DOMAIN c
                           \/ e[i] = 0
                           \/ \E k \in DOMAIN d : i = k + l /\ e[i] = d[k]

LEMMA JoinFacts ==
    ASSUME NEW c \in Seq(Nat), NEW d \in Seq(Nat), NEW sep \in Seq({0}), c # << >>, d # << >>
    PROVE Joins(c \o sep \o d, c, d, Len(c) + Len(sep))
<1> DEFINE e == c \o sep \o d
<1> DEFINE l == Len(c) + Len(sep)
<1>1. sep \in Seq(Nat) /\ e \in Seq(Nat) /\ Len(e) = l + Len(d)
  OBVIOUS
<1>2. \A i \in 1 .. Len(c) : e[i] = c[i]
  OBVIOUS
<1>3. \A i \in 1 .. Len(d) : e[i + l] = d[i]
  OBVIOUS
<1>4. \A i \in Len(c) + 1 .. l : e[i] = 0
  <2> TAKE i \in Len(c) + 1 .. l
  <2>1. e[i] = sep[i - Len(c)] /\ i - Len(c) \in 1 .. Len(sep)
    OBVIOUS
  <2>2. \A k \in 1 .. Len(sep) : sep[k] \in {0}
    OBVIOUS
  <2> QED BY <2>1, <2>2
<1>5. Len(c) \in Nat \ {0} /\ Len(d) \in Nat \ {0} /\ l \in Nat /\ Len(c) <= l
  OBVIOUS
<1>6. DOMAIN c = 1 .. Len(c) /\ DOMAIN d = 1 .. Len(d) /\ DOMAIN e = 1 .. Len(e)
  BY <1>1
<1> HIDE DEF e, l
<1>7. e # << >> /\ e[1] = c[1] /\ e[Len(e)] = d[Len(d)]
  <2>1. e # << >>
    BY <1>1, <1>5
  <2>2. Len(d) \in 1 .. Len(d) /\ Len(e) = Len(d) + l /\ 1 \in 1 .. Len(c)
    BY <1>1, <1>5
  <2> QED BY <2>1, <2>2, <1>2, <1>3
<1>8. ASSUME NEW i \in 1 .. Len(e)
      PROVE \/ i \in 1 .. Len(c)
            \/ e[i] = 0
            \/ \E k \in 1 .. Len(d) : i = k + l /\ e[i] = d[k]
  <2>1. CASE i <= Len(c)
    BY <2>1, <1>5
  <2>2. CASE i > Len(c) /\ i <= l
    BY <2>2, <1>4, <1>5
  <2>3. CASE i > l
    <3>1. i - l \in 1 .. Len(d) /\ i = (i - l) + l
      BY <2>3, <1>1, <1>5
    <3> QED BY <3>1, <1>3
  <2> QED BY <2>1, <2>2, <2>3, <1>5
<1>9. \A i \in 1 .. Len(c) : i \in 1 .. Len(e)
  BY <1>1, <1>5
<1>10. \A i \in 1 .. Len(d) : i + l \in 1 .. Len(e)
  BY <1>1, <1>5
<1>11. Joins(e, c, d, l)
  BY <1>1, <1>2, <1>3, <1>5, <1>6, <1>7, <1>8, <1>9, <1>10 DEF Joins, End
<1> QED BY <1>11 DEF e, l

LEMMA StraightJoin ==
    ASSUME NEW c, NEW d, NEW n, NEW e, NEW l, Straight(c, n), Straight(d, End(c)), Joins(e, c, d, l)
    PROVE Straight(e, n) /\ End(e) = End(d)
<1>1. /\ c \in Seq(Nat) /\ d \in Seq(Nat) /\ c # << >> /\ d # << >>
      /\ n \in Nat /\ c[1] = n + 1 /\ End(c) # 0 /\ End(d) # 0
  BY DEF Straight
<1>2. e \in Seq(Nat) /\ e # << >> /\ e[1] = c[1] /\ End(e) = End(d) /\ l \in Nat /\ Len(c) <= l
  BY DEF Joins
<1>3. /\ \A i \in DOMAIN c : i \in DOMAIN e /\ e[i] = c[i]
      /\ \A i \in DOMAIN d : i + l \in DOMAIN e /\ e[i + l] = d[i]
  BY DEF Joins
<1>4. ASSUME NEW i \in DOMAIN e, e[i] # 0, i \notin DOMAIN c
      PROVE \E k \in DOMAIN d : i = k + l /\ e[i] = d[k]
  BY <1>4 DEF Joins
<1>5. /\ \A i \in DOMAIN c : c[i] <= End(c)
      /\ \A i, j \in DOMAIN c : i < j /\ c[i] # 0 /\ c[j] # 0 => c[i] < c[j]
      /\ \A r \in n + 1 .. End(c) : \E i \in DOMAIN c : c[i] = r
  BY StraightFollows DEF Follows, Straight
<1>6. /\ \A i, j \in DOMAIN d : i < j /\ d[i] # 0 /\ d[j] # 0 => d[i] < d[j]
      /\ \A r \in End(c) + 1 .. End(d) : \E i \in DOMAIN d : d[i] = r
      /\ d[1] = End(c) + 1
  BY DEF Straight
<1>7. /\ DOMAIN c = 1 .. Len(c) /\ Len(c) \in Nat \ {0} /\ \A i \in DOMAIN c : c[i] \in Nat
      /\ End(c) \in Nat
  BY <1>1, ContentFacts
<1>8. /\ DOMAIN d = 1 .. Len(d) /\ Len(d) \in Nat \ {0} /\ \A i \in DOMAIN d : d[i] \in Nat
      /\ End(d) \in Nat
  BY <1>1, ContentFacts
<1>9. DOMAIN e = 1 .. Len(e) /\ Len(e) \in Nat
  BY <1>2, ContentFacts
<1>10. \A i \in DOMAIN d : d[i] # 0 => d[i] > End(c)
  <2> TAKE i \in DOMAIN d
  <2> HAVE d[i] # 0
  <2>1. 1 \in DOMAIN d /\ d[i] \in Nat /\ (i = 1 \/ 1 < i) /\ d[1] # 0
    BY <1>8, <1>6, <1>7
  <2>2. i = 1 \/ d[1] < d[i]
    BY <2>1, <1>6
  <2> QED BY <2>1, <2>2, <1>6, <1>7
<1>11. ASSUME NEW i \in DOMAIN e, NEW j \in DOMAIN e, i < j, e[i] # 0, e[j] # 0
       PROVE e[i] < e[j]
  <2>1. CASE j \in DOMAIN c
    <3>1. i \in DOMAIN c
      BY <2>1, <1>11, <1>7, <1>9
    <3> QED BY <3>1, <2>1, <1>3, <1>5, <1>11
  <2>2. CASE j \notin DOMAIN c
    <3>1. PICK k \in DOMAIN d : j = k + l /\ e[j] = d[k]
      BY <2>2, <1>4, <1>11
    <3>2. e[j] > End(c)
      BY <3>1, <1>10, <1>11
    <3>3. CASE i \in DOMAIN c
      <4>1. e[i] = c[i] /\ c[i] <= End(c) /\ c[i] \in Nat /\ e[j] \in Nat
        BY <3>3, <3>1, <1>3, <1>5, <1>7, <1>8
      <4> QED BY <4>1, <3>2, <1>7
    <3>4. CASE i \notin DOMAIN c
      <4>1. PICK h \in DOMAIN d : i = h + l /\ e[i] = d[h]
        BY <3>4, <1>4, <1>11
      <4>2. h < k
        BY <4>1, <3>1, <1>2, <1>8, <1>11
      <4> QED BY <4>1, <4>2, <3>1, <1>6, <1>11
    <3> QED BY <3>3, <3>4
  <2> QED BY <2>1, <2>2
<1>12. ASSUME NEW r \in n + 1 .. End(e)
       PROVE \E i \in DOMAIN e : e[i] = r
  <2>1. CASE r <= End(c)
    <3>1. PICK i \in DOMAIN c : c[i] = r
      BY <2>1, <1>1, <1>5, <1>7
    <3> QED BY <3>1, <1>3
  <2>2. CASE r > End(c)
    <3>1. r \in End(c) + 1 .. End(d)
      BY <2>2, <1>1, <1>2, <1>7, <1>8
    <3>2. PICK i \in DOMAIN d : d[i] = r
      BY <3>1, <1>6
    <3> QED BY <3>2, <1>3
  <2> QED BY <2>1, <2>2, <1>1, <1>7
<1> QED BY <1>1, <1>2, <1>11, <1>12 DEF Straight

LEMMA FollowsJoin ==
    ASSUME NEW c, NEW d, NEW n, NEW e, NEW l, Follows(c, n), Follows(d, End(c)), Joins(e, c, d, l)
    PROVE Follows(e, n) /\ End(e) = End(d)
<1>1. /\ c \in Seq(Nat) /\ d \in Seq(Nat) /\ c # << >> /\ d # << >>
      /\ n \in Nat /\ n <= End(c) /\ End(c) <= End(d)
  BY DEF Follows
<1>2. e \in Seq(Nat) /\ e # << >> /\ e[1] = c[1] /\ End(e) = End(d) /\ l \in Nat /\ Len(c) <= l
  BY DEF Joins
<1>3. /\ \A i \in DOMAIN c : i \in DOMAIN e /\ e[i] = c[i]
      /\ \A i \in DOMAIN d : i + l \in DOMAIN e /\ e[i + l] = d[i]
  BY DEF Joins
<1>4. /\ \A j \in DOMAIN c : c[j] <= End(c)
      /\ \A r \in n + 1 .. End(c) : \E i \in DOMAIN c : c[i] = r
      /\ \A j \in DOMAIN c : c[j] > n + 1 => \E i \in 1 .. j - 1 : c[i] = c[j] - 1
  BY DEF Follows
<1>5. /\ \A j \in DOMAIN d : d[j] <= End(d)
      /\ \A r \in End(c) + 1 .. End(d) : \E i \in DOMAIN d : d[i] = r
      /\ \A j \in DOMAIN d : d[j] > End(c) + 1 => \E i \in 1 .. j - 1 : d[i] = d[j] - 1
  BY DEF Follows
<1>7. /\ DOMAIN c = 1 .. Len(c) /\ Len(c) \in Nat \ {0} /\ \A i \in DOMAIN c : c[i] \in Nat
      /\ End(c) \in Nat
  BY <1>1, ContentFacts
<1>8. /\ DOMAIN d = 1 .. Len(d) /\ Len(d) \in Nat \ {0} /\ \A i \in DOMAIN d : d[i] \in Nat
      /\ End(d) \in Nat
  BY <1>1, ContentFacts
<1>9. DOMAIN e = 1 .. Len(e) /\ Len(e) \in Nat
  BY <1>2, ContentFacts
<1>10. ASSUME NEW j \in DOMAIN e
       PROVE e[j] <= End(e) /\ (e[j] > n + 1 => \E i \in 1 .. j - 1 : e[i] = e[j] - 1)
  <2>1. CASE j \in DOMAIN c
    <3>1. e[j] = c[j] /\ c[j] \in Nat /\ c[j] <= End(c)
      BY <2>1, <1>3, <1>4, <1>7
    <3>2. ASSUME e[j] > n + 1 PROVE \E i \in 1 .. j - 1 : e[i] = e[j] - 1
      <4>1. PICK i \in 1 .. j - 1 : c[i] = c[j] - 1
        BY <3>1, <3>2, <2>1, <1>4
      <4>2. i \in DOMAIN c
        BY <2>1, <1>7
      <4> QED BY <4>1, <4>2, <3>1, <1>3
    <3>3. e[j] <= End(e)
      BY <3>1, <1>1, <1>2, <1>7, <1>8
    <3> QED BY <3>2, <3>3
  <2>2. CASE e[j] = 0
    BY <2>2, <1>1, <1>2, <1>8
  <2>3. CASE \E k \in DOMAIN d : j = k + l /\ e[j] = d[k]
    <3>1. PICK k \in DOMAIN d : j = k + l /\ e[j] = d[k]
      BY <2>3
    <3>2. d[k] <= End(d) /\ d[k] \in Nat /\ k \in 1 .. Len(d)
      BY <1>5, <1>8
    <3>3. ASSUME e[j] > n + 1 PROVE \E i \in 1 .. j - 1 : e[i] = e[j] - 1
      <4>1. CASE d[k] > End(c) + 1
        <5>1. PICK i \in 1 .. k - 1 : d[i] = d[k] - 1
          BY <4>1, <1>5
        <5>2. i \in DOMAIN d /\ i + l \in 1 .. j - 1
          BY <5>1, <3>1, <3>2, <1>2, <1>8
        <5>3. e[i + l] = e[j] - 1
          BY <5>1, <5>2, <3>1, <1>3
        <5> QED BY <5>2, <5>3
      <4>2. CASE d[k] <= End(c) + 1
        <5>1. d[k] - 1 \in n + 1 .. End(c)
          BY <4>2, <3>1, <3>2, <3>3, <1>1, <1>7
        <5>2. PICK i \in DOMAIN c : c[i] = d[k] - 1
          BY <5>1, <1>4
        <5>3. i \in 1 .. j - 1
          BY <3>1, <3>2, <1>2, <1>7
        <5> QED BY <5>2, <5>3, <3>1, <1>3
      <4> QED BY <4>1, <4>2, <3>2, <1>7
    <3> QED BY <3>1, <3>2, <3>3, <1>2
  <2> QED BY <2>1, <2>2, <2>3 DEF Joins
<1>11. ASSUME NEW r \in n + 1 .. End(e)
       PROVE \E i \in DOMAIN e : e[i] = r
  <2>1. CASE r <= End(c)
    <3>1. PICK i \in DOMAIN c : c[i] = r
      BY <2>1, <1>1, <1>4, <1>7
    <3> QED BY <3>1, <1>3
  <2>2. CASE r > End(c)
    <3>1. r \in End(c) + 1 .. End(d)
      BY <2>2, <1>1, <1>2, <1>7, <1>8
    <3>2. PICK i \in DOMAIN d : d[i] = r
      BY <3>1, <1>5
    <3> QED BY <3>2, <1>3
  <2> QED BY <2>1, <2>2, <1>1, <1>7
<1>12. n <= End(e)
  BY <1>1, <1>2, <1>7, <1>8
<1> QED BY <1>1, <1>2, <1>10, <1>11, <1>12 DEF Follows

LEMMA LinkJoin ==
    ASSUME NEW kind, NEW c, NEW d, NEW n, NEW sep \in Seq({0}), Link(kind, c, n), Link(kind, d, End(c))
    PROVE Link(kind, c \o sep \o d, n) /\ End(c \o sep \o d) = End(d)
<1>1. c \in Seq(Nat) /\ d \in Seq(Nat) /\ c # << >> /\ d # << >>
  BY DEF Link, Straight, Follows
<1>2. Joins(c \o sep \o d, c, d, Len(c) + Len(sep))
  BY <1>1, JoinFacts
<1> QED BY <1>2, StraightJoin, FollowsJoin DEF Link

-----------------------------------------------------------------------------
(* Chunks, one after the other.                                             *)

Fines == [content : Seq(Nat), at : Nat]
Linked == [content : Seq(Nat), at : Nat, id : Nat]

LEMMA ChainAppend ==
    ASSUME NEW kind, NEW X, NEW s \in Seq(X), NEW x \in X, NEW n, NEW m,
           Chain(kind, s, n, m), Link(kind, x.content, m)
    PROVE Chain(kind, Append(s, x), n, End(x.content))
<1> DEFINE t == Append(s, x)
<1>1. /\ t \in Seq(X) /\ Len(t) = Len(s) + 1 /\ t[Len(t)] = x /\ t # << >>
      /\ \A k \in 1 .. Len(s) : t[k] = s[k]
      /\ DOMAIN t = 1 .. Len(s) + 1 /\ DOMAIN s = 1 .. Len(s) /\ Len(s) \in Nat
  OBVIOUS
<1>2. s = << >> <=> Len(s) = 0
  OBVIOUS
<1> HIDE DEF t
<1>3. ASSUME NEW k \in DOMAIN t
      PROVE Link(kind, t[k].content, IF k = 1 THEN n ELSE End(t[k - 1].content))
  <2>1. CASE k = Len(s) + 1 /\ s = << >>
    BY <2>1, <1>1, <1>2 DEF Chain, EndOf
  <2>2. CASE k = Len(s) + 1 /\ s # << >>
    <3>1. k # 1 /\ k - 1 \in 1 .. Len(s) /\ k - 1 = Len(s)
      BY <2>2, <1>1, <1>2
    <3>2. End(t[k - 1].content) = m
      BY <3>1, <2>2, <1>1 DEF Chain, EndOf
    <3> QED BY <3>1, <3>2, <2>2, <1>1
  <2>3. CASE k \in 1 .. Len(s)
    <3>1. t[k] = s[k] /\ (k = 1 \/ t[k - 1] = s[k - 1])
      BY <2>3, <1>1
    <3> QED BY <3>1, <2>3, <1>1 DEF Chain
  <2> QED BY <2>1, <2>2, <2>3, <1>1
<1>4. EndOf(t, n) = End(x.content)
  BY <1>1 DEF EndOf
<1>5. Chain(kind, t, n, End(x.content))
  BY <1>3, <1>4 DEF Chain
<1> QED BY <1>5 DEF t

LEMMA ChainTail ==
    ASSUME NEW kind, NEW X, NEW s \in Seq(X), s # << >>, NEW n, NEW m, Chain(kind, s, n, m)
    PROVE Link(kind, Head(s).content, n) /\ Chain(kind, Tail(s), End(Head(s).content), m)
<1> DEFINE t == Tail(s)
<1>1. /\ t \in Seq(X) /\ Len(t) = Len(s) - 1 /\ Head(s) = s[1]
      /\ \A k \in 1 .. Len(t) : t[k] = s[k + 1]
      /\ DOMAIN t = 1 .. Len(t) /\ DOMAIN s = 1 .. Len(s) /\ Len(s) \in Nat \ {0}
  OBVIOUS
<1> HIDE DEF t
<1>2. t = << >> <=> Len(t) = 0
  BY <1>1
<1>3. Link(kind, s[1].content, n)
  BY <1>1 DEF Chain
<1>4. ASSUME NEW k \in DOMAIN t
      PROVE Link(kind, t[k].content, IF k = 1 THEN End(s[1].content) ELSE End(t[k - 1].content))
  <2>1. k + 1 \in DOMAIN s /\ k + 1 # 1 /\ (k + 1) - 1 = k /\ t[k] = s[k + 1]
    BY <1>1
  <2>2. Link(kind, s[k + 1].content, End(s[k].content))
    BY <2>1 DEF Chain
  <2>3. IF k = 1 THEN s[k] = s[1] ELSE t[k - 1] = s[k]
    <3>1. CASE k # 1
      <4>1. k - 1 \in 1 .. Len(t) /\ (k - 1) + 1 = k
        BY <3>1, <1>1
      <4> QED BY <4>1, <3>1, <1>1
    <3> QED BY <3>1
  <2> QED BY <2>1, <2>2, <2>3
<1>5. EndOf(t, End(s[1].content)) = m
  <2>1. CASE t = << >>
    <3>1. Len(s) = 1
      BY <2>1, <1>1, <1>2
    <3> QED BY <3>1, <2>1 DEF Chain, EndOf
  <2>2. CASE t # << >>
    <3>1. Len(t) \in 1 .. Len(t) /\ Len(t) + 1 = Len(s)
      BY <2>2, <1>1, <1>2
    <3>2. t[Len(t)] = s[Len(s)]
      BY <3>1, <1>1
    <3> QED BY <3>2, <2>2 DEF Chain, EndOf
  <2> QED BY <2>1, <2>2
<1> QED BY <1>1, <1>3, <1>4, <1>5 DEF Chain, t

(* The last chunk takes up what follows it.                                 *)
JoinedTo(t, s, c) ==
    /\ DOMAIN t = DOMAIN s /\ Len(t) = Len(s) /\ t # << >>
    /\ \A k \in 1 .. Len(s) - 1 : t[k] = s[k]
    /\ t[Len(s)].content = s[Len(s)].content \o Break \o c

LEMMA JoinedFacts ==
    ASSUME NEW X, X \in {Fines, Linked}, fine \in Seq(X), fine # << >>, NEW c \in Seq(Nat)
    PROVE /\ Joined(c) \in Seq(X) /\ JoinedTo(Joined(c), fine, c)
          /\ Joined(c)[Len(fine)].at = fine[Len(fine)].at
          /\ fine[Len(fine)] \in Linked => Joined(c)[Len(fine)].id = fine[Len(fine)].id
<1>1. Break \in Seq(Nat)
  BY DEF Break
<1> HIDE DEF Break
<1>2. Len(fine) \in DOMAIN fine /\ DOMAIN fine = 1 .. Len(fine) /\ Len(fine) \in Nat \ {0}
      /\ fine[Len(fine)] \in X
  OBVIOUS
<1> DEFINE f == fine[Len(fine)]
<1> DEFINE g == [f EXCEPT !.content = @ \o Break \o c]
<1>3. g \in X /\ g.content = f.content \o Break \o c /\ g.at = f.at /\ (f \in Linked => g.id = f.id)
  <2> HIDE DEF f
  <2>1. CASE X = Fines
    <3>1. f \in [content : Seq(Nat), at : Nat]
      BY <2>1, <1>2 DEF Fines, f
    <3>2. f.content \o Break \o c \in Seq(Nat)
      BY <3>1, <1>1
    <3>3. ASSUME f \in Linked PROVE g.id = f.id
      BY <3>3 DEF Linked
    <3>4. g \in Fines /\ g.content = f.content \o Break \o c /\ g.at = f.at
      BY <3>1, <3>2 DEF Fines
    <3> QED BY <3>3, <3>4, <2>1
  <2>2. CASE X = Linked
    <3>1. f \in [content : Seq(Nat), at : Nat, id : Nat]
      BY <2>2, <1>2 DEF Linked, f
    <3>2. f.content \o Break \o c \in Seq(Nat)
      BY <3>1, <1>1
    <3>3. g \in Linked /\ g.content = f.content \o Break \o c /\ g.at = f.at /\ g.id = f.id
      BY <3>1, <3>2 DEF Linked
    <3> QED BY <3>3, <2>2
  <2> QED BY <2>1, <2>2
<1>4. Joined(c) = [fine EXCEPT ![Len(fine)] = g]
  BY Zenon DEF Joined
<1> HIDE DEF g
<1>5. /\ Joined(c) \in Seq(X) /\ Len(Joined(c)) = Len(fine) /\ DOMAIN Joined(c) = DOMAIN fine
      /\ Joined(c)[Len(fine)] = g
      /\ \A k \in 1 .. Len(fine) - 1 : Joined(c)[k] = fine[k]
  <2>1. [fine EXCEPT ![Len(fine)] = g] \in Seq(X)
    BY <1>2, <1>3
  <2>2. /\ Len([fine EXCEPT ![Len(fine)] = g]) = Len(fine)
        /\ DOMAIN [fine EXCEPT ![Len(fine)] = g] = DOMAIN fine
    OBVIOUS
  <2>3. [fine EXCEPT ![Len(fine)] = g][Len(fine)] = g
    BY <1>2
  <2>4. \A k \in 1 .. Len(fine) - 1 : [fine EXCEPT ![Len(fine)] = g][k] = fine[k]
    <3> DEFINE l == Len(fine)
    <3>1. l \in Nat /\ DOMAIN fine = 1 .. l
      BY <1>2
    <3> HIDE DEF l
    <3>2. \A k \in 1 .. l - 1 : k \in DOMAIN fine /\ k # l
      BY <3>1
    <3> QED BY <3>2 DEF l
  <2> QED BY <2>1, <2>2, <2>3, <2>4, <1>4
<1>6. Joined(c) # << >>
  BY <1>2, <1>5
<1> QED BY <1>3, <1>5, <1>6 DEF JoinedTo

LEMMA ChainJoin ==
    ASSUME NEW kind, NEW X, NEW s \in Seq(X), s # << >>, NEW n, NEW m, NEW c, NEW t,
           Chain(kind, s, n, m), Link(kind, c, m), JoinedTo(t, s, c)
    PROVE Chain(kind, t, n, End(c))
<1>1. DOMAIN s = 1 .. Len(s) /\ Len(s) \in Nat \ {0}
  OBVIOUS
<1>2. Break \in Seq({0})
  BY DEF Break
<1> HIDE DEF Break
<1> DEFINE l == Len(s)
<1> DEFINE before == IF l = 1 THEN n ELSE End(s[l - 1].content)
<1>3. Link(kind, s[l].content, before) /\ m = End(s[l].content)
  <2>1. l \in DOMAIN s
    BY <1>1
  <2>2. \A k \in DOMAIN s : Link(kind, s[k].content, IF k = 1 THEN n ELSE End(s[k - 1].content))
    BY DEF Chain
  <2>3. Link(kind, s[l].content, before)
    BY <2>1, <2>2
  <2>4. m = End(s[l].content)
    BY DEF Chain, EndOf
  <2> QED BY <2>3, <2>4
<1>4. Link(kind, t[l].content, before) /\ End(t[l].content) = End(c)
  <2> HIDE DEF before
  <2>1. Link(kind, c, End(s[l].content)) /\ t[l].content = s[l].content \o Break \o c
    BY <1>3 DEF JoinedTo
  <2> HIDE DEF l
  <2> QED BY <2>1, <1>2, <1>3, LinkJoin
<1>5. ASSUME NEW k \in DOMAIN t
      PROVE Link(kind, t[k].content, IF k = 1 THEN n ELSE End(t[k - 1].content))
  <2>1. CASE k = l
    <3>1. k = 1 \/ t[k - 1] = s[k - 1]
      BY <2>1, <1>1 DEF JoinedTo
    <3> QED BY <3>1, <2>1, <1>4
  <2>2. CASE k # l
    <3>1. k \in DOMAIN s /\ t[k] = s[k] /\ (k = 1 \/ t[k - 1] = s[k - 1])
      BY <2>2, <1>1 DEF JoinedTo
    <3> QED BY <3>1 DEF Chain
  <2> QED BY <2>1, <2>2
<1>6. EndOf(t, n) = End(c)
  BY <1>4 DEF EndOf, JoinedTo
<1> QED BY <1>5, <1>6 DEF Chain

-----------------------------------------------------------------------------
(* What the chunks before tell, and one more.                               *)

LEMMA RunesOfMember ==
    ASSUME NEW S, NEW r
    PROVE r \in RunesOf(S) <=> \E c \in S : \E i \in DOMAIN c.content : c.content[i] = r
  BY DEF RunesOf, ToSet

LEMMA TellsAppend ==
    ASSUME NEW X, NEW s \in Seq(X), NEW x \in X, NEW n \in Nat, Tells(s, n), Follows(x.content, n)
    PROVE Tells(Append(s, x), End(x.content))
<1> DEFINE t == Append(s, x)
<1> DEFINE c == x.content
<1>1. /\ t \in Seq(X) /\ Len(t) = Len(s) + 1 /\ t[Len(s) + 1] = x
      /\ \A k \in 1 .. Len(s) : t[k] = s[k]
      /\ DOMAIN t = 1 .. Len(s) + 1 /\ DOMAIN s = 1 .. Len(s) /\ Len(s) \in Nat
  OBVIOUS
<1> HIDE DEF t
<1>2. ToSet(t) = ToSet(s) \cup {x}
  BY <1>1 DEF ToSet
<1>3. RunesOf(ToSet(t)) = RunesOf(ToSet(s)) \cup ToSet(c)
  BY <1>2 DEF RunesOf
<1>4. /\ c \in Seq(Nat) /\ c # << >> /\ n <= End(c) /\ \A j \in DOMAIN c : c[j] <= End(c)
      /\ \A r \in n + 1 .. End(c) : \E i \in DOMAIN c : c[i] = r
      /\ \A j \in DOMAIN c : c[j] > n + 1 => \E i \in 1 .. j - 1 : c[i] = c[j] - 1
  BY DEF Follows
<1>5. DOMAIN c = 1 .. Len(c) /\ Len(c) \in Nat \ {0} /\ \A i \in DOMAIN c : c[i] \in Nat
      /\ End(c) \in Nat
  BY <1>4, ContentFacts
<1>6. ToSet(c) = {c[i] : i \in DOMAIN c}
  BY DEF ToSet
<1> HIDE DEF c
<1>7. RunesOf(ToSet(t)) \ {0} = 1 .. End(c)
  <2>1. RunesOf(ToSet(s)) \ {0} = 1 .. n
    BY DEF Tells
  <2>2. ASSUME NEW r \in RunesOf(ToSet(t)) \ {0} PROVE r \in 1 .. End(c)
    BY <2>1, <2>2, <1>3, <1>4, <1>5, <1>6
  <2>3. ASSUME NEW r \in 1 .. End(c) PROVE r \in RunesOf(ToSet(t)) \ {0}
    <3>1. r \in 1 .. n \/ r \in n + 1 .. End(c)
      BY <1>5
    <3> QED BY <3>1, <2>1, <1>3, <1>4, <1>6
  <2> QED BY <2>2, <2>3
<1>8. ASSUME NEW i \in 1 .. Len(s), NEW j
      PROVE ReadBefore(t, i, j) = ReadBefore(s, i, j)
  <2>1. \A k \in 1 .. i - 1 : t[k] = s[k]
    BY <1>1
  <2>2. {t[k] : k \in 1 .. i - 1} = {s[k] : k \in 1 .. i - 1}
    BY <2>1
  <2>3. t[i] = s[i]
    BY <1>1
  <2> QED BY <2>2, <2>3 DEF ReadBefore
<1>10. ASSUME NEW i \in DOMAIN t, NEW j \in DOMAIN t[i].content, t[i].content[j] > 1
       PROVE t[i].content[j] - 1 \in ReadBefore(t, i, j)
  <2>1. CASE i \in 1 .. Len(s)
    <3>1. t[i] = s[i] /\ i \in DOMAIN s
      BY <2>1, <1>1
    <3> QED BY <3>1, <2>1, <1>8, <1>10 DEF Tells
  <2>2. CASE i = Len(s) + 1
    <3>1. t[i].content = c
      BY <2>2, <1>1 DEF c
    <3>2. ReadBefore(t, i, j) = RunesOf(ToSet(s)) \cup {c[k] : k \in 1 .. j - 1}
      <4>1. i - 1 = Len(s)
        BY <2>2, <1>1
      <4>2. {t[k] : k \in 1 .. Len(s)} = ToSet(s)
        BY <1>1 DEF ToSet
      <4> QED BY <3>1, <4>1, <4>2 DEF ReadBefore
    <3>3. c[j] \in Nat /\ c[j] > 1 /\ j \in DOMAIN c
      BY <3>1, <1>10, <1>5
    <3>4. CASE c[j] > n + 1
      BY <3>1, <3>2, <3>3, <3>4, <1>4
    <3>5. CASE c[j] <= n + 1
      <4>1. c[j] - 1 \in 1 .. n
        BY <3>3, <3>5
      <4>2. c[j] - 1 \in RunesOf(ToSet(s))
        BY <4>1 DEF Tells
      <4> QED BY <4>2, <3>1, <3>2
    <3> QED BY <3>3, <3>4, <3>5
  <2> QED BY <2>1, <2>2, <1>1
<1>11. Tells(t, End(c))
  BY <1>7, <1>10 DEF Tells
<1> QED BY <1>11 DEF t, c

LEMMA TellsJoin ==
    ASSUME NEW X, NEW s \in Seq(X), s # << >>, NEW n \in Nat, NEW c, NEW t,
           s[Len(s)].content \in Seq(Nat), s[Len(s)].content # << >>,
           Tells(s, n), Follows(c, n), JoinedTo(t, s, c)
    PROVE Tells(t, End(c))
<1> DEFINE l == Len(s)
<1> DEFINE p == s[l].content
<1> DEFINE e == t[l].content
<1> DEFINE m == Len(p) + Len(Break)
<1> DEFINE Before == {s[k] : k \in 1 .. l - 1}
<1>1. DOMAIN s = 1 .. l /\ l \in Nat \ {0} /\ DOMAIN t = 1 .. l /\ \A k \in 1 .. l - 1 : t[k] = s[k]
  BY DEF JoinedTo
<1>2. /\ c \in Seq(Nat) /\ c # << >> /\ n <= End(c) /\ \A j \in DOMAIN c : c[j] <= End(c)
      /\ \A r \in n + 1 .. End(c) : \E i \in DOMAIN c : c[i] = r
      /\ \A j \in DOMAIN c : c[j] > n + 1 => \E i \in 1 .. j - 1 : c[i] = c[j] - 1
  BY DEF Follows
<1>3. DOMAIN c = 1 .. Len(c) /\ Len(c) \in Nat \ {0} /\ \A i \in DOMAIN c : c[i] \in Nat
      /\ End(c) \in Nat
  BY <1>2, ContentFacts
<1>4. Joins(e, p, c, m)
  <2>1. Break \in Seq({0})
    BY DEF Break
  <2>2. e = p \o Break \o c
    BY DEF JoinedTo
  <2> QED BY <2>1, <2>2, <1>2, JoinFacts
<1>5. p \in Seq(Nat) /\ p # << >> /\ DOMAIN p = 1 .. Len(p) /\ Len(p) \in Nat
  BY ContentFacts
<1>6. /\ \A i \in DOMAIN s : i # l => t[i] = s[i]
      /\ \A i : {t[k] : k \in 1 .. i - 1} = {s[k] : k \in 1 .. i - 1} \/ i \notin DOMAIN t
  <2> HIDE DEF l
  <2>1. \A i \in 1 .. l : i # l => i \in 1 .. l - 1
    BY <1>1
  <2>2. \A i \in 1 .. l : \A k \in 1 .. i - 1 : k \in 1 .. l - 1
    BY <1>1
  <2> QED BY <2>1, <2>2, <1>1
<1>7. ToSet(s) = Before \cup {s[l]} /\ ToSet(t) = Before \cup {t[l]}
  <2>1. 1 .. l = (1 .. l - 1) \cup {l}
    BY <1>1
  <2>2. ToSet(s) = {s[k] : k \in 1 .. l} /\ ToSet(t) = {t[k] : k \in 1 .. l}
    BY <1>1 DEF ToSet
  <2>3. Before = {t[k] : k \in 1 .. l - 1}
    BY <1>1
  <2> HIDE DEF l
  <2> QED BY <2>1, <2>2, <2>3
<1>8. l \in DOMAIN s /\ s[l].content = p /\ t[l].content = e
  BY <1>1
<1> HIDE DEF l, p, e, m, Before
<1>9. \A r : r \in RunesOf(ToSet(s)) <=> r \in RunesOf(Before) \/ \E i \in DOMAIN p : p[i] = r
  BY <1>7, <1>8, RunesOfMember
<1>10. \A r : r \in RunesOf(ToSet(t)) <=> r \in RunesOf(Before) \/ \E i \in DOMAIN e : e[i] = r
  BY <1>7, <1>8, RunesOfMember
<1>11. m \in Nat /\ Len(p) <= m /\ e \in Seq(Nat)
  BY <1>4 DEF Joins
<1>12. /\ \A i \in DOMAIN p : i \in DOMAIN e /\ e[i] = p[i]
       /\ \A i \in DOMAIN c : i + m \in DOMAIN e /\ e[i + m] = c[i]
  BY <1>4 DEF Joins
<1>13. ASSUME NEW i \in DOMAIN e, e[i] # 0
       PROVE i \in DOMAIN p \/ \E k \in DOMAIN c : i = k + m /\ e[i] = c[k]
  BY <1>4, <1>13 DEF Joins
<1>14. RunesOf(ToSet(s)) \ {0} = 1 .. n
  BY DEF Tells
<1>15. RunesOf(ToSet(t)) \ {0} = 1 .. End(c)
  <2>1. ASSUME NEW r \in RunesOf(ToSet(t)) \ {0} PROVE r \in 1 .. End(c)
    <3>1. CASE r \in RunesOf(ToSet(s))
      <4>1. r \in 1 .. n
        BY <3>1, <2>1, <1>14
      <4>2. n <= End(c) /\ End(c) \in Nat
        BY <1>2, <1>3
      <4> QED BY <4>1, <4>2
    <3>2. CASE r \notin RunesOf(ToSet(s))
      <4>1. PICK i \in DOMAIN e : e[i] = r
        BY <3>2, <2>1, <1>9, <1>10
      <4>2. i \notin DOMAIN p
        BY <4>1, <3>2, <1>9, <1>12
      <4>3. PICK k \in DOMAIN c : c[k] = r
        BY <4>1, <4>2, <2>1, <1>13
      <4> QED BY <4>3, <2>1, <1>2, <1>3
    <3> QED BY <3>1, <3>2
  <2>2. ASSUME NEW r \in 1 .. End(c) PROVE r \in RunesOf(ToSet(t))
    <3>1. CASE r \in 1 .. n
      BY <3>1, <1>9, <1>10, <1>12, <1>14
    <3>2. CASE r \in n + 1 .. End(c)
      <4>1. PICK k \in DOMAIN c : c[k] = r
        BY <3>2, <1>2
      <4>2. k + m \in DOMAIN e /\ e[k + m] = r
        BY <4>1, <1>12
      <4> QED BY <4>2, <1>10
    <3> QED BY <3>1, <3>2, <1>3
  <2> QED BY <2>1, <2>2
<1>16. ASSUME NEW i \in DOMAIN t, NEW j \in DOMAIN t[i].content, t[i].content[j] > 1
       PROVE t[i].content[j] - 1 \in ReadBefore(t, i, j)
  <2>1. {t[k] : k \in 1 .. i - 1} = {s[k] : k \in 1 .. i - 1}
    BY <1>6
  <2>2. CASE i # l
    <3>1. t[i] = s[i] /\ i \in DOMAIN s
      BY <2>2, <1>1, <1>6
    <3>2. ReadBefore(t, i, j) = ReadBefore(s, i, j)
      BY <3>1, <2>1 DEF ReadBefore
    <3> QED BY <3>1, <3>2, <1>16 DEF Tells
  <2>3. CASE i = l
    <3>1. j \in DOMAIN e /\ e[j] > 1 /\ t[i].content[j] = e[j]
      BY <2>3, <1>8, <1>16
    <3>2. ReadBefore(t, i, j) = RunesOf(Before) \cup {e[k] : k \in 1 .. j - 1}
      BY <2>1, <2>3, <1>8 DEF ReadBefore, Before
    <3>3. DOMAIN e = 1 .. Len(e) /\ j \in Nat
      BY <3>1, <1>11
    <3>4. CASE j \in DOMAIN p
      <4>1. ReadBefore(s, i, j) = RunesOf(Before) \cup {p[k] : k \in 1 .. j - 1}
        BY <2>3, <1>8 DEF ReadBefore, Before
      <4>2. p[j] - 1 \in ReadBefore(s, i, j)
        BY <3>1, <3>4, <2>3, <1>8, <1>12 DEF Tells
      <4>3. \A k \in 1 .. j - 1 : e[k] = p[k]
        <5>1. \A k \in 1 .. j - 1 : k \in 1 .. Len(p)
          BY <3>4, <1>5
        <5> QED BY <5>1, <1>5, <1>12
      <4>4. e[j] = p[j]
        BY <3>4, <1>12
      <4> QED BY <4>1, <4>2, <4>3, <4>4, <3>1, <3>2
    <3>5. CASE j \notin DOMAIN p
      <4>1. PICK k \in DOMAIN c : j = k + m /\ e[j] = c[k]
        BY <3>1, <3>5, <1>13
      <4>2. CASE c[k] > n + 1
        <5>1. PICK h \in 1 .. k - 1 : c[h] = c[k] - 1
          BY <4>2, <1>2
        <5>2. h \in DOMAIN c /\ h + m \in 1 .. j - 1
          BY <5>1, <4>1, <1>3, <1>11
        <5>3. e[h + m] = e[j] - 1
          BY <5>1, <5>2, <4>1, <1>12
        <5> QED BY <5>2, <5>3, <3>1, <3>2
      <4>3. CASE c[k] <= n + 1
        <5>1. c[k] - 1 \in 1 .. n
          BY <4>1, <4>3, <3>1, <1>3
        <5>2. c[k] - 1 \in RunesOf(Before) \/ \E h \in DOMAIN p : p[h] = c[k] - 1
          BY <5>1, <1>9, <1>14
        <5>3. \A h \in DOMAIN p : h \in 1 .. j - 1
          BY <4>1, <1>3, <1>5, <1>11
        <5> QED BY <5>2, <5>3, <4>1, <3>1, <3>2, <1>12
      <4> QED BY <4>1, <4>2, <4>3, <1>3
    <3> QED BY <3>4, <3>5
  <2> QED BY <2>2, <2>3
<1> QED BY <1>15, <1>16 DEF Tells

-----------------------------------------------------------------------------
(* What each stage holds.                                                   *)

(* What has been taken of the paragraph is in fine and buf.                 *)
Cutting(m) ==
    IF taken = 0 THEN buf = << >> /\ Chain("straight", todo, m, Total)
    ELSE /\ todo # << >>
         /\ \E n \in Nat : Straight(Head(todo).content, n)
         /\ taken \in DOMAIN Head(todo).content /\ Head(todo).content[taken] # 0
         /\ Straight(buf, m) /\ End(buf) = Head(todo).content[taken]
         /\ Chain("straight", Tail(todo), End(Head(todo).content), Total)

Sectioned(s) ==
    \A i \in DOMAIN s :
        /\ s[i].id \in DOMAIN coarse
        /\ coarse[s[i].id].heading = SectionAt(s[i].at)
        /\ s[i].content # << >> /\ Head(s[i].content) \in coarse[s[i].id].runes

ChunkerInv ==
    /\ source \in Sources /\ params \in Params
    /\ stage \in {"merge", "split", "fragments", "overlap", "panicked", "semantic"}
    /\ stage # "split" => taken = 0 /\ buf = << >>
    /\ longTail => stage = "overlap" /\ todo # << >>
    /\ stage \in DOMAIN NextStage \cup {"overlap"} => fine \in Seq(Fines) /\ todo \in Seq(Fines)
    /\ stage \in {"merge", "fragments"} =>
          \E m \in Nat : Chain("straight", fine, 0, m) /\ Chain("straight", todo, m, Total)
    /\ stage = "split" => \E m \in Nat : Chain("straight", fine, 0, m) /\ Cutting(m)
    /\ stage = "overlap" =>
          /\ fine # << >>
          /\ \E m \in Nat : Chain("told", fine, 0, m) /\ Tells(fine, m) /\ Chain("straight", todo, m, Total)
    /\ stage = "semantic" =>
          /\ fine \in Seq(Linked) /\ todo \in Seq(Linked)
          /\ (UNION {coarse[k].runes : k \in DOMAIN coarse}) \ {0} = 1 .. Total
          /\ Sectioned(fine) /\ Sectioned(todo)
          /\ \E m \in Nat : Tells(fine, m) /\ Chain("told", todo, m, Total)

LEMMA LinkFacts ==
    ASSUME NEW kind, NEW c, NEW n, Link(kind, c, n)
    PROVE c \in Seq(Nat) /\ c # << >> /\ End(c) \in Nat /\ n \in Nat
<1>1. c \in Seq(Nat) /\ c # << >> /\ n \in Nat
  BY DEF Link, Straight, Follows
<1> QED BY <1>1, ContentFacts

(* A chunk is appended or joins the one before.                             *)
LEMMA TakeUp ==
    ASSUME NEW kind, NEW X, X \in {Fines, Linked}, fine \in Seq(X), todo \in Seq(X), todo # << >>, NEW m,
           Chain(kind, fine, 0, m), Chain(kind, todo, m, Total), todo' = Tail(todo),
           \/ fine' = Append(fine, Head(todo))
           \/ fine # << >> /\ fine' = Joined(Head(todo).content)
    PROVE /\ fine' \in Seq(X) /\ todo' \in Seq(X)
          /\ \E n \in Nat : Chain(kind, fine', 0, n) /\ Chain(kind, todo', n, Total)
<1> DEFINE c == Head(todo).content
<1>1. Link(kind, c, m) /\ Chain(kind, todo', End(c), Total)
  BY ChainTail
<1>2. Head(todo) \in X /\ todo' \in Seq(X)
  OBVIOUS
<1>3. c \in Seq(Nat) /\ End(c) \in Nat
  BY <1>1, LinkFacts
<1>4. CASE fine' = Append(fine, Head(todo))
  <2>1. Chain(kind, fine', 0, End(c))
    BY <1>1, <1>2, <1>4, ChainAppend
  <2>2. fine' \in Seq(X)
    BY <1>2, <1>4
  <2> QED BY <2>1, <2>2, <1>1, <1>2, <1>3
<1>5. CASE fine # << >> /\ fine' = Joined(c)
  <2>1. fine' \in Seq(X) /\ JoinedTo(fine', fine, c)
    BY <1>3, <1>5, JoinedFacts
  <2>2. Chain(kind, fine', 0, End(c))
    BY <2>1, <1>1, <1>5, ChainJoin
  <2> QED BY <2>1, <2>2, <1>1, <1>2, <1>3
<1> QED BY <1>4, <1>5

LEMMA MergeShortKeeps == ChunkerInv /\ (MergeShort \/ MergeFragments) => ChunkerInv'
<1> SUFFICES ASSUME ChunkerInv, MergeShort \/ MergeFragments PROVE ChunkerInv'
  OBVIOUS
<1>1. /\ stage \in {"merge", "fragments"} /\ todo # << >> /\ todo' = Tail(todo)
      /\ \/ fine' = Append(fine, Head(todo))
         \/ fine # << >> /\ fine' = Joined(Head(todo).content)
      /\ UNCHANGED <<source, params, stage, taken, buf, longTail>>
  BY DEF MergeShort, MergeFragments
<1>2. fine \in Seq(Fines) /\ todo \in Seq(Fines) /\ ~longTail
  BY <1>1 DEF ChunkerInv, NextStage
<1>3. PICK m \in Nat : Chain("straight", fine, 0, m) /\ Chain("straight", todo, m, Total)
  BY <1>1 DEF ChunkerInv
<1>4. /\ fine' \in Seq(Fines) /\ todo' \in Seq(Fines)
      /\ \E n \in Nat : Chain("straight", fine', 0, n) /\ Chain("straight", todo', n, Total)
  BY <1>1, <1>2, <1>3, TakeUp
<1>5. Total' = Total /\ \A s, n, k : Chain("straight", s, n, k)' = Chain("straight", s, n, k)
  BY <1>1 DEF Total, Chain, Link
<1>6. \E n \in Nat : Chain("straight", fine', 0, n) /\ Chain("straight", todo', n, Total')
  BY <1>4, <1>5
<1> QED BY <1>1, <1>2, <1>4, <1>6 DEF ChunkerInv, NextStage

LEMMA TotalPositive == source \in Sources => Total \in Nat \ {0}
<1> SUFFICES ASSUME source \in Sources PROVE Total \in Nat \ {0}
  OBVIOUS
<1>1. source.last \in Seq(Nat \ {0}) /\ source.last # << >>
  BY SourcesAssumption
<1>2. Len(source.last) \in DOMAIN source.last
  BY <1>1
<1> QED BY <1>1, <1>2 DEF Total, Last

LEMMA EmptyChain == \A kind, n : Chain(kind, << >>, n, n)
  BY DEF Chain, EndOf

LEMMA ChainEmpty ==
    ASSUME NEW kind, NEW n, NEW m, Chain(kind, << >>, n, m)
    PROVE m = n
  BY DEF Chain, EndOf

LEMMA FirstTells ==
    ASSUME NEW x, Follows(x.content, 0)
    PROVE Tells(<<x>>, End(x.content)) /\ Chain("told", <<x>>, 0, End(x.content))
<1>1. Tells(<< >>, 0)
  <2>1. ToSet(<< >>) = {}
    BY DEF ToSet
  <2> QED BY <2>1 DEF Tells, RunesOf
<1>2. << >> \in Seq({x}) /\ x \in {x} /\ Append(<< >>, x) = <<x>>
  OBVIOUS
<1>3. Tells(<<x>>, End(x.content))
  BY <1>1, <1>2, TellsAppend
<1>4. Chain("told", Append(<< >>, x), 0, End(x.content))
  <2>1. Link("told", x.content, 0)
    BY DEF Link
  <2> QED BY <2>1, <1>2, EmptyChain, ChainAppend
<1> QED BY <1>2, <1>3, <1>4

LEMMA StageEndsKeeps == ChunkerInv /\ StageEnds => ChunkerInv'
<1> SUFFICES ASSUME ChunkerInv, StageEnds PROVE ChunkerInv'
  OBVIOUS
<1>1. /\ todo = << >> /\ stage' = NextStage[stage] /\ UNCHANGED <<source, params, taken, buf, longTail>>
      /\ stage \in {"merge", "split", "fragments"} /\ NextStage[stage] \in {"split", "fragments", "overlap"}
  BY DEF StageEnds, NextStage
<1>2. fine \in Seq(Fines) /\ ~longTail /\ Total' = Total
  BY <1>1 DEF ChunkerInv, NextStage, Total
<1>3. taken = 0 /\ buf = << >> /\ Chain("straight", fine, 0, Total)
  <2>1. CASE stage = "split"
    <3>1. PICK m \in Nat : Chain("straight", fine, 0, m) /\ Cutting(m)
      BY <2>1 DEF ChunkerInv
    <3>2. taken = 0 /\ buf = << >> /\ Chain("straight", << >>, m, Total)
      BY <3>1, <1>1 DEF Cutting
    <3> QED BY <3>1, <3>2, ChainEmpty
  <2>2. CASE stage # "split"
    <3>1. PICK m \in Nat : Chain("straight", fine, 0, m) /\ Chain("straight", << >>, m, Total)
      BY <2>2, <1>1 DEF ChunkerInv
    <3>2. taken = 0 /\ buf = << >>
      BY <2>2 DEF ChunkerInv
    <3> QED BY <3>1, <3>2, ChainEmpty
  <2> QED BY <2>1, <2>2
<1>4. CASE stage = "merge"
  <2>1. stage' = "split" /\ fine' = << >> /\ todo' = fine
    BY <1>1, <1>4 DEF StageEnds, NextStage
  <2>2. Chain("straight", fine', 0, 0) /\ Cutting(0)'
    BY <2>1, <1>1, <1>2, <1>3, EmptyChain DEF Cutting
  <2>3. fine' \in Seq(Fines) /\ todo' \in Seq(Fines)
    BY <2>1, <1>2
  <2>4. \E m \in Nat : Chain("straight", fine', 0, m) /\ Cutting(m)'
    BY <2>2
  <2> QED BY <2>1, <2>3, <2>4, <1>1, <1>2 DEF ChunkerInv, NextStage
<1>5. CASE stage = "split"
  <2>1. stage' = "fragments" /\ fine' = << >> /\ todo' = fine
    BY <1>1, <1>5 DEF StageEnds, NextStage
  <2>2. Chain("straight", fine', 0, 0) /\ Chain("straight", todo', 0, Total')
    BY <2>1, <1>2, <1>3, EmptyChain
  <2>3. fine' \in Seq(Fines) /\ todo' \in Seq(Fines)
    BY <2>1, <1>2
  <2>4. \E m \in Nat : Chain("straight", fine', 0, m) /\ Chain("straight", todo', m, Total')
    BY <2>2
  <2> QED BY <2>1, <2>3, <2>4, <1>1, <1>2, <1>3 DEF ChunkerInv, NextStage
<1>6. CASE stage = "fragments"
  <2>1. stage' = "overlap" /\ fine' = <<Head(fine)>> /\ todo' = Tail(fine)
    BY <1>1, <1>6 DEF StageEnds, NextStage
  <2>2. fine # << >>
    BY <1>3, ChainEmpty, TotalPositive DEF ChunkerInv
  <2> DEFINE c == Head(fine).content
  <2>3. Link("straight", c, 0) /\ Chain("straight", Tail(fine), End(c), Total)
    BY <1>2, <1>3, <2>2, ChainTail
  <2>4. Follows(c, 0) /\ End(c) \in Nat
    BY <2>3, StraightFollows, LinkFacts DEF Link
  <2>5. Tells(<<Head(fine)>>, End(c)) /\ Chain("told", <<Head(fine)>>, 0, End(c))
    BY <2>4, FirstTells
  <2>6. fine' \in Seq(Fines) /\ todo' \in Seq(Fines) /\ fine' # << >>
    BY <2>1, <2>2, <1>2
  <2>7. \E m \in Nat : Chain("told", fine', 0, m) /\ Tells(fine', m) /\ Chain("straight", todo', m, Total')
    BY <2>1, <2>3, <2>4, <2>5, <1>2
  <2> QED BY <2>1, <2>6, <2>7, <1>1, <1>2, <1>3 DEF ChunkerInv, NextStage
<1> QED BY <1>1, <1>4, <1>5, <1>6

LEMMA KeepParagraphKeeps == ChunkerInv /\ KeepParagraph => ChunkerInv'
<1> SUFFICES ASSUME ChunkerInv, KeepParagraph PROVE ChunkerInv'
  OBVIOUS
<1>1. /\ stage = "split" /\ todo # << >> /\ taken = 0
      /\ fine' = Append(fine, Head(todo)) /\ todo' = Tail(todo)
      /\ UNCHANGED <<source, params, stage, taken, buf, longTail>>
  BY DEF KeepParagraph
<1>2. fine \in Seq(Fines) /\ todo \in Seq(Fines) /\ ~longTail /\ Total' = Total
  BY <1>1 DEF ChunkerInv, NextStage, Total
<1>3. PICK m \in Nat : Chain("straight", fine, 0, m) /\ Cutting(m)
  BY <1>1 DEF ChunkerInv
<1>4. buf = << >> /\ Chain("straight", todo, m, Total)
  BY <1>1, <1>3 DEF Cutting
<1>5. /\ fine' \in Seq(Fines) /\ todo' \in Seq(Fines)
      /\ \E n \in Nat : Chain("straight", fine', 0, n) /\ Chain("straight", todo', n, Total)
  BY <1>1, <1>2, <1>3, <1>4, TakeUp
<1>6. \E n \in Nat : Chain("straight", fine', 0, n) /\ Cutting(n)'
  BY <1>1, <1>2, <1>4, <1>5 DEF Cutting
<1> QED BY <1>1, <1>2, <1>5, <1>6 DEF ChunkerInv, NextStage

(* A sentence goes on after the one before.                                 *)
LEMMA SentenceStraight ==
    ASSUME NEW c, NEW n \in Nat, Straight(c, n), taken = 0 \/ (taken \in DOMAIN c /\ c[taken] # 0),
           NEW cut \in DOMAIN c, taken < cut, c[cut] # 0
    PROVE /\ Straight(Sentence(c, cut), IF taken = 0 THEN n ELSE c[taken])
          /\ End(Sentence(c, cut)) = c[cut]
<1> DEFINE S == {i \in taken + 1 .. cut : c[i] # 0}
<1> DEFINE f == Min(S)
<1> DEFINE e == SubSeq(c, f, cut)
<1> DEFINE before == IF taken = 0 THEN n ELSE c[taken]
<1>1. /\ c \in Seq(Nat) /\ c # << >> /\ c[1] = n + 1
      /\ \A i, j \in DOMAIN c : i < j /\ c[i] # 0 /\ c[j] # 0 => c[i] < c[j]
      /\ \A r \in n + 1 .. End(c) : \E i \in DOMAIN c : c[i] = r
  BY DEF Straight
<1>2. /\ DOMAIN c = 1 .. Len(c) /\ Len(c) \in Nat \ {0} /\ \A i \in DOMAIN c : c[i] \in Nat
      /\ End(c) \in Nat
  BY <1>1, ContentFacts
<1>3. taken \in Nat /\ cut \in 1 .. Len(c) /\ \A i \in DOMAIN c : c[i] <= End(c)
  BY <1>2, StraightFollows DEF Follows
<1>4. S \in SUBSET Nat /\ S # {} /\ cut \in S
  BY <1>3
<1>5. f \in S /\ \A i \in S : f <= i
  BY <1>4, MinOfNat
<1>6. f \in taken + 1 .. cut /\ c[f] # 0 /\ f \in DOMAIN c /\ f >= 1
  BY <1>2, <1>3, <1>5
<1>7. \A i \in taken + 1 .. cut : c[i] # 0 => f <= i
  BY <1>5
<1> HIDE DEF f, S
<1>8. /\ e \in Seq(Nat) /\ Len(e) = cut - f + 1 /\ e # << >>
      /\ DOMAIN e = 1 .. cut - f + 1
      /\ \A i \in 1 .. cut - f + 1 : e[i] = c[i + f - 1]
  <2>1. e \in Seq(Nat) /\ Len(e) = cut - f + 1 /\ \A i \in 1 .. cut - f + 1 : e[i] = c[f + i - 1]
    <3>1. f \in Int /\ cut \in Int /\ f <= cut /\ \A i \in f .. cut : c[i] \in Nat
      BY <1>2, <1>3, <1>6
    <3> QED BY <3>1, SubSeqProperties
  <2> HIDE DEF e
  <2>2. e # << >>
    BY <2>1, <1>3, <1>6
  <2>3. \A i \in 1 .. cut - f + 1 : f + i - 1 = i + f - 1
    BY <1>3, <1>6
  <2> QED BY <2>1, <2>2, <2>3
<1> HIDE DEF e
<1>9. End(e) = c[cut] /\ e[1] = c[f]
  <2>1. (cut - f + 1) + f - 1 = cut /\ cut - f + 1 \in 1 .. cut - f + 1 /\ 1 + f - 1 = f /\ 1 \in 1 .. cut - f + 1
    BY <1>3, <1>6
  <2> QED BY <2>1, <1>8 DEF End
<1>10. before \in Nat /\ c[f] = before + 1
  <2>1. CASE taken = 0
    <3>1. 1 \in taken + 1 .. cut /\ c[1] # 0
      BY <2>1, <1>1, <1>3
    <3>2. f = 1
      BY <3>1, <1>6, <1>7
    <3> QED BY <3>2, <2>1, <1>1
  <2>2. CASE taken # 0
    <3>1. taken \in DOMAIN c /\ c[taken] # 0 /\ taken < f
      BY <2>2, <1>3, <1>6
    <3>2. c[taken] < c[f] /\ c[taken] \in Nat /\ c[f] \in Nat /\ c[f] <= End(c)
      BY <3>1, <1>1, <1>2, <1>3, <1>6
    <3>3. c[taken] >= n + 1
      <4>1. 1 \in DOMAIN c /\ (taken = 1 \/ 1 < taken) /\ c[1] # 0
        BY <3>1, <1>1, <1>2
      <4>2. taken = 1 \/ c[1] < c[taken]
        BY <4>1, <3>1, <1>1
      <4> QED BY <4>2, <3>2, <1>1
    <3>4. c[taken] + 1 \in n + 1 .. End(c)
      BY <3>2, <3>3, <1>2
    <3>5. PICK i \in DOMAIN c : c[i] = c[taken] + 1
      BY <3>4, <1>1
    <3>6. i > taken /\ c[i] # 0
      <4>1. ~(i < taken) /\ i # taken /\ c[i] # 0
        BY <3>1, <3>2, <3>5, <1>1, <1>2
      <4> QED BY <4>1, <1>2, <1>3
    <3>7. ~(f < i)
      BY <3>2, <3>5, <3>6, <1>1, <1>2, <1>6
    <3>8. i <= f /\ i \in taken + 1 .. cut
      BY <3>6, <3>7, <1>2, <1>3, <1>6
    <3>9. f <= i
      BY <3>6, <3>8, <1>7
    <3>10. i = f
      BY <3>8, <3>9, <1>2, <1>6
    <3> QED BY <3>2, <3>5, <3>10, <2>2
  <2> QED BY <2>1, <2>2
<1> HIDE DEF before
<1>11. ASSUME NEW i \in DOMAIN e, NEW j \in DOMAIN e, i < j, e[i] # 0, e[j] # 0
       PROVE e[i] < e[j]
  <2>1. /\ i + f - 1 \in DOMAIN c /\ j + f - 1 \in DOMAIN c /\ i + f - 1 < j + f - 1
    <3>1. i \in 1 .. cut - f + 1 /\ j \in 1 .. cut - f + 1 /\ f \in Nat /\ f >= 1 /\ cut \in Nat /\ cut <= Len(c)
      <4>1. i \in 1 .. cut - f + 1 /\ j \in 1 .. cut - f + 1
        BY <1>8
      <4>2. f \in Nat /\ f >= 1 /\ cut \in Nat /\ cut <= Len(c)
        BY <1>2, <1>3, <1>6
      <4> QED BY <4>1, <4>2
    <3>2. i + f - 1 \in 1 .. Len(c) /\ j + f - 1 \in 1 .. Len(c) /\ i + f - 1 < j + f - 1
      <4>1. i < j /\ Len(c) \in Nat
        BY <1>2, <1>11
      <4> QED BY <3>1, <4>1
    <3> QED BY <3>2, <1>2
  <2>2. e[i] = c[i + f - 1] /\ e[j] = c[j + f - 1]
    BY <1>8
  <2> QED BY <2>1, <2>2, <1>1, <1>11
<1>12. ASSUME NEW r \in before + 1 .. End(e)
       PROVE \E i \in DOMAIN e : e[i] = r
  <2>1. r \in Nat /\ c[f] <= r /\ r <= c[cut] /\ r # 0
    BY <1>2, <1>9, <1>10, <1>12
  <2>2. n + 1 <= c[f]
    <3>1. 1 \in DOMAIN c /\ (f = 1 \/ 1 < f) /\ c[1] # 0
      BY <1>1, <1>2, <1>6
    <3>2. f = 1 \/ c[1] < c[f]
      BY <3>1, <1>1, <1>6
    <3> QED BY <3>2, <1>1, <1>2, <1>6
  <2>3. r \in n + 1 .. End(c)
    BY <2>1, <2>2, <1>2, <1>3, <1>6
  <2>4. PICK i \in DOMAIN c : c[i] = r
    BY <2>3, <1>1
  <2>5. ~(i < f) /\ ~(cut < i)
    <3>1. c[i] # 0 /\ c[i] \in Nat /\ c[f] \in Nat /\ c[cut] \in Nat /\ c[f] <= c[i] /\ c[i] <= c[cut]
      BY <2>1, <2>4, <1>2, <1>6
    <3>2. i < f => c[i] < c[f]
      BY <3>1, <1>1, <1>6
    <3>3. cut < i => c[cut] < c[i]
      BY <3>1, <1>1
    <3> QED BY <3>1, <3>2, <3>3
  <2>6. i - f + 1 \in 1 .. cut - f + 1 /\ (i - f + 1) + f - 1 = i
    <3>1. f \in Nat /\ cut \in Nat /\ i \in Nat /\ f <= i /\ i <= cut
      BY <2>5, <1>2, <1>3, <1>6
    <3> QED BY <3>1
  <2> QED BY <2>4, <2>6, <1>8
<1>13. Straight(e, before)
  <2>1. e[1] = before + 1 /\ End(e) # 0
    BY <1>9, <1>10
  <2> QED BY <2>1, <1>8, <1>10, <1>11, <1>12 DEF Straight
<1>14. Sentence(c, cut) = e
  BY DEF Sentence, e, f, S
<1> QED BY <1>9, <1>13, <1>14 DEF before

LEMMA AddSentenceKeeps == ChunkerInv /\ AddSentence => ChunkerInv'
<1> SUFFICES ASSUME ChunkerInv, AddSentence PROVE ChunkerInv'
  OBVIOUS
<1> DEFINE c == Head(todo).content
<1> DEFINE next == {i \in Cuts(c) : i > taken}
<1> DEFINE cut == Min(next)
<1> DEFINE s == Sentence(c, cut)
<1>1. /\ stage = "split" /\ todo # << >> /\ next # {} /\ taken' = cut
      /\ UNCHANGED <<source, params, stage, todo, longTail>>
      /\ IF buf # << >> /\ Len(buf) + Len(s) > params.long
         THEN fine' = Append(fine, Chunk(buf)) /\ buf' = s
         ELSE buf' = (IF buf = << >> THEN s ELSE buf \o <<0>> \o s) /\ UNCHANGED fine
  BY DEF AddSentence
<1>2. /\ fine \in Seq(Fines) /\ todo \in Seq(Fines) /\ ~longTail /\ Total' = Total
      /\ source \in Sources /\ params \in Params
  BY <1>1 DEF ChunkerInv, NextStage, Total
<1>3. PICK m \in Nat : Chain("straight", fine, 0, m) /\ Cutting(m)
  BY <1>1 DEF ChunkerInv
<1>4. PICK n \in Nat : /\ Straight(c, n)
                       /\ Chain("straight", Tail(todo), End(c), Total)
                       /\ taken = 0 => n = m /\ buf = << >>
                       /\ taken # 0 => /\ taken \in DOMAIN c /\ c[taken] # 0
                                       /\ Straight(buf, m) /\ End(buf) = c[taken]
  <2>1. CASE taken = 0
    <3>1. buf = << >> /\ Chain("straight", todo, m, Total)
      BY <2>1, <1>3 DEF Cutting
    <3>2. Link("straight", c, m) /\ Chain("straight", Tail(todo), End(c), Total)
      BY <3>1, <1>1, <1>2, ChainTail
    <3> QED BY <3>1, <3>2, <2>1 DEF Link
  <2>2. CASE taken # 0
    BY <2>2, <1>3 DEF Cutting
  <2> QED BY <2>1, <2>2
<1> HIDE DEF c
<1>5. /\ c \in Seq(Nat) /\ c # << >> /\ DOMAIN c = 1 .. Len(c) /\ Len(c) \in Nat \ {0} /\ End(c) # 0
  BY <1>4, ContentFacts DEF Straight
<1>6. Cuts(c) \subseteq DOMAIN c /\ \A i \in Cuts(c) : c[i] # 0
  <2>1. source.ends \subseteq Nat \ {0}
    BY <1>2, SourcesAssumption
  <2>2. Len(c) \in DOMAIN c /\ c[Len(c)] # 0
    BY <1>5 DEF End
  <2> QED BY <2>1, <2>2 DEF Cuts, SentenceEnds
<1>7. cut \in DOMAIN c /\ taken < cut /\ c[cut] # 0
  <2>1. next \in SUBSET Nat
    BY <1>5, <1>6
  <2>2. cut \in next
    BY <2>1, <1>1, MinOfNat
  <2>3. taken \in Nat
    BY <1>4, <1>5
  <2>4. cut \in Cuts(c) /\ cut > taken
    BY <2>2
  <2> HIDE DEF cut
  <2> QED BY <2>3, <2>4, <1>5, <1>6
<1> HIDE DEF next, cut
<1>8. Straight(s, IF taken = 0 THEN m ELSE c[taken]) /\ End(s) = c[cut]
  <2>1. taken = 0 \/ (taken \in DOMAIN c /\ c[taken] # 0)
    BY <1>4
  <2>2. Straight(s, IF taken = 0 THEN n ELSE c[taken]) /\ End(s) = c[cut]
    BY <2>1, <1>4, <1>7, SentenceStraight
  <2> HIDE DEF s
  <2> QED BY <2>2, <1>4
<1> HIDE DEF s
<1>9. Chunk(buf).content = buf /\ (buf \in Seq(Nat) => Chunk(buf) \in Fines)
  <2>1. Head(todo) \in Fines
    BY <1>1, <1>2
  <2> QED BY <2>1 DEF Chunk, Fines
<1>10. \E k \in Nat : Chain("straight", fine', 0, k) /\ fine' \in Seq(Fines) /\ Straight(buf', k) /\ End(buf') = c[cut]
  <2>1. CASE taken = 0
    BY <2>1, <1>1, <1>2, <1>3, <1>4, <1>8
  <2>2. CASE taken # 0
    <3>1. /\ Straight(buf, m) /\ buf # << >> /\ End(buf) = c[taken] /\ Straight(s, End(buf))
          /\ buf \in Seq(Nat) /\ End(buf) \in Nat
      BY <2>2, <1>4, <1>8, ContentFacts DEF Straight
    <3>2. CASE Len(buf) + Len(s) > params.long
      <4>1. fine' = Append(fine, Chunk(buf)) /\ buf' = s
        BY <3>1, <3>2, <1>1
      <4>2. Link("straight", Chunk(buf).content, m) /\ Chunk(buf) \in Fines
        BY <3>1, <1>9 DEF Link
      <4>3. Chain("straight", fine', 0, End(buf))
        BY <4>1, <4>2, <1>2, <1>3, <1>9, ChainAppend
      <4>4. fine' \in Seq(Fines)
        BY <4>1, <4>2, <1>2
      <4> QED BY <4>1, <4>3, <4>4, <3>1, <1>8
    <3>3. CASE ~(Len(buf) + Len(s) > params.long)
      <4>1. UNCHANGED fine /\ buf' = buf \o <<0>> \o s
        BY <3>1, <3>3, <1>1
      <4>2. <<0>> \in Seq({0})
        OBVIOUS
      <4>3. Straight(buf', m) /\ End(buf') = End(s)
        <5>1. Link("straight", buf, m) /\ Link("straight", s, End(buf))
          BY <3>1 DEF Link
        <5>2. Link("straight", buf \o <<0>> \o s, m) /\ End(buf \o <<0>> \o s) = End(s)
          <6> DEFINE z == <<0>>
          <6>1. z \in Seq({0})
            BY <4>2
          <6> HIDE DEF z
          <6>2. Link("straight", buf \o z \o s, m) /\ End(buf \o z \o s) = End(s)
            BY <5>1, <6>1, LinkJoin
          <6> QED BY <6>2 DEF z
        <5> QED BY <5>2, <4>1 DEF Link
      <4> QED BY <4>1, <4>3, <1>2, <1>3, <1>8
    <3> QED BY <3>2, <3>3
  <2> QED BY <2>1, <2>2
<1>11. PICK k \in Nat : Chain("straight", fine', 0, k) /\ fine' \in Seq(Fines) /\ Straight(buf', k) /\ End(buf') = c[cut]
  BY <1>10
<1>12. Cutting(k)'
  <2>1. taken' # 0 /\ taken' \in DOMAIN c /\ c[taken'] # 0 /\ todo' = todo /\ c' = c
    BY <1>1, <1>5, <1>7 DEF c
  <2> QED BY <2>1, <1>1, <1>2, <1>4, <1>11 DEF Cutting, c
<1>13. \E i \in Nat : Chain("straight", fine', 0, i) /\ Cutting(i)'
  BY <1>11, <1>12
<1> QED BY <1>1, <1>2, <1>11, <1>13 DEF ChunkerInv, NextStage

LEMMA LastSentenceKeeps == ChunkerInv /\ LastSentence => ChunkerInv'
<1> SUFFICES ASSUME ChunkerInv, LastSentence PROVE ChunkerInv'
  OBVIOUS
<1> DEFINE c == Head(todo).content
<1>1. /\ buf # << >> /\ \A i \in Cuts(c) : i <= taken
      /\ fine' = Append(fine, Chunk(buf)) /\ buf' = << >> /\ taken' = 0 /\ todo' = Tail(todo)
      /\ UNCHANGED <<source, params, stage, longTail>>
  BY DEF LastSentence
<1>2. stage = "split"
  BY <1>1 DEF ChunkerInv
<1>3. fine \in Seq(Fines) /\ todo \in Seq(Fines) /\ ~longTail /\ Total' = Total
  BY <1>1, <1>2 DEF ChunkerInv, NextStage, Total
<1>4. PICK m \in Nat : Chain("straight", fine, 0, m) /\ Cutting(m)
  BY <1>2 DEF ChunkerInv
<1>5. PICK n \in Nat : /\ todo # << >> /\ Straight(c, n) /\ taken \in DOMAIN c
                       /\ Straight(buf, m) /\ End(buf) = c[taken]
                       /\ Chain("straight", Tail(todo), End(c), Total)
  BY <1>1, <1>4 DEF Cutting
<1>6. c \in Seq(Nat) /\ buf \in Seq(Nat) /\ End(c) \in Nat
  BY <1>5, ContentFacts DEF Straight
<1>7. Chunk(buf).content = buf /\ Chunk(buf) \in Fines
  <2>1. Head(todo) \in Fines
    BY <1>3, <1>5
  <2> QED BY <2>1, <1>6 DEF Chunk, Fines
<1> HIDE DEF c
<1>8. End(buf) = End(c)
  <2>1. Len(c) \in Cuts(c) /\ DOMAIN c = 1 .. Len(c) /\ Len(c) \in Nat
    BY <1>6 DEF Cuts
  <2>2. taken = Len(c)
    BY <2>1, <1>1, <1>5
  <2> QED BY <2>2, <1>5 DEF End
<1>9. Chain("straight", fine', 0, End(c)) /\ Chain("straight", todo', End(c), Total)
  <2>1. Link("straight", Chunk(buf).content, m)
    BY <1>5, <1>7 DEF Link
  <2> QED BY <2>1, <1>1, <1>3, <1>4, <1>5, <1>7, <1>8, ChainAppend
<1>10. fine' \in Seq(Fines) /\ todo' \in Seq(Fines)
  BY <1>1, <1>3, <1>5, <1>7
<1>11. \E i \in Nat : Chain("straight", fine', 0, i) /\ Cutting(i)'
  BY <1>1, <1>3, <1>6, <1>9 DEF Cutting
<1> QED BY <1>1, <1>2, <1>3, <1>10, <1>11 DEF ChunkerInv, NextStage

(* What is put before a chunk has been told before.                         *)
LEMMA OverlapFollows ==
    ASSUME NEW c, NEW m, Straight(c, m), NEW t \in Seq(Nat), t # << >>, \A j \in DOMAIN t : t[j] <= m
    PROVE Follows(t \o Break \o c, m) /\ End(t \o Break \o c) = End(c)
<1> DEFINE e == t \o Break \o c
<1> DEFINE l == Len(t) + Len(Break)
<1>1. Break \in Seq({0})
  BY DEF Break
<1>2. Follows(c, m)
  BY StraightFollows
<1>3. /\ c \in Seq(Nat) /\ c # << >> /\ m \in Nat /\ m <= End(c) /\ \A j \in DOMAIN c : c[j] <= End(c)
      /\ \A r \in m + 1 .. End(c) : \E i \in DOMAIN c : c[i] = r
      /\ \A j \in DOMAIN c : c[j] > m + 1 => \E i \in 1 .. j - 1 : c[i] = c[j] - 1
  BY <1>2 DEF Follows
<1>4. Joins(e, t, c, l)
  BY <1>1, <1>3, JoinFacts
<1> HIDE DEF e, l
<1>5. e \in Seq(Nat) /\ e # << >> /\ End(e) = End(c) /\ l \in Nat /\ Len(t) <= l
  BY <1>4 DEF Joins
<1>6. /\ \A i \in DOMAIN t : i \in DOMAIN e /\ e[i] = t[i]
      /\ \A i \in DOMAIN c : i + l \in DOMAIN e /\ e[i + l] = c[i]
  BY <1>4 DEF Joins
<1>7. DOMAIN c = 1 .. Len(c) /\ Len(c) \in Nat \ {0} /\ (\A i \in DOMAIN c : c[i] \in Nat) /\ End(c) \in Nat
  BY <1>3, ContentFacts
<1>8. \A i \in DOMAIN t : t[i] \in Nat
  OBVIOUS
<1>9. ASSUME NEW j \in DOMAIN e
      PROVE e[j] <= End(c) /\ (e[j] > m + 1 => \E i \in 1 .. j - 1 : e[i] = e[j] - 1)
  <2>1. CASE j \in DOMAIN t
    <3>1. e[j] = t[j] /\ t[j] <= m /\ t[j] \in Nat
      BY <2>1, <1>6, <1>8
    <3> QED BY <3>1, <1>3, <1>7
  <2>2. CASE e[j] = 0
    BY <2>2, <1>3, <1>7
  <2>3. CASE \E k \in DOMAIN c : j = k + l /\ e[j] = c[k]
    <3>1. PICK k \in DOMAIN c : j = k + l /\ e[j] = c[k]
      BY <2>3
    <3>2. ASSUME c[k] > m + 1 PROVE \E i \in 1 .. j - 1 : e[i] = e[j] - 1
      <4>1. PICK h \in 1 .. k - 1 : c[h] = c[k] - 1
        BY <3>2, <1>3
      <4>2. h \in DOMAIN c /\ h + l \in 1 .. j - 1
        BY <3>1, <4>1, <1>5, <1>7
      <4>3. e[h + l] = e[j] - 1
        BY <3>1, <4>1, <4>2, <1>6
      <4> QED BY <4>2, <4>3
    <3> QED BY <3>1, <3>2, <1>3
  <2> QED BY <2>1, <2>2, <2>3, <1>4 DEF Joins
<1>10. ASSUME NEW r \in m + 1 .. End(c)
       PROVE \E i \in DOMAIN e : e[i] = r
  <2>1. PICK k \in DOMAIN c : c[k] = r
    BY <1>3
  <2> QED BY <2>1, <1>6
<1> QED BY <1>3, <1>5, <1>9, <1>10 DEF Follows, e

LEMMA OverlapKeeps ==
    ASSUME ChunkerInv, stage = "overlap", todo # << >>, NEW start \in Nat, Overlapped(start),
           UNCHANGED <<source, params, stage, taken, buf>>, ~longTail'
    PROVE ChunkerInv'
<1> DEFINE c == Head(todo).content
<1> DEFINE p == Previous
<1> DEFINE t == SubSeq(p, start + 1, Len(p))
<1> DEFINE x == IF t = << >> THEN Head(todo) ELSE [Head(todo) EXCEPT !.content = t \o Break \o @]
<1>1. fine' = Append(fine, x) /\ todo' = Tail(todo)
  BY DEF Overlapped
<1>2. fine \in Seq(Fines) /\ todo \in Seq(Fines) /\ fine # << >> /\ taken = 0 /\ buf = << >>
  BY DEF ChunkerInv, NextStage
<1>3. PICK m \in Nat : Chain("told", fine, 0, m) /\ Tells(fine, m) /\ Chain("straight", todo, m, Total)
  BY DEF ChunkerInv
<1>4. Straight(c, m) /\ Chain("straight", Tail(todo), End(c), Total)
  <2>1. Link("straight", c, m) /\ Chain("straight", Tail(todo), End(c), Total)
    BY <1>2, <1>3, ChainTail
  <2> QED BY <2>1 DEF Link
<1>5. /\ Head(todo) \in Fines /\ c \in Seq(Nat) /\ End(c) \in Nat
      /\ Tail(todo) \in Seq(Fines)
  <2>1. c \in Seq(Nat) /\ c # << >>
    BY <1>4 DEF Straight
  <2>2. Head(todo) \in Fines /\ Tail(todo) \in Seq(Fines)
    BY <1>2
  <2> QED BY <2>1, <2>2, ContentFacts
<1>6. p \in Seq(Nat) /\ p # << >> /\ \A j \in DOMAIN p : p[j] <= m
  <2> DEFINE l == Len(fine)
  <2>1. l \in DOMAIN fine /\ p = fine[l].content
    BY <1>2 DEF Previous, Last
  <2>2. m = End(fine[l].content)
    BY <1>2, <1>3 DEF Chain, EndOf
  <2> DEFINE before == IF l = 1 THEN 0 ELSE End(fine[l - 1].content)
  <2>3. Link("told", fine[l].content, before)
    BY <2>1, <1>3 DEF Chain
  <2> HIDE DEF l, before
  <2>4. Follows(p, before)
    BY <2>1, <2>3 DEF Link
  <2> HIDE DEF p
  <2> QED BY <2>1, <2>2, <2>4 DEF Follows
<1> HIDE DEF p, c
<1>7. t \in Seq(Nat) /\ \A j \in DOMAIN t : t[j] <= m
  <2>1. Len(p) \in Nat /\ DOMAIN p = 1 .. Len(p) /\ \A i \in DOMAIN p : p[i] \in Nat
    BY <1>6
  <2>2. \A i \in start + 1 .. Len(p) : i \in DOMAIN p
    BY <2>1
  <2>3. t \in Seq({r \in Nat : r <= m})
    <3>1. \A i \in start + 1 .. Len(p) : p[i] \in {r \in Nat : r <= m}
      BY <2>1, <2>2, <1>6
    <3> QED BY <3>1, <2>1, SubSeqProperties
  <2> HIDE DEF t
  <2>4. \A j \in DOMAIN t : t[j] \in {r \in Nat : r <= m}
    BY <2>3
  <2>5. t \in Seq(Nat)
    BY <2>3
  <2> QED BY <2>4, <2>5
<1> HIDE DEF t
<1>8. x \in Fines /\ Follows(x.content, m) /\ End(x.content) = End(c)
  <2>1. CASE t = << >>
    BY <2>1, <1>4, <1>5, StraightFollows DEF c
  <2>2. CASE t # << >>
    <3>1. Follows(t \o Break \o c, m) /\ End(t \o Break \o c) = End(c)
      BY <2>2, <1>4, <1>7, OverlapFollows
    <3>2. t \o Break \o c \in Seq(Nat)
      BY <3>1 DEF Follows
    <3> HIDE DEF Break
    <3>3. x \in Fines /\ x.content = t \o Break \o c
      BY <3>2, <2>2, <1>5 DEF Fines, c
    <3> QED BY <3>1, <3>3
  <2> QED BY <2>1, <2>2
<1> HIDE DEF x
<1>9. Tells(fine', End(c)) /\ Chain("told", fine', 0, End(c))
  <2>1. Link("told", x.content, m)
    BY <1>8 DEF Link
  <2>2. Chain("told", Append(fine, x), 0, End(x.content))
    BY <2>1, <1>2, <1>3, <1>8, ChainAppend
  <2>3. Tells(Append(fine, x), End(x.content))
    BY <1>2, <1>3, <1>8, TellsAppend
  <2> QED BY <2>2, <2>3, <1>1, <1>8
<1>10. fine' \in Seq(Fines) /\ fine' # << >> /\ todo' \in Seq(Fines)
  BY <1>1, <1>2, <1>5, <1>8
<1>11. Total' = Total
  BY DEF Total
<1>12. \E n \in Nat : Chain("told", fine', 0, n) /\ Tells(fine', n) /\ Chain("straight", todo', n, Total')
  BY <1>1, <1>4, <1>5, <1>9, <1>11
<1> QED BY <1>2, <1>10, <1>12 DEF ChunkerInv, NextStage

LEMMA OverlapStepsKeep == ChunkerInv /\ (MeasureTail \/ TakeTail) => ChunkerInv'
<1>1. ASSUME ChunkerInv, MeasureTail PROVE ChunkerInv'
  <2>1. /\ stage = "overlap" /\ todo # << >> /\ ~longTail
        /\ UNCHANGED <<source, params, stage, taken, buf>>
    BY <1>1 DEF MeasureTail
  <2>2. CASE Overlapped(0) /\ UNCHANGED longTail
    BY <1>1, <2>1, <2>2, OverlapKeeps
  <2>3. CASE UNCHANGED <<fine, todo>>
    <3>1. Total' = Total
      BY <2>1 DEF Total
    <3> QED BY <1>1, <2>1, <2>3, <3>1 DEF ChunkerInv, NextStage
  <2> QED BY <1>1, <2>2, <2>3 DEF MeasureTail
<1>2. ASSUME ChunkerInv, TakeTail PROVE ChunkerInv'
  <2> DEFINE start == Len(Previous) - params.overlap
  <2> DEFINE ends == {i \in SentenceEnds(Previous) : i > start}
  <2>1. /\ longTail /\ ~longTail' /\ UNCHANGED <<source, params, taken, buf>>
        /\ IF start < 0
           THEN stage' = "panicked" /\ UNCHANGED <<fine, todo>>
           ELSE Overlapped(IF ends = {} THEN start ELSE Min(ends)) /\ UNCHANGED stage
    BY <1>2 DEF TakeTail
  <2>2. stage = "overlap" /\ todo # << >> /\ fine # << >> /\ fine \in Seq(Fines) /\ todo \in Seq(Fines)
        /\ params \in Params /\ taken = 0 /\ buf = << >>
    BY <1>2, <2>1 DEF ChunkerInv, NextStage
  <2>3. Previous \in Seq(Nat) /\ params.overlap \in Nat
    <3>1. fine[Len(fine)] \in Fines
      BY <2>2
    <3>2. params \in [short : Nat, long : Nat, fragment : Nat, overlap : Nat]
      BY <2>2, ParamsAssumption
    <3> QED BY <2>2, <3>1, <3>2 DEF Previous, Last, Fines
  <2>4. start \in Int
    BY <2>3
  <2>5. ends \in SUBSET Nat
    BY <2>3 DEF SentenceEnds
  <2> HIDE DEF start, ends
  <2>6. CASE start < 0
    BY <1>2, <2>1, <2>2, <2>6 DEF ChunkerInv, NextStage
  <2>7. CASE ~(start < 0)
    <3>1. (IF ends = {} THEN start ELSE Min(ends)) \in Nat
      <4>1. CASE ends = {}
        BY <4>1, <2>4, <2>7
      <4>2. CASE ends # {}
        BY <4>2, <2>5, MinOfNat
      <4> QED BY <4>1, <4>2
    <3> QED BY <3>1, <1>2, <2>1, <2>2, <2>7, OverlapKeeps
  <2> QED BY <2>6, <2>7
<1> QED BY <1>1, <1>2

LEMMA SetChunkParamsKeeps == ChunkerInv /\ (SetChunkParams \/ UNCHANGED chunkerVars) => ChunkerInv'
<1> SUFFICES ASSUME ChunkerInv, SetChunkParams \/ UNCHANGED chunkerVars PROVE ChunkerInv'
  OBVIOUS
<1>1. UNCHANGED <<source, stage, todo, taken, buf, longTail, fine, coarse>> /\ params' \in Params
  BY DEF SetChunkParams, chunkerVars, ChunkerInv
<1>2. Total' = Total
  BY <1>1 DEF Total
<1>3. \A m : Cutting(m)' = Cutting(m)
  BY <1>1, <1>2 DEF Cutting
<1>4. Sectioned(fine)' = Sectioned(fine) /\ Sectioned(todo)' = Sectioned(todo)
  BY <1>1 DEF Sectioned, SectionAt
<1> QED BY <1>1, <1>2, <1>3, <1>4 DEF ChunkerInv, NextStage

-----------------------------------------------------------------------------
(* Sections.                                                                *)

(* Every chunk's section is in the list.                                    *)
LEMMA HeadingFound ==
    ASSUME NEW X, fine \in Seq(X), NEW i \in DOMAIN fine
    PROVE /\ SectionID(fine[i]) \in DOMAIN HeadingsInOrder
          /\ HeadingsInOrder[SectionID(fine[i])] = SectionOf(fine[i])
<1> DEFINE firsts == {h \in DOMAIN fine : \A j \in 1 .. h - 1 : SectionOf(fine[j]) # SectionOf(fine[h])}
<1> DEFINE same == {h \in DOMAIN fine : SectionOf(fine[h]) = SectionOf(fine[i])}
<1> DEFINE f == Min(same)
<1> DEFINE k == Cardinality({y \in firsts : y <= f})
<1>1. DOMAIN fine = 1 .. Len(fine) /\ Len(fine) \in Nat
  OBVIOUS
<1>2. f \in same /\ \A y \in same : f <= y
  <2>1. same \in SUBSET Nat /\ i \in same
    BY <1>1
  <2> HIDE DEF same
  <2> QED BY <2>1, MinOfNat
<1> HIDE DEF f
<1>3. f \in firsts
  <2>1. ASSUME NEW j \in 1 .. f - 1, SectionOf(fine[j]) = SectionOf(fine[f]) PROVE FALSE
    <3>1. j \in same
      BY <2>1, <1>1, <1>2
    <3> QED BY <3>1, <2>1, <1>1, <1>2
  <2> QED BY <2>1, <1>2
<1>4. firsts \in SUBSET Nat /\ IsFiniteSet(firsts)
  <2>1. IsFiniteSet(1 .. Len(fine))
    BY <1>1, FS_Interval
  <2>2. firsts \in SUBSET (1 .. Len(fine))
    BY <1>1
  <2> QED BY <2>1, <2>2, FS_Subset
<1>5. SectionOf(fine[f]) = SectionOf(fine[i])
  BY <1>2
<1>6. HeadingsInOrder = [h \in 1 .. Cardinality(firsts) |-> SectionOf(fine[Kth(firsts, h)])]
  BY DEF HeadingsInOrder
<1> HIDE DEF firsts
<1>7. k \in 1 .. Cardinality(firsts)
  <2> DEFINE T == {y \in firsts : y <= f}
  <2>1. T \in SUBSET firsts /\ f \in T
    BY <1>3, <1>4
  <2> HIDE DEF T
  <2>2. IsFiniteSet(T) /\ Cardinality(T) <= Cardinality(firsts)
    BY <2>1, <1>4, FS_Subset
  <2>3. Cardinality(T) \in Nat /\ Cardinality(T) # 0 /\ Cardinality(firsts) \in Nat
    BY <2>1, <2>2, <1>4, FS_CardinalityType, FS_EmptySet
  <2> QED BY <2>2, <2>3 DEF T
<1>8. Kth(firsts, k) = f
  <2> DEFINE x == Kth(firsts, k)
  <2> DEFINE T == {y \in firsts : y <= f}
  <2> DEFINE U == {y \in firsts : y <= x}
  <2>1. x \in firsts /\ Cardinality(U) = k
    BY <1>3 DEF Kth
  <2> HIDE DEF x
  <2>2. T \in SUBSET firsts /\ U \in SUBSET firsts /\ x \in Nat /\ f \in Nat
    BY <2>1, <1>3, <1>4
  <2>3. T \in SUBSET U \/ U \in SUBSET T
    <3>1. CASE f <= x
      <4>1. \A y \in firsts : y <= f => y <= x
        BY <3>1, <2>2, <1>4
      <4> QED BY <4>1
    <3>2. CASE x <= f
      <4>1. \A y \in firsts : y <= x => y <= f
        BY <3>2, <2>2, <1>4
      <4> QED BY <4>1
    <3> QED BY <3>1, <3>2, <2>2
  <2>4. f \in T /\ x \in U
    BY <2>1, <2>2, <1>3
  <2>5. \A y \in T : y <= f
    OBVIOUS
  <2>6. \A y \in U : y <= x
    OBVIOUS
  <2>7. Cardinality(U) = Cardinality(T)
    BY <2>1
  <2> HIDE DEF T, U, k
  <2>8. T = U
    BY <2>2, <2>3, <2>7, <1>4, FS_Subset
  <2>9. f <= x /\ x <= f
    BY <2>4, <2>5, <2>6, <2>8
  <2> QED BY <2>2, <2>9 DEF x
<1> HIDE DEF k
<1>9. k \in DOMAIN HeadingsInOrder /\ HeadingsInOrder[k] = SectionOf(fine[i])
  BY <1>5, <1>6, <1>7, <1>8
<1> QED BY <1>9 DEF SectionID

LEMMA GroupBySectionKeeps == ChunkerInv /\ GroupBySection => ChunkerInv'
<1> SUFFICES ASSUME ChunkerInv, GroupBySection PROVE ChunkerInv'
  OBVIOUS
<1>1. /\ stage = "overlap" /\ todo = << >> /\ fine' = << >> /\ stage' = "semantic"
      /\ UNCHANGED <<source, params, changes, taken, buf, longTail>>
  BY DEF GroupBySection
<1>2. coarse' = [k \in DOMAIN HeadingsInOrder |->
          [heading |-> HeadingsInOrder[k],
           runes |-> RunesOf({c \in ToSet(fine) : SectionOf(c) = HeadingsInOrder[k]})]]
  BY DEF GroupBySection
<1>3. todo' = [i \in DOMAIN fine |->
          [content |-> fine[i].content, at |-> fine[i].at, id |-> SectionID(fine[i])]]
  BY DEF GroupBySection
<1>4. fine \in Seq(Fines) /\ taken = 0 /\ buf = << >> /\ ~longTail
  BY <1>1 DEF ChunkerInv, NextStage
<1>5. Tells(fine, Total) /\ Chain("told", fine, 0, Total)
  <2>1. PICK m \in Nat : Chain("told", fine, 0, m) /\ Tells(fine, m) /\ Chain("straight", << >>, m, Total)
    BY <1>1 DEF ChunkerInv
  <2> QED BY <2>1, ChainEmpty
<1>6. Total' = Total /\ \A k : SectionAt(k)' = SectionAt(k)
  BY <1>1 DEF Total, SectionAt
<1>7. \A i \in DOMAIN fine : /\ SectionID(fine[i]) \in DOMAIN HeadingsInOrder
                             /\ HeadingsInOrder[SectionID(fine[i])] = SectionOf(fine[i])
  BY <1>4, HeadingFound
<1>8. DOMAIN HeadingsInOrder \subseteq Nat
  <2>1. \E n : HeadingsInOrder = [h \in 1 .. n |-> SectionOf(fine[Kth({i \in DOMAIN fine : \A j \in 1 .. i - 1 : SectionOf(fine[j]) # SectionOf(fine[i])}, h)])]
    BY DEF HeadingsInOrder
  <2>2. PICK n : DOMAIN HeadingsInOrder = 1 .. n
    BY <2>1
  <2> QED BY <2>2
<1>9. /\ DOMAIN todo' = DOMAIN fine
      /\ \A i \in DOMAIN fine : /\ todo'[i].content = fine[i].content /\ todo'[i].at = fine[i].at
                                /\ todo'[i].id = SectionID(fine[i])
  BY <1>3
<1>10. todo' \in Seq(Linked) /\ Len(todo') = Len(fine)
  <2>1. \A i \in DOMAIN fine : [content |-> fine[i].content, at |-> fine[i].at, id |-> SectionID(fine[i])] \in Linked
    <3>1. \A i \in DOMAIN fine : fine[i] \in Fines
      BY <1>4
    <3> QED BY <3>1, <1>7, <1>8 DEF Fines, Linked
  <2>2. DOMAIN fine = 1 .. Len(fine) /\ Len(fine) \in Nat
    BY <1>4
  <2> QED BY <2>1, <2>2, <1>3
<1>11. Chain("told", todo', 0, Total')
  <2>1. DOMAIN fine = 1 .. Len(fine) /\ Len(fine) \in Nat
    BY <1>4
  <2>2. ASSUME NEW k \in DOMAIN todo'
        PROVE Link("told", todo'[k].content, IF k = 1 THEN 0 ELSE End(todo'[k - 1].content))
    <3>1. k = 1 \/ k - 1 \in DOMAIN fine
      BY <2>1, <2>2, <1>9
    <3>2. Link("told", fine[k].content, IF k = 1 THEN 0 ELSE End(fine[k - 1].content))
      BY <2>2, <1>5, <1>9 DEF Chain
    <3> QED BY <3>1, <3>2, <2>2, <1>9
  <2>3. EndOf(todo', 0) = EndOf(fine, 0)
    <3>1. fine = << >> <=> todo' = << >>
      BY <1>4, <1>10
    <3>2. fine # << >> => Len(fine) \in DOMAIN fine
      BY <1>4
    <3> QED BY <3>1, <3>2, <1>9, <1>10 DEF EndOf
  <2> QED BY <2>2, <2>3, <1>5, <1>6 DEF Chain
<1>12. Tells(<< >>, 0)
  <2>1. ToSet(<< >>) = {}
    BY DEF ToSet
  <2> QED BY <2>1 DEF Tells, RunesOf
<1>13. DOMAIN coarse' = DOMAIN HeadingsInOrder
       /\ \A k \in DOMAIN HeadingsInOrder :
             /\ coarse'[k].heading = HeadingsInOrder[k]
             /\ coarse'[k].runes = RunesOf({c \in ToSet(fine) : SectionOf(c) = HeadingsInOrder[k]})
  BY <1>2
<1>14. ASSUME NEW i \in DOMAIN fine
       PROVE \A r \in ToSet(fine[i].content) : r \in coarse'[SectionID(fine[i])].runes
  <2>1. fine[i] \in ToSet(fine)
    BY DEF ToSet
  <2>2. coarse'[SectionID(fine[i])].runes = RunesOf({c \in ToSet(fine) : SectionOf(c) = SectionOf(fine[i])})
    BY <1>7, <1>13
  <2> QED BY <2>1, <2>2 DEF RunesOf
<1>15. UNION {coarse'[k].runes : k \in DOMAIN coarse'} = RunesOf(ToSet(fine))
  <2>1. ASSUME NEW k \in DOMAIN coarse', NEW r \in coarse'[k].runes PROVE r \in RunesOf(ToSet(fine))
    BY <2>1, <1>13 DEF RunesOf
  <2>2. ASSUME NEW r \in RunesOf(ToSet(fine)) PROVE \E k \in DOMAIN coarse' : r \in coarse'[k].runes
    <3>1. PICK i \in DOMAIN fine : r \in ToSet(fine[i].content)
      BY DEF RunesOf, ToSet
    <3> QED BY <3>1, <1>7, <1>13, <1>14
  <2> QED BY <2>1, <2>2
<1>16. Sectioned(todo)'
  <2>1. ASSUME NEW i \in DOMAIN fine
        PROVE /\ todo'[i].id \in DOMAIN coarse'
              /\ coarse'[todo'[i].id].heading = SectionAt(todo'[i].at)
              /\ todo'[i].content # << >> /\ Head(todo'[i].content) \in coarse'[todo'[i].id].runes
    <3>1. fine[i].content \in Seq(Nat) /\ fine[i].content # << >>
      BY <1>5 DEF Chain, Link, Follows
    <3>2. Head(fine[i].content) \in ToSet(fine[i].content)
      BY <3>1 DEF ToSet
    <3> QED BY <3>1, <3>2, <1>7, <1>9, <1>13, <1>14 DEF SectionOf
  <2> QED BY <2>1, <1>6, <1>9 DEF Sectioned
<1>17. Sectioned(fine)'
  BY <1>1 DEF Sectioned
<1>18. (UNION {coarse'[k].runes : k \in DOMAIN coarse'}) \ {0} = 1 .. Total'
  BY <1>5, <1>6, <1>15 DEF Tells
<1>19. fine' \in Seq(Linked)
  BY <1>1
<1>20. \E m \in Nat : Tells(fine', m) /\ Chain("told", todo', m, Total')
  BY <1>1, <1>11, <1>12
<1> QED BY <1>1, <1>4, <1>10, <1>16, <1>17, <1>18, <1>19, <1>20 DEF ChunkerInv, NextStage

LEMMA MergeSemanticKeeps == ChunkerInv /\ MergeSemanticNeighbors => ChunkerInv'
<1> SUFFICES ASSUME ChunkerInv, MergeSemanticNeighbors PROVE ChunkerInv'
  OBVIOUS
<1> DEFINE c == Head(todo).content
<1>1. /\ stage = "semantic" /\ todo # << >> /\ todo' = Tail(todo)
      /\ \/ fine' = Append(fine, Head(todo))
         \/ fine # << >> /\ fine' = Joined(c)
      /\ UNCHANGED <<source, params, stage, taken, buf, longTail, coarse>>
  BY DEF MergeSemanticNeighbors
<1>2. /\ fine \in Seq(Linked) /\ todo \in Seq(Linked) /\ Sectioned(fine) /\ Sectioned(todo)
      /\ (UNION {coarse[k].runes : k \in DOMAIN coarse}) \ {0} = 1 .. Total
  BY <1>1 DEF ChunkerInv
<1>3. PICK m \in Nat : Tells(fine, m) /\ Chain("told", todo, m, Total)
  BY <1>1 DEF ChunkerInv
<1>4. Link("told", c, m) /\ Chain("told", Tail(todo), End(c), Total)
  BY <1>1, <1>2, <1>3, ChainTail
<1>5. Follows(c, m) /\ c \in Seq(Nat) /\ End(c) \in Nat
  BY <1>4, LinkFacts DEF Link
<1>6. Head(todo) \in Linked /\ Tail(todo) \in Seq(Linked) /\ todo[1] = Head(todo) /\ 1 \in DOMAIN todo
  BY <1>1, <1>2
<1>7. Total' = Total /\ \A k : SectionAt(k)' = SectionAt(k)
  BY <1>1 DEF Total, SectionAt
<1>8. Sectioned(todo)'
  <2>1. /\ DOMAIN Tail(todo) = 1 .. Len(todo) - 1 /\ DOMAIN todo = 1 .. Len(todo) /\ Len(todo) \in Nat
        /\ \A i \in 1 .. Len(todo) - 1 : Tail(todo)[i] = todo[i + 1]
    BY <1>1, <1>2
  <2>2. \A i \in DOMAIN Tail(todo) : i + 1 \in DOMAIN todo /\ Tail(todo)[i] = todo[i + 1]
    BY <2>1
  <2> QED BY <2>2, <1>1, <1>2, <1>7 DEF Sectioned
<1>9. CASE fine' = Append(fine, Head(todo))
  <2>1. fine' \in Seq(Linked) /\ Tells(fine', End(c))
    BY <1>2, <1>3, <1>5, <1>6, <1>9, TellsAppend
  <2>2. Sectioned(fine)'
    <3>1. \A i \in DOMAIN fine' : (i \in DOMAIN fine /\ fine'[i] = fine[i]) \/ fine'[i] = todo[1]
      BY <1>2, <1>6, <1>9
    <3> QED BY <3>1, <1>1, <1>2, <1>6, <1>7 DEF Sectioned
  <2> QED BY <2>1, <2>2, <1>1, <1>2, <1>4, <1>5, <1>6, <1>7, <1>8 DEF ChunkerInv, NextStage
<1>10. CASE fine # << >> /\ fine' = Joined(c)
  <2> DEFINE l == Len(fine)
  <2>1. /\ fine' \in Seq(Linked) /\ JoinedTo(fine', fine, c)
        /\ fine'[l].at = fine[l].at /\ fine'[l].id = fine[l].id
    <3>1. fine[l] \in Linked
      BY <1>2, <1>10
    <3> QED BY <3>1, <1>2, <1>5, <1>10, JoinedFacts
  <2>2. l \in DOMAIN fine /\ DOMAIN fine' = DOMAIN fine /\ fine[l].content \in Seq(Nat) /\ fine[l].content # << >>
    <3>1. l \in DOMAIN fine /\ fine[l] \in Linked
      BY <1>2, <1>10
    <3> QED BY <3>1, <2>1, <1>2 DEF JoinedTo, Sectioned, Linked
  <2>3. Tells(fine', End(c))
    BY <2>1, <2>2, <1>2, <1>3, <1>5, <1>10, TellsJoin
  <2>4. fine'[l].content = fine[l].content \o Break \o c
    BY <2>1 DEF JoinedTo
  <2>5. fine'[l].content # << >> /\ Head(fine'[l].content) = Head(fine[l].content)
    <3>1. Break \in Seq({0}) /\ c # << >>
      BY <1>5 DEF Break, Follows
    <3>2. Joins(fine'[l].content, fine[l].content, c, Len(fine[l].content) + Len(Break))
      BY <3>1, <2>2, <2>4, <1>5, JoinFacts
    <3> HIDE DEF l
    <3> QED BY <3>2, <2>2 DEF Joins
  <2>6. \A i \in DOMAIN fine' : i # l => i \in DOMAIN fine /\ fine'[i] = fine[i]
    BY <2>1, <2>2, <1>2 DEF JoinedTo
  <2> HIDE DEF l
  <2>7. Sectioned(fine)'
    <3> SUFFICES ASSUME NEW i \in DOMAIN fine'
                 PROVE /\ fine'[i].id \in DOMAIN coarse
                       /\ coarse[fine'[i].id].heading = SectionAt(fine'[i].at)
                       /\ fine'[i].content # << >> /\ Head(fine'[i].content) \in coarse[fine'[i].id].runes
      BY <1>1, <1>7 DEF Sectioned
    <3>1. CASE i = l
      BY <3>1, <2>1, <2>2, <2>5, <1>2 DEF Sectioned
    <3>2. CASE i # l
      BY <3>2, <2>6, <1>2 DEF Sectioned
    <3> QED BY <3>1, <3>2
  <2> QED BY <2>1, <2>3, <2>7, <1>1, <1>2, <1>4, <1>5, <1>6, <1>7, <1>8 DEF ChunkerInv, NextStage
<1> QED BY <1>1, <1>9, <1>10

-----------------------------------------------------------------------------

LEMMA StraightChainInit == ChunkerInit => Chain("straight", todo, 0, Total) /\ todo \in Seq(Fines)
<1> SUFFICES ASSUME ChunkerInit PROVE Chain("straight", todo, 0, Total) /\ todo \in Seq(Fines)
  OBVIOUS
<1> DEFINE l == source.last
<1> DEFINE before(k) == IF k = 1 THEN 0 ELSE l[k - 1]
<1>1. /\ l \in Seq(Nat \ {0}) /\ l # << >> /\ \A k \in 2 .. Len(l) : l[k - 1] < l[k]
  BY SourcesAssumption DEF ChunkerInit
<1>2. todo = [k \in DOMAIN l |-> [content |-> [i \in 1 .. l[k] - before(k) |-> before(k) + i], at |-> k]]
  BY DEF ChunkerInit, SplitParagraphs
<1> HIDE DEF l
<1>3. DOMAIN l = 1 .. Len(l) /\ Len(l) \in Nat \ {0} /\ \A k \in DOMAIN l : l[k] \in Nat \ {0}
  BY <1>1
<1>4. \A k \in DOMAIN l : before(k) \in Nat /\ before(k) < l[k] /\ l[k] \in Nat
  <2> TAKE k \in DOMAIN l
  <2>1. CASE k = 1
    BY <2>1, <1>3
  <2>2. CASE k # 1
    <3>1. k - 1 \in DOMAIN l /\ k \in 2 .. Len(l)
      BY <2>2, <1>3
    <3> QED BY <3>1, <2>2, <1>1, <1>3
  <2> QED BY <2>1, <2>2
<1>5. ASSUME NEW k \in DOMAIN l
      PROVE /\ Straight(todo[k].content, before(k)) /\ End(todo[k].content) = l[k]
            /\ todo[k] \in Fines
  <2> DEFINE b == before(k)
  <2> DEFINE m == l[k]
  <2> DEFINE c == [i \in 1 .. m - b |-> b + i]
  <2>1. b \in Nat /\ m \in Nat /\ b < m /\ k \in Nat
    BY <1>3, <1>4
  <2>2. todo[k] = [content |-> c, at |-> k]
    BY <1>2
  <2> HIDE DEF b, m
  <2>3. c \in Seq(Nat) /\ Len(c) = m - b /\ m - b \in Nat \ {0}
    BY <2>1
  <2>4. c # << >> /\ c[1] = b + 1 /\ c[m - b] = m
    BY <2>1, <2>3
  <2>5. \A i, j \in DOMAIN c : i < j => c[i] < c[j]
    BY <2>1
  <2>6. ASSUME NEW r \in b + 1 .. m PROVE \E i \in DOMAIN c : c[i] = r
    <3>1. r - b \in 1 .. m - b /\ b + (r - b) = r
      BY <2>1, <2>6
    <3> QED BY <3>1
  <2> HIDE DEF c
  <2>7. End(c) = m
    BY <2>3, <2>4 DEF End
  <2>8. Straight(c, b)
    BY <2>1, <2>3, <2>4, <2>5, <2>6, <2>7 DEF Straight
  <2>9. todo[k] \in Fines
    BY <2>1, <2>2, <2>3 DEF Fines
  <2> QED BY <2>2, <2>7, <2>8, <2>9 DEF b, m
<1>6. DOMAIN todo = 1 .. Len(l)
  BY <1>2, <1>3
<1>7. todo \in Seq(Fines)
  <2>1. todo = [k \in 1 .. Len(l) |-> todo[k]]
    BY <1>2, <1>3
  <2> QED BY <2>1, <1>3, <1>5
<1>8. Len(todo) = Len(l)
  BY <1>3, <1>6, <1>7
<1>9. ASSUME NEW k \in DOMAIN todo
      PROVE Link("straight", todo[k].content, IF k = 1 THEN 0 ELSE End(todo[k - 1].content))
  <2>1. k = 1 \/ k - 1 \in DOMAIN l
    BY <1>3, <1>6
  <2>2. before(k) = IF k = 1 THEN 0 ELSE End(todo[k - 1].content)
    BY <2>1, <1>5
  <2>3. Straight(todo[k].content, before(k))
    BY <1>3, <1>5, <1>6
  <2> HIDE DEF before
  <2> QED BY <2>2, <2>3 DEF Link
<1>10. EndOf(todo, 0) = Total
  <2>1. todo # << >> /\ Len(todo) \in DOMAIN l
    BY <1>3, <1>6, <1>8
  <2>2. Total = l[Len(l)]
    BY DEF Total, Last, l
  <2> QED BY <2>1, <2>2, <1>5, <1>8 DEF EndOf
<1> QED BY <1>7, <1>9, <1>10 DEF Chain

LEMMA ChunkerInvInit == ChunkerInit => ChunkerInv
<1> SUFFICES ASSUME ChunkerInit PROVE ChunkerInv
  OBVIOUS
<1>1. Chain("straight", << >>, 0, 0) /\ Chain("straight", todo, 0, Total) /\ todo \in Seq(Fines)
  BY StraightChainInit, EmptyChain
<1>2. /\ source \in Sources /\ params \in Params /\ stage = "merge" /\ taken = 0 /\ buf = << >>
      /\ longTail = FALSE /\ fine = << >>
  BY DEF ChunkerInit
<1>3. fine \in Seq(Fines)
  BY <1>2
<1>4. \E m \in Nat : Chain("straight", fine, 0, m) /\ Chain("straight", todo, m, Total)
  BY <1>1, <1>2
<1> QED BY <1>1, <1>2, <1>3, <1>4 DEF ChunkerInv

LEMMA ChunkerInvNext == ChunkerInv /\ [ChunkerNext]_chunkerVars => ChunkerInv'
  BY MergeShortKeeps, StageEndsKeeps, KeepParagraphKeeps, AddSentenceKeeps, LastSentenceKeeps,
     OverlapStepsKeep, GroupBySectionKeeps, MergeSemanticKeeps, SetChunkParamsKeeps DEF ChunkerNext

(* Every text that is cut to its end is covered by its chunks, in order,    *)
(* and by its sections, however the parameters change meanwhile.            *)
THEOREM CutsLoseNoText == ChunkerSpec => []TextIsCovered
<1>1. ChunkerInv => TextIsCovered
  <2> SUFFICES ASSUME ChunkerInv, Chunked PROVE SectionsHoldText /\ Tells(fine, Total)
    BY DEF TextIsCovered
  <2>1. stage = "semantic" /\ todo = << >>
    BY DEF Chunked
  <2>2. PICK m \in Nat : Tells(fine, m) /\ Chain("told", << >>, m, Total)
    BY <2>1 DEF ChunkerInv
  <2>3. Tells(fine, Total)
    BY <2>2, ChainEmpty
  <2>4. SectionsHoldText
    BY <2>1 DEF ChunkerInv, Sectioned, SectionsHoldText
  <2> QED BY <2>3, <2>4
<1> QED BY <1>1, ChunkerInvInit, ChunkerInvNext, PTL DEF ChunkerSpec
=============================================================================
