---------------------------- MODULE CachesSafety ----------------------------
(***************************************************************************)
(* Theorems about Caches, proved for any knowledge bases, documents,       *)
(* clients, wirings and faults.                                            *)
(***************************************************************************)
EXTENDS Caches, SequenceTheorems, TLAPS

Versions == 0 .. Removed
Answers == {Nothing} \cup (SUBSET Versions) \cup (SUBSET KBs) \cup (SUBSET (Docs \X Versions))
Places == {"idle", "read", "fill", "evict", "delete"}
Requests == [at : Places, key : Keys \cup {Nothing}, filter : SUBSET Docs, val : Answers,
             evict : Seq(SUBSET Keys), found : SUBSET Keys, job : Jobs \cup {"ingest", Nothing}]
Held == [val : Answers, filter : SUBSET Docs, expires : BOOLEAN]

TypeInv ==
    /\ kbs \in SUBSET KBs /\ revision \in [KBs \X Docs -> Versions] /\ hidden \in SUBSET (KBs \X Docs)
    /\ entries \in [Keys -> {Nothing} \cup Held]
    /\ proc \in [Clients -> Requests]
    /\ deployment \in Deployments /\ faults \in Nat
    /\ excused \in SUBSET Keys

(* What a request has still to evict fits the step it is at, and it asks    *)
(* Redis only where it has a client.                                        *)
RequestInv ==
    \A p \in Clients :
        /\ proc[p].at \in {"idle", "read", "fill"} => proc[p].evict = << >>
        /\ proc[p].at \in {"evict", "delete"} => proc[p].evict # << >>
        /\ proc[p].at = "delete" => proc[p].found \subseteq Head(proc[p].evict)
        /\ proc[p].at \in {"read", "fill"} => proc[p].key \in Keys /\ HasClient(proc[p].key)

(* Nobody fills an entry without a client, and the documents of a deleted   *)
(* knowledge base are gone with it.                                         *)
StoreInv ==
    /\ \A key \in Keys : entries[key] # Nothing => HasClient(key)
    /\ \A k \in KBs \ kbs, d \in Docs : revision[<<k, d>>] \in {0, Removed}

IInv == TypeInv /\ RequestInv /\ StoreInv /\ EvictedOrCurrent

-----------------------------------------------------------------------------
(* Lists of patterns.                                                       *)

Promised(s) == UNION Elements(s)

LEMMA PromisedTyped ==
    ASSUME NEW s \in Seq(SUBSET Keys) PROVE Promised(s) \in SUBSET Keys
  BY DEF Promised, Elements

LEMMA PromisedEmpty == Promised(<< >>) = {}
  BY DEF Promised, Elements

LEMMA PromisedTail ==
    ASSUME NEW s \in Seq(SUBSET Keys), s # << >>
    PROVE  /\ Head(s) \in SUBSET Keys /\ Tail(s) \in Seq(SUBSET Keys)
           /\ Promised(s) = Head(s) \cup Promised(Tail(s))
           /\ Len(s) = 1 => Promised(Tail(s)) = {}
           /\ Len(s) # 1 => Tail(s) # << >>
<1>1. /\ Head(s) \in SUBSET Keys /\ Tail(s) \in Seq(SUBSET Keys)
      /\ Len(Tail(s)) = Len(s) - 1
      /\ \A i \in 1 .. Len(Tail(s)) : Tail(s)[i] = s[i + 1]
  BY HeadTailProperties
<1>2. Len(s) \in Nat \ {0} /\ Head(s) = s[1]
  BY EmptySeq, LenProperties
<1>3. \A i \in 1 .. Len(s) : i = 1 \/ (i - 1 \in 1 .. Len(Tail(s)) /\ Tail(s)[i - 1] = s[i])
  BY <1>1, <1>2
<1>4. \A i \in 1 .. Len(Tail(s)) : i + 1 \in 1 .. Len(s) /\ Tail(s)[i] = s[i + 1]
  BY <1>1, <1>2
<1>5. Promised(s) \subseteq Head(s) \cup Promised(Tail(s))
  BY <1>2, <1>3 DEF Promised, Elements
<1>6. Head(s) \cup Promised(Tail(s)) \subseteq Promised(s)
  BY <1>2, <1>4 DEF Promised, Elements
<1> QED BY <1>1, <1>2, <1>5, <1>6 DEF Promised, Elements

LEMMA PromisedOne ==
    ASSUME NEW A \in SUBSET Keys
    PROVE  <<A>> \in Seq(SUBSET Keys) /\ Promised(<<A>>) = A
<1>1. Len(<<A>>) = 1 /\ <<A>>[1] = A
  OBVIOUS
<1> QED BY <1>1 DEF Promised, Elements

LEMMA PromisedPair ==
    ASSUME NEW A \in SUBSET Keys, NEW B \in SUBSET Keys
    PROVE  <<A, B>> \in Seq(SUBSET Keys) /\ Promised(<<A, B>>) = A \cup B
<1>1. Len(<<A, B>>) = 2 /\ <<A, B>>[1] = A /\ <<A, B>>[2] = B /\ 1 .. 2 = {1, 2}
  OBVIOUS
<1>2. Elements(<<A, B>>) = {A, B}
  BY <1>1 DEF Elements
<1> QED BY <1>2 DEF Promised

-----------------------------------------------------------------------------
(* What a read finds depends on the documents its key names.                *)

Same(k, d) ==
    /\ Live(k, d)' <=> Live(k, d)
    /\ Live(k, d) => revision'[<<k, d>>] = revision[<<k, d>>]

LEMMA KeyKinds ==
    ASSUME NEW key \in Keys
    PROVE  \/ key.kind \in AllDocKinds /\ key.kind \in DocKinds /\ key.kb \in KBs /\ key.doc \in Docs
           \/ key.kind = "query" /\ key.kb \in KBs /\ key = QueryKey(key.kb)
           \/ key.kind = "kblist" /\ key = KBListKey
  BY KindsAssumption DEF Keys, QueryKey, KBListKey

LEMMA CurrentSame ==
    ASSUME NEW key \in Keys, NEW f \in SUBSET Docs,
           key.kind \in DocKinds => Same(key.kb, key.doc),
           key.kind = "query" =>
               \A d \in Docs : Same(key.kb, d) /\ (<<key.kb, d>> \in hidden' <=> <<key.kb, d>> \in hidden),
           key.kind = "kblist" => kbs' = kbs
    PROVE  Current(key, f)' = Current(key, f)
<1>1. CASE key.kind \in DocKinds /\ key.kind \in AllDocKinds
  <2>1. /\ Current(key, f) = IF Live(key.kb, key.doc) THEN {revision[<<key.kb, key.doc>>]} ELSE {}
        /\ Current(key, f)' = IF Live(key.kb, key.doc)' THEN {revision'[<<key.kb, key.doc>>]} ELSE {}
    BY <1>1 DEF Current, AllDocKinds, ReadChunk, ReadMeta, ReadChunksIndex
  <2> QED BY <1>1, <2>1 DEF Same
<1>2. CASE key.kind = "query"
  <2>1. \A d \in f : (Live(key.kb, d)' /\ <<key.kb, d>> \notin hidden')
                     <=> (Live(key.kb, d) /\ <<key.kb, d>> \notin hidden)
    BY <1>2 DEF Same
  <2>2. \A d \in f : Live(key.kb, d) => revision'[<<key.kb, d>>] = revision[<<key.kb, d>>]
    BY <1>2 DEF Same
  <2>3. Search(key.kb, f)' = Search(key.kb, f)
    BY <2>1, <2>2 DEF Search
  <2> QED BY <1>2, <2>3 DEF Current
<1>3. CASE key.kind = "kblist"
  BY <1>3 DEF Current, ListKBs
<1> QED BY KeyKinds, <1>1, <1>2, <1>3

(* What a read finds is an answer.                                          *)
LEMMA CurrentTyped ==
    ASSUME TypeInv, NEW key \in Keys, NEW f \in SUBSET Docs
    PROVE  Current(key, f) \in Answers
<1>1. CASE key.kind \in DocKinds /\ key.kind \in AllDocKinds /\ key.kb \in KBs /\ key.doc \in Docs
  <2>1. Current(key, f) = IF Live(key.kb, key.doc) THEN {revision[<<key.kb, key.doc>>]} ELSE {}
    BY <1>1 DEF Current, AllDocKinds, ReadChunk, ReadMeta, ReadChunksIndex
  <2>2. revision[<<key.kb, key.doc>>] \in Versions
    BY <1>1 DEF TypeInv
  <2> QED BY <2>1, <2>2 DEF Answers
<1>2. CASE key.kind = "query" /\ key.kb \in KBs
  <2>1. \A d \in f : d \in Docs /\ revision[<<key.kb, d>>] \in Versions
    BY <1>2 DEF TypeInv
  <2>2. \A r \in Search(key.kb, f) : \E d \in f : r = <<d, revision[<<key.kb, d>>]>>
    BY DEF Search
  <2>4. ASSUME NEW r \in Search(key.kb, f) PROVE r \in Docs \X Versions
    <3>1. PICK d \in f : r = <<d, revision[<<key.kb, d>>]>>
      BY <2>2
    <3>2. d \in Docs /\ revision[<<key.kb, d>>] \in Versions
      BY <2>1
    <3> HIDE DEF Versions
    <3> QED BY <3>1, <3>2
  <2>3. Current(key, f) = Search(key.kb, f)
    BY <1>2 DEF Current
  <2> QED BY <2>3, <2>4 DEF Answers
<1>3. CASE key.kind = "kblist"
  <2>1. Current(key, f) = kbs
    BY <1>3 DEF Current, ListKBs
  <2> QED BY <2>1 DEF Answers, TypeInv
<1> QED BY KeyKinds, <1>1, <1>2, <1>3

LEMMA PatternsTyped ==
    ASSUME NEW k \in KBs, NEW d
    PROVE  DocPattern(k, d) \in SUBSET Keys /\ QueryPattern(k) \in SUBSET Keys /\ KBListKey \in Keys
  BY DEF DocPattern, QueryPattern, QueryKey, KBListKey, Keys

-----------------------------------------------------------------------------
(* Steps that change neither the backend nor what Redis holds.              *)

Untouched == UNCHANGED <<backend, entries>>

LEMMA StaleSame ==
    ASSUME TypeInv, Untouched, NEW key \in Keys PROVE Stale(key)' <=> Stale(key)
  BY DEF Untouched, backend, Stale, Current, ReadChunk, ReadMeta, ReadChunksIndex, ListKBs, Search, Live, InKB

LEMMA ClientSame == ASSUME UNCHANGED deployment PROVE \A key \in Keys : HasClient(key)' <=> HasClient(key)
  BY DEF HasClient

(* A request goes on to a place of its own.                                 *)
MovesTo(p, r) == r \in Requests /\ proc' = [proc EXCEPT ![p] = r]

Fits(r) ==
    /\ r.at \in {"idle", "read", "fill"} => r.evict = << >>
    /\ r.at \in {"evict", "delete"} => r.evict # << >>
    /\ r.at = "delete" => r.found \subseteq Head(r.evict)
    /\ r.at \in {"read", "fill"} => r.key \in Keys /\ HasClient(r.key)

LEMMA MoveKeeps ==
    ASSUME TypeInv, RequestInv, UNCHANGED deployment,
           NEW p \in Clients, NEW r, MovesTo(p, r), Fits(r)
    PROVE  /\ proc' \in [Clients -> Requests] /\ RequestInv'
           /\ proc'[p] = r
           /\ \A q \in Clients \ {p} : proc'[q] = proc[q] /\ OnTheWay(q)' = OnTheWay(q)
<1>1. proc' \in [Clients -> Requests] /\ proc'[p] = r /\ \A q \in Clients \ {p} : proc'[q] = proc[q]
  BY DEF MovesTo, TypeInv
<1>2. RequestInv'
  BY <1>1, ClientSame DEF RequestInv, Fits
<1>3. \A q \in Clients \ {p} : OnTheWay(q)' = OnTheWay(q)
  BY <1>1 DEF OnTheWay
<1> QED BY <1>1, <1>2, <1>3

LEMMA IdleFits == Idle \in Requests /\ Fits(Idle)
<1>1. << >> \in Seq(SUBSET Keys)
  OBVIOUS
<1> QED BY <1>1 DEF Idle, Requests, Places, Answers, Fits

(* Away from deletions and lists of patterns nothing is on its way.         *)
LEMMA NothingOnTheWay ==
    ASSUME RequestInv, NEW p \in Clients, proc[p].at \in {"idle", "read", "fill"}
    PROVE  OnTheWay(p) = {}
<1>1. proc[p].evict = << >> /\ proc[p].at # "delete"
  BY DEF RequestInv
<1> QED BY <1>1, PromisedEmpty DEF OnTheWay, Promised

LEMMA QuietStep ==
    ASSUME IInv, Untouched, UNCHANGED deployment,
           NEW p \in Clients, NEW r, MovesTo(p, r), Fits(r),
           faults' \in Nat, excused' \in SUBSET Keys, excused \subseteq excused',
           \A key \in OnTheWay(p) : Stale(key) => key \in excused' \cup OnTheWay(p)'
    PROVE  IInv'
<1> USE DEF IInv
<1>1. /\ proc' \in [Clients -> Requests] /\ RequestInv'
      /\ \A q \in Clients \ {p} : OnTheWay(q)' = OnTheWay(q)
  BY MoveKeeps
<1>2. TypeInv'
  BY <1>1 DEF TypeInv, Untouched, backend
<1>3. StoreInv'
  BY ClientSame DEF StoreInv, Untouched, backend
<1>4. ASSUME NEW key \in Keys, Stale(key)'
      PROVE  key \in excused' \/ \E q \in Clients : key \in OnTheWay(q)'
  <2>1. Stale(key)
    BY <1>4, StaleSame
  <2>2. key \in excused \/ \E q \in Clients : key \in OnTheWay(q)
    BY <2>1 DEF EvictedOrCurrent
  <2> QED BY <1>1, <2>1, <2>2
<1>5. EvictedOrCurrent'
  BY <1>4 DEF EvictedOrCurrent
<1> QED BY <1>1, <1>2, <1>3, <1>5

LEMMA FaultCounted == ASSUME TypeInv, NEW kind, Fault(kind) PROVE faults' \in Nat
  BY DEF Fault, TypeInv

LEMMA BeginStep ==
    ASSUME IInv, NEW p \in Clients, NEW key \in Keys, NEW f \in Filters,
           Miss(p, key, f) \/ GetFails(p, key, f)
    PROVE  IInv'
<1> DEFINE r == [Idle EXCEPT !.at = "read", !.key = key, !.filter = f, !.job = "read"]
<1>1. Begin(p, key, f) /\ faults' \in Nat
  BY FaultCounted DEF Miss, GetFails, IInv, TypeInv
<1>2. f \in SUBSET Docs
  BY FiltersAssumption
<1>3. proc[p] = Idle /\ MovesTo(p, r) /\ Fits(r)
  BY <1>1, <1>2, IdleFits DEF Begin, MovesTo, Fits, Requests, Idle, Places, Jobs, IInv, TypeInv
<1>4. OnTheWay(p) = {}
  BY <1>3, NothingOnTheWay DEF IInv, Idle
<1> HIDE DEF r
<1>5. Untouched /\ UNCHANGED deployment /\ excused' = excused
  BY <1>1 DEF Begin, Untouched
<1> QED BY <1>1, <1>3, <1>4, <1>5, QuietStep DEF IInv, TypeInv

LEMMA FinishMoves == ASSUME NEW p, Finish(p) PROVE MovesTo(p, Idle)
  BY IdleFits DEF Finish, MovesTo

LEMMA ReadStep == ASSUME IInv, NEW p \in Clients, Read(p) PROVE IInv'
<1> DEFINE val == Current(proc[p].key, proc[p].filter)
           r == [proc[p] EXCEPT !.at = "fill", !.val = val]
<1>1. proc[p] \in Requests /\ proc[p].at = "read" /\ proc[p].key \in Keys /\ HasClient(proc[p].key)
  BY DEF IInv, TypeInv, RequestInv, Read
<1>2. val \in Answers
  BY <1>1, CurrentTyped DEF IInv, Requests
<1>3. r \in Requests /\ Fits(r)
  BY <1>1, <1>2 DEF Requests, Fits, Places, IInv, RequestInv
<1>4. MovesTo(p, r) \/ MovesTo(p, Idle)
  BY <1>3, FinishMoves DEF Read, MovesTo
<1>5. OnTheWay(p) = {}
  BY <1>1, NothingOnTheWay DEF IInv
<1>6. Untouched /\ UNCHANGED <<deployment, faults, excused>>
  BY DEF Read, Untouched
<1> HIDE DEF r
<1> QED BY <1>3, <1>4, <1>5, <1>6, IdleFits, QuietStep DEF IInv, TypeInv

LEMMA SetFailsStep == ASSUME IInv, NEW p \in Clients, SetFails(p) PROVE IInv'
<1>1. proc[p].at = "fill" /\ MovesTo(p, Idle) /\ faults' \in Nat
  BY FinishMoves, FaultCounted DEF SetFails, IInv
<1>2. OnTheWay(p) = {}
  BY <1>1, NothingOnTheWay DEF IInv
<1>3. Untouched /\ UNCHANGED <<deployment, excused>>
  BY DEF SetFails, Untouched
<1> QED BY <1>1, <1>2, <1>3, IdleFits, QuietStep DEF IInv, TypeInv

-----------------------------------------------------------------------------
(* Evictions.                                                               *)

(* The pattern at the head is done with.                                    *)
LEMMA NextPatternMoves ==
    ASSUME IInv, UNCHANGED deployment,
           NEW p \in Clients, proc[p].at \in {"evict", "delete"}, NextPattern(p)
    PROVE  /\ \E r : MovesTo(p, r) /\ Fits(r)
           /\ OnTheWay(p)' = Promised(Tail(proc[p].evict))
<1> DEFINE s == proc[p].evict
           r == [proc[p] EXCEPT !.evict = Tail(s), !.at = "evict", !.found = {}]
<1>1. proc[p] \in Requests /\ s \in Seq(SUBSET Keys) /\ s # << >>
  BY DEF IInv, TypeInv, RequestInv, Requests
<1>2. /\ Tail(s) \in Seq(SUBSET Keys)
      /\ Len(s) = 1 => Promised(Tail(s)) = {}
      /\ Len(s) # 1 => Tail(s) # << >>
  BY <1>1, PromisedTail
<1>3. CASE Len(s) = 1
  <2>1. MovesTo(p, Idle) /\ Fits(Idle)
    BY <1>3, FinishMoves, IdleFits DEF NextPattern
  <2>2. RequestInv' /\ proc'[p] = Idle
    BY <2>1, MoveKeeps DEF IInv
  <2>3. OnTheWay(p)' = Promised(<< >>)
    BY <2>2 DEF OnTheWay, Idle, Promised
  <2> QED BY <1>2, <1>3, <2>1, <2>3, PromisedEmpty
<1>4. CASE Len(s) # 1
  <2>1. r \in Requests /\ Fits(r)
    BY <1>1, <1>2, <1>4 DEF Requests, Fits, Places
  <2>2. MovesTo(p, r)
    BY <1>1, <1>4, <2>1 DEF NextPattern, MovesTo, IInv, TypeInv
  <2>3. proc'[p] = r
    BY <2>1, <2>2, MoveKeeps DEF IInv
  <2>4. OnTheWay(p)' = Promised(Tail(s))
    BY <1>1, <2>3 DEF OnTheWay, Promised, Requests
  <2> QED BY <2>1, <2>2, <2>4
<1> QED BY <1>3, <1>4

(* What a request at its evictions has on its way is in its list.           *)
LEMMA OnTheWayPromised ==
    ASSUME IInv, NEW p \in Clients
    PROVE  OnTheWay(p) \subseteq Promised(proc[p].evict) /\ Promised(proc[p].evict) \in SUBSET Keys
<1>1. proc[p].evict \in Seq(SUBSET Keys)
  BY DEF IInv, TypeInv, Requests
<1>2. CASE proc[p].at = "delete"
  <2>1. proc[p].evict # << >> /\ proc[p].found \subseteq Head(proc[p].evict)
    BY <1>2 DEF IInv, RequestInv
  <2>2. Promised(proc[p].evict) = Head(proc[p].evict) \cup Promised(Tail(proc[p].evict))
    BY <1>1, <2>1, PromisedTail
  <2>3. OnTheWay(p) = proc[p].found \cup Promised(Tail(proc[p].evict))
    BY <1>2 DEF OnTheWay, Promised
  <2> QED BY <1>1, <2>1, <2>2, <2>3, PromisedTyped
<1>3. CASE proc[p].at # "delete"
  BY <1>1, <1>3, PromisedTyped DEF OnTheWay, Promised
<1> QED BY <1>2, <1>3

LEMMA ListKeysStep == ASSUME IInv, NEW p \in Clients, ListKeys(p) PROVE IInv'
<1> DEFINE s == proc[p].evict
           found == {key \in Head(s) : entries[key] # Nothing}
           r == [proc[p] EXCEPT !.at = "delete", !.found = found]
<1>1. proc[p] \in Requests /\ s \in Seq(SUBSET Keys) /\ s # << >> /\ proc[p].at = "evict"
  BY DEF IInv, TypeInv, RequestInv, Requests, ListKeys
<1>2. Head(s) \in SUBSET Keys /\ Promised(s) = Head(s) \cup Promised(Tail(s))
  BY <1>1, PromisedTail
<1>3. OnTheWay(p) = Promised(s)
  BY <1>1 DEF OnTheWay, Promised
<1>4. Untouched /\ UNCHANGED <<deployment, faults, excused>>
  BY DEF ListKeys, Untouched
<1>5. \A key \in Head(s) : Stale(key) => key \in found
  BY DEF Stale
<1>6. CASE found = {}
  <2>1. NextPattern(p)
    BY <1>6 DEF ListKeys
  <2>2. PICK x : MovesTo(p, x) /\ Fits(x)
    BY <1>1, <1>4, <2>1, NextPatternMoves
  <2>3. OnTheWay(p)' = Promised(Tail(s))
    BY <1>1, <1>4, <2>1, NextPatternMoves
  <2>4. \A key \in OnTheWay(p) : Stale(key) => key \in OnTheWay(p)'
    BY <1>2, <1>3, <1>5, <1>6, <2>3
  <2> QED BY <1>4, <2>2, <2>4, QuietStep DEF IInv, TypeInv
<1>7. CASE found # {}
  <2>1. r \in Requests /\ Fits(r)
    BY <1>1, <1>2 DEF Requests, Fits, Places
  <2>2. MovesTo(p, r)
    BY <1>7, <2>1 DEF ListKeys, MovesTo, IInv, TypeInv
  <2>3. proc'[p] = r
    BY <1>4, <2>1, <2>2, MoveKeeps DEF IInv
  <2>4. OnTheWay(p)' = found \cup Promised(Tail(s))
    BY <1>1, <2>3 DEF OnTheWay, Promised, Requests
  <2>5. \A key \in OnTheWay(p) : Stale(key) => key \in OnTheWay(p)'
    BY <1>2, <1>3, <1>5, <2>4
  <2> HIDE DEF r
  <2> QED BY <1>4, <2>1, <2>2, <2>5, QuietStep DEF IInv, TypeInv
<1> QED BY <1>6, <1>7

LEMMA EvictFailsStep == ASSUME IInv, NEW p \in Clients, EvictFails(p) PROVE IInv'
<1> DEFINE s == proc[p].evict
<1>1. proc[p] \in Requests /\ s \in Seq(SUBSET Keys) /\ s # << >> /\ proc[p].at \in {"evict", "delete"}
  BY DEF IInv, TypeInv, RequestInv, Requests, EvictFails
<1>2. Head(s) \in SUBSET Keys /\ Promised(s) = Head(s) \cup Promised(Tail(s))
  BY <1>1, PromisedTail
<1>3. Untouched /\ UNCHANGED deployment /\ NextPattern(p) /\ faults' \in Nat
      /\ excused' = excused \cup Head(s)
  BY FaultCounted DEF EvictFails, Untouched, IInv
<1>4. PICK x : MovesTo(p, x) /\ Fits(x)
  BY <1>1, <1>3, NextPatternMoves
<1>5. OnTheWay(p)' = Promised(Tail(s)) /\ OnTheWay(p) \subseteq Promised(s)
  BY <1>1, <1>3, NextPatternMoves, OnTheWayPromised
<1>6. \A key \in OnTheWay(p) : key \in excused' \cup OnTheWay(p)'
  BY <1>2, <1>3, <1>5
<1>7. excused' \in SUBSET Keys
  BY <1>2, <1>3 DEF IInv, TypeInv
<1> QED BY <1>3, <1>4, <1>6, <1>7, QuietStep

LEMMA DeleteKeysStep == ASSUME IInv, NEW p \in Clients, DeleteKeys(p) PROVE IInv'
<1> DEFINE s == proc[p].evict
           found == proc[p].found
<1>1. /\ proc[p] \in Requests /\ s \in Seq(SUBSET Keys) /\ s # << >> /\ proc[p].at = "delete"
      /\ found \in SUBSET Keys
  BY DEF IInv, TypeInv, RequestInv, Requests, DeleteKeys
<1>2. UNCHANGED <<backend, deployment, faults>> /\ NextPattern(p) /\ excused' = excused \ found
  BY DEF DeleteKeys
<1>3. entries' = [key \in Keys |-> IF key \in found THEN Nothing ELSE entries[key]]
  BY DEF DeleteKeys
<1>4. PICK x : MovesTo(p, x) /\ Fits(x)
  BY <1>1, <1>2, NextPatternMoves
<1>5. /\ proc' \in [Clients -> Requests] /\ RequestInv'
      /\ \A q \in Clients \ {p} : OnTheWay(q)' = OnTheWay(q)
  BY <1>2, <1>4, MoveKeeps DEF IInv
<1>6. OnTheWay(p)' = Promised(Tail(s))
  BY <1>1, <1>2, NextPatternMoves
<1>7. OnTheWay(p) = found \cup Promised(Tail(s))
  BY <1>1 DEF OnTheWay, Promised
<1>8. TypeInv'
  BY <1>2, <1>3, <1>5 DEF TypeInv, IInv, backend
<1>9. StoreInv'
  BY <1>2, <1>3, ClientSame DEF StoreInv, IInv, backend
<1>10. ASSUME NEW key \in Keys, Stale(key)'
       PROVE  key \in excused' \/ \E q \in Clients : key \in OnTheWay(q)'
  <2>1. key \notin found /\ entries'[key] = entries[key]
    BY <1>3, <1>10 DEF Stale
  <2>2. Current(key, entries[key].filter)' = Current(key, entries[key].filter)
    BY <1>2, <2>1 DEF backend, Current, ReadChunk, ReadMeta, ReadChunksIndex, ListKBs, Search, Live, InKB
  <2>3. Stale(key)
    BY <1>10, <2>1, <2>2 DEF Stale
  <2>4. key \in excused \/ \E q \in Clients : key \in OnTheWay(q)
    BY <2>3 DEF EvictedOrCurrent, IInv
  <2> QED BY <1>2, <1>5, <1>6, <1>7, <2>1, <2>4
<1>11. EvictedOrCurrent'
  BY <1>10 DEF EvictedOrCurrent
<1> QED BY <1>5, <1>8, <1>9, <1>11 DEF IInv

(* All requests end, and what they had on their way is excused.             *)
LEMMA RestartStep == ASSUME IInv, Restart PROVE IInv'
<1>1. Untouched /\ UNCHANGED deployment /\ faults' \in Nat /\ proc' = [p \in Clients |-> Idle]
  BY FaultCounted DEF Restart, Untouched, IInv
<1>2. excused' = excused \cup UNION {Promised(proc[p].evict) : p \in Clients}
  BY DEF Restart, Promised
<1>3. TypeInv'
  BY <1>1, <1>2, IdleFits, OnTheWayPromised DEF TypeInv, IInv, Untouched, backend
<1>4. RequestInv'
  BY <1>1 DEF RequestInv, Idle
<1>5. StoreInv'
  BY <1>1, ClientSame DEF StoreInv, IInv, Untouched, backend
<1>6. ASSUME NEW key \in Keys, Stale(key)' PROVE key \in excused'
  <2>1. key \in excused \/ \E q \in Clients : key \in OnTheWay(q)
    BY <1>1, <1>6, StaleSame DEF EvictedOrCurrent, IInv
  <2> QED BY <1>2, <2>1, OnTheWayPromised
<1> QED BY <1>3, <1>4, <1>5, <1>6 DEF IInv, EvictedOrCurrent

-----------------------------------------------------------------------------
(* What Redis holds changes: a value arrives, or its time is up.            *)

LEMMA FillStep == ASSUME IInv, NEW p \in Clients, Fill(p) PROVE IInv'
<1> DEFINE key == proc[p].key
           e == [val |-> proc[p].val, filter |-> proc[p].filter, expires |-> HasTTL(key)]
<1>1. proc[p] \in Requests /\ proc[p].at = "fill" /\ key \in Keys /\ HasClient(key)
  BY DEF IInv, TypeInv, RequestInv, Fill
<1>2. UNCHANGED <<backend, deployment, faults>> /\ MovesTo(p, Idle) /\ Fits(Idle)
  BY FinishMoves, IdleFits DEF Fill
<1>3. entries' = [entries EXCEPT ![key] = e] /\ e \in Held
  BY <1>1 DEF Fill, Held, Requests, HasTTL
<1>4. excused' = IF e.val = Current(key, e.filter) THEN excused \ {key} ELSE excused \cup {key}
  BY DEF Fill
<1> HIDE DEF e
<1>5. /\ proc' \in [Clients -> Requests] /\ RequestInv'
      /\ \A q \in Clients \ {p} : OnTheWay(q)' = OnTheWay(q)
  BY <1>2, MoveKeeps DEF IInv
<1>6. OnTheWay(p) = {}
  BY <1>1, NothingOnTheWay DEF IInv
<1>7. TypeInv'
  BY <1>1, <1>2, <1>3, <1>4, <1>5 DEF TypeInv, IInv, backend
<1>8. StoreInv'
  BY <1>1, <1>2, <1>3, ClientSame DEF StoreInv, IInv, TypeInv, backend
<1>9. \A k, f : Current(k, f)' = Current(k, f)
  BY <1>2 DEF backend, Current, ReadChunk, ReadMeta, ReadChunksIndex, ListKBs, Search, Live, InKB
<1>10. ASSUME NEW k \in Keys, Stale(k)'
       PROVE  k \in excused' \/ \E q \in Clients : k \in OnTheWay(q)'
  <2>1. CASE k = key
    <3>1. entries'[k] = e
      BY <1>1, <1>3, <2>1 DEF IInv, TypeInv
    <3>2. e.val # Current(k, e.filter)
      BY <1>9, <1>10, <3>1 DEF Stale
    <3> QED BY <1>4, <2>1, <3>2
  <2>2. CASE k # key
    <3>1. entries'[k] = entries[k]
      BY <1>3, <2>2 DEF IInv, TypeInv
    <3>2. Stale(k)
      BY <1>9, <1>10, <3>1 DEF Stale
    <3>3. k \in excused \/ \E q \in Clients : k \in OnTheWay(q)
      BY <3>2 DEF EvictedOrCurrent, IInv
    <3> QED BY <1>4, <1>5, <1>6, <2>2, <3>3
  <2> QED BY <2>1, <2>2
<1>11. EvictedOrCurrent'
  BY <1>10 DEF EvictedOrCurrent
<1> QED BY <1>5, <1>7, <1>8, <1>11 DEF IInv

LEMMA ExpireStep == ASSUME IInv, NEW key \in Keys, Expire(key) PROVE IInv'
<1>1. entries' = [entries EXCEPT ![key] = Nothing] /\ excused' = excused \ {key}
      /\ UNCHANGED <<backend, proc, deployment, faults>>
  BY DEF Expire
<1>2. TypeInv'
  BY <1>1 DEF TypeInv, IInv, backend
<1>3. RequestInv'
  BY <1>1, ClientSame DEF RequestInv, IInv
<1>4. StoreInv'
  BY <1>1, ClientSame DEF StoreInv, IInv, TypeInv, backend
<1>5. \A k, f : Current(k, f)' = Current(k, f)
  BY <1>1 DEF backend, Current, ReadChunk, ReadMeta, ReadChunksIndex, ListKBs, Search, Live, InKB
<1>6. ASSUME NEW k \in Keys, Stale(k)'
      PROVE  k \in excused' \/ \E q \in Clients : k \in OnTheWay(q)'
  <2>1. k # key /\ entries'[k] = entries[k]
    BY <1>1, <1>6 DEF Stale, IInv, TypeInv
  <2>2. Stale(k)
    BY <1>5, <1>6, <2>1 DEF Stale
  <2>3. k \in excused \/ \E q \in Clients : k \in OnTheWay(q)
    BY <2>2 DEF EvictedOrCurrent, IInv
  <2> QED BY <1>1, <2>1, <2>3 DEF OnTheWay
<1>7. EvictedOrCurrent'
  BY <1>6 DEF EvictedOrCurrent
<1> QED BY <1>2, <1>3, <1>4, <1>7 DEF IInv

-----------------------------------------------------------------------------
(* Changes: what one may have made stale, it evicts or excuses.             *)

LEMMA ChangeMoves ==
    ASSUME IInv, NEW p \in Clients, NEW job \in Jobs \cup {"ingest"},
           NEW s \in Seq(SUBSET Keys), Change(p, job, s)
    PROVE  /\ proc' \in [Clients -> Requests] /\ RequestInv'
           /\ \A q \in Clients : OnTheWay(q) \subseteq OnTheWay(q)'
           /\ OnTheWay(p)' = Promised(s)
           /\ UNCHANGED <<entries, deployment, faults>>
<1> DEFINE r == [proc[p] EXCEPT !.at = IF s = << >> THEN "idle" ELSE "evict", !.evict = s,
                                !.job = IF s = << >> THEN Nothing ELSE job]
<1>1. proc[p] = Idle /\ Idle \in Requests /\ UNCHANGED <<entries, deployment, faults>>
  BY IdleFits DEF Change
<1>2. r \in Requests
  BY <1>1 DEF Requests, Places
<1>3. Fits(r)
  BY <1>1 DEF Fits, Requests
<1>4. MovesTo(p, r)
  BY <1>2 DEF Change, MovesTo, IInv, TypeInv
<1>5. /\ proc' \in [Clients -> Requests] /\ RequestInv' /\ proc'[p] = r
      /\ \A q \in Clients \ {p} : OnTheWay(q)' = OnTheWay(q)
  BY <1>1, <1>3, <1>4, MoveKeeps DEF IInv
<1>6. OnTheWay(p) = {}
  BY <1>1, NothingOnTheWay DEF IInv, Idle
<1>7. OnTheWay(p)' = Promised(s)
  BY <1>1, <1>5 DEF OnTheWay, Promised, Requests
<1> QED BY <1>1, <1>5, <1>6, <1>7

BackendInv ==
    /\ kbs \in SUBSET KBs /\ revision \in [KBs \X Docs -> Versions] /\ hidden \in SUBSET (KBs \X Docs)
    /\ \A k \in KBs \ kbs, d \in Docs : revision[<<k, d>>] \in {0, Removed}

Excuses(free) ==
    /\ excused' \in SUBSET Keys /\ excused \subseteq excused'
    /\ \A key \in free : Stale(key)' => key \in excused'

Settles(free, s) ==
    \A key \in Keys : HasClient(key) /\ key \notin free \cup Promised(s) =>
        \A f \in SUBSET Docs : Current(key, f)' = Current(key, f)

LEMMA ExcuseExcuses == ASSUME IInv, NEW free \in SUBSET Keys, Excuse(free) PROVE Excuses(free)
  BY DEF Excuse, Excuses, IInv, TypeInv

LEMMA NoExcuse == ASSUME IInv, UNCHANGED excused PROVE Excuses({})
  BY DEF Excuses, IInv, TypeInv

LEMMA ChangeStep ==
    ASSUME IInv, NEW p \in Clients, NEW job \in Jobs \cup {"ingest"},
           NEW s \in Seq(SUBSET Keys), Change(p, job, s), BackendInv',
           NEW free \in SUBSET Keys, Excuses(free), Settles(free, s)
    PROVE  IInv'
<1>1. /\ proc' \in [Clients -> Requests] /\ RequestInv'
      /\ \A q \in Clients : OnTheWay(q) \subseteq OnTheWay(q)'
      /\ OnTheWay(p)' = Promised(s)
      /\ UNCHANGED <<entries, deployment, faults>>
  BY ChangeMoves
<1>2. TypeInv'
  BY <1>1 DEF IInv, TypeInv, BackendInv, Excuses
<1>3. StoreInv'
  BY <1>1, ClientSame DEF IInv, StoreInv, BackendInv
<1>4. ASSUME NEW key \in Keys, Stale(key)'
      PROVE  key \in excused' \/ \E q \in Clients : key \in OnTheWay(q)'
  <2>1. CASE key \in free \cup Promised(s)
    BY <1>1, <1>4, <2>1 DEF Excuses
  <2>2. CASE key \notin free \cup Promised(s)
    <3>1. entries[key] # Nothing /\ entries[key] \in Held /\ HasClient(key)
      BY <1>1, <1>4 DEF Stale, IInv, TypeInv, StoreInv
    <3>2. Current(key, entries[key].filter)' = Current(key, entries[key].filter)
      BY <1>1, <2>2, <3>1 DEF Held, Settles
    <3>3. Stale(key)
      BY <1>1, <1>4, <3>2 DEF Stale
    <3>4. key \in excused \/ \E q \in Clients : key \in OnTheWay(q)
      BY <3>3 DEF EvictedOrCurrent, IInv
    <3> QED BY <1>1, <3>4 DEF Excuses
  <2> QED BY <2>1, <2>2
<1>5. EvictedOrCurrent'
  BY <1>4 DEF EvictedOrCurrent
<1> QED BY <1>1, <1>2, <1>3, <1>5 DEF IInv

(* A change of one document leaves the reads of all others as they were.    *)
LEMMA OthersSame ==
    ASSUME TypeInv, NEW k \in KBs, NEW d \in Docs, UNCHANGED kbs,
           \A x \in KBs \X Docs : x # <<k, d>> =>
               revision'[x] = revision[x] /\ (x \in hidden' <=> x \in hidden),
           NEW key \in Keys, NEW f \in SUBSET Docs,
           key \notin DocPattern(k, d) \cup QueryPattern(k)
    PROVE  Current(key, f)' = Current(key, f)
<1>1. \A j \in KBs, c \in Docs : <<j, c>> # <<k, d>> =>
          Same(j, c) /\ (<<j, c>> \in hidden' <=> <<j, c>> \in hidden)
  BY DEF Same, Live, InKB
<1>2. key.kind \in DocKinds /\ key.kind \in AllDocKinds => <<key.kb, key.doc>> # <<k, d>>
  BY DEF DocPattern
<1>3. key.kind = "query" => key.kb # k
  BY KeyKinds DEF QueryPattern, AllDocKinds
<1>4. key.kind = "query" => key.kind \notin DocKinds
  BY KindsAssumption DEF AllDocKinds
<1>5. key.kind \in DocKinds => Same(key.kb, key.doc)
  <2>1. SUFFICES ASSUME key.kind \in DocKinds PROVE Same(key.kb, key.doc)
    OBVIOUS
  <2>2. key.kind \in AllDocKinds /\ key.kb \in KBs /\ key.doc \in Docs
    BY <1>4, <2>1, KeyKinds, KindsAssumption DEF AllDocKinds
  <2> QED BY <1>1, <1>2, <2>1, <2>2
<1>6. key.kind = "query" =>
          \A c \in Docs : Same(key.kb, c) /\ (<<key.kb, c>> \in hidden' <=> <<key.kb, c>> \in hidden)
  BY <1>1, <1>3, KeyKinds DEF AllDocKinds
<1> QED BY <1>5, <1>6, CurrentSame

(* The documents of a knowledge base that is there can change.              *)
LEMMA LiveIsThere ==
    ASSUME NEW k \in KBs, NEW d \in Docs, Live(k, d) PROVE k \in kbs
  BY DEF Live, InKB

LEMMA OneDocumentStep ==
    ASSUME IInv, NEW p \in Clients, NEW k \in KBs, NEW d \in Docs, k \in kbs,
           NEW job \in Jobs \cup {"ingest"}, NEW s \in Seq(SUBSET Keys), Change(p, job, s),
           NEW v \in Versions, revision' = [revision EXCEPT ![<<k, d>>] = v],
           UNCHANGED <<kbs, hidden>>,
           NEW free \in SUBSET Keys, Excuses(free),
           \A key \in Keys : HasClient(key) /\ key \in DocPattern(k, d) \cup QueryPattern(k) =>
               key \in free \cup Promised(s)
    PROVE  IInv'
<1>1. revision' \in [KBs \X Docs -> Versions]
  BY DEF IInv, TypeInv
<1>2. \A x \in KBs \X Docs : x # <<k, d>> => revision'[x] = revision[x]
  BY DEF IInv, TypeInv
<1>3. \A j \in KBs \ kbs', c \in Docs : revision'[<<j, c>>] \in {0, Removed}
  BY <1>2 DEF IInv, StoreInv
<1>4. BackendInv'
  BY <1>1, <1>3 DEF IInv, TypeInv, BackendInv
<1>5. Settles(free, s)
  BY <1>2, OthersSame DEF IInv, Settles
<1> QED BY <1>4, <1>5, ChangeStep

LEMMA UploadStep ==
    ASSUME IInv, NEW p \in Clients, NEW k \in KBs, NEW d \in Docs, Upload(p, k, d) PROVE IInv'
<1> DEFINE job == IF deployment.wiring = "store" THEN "upload" ELSE "ingest"
           free == IF deployment.wiring = "engine" /\ k = Flat THEN Keys ELSE {}
<1>1. /\ revision' = [revision EXCEPT ![<<k, d>>] = 1] /\ UNCHANGED <<kbs, hidden>> /\ k \in kbs
      /\ Change(p, job, UploadPatterns(k, d)) /\ Excuse(free)
  BY DEF Upload, InKB
<1>2. 1 \in Versions /\ Excuses(free) /\ job \in Jobs \cup {"ingest"} /\ deployment.wiring \in {"store", "engine"}
  BY <1>1, ExcuseExcuses, BoundsAssumption, DeploymentsAssumption DEF Versions, Removed, Jobs, IInv, TypeInv
<1>3. CASE deployment.wiring = "store"
  <2>1. /\ UploadPatterns(k, d) \in Seq(SUBSET Keys)
        /\ Promised(UploadPatterns(k, d)) = DocPattern(k, d) \cup QueryPattern(k)
    BY <1>3, PatternsTyped, PromisedPair DEF UploadPatterns, StorePatterns
  <2>2. free = {}
    BY <1>3
  <2> HIDE DEF job, free
  <2>3. free \in SUBSET Keys
    BY <2>2
  <2>4. \A key \in Keys : HasClient(key) /\ key \in DocPattern(k, d) \cup QueryPattern(k) =>
            key \in free \cup Promised(UploadPatterns(k, d))
    BY <2>1
  <2> QED BY <1>1, <1>2, <2>1, <2>3, <2>4, OneDocumentStep
<1>4. CASE deployment.wiring = "engine" /\ k # Flat
  <2>1. {key \in DocPattern(k, d) : key.kind = "chunk"} \in SUBSET Keys
    BY PatternsTyped
  <2>2. /\ UploadPatterns(k, d) \in Seq(SUBSET Keys)
        /\ Promised(UploadPatterns(k, d)) = {key \in DocPattern(k, d) : key.kind = "chunk"} \cup QueryPattern(k)
    BY <1>4, <2>1, PatternsTyped, PromisedPair DEF UploadPatterns, IngestPatterns
  <2>3. \A key \in Keys : HasClient(key) => key.kind = "query" /\ key.kind \notin DocKinds
    BY <1>4, KindsAssumption DEF HasClient, AllDocKinds
  <2>4. \A key \in Keys : HasClient(key) => key \notin DocPattern(k, d)
    BY <2>3 DEF DocPattern
  <2>5. free = {}
    BY <1>4
  <2> HIDE DEF job, free
  <2>6. free \in SUBSET Keys
    BY <2>5
  <2>7. \A key \in Keys : HasClient(key) /\ key \in DocPattern(k, d) \cup QueryPattern(k) =>
            key \in free \cup Promised(UploadPatterns(k, d))
    BY <2>2, <2>4
  <2> QED BY <1>1, <1>2, <2>2, <2>6, <2>7, OneDocumentStep
<1>5. CASE deployment.wiring = "engine" /\ k = Flat
  <2>1. UploadPatterns(k, d) \in Seq(SUBSET Keys)
    BY <1>5, PromisedPair DEF UploadPatterns, IngestPatterns
  <2>2. free = Keys
    BY <1>5
  <2> HIDE DEF job, free
  <2> QED BY <1>1, <1>2, <2>1, <2>2, OneDocumentStep
<1> QED BY <1>2, <1>3, <1>4, <1>5

LEMMA RewriteStep ==
    ASSUME IInv, NEW p \in Clients, NEW k \in KBs, NEW d \in Docs, Rewrite(p, k, d) PROVE IInv'
<1>1. /\ revision' = [revision EXCEPT ![<<k, d>>] = @ + 1] /\ UNCHANGED <<kbs, hidden>>
      /\ Live(k, d) /\ revision[<<k, d>>] < MaxRevision
      /\ Change(p, "rewrite", << >>) /\ Excuse(Keys)
  BY DEF Rewrite
<1>2. revision[<<k, d>>] + 1 \in Versions /\ k \in kbs
  BY <1>1, LiveIsThere, BoundsAssumption DEF Versions, Removed, Live
<1>3. << >> \in Seq(SUBSET Keys) /\ Excuses(Keys) /\ "rewrite" \in Jobs
  BY <1>1, ExcuseExcuses DEF Jobs
<1> QED BY <1>1, <1>2, <1>3, OneDocumentStep DEF IInv, TypeInv

LEMMA RemoveStep ==
    ASSUME IInv, NEW p \in Clients, NEW k \in KBs, NEW d \in Docs, Remove(p, k, d) PROVE IInv'
<1>1. /\ revision' = [revision EXCEPT ![<<k, d>>] = Removed] /\ UNCHANGED <<kbs, hidden, excused>>
      /\ Live(k, d) /\ Change(p, "remove", StorePatterns(k, d))
  BY DEF Remove
<1>2. Removed \in Versions /\ k \in kbs
  BY <1>1, LiveIsThere, BoundsAssumption DEF Versions, Removed
<1>3. /\ StorePatterns(k, d) \in Seq(SUBSET Keys)
      /\ Promised(StorePatterns(k, d)) = DocPattern(k, d) \cup QueryPattern(k)
  BY PatternsTyped, PromisedPair DEF StorePatterns
<1>4. Excuses({}) /\ "remove" \in Jobs
  BY <1>1, NoExcuse DEF Jobs
<1> QED BY <1>1, <1>2, <1>3, <1>4, OneDocumentStep

LEMMA HideStep ==
    ASSUME IInv, NEW p \in Clients, NEW k \in KBs, NEW d \in Docs, Hide(p, k, d) PROVE IInv'
<1>1. /\ UNCHANGED <<kbs, revision>> /\ hidden' \in SUBSET (KBs \X Docs)
      /\ Change(p, "hide", << >>) /\ Excuse(Keys)
  BY DEF Hide, IInv, TypeInv
<1>2. << >> \in Seq(SUBSET Keys) /\ Excuses(Keys) /\ "hide" \in Jobs
  BY <1>1, ExcuseExcuses DEF Jobs
<1>3. BackendInv' /\ Settles(Keys, << >>)
  BY <1>1 DEF BackendInv, Settles, IInv, TypeInv, StoreInv
<1> QED BY <1>1, <1>2, <1>3, ChangeStep

LEMMA KBPatternsTyped ==
    ASSUME NEW k \in KBs, NEW deleted \in BOOLEAN
    PROVE  /\ KBPatterns(k, deleted) \in Seq(SUBSET Keys)
           /\ deployment.wiring # "engine" =>
                  /\ KBListKey \in Promised(KBPatterns(k, deleted))
                  /\ deleted => QueryKey(k) \in Promised(KBPatterns(k, deleted))
<1>1. {KBListKey} \in SUBSET Keys /\ QueryPattern(k) \in SUBSET Keys /\ << >> \in Seq(SUBSET Keys)
  BY PatternsTyped
<1> QED BY <1>1, PromisedOne, PromisedPair DEF KBPatterns, QueryPattern

(* A knowledge base begins without documents.                               *)
LEMMA CreateKBStep == ASSUME IInv, NEW p \in Clients, NEW k \in KBs, CreateKB(p, k) PROVE IInv'
<1>1. /\ kbs' = kbs \cup {k} /\ k \notin kbs /\ UNCHANGED <<revision, hidden, excused>>
      /\ Change(p, "kb", KBPatterns(k, FALSE))
  BY DEF CreateKB
<1>2. \A d \in Docs : revision[<<k, d>>] \notin 1 .. MaxRevision
  BY <1>1, BoundsAssumption DEF IInv, StoreInv, Removed
<1>3. \A j \in KBs, d \in Docs : Same(j, d)
  BY <1>1, <1>2 DEF Same, Live, InKB
<1>4. ASSUME NEW key \in Keys, HasClient(key), key \notin Promised(KBPatterns(k, FALSE)), NEW f \in SUBSET Docs
      PROVE  Current(key, f)' = Current(key, f)
  <2>1. deployment.wiring \in {"store", "engine"}
    BY DeploymentsAssumption DEF IInv, TypeInv
  <2>2. key.kind # "kblist"
    BY <1>4, <2>1, KBPatternsTyped, KeyKinds, KindsAssumption DEF HasClient, AllDocKinds
  <2>3. key.kind = "query" \/ key.kind \in DocKinds => key.kb \in KBs /\ (key.kind \in DocKinds => key.doc \in Docs)
    BY <2>2, KeyKinds, KindsAssumption DEF AllDocKinds
  <2> QED BY <1>1, <1>3, <2>2, <2>3, CurrentSame
<1>5. Excuses({}) /\ Settles({}, KBPatterns(k, FALSE))
  BY <1>1, <1>4, NoExcuse DEF Settles
<1>6. BackendInv'
  BY <1>1 DEF IInv, TypeInv, StoreInv, BackendInv
<1>7. KBPatterns(k, FALSE) \in Seq(SUBSET Keys) /\ "kb" \in Jobs
  BY KBPatternsTyped DEF Jobs
<1> QED BY <1>1, <1>5, <1>6, <1>7, ChangeStep

LEMMA DeleteKBStep == ASSUME IInv, NEW p \in Clients, NEW k \in KBs, DeleteKB(p, k) PROVE IInv'
<1> DEFINE free == {key \in Keys : deployment.wiring = "engine" \/ key.kind \in DocKinds}
<1>1. /\ kbs' = kbs \ {k} /\ UNCHANGED hidden
      /\ revision' = [x \in DOMAIN revision |->
             IF x[1] = k /\ revision[x] # 0 THEN Removed ELSE revision[x]]
      /\ Change(p, "kb", KBPatterns(k, TRUE)) /\ Excuse(free)
  BY DEF DeleteKB
<1>2. Removed \in Versions /\ DOMAIN revision = KBs \X Docs
  BY BoundsAssumption DEF Versions, Removed, IInv, TypeInv
<1>3. revision' \in [KBs \X Docs -> Versions]
  BY <1>1, <1>2 DEF IInv, TypeInv
<1>4. \A j \in KBs, d \in Docs :
          revision'[<<j, d>>] = IF j = k /\ revision[<<j, d>>] # 0 THEN Removed ELSE revision[<<j, d>>]
  BY <1>1, <1>2
<1>5. \A j \in KBs \ {k}, d \in Docs : Same(j, d)
  <2>1. \A j \in KBs \ {k}, d \in Docs : revision'[<<j, d>>] = revision[<<j, d>>]
    BY <1>4
  <2>2. \A j \in KBs \ {k} : j \in kbs' <=> j \in kbs
    BY <1>1
  <2> QED BY <2>1, <2>2 DEF Same, Live, InKB
<1>6. ASSUME NEW key \in Keys, HasClient(key), key \notin free \cup Promised(KBPatterns(k, TRUE)),
             NEW f \in SUBSET Docs
      PROVE  Current(key, f)' = Current(key, f)
  <2>1. deployment.wiring # "engine" /\ key.kind \notin DocKinds
    BY <1>6
  <2>2. key.kind = "query" /\ key.kb \in KBs /\ key.kb # k
    BY <1>6, <2>1, KBPatternsTyped, KeyKinds
  <2> QED BY <1>1, <1>5, <2>1, <2>2, CurrentSame
<1>7. \A j \in KBs \ kbs', d \in Docs : revision'[<<j, d>>] \in {0, Removed}
  <2>1. SUFFICES ASSUME NEW j \in KBs \ kbs', NEW d \in Docs PROVE revision'[<<j, d>>] \in {0, Removed}
    OBVIOUS
  <2>2. CASE j = k
    BY <1>4, <2>2
  <2>3. CASE j # k
    BY <1>1, <1>4, <2>3 DEF IInv, StoreInv
  <2> QED BY <2>2, <2>3
<1>8. BackendInv'
  BY <1>1, <1>3, <1>7 DEF BackendInv, IInv, TypeInv
<1>9. /\ KBPatterns(k, TRUE) \in Seq(SUBSET Keys) /\ "kb" \in Jobs
      /\ free \in SUBSET Keys /\ Excuses(free)
  BY <1>1, KBPatternsTyped, ExcuseExcuses DEF Jobs
<1>10. Settles(free, KBPatterns(k, TRUE))
  BY <1>6 DEF Settles
<1> QED BY <1>1, <1>8, <1>9, <1>10, ChangeStep

-----------------------------------------------------------------------------
LEMMA StartsWell == Init => IInv
<1>1. SUFFICES ASSUME Init PROVE IInv
  OBVIOUS
<1>2. TypeInv
  BY <1>1, IdleFits, BoundsAssumption DEF Init, TypeInv, Versions, Removed
<1>3. RequestInv
  BY <1>1 DEF Init, RequestInv, Idle
<1>4. StoreInv /\ EvictedOrCurrent
  BY <1>1 DEF Init, StoreInv, EvictedOrCurrent, Stale
<1> QED BY <1>2, <1>3, <1>4 DEF IInv

LEMMA EveryStep == IInv /\ [Next]_vars => IInv'
<1>1. SUFFICES ASSUME IInv, [Next]_vars PROVE IInv'
  OBVIOUS
<1>2. ASSUME NEW p \in Clients, Reads(p) PROVE IInv'
  BY <1>1, <1>2, BeginStep, ReadStep, FillStep, SetFailsStep DEF Reads
<1>3. ASSUME NEW p \in Clients, Changes(p) PROVE IInv'
  BY <1>1, <1>3, UploadStep, RewriteStep, RemoveStep, HideStep, CreateKBStep, DeleteKBStep DEF Changes
<1>4. ASSUME NEW p \in Clients, Evictions(p) PROVE IInv'
  BY <1>1, <1>4, ListKeysStep, DeleteKeysStep, EvictFailsStep DEF Evictions
<1>5. CASE UNCHANGED vars
  <2>1. Untouched /\ UNCHANGED <<proc, deployment, faults, excused>>
    BY <1>5 DEF vars, Untouched
  <2>2. TypeInv' /\ RequestInv' /\ StoreInv'
    BY <1>1, <2>1, ClientSame DEF IInv, TypeInv, RequestInv, StoreInv, Untouched, backend
  <2>3. EvictedOrCurrent'
    BY <1>1, <2>1, StaleSame DEF IInv, EvictedOrCurrent, OnTheWay
  <2> QED BY <2>2, <2>3 DEF IInv
<1> QED BY <1>1, <1>2, <1>3, <1>4, <1>5, ExpireStep, RestartStep DEF Next

(* Whatever the wiring, the faults and the overlap of requests, an entry    *)
(* that disagrees with the backend is one an eviction on its way will drop, *)
(* or one that a failed call, a lost race or a change without evictions     *)
(* has left (search/engine.go, store.go InvalidateDoc, kb/engine.go).       *)
THEOREM StaleIsExplained == Spec => []EvictedOrCurrent
<1>1. IInv => EvictedOrCurrent
  BY DEF IInv
<1> QED BY <1>1, StartsWell, EveryStep, PTL DEF Spec
=============================================================================
