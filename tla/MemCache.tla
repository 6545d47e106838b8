------------------------------- MODULE MemCache -------------------------------
(***************************************************************************)
(* The memory cache (cache/memory.go): a list in order of use beside a map *)
(* from keys to its elements, a capacity, and entries that expire.  Every  *)
(* call holds the cache's mutex from beginning to end, so that each is one *)
(* step.  It implements LossyCache.                                        *)
(***************************************************************************)
EXTENDS Integers, Sequences, Functions

CONSTANTS
    Keys, Values, None,
    Capacity,  \* WithCapacity
    DefTTL,    \* WithDefaultTTL
    TTLs,      \* what callers pass, zero for the default
    Patterns,  \* of DeletePattern: the sets of keys that have a prefix and a suffix
    MaxTime    \* bound of the clock

ASSUME KeysAssumption == None \notin Values /\ Patterns \subseteq SUBSET Keys
ASSUME NumbersAssumption ==
    Capacity \in Nat /\ DefTTL \in Nat /\ TTLs \subseteq Nat /\ MaxTime \in Nat

VARIABLES
    list,   \* keys, the most recently used first
    items,  \* of each key of the map, the value and expiry of its element, expiry 0 for none
    now,
    last    \* history: the last call and its answer

memVars == <<list, items, now, last>>

Call(op, keys, value) == [op |-> op, keys |-> keys, value |-> value]

MemInit ==
    /\ list = << >> /\ items = << >>
    /\ now = 1
    /\ last = Call("new", {}, None)

-----------------------------------------------------------------------------
(* The list, which holds no key twice.                                      *)

Without(s, S) == SelectSeq(s, LAMBDA k : k \notin S)
MoveToFront(k) == <<k>> \o Without(list, {k})

(* Entries are thrown out from the back while the list is at capacity.      *)
Kept == IF Len(list) < Capacity THEN Len(list) ELSE IF Capacity = 0 THEN 0 ELSE Capacity - 1
Evicted == {list[i] : i \in Kept + 1 .. Len(list)}

(* The elements of the keys of S are taken from list and map.               *)
Drop(S) == list' = Without(list, S) /\ items' = Restrict(items, DOMAIN items \ S)

ExpiredStale(k) == FALSE  \* mutant: the expiry is not looked at
Expired(k) == items[k].expiry # 0 /\ items[k].expiry < now

Found(k) == k \in DOMAIN items /\ ~Expired(k)

Get(k) ==
    /\ IF Found(k) THEN list' = MoveToFront(k) /\ UNCHANGED items ELSE Drop({k})
    /\ last' = Call("get", {k}, IF Found(k) THEN items[k].value ELSE None)
    /\ UNCHANGED now

Expiry(ttl) ==
    LET t == IF ttl = 0 THEN DefTTL ELSE ttl IN IF t > 0 THEN now + t ELSE 0

Holding(k, v, ttl, others) ==
    [x \in {k} \cup others |-> IF x = k THEN [value |-> v, expiry |-> Expiry(ttl)] ELSE items[x]]

Set(k, v, ttl) ==
    /\ IF k \in DOMAIN items
       THEN list' = MoveToFront(k) /\ items' = Holding(k, v, ttl, DOMAIN items)
       ELSE /\ list' = <<k>> \o SubSeq(list, 1, Kept)
            /\ items' = Holding(k, v, ttl, DOMAIN items \ Evicted)
    /\ last' = Call("set", {k}, v)
    /\ UNCHANGED now

(* Delete, DeletePattern, which walks the map and removes each match from   *)
(* both, and Close, which empties both.                                     *)
Delete(S) ==
    /\ Drop(S)
    /\ last' = Call("delete", S, None)
    /\ UNCHANGED now

Tick == now < MaxTime /\ now' = now + 1 /\ UNCHANGED <<list, items, last>>

MemNext ==
    \/ \E k \in Keys : Get(k) \/ \E v \in Values, ttl \in TTLs : Set(k, v, ttl)
    \/ \E S \in Patterns : Delete(S)
    \/ Tick

MemSpec == MemInit /\ [][MemNext]_memVars

-----------------------------------------------------------------------------
(* What the map holds, less what has expired.                               *)
stored == [k \in Keys |->
    IF k \in DOMAIN items /\ (items[k].expiry = 0 \/ now <= items[k].expiry)
    THEN items[k].value ELSE None]

Lossy == INSTANCE LossyCache WITH contents <- stored

(* Whatever is evicted or expires, a Get answers with the value last set or *)
(* with a miss, and a deleted entry is gone until it is set again.          *)
ImplementsCache == Lossy!LossySpec
=============================================================================
