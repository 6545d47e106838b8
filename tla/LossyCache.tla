------------------------------ MODULE LossyCache ------------------------------
(***************************************************************************)
(* What the Cache interface (cache/cache.go) promises: a cache may forget  *)
(* an entry at any time, but it answers with nothing else than the value   *)
(* last set, and with nothing after a deletion.                            *)
(***************************************************************************)
CONSTANTS Keys, Values, None

VARIABLES
    contents, \* what a Get of each key would answer now, None for a miss
    last      \* the last call and its answer

Call(op, keys, value) == [op |-> op, keys |-> keys, value |-> value]

LossyInit ==
    /\ contents = [k \in Keys |-> None]
    /\ last = Call("new", {}, None)

Forgetting(S) == [k \in Keys |-> IF k \in S THEN None ELSE contents[k]]

Put(k, v) ==
    /\ \E S \in SUBSET Keys : contents' = [Forgetting(S) EXCEPT ![k] = v]
    /\ last' = Call("set", {k}, v)

Ask(k) == UNCHANGED contents /\ last' = Call("get", {k}, contents[k])

Remove(S) == contents' = Forgetting(S) /\ last' = Call("delete", S, None)

Forget == \E S \in SUBSET Keys : contents' = Forgetting(S) /\ UNCHANGED last

LossyNext ==
    \/ \E k \in Keys : Ask(k) \/ \E v \in Values : Put(k, v)
    \/ \E S \in SUBSET Keys : Remove(S)
    \/ Forget

LossySpec == LossyInit /\ [][LossyNext]_<<contents, last>>
=============================================================================
