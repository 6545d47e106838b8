------------------------------ MODULE MCArchive ------------------------------
(* Small instances of Archive for TLC.                                      *)
EXTENDS Archive, TLC

CONSTANTS d1, d2, r1, base, kbA, kbB

Plain(asks, embeds) == [asks |-> asks, embeds |-> embeds, faults |-> {}]
Removing == Plain({"web", "remove"} \X {kbA}, FALSE)
TwoKBs == Plain({"web"} \X {kbA, kbB}, FALSE)
Failing == [asks |-> {<<"web", kbA>>}, embeds |-> FALSE, faults |-> {"write", "read", "crash"}]
Vectors == Plain({<<"web", kbA>>}, TRUE)

MCDeployments == {Removing, TwoKBs, Failing}
MCOrders ==
    [x \in MCDeployments |->
        CASE x = Removing -> {<<"export", kbA>>, <<"import", kbB>>}
          [] x = TwoKBs   -> {<<"export", kbA>>, <<"import", kbB>>, <<"delete", kbB>>}
          [] x = Failing  -> {<<"export", kbA>>, <<"import", kbA>>, <<"delete", kbA>>}]

(* Documents are interchangeable. *)
MCSymmetry == Permutations(Docs)

MCVectors == {Vectors}
MCDeletion == [x \in MCVectors |-> {<<"delete", kbA>>}]
==============================================================================
