----------------------------- MODULE MCDocuments -----------------------------
(* Small instances of Documents for TLC.                                    *)
EXTENDS Documents

CONSTANTS d1, d2, d3, d4, r1, r2, base, kbA, kbB

(* The flat knowledge base alone; a named one alone, with an embedder; a     *)
(* named one alone, with tag updates and no removals.                       *)
MCOneKB ==
    {[asks |-> {"engine", "remove", "replace", "tags"} \X {base}, embeds |-> TRUE,
      faults |-> {"write", "read", "crash"}],
     [asks |-> {"web", "remove"} \X {kbA}, embeds |-> TRUE, faults |-> {}],
     [asks |-> {"web", "tags"} \X {kbA}, embeds |-> FALSE, faults |-> {"crash"}]}

(* Two named ones and an embedder.                                          *)
MCTwoKBs == {[asks |-> {"web"} \X {kbA, kbB}, embeds |-> TRUE, faults |-> {}]}
==============================================================================
