---------------------------- MODULE MCSoftDelete ----------------------------
(* Instances of SoftDelete for TLC. *)
EXTENDS SoftDelete, TLC

CONSTANTS d1, d2, c1, c2, kbA, kbB

(* Every document is in the base knowledge base. *)
MCOneKB == [d \in Docs |-> BaseKB]

(* d1 is in the base knowledge base, d2 in the other one. *)
MCTwoKBs == (d1 :> kbA) @@ (d2 :> kbB)

MCSymmetry == Permutations(Docs) \cup Permutations(Clients)
=============================================================================
