---------------------------- MODULE MCVectorIndex ----------------------------
(* An instance of VectorIndex: chunks on a line, their similarity the       *)
(* negated distance. No two pairs have the same distance.                   *)
EXTENDS VectorIndex, TLC

CONSTANTS i1, i2, i3, i4, d1, d2

MCIds == {i1, i2, i3}
Place == [i \in {i1, i2, i3, i4} |->
    CASE i = i1 -> 0 [] i = i2 -> 1 [] i = i3 -> 4 [] i = i4 -> 9]
Away(a, b) == IF a < b THEN b - a ELSE a - b
MCScore == [i \in MCIds |-> [j \in MCIds |-> 0 - Away(Place[i], Place[j])]]
MCDocs == {d1, d2}
MCChunksOf == [d \in MCDocs |-> IF d = d1 THEN {i1, i2} ELSE {i3}]
OnlySearches == {{"search"}}
ClientsAlike == Permutations(Clients)
UploadsWithRebuilds == {{"upload", "rebuild"}}
=============================================================================
