------------------------------ MODULE MCCaches ------------------------------
(* An instance of Caches.                                                   *)
EXTENDS Caches

CONSTANT ship

AllOrOther == {Docs, {}}
Ask(jobs, k) == jobs \X {k}
MCDeployments ==
    { [wiring |-> "store", asks |-> Ask({"read", "upload", "rewrite", "remove"}, ship)],
      [wiring |-> "store", asks |-> Ask({"read", "upload", "hide", "kb"}, ship) \cup Ask({"read"}, Nothing)],
      [wiring |-> "engine", asks |-> Ask({"read", "upload", "remove", "hide"}, Flat)],
      [wiring |-> "engine", asks |-> Ask({"read", "upload", "rewrite", "kb"}, ship)] }
=============================================================================
