------------------------------ MODULE MCConfig ------------------------------
(* An instance of Config.                                                   *)
EXTENDS Config

MCRequests ==
    { [rerankEndpoint |-> ""],
      [rerankEndpoint |-> "e2", rerankEnabled |-> FALSE],
      [docParserEndpoint |-> "", apiToken |-> Mask],
      [apiToken |-> "t2", deepseekKey |-> ""],
      [chunkMin |-> 300, deepseekKey |-> Mask],
      [chunkMin |-> 10],
      [chunkOverlap |-> 0],
      [toolDesc |-> "d2"] }

(* The variables of the environment know neither chunk sizes nor            *)
(* descriptions (config.go:236).                                            *)
MCEnvironments ==
    { [rerankEndpoint |-> "e1", docParserEndpoint |-> "", apiToken |-> "", deepseekKey |-> "k1",
       rerankEnabled |-> FALSE, chunkMin |-> 0, chunkOverlap |-> 0, toolDesc |-> ""] }
=============================================================================
