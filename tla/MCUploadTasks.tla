--------------------------- MODULE MCUploadTasks ---------------------------
(* Small instances of UploadTasks for TLC.                                 *)
EXTENDS UploadTasks, TLC

CONSTANTS t1, t2, s1, s2

=============================================================================
