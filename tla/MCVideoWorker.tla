--------------------------- MODULE MCVideoWorker ---------------------------
(* Instances of VideoWorker for TLC.                                       *)
EXTENDS VideoWorker

(* The one list a client may send while there is one job.                 *)
IdOrderings == {<<j>> : j \in Jobs}
=============================================================================
