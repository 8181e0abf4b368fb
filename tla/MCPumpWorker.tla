---------------------------- MODULE MCPumpWorker ----------------------------
(* Instances of PumpWorker for TLC; the constants are in the .cfg files. *)
EXTENDS PumpWorker
=============================================================================
