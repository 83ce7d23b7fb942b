---------------------------- MODULE MCPollingWorker ----------------------------
(* Small instances of PollingWorker; the constants are given in the cfg.   *)
EXTENDS PollingWorker
================================================================================
