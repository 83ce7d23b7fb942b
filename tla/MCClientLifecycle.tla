--------------------------- MODULE MCClientLifecycle ---------------------------
(* Small instances of ClientLifecycle; the constants are given in the cfg. *)
EXTENDS ClientLifecycle
================================================================================
