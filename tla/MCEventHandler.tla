----------------------------- MODULE MCEventHandler -----------------------------
(* A small instance of EventHandler.                                       *)
EXTENDS EventHandler
================================================================================
