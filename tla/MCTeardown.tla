------------------------------- MODULE MCTeardown -------------------------------
(* The instance of Teardown: it has one application and three workers.     *)
EXTENDS Teardown
================================================================================
