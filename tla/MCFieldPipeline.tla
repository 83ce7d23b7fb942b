---------------------------- MODULE MCFieldPipeline ----------------------------
(* Small instances of FieldPipeline; the constants are given in the cfg.   *)
EXTENDS FieldPipeline
================================================================================
