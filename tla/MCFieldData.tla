------------------------------ MODULE MCFieldData ------------------------------
(* A small instance of FieldData: bases that are whole, lack a function,   *)
(* have one too many, or expect a component too many.                      *)
EXTENDS FieldData

FourBases == {[arity |-> 3, functions |-> 3], [arity |-> 3, functions |-> 2],
              [arity |-> 4, functions |-> 4], [arity |-> 4, functions |-> 3]}
================================================================================
