------------------------------- MODULE FieldData -------------------------------
(***************************************************************************)
(* AnalyticsManager by itself: any number of threads solve for new         *)
(* coefficients, calculate fields, evaluate points and slices, and hold    *)
(* read views of the field, under the two shared_mutexes of the class.     *)
(* (FieldPipeline has the one writer that TPC is.)                         *)
(*                                                                         *)
(* A lock is not stored: who holds it follows from where the threads are.  *)
(***************************************************************************)
EXTENDS Naturals

CONSTANTS Threads,
          Bases,      \* the bases a manager may be created with
          GridSizes,  \* numbers of points of the grids; 0 for a radius that is NaN
          Solutions,  \* results of the SVD
          None,       \* no coefficients yet; a value that is not computed yet
          MaxCalls    \* how many calls are made in all: a bound

Dimension == 3        \* kDimension

ASSUME DataAssumption ==
    /\ None \notin Solutions
    /\ GridSizes \subseteq Nat
    /\ MaxCalls \in Nat
    /\ Bases \subseteq [arity : Nat, functions : Nat]

VARIABLES
    basis,         \* basis_collection_: arity_ and how many functions it holds
    coefficients,  \* stored_coefficients_: a solution, or None
    coordinates,   \* field_data_: the number of points of its grid
    field,         \* and the solution each of its values was computed with
    valid,         \* field_data_valid_
    at,            \* where each thread stands in the class
    id,            \* calculate_field_kernel: the points computed so far
    calls          \* calls begun: bounded by MaxCalls

vars == <<basis, coefficients, coordinates, field, valid, at, id, calls>>

field_data == <<coordinates, field, valid>>

Kernels == {"kernel", "point", "slice"}

(* Defect: a thread that solves holds the shared lock it wants to upgrade. *)
CoefficientsShared_Upgrade ==
    {t \in Threads : at[t] \in {"store", "lock", "grid", "resize"} \cup Kernels}

(* Holders of coefficients_mutex_ and of field_data_mutex_.  The unique    *)
(* lock of line 121 is taken and given back within one step.               *)
CoefficientsShared ==
    {t \in Threads : at[t] \in {"lock", "grid", "resize"} \cup Kernels}
FieldUnique == {t \in Threads : at[t] \in {"grid", "resize", "kernel"}}
FieldShared == {t \in Threads : at[t] \in {"view", "export"}}

(* A basis takes functions until there are arity_ of them.                 *)
Buildable == {b \in Bases : b.arity # 0 /\ b.functions \leq b.arity}

(* An AnalyticsManager takes any basis that has a function.                *)
Init ==
    /\ basis \in {b \in Buildable : b.functions # 0}
    /\ coefficients = None
    /\ coordinates = 0
    /\ field = <<>>
    /\ valid = FALSE
    /\ at = [t \in Threads |-> "out"]
    /\ id = [t \in Threads |-> 0]
    /\ calls = 0

Goto(t, place) == at' = [at EXCEPT ![t] = place]

(* A call that fails its first checks returns an error and changes nothing *)
(* and is not an action; the others begin here.                            *)
Begin(t, place) ==
    /\ at[t] = "out"
    /\ calls < MaxCalls
    /\ calls' = calls + 1
    /\ Goto(t, place)
    /\ UNCHANGED <<basis, coefficients, field_data, id>>

--------------------------------------------------------------------------------
(* calculate_svd_coefficients                                              *)

(* Defect: a basis of any size is solved for.                              *)
Solve_AnyBasis(t) == Begin(t, "store")

(* solve_svd refuses a basis that lacks a function for a component of the  *)
(* field, or has one too many.                                             *)
Solvable == basis.functions = Dimension

Solve(t) == Solvable /\ Begin(t, "store")

(* Defect: the coefficients are stored without the lock.                   *)
Store_NoLock(t) ==
    /\ at[t] = "store"
    /\ coefficients' \in Solutions
    /\ Goto(t, "out")
    /\ UNCHANGED <<basis, field_data, id, calls>>

Store(t) ==
    /\ at[t] = "store"
    /\ CoefficientsShared = {}
    /\ coefficients' \in Solutions
    /\ Goto(t, "out")
    /\ UNCHANGED <<basis, field_data, id, calls>>

--------------------------------------------------------------------------------
(* calculate_field: the arity is checked, not the number of functions.     *)

Calculate(t) ==
    /\ basis.arity = Dimension
    /\ coefficients # None
    /\ Begin(t, "lock")

(* The operations of FieldCollection.                                      *)
clear == coordinates' = 0 /\ field' = <<>>

append_coordinates == \E n \in GridSizes : coordinates' = coordinates + n

resize_field_to_coordinates ==
    field' = [i \in 1..coordinates |-> IF i \in DOMAIN field THEN field[i] ELSE None]

(* Defect: the points of the last grid stay.                               *)
Invalidate_NoClear(t) ==
    /\ at[t] = "lock"
    /\ FieldUnique \cup FieldShared = {}
    /\ valid' = FALSE
    /\ Goto(t, "grid")
    /\ UNCHANGED <<basis, coefficients, coordinates, field, id, calls>>

Invalidate(t) ==
    /\ at[t] = "lock"
    /\ FieldUnique \cup FieldShared = {}
    /\ clear
    /\ valid' = FALSE
    /\ Goto(t, "grid")
    /\ UNCHANGED <<basis, coefficients, id, calls>>

(* Dimensions that are too small, or no memory to reserve or to resize: an *)
(* invalid field stays behind.                                             *)
GridFails(t) ==
    /\ at[t] \in {"grid", "resize"}
    /\ Goto(t, "out")
    /\ UNCHANGED <<basis, coefficients, field_data, id, calls>>

(* The points are appended.                                               *)
Grid(t) ==
    /\ at[t] = "grid"
    /\ append_coordinates
    /\ Goto(t, "resize")
    /\ UNCHANGED <<basis, coefficients, field, valid, id, calls>>

Resize(t) ==
    /\ at[t] = "resize"
    /\ resize_field_to_coordinates
    /\ id' = [id EXCEPT ![t] = 0]
    /\ Goto(t, "kernel")
    /\ UNCHANGED <<basis, coefficients, coordinates, valid, calls>>

Kernel(t) ==
    /\ at[t] = "kernel"
    /\ id[t] < coordinates
    /\ field' = [field EXCEPT ![id[t] + 1] = coefficients]
    /\ id' = [id EXCEPT ![t] = id[t] + 1]
    /\ UNCHANGED <<basis, coefficients, coordinates, valid, at, calls>>

Publish(t) ==
    /\ at[t] = "kernel"
    /\ id[t] = coordinates
    /\ valid' = TRUE
    /\ Goto(t, "out")
    /\ UNCHANGED <<basis, coefficients, coordinates, field, id, calls>>

--------------------------------------------------------------------------------
(* Readers of the coefficients (evaluate_for_point, evaluate_field_slice)  *)
(* and of the field (a FieldReadView, export_to_vtk()): they hold a shared *)
(* lock from begin to end.                                                 *)

Evaluate(t) ==
    /\ coefficients # None
    /\ \E what \in {"point", "slice"} : Begin(t, what)

View(t) == Begin(t, "request")

Acquire(t) ==
    /\ at[t] = "request"
    /\ FieldUnique = {}
    /\ IF valid THEN \E what \in {"view", "export"} : Goto(t, what)
                ELSE Goto(t, "out")
    /\ UNCHANGED <<basis, coefficients, field_data, id, calls>>

End(t) ==
    /\ at[t] \in {"point", "slice", "view", "export"}
    /\ Goto(t, "out")
    /\ UNCHANGED <<basis, coefficients, field_data, id, calls>>

--------------------------------------------------------------------------------

Locked(t) == Store(t) \/ Invalidate(t) \/ Acquire(t)

Step(t) ==
    \/ GridFails(t) \/ Grid(t) \/ Resize(t) \/ Kernel(t) \/ Publish(t)
    \/ End(t)

(* The bound is reached, or the basis allows no call at all.               *)
Rest ==
    /\ \A t \in Threads : at[t] = "out"
    /\ UNCHANGED vars

Next ==
    \/ \E t \in Threads :
        \/ Solve(t) \/ Calculate(t) \/ Evaluate(t) \/ View(t)
        \/ Locked(t) \/ Step(t)
    \/ Rest

(* Threads run, readers let go of their views, and a lock that is free     *)
(* again and again is obtained.                                            *)
Fairness == \A t \in Threads : WF_vars(Step(t)) /\ SF_vars(Locked(t))

Spec == Init /\ [][Next]_vars /\ Fairness

--------------------------------------------------------------------------------
(* Every variable keeps its type.                                          *)
TypeOK ==
    /\ basis \in Bases
    /\ coefficients \in Solutions \cup {None}
    /\ coordinates \in GridSizes \cup {0}
    /\ \E n \in GridSizes \cup {0} : field \in [1..n -> Solutions \cup {None}]
    /\ valid \in BOOLEAN
    /\ at \in [Threads -> {"out", "store", "lock", "grid", "resize",
                           "request", "view", "export"} \cup Kernels]
    /\ id \in [Threads -> Nat]
    /\ calls \in 0..MaxCalls

(* A field that may be read, or is being read, is complete, and all of it  *)
(* was computed with the same coefficients, whatever was solved for or     *)
(* calculated meanwhile (lines 241-269, 275-281).                          *)
WholeField ==
    /\ DOMAIN field = 1..coordinates
    /\ \E s \in Solutions : \A i \in 1..coordinates : field[i] = s

FieldOfOneSolve == (valid \/ FieldShared # {}) => WholeField

(* No kernel reads a coefficient or a basis function that is not there,    *)
(* though none of them checks the number of functions: lines 131, 219 and  *)
(* 381 index the basis by component.                                       *)
BasisInRange ==
    \A t \in Threads : at[t] \in Kernels =>
        coefficients # None /\ basis.functions \geq Dimension

(* No call waits for ever, for the other threads or for itself, as long as *)
(* a thread that holds a view makes no call before it lets go of it.       *)
CallsReturn == \A t \in Threads : at[t] # "out" ~> at[t] = "out"

================================================================================
