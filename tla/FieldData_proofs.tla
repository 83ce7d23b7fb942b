---------------------------- MODULE FieldData_proofs ----------------------------
(***************************************************************************)
(* Proofs about FieldData, for any number of threads, bases and grids:     *)
(* what the two shared_mutexes of AnalyticsManager protect.                *)
(***************************************************************************)
EXTENDS FieldData, TLAPS

(* A thread that writes the field is alone with it.                        *)
Exclusion ==
    \A t, u \in Threads :
        t \in FieldUnique /\ u \in FieldUnique \cup FieldShared => t = u

(* Coefficients are there for whoever uses them, and were solved for.      *)
Solved ==
    /\ coefficients # None => Solvable
    /\ \A t \in Threads :
        /\ at[t] = "store" => Solvable
        /\ t \in CoefficientsShared => coefficients # None

(* How far the thread that writes the field has come.                      *)
Written ==
    \A t \in Threads :
        /\ t \in FieldUnique => ~valid
        /\ at[t] = "grid" => coordinates = 0
        /\ at[t] = "resize" => coordinates \in GridSizes
        /\ at[t] = "kernel" =>
               /\ coordinates \in GridSizes
               /\ DOMAIN field = 1..coordinates
               /\ id[t] \leq coordinates
               /\ \A i \in 1..id[t] : field[i] = coefficients

(* What is valid is whole, and readers only read what is valid.            *)
Readable ==
    /\ valid => WholeField
    /\ FieldShared # {} => valid

IInv == TypeOK /\ Exclusion /\ Solved /\ Written /\ Readable

--------------------------------------------------------------------------------
(* A field that was cleared is one of no points.                           *)
LEMMA EmptyField ==
    ASSUME NEW S
    PROVE  <<>> \in [1..0 -> S]
<1>1. 1..0 = {}
  OBVIOUS
<1>2. DOMAIN <<>> = {}
  OBVIOUS
<1> QED
  BY <1>1, <1>2

(* A call that begins, ends or gives up changes no data.                   *)
LEMMA MoveKeeps ==
    ASSUME IInv, NEW t \in Threads, NEW place, Goto(t, place),
           UNCHANGED <<basis, coefficients, field_data, id>>,
           calls' \in 0..MaxCalls,
           place \in {"out", "store", "lock", "request", "point", "slice"},
           place = "store" => Solvable,
           place \in {"lock", "point", "slice"} => coefficients # None
    PROVE  IInv'
<1> USE DataAssumption DEF IInv, field_data, Goto
<1>1. /\ at' \in [Threads -> {"out", "store", "lock", "grid", "resize",
                               "request", "view", "export"} \cup Kernels]
      /\ \A u \in Threads : u # t => at'[u] = at[u]
      /\ at'[t] = place
  BY DEF TypeOK, Kernels
<1>2. TypeOK'
  BY <1>1 DEF TypeOK
<1>3. /\ FieldUnique' \subseteq FieldUnique
      /\ FieldShared' \subseteq FieldShared
  BY <1>1 DEF FieldUnique, FieldShared
<1>4. Exclusion'
  BY <1>3 DEF Exclusion
<1>5. Solved'
  BY <1>1 DEF Solved, Solvable, CoefficientsShared, Kernels
<1>6. Written'
  BY <1>1, <1>3 DEF Written
<1>7. Readable'
  BY <1>3 DEF Readable, WholeField
<1> QED
  BY <1>2, <1>4, <1>5, <1>6, <1>7

--------------------------------------------------------------------------------
(* The field is written by one thread at a time, from coefficients that    *)
(* do not change, and what can be read of it is complete.                  *)
THEOREM Protection == Spec => []IInv
<1>1. Init => IInv
  <2> SUFFICES ASSUME Init
               PROVE  IInv
    OBVIOUS
  <2> USE DataAssumption
  <2>1. field \in [1..0 -> Solutions \cup {None}]
    BY EmptyField DEF Init
  <2>2. TypeOK
    <3>1. \E n \in GridSizes \cup {0} : field \in [1..n -> Solutions \cup {None}]
      BY <2>1
    <3>2. basis \in Bases
      BY DEF Init, Buildable
    <3>3. /\ coefficients \in Solutions \cup {None}
          /\ coordinates \in GridSizes \cup {0}
          /\ valid \in BOOLEAN
      BY Zenon DEF Init
    <3>4. calls \in 0..MaxCalls
      <4>1. calls = 0
        BY DEF Init
      <4> QED
        BY <4>1
    <3>5. /\ at \in [Threads -> {"out", "store", "lock", "grid", "resize",
                                 "request", "view", "export"} \cup Kernels]
          /\ id \in [Threads -> Nat]
      BY DEF Init
    <3> QED
      BY ONLY <3>1, <3>2, <3>3, <3>4, <3>5 DEF TypeOK
  <2>3. Exclusion /\ Solved /\ Written /\ Readable
    BY DEF Init, Exclusion, Solved, Written, Readable, FieldUnique,
           FieldShared, CoefficientsShared, Kernels
  <2> QED
    BY <2>2, <2>3 DEF IInv
<1>2. IInv /\ [Next]_vars => IInv'
  <2> SUFFICES ASSUME IInv, [Next]_vars
               PROVE  IInv'
    OBVIOUS
  <2> USE DataAssumption
  <2>1. CASE UNCHANGED vars
    BY <2>1 DEF vars, IInv, TypeOK, Exclusion, Solved, Solvable, Written,
                Readable, WholeField, FieldUnique, FieldShared, CoefficientsShared
  <2> SUFFICES ASSUME NEW t \in Threads,
                      \/ Solve(t) \/ Calculate(t) \/ Evaluate(t) \/ View(t)
                      \/ Locked(t) \/ Step(t)
               PROVE  IInv'
    BY <2>1 DEF Next, Rest
  <2>2. CASE Solve(t)
    <3>1. calls' \in 0..MaxCalls
      BY <2>2 DEF Solve, Begin, IInv, TypeOK
    <3> QED
      BY ONLY <2>2, <3>1, IInv, MoveKeeps, t \in Threads DEF Solve, Begin
  <2>3. CASE Calculate(t)
    <3>1. calls' \in 0..MaxCalls
      BY <2>3 DEF Calculate, Begin, IInv, TypeOK
    <3> QED
      BY ONLY <2>3, <3>1, IInv, MoveKeeps, t \in Threads DEF Calculate, Begin
  <2>4. CASE Evaluate(t)
    <3>1. calls' \in 0..MaxCalls
      BY <2>4 DEF Evaluate, Begin, IInv, TypeOK
    <3> QED
      BY ONLY <2>4, <3>1, IInv, MoveKeeps, t \in Threads DEF Evaluate, Begin
  <2>5. CASE View(t)
    <3>1. calls' \in 0..MaxCalls
      BY <2>5 DEF View, Begin, IInv, TypeOK
    <3> QED
      BY ONLY <2>5, <3>1, IInv, MoveKeeps, t \in Threads DEF View, Begin
  <2>6. CASE GridFails(t)
    <3>1. calls' \in 0..MaxCalls
      BY <2>6 DEF GridFails, IInv, TypeOK
    <3> QED
      BY ONLY <2>6, <3>1, IInv, MoveKeeps, t \in Threads DEF GridFails
  <2>7. CASE End(t)
    <3>1. calls' \in 0..MaxCalls
      BY <2>7 DEF End, IInv, TypeOK
    <3> QED
      BY ONLY <2>7, <3>1, IInv, MoveKeeps, t \in Threads DEF End
  <2> USE DEF IInv, Goto, field_data
  <2>8. CASE Store(t)
    <3> USE DEF Store
    <3>1. TypeOK'
      BY <2>8 DEF TypeOK, Kernels
    <3>2. at'[t] = "out" /\ \A u \in Threads : u # t => at'[u] = at[u]
      BY <2>8 DEF TypeOK
    <3>3. Solvable'
      BY <2>8 DEF Solved, Solvable
    <3>4. coefficients' # None
      BY <2>8
    <3>5. Solved'
      BY <2>8, <3>2, <3>3, <3>4 DEF Solved, CoefficientsShared
    <3>6. /\ FieldUnique' \subseteq FieldUnique
          /\ FieldShared' \subseteq FieldShared
      BY <3>2 DEF FieldUnique, FieldShared
    <3>7. Exclusion'
      BY <3>6 DEF Exclusion
    <3>8. \A u \in Threads : at'[u] # "kernel"
      BY <2>8, <3>2 DEF CoefficientsShared, Kernels
    <3>9. Written'
      BY <2>8, <3>2, <3>6, <3>8 DEF Written
    <3>10. Readable'
      BY <2>8, <3>6 DEF Readable, WholeField
    <3> QED
      BY <3>1, <3>5, <3>7, <3>9, <3>10
  <2>9. CASE Invalidate(t)
    <3> USE DEF Invalidate
    <3>1. TypeOK'
      <4>1. field' \in [1..0 -> Solutions \cup {None}]
        BY <2>9, EmptyField DEF clear
      <4>2. \E n \in GridSizes \cup {0} : field' \in [1..n -> Solutions \cup {None}]
        BY <4>1
      <4> QED
        BY <2>9, <4>2 DEF TypeOK, clear
    <3>2. at'[t] = "grid" /\ \A u \in Threads : u # t => at'[u] = at[u]
      BY <2>9 DEF TypeOK
    <3>3. FieldUnique' = {t} /\ FieldShared' = {}
      BY <2>9, <3>2 DEF FieldUnique, FieldShared
    <3>4. Exclusion'
      BY <3>3 DEF Exclusion
    <3>5. Solved'
      BY <2>9, <3>2 DEF Solved, Solvable, CoefficientsShared
    <3>6. \A u \in Threads : at'[u] \in {"grid", "resize", "kernel"} => u = t
      BY <3>3 DEF FieldUnique
    <3>7. Written'
      BY <2>9, <3>2, <3>6 DEF Written, clear
    <3>8. Readable'
      BY <2>9, <3>3 DEF Readable
    <3> QED
      BY <3>1, <3>4, <3>5, <3>7, <3>8
  <2>10. CASE Grid(t)
    <3> USE DEF Grid
    <3>1. coordinates' \in GridSizes
      BY <2>10 DEF append_coordinates, Written
    <3>2. TypeOK'
      BY <2>10, <3>1 DEF TypeOK
    <3>3. at'[t] = "resize" /\ \A u \in Threads : u # t => at'[u] = at[u]
      BY <2>10 DEF TypeOK
    <3>4. FieldUnique' = FieldUnique /\ FieldShared' = FieldShared
      BY <2>10, <3>3 DEF FieldUnique, FieldShared
    <3>5. Exclusion'
      BY <3>4 DEF Exclusion
    <3>6. Solved'
      BY <2>10, <3>3 DEF Solved, Solvable, CoefficientsShared
    <3>7. t \in FieldUnique /\ ~valid
      BY <2>10 DEF FieldUnique, Written
    <3>8. \A u \in Threads : at'[u] \in {"grid", "resize", "kernel"} => u = t
      BY <3>4, <3>7 DEF FieldUnique, Exclusion
    <3>9. Written'
      BY <2>10, <3>1, <3>3, <3>7, <3>8 DEF Written, FieldUnique
    <3>10. Readable'
      BY <2>10, <3>4, <3>7 DEF Readable
    <3> QED
      BY <3>2, <3>5, <3>6, <3>9, <3>10
  <2>11. CASE Resize(t)
    <3> USE DEF Resize
    <3>1. coordinates \in GridSizes
      BY <2>11 DEF Written
    <3>2. field' \in [1..coordinates -> Solutions \cup {None}]
      BY <2>11 DEF TypeOK, resize_field_to_coordinates
    <3>3. TypeOK'
      <4>1. \E n \in GridSizes \cup {0} : field' \in [1..n -> Solutions \cup {None}]
        BY <3>1, <3>2
      <4> QED
        BY <2>11, <4>1 DEF TypeOK, Kernels
    <3>4. at'[t] = "kernel" /\ \A u \in Threads : u # t => at'[u] = at[u]
      BY <2>11 DEF TypeOK
    <3>5. FieldUnique' = FieldUnique /\ FieldShared' = FieldShared
      BY <2>11, <3>4 DEF FieldUnique, FieldShared
    <3>6. Exclusion'
      BY <3>5 DEF Exclusion
    <3>7. Solved'
      BY <2>11, <3>4 DEF Solved, Solvable, CoefficientsShared, Kernels
    <3>8. t \in FieldUnique /\ ~valid
      BY <2>11 DEF FieldUnique, Written
    <3>9. \A u \in Threads : at'[u] \in {"grid", "resize", "kernel"} => u = t
      BY <3>5, <3>8 DEF FieldUnique, Exclusion
    <3>10. id'[t] = 0
      BY <2>11 DEF TypeOK
    <3>11. Written'
      BY <2>11, <3>1, <3>2, <3>4, <3>8, <3>9, <3>10 DEF Written, FieldUnique
    <3>12. Readable'
      BY <2>11, <3>5, <3>8 DEF Readable
    <3> QED
      BY <3>3, <3>6, <3>7, <3>11, <3>12
  <2>12. CASE Kernel(t)
    <3> USE DEF Kernel
    <3>1. /\ t \in FieldUnique /\ ~valid
          /\ coordinates \in GridSizes
          /\ field \in [1..coordinates -> Solutions \cup {None}]
          /\ \A i \in 1..id[t] : field[i] = coefficients
      BY <2>12 DEF FieldUnique, Written, TypeOK
    <3>2. id[t] + 1 \in 1..coordinates /\ coefficients \in Solutions \cup {None}
      BY <2>12, <3>1 DEF TypeOK
    <3>3. /\ field' \in [1..coordinates -> Solutions \cup {None}]
          /\ \A i \in 1..(id[t] + 1) : field'[i] = coefficients
      BY <2>12, <3>1, <3>2 DEF TypeOK
    <3>4. id' \in [Threads -> Nat] /\ id'[t] = id[t] + 1
      BY <2>12 DEF TypeOK
    <3>5. TypeOK'
      <4>1. \E n \in GridSizes \cup {0} : field' \in [1..n -> Solutions \cup {None}]
        BY <3>1, <3>3
      <4> QED
        BY <2>12, <3>4, <4>1 DEF TypeOK
    <3>6. FieldUnique' = FieldUnique /\ FieldShared' = FieldShared
      BY <2>12 DEF FieldUnique, FieldShared
    <3>7. Exclusion'
      BY <3>6 DEF Exclusion
    <3>8. Solved'
      BY <2>12 DEF Solved, Solvable, CoefficientsShared
    <3>9. \A u \in Threads : at[u] \in {"grid", "resize", "kernel"} => u = t
      BY <3>1 DEF FieldUnique, Exclusion
    <3>10. Written'
      BY <2>12, <3>1, <3>2, <3>3, <3>4, <3>9 DEF Written, FieldUnique
    <3>11. Readable'
      BY <2>12, <3>1, <3>6 DEF Readable
    <3> QED
      BY <3>5, <3>7, <3>8, <3>10, <3>11
  <2>13. CASE Publish(t)
    <3> USE DEF Publish
    <3>1. TypeOK'
      BY <2>13 DEF TypeOK
    <3>2. at'[t] = "out" /\ \A u \in Threads : u # t => at'[u] = at[u]
      BY <2>13 DEF TypeOK
    <3>3. t \in FieldUnique
      BY <2>13 DEF FieldUnique
    <3>4. FieldUnique' = {} /\ FieldShared' = {}
      BY <3>2, <3>3 DEF FieldUnique, FieldShared, Exclusion
    <3>5. Exclusion'
      BY <3>4 DEF Exclusion
    <3>6. Solved'
      BY <2>13, <3>2 DEF Solved, Solvable, CoefficientsShared, Kernels
    <3>7. Written'
      BY <3>4 DEF Written, FieldUnique
    <3>8. /\ coordinates \in GridSizes
          /\ DOMAIN field = 1..coordinates
          /\ \A i \in 1..coordinates : field[i] = coefficients
      BY <2>13 DEF Written
    <3>9. coefficients \in Solutions
      BY <2>13 DEF Solved, CoefficientsShared, Kernels, TypeOK
    <3>10. WholeField
      BY <3>8, <3>9 DEF WholeField
    <3>11. Readable'
      BY <2>13, <3>4, <3>10 DEF Readable, WholeField
    <3> QED
      BY <3>1, <3>5, <3>6, <3>7, <3>11
  <2>14. CASE Acquire(t)
    <3> USE DEF Acquire
    <3>1. PICK place \in {"view", "export", "out"} :
              Goto(t, place) /\ (place # "out" => valid)
      BY <2>14
    <3>2. TypeOK'
      BY <2>14, <3>1 DEF TypeOK
    <3>3. at'[t] = place /\ \A u \in Threads : u # t => at'[u] = at[u]
      BY <3>1 DEF TypeOK
    <3>4. FieldUnique' = {}
      BY <2>14, <3>3 DEF FieldUnique
    <3>5. Exclusion'
      BY <3>4 DEF Exclusion
    <3>6. Solved'
      BY <2>14, <3>3 DEF Solved, Solvable, CoefficientsShared, Kernels
    <3>7. Written'
      BY <3>4 DEF Written, FieldUnique
    <3>8. Readable'
      BY <2>14, <3>1, <3>3 DEF Readable, WholeField, FieldShared
    <3> QED
      BY <3>2, <3>5, <3>6, <3>7, <3>8
  <2> QED
    BY <2>2, <2>3, <2>4, <2>5, <2>6, <2>7, <2>8, <2>9, <2>10, <2>11, <2>12,
       <2>13, <2>14 DEF Locked, Step
<1>3. QED
  BY <1>1, <1>2, PTL DEF Spec

(* Every variable of the manager keeps its type.                           *)
THEOREM Typing == Spec => []TypeOK
<1>1. IInv => TypeOK
  BY DEF IInv
<1> QED
  BY <1>1, Protection, PTL

(* A field that may be read was computed with one set of coefficients, for *)
(* any number of threads that solve, calculate and read (lines 241-281).   *)
THEOREM FieldOfOneSolveHolds == Spec => []FieldOfOneSolve
<1>1. IInv => FieldOfOneSolve
  BY DEF IInv, Readable, FieldOfOneSolve
<1> QED
  BY <1>1, Protection, PTL

(* Whatever basis the manager was created with, its kernels index only     *)
(* functions and coefficients that are there (lines 131, 219, 381).        *)
THEOREM BasisInRangeHolds == Spec => []BasisInRange
<1>1. IInv => BasisInRange
  BY DEF IInv, Solved, Solvable, BasisInRange, CoefficientsShared, Dimension
<1> QED
  BY <1>1, Protection, PTL

(* Thread t, inside a call, can go on: the lock it wants is free, or it    *)
(* wants none and its next step is defined.                                *)
GoesOn(t) ==
    \/ at[t] = "store" /\ CoefficientsShared = {}
    \/ at[t] = "lock" /\ FieldUnique \cup FieldShared = {}
    \/ at[t] = "request" /\ FieldUnique = {}
    \/ at[t] = "kernel" /\ id[t] \leq coordinates
    \/ at[t] \in {"grid", "resize", "point", "slice", "view", "export"}

NobodyStuck == (\E t \in Threads : at[t] # "out") => \E t \in Threads : GoesOn(t)

(* The two locks are taken in one order, coefficients before field, and    *)
(* nobody upgrades one: however many threads are inside, one can go on, so *)
(* that the calls never wait for each other in a circle (lines 117-124,    *)
(* 241-246, 275-281).                                                      *)
THEOREM NobodyStuckHolds == Spec => []NobodyStuck
<1>1. IInv => NobodyStuck
  <2> SUFFICES ASSUME IInv, NEW t \in Threads, at[t] # "out"
               PROVE  \E u \in Threads : GoesOn(u)
    BY DEF NobodyStuck
  <2>1. \A u \in Threads :
            at[u] \in {"out", "store", "lock", "grid", "resize", "request", "view", "export",
                      "kernel", "point", "slice"}
    BY DEF IInv, TypeOK, Kernels
  <2>2. \A u \in FieldUnique \cup FieldShared : u \in Threads /\ GoesOn(u)
    BY DEF IInv, Written, FieldUnique, FieldShared, GoesOn
  <2>3. CASE FieldUnique \cup FieldShared # {}
    BY <2>2, <2>3
  <2>4. CASE FieldUnique \cup FieldShared = {}
    <3>1. \A u \in CoefficientsShared : u \in Threads /\ GoesOn(u)
      BY <2>4 DEF CoefficientsShared, FieldUnique, Kernels, GoesOn
    <3>2. CASE CoefficientsShared # {}
      BY <3>1, <3>2
    <3>3. CASE CoefficientsShared = {}
      <4>1. GoesOn(t)
        BY <2>1, <2>4, <3>3 DEF GoesOn, CoefficientsShared, FieldUnique, FieldShared, Kernels
      <4> QED
        BY <4>1
    <3> QED
      BY <3>2, <3>3
  <2> QED
    BY <2>3, <2>4
<1> QED
  BY <1>1, Protection, PTL
================================================================================
