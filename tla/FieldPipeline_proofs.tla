-------------------------- MODULE FieldPipeline_proofs --------------------------
(***************************************************************************)
(* Proofs about FieldPipeline, for any number of callers and jobs: its     *)
(* safety invariants, and that it implements FieldService.                 *)
(***************************************************************************)
EXTENDS FieldPipeline, TLAPS

InRound == Computing \/ phase \in {"error", "report"}

(* Which job is where: a job leaves "new" when it is pending, stays        *)
(* accepted through its round, and its data outlive it.                    *)
JobInv ==
    /\ InProgressTracksJob
    /\ InRound => job # None /\ outcome[job] = "accepted"
    /\ pending # None =>
           /\ outcome[pending] = "accepted"
           /\ pending # field.job
           /\ InRound => pending # job
    /\ field.job # None => outcome[field.job] # "new"
    /\ coefficients # None => outcome[coefficients] # "new"

(* How far a round has come: what it has done to the two data.             *)
RoundInv ==
    /\ phase \in {"svd", "store", "field"} =>
           ~ok /\ (field.stage = "complete" => field.job # job)
    /\ phase \in {"grid", "resize", "kernel"} =>
           ~ok /\ field.stage # "complete"
    /\ phase = "release" =>
           (ok <=> field.stage = "complete" /\ field.job = job)
    /\ phase = "error" => ~ok
    /\ phase \in {"field", "grid", "resize", "kernel"} => coefficients = job

(* FieldMatchesCoefficients in every phase: coefficients newer than the    *)
(* field belong to a job that failed, or to one that is about to.          *)
MatchInv ==
    /\ field.stage = "complete" => coefficients # None
    /\ field.stage = "complete" /\ field.job # coefficients =>
           \/ outcome[coefficients] = "failed"
           \/ /\ phase \in {"field", "release", "error", "report"}
              /\ job = coefficients
              /\ ~ok

--------------------------------------------------------------------------------
(* Every variable of the pipeline keeps its type.                          *)
THEOREM Typing == Spec => []TypeOK
<1>1. Init => TypeOK
  <2> SUFFICES ASSUME Init
               PROVE  TypeOK
    OBVIOUS
  <2>1. field \in Fields
    BY DEF Init, Fields
  <2>2. QED
    BY <2>1 DEF Init, TypeOK
<1>2. TypeOK /\ [Next]_vars => TypeOK'
  <2> SUFFICES ASSUME TypeOK, [Next]_vars
               PROVE  TypeOK'
    OBVIOUS
  <2> USE FieldAssumption DEF TypeOK, Fields, Threads
  <2>1. CASE UNCHANGED vars
    BY <2>1 DEF vars, loop, data
  <2>2. ASSUME NEW t \in Threads, Submit(t)
        PROVE  TypeOK'
    BY <2>2 DEF Submit, CanCall, loop, data
  <2>3. ASSUME NEW t \in Threads, SliceBegin(t)
        PROVE  TypeOK'
    BY <2>3 DEF SliceBegin, Begin, CanCall, loop, data
  <2>4. ASSUME NEW t \in Threads, ExportBegin(t)
        PROVE  TypeOK'
    BY <2>4 DEF ExportBegin, Begin, CanCall, loop, data
  <2>5. ASSUME NEW t \in Threads, Notify(t)
        PROVE  TypeOK'
    BY <2>5 DEF Notify, loop, data
  <2>6. ASSUME NEW t \in Threads, End(t)
        PROVE  TypeOK'
    BY <2>6 DEF End, loop, data
  <2>7. CASE Check
    BY <2>7 DEF Check, loop, data
  <2>8. CASE Take
    BY <2>8 DEF Take, loop, data
  <2>9. CASE Wait
    BY <2>9 DEF Wait, loop, data
  <2>10. CASE Svd
    BY <2>10 DEF Svd, Fail, Compute, loop, data
  <2>11. CASE Validate
    BY <2>11 DEF Validate, Fail, Build, Compute, loop, data
  <2>12. CASE Grid
    BY <2>12 DEF Grid, Fail, Build, Compute, loop, data
  <2>13. CASE Resize
    BY <2>13 DEF Resize, Build, Compute, loop, data
  <2>14. CASE Kernel
    BY <2>14 DEF Kernel, Build, Compute, loop, data
  <2>15. CASE Release
    BY <2>15 DEF Release, loop, data
  <2>16. CASE Store
    BY <2>16 DEF Store, Compute, loop, data
  <2>17. CASE ErrorEvent
    BY <2>17 DEF ErrorEvent, Compute, loop, data
  <2>18. CASE Report
    BY <2>18 DEF Report, loop, data
  <2>19. CASE Destroy
    BY <2>19 DEF Destroy, loop, data
  <2>20. CASE Destroyed
    BY <2>20 DEF Destroyed, vars, loop, data
  <2> QED
    BY <2>1, <2>2, <2>3, <2>4, <2>5, <2>6, <2>7, <2>8, <2>9, <2>10,
       <2>11, <2>12, <2>13, <2>14, <2>15, <2>16, <2>17, <2>18, <2>19, <2>20
    DEF Next, Steps, Events, Return
<1>3. QED
  BY <1>1, <1>2, PTL DEF Spec

--------------------------------------------------------------------------------
(* Jobs are neither lost nor overwritten.                                  *)
THEOREM JobInvHolds == Spec => []JobInv
<1>1. Init => JobInv
  BY FieldAssumption DEF Init, JobInv, InProgressTracksJob, Computing, InRound
<1>2. TypeOK /\ JobInv /\ [Next]_vars => JobInv'
  <2> SUFFICES ASSUME TypeOK, JobInv, [Next]_vars
               PROVE  JobInv'
    OBVIOUS
  <2> USE FieldAssumption DEF TypeOK, Fields, JobInv, InProgressTracksJob, Computing, InRound
  <2>1. CASE UNCHANGED vars
    BY <2>1 DEF vars, loop, data
  <2>2. ASSUME NEW t \in Threads, Submit(t)
        PROVE  JobInv'
    BY <2>2 DEF Submit, CanCall, loop, data
  <2>3. ASSUME NEW t \in Threads, SliceBegin(t)
        PROVE  JobInv'
    BY <2>3 DEF SliceBegin, Begin, CanCall, loop, data
  <2>4. ASSUME NEW t \in Threads, ExportBegin(t)
        PROVE  JobInv'
    BY <2>4 DEF ExportBegin, Begin, CanCall, loop, data
  <2>5. ASSUME NEW t \in Threads, Notify(t)
        PROVE  JobInv'
    BY <2>5 DEF Notify, loop, data
  <2>6. ASSUME NEW t \in Threads, End(t)
        PROVE  JobInv'
    BY <2>6 DEF End, loop, data
  <2>7. CASE Check
    BY <2>7 DEF Check, loop, data
  <2>8. CASE Take
    BY <2>8 DEF Take, loop, data
  <2>9. CASE Wait
    BY <2>9 DEF Wait, loop, data
  <2>10. CASE Svd
    BY <2>10 DEF Svd, Fail, Compute, loop, data
  <2>11. CASE Validate
    BY <2>11 DEF Validate, Fail, Build, Compute, loop, data
  <2>12. CASE Grid
    BY <2>12 DEF Grid, Fail, Build, Compute, loop, data
  <2>13. CASE Resize
    BY <2>13 DEF Resize, Build, Compute, loop, data
  <2>14. CASE Kernel
    BY <2>14 DEF Kernel, Build, Compute, loop, data
  <2>15. CASE Release
    BY <2>15 DEF Release, loop, data
  <2>16. CASE Store
    BY <2>16 DEF Store, Compute, loop, data
  <2>17. CASE ErrorEvent
    BY <2>17 DEF ErrorEvent, Compute, loop, data
  <2>18. CASE Report
    BY <2>18 DEF Report, loop, data
  <2>19. CASE Destroy
    BY <2>19 DEF Destroy, loop, data
  <2>20. CASE Destroyed
    BY <2>20 DEF Destroyed, vars, loop, data
  <2> QED
    BY <2>1, <2>2, <2>3, <2>4, <2>5, <2>6, <2>7, <2>8, <2>9, <2>10,
       <2>11, <2>12, <2>13, <2>14, <2>15, <2>16, <2>17, <2>18, <2>19, <2>20
    DEF Next, Steps, Events, Return
<1>3. QED
  BY <1>1, <1>2, Typing, PTL DEF Spec

(* field_calculation_in_progress_ is TRUE exactly while a job is pending   *)
(* or being computed.                                                      *)
COROLLARY InProgressTracksJobHolds == Spec => []InProgressTracksJob
<1>1. JobInv => InProgressTracksJob
  BY DEF JobInv
<1>2. QED
  BY <1>1, JobInvHolds, PTL

(* No wakeup of the field worker is lost, the destructor's included.       *)
THEOREM NoLostWakeupHolds == Spec => []NoLostWakeup
<1>1. Init => NoLostWakeup
  BY FieldAssumption DEF Init, NoLostWakeup
<1>2. TypeOK /\ NoLostWakeup /\ [Next]_vars => NoLostWakeup'
  <2> SUFFICES ASSUME TypeOK, NoLostWakeup, [Next]_vars
               PROVE  NoLostWakeup'
    OBVIOUS
  <2> USE FieldAssumption DEF TypeOK, NoLostWakeup
  <2>1. CASE UNCHANGED vars
    BY <2>1 DEF vars, loop, data
  <2>2. ASSUME NEW t \in Threads, Submit(t)
        PROVE  NoLostWakeup'
    BY <2>2 DEF Submit, CanCall, loop, data
  <2>3. ASSUME NEW t \in Threads, SliceBegin(t)
        PROVE  NoLostWakeup'
    BY <2>3 DEF SliceBegin, Begin, CanCall, loop, data
  <2>4. ASSUME NEW t \in Threads, ExportBegin(t)
        PROVE  NoLostWakeup'
    BY <2>4 DEF ExportBegin, Begin, CanCall, loop, data
  <2>5. ASSUME NEW t \in Threads, Notify(t)
        PROVE  NoLostWakeup'
    BY <2>5 DEF Notify, loop, data
  <2>6. ASSUME NEW t \in Threads, End(t)
        PROVE  NoLostWakeup'
    BY <2>6 DEF End, loop, data
  <2>7. CASE Check
    BY <2>7 DEF Check, loop, data
  <2>8. CASE Take
    BY <2>8 DEF Take, loop, data
  <2>9. CASE Wait
    BY <2>9 DEF Wait, loop, data
  <2>10. CASE Svd
    BY <2>10 DEF Svd, Fail, Compute, loop, data
  <2>11. CASE Validate
    BY <2>11 DEF Validate, Fail, Build, Compute, loop, data
  <2>12. CASE Grid
    BY <2>12 DEF Grid, Fail, Build, Compute, loop, data
  <2>13. CASE Resize
    BY <2>13 DEF Resize, Build, Compute, loop, data
  <2>14. CASE Kernel
    BY <2>14 DEF Kernel, Build, Compute, loop, data
  <2>15. CASE Release
    BY <2>15 DEF Release, loop, data
  <2>16. CASE Store
    BY <2>16 DEF Store, Compute, loop, data
  <2>17. CASE ErrorEvent
    BY <2>17 DEF ErrorEvent, Compute, loop, data
  <2>18. CASE Report
    BY <2>18 DEF Report, loop, data
  <2>19. CASE Destroy
    BY <2>19 DEF Destroy, loop, data
  <2>20. CASE Destroyed
    BY <2>20 DEF Destroyed, vars, loop, data
  <2> QED
    BY <2>1, <2>2, <2>3, <2>4, <2>5, <2>6, <2>7, <2>8, <2>9, <2>10,
       <2>11, <2>12, <2>13, <2>14, <2>15, <2>16, <2>17, <2>18, <2>19, <2>20
    DEF Next, Steps, Events, Return
<1>3. QED
  BY <1>1, <1>2, Typing, PTL DEF Spec

(* The coefficients never change under a slice.                            *)
THEOREM SliceStableHolds == Spec => []SliceStable
<1>1. Init => SliceStable
  BY FieldAssumption DEF Init, SliceStable
<1>2. TypeOK /\ SliceStable /\ [Next]_vars => SliceStable'
  <2> SUFFICES ASSUME TypeOK, SliceStable, [Next]_vars
               PROVE  SliceStable'
    OBVIOUS
  <2> USE FieldAssumption DEF TypeOK, SliceStable
  <2>1. CASE UNCHANGED vars
    BY <2>1 DEF vars, loop, data
  <2>2. ASSUME NEW t \in Threads, Submit(t)
        PROVE  SliceStable'
    BY <2>2 DEF Submit, CanCall, loop, data
  <2>3. ASSUME NEW t \in Threads, SliceBegin(t)
        PROVE  SliceStable'
    BY <2>3 DEF SliceBegin, Begin, CanCall, loop, data
  <2>4. ASSUME NEW t \in Threads, ExportBegin(t)
        PROVE  SliceStable'
    BY <2>4 DEF ExportBegin, Begin, CanCall, loop, data
  <2>5. ASSUME NEW t \in Threads, Notify(t)
        PROVE  SliceStable'
    BY <2>5 DEF Notify, loop, data
  <2>6. ASSUME NEW t \in Threads, End(t)
        PROVE  SliceStable'
    BY <2>6 DEF End, loop, data
  <2>7. CASE Check
    BY <2>7 DEF Check, loop, data
  <2>8. CASE Take
    BY <2>8 DEF Take, loop, data
  <2>9. CASE Wait
    BY <2>9 DEF Wait, loop, data
  <2>10. CASE Svd
    BY <2>10 DEF Svd, Fail, Compute, loop, data
  <2>11. CASE Validate
    BY <2>11 DEF Validate, Fail, Build, Compute, loop, data
  <2>12. CASE Grid
    BY <2>12 DEF Grid, Fail, Build, Compute, loop, data
  <2>13. CASE Resize
    BY <2>13 DEF Resize, Build, Compute, loop, data
  <2>14. CASE Kernel
    BY <2>14 DEF Kernel, Build, Compute, loop, data
  <2>15. CASE Release
    BY <2>15 DEF Release, loop, data
  <2>16. CASE Store
    BY <2>16 DEF Store, Compute, loop, data
  <2>17. CASE ErrorEvent
    BY <2>17 DEF ErrorEvent, Compute, loop, data
  <2>18. CASE Report
    BY <2>18 DEF Report, loop, data
  <2>19. CASE Destroy
    BY <2>19 DEF Destroy, loop, data
  <2>20. CASE Destroyed
    BY <2>20 DEF Destroyed, vars, loop, data
  <2> QED
    BY <2>1, <2>2, <2>3, <2>4, <2>5, <2>6, <2>7, <2>8, <2>9, <2>10,
       <2>11, <2>12, <2>13, <2>14, <2>15, <2>16, <2>17, <2>18, <2>19, <2>20
    DEF Next, Steps, Events, Return
<1>3. QED
  BY <1>1, <1>2, Typing, PTL DEF Spec

--------------------------------------------------------------------------------
(* How far each round has come.                                            *)
THEOREM RoundInvHolds == Spec => []RoundInv
<1>1. Init => RoundInv
  BY FieldAssumption DEF Init, RoundInv
<1>2. TypeOK /\ JobInv /\ RoundInv /\ [Next]_vars => RoundInv'
  <2> SUFFICES ASSUME TypeOK, JobInv, RoundInv, [Next]_vars
               PROVE  RoundInv'
    OBVIOUS
  <2> USE FieldAssumption DEF TypeOK, Fields, JobInv, InProgressTracksJob, Computing, InRound, RoundInv
  <2>1. CASE UNCHANGED vars
    BY <2>1 DEF vars, loop, data
  <2>2. ASSUME NEW t \in Threads, Submit(t)
        PROVE  RoundInv'
    BY <2>2 DEF Submit, CanCall, loop, data
  <2>3. ASSUME NEW t \in Threads, SliceBegin(t)
        PROVE  RoundInv'
    BY <2>3 DEF SliceBegin, Begin, CanCall, loop, data
  <2>4. ASSUME NEW t \in Threads, ExportBegin(t)
        PROVE  RoundInv'
    BY <2>4 DEF ExportBegin, Begin, CanCall, loop, data
  <2>5. ASSUME NEW t \in Threads, Notify(t)
        PROVE  RoundInv'
    BY <2>5 DEF Notify, loop, data
  <2>6. ASSUME NEW t \in Threads, End(t)
        PROVE  RoundInv'
    BY <2>6 DEF End, loop, data
  <2>7. CASE Check
    BY <2>7 DEF Check, loop, data
  <2>8. CASE Take
    BY <2>8 DEF Take, loop, data
  <2>9. CASE Wait
    BY <2>9 DEF Wait, loop, data
  <2>10. CASE Svd
    BY <2>10 DEF Svd, Fail, Compute, loop, data
  <2>11. CASE Validate
    BY <2>11 DEF Validate, Fail, Build, Compute, loop, data
  <2>12. CASE Grid
    BY <2>12 DEF Grid, Fail, Build, Compute, loop, data
  <2>13. CASE Resize
    BY <2>13 DEF Resize, Build, Compute, loop, data
  <2>14. CASE Kernel
    BY <2>14 DEF Kernel, Build, Compute, loop, data
  <2>15. CASE Release
    BY <2>15 DEF Release, loop, data
  <2>16. CASE Store
    BY <2>16 DEF Store, Compute, loop, data
  <2>17. CASE ErrorEvent
    BY <2>17 DEF ErrorEvent, Compute, loop, data
  <2>18. CASE Report
    BY <2>18 DEF Report, loop, data
  <2>19. CASE Destroy
    BY <2>19 DEF Destroy, loop, data
  <2>20. CASE Destroyed
    BY <2>20 DEF Destroyed, vars, loop, data
  <2> QED
    BY <2>1, <2>2, <2>3, <2>4, <2>5, <2>6, <2>7, <2>8, <2>9, <2>10,
       <2>11, <2>12, <2>13, <2>14, <2>15, <2>16, <2>17, <2>18, <2>19, <2>20
    DEF Next, Steps, Events, Return
<1>3. QED
  BY <1>1, <1>2, Typing, JobInvHolds, PTL DEF Spec

(* Outside a calculation, slices and exports show the same job, unless the *)
(* newer coefficients are those of a job reported as failed.               *)
THEOREM FieldMatchesCoefficientsHolds == Spec => []FieldMatchesCoefficients
<1>1. Init => MatchInv
  BY FieldAssumption DEF Init, MatchInv
<1>2. TypeOK /\ JobInv /\ RoundInv /\ MatchInv /\ [Next]_vars => MatchInv'
  <2> SUFFICES ASSUME TypeOK, JobInv, RoundInv, MatchInv, [Next]_vars
               PROVE  MatchInv'
    OBVIOUS
  <2> USE FieldAssumption DEF TypeOK, Fields, JobInv, RoundInv, Computing, InRound, MatchInv
  <2>1. CASE UNCHANGED vars
    BY <2>1 DEF vars, loop, data
  <2>2. ASSUME NEW t \in Threads, Submit(t)
        PROVE  MatchInv'
    BY <2>2 DEF Submit, CanCall, loop, data
  <2>3. ASSUME NEW t \in Threads, SliceBegin(t)
        PROVE  MatchInv'
    BY <2>3 DEF SliceBegin, Begin, CanCall, loop, data
  <2>4. ASSUME NEW t \in Threads, ExportBegin(t)
        PROVE  MatchInv'
    BY <2>4 DEF ExportBegin, Begin, CanCall, loop, data
  <2>5. ASSUME NEW t \in Threads, Notify(t)
        PROVE  MatchInv'
    BY <2>5 DEF Notify, loop, data
  <2>6. ASSUME NEW t \in Threads, End(t)
        PROVE  MatchInv'
    BY <2>6 DEF End, loop, data
  <2>7. CASE Check
    BY <2>7 DEF Check, loop, data
  <2>8. CASE Take
    BY <2>8 DEF Take, loop, data
  <2>9. CASE Wait
    BY <2>9 DEF Wait, loop, data
  <2>10. CASE Svd
    BY <2>10 DEF Svd, Fail, Compute, loop, data
  <2>11. CASE Validate
    BY <2>11 DEF Validate, Fail, Build, Compute, loop, data
  <2>12. CASE Grid
    BY <2>12 DEF Grid, Fail, Build, Compute, loop, data
  <2>13. CASE Resize
    BY <2>13 DEF Resize, Build, Compute, loop, data
  <2>14. CASE Kernel
    BY <2>14 DEF Kernel, Build, Compute, loop, data
  <2>15. CASE Release
    BY <2>15 DEF Release, loop, data
  <2>16. CASE Store
    BY <2>16 DEF Store, Compute, loop, data
  <2>17. CASE ErrorEvent
    BY <2>17 DEF ErrorEvent, Compute, loop, data
  <2>18. CASE Report
    BY <2>18 DEF Report, loop, data
  <2>19. CASE Destroy
    BY <2>19 DEF Destroy, loop, data
  <2>20. CASE Destroyed
    BY <2>20 DEF Destroyed, vars, loop, data
  <2> QED
    BY <2>1, <2>2, <2>3, <2>4, <2>5, <2>6, <2>7, <2>8, <2>9, <2>10,
       <2>11, <2>12, <2>13, <2>14, <2>15, <2>16, <2>17, <2>18, <2>19, <2>20
    DEF Next, Steps, Events, Return
<1>3. MatchInv => FieldMatchesCoefficients
  BY DEF MatchInv, FieldMatchesCoefficients, Computing
<1>4. QED
  BY <1>1, <1>2, <1>3, Typing, JobInvHolds, RoundInvHolds, PTL DEF Spec

--------------------------------------------------------------------------------
(* The pipeline implements FieldService: each step is a step of the        *)
(* service or leaves its state as it is.                                   *)
THEOREM Refinement == Spec => ImplementsService
<1>1. Init => Service!Init
  BY DEF Init, Service!Init
<1>2. TypeOK /\ JobInv /\ RoundInv /\ [Next]_vars => [Service!Next]_Service!vars
  <2> SUFFICES ASSUME TypeOK, JobInv, RoundInv, [Next]_vars
               PROVE  [Service!Next]_Service!vars
    OBVIOUS
  <2> USE FieldAssumption DEF TypeOK, JobInv, InProgressTracksJob, Computing,
          InRound, RoundInv, Service!vars
  <2>1. CASE UNCHANGED vars
    BY <2>1 DEF vars, loop, data
  <2>2. ASSUME NEW t \in Threads, Submit(t)
        PROVE  [Service!Next]_Service!vars
    BY <2>2 DEF Submit, CanCall, loop, data, Service!Next, Service!Accept
  <2>3. ASSUME NEW t \in Threads, SliceBegin(t)
        PROVE  [Service!Next]_Service!vars
    BY <2>3 DEF SliceBegin, Begin, CanCall, loop, data
  <2>4. ASSUME NEW t \in Threads, ExportBegin(t)
        PROVE  [Service!Next]_Service!vars
    BY <2>4 DEF ExportBegin, Begin, CanCall, loop, data
  <2>5. ASSUME NEW t \in Threads, Notify(t)
        PROVE  [Service!Next]_Service!vars
    BY <2>5 DEF Notify, loop, data
  <2>6. ASSUME NEW t \in Threads, End(t)
        PROVE  [Service!Next]_Service!vars
    BY <2>6 DEF End, loop, data
  <2>7. CASE Check
    BY <2>7 DEF Check, loop, data
  <2>8. CASE Take
    BY <2>8 DEF Take, loop, data
  <2>9. CASE Wait
    BY <2>9 DEF Wait, loop, data
  <2>10. CASE Svd
    BY <2>10 DEF Svd, Fail, Compute, loop, data
  <2>11. CASE Validate
    BY <2>11 DEF Validate, Fail, Build, Compute, loop, data, Service!Next,
       Service!Withdraw, Service!Working
  <2>12. CASE Grid
    BY <2>12 DEF Grid, Fail, Build, Compute, loop, data
  <2>13. CASE Resize
    BY <2>13 DEF Resize, Build, Compute, loop, data
  <2>14. CASE Kernel
    BY <2>14 DEF Kernel, Build, Compute, loop, data, Service!Next,
       Service!Publish, Service!Working
  <2>15. CASE Release
    BY <2>15 DEF Release, loop, data, Service!Next, Service!Finish,
       Service!Working
  <2>16. CASE Store
    BY <2>16 DEF Store, Compute, loop, data
  <2>17. CASE ErrorEvent
    BY <2>17 DEF ErrorEvent, Compute, loop, data
  <2>18. CASE Report
    BY <2>18 DEF Report, loop, data, Service!Next, Service!Report
  <2>19. CASE Destroy
    BY <2>19 DEF Destroy, loop, data
  <2>20. CASE Destroyed
    BY <2>20 DEF Destroyed, vars, loop, data
  <2> QED
    BY <2>1, <2>2, <2>3, <2>4, <2>5, <2>6, <2>7, <2>8, <2>9, <2>10,
       <2>11, <2>12, <2>13, <2>14, <2>15, <2>16, <2>17, <2>18, <2>19, <2>20
    DEF Next, Steps, Events, Return
<1>3. QED
  BY <1>1, <1>2, Typing, JobInvHolds, RoundInvHolds, PTL
     DEF Spec, ImplementsService, Service!Spec

================================================================================
