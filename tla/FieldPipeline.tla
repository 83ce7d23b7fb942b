----------------------------- MODULE FieldPipeline -----------------------------
(***************************************************************************)
(* The field calculation of tpc::system::TPC: calculate_field_async hands  *)
(* a job to field_worker_loop, which runs AnalyticsManager's SVD and field *)
(* kernels and reports; meanwhile any thread may evaluate a slice or       *)
(* export the field.  The handlers of the two events run on the worker.    *)
(*                                                                         *)
(* A critical section of field_worker_mutex_ is one action.  A job stands  *)
(* for its measurements, grid and geometry, and for what comes of them.    *)
(***************************************************************************)

CONSTANTS Callers,   \* application threads
          Worker,    \* the thread of field_worker_
          Jobs,      \* the calculations ever asked for: a bound
          None

ASSUME FieldAssumption ==
    /\ Worker \notin Callers
    /\ None \notin Callers \cup Jobs

Threads == Callers \cup {Worker}
Fields  == [job : Jobs \cup {None},
            stage : {"absent", "empty", "growing", "zeroed", "complete"}]

VARIABLES
    phase,         \* where field_worker_loop stands
    job,           \* calculation_data of the current round
    ok,            \* calculation_succeeded of the current round
    pending,       \* pending_calculation_data_, or None
    in_progress,   \* field_calculation_in_progress_
    stop,          \* field_worker_'s stop state: ~TPC has begun
    call,          \* what each thread is doing inside the API
    reading,       \* the data a slice or an export has begun to read
    coefficients,  \* stored_coefficients_: the job they were solved for
    field,         \* field_data_: whose it is and how far it has come; it
                   \* is complete exactly when field_data_valid_ is TRUE
    outcome        \* history: what callers know of each job

vars == <<phase, job, ok, pending, in_progress, stop, call, reading,
          coefficients, field, outcome>>

loop == <<phase, job, ok>>
data == <<coefficients, field>>

--------------------------------------------------------------------------------

CanCall(t) ==
    /\ call[t] = "idle"
    /\ t = Worker => phase \in {"error", "report"}
    /\ t # Worker => ~stop

Init ==
    /\ phase = "none"
    /\ job = None
    /\ ok = FALSE
    /\ pending = None
    /\ in_progress = FALSE
    /\ stop = FALSE
    /\ call = [t \in Threads |-> "idle"]
    /\ reading = [t \in Threads |-> None]
    /\ coefficients = None
    /\ field = [job |-> None, stage |-> "absent"]
    /\ outcome = [j \in Jobs |-> "new"]

--------------------------------------------------------------------------------
(* calculate_field_async.  A refused call changes nothing (a warning), and *)
(* neither does one whose jthread constructor throws.                      *)

(* Defect: the flag is not tested.                                         *)
Submit_Overwrites(t) ==
    /\ CanCall(t)
    /\ \E j \in Jobs :
        /\ outcome[j] = "new"
        /\ pending' = j
        /\ outcome' = [outcome EXCEPT ![j] = "accepted"]
    /\ in_progress' = TRUE
    /\ phase' = IF phase = "none" THEN "check" ELSE phase
    /\ call' = [call EXCEPT ![t] = "notify"]
    /\ UNCHANGED <<job, ok, stop, reading, data>>

Submit(t) ==
    /\ CanCall(t)
    /\ ~in_progress
    /\ \E j \in Jobs :
        /\ outcome[j] = "new"
        /\ pending' = j
        /\ outcome' = [outcome EXCEPT ![j] = "accepted"]
    /\ in_progress' = TRUE
    /\ phase' = IF phase = "none" THEN "check" ELSE phase
    /\ call' = [call EXCEPT ![t] = "notify"]
    /\ UNCHANGED <<job, ok, stop, reading, data>>

(* Defect: nobody is notified.                                             *)
Notify_Nobody(t) ==
    /\ call[t] = "notify"
    /\ call' = [call EXCEPT ![t] = "idle"]
    /\ UNCHANGED <<phase, job, ok, pending, in_progress, stop, reading, data,
                   outcome>>

Notify(t) ==
    /\ call[t] = "notify"
    /\ phase' = IF phase = "asleep" THEN "wait" ELSE phase
    /\ call' = [call EXCEPT ![t] = "idle"]
    /\ UNCHANGED <<job, ok, pending, in_progress, stop, reading, data, outcome>>

--------------------------------------------------------------------------------
(* field_worker_loop                                                       *)

Check ==
    /\ phase = "check"
    /\ phase' = IF stop THEN "exited" ELSE "wait"
    /\ UNCHANGED <<job, ok, pending, in_progress, stop, call, reading, data,
                   outcome>>

(* The predicate wins over the stop: a pending job is still taken.         *)
Take ==
    /\ phase = "wait"
    /\ pending # None
    /\ phase' = "svd"
    /\ job' = pending
    /\ ok' = FALSE
    /\ pending' = None
    /\ UNCHANGED <<in_progress, stop, call, reading, data, outcome>>

(* Defect: the wait does not look at the stop token.                       *)
Wait_NoStopToken ==
    /\ phase = "wait"
    /\ pending = None
    /\ phase' = "asleep"
    /\ UNCHANGED <<job, ok, pending, in_progress, stop, call, reading, data,
                   outcome>>

Wait ==
    /\ phase = "wait"
    /\ pending = None
    /\ phase' = IF stop THEN "exited" ELSE "asleep"
    /\ UNCHANGED <<job, ok, pending, in_progress, stop, call, reading, data,
                   outcome>>

--------------------------------------------------------------------------------
(* The two calls to AnalyticsManager; a failure, returned or thrown, ends  *)
(* the round where it happens and leaves the data as they are.             *)

Compute(here, next) ==
    /\ phase = here
    /\ phase' = next
    /\ UNCHANGED <<job, pending, in_progress, stop, call, reading, outcome>>

Fail(here) == Compute(here, "release") /\ UNCHANGED <<ok, data>>

Svd == Fail("svd") \/ (Compute("svd", "store") /\ UNCHANGED <<ok, data>>)

(* Defect: the coefficients are stored without the lock.                   *)
Store_NoLock ==
    /\ Compute("store", "field")
    /\ coefficients' = job
    /\ UNCHANGED <<ok, field>>

(* The unique lock of line 121: no slice is being evaluated.               *)
Store ==
    /\ Compute("store", "field")
    /\ \A t \in Threads : call[t] # "slice"
    /\ coefficients' = job
    /\ UNCHANGED <<ok, field>>

(* calculate_field: geometry, then the field is invalidated and cleared,   *)
(* gets its grid, is sized to it (all zero), and is filled in.             *)
Build(here, next, stage) ==
    /\ Compute(here, next)
    /\ field' = [job |-> job, stage |-> stage]
    /\ UNCHANGED coefficients

(* Defect: the result of calculate_field is not looked at.                 *)
Validate_ResultIgnored ==
    \/ Compute("field", "release") /\ ok' = TRUE /\ UNCHANGED data
    \/ Build("field", "grid", "empty") /\ UNCHANGED ok

Validate == Fail("field") \/ (Build("field", "grid", "empty") /\ UNCHANGED ok)

Grid == Fail("grid") \/ (Build("grid", "resize", "growing") /\ UNCHANGED ok)

(* Defect: the field is left in a stage that no reader knows.              *)
Resize_UnknownStage == Build("resize", "kernel", "sized") /\ UNCHANGED ok

Resize == Build("resize", "kernel", "zeroed") /\ UNCHANGED ok

Kernel == Build("kernel", "release", "complete") /\ ok' = TRUE

--------------------------------------------------------------------------------
(* The flag is released first; the events follow without a lock, and their *)
(* handlers may call the API: they return when their calls have.           *)

(* Defect: only a success releases the flag.                               *)
Release_OnSuccess ==
    /\ phase = "release"
    /\ phase' = IF ok THEN "report" ELSE "error"
    /\ in_progress' = ~ok
    /\ UNCHANGED <<job, ok, pending, stop, call, reading, data, outcome>>

Release ==
    /\ phase = "release"
    /\ phase' = IF ok THEN "report" ELSE "error"
    /\ in_progress' = FALSE
    /\ UNCHANGED <<job, ok, pending, stop, call, reading, data, outcome>>

ErrorEvent ==
    /\ call[Worker] = "idle"
    /\ Compute("error", "report")
    /\ UNCHANGED <<ok, data>>

Report ==
    /\ phase = "report"
    /\ call[Worker] = "idle"
    /\ phase' = "check"
    /\ outcome' = [outcome EXCEPT ![job] = IF ok THEN "ok" ELSE "failed"]
    /\ UNCHANGED <<job, ok, pending, in_progress, stop, call, reading, data>>

--------------------------------------------------------------------------------
(* get_field_slice holds the shared lock of line 167 from begin to end;    *)
(* without coefficients it returns an error.                               *)

Begin(t, what, source) ==
    /\ CanCall(t)
    /\ call' = [call EXCEPT ![t] = what]
    /\ reading' = [reading EXCEPT ![t] = source]
    /\ UNCHANGED <<loop, pending, in_progress, stop, data, outcome>>

SliceBegin(t) == coefficients # None /\ Begin(t, "slice", coefficients)

(* export_to_vtk(path) takes no lock and does not ask for a valid field:   *)
(* it starts whenever values and coordinates are both non-empty.           *)
ExportBegin(t) ==
    /\ field.stage \in {"zeroed", "complete"}
    /\ Begin(t, "export", field.job)

End(t) ==
    /\ call[t] \in {"slice", "export"}
    /\ call' = [call EXCEPT ![t] = "idle"]
    /\ reading' = [reading EXCEPT ![t] = None]
    /\ UNCHANGED <<loop, pending, in_progress, stop, data, outcome>>

--------------------------------------------------------------------------------
(* ~TPC: the destructor of field_worker_ requests the stop, which wakes    *)
(* the wait, and joins.  No other thread is inside the object by then.     *)

(* Defect: the wait is not registered with the stop token.                 *)
Destroy_NoWake ==
    /\ ~stop
    /\ \A t \in Callers : call[t] = "idle"
    /\ stop' = TRUE
    /\ UNCHANGED <<loop, pending, in_progress, call, reading, data, outcome>>

Destroy ==
    /\ ~stop
    /\ \A t \in Callers : call[t] = "idle"
    /\ stop' = TRUE
    /\ phase' = IF phase = "asleep" THEN "wait" ELSE phase
    /\ UNCHANGED <<job, ok, pending, in_progress, call, reading, data, outcome>>

Joined == stop /\ phase \in {"none", "exited"}

Destroyed == Joined /\ UNCHANGED vars

--------------------------------------------------------------------------------

Steps ==
    \/ Check \/ Take \/ Wait
    \/ Svd \/ Validate \/ Grid \/ Resize \/ Kernel
    \/ Release

Events == ErrorEvent \/ Report

Return(t) == Notify(t) \/ End(t)

Next ==
    \/ \E t \in Threads :
        Submit(t) \/ SliceBegin(t) \/ ExportBegin(t) \/ Return(t)
    \/ Steps \/ Store \/ Events
    \/ Destroy \/ Destroyed

(* The worker and the calls keep running, and handlers return (strongly    *)
(* fair: their own calls delay them).  Store waits for the readers of the  *)
(* coefficients; strong fairness says only that a lock which is free again *)
(* and again is obtained.  Nothing forces a call or the destruction.       *)
Fairness ==
    /\ WF_vars(Steps)
    /\ SF_vars(Store)
    /\ SF_vars(Events)
    /\ \A t \in Threads : WF_vars(Return(t))

Spec == Init /\ [][Next]_vars /\ Fairness

--------------------------------------------------------------------------------
(* Every variable keeps its type.                                          *)
TypeOK ==
    /\ phase \in {"none", "check", "wait", "asleep", "svd", "store", "field",
                  "grid", "resize", "kernel", "release", "error", "report",
                  "exited"}
    /\ job \in Jobs \cup {None}
    /\ ok \in BOOLEAN
    /\ pending \in Jobs \cup {None}
    /\ in_progress \in BOOLEAN
    /\ stop \in BOOLEAN
    /\ call \in [Threads -> {"idle", "notify", "slice", "export"}]
    /\ reading \in [Threads -> Jobs \cup {None}]
    /\ coefficients \in Jobs \cup {None}
    /\ field \in Fields
    /\ outcome \in [Jobs -> {"new", "accepted", "ok", "failed"}]

(* field_calculation_in_progress_ is TRUE exactly while a job is pending   *)
(* or being computed, so no accepted job is overwritten by the next one    *)
(* and calculate_field_async is never refused for good.                    *)
Computing == phase \in {"svd", "store", "field", "grid", "resize", "kernel",
                        "release"}

InProgressTracksJob ==
    /\ in_progress <=> (pending # None \/ Computing)
    /\ ~(pending # None /\ Computing)

(* No lost wakeup: a worker that sleeps has nothing to do, or the caller   *)
(* that gave it something is about to notify it; it never sleeps through   *)
(* the destructor's stop.                                                  *)
NoLostWakeup ==
    phase = "asleep" =>
        /\ ~stop
        /\ pending # None => \E t \in Threads : call[t] = "notify"

(* A slice is evaluated from first to last with one set of coefficients.   *)
SliceStable ==
    \A t \in Threads : call[t] = "slice" => reading[t] = coefficients

(* Outside a calculation the field that an export would write was computed *)
(* from the coefficients a slice would use, unless the job that stored     *)
(* these was reported, or is being reported, as failed.                    *)
FieldMatchesCoefficients ==
    ~Computing /\ field.stage = "complete" /\ field.job # coefficients =>
        \/ outcome[coefficients] = "failed"
        \/ phase \in {"error", "report"} /\ job = coefficients /\ ~ok

(* The abstract view of the pipeline.                                      *)
Service == INSTANCE FieldService WITH
    accepted  <- IF ~in_progress THEN None
                 ELSE IF pending # None THEN pending ELSE job,
    finishing <- IF phase \in {"error", "report"} THEN job ELSE None,
    verdict   <- phase = "report" /\ ok,
    shown     <- IF field.stage = "complete" THEN field.job ELSE None

(* The pipeline implements FieldService.                                   *)
ImplementsService == Service!Spec

(* Every accepted job is reported, unless the object is destroyed first or *)
(* overlapping slices keep the coefficients locked for ever.               *)
JobReported ==
    []<>(\A t \in Threads : call[t] # "slice") =>
        \A j \in Jobs : (outcome[j] = "accepted")
                            ~> (outcome[j] \in {"ok", "failed"} \/ stop)

(* The destructor's join returns, whatever the worker was doing.           *)
ShutdownCompletes == stop ~> Joined

(* vtk_field_exporter.hpp:79: "Points are generated one complete XY layer  *)
(* at a time": an export under way never finds a layer that is not.        *)
ExportSeesLayers ==
    \A t \in Threads : call[t] = "export" => field.stage # "growing"

================================================================================
