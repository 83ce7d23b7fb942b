------------------------------ MODULE FieldService ------------------------------
(***************************************************************************)
(* What calculate_field_async promises its callers, as an abstract machine *)
(* that FieldPipeline implements: one job is accepted at a time, the field *)
(* on show changes only while a job is being worked on, never while a      *)
(* verdict is being reported, and a job is reported as a success exactly   *)
(* when the field on show is its own.                                      *)
(***************************************************************************)

CONSTANTS Jobs, None   \* None is no member of Jobs

VARIABLES
    accepted,    \* the job that holds field_calculation_in_progress_, or None
    finishing,   \* the job whose verdict is being reported, or None
    verdict,     \* its verdict: whether it succeeded
    shown        \* the job whose complete field can be exported, or None

vars == <<accepted, finishing, verdict, shown>>

Init ==
    /\ accepted = None
    /\ finishing = None
    /\ verdict = FALSE
    /\ shown = None

(* A new job may be accepted while the last verdict is still reported.     *)
Accept(j) ==
    /\ accepted = None
    /\ accepted' = j
    /\ UNCHANGED <<finishing, verdict, shown>>

Working == accepted # None /\ finishing = None

Withdraw ==
    /\ Working
    /\ shown' = None
    /\ UNCHANGED <<accepted, finishing, verdict>>

Publish ==
    /\ Working
    /\ shown' = accepted
    /\ UNCHANGED <<accepted, finishing, verdict>>

Finish ==
    /\ Working
    /\ accepted' = None
    /\ finishing' = accepted
    /\ verdict' = (shown = accepted)
    /\ UNCHANGED shown

Report ==
    /\ finishing # None
    /\ finishing' = None
    /\ verdict' = FALSE
    /\ UNCHANGED <<accepted, shown>>

Next ==
    \/ \E j \in Jobs : Accept(j)
    \/ Withdraw \/ Publish \/ Finish \/ Report

Spec == Init /\ [][Next]_vars

================================================================================
