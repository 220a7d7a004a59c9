-------------------------- MODULE SeriesLifecycle --------------------------
(***************************************************************************)
(* What the series engine promises about a series, whatever passes,        *)
(* reruns, productions and removals overlap: SeriesJobStatus as its        *)
(* comments read (packages/swarmx-types/src/series-types.ts) and what must *)
(* exist before a series may say so.  SeriesPlanning implements it.        *)
(***************************************************************************)
EXTENDS Naturals

CONSTANTS
    SeriesIds,   \* ids of series
    Episodes     \* episode numbers of a roadmap

VARIABLES
    status,      \* [SeriesIds -> Status]
    plan,        \* [SeriesIds -> BOOLEAN]: an episode roadmap exists
    produced     \* [SeriesIds -> SUBSET Episodes]: episodes with a video job

vars == <<status, plan, produced>>

Producible == {"planned", "producing", "completed"}
Known      == Producible \cup {"planning", "failed"}
Status     == Known \cup {"none", "gone"}

Init ==
    /\ status   = [s \in SeriesIds |-> "none"]
    /\ plan     = [s \in SeriesIds |-> FALSE]
    /\ produced = [s \in SeriesIds |-> {}]

Move(s, to) == status' = [status EXCEPT ![s] = to]

Create(s) ==
    /\ status[s] = "none"
    /\ Move(s, "planning")
    /\ UNCHANGED <<plan, produced>>

(* A pass writes, or writes again, the roadmap of a known series.          *)
Draft(s) ==
    /\ status[s] \in Known
    /\ plan' = [plan EXCEPT ![s] = TRUE]
    /\ UNCHANGED <<status, produced>>

(* A series is planned once, and never without a roadmap.                  *)
Planned(s) ==
    /\ status[s] = "planning" /\ plan[s]
    /\ Move(s, "planned")
    /\ UNCHANGED <<plan, produced>>

(* A failed series stays failed: no rerun brings it back.                  *)
Fail(s) ==
    /\ status[s] \in Known
    /\ Move(s, "failed")
    /\ UNCHANGED <<plan, produced>>

(* "completed" exactly when the last episode has got its job.              *)
Produce(s, e) ==
    /\ status[s] \in Producible /\ plan[s]
    /\ produced' = [produced EXCEPT ![s] = @ \cup {e}]
    /\ Move(s, IF produced'[s] = Episodes THEN "completed" ELSE "producing")
    /\ UNCHANGED plan

Forget(s) ==
    /\ status[s] \in Known
    /\ Move(s, "gone")
    /\ plan'     = [plan EXCEPT ![s] = FALSE]
    /\ produced' = [produced EXCEPT ![s] = {}]

Next == \E s \in SeriesIds :
    \/ Create(s) \/ Draft(s) \/ Planned(s) \/ Fail(s) \/ Forget(s)
    \/ \E e \in Episodes : Produce(s, e)

Spec == Init /\ [][Next]_vars
=============================================================================
