-------------------------- MODULE VideoLifecycle --------------------------
(***************************************************************************)
(* What the video subsystem of swarmx-api promises about a job, whoever    *)
(* calls it and in whatever order: the states of VideoJobStatus, the       *)
(* transitions between them, the retry budget, and the SINGLE-VIDEO LOCK   *)
(* (one job "running" at a time).  VideoQueue and VideoPipeline are shown  *)
(* to implement this specification.                                        *)
(***************************************************************************)
EXTENDS Naturals

CONSTANTS
    Jobs,        \* the job ids randomUUID() may hand out
    MaxRetries   \* SWARMX_VIDEO_MAX_RETRIES

VARIABLES
    status,      \* [Jobs -> Status]; "none": not submitted yet, "gone": evicted
    attempts     \* [Jobs -> Nat]: job.retryCount

vars == <<status, attempts>>

Terminal == {"completed", "failed", "cancelled"}
Status   == {"none", "gone", "queued", "running"} \cup Terminal

TypeOK ==
    /\ status   \in [Jobs -> Status]
    /\ attempts \in [Jobs -> Nat]

Init ==
    /\ status   = [j \in Jobs |-> "none"]
    /\ attempts = [j \in Jobs |-> 0]

Move(j, s) == status' = [status EXCEPT ![j] = s]

Submit(j) ==
    /\ status[j] = "none"
    /\ Move(j, "queued")
    /\ attempts' = [attempts EXCEPT ![j] = 0]

(* The SINGLE-VIDEO LOCK is the second conjunct.                           *)
Start(j) ==
    /\ status[j] = "queued"
    /\ \A k \in Jobs : status[k] # "running"
    /\ Move(j, "running")
    /\ UNCHANGED attempts

(* A retryable failure inside the budget puts the job back in the queue.   *)
Requeue(j) ==
    /\ status[j] \in {"queued", "running"}
    /\ attempts[j] < MaxRetries
    /\ Move(j, "queued")
    /\ attempts' = [attempts EXCEPT ![j] = @ + 1]

(* The job completes, fails for good or is cancelled: once only.           *)
Finish(j) ==
    /\ status[j] \in {"queued", "running"}
    /\ \E s \in Terminal : Move(j, s)
    /\ UNCHANGED attempts

(* The operator puts a finished job back; it counts as an attempt.         *)
Resume(j) ==
    /\ status[j] \in Terminal
    /\ Move(j, "queued")
    /\ attempts' = [attempts EXCEPT ![j] = @ + 1]

(* Only finished jobs are ever forgotten.                                  *)
Evict(j) ==
    /\ status[j] \in Terminal
    /\ Move(j, "gone")
    /\ UNCHANGED attempts

Next == \E j \in Jobs :
    Submit(j) \/ Start(j) \/ Requeue(j) \/ Finish(j) \/ Resume(j) \/ Evict(j)

Spec == Init /\ [][Next]_vars

(* SINGLE-VIDEO LOCK: never two jobs "running" (video-queue.ts, startJob). *)
SingleVideoLock ==
    \A j, k \in Jobs : status[j] = "running" /\ status[k] = "running" => j = k
===========================================================================
