--------------------------- MODULE VideoPipeline ---------------------------
(***************************************************************************)
(* The video subsystem in in-memory mode: the registry of VideoQueue, the  *)
(* pipelines that runOrchestration() (video-orchestrator.ts) runs over it, *)
(* the setImmediate callbacks and retry timers that start them, the routes *)
(* that submit, cancel, resume and reorder jobs (routes/video.ts,          *)
(* routes/series.ts), and the death and restart of the process.            *)
(*                                                                         *)
(* Node runs one callback at a time: an action is what a pipeline, a timer *)
(* or a route does between two awaits.  Consecutive awaits that touch no   *)
(* state of this module are one (readPressure and syncFromOllama are       *)
(* "preflight").  A stage's own work (model calls, rendering) is external  *)
(* and only ends well or with an error; the callback that outlives a       *)
(* withTimeout() is left out.                                              *)
(***************************************************************************)
EXTENDS VideoQueue

CONSTANTS
    Runs,            \* bound: slots for pipelines that are alive at once
    NoJob,           \* the job of a free slot
    Episodes,        \* clientRequestIds that POST /series/:id/episodes/:n uses
    CancelAllowed,   \* clients cancel jobs
    EvictionAllowed, \* JOB_TTL_MS may elapse
    MaxCrashes,      \* bound: times a process is replaced by the next one
    MaxImmediates    \* bound: submissions are explored up to this backlog

ASSUME PipelineAssumption ==
    /\ NoJob \notin Jobs
    /\ Episodes \subseteq ClientRequests
    /\ CancelAllowed \in BOOLEAN
    /\ EvictionAllowed \in BOOLEAN
    /\ MaxCrashes \in Nat
    /\ MaxImmediates \in Nat

VARIABLES
    runs,         \* the pipelines: calls of runOrchestration not yet settled
    immediates,   \* pending setImmediate callbacks, in order: the job to start
    retryTimers,  \* pending setTimeout callbacks that retry each job
    process,      \* "up", "killed" or "rejected" (unhandledRejection, exit 1)
    crashes,      \* processes that have ended so far
    episodeJob    \* the series' videoJobIds: the job last recorded for an episode

vars == <<job, order, clock, cleanup, runs, immediates, retryTimers, process, crashes,
          episodeJob>>
callbacks == <<immediates, retryTimers>>
env == <<process, crashes, episodeJob>>

-----------------------------------------------------------------------------
(* Pipelines                                                               *)

Run ==
    [pc        : {"idle", "preflight", "backoff", "stage", "post"},
     job       : Jobs \cup {NoJob},
     stage     : 0..NumStages,
     aborted   : BOOLEAN,   \* jobAbortController, set by the cancelWatcher
     caught    : BOOLEAN,   \* the caller attached a .catch
     cancelled : BOOLEAN]   \* history: cancelJob(job) succeeded during the run

IdleRun == [pc |-> "idle", job |-> NoJob, stage |-> 0, aborted |-> FALSE,
            caught |-> FALSE, cancelled |-> FALSE]

NewRun(j, c) == [IdleRun EXCEPT !.pc = "preflight", !.job = j, !.caught = c]

Live == {r \in Runs : runs[r].pc # "idle"}

PipelineTypeOK ==
    /\ runs        \in [Runs -> Run]
    /\ immediates  \in Seq(Jobs)
    /\ retryTimers \in [Jobs -> Nat]
    /\ process     \in {"up", "killed", "rejected"}
    /\ crashes     \in Nat
    /\ episodeJob  \in [Episodes -> Jobs \cup {NoJob}]

PTypeOK == TypeOK /\ PipelineTypeOK

PInit ==
    /\ Init
    /\ runs        = [r \in Runs |-> IdleRun]
    /\ immediates  = << >>
    /\ retryTimers = [j \in Jobs |-> 0]
    /\ process     = "up"
    /\ crashes     = 0
    /\ episodeJob  = [c \in Episodes |-> NoJob]

(* `void runOrchestration(j)`, up to its first await, in any free slot.    *)
FreeSlot == CHOOSE r \in Runs : runs[r].pc = "idle"

Begin(j, c) ==
    /\ Live # Runs
    /\ runs' = [runs EXCEPT ![FreeSlot] = NewRun(j, c)]

End(r) == runs' = [runs EXCEPT ![r] = IdleRun]

(* Mutant of KickNext: nobody looks for the next job.                      *)
KickNobody(g, q) == immediates' = q

(* scheduleNextQueuedJob() on registry g, after the callbacks q.           *)
KickNext(g, q) ==
    IF Running(g) = {} /\ Queued(g) # {}
    THEN \E n \in Jobs : Dequeues(g, order, n) /\ immediates' = Append(q, n)
    ELSE immediates' = q

(* toVideoJobError(): retryable by code alone (TIMEOUT, OLLAMA_UNAVAILABLE *)
(* and COMFY_UNAVAILABLE), whatever the thrown object says of itself.      *)
ErrorKinds == {"transient", "permanent", "pressure", "aborted"}
Retryable(kind) == kind = "transient"

(* The catch and finally blocks of runOrchestration, from registry g.      *)
(* Mutant of UnwindCancelled: the pipeline never settles.                  *)
UnwindCancelledHangs(r, g) ==
    /\ g[runs[r].job].status = "cancelled"
    /\ UNCHANGED <<job, runs, callbacks, process>>

UnwindCancelled(r, g) ==
    /\ g[runs[r].job].status = "cancelled"
    /\ job' = g
    /\ End(r)
    /\ KickNext(g, immediates)
    /\ UNCHANGED <<retryTimers, process>>

(* Mutant of UnwindRetry: the timer is not armed.                          *)
UnwindRetryUnarmed(r, g, kind) ==
    LET j == runs[r].job IN
    /\ Mutable(g, j)
    /\ Retries(g, j, Retryable(kind))
    /\ job' = RetryScheduled(Failed(g, j, TRUE), j)
    /\ End(r)
    /\ UNCHANGED <<callbacks, process>>

UnwindRetry(r, g, kind) ==
    LET j == runs[r].job IN
    /\ Mutable(g, j)
    /\ Retries(g, j, Retryable(kind))
    /\ job' = RetryScheduled(Failed(g, j, TRUE), j)
    /\ retryTimers' = [retryTimers EXCEPT ![j] = @ + 1]
    /\ End(r)
    /\ UNCHANGED <<immediates, process>>

UnwindFailed(r, g, kind) ==
    LET j == runs[r].job IN
    /\ Mutable(g, j)
    /\ ~Retries(g, j, Retryable(kind))
    /\ job' = Failed(g, j, Retryable(kind))
    /\ End(r)
    /\ KickNext(job', immediates)
    /\ UNCHANGED <<retryTimers, process>>

(* Mutant of UnwindThrows: a cancelled job is failed as well.              *)
UnwindThrowsOnCancelled(r, g) ==
    /\ ~Mutable(g, runs[r].job)
    /\ job' = g
    /\ End(r)
    /\ KickNext(g, immediates)
    /\ process' = IF runs[r].caught THEN "up" ELSE "rejected"
    /\ UNCHANGED retryTimers

(* failJob() itself throws: the promise of runOrchestration rejects, and   *)
(* without a .catch the process exits.                                     *)
UnwindThrows(r, g) ==
    LET j == runs[r].job IN
    /\ ~Mutable(g, j)
    /\ g[j].status # "cancelled"
    /\ job' = g
    /\ End(r)
    /\ KickNext(g, immediates)
    /\ process' = IF runs[r].caught THEN "up" ELSE "rejected"
    /\ UNCHANGED retryTimers

Unwind(r, g, kind) ==
    \/ UnwindCancelled(r, g)
    \/ UnwindRetry(r, g, kind)
    \/ UnwindFailed(r, g, kind)
    \/ UnwindThrows(r, g)

(* Mutant of EnterStage: neither the abort signal nor the status is read.  *)
EnterStageUnchecked(r, g, s) ==
    /\ job'  = StageRecorded(g, runs[r].job, s, "started")
    /\ runs' = [runs EXCEPT ![r].pc = "stage", ![r].stage = s]
    /\ UNCHANGED <<callbacks, process>>

(* runStage(s), up to the await of the stage's work: the abort check, then *)
(* recordStageProgress(), which throws on a job that is over.              *)
EnterStage(r, g, s) ==
    LET j == runs[r].job IN
    IF runs[r].aborted THEN Unwind(r, g, "aborted")
    ELSE IF ~Mutable(g, j) THEN Unwind(r, g, "permanent")
    ELSE /\ job'  = StageRecorded(g, j, s, "started")
         /\ runs' = [runs EXCEPT ![r].pc = "stage", ![r].stage = s]
         /\ UNCHANGED <<callbacks, process>>

untouched == <<order, clock, cleanup, crashes, episodeJob>>

PressureNormal(r) ==
    /\ process = "up" /\ runs[r].pc = "preflight"
    /\ EnterStage(r, job, 1)
    /\ UNCHANGED untouched

PressureHigh(r) ==
    /\ process = "up" /\ runs[r].pc = "preflight"
    /\ runs' = [runs EXCEPT ![r].pc = "backoff"]
    /\ UNCHANGED <<queueVars, callbacks, env>>

PressureCritical(r) ==
    /\ process = "up" /\ runs[r].pc \in {"preflight", "backoff"}
    /\ Unwind(r, job, "pressure")
    /\ UNCHANGED untouched

BackoffOver(r) ==
    /\ process = "up" /\ runs[r].pc = "backoff"
    /\ EnterStage(r, job, 1)
    /\ UNCHANGED untouched

(* Mutant of HasNext: off by one.                                          *)
HasNextOneMore(s) == s <= NumStages

HasNext(s) == s < NumStages

(* The stage's work resolves: its closing progress record, then the next   *)
(* stage (or, after the last, stageViralityAndCaption) in the same turn.   *)
StageSucceeds(r) ==
    LET j == runs[r].job
        s == runs[r].stage
        g == StageRecorded(job, j, s, "done")
    IN
    /\ process = "up" /\ runs[r].pc = "stage"
    /\ IF ~Mutable(job, j) THEN Unwind(r, job, "permanent")
       ELSE IF HasNext(s) THEN EnterStage(r, g, s + 1)
       ELSE /\ job'  = g
            /\ runs' = [runs EXCEPT ![r].pc = "post"]
            /\ UNCHANGED <<callbacks, process>>
    /\ UNCHANGED untouched

(* The stage's work rejects or times out (withTimeout), or is aborted.     *)
StageFails(r, kind) ==
    /\ process = "up" /\ runs[r].pc = "stage"
    /\ kind = "aborted" => runs[r].aborted
    /\ Unwind(r, job, kind)
    /\ UNCHANGED untouched

Finalize(r) ==
    /\ process = "up" /\ runs[r].pc = "post"
    /\ IF Mutable(job, runs[r].job)
       THEN /\ job' = Completed(job, runs[r].job)
            /\ End(r)
            /\ KickNext(job', immediates)
            /\ UNCHANGED <<retryTimers, process>>
       ELSE Unwind(r, job, "permanent")
    /\ UNCHANGED untouched

(* The 500 ms interval of the cancelWatcher finds the job cancelled.       *)
CancelWatcher(r) ==
    /\ process = "up" /\ runs[r].pc # "idle" /\ ~runs[r].aborted
    /\ job[runs[r].job].status = "cancelled"
    /\ runs' = [runs EXCEPT ![r].aborted = TRUE]
    /\ UNCHANGED <<queueVars, callbacks, env>>

-----------------------------------------------------------------------------
(* Callbacks that start pipelines                                          *)

(* The oldest setImmediate callback: of POST /jobs or of a finished run.   *)
ImmediateFires ==
    /\ process = "up" /\ immediates # << >>
    /\ immediates' = Tail(immediates)
    /\ LET j == Head(immediates) IN
       IF CanStart(job, j)
       THEN job' = Started(job, j) /\ Begin(j, TRUE)
       ELSE UNCHANGED <<job, runs>>
    /\ UNCHANGED <<untouched, retryTimers, process>>

(* The retry timer: its `void runOrchestration` has no .catch.             *)
RetryTimerFires(j) ==
    /\ process = "up" /\ retryTimers[j] > 0
    /\ retryTimers' = [retryTimers EXCEPT ![j] = @ - 1]
    /\ IF CanStart(job, j)
       THEN job' = Started(job, j) /\ Begin(j, FALSE)
       ELSE UNCHANGED <<job, runs>>
    /\ UNCHANGED <<untouched, immediates, process>>

-----------------------------------------------------------------------------
(* Routes                                                                  *)

(* What enqueue() answers a submission with: a new job, or the first       *)
(* active one with the same clientRequestId.                               *)
Accepts(j, c) ==
    \/ Enqueue(j, c)
    \/ ~Full(job) /\ IsFirst(order, Duplicates(job, c), j) /\ UNCHANGED queueVars

(* POST /api/video/jobs: a callback is to start the job.                   *)
PostJob(j, c) ==
    /\ process = "up" /\ Len(immediates) < MaxImmediates
    /\ c \notin Episodes
    /\ Accepts(j, c)
    /\ immediates' = Append(immediates, j)
    /\ UNCHANGED <<runs, retryTimers, env>>

(* The job last recorded for the episode is there, neither failed nor      *)
(* cancelled.                                                              *)
InProduction(c) ==
    /\ episodeJob[c] # NoJob
    /\ job[episodeJob[c]].status \notin Absent \cup {"failed", "cancelled"}

(* POST /api/video/series/:id/episodes/:n/produce: the job's pipeline      *)
(* starts at once, without startJob(), also on an older job of the episode *)
(* that a client resumed.                                                  *)
ProduceEpisode(j, c) ==
    /\ process = "up" /\ c \in Episodes
    /\ ~InProduction(c)
    /\ Accepts(j, c)
    /\ episodeJob' = [episodeJob EXCEPT ![c] = j]
    /\ Begin(j, TRUE)
    /\ UNCHANGED <<callbacks, process, crashes>>

CancelRoute(j) ==
    /\ process = "up" /\ CancelAllowed
    /\ CancelJob(j)
    /\ runs' = [r \in Runs |-> [runs[r] EXCEPT !.cancelled = @ \/ runs[r].job = j]]
    /\ UNCHANGED <<callbacks, env>>

ResumeRoute(j, s) ==
    /\ process = "up"
    /\ ResumeJob(j, s)
    /\ UNCHANGED <<runs, callbacks, env>>

ReprioritizeRoute(p) ==
    /\ process = "up"
    /\ ReprioritizeQueue(p)
    /\ UNCHANGED <<runs, callbacks, env>>

EvictionTimer(j) ==
    /\ process = "up" /\ EvictionAllowed
    /\ CleanupTimer(j)
    /\ UNCHANGED <<runs, callbacks, env>>

-----------------------------------------------------------------------------
(* The process                                                             *)

(* SIGKILL, the OOM killer, or the graceful shutdown of server.ts, which   *)
(* exits without settling the pipelines: every callback is lost.           *)
ForgetCallbacks ==
    /\ runs'        = [r \in Runs |-> IdleRun]
    /\ immediates'  = << >>
    /\ retryTimers' = [j \in Jobs |-> 0]

Crash ==
    /\ process = "up" /\ crashes < MaxCrashes
    /\ process' = "killed"
    /\ ForgetCallbacks
    /\ UNCHANGED <<queueVars, crashes, episodeJob>>

(* The next process: only what the snapshots hold survives.                *)
RestartProcess ==
    /\ process # "up" /\ crashes < MaxCrashes
    /\ process' = "up"
    /\ crashes' = crashes + 1
    /\ ForgetCallbacks
    /\ Restart
    /\ UNCHANGED episodeJob

RunStep(r) ==
    \/ PressureNormal(r)
    \/ PressureHigh(r)
    \/ PressureCritical(r)
    \/ BackoffOver(r)
    \/ StageSucceeds(r)
    \/ \E kind \in ErrorKinds \ {"pressure"} : StageFails(r, kind)
    \/ Finalize(r)

Requests ==
    \/ \E j \in Jobs, c \in ClientRequests \cup {NoClientRequest} : PostJob(j, c)
    \/ \E j \in Jobs, c \in Episodes : ProduceEpisode(j, c)
    \/ \E j \in Jobs : CancelRoute(j)
    \/ \E j \in Jobs, s \in StageIds : ResumeRoute(j, s)
    \/ \E p \in Orderings : ReprioritizeRoute(p)

PNext ==
    \/ \E r \in Runs : RunStep(r)
    \/ \E r \in Runs : CancelWatcher(r)
    \/ ImmediateFires
    \/ \E j \in Jobs : RetryTimerFires(j)
    \/ Requests
    \/ \E j \in Jobs : EvictionTimer(j)
    \/ Crash
    \/ RestartProcess

Spec == PInit /\ [][PNext]_vars

(* Every await of a pipeline is bounded (2 s and 3 s probes, the stage     *)
(* timeouts), and Node's event loop runs every callback that is due.       *)
(* Clients owe nothing.                                                    *)
Fairness ==
    /\ \A r \in Runs : WF_vars(RunStep(r)) /\ WF_vars(CancelWatcher(r))
    /\ WF_vars(ImmediateFires)
    /\ \A j \in Jobs : WF_vars(RetryTimerFires(j))
    /\ WF_vars(RestartProcess)

FairSpec == Spec /\ Fairness

-----------------------------------------------------------------------------
(* Safety                                                                  *)

(* "The pipeline runs one job at a time" (docs/VIDEO-GENERATION.md:71):    *)
(* what the SINGLE-VIDEO LOCK is for.  It counts "running" statuses, not   *)
(* pipelines, so this is a fact about every path to runOrchestration.      *)
AtMostOnePipeline == \A r, q \in Live : r = q

(* The lock is never held by nobody: a job that is "running" has a live    *)
(* pipeline, whose end will take it out of "running" again.                *)
RunningHasPipeline ==
    process = "up" => \A j \in Running(job) : \E r \in Live : runs[r].job = j

(* ... in the first life of the process, whatever its pipelines overlap.   *)
RunningHasPipelineInLife == crashes = 0 => RunningHasPipeline

(* No lost wake-up: while a job is queued, a pipeline is alive (it will    *)
(* call scheduleNextQueuedJob or arm a retry timer) or a pending callback  *)
(* will find a job it can start.                                           *)
Woken(j) == retryTimers[j] > 0 \/ \E i \in DOMAIN immediates : immediates[i] = j

NoStrandedQueue ==
    process = "up" /\ Queued(job) # {} => Live # {} \/ \E j \in Queued(job) : Woken(j)

(* No interleaving of pipelines, cancellations and timers ends in a        *)
(* rejection nobody handles, on which server.ts exits the whole API.       *)
NoUnhandledRejection == process # "rejected"

(* "At any stage boundary, a cancelled job is aborted and no further       *)
(* stages run" (docs/VIDEO-GENERATION.md:807): a pipeline whose job was    *)
(* cancelled never enters another stage.                                   *)
CancelledRunEntersNoStage ==
    [][\A r \in Runs :
         runs[r].cancelled /\ runs'[r].job = runs[r].job
           => runs'[r].stage = runs[r].stage]_vars

-----------------------------------------------------------------------------
(* Liveness, under Fairness                                                *)

(* The queue drains: every queued job ends, without any further request.   *)
QueueDrains ==
    \A j \in Jobs : (job[j].status = "queued") ~> (job[j].status \in Terminal)

(* A cancelled job's pipelines stop, whatever they were waiting for.       *)
CancelStops ==
    \A r \in Runs, j \in Jobs :
        (runs[r].job = j /\ job[j].status = "cancelled")
          ~> (runs[r].job # j \/ job[j].status # "cancelled")
=============================================================================
