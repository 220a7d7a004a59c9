---------------------------- MODULE VideoWorker ----------------------------
(***************************************************************************)
(* The video subsystem in BullMQ mode, the default where Redis answers     *)
(* (server.ts:335): enqueue() also adds the job to a BullMQ queue, and the *)
(* worker of workers/video-worker.ts, in the same process, runs the        *)
(* pipeline of each job it is delivered.  Everything of VideoPipeline is   *)
(* still there: a pipeline that ends dispatches the next queued job, and   *)
(* retry timers start theirs, whatever BullMQ delivers meanwhile.          *)
(*                                                                         *)
(* BullMQ is external.  It takes a job when the add that enqueue() does    *)
(* not await arrives, delivers a waiting job, in any order, to the idle    *)
(* worker (concurrency 1), waits for its promise and delivers a rejected   *)
(* job again up to its attempts.  After a stall or the death of the        *)
(* process it delivers an active job again, but each job only once:        *)
(* maxStalledCount is left at 1, and the next time it fails the job, which *)
(* the registry is not told.                                               *)
(***************************************************************************)
EXTENDS VideoPipeline

CONSTANT NoRun    \* the slot of an idle worker

ASSUME WorkerAssumption == NoRun \notin Runs

VARIABLES
    bull,          \* the state of each job in BullMQ
    attemptsMade,  \* its rejected deliveries
    serving,       \* the slot of the pipeline that the worker awaits
    stalledCount,  \* how often it was taken for stalled
    lost           \* history: unfinished with no delivery to come when what would
                   \* have started them was lost (WorkerRestarts, CancelWorked),
                   \* or resumed when BullMQ was done with them (ResumeWorked)

bullVars == <<bull, attemptsMade, serving, stalledCount, lost>>
wvars    == <<vars, bullVars>>

Attempts == MaxRetries + 1    \* defaultJobOptions.attempts
MaxStalledCount == 1          \* the Worker's default

WTypeOK ==
    /\ PTypeOK
    /\ bull         \in [Jobs -> {"none", "adding", "waiting", "active", "over"}]
    /\ attemptsMade \in [Jobs -> 0..Attempts]
    /\ serving      \in Runs \cup {NoRun}
    /\ stalledCount \in [Jobs -> 0..(MaxStalledCount + 1)]
    /\ lost         \subseteq Jobs

WInit ==
    /\ PInit
    /\ bull         = [j \in Jobs |-> "none"]
    /\ attemptsMade = [j \in Jobs |-> 0]
    /\ serving      = NoRun
    /\ stalledCount = [j \in Jobs |-> 0]
    /\ lost         = {}

(* `void getBullQueue().add(...)`, not awaited ...                         *)
Added(j) ==
    /\ bull' = [bull EXCEPT ![j] = "adding"]
    /\ UNCHANGED <<attemptsMade, serving, stalledCount, lost>>

(* ... arrives, or is rejected, which nobody handles.                      *)
AddArrives(j) ==
    /\ process = "up" /\ bull[j] = "adding"
    /\ bull' = [bull EXCEPT ![j] = "waiting"]
    /\ UNCHANGED <<vars, attemptsMade, serving, stalledCount, lost>>

AddFails(j) ==
    /\ process = "up" /\ bull[j] = "adding"
    /\ process' = "rejected"
    /\ ForgetCallbacks
    /\ UNCHANGED <<queueVars, crashes, episodeJob, bullVars>>

AddSettles(j) == AddArrives(j) \/ AddFails(j)

(* POST /jobs: no callback is armed, the worker dispatches.  A repeated    *)
(* submission changes nothing and is no step here.                         *)
PostBullJob(j, c) ==
    /\ process = "up" /\ c \notin Episodes
    /\ Enqueue(j, c)
    /\ Added(j)
    /\ UNCHANGED <<runs, callbacks, env>>

(* The produce route starts the pipeline itself as well.                   *)
ProduceBullEpisode(j, c) ==
    /\ ProduceEpisode(j, c)
    /\ IF job[j].status = "none" THEN Added(j) ELSE UNCHANGED bullVars

(* restoreJobFromBullMQ(): a fresh record, listed where the old one was.   *)
Restored(j) ==
    /\ job'     = [job EXCEPT ![j] = FreshJob("queued", @.clientRequestId, clock)]
    /\ order'   = IF j \in Registered(job) THEN order ELSE Append(order, j)
    /\ cleanup' = cleanup \cup {j}

(* processJob(): a job that is over, or gone, is restored first; then      *)
(* runOrchestration(), without startJob().                                 *)
Delivers(j) ==
    /\ process = "up" /\ serving = NoRun
    /\ bull[j] = "waiting"
    /\ Begin(j, TRUE)
    /\ bull'    = [bull EXCEPT ![j] = "active"]
    /\ serving' = FreeSlot
    /\ IF j \in Active(job) THEN UNCHANGED <<job, order, cleanup>> ELSE Restored(j)
    /\ UNCHANGED <<clock, callbacks, env, attemptsMade, stalledCount, lost>>

(* The promise of pipeline r rejects when it settles (UnwindThrows).       *)
Rejects(r) == job[runs[r].job].status \in {"completed", "failed"} \cup Absent

(* Mutant of Settles: a job that is delivered again is given up.           *)
SettlesOnce(r) ==
    IF r # serving \/ runs'[r].pc # "idle" THEN UNCHANGED bullVars
    ELSE /\ serving' = NoRun
         /\ bull'    = [bull EXCEPT ![runs[r].job] = "over"]
         /\ UNCHANGED <<attemptsMade, stalledCount, lost>>

(* If the worker awaits r and r settles: the delivery is over, or is tried *)
(* again.  The result of a job taken for stalled is ignored.               *)
Settles(r) ==
    LET j == runs[r].job
        again == Rejects(r) /\ attemptsMade[j] + 1 < Attempts
    IN
    IF r # serving \/ runs'[r].pc # "idle" THEN UNCHANGED bullVars
    ELSE /\ serving' = NoRun
         /\ IF bull[j] # "active" THEN UNCHANGED <<bull, attemptsMade>>
            ELSE /\ bull' = [bull EXCEPT ![j] = IF again THEN "waiting" ELSE "over"]
                 /\ attemptsMade' = [attemptsMade EXCEPT ![j] = IF Rejects(r) THEN @ + 1 ELSE @]
         /\ UNCHANGED <<stalledCount, lost>>

WorkedStep(r) == RunStep(r) /\ Settles(r)

(* A job found stalled is delivered again, unless it was so before.        *)
AfterStall(j) == IF stalledCount[j] < MaxStalledCount THEN "waiting" ELSE "over"

(* The event loop was blocked for longer than BullMQ's lock lasts.         *)
Stalls(j) ==
    /\ process = "up" /\ bull[j] = "active"
    /\ bull' = [bull EXCEPT ![j] = AfterStall(j)]
    /\ stalledCount' = [stalledCount EXCEPT ![j] = @ + 1]
    /\ UNCHANGED <<vars, attemptsMade, serving, lost>>

(* The next process finds what the last one had stalled, and nothing of an *)
(* add that had not arrived.                                               *)
Redelivered(j) ==
    CASE bull[j] = "active" -> AfterStall(j)
      [] bull[j] = "adding" -> "over"
      [] OTHER              -> bull[j]

WorkerRestarts ==
    /\ RestartProcess
    /\ bull'    = [j \in Jobs |-> Redelivered(j)]
    /\ stalledCount' = [j \in Jobs |-> IF bull[j] = "active" THEN stalledCount[j] + 1
                                       ELSE stalledCount[j]]
    /\ serving' = NoRun
    /\ lost'    = lost \cup {j \in Active(job) : Redelivered(j) = "over"}
    /\ UNCHANGED attemptsMade

(* The cancel route tells BullMQ nothing.  If a callback was to start the  *)
(* cancelled job, it finds nothing to do and wakes nobody else.            *)
CancelWorked(j) ==
    /\ CancelRoute(j)
    /\ lost' = IF Woken(j) THEN lost \cup {k \in Queued(job) \ {j} : bull[k] = "over"}
               ELSE lost
    /\ UNCHANGED <<bull, attemptsMade, serving, stalledCount>>

(* The resume route neither adds the job again nor starts anything.        *)
ResumeWorked(j, s) ==
    /\ ResumeRoute(j, s)
    /\ lost' = IF bull[j] = "over" THEN lost \cup {j} ELSE lost
    /\ UNCHANGED <<bull, attemptsMade, serving, stalledCount>>

Unwatched ==
    \/ \E r \in Runs : CancelWatcher(r)
    \/ ImmediateFires
    \/ \E j \in Jobs : RetryTimerFires(j)
    \/ \E j \in Jobs : EvictionTimer(j)
    \/ \E p \in Orderings : ReprioritizeRoute(p)
    \/ Crash

WNext ==
    \/ \E j \in Jobs, c \in ClientRequests \cup {NoClientRequest} : PostBullJob(j, c)
    \/ \E j \in Jobs, c \in Episodes : ProduceBullEpisode(j, c)
    \/ \E j \in Jobs : AddSettles(j)
    \/ \E j \in Jobs : Delivers(j)
    \/ \E r \in Runs : WorkedStep(r)
    \/ \E j \in Jobs : Stalls(j)
    \/ \E j \in Jobs : CancelWorked(j)
    \/ \E j \in Jobs, s \in StageIds : ResumeWorked(j, s)
    \/ WorkerRestarts
    \/ Unwatched /\ UNCHANGED bullVars

WSpec == WInit /\ [][WNext]_wvars

(* As in VideoPipeline; and an add arrives or is rejected (the Redis       *)
(* client gives up after its retries), and BullMQ delivers to an idle      *)
(* worker.                                                                 *)
WFairSpec ==
    /\ WSpec
    /\ \A r \in Runs : WF_wvars(WorkedStep(r))
    /\ \A j \in Jobs : WF_wvars(AddSettles(j)) /\ WF_wvars(Delivers(j))
    /\ \A j \in Jobs : WF_wvars(RetryTimerFires(j) /\ UNCHANGED bullVars)
    /\ WF_wvars(ImmediateFires /\ UNCHANGED bullVars)
    /\ WF_wvars(WorkerRestarts)

-----------------------------------------------------------------------------
(* Properties                                                              *)

(* No accepted job is forgotten, across restarts too: while one is queued, *)
(* BullMQ has a job to deliver or is about to be told of one, a pipeline   *)
(* is alive, or a callback will find a job to start.  Not once a job is    *)
(* lost: the process died before its add arrived or when BullMQ would not  *)
(* deliver it again; a cancellation took the only callback; or it was      *)
(* resumed when BullMQ was done with it.                                   *)
NoJobForgotten ==
    process = "up" /\ lost = {} /\ Queued(job) # {} =>
        \/ Live # {}
        \/ \E j \in Jobs : bull[j] \in {"adding", "waiting"}
        \/ \E j \in Queued(job) : Woken(j)

(* "At any stage boundary, a cancelled job is aborted and no further       *)
(* stages run" (docs/VIDEO-GENERATION.md:807): a cancelled job that nobody *)
(* resumes stays cancelled until it is evicted.                            *)
CancelledStaysCancelled ==
    [][\A j \in Jobs :
         job[j].status = "cancelled" => job'[j].status \in {"cancelled", "gone"}]_wvars

(* A job that BullMQ has, or is about to have, ends, however often it is   *)
(* rendered on the way: unless the process dies first, after which this is *)
(* said again of what BullMQ still has, or a job was lost as above.        *)
DeliveredJobsEnd ==
    \A j \in Jobs :
        (bull[j] \in {"adding", "waiting"})
          ~> (job[j].status \in Terminal \/ lost # {} \/ process # "up")
=============================================================================
