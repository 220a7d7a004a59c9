----------------------- MODULE VideoPipeline_proofs -----------------------
(***************************************************************************)
(* Proofs about VideoPipeline, for any number of jobs, pipelines, stages,  *)
(* retries and crashes.  A step of a pipeline is first summarised: either  *)
(* it goes on (Advances) or runOrchestration settles (Finishes); what each *)
(* does to the registry is what VideoQueue_proofs says of its operations.  *)
(***************************************************************************)
EXTENDS VideoPipeline, VideoQueue_proofs

(* A free slot has no job and no history; a pipeline in a stage has one.   *)
SlotOK(u) ==
    /\ u.pc = "idle" <=> u.job = NoJob
    /\ u.pc = "idle" => ~u.cancelled
    /\ u.pc = "stage" => u.stage \in StageIds

SlotsOK == \A r \in Runs : SlotOK(runs[r])

(* The pipeline goes on: only an active job is recorded or enters a stage. *)
Advances(r) ==
    LET j == runs[r].job IN
    /\ runs[r].pc # "idle"
    /\ \E u \in Run :
         /\ SlotOK(u)
         /\ u.job = j /\ u.caught = runs[r].caught /\ u.cancelled = runs[r].cancelled
         /\ u.stage # runs[r].stage => Mutable(job, j)
         /\ runs' = [runs EXCEPT ![r] = u]
    /\ Mutable(job, j) \/ job' = job
    /\ MovesTo(job, job', j, job[j].status, job[j].retryCount)
    /\ UNCHANGED <<order, clock, cleanup, callbacks, env>>

(* A job that waits, if no job runs, has a callback that will start it.    *)
SomebodyWoken ==
    Queued(job) = {} \/ Running(job) # {} \/ \E n \in Queued(job) : Woken(n)

(* runOrchestration settles: the job ended before, goes back to the queue  *)
(* inside its budget, fails, or completes.                                 *)
Finishes(r) ==
    LET j == runs[r].job IN
    /\ runs[r].pc # "idle" /\ process = "up"
    /\ End(r)
    /\ \/ /\ ~Mutable(job, j) /\ job' = job
          /\ process' \in {"up", "rejected"}
          /\ job[j].status = "cancelled" => process' = process
       \/ /\ Mutable(job, j) /\ process' = process
          /\ \/ /\ job[j].retryCount < MaxRetries
                /\ MovesTo(job, job', j, "queued", job[j].retryCount + 1)
             \/ MovesTo(job, job', j, "failed", job[j].retryCount)
             \/ MovesTo(job, job', j, "completed", job[j].retryCount)
    /\ immediates' \in Seq(Jobs)
    /\ retryTimers' \in [Jobs -> Nat]
    /\ SomebodyWoken'
    /\ UNCHANGED untouched

(* scheduleNextQueuedJob appends one callback at most ...                  *)
LEMMA KickNextTyped ==
    ASSUME NEW g, immediates \in Seq(Jobs), KickNext(g, immediates)
    PROVE  immediates' \in Seq(Jobs)
BY DEF KickNext

(* ... for the job that should run next, if there is one.                  *)
LEMMA KickNextWakes ==
    ASSUME immediates \in Seq(Jobs), KickNext(job', immediates)
    PROVE  SomebodyWoken'
<1>1. CASE Running(job') = {} /\ Queued(job') # {}
  <2>1. PICK n \in Jobs : Dequeues(job', order, n) /\ immediates' = Append(immediates, n)
    BY <1>1 DEF KickNext
  <2>2. n \in Queued(job')
    BY <2>1 DEF Dequeues, IsFirst
  <2>3. \E i \in DOMAIN immediates' : immediates'[i] = n
    <3>1. Len(immediates) + 1 \in DOMAIN Append(immediates, n)
          /\ Append(immediates, n)[Len(immediates) + 1] = n
      OBVIOUS
    <3> QED BY <2>1, <3>1
  <2> QED BY <2>2, <2>3 DEF SomebodyWoken, Woken, Queued
<1>2. CASE ~(Running(job') = {} /\ Queued(job') # {})
  BY <1>2 DEF SomebodyWoken, Running, Queued
<1> QED BY <1>1, <1>2

(* The catch and finally blocks settle the pipeline, whether or not its    *)
(* last stage was recorded just before (g).                                *)
LEMMA UnwindFinishes ==
    ASSUME PTypeOK, NEW r \in Runs, runs[r].pc # "idle", runs[r].job \in Jobs,
           process = "up", UNCHANGED untouched,
           NEW g \in [Jobs -> VideoJob],
           MovesTo(job, g, runs[r].job, job[runs[r].job].status,
                   job[runs[r].job].retryCount),
           g = job \/ Mutable(job, runs[r].job),
           NEW kind \in ErrorKinds, Unwind(r, g, kind)
    PROVE  Finishes(r)
<1> DEFINE j == runs[r].job
<1>0. /\ immediates \in Seq(Jobs) /\ retryTimers \in [Jobs -> Nat]
      /\ j \in Jobs /\ job \in [Jobs -> VideoJob]
  BY DEF PTypeOK, PipelineTypeOK, TypeOK
<1>1. /\ g[j].status = job[j].status
      /\ g[j].retryCount = job[j].retryCount
      /\ Mutable(g, j) <=> Mutable(job, j)
  BY <1>0 DEF MovesTo, Mutable, Active, Queued, Running
<1>2. Mutable(job, j) => job[j].status \in {"queued", "running"}
  BY DEF Mutable, Active, Queued, Running
<1>3. Retryable(kind) \in BOOLEAN
  BY DEF Retryable
<1>4. CASE UnwindCancelled(r, g)
  <2>1. ~Mutable(job, j) /\ job' = job
    BY <1>1, <1>2, <1>4 DEF UnwindCancelled
  <2>2. End(r) /\ immediates' \in Seq(Jobs) /\ retryTimers' = retryTimers /\ process' = process
        /\ SomebodyWoken'
    BY <1>0, <1>4, KickNextTyped, KickNextWakes DEF UnwindCancelled
  <2> QED BY <1>0, <2>1, <2>2 DEF Finishes
<1>5. CASE UnwindRetry(r, g, kind)
  <2>1. /\ Mutable(job, j) /\ process' = process /\ End(r)
        /\ immediates' = immediates /\ retryTimers' \in [Jobs -> Nat]
        /\ Retries(g, j, Retryable(kind))
        /\ job' = RetryScheduled(Failed(g, j, TRUE), j)
    BY <1>0, <1>1, <1>5 DEF UnwindRetry, callbacks
  <2>2. Retries(g, j, TRUE) /\ job[j].retryCount < MaxRetries
    BY <1>1, <2>1 DEF Retries
  <2> DEFINE h == Failed(g, j, TRUE)
  <2>3. MovesTo(g, h, j, "queued", job[j].retryCount + 1)
    BY <1>0, <1>1, <2>2, FailedRequeues
  <2> HIDE DEF h
  <2>4. MovesTo(h, job', j, "queued", job[j].retryCount + 1)
    BY <1>0, <2>1, <2>3, RetryScheduledMoves DEF MovesTo, h
  <2>5. MovesTo(job, job', j, "queued", job[j].retryCount + 1)
    BY <1>0, <2>3, <2>4 DEF MovesTo
  <2>6. SomebodyWoken'
    <3>1. job'[j].status = "queued"
      BY <2>5 DEF MovesTo
    <3>2. retryTimers'[j] > 0
      BY <1>0, <1>5 DEF UnwindRetry
    <3> QED BY <1>0, <3>1, <3>2 DEF SomebodyWoken, Woken, Queued
  <2> QED BY <1>0, <2>1, <2>2, <2>5, <2>6 DEF Finishes
<1>6. CASE UnwindFailed(r, g, kind)
  <2>1. /\ Mutable(job, j) /\ process' = process /\ End(r)
        /\ immediates' \in Seq(Jobs) /\ retryTimers' = retryTimers
        /\ ~Retries(g, j, Retryable(kind))
        /\ job' = Failed(g, j, Retryable(kind))
        /\ SomebodyWoken'
    BY <1>0, <1>1, <1>6, KickNextTyped, KickNextWakes DEF UnwindFailed
  <2>2. MovesTo(g, job', j, "failed", job[j].retryCount)
    BY <1>0, <1>1, <1>3, <2>1, FailedFails
  <2>3. MovesTo(job, job', j, "failed", job[j].retryCount)
    BY <1>0, <2>2 DEF MovesTo
  <2> QED BY <1>0, <2>1, <2>3 DEF Finishes
<1>7. CASE UnwindThrows(r, g)
  <2>1. ~Mutable(job, j) /\ job' = job /\ job[j].status # "cancelled"
    BY <1>1, <1>7 DEF UnwindThrows
  <2>2. /\ End(r) /\ immediates' \in Seq(Jobs) /\ retryTimers' = retryTimers
        /\ process' \in {"up", "rejected"} /\ SomebodyWoken'
    BY <1>0, <1>7, KickNextTyped, KickNextWakes DEF UnwindThrows
  <2> QED BY <1>0, <2>1, <2>2 DEF Finishes
<1> QED BY <1>4, <1>5, <1>6, <1>7 DEF Unwind

(* A pipeline that is alive has a job.                                     *)
LEMMA LiveHasJob ==
    ASSUME PTypeOK, SlotsOK, NEW r \in Runs, runs[r].pc # "idle"
    PROVE  runs[r].job \in Jobs /\ runs[r] \in Run
BY DEF PTypeOK, PipelineTypeOK, SlotsOK, SlotOK, Run

(* Entering a stage: the pipeline goes on, or is unwound by the checks.    *)
LEMMA EnterStageStep ==
    ASSUME PTypeOK, SlotsOK, NEW r \in Runs, runs[r].pc # "idle",
           process = "up", UNCHANGED untouched,
           NEW g \in [Jobs -> VideoJob],
           MovesTo(job, g, runs[r].job, job[runs[r].job].status,
                   job[runs[r].job].retryCount),
           g = job \/ Mutable(job, runs[r].job),
           NEW s \in StageIds,
           EnterStage(r, g, s)
    PROVE  Advances(r) \/ Finishes(r)
<1> DEFINE j == runs[r].job
           u == [runs[r] EXCEPT !.pc = "stage", !.stage = s]
<1>0. j \in Jobs /\ runs[r] \in Run /\ s \in Nat /\ s \in 0..NumStages
  BY LiveHasJob, QueueAssumption DEF StageIds
<1>1. ASSUME NEW kind \in ErrorKinds, Unwind(r, g, kind)
      PROVE  Finishes(r)
  BY <1>0, <1>1, UnwindFinishes
<1>2. CASE runs[r].aborted \/ ~Mutable(g, j)
  BY <1>1, <1>2 DEF EnterStage, ErrorKinds
<1>3. CASE ~runs[r].aborted /\ Mutable(g, j)
  <2>1. /\ job' = StageRecorded(g, j, s, "started")
        /\ runs' = [runs EXCEPT ![r].pc = "stage", ![r].stage = s]
        /\ UNCHANGED <<callbacks, process>>
    BY <1>3 DEF EnterStage
  <2>2. MovesTo(g, job', j, g[j].status, g[j].retryCount)
    BY <1>0, <2>1, StageRecordedMoves
  <2>3. MovesTo(job, job', j, job[j].status, job[j].retryCount)
    BY <1>0, <2>2 DEF MovesTo
  <2>4. Mutable(job, j)
    BY <1>0, <1>3 DEF Mutable, Active, Queued, Running, MovesTo
  <2>6. u \in Run /\ u.pc = "stage" /\ u.stage = s /\ u.job = j
        /\ u.caught = runs[r].caught /\ u.cancelled = runs[r].cancelled
    BY <1>0 DEF Run
  <2>7. runs' = [runs EXCEPT ![r] = u]
    BY <2>1
  <2>8. SlotOK(u)
    BY <1>0, <2>6, PipelineAssumption DEF SlotOK
  <2> HIDE DEF u
  <2>9. \E w \in Run :
         /\ SlotOK(w)
         /\ w.job = j /\ w.caught = runs[r].caught /\ w.cancelled = runs[r].cancelled
         /\ w.stage # runs[r].stage => Mutable(job, j)
         /\ runs' = [runs EXCEPT ![r] = w]
    BY <2>4, <2>6, <2>7, <2>8
  <2> QED BY <2>1, <2>3, <2>4, <2>9 DEF Advances, untouched, callbacks, env
<1> QED BY <1>2, <1>3

(* A pipeline that only changes what it waits for, or learns of the abort. *)
LEMMA WaitsAdvance ==
    ASSUME PTypeOK, SlotsOK, NEW r \in Runs, runs[r].pc # "idle", NEW u \in Run,
           SlotOK(u),
           u.job = runs[r].job, u.caught = runs[r].caught,
           u.cancelled = runs[r].cancelled, u.stage = runs[r].stage,
           runs' = [runs EXCEPT ![r] = u],
           UNCHANGED <<queueVars, callbacks, env>>
    PROVE  Advances(r)
<1>1. job' = job /\ UNCHANGED <<order, clock, cleanup, callbacks, env>>
  BY DEF queueVars
<1>2. MovesTo(job, job', runs[r].job, job[runs[r].job].status, job[runs[r].job].retryCount)
  BY <1>1 DEF MovesTo, PTypeOK, TypeOK
<1> QED BY <1>1, <1>2 DEF Advances

(* A pipeline's step goes on or settles.                                   *)
LEMMA RunSteps ==
    ASSUME PTypeOK, SlotsOK, NEW r \in Runs, RunStep(r) \/ CancelWatcher(r)
    PROVE  Advances(r) \/ Finishes(r)
<1> DEFINE j == runs[r].job
<1>a. runs[r].pc # "idle" /\ (process = "up")
  BY DEF RunStep, PressureNormal, PressureHigh, PressureCritical, BackoffOver,
         StageSucceeds, StageFails, Finalize, CancelWatcher
<1>b. j \in Jobs /\ runs[r] \in Run /\ job \in [Jobs -> VideoJob] /\ SlotOK(runs[r])
  BY <1>a, LiveHasJob DEF PTypeOK, TypeOK, SlotsOK
<1>c. MovesTo(job, job, j, job[j].status, job[j].retryCount)
  BY <1>b DEF MovesTo
<1>d. 1 \in StageIds /\ NumStages \in Nat
  BY QueueAssumption DEF StageIds
<1>v. ASSUME NEW pc \in {"backoff", "post"}, NEW v, v = [runs[r] EXCEPT !.pc = pc]
      PROVE  /\ v \in Run /\ v.pc = pc /\ v.job = runs[r].job /\ v.caught = runs[r].caught
             /\ v.cancelled = runs[r].cancelled /\ v.stage = runs[r].stage
  <2>1. runs[r] \in Run
    BY <1>b
  <2> QED BY <2>1, <1>v DEF Run
<1>u. ASSUME NEW kind \in ErrorKinds, Unwind(r, job, kind), UNCHANGED untouched
      PROVE  Finishes(r)
  BY <1>a, <1>b, <1>c, <1>u, UnwindFinishes
<1>e. ASSUME EnterStage(r, job, 1), UNCHANGED untouched
      PROVE  Advances(r) \/ Finishes(r)
  BY <1>a, <1>b, <1>c, <1>d, <1>e, EnterStageStep
<1>1. CASE PressureNormal(r) \/ BackoffOver(r)
  BY <1>1, <1>e DEF PressureNormal, BackoffOver
<1>2. CASE PressureHigh(r)
  <2> DEFINE u == [runs[r] EXCEPT !.pc = "backoff"]
  <2>1. u \in Run /\ u.pc = "backoff" /\ u.job = j /\ u.caught = runs[r].caught
        /\ u.cancelled = runs[r].cancelled /\ u.stage = runs[r].stage
    BY <1>v, Zenon
  <2>2. runs' = [runs EXCEPT ![r] = u] /\ UNCHANGED <<queueVars, callbacks, env>>
    BY <1>2 DEF PressureHigh
  <2> HIDE DEF u
  <2>3. SlotOK(u)
    BY <1>b, <2>1, PipelineAssumption DEF SlotOK
  <2> QED BY <1>a, <2>1, <2>2, <2>3, WaitsAdvance
<1>3. CASE PressureCritical(r)
  BY <1>3, <1>u DEF PressureCritical, ErrorKinds
<1>4. CASE StageSucceeds(r)
  <2> DEFINE s == runs[r].stage
             g == StageRecorded(job, j, s, "done")
  <2>0. s \in StageIds /\ s \in Nat /\ runs[r].pc = "stage" /\ UNCHANGED untouched
    BY <1>4, <1>b, <1>d DEF StageSucceeds, SlotOK, StageIds
  <2>1. CASE ~Mutable(job, j)
    BY <1>4, <1>u, <2>0, <2>1 DEF StageSucceeds, ErrorKinds
  <2>2. MovesTo(job, g, j, job[j].status, job[j].retryCount) /\ g \in [Jobs -> VideoJob]
    BY <1>b, <2>0, StageRecordedMoves DEF MovesTo
  <2>5. CASE Mutable(job, j) /\ HasNext(s)
    <3>1. EnterStage(r, g, s + 1)
      BY <1>4, <2>5 DEF StageSucceeds
    <3> HIDE DEF g
    <3>2. s + 1 \in StageIds
      BY <1>d, <2>0, <2>5 DEF HasNext, StageIds
    <3> QED BY <1>a, <2>0, <2>2, <2>5, <3>1, <3>2, EnterStageStep
  <2>6. CASE Mutable(job, j) /\ ~HasNext(s)
    <3> DEFINE u == [runs[r] EXCEPT !.pc = "post"]
    <3>1. u \in Run /\ u.pc = "post" /\ u.job = j /\ u.caught = runs[r].caught
          /\ u.cancelled = runs[r].cancelled /\ u.stage = runs[r].stage
      BY <1>v, Zenon
    <3>2. job' = g /\ runs' = [runs EXCEPT ![r] = u] /\ UNCHANGED <<callbacks, process>>
      BY <1>4, <2>6 DEF StageSucceeds
    <3> HIDE DEF u, g
    <3>3. SlotOK(u)
      BY <1>b, <3>1, PipelineAssumption DEF SlotOK
    <3>4. /\ MovesTo(job, job', j, job[j].status, job[j].retryCount)
          /\ UNCHANGED <<order, clock, cleanup, callbacks, env>>
      BY <2>0, <2>2, <3>2 DEF untouched, env
    <3> QED BY <1>a, <2>6, <3>1, <3>2, <3>3, <3>4 DEF Advances
  <2> QED BY <2>1, <2>5, <2>6
<1>5. ASSUME NEW kind \in ErrorKinds, StageFails(r, kind) PROVE Finishes(r)
  BY <1>5, <1>u DEF StageFails
<1>6. CASE Finalize(r)
  <2>1. CASE Mutable(job, j)
    <3>1. /\ job' = Completed(job, j) /\ End(r) /\ retryTimers' = retryTimers
          /\ process' = process /\ UNCHANGED untouched
          /\ KickNext(job', immediates)
      BY <1>6, <2>1 DEF Finalize
    <3>2. MovesTo(job, job', j, "completed", job[j].retryCount)
      BY <1>b, <3>1, CompletedMoves
    <3>3. immediates' \in Seq(Jobs) /\ retryTimers' \in [Jobs -> Nat] /\ SomebodyWoken'
      BY <3>1, KickNextTyped, KickNextWakes DEF PTypeOK, PipelineTypeOK
    <3> QED BY <1>a, <2>1, <3>1, <3>2, <3>3 DEF Finishes
  <2>2. CASE ~Mutable(job, j)
    BY <1>6, <1>u, <2>2 DEF Finalize, ErrorKinds
  <2> QED BY <2>1, <2>2
<1>7. CASE CancelWatcher(r)
  <2> DEFINE u == [runs[r] EXCEPT !.aborted = TRUE]
  <2>1. u \in Run /\ u.pc = runs[r].pc /\ u.job = j /\ u.caught = runs[r].caught
        /\ u.cancelled = runs[r].cancelled /\ u.stage = runs[r].stage
    BY <1>b DEF Run
  <2>2. runs' = [runs EXCEPT ![r] = u] /\ UNCHANGED <<queueVars, callbacks, env>>
    BY <1>7 DEF CancelWatcher
  <2> HIDE DEF u
  <2>3. SlotOK(u)
    BY <1>b, <2>1 DEF SlotOK
  <2> QED BY <1>a, <2>1, <2>2, <2>3, WaitsAdvance
<1> QED BY <1>1, <1>2, <1>3, <1>4, <1>5, <1>6, <1>7 DEF RunStep

-----------------------------------------------------------------------------
(* Every step, summarised                                                  *)

(* A pipeline for j takes a free slot.                                     *)
Begins(j) ==
    \E r \in Runs, c \in BOOLEAN :
        runs[r].pc = "idle" /\ runs' = [runs EXCEPT ![r] = NewRun(j, c)]

CallbacksTyped == immediates' \in Seq(Jobs) /\ retryTimers' \in [Jobs -> Nat]

EpisodesTyped == episodeJob' \in [Episodes -> Jobs \cup {NoJob}]

(* A callback starts j under the SINGLE-VIDEO LOCK.                        *)
Starts(j) ==
    /\ CanStart(job, j)
    /\ job' = Started(job, j)
    /\ Begins(j)
    /\ CallbacksTyped
    /\ UNCHANGED <<untouched, process>>

(* No callback is lost but one that would start nothing.                   *)
WakesKept == \A k \in Jobs : Woken(k) /\ CanStart(job, k) => Woken(k)'

(* A new job; the pipeline of a new episode starts at once.                *)
Submits(j, c) ==
    /\ Enqueue(j, c)
    /\ \/ UNCHANGED runs
       \/ c \in Episodes /\ Begins(j)
    /\ c \notin Episodes => Woken(j)'
    /\ WakesKept
    /\ CallbacksTyped
    /\ EpisodesTyped
    /\ UNCHANGED <<process, crashes>>

(* A pipeline of an episode on a job that is active already.               *)
Rejoins(j) ==
    /\ Episodes # {} /\ j \in Active(job)
    /\ Begins(j)
    /\ EpisodesTyped
    /\ UNCHANGED <<queueVars, callbacks, process, crashes>>

(* Callbacks that find nothing to start, and reorderings.                  *)
Quiet ==
    /\ UNCHANGED <<job, runs, env>>
    /\ UNCHANGED queueVars \/ \E p \in Orderings : ReprioritizeQueue(p)
    /\ WakesKept
    /\ CallbacksTyped

LEMMA BeginBegins ==
    ASSUME NEW j, NEW c \in BOOLEAN, Begin(j, c)
    PROVE  Begins(j)
<1>1. \E r \in Runs : runs[r].pc = "idle"
  BY DEF Begin, Live
<1>2. FreeSlot \in Runs /\ runs[FreeSlot].pc = "idle"
  BY <1>1 DEF FreeSlot
<1> HIDE DEF FreeSlot
<1> QED BY <1>2 DEF Begins, Begin

LEMMA IdleRunTyped == IdleRun \in Run /\ SlotOK(IdleRun)
BY QueueAssumption DEF IdleRun, Run, SlotOK

LEMMA NewRunTyped ==
    ASSUME NEW j \in Jobs, NEW c \in BOOLEAN
    PROVE  /\ NewRun(j, c) \in Run /\ SlotOK(NewRun(j, c))
           /\ NewRun(j, c).pc = "preflight" /\ NewRun(j, c).job = j
           /\ NewRun(j, c).stage = 0 /\ ~NewRun(j, c).cancelled
<1> DEFINE u == [IdleRun EXCEPT !.pc = "preflight"]
           v == [u EXCEPT !.job = j]
           w == [v EXCEPT !.caught = c]
<1>1. IdleRun \in Run /\ IdleRun.stage = 0 /\ ~IdleRun.cancelled
  BY IdleRunTyped DEF IdleRun
<1>2. w = NewRun(j, c)
  BY DEF NewRun
<1>3. u \in Run /\ u.pc = "preflight" /\ u.stage = 0 /\ ~u.cancelled
  BY <1>1 DEF Run
<1> HIDE DEF u
<1>4. v \in Run /\ v.pc = "preflight" /\ v.job = j /\ v.stage = 0 /\ ~v.cancelled
  BY <1>3 DEF Run
<1> HIDE DEF v
<1>5. w \in Run /\ w.pc = "preflight" /\ w.job = j /\ w.stage = 0 /\ ~w.cancelled
  BY <1>4 DEF Run
<1> HIDE DEF w
<1> QED BY <1>2, <1>5, PipelineAssumption DEF SlotOK

(* A callback or a timer starts its job under the lock, or is quiet.       *)
LEMMA ImmediateSteps ==
    ASSUME PTypeOK, ImmediateFires
    PROVE  (\E j \in Jobs : Starts(j)) \/ Quiet
<1>0. immediates \in Seq(Jobs) /\ retryTimers \in [Jobs -> Nat]
  BY DEF PTypeOK, PipelineTypeOK
<1> DEFINE j == Head(immediates)
<1>1. j \in Jobs /\ Tail(immediates) \in Seq(Jobs)
  BY <1>0 DEF ImmediateFires
<1>2. CallbacksTyped
  BY <1>0, <1>1 DEF ImmediateFires, CallbacksTyped
<1>3. CASE CanStart(job, j)
  BY <1>1, <1>2, <1>3, BeginBegins DEF ImmediateFires, Starts, untouched
<1>4. CASE ~CanStart(job, j)
  <2>1. WakesKept
    <3>1. SUFFICES ASSUME NEW k \in Jobs, k # j, NEW i \in DOMAIN immediates, immediates[i] = k
                   PROVE  \E m \in DOMAIN immediates' : immediates'[m] = k
      BY <1>4 DEF ImmediateFires, WakesKept, Woken
    <3>2. immediates' = Tail(immediates) /\ immediates # << >>
      BY DEF ImmediateFires
    <3>3. i \in 1..Len(immediates) /\ i # 1
      BY <1>0, <3>1
    <3>4. i - 1 \in 1..Len(Tail(immediates)) /\ Tail(immediates)[i - 1] = immediates[i]
      BY <1>0, <3>2, <3>3
    <3> QED BY <1>0, <3>1, <3>2, <3>4
  <2> QED BY <1>2, <1>4, <2>1 DEF ImmediateFires, Quiet, untouched, env, queueVars
<1> QED BY <1>1, <1>3, <1>4

LEMMA TimerSteps ==
    ASSUME PTypeOK, NEW j \in Jobs, RetryTimerFires(j)
    PROVE  Starts(j) \/ Quiet
<1>0. retryTimers \in [Jobs -> Nat] /\ immediates \in Seq(Jobs)
  BY DEF PTypeOK, PipelineTypeOK
<1>1. CallbacksTyped
  BY <1>0 DEF RetryTimerFires, CallbacksTyped
<1>2. CASE CanStart(job, j)
  BY <1>1, <1>2, BeginBegins DEF RetryTimerFires, Starts, untouched
<1>3. CASE ~CanStart(job, j)
  <2>1. WakesKept
    BY <1>0, <1>3 DEF RetryTimerFires, WakesKept, Woken
  <2> QED BY <1>1, <1>3, <2>1 DEF RetryTimerFires, Quiet, untouched, env, queueVars
<1> QED BY <1>2, <1>3

(* The produce route submits a job, or joins the pipelines of one.         *)
LEMMA ProduceSteps ==
    ASSUME PTypeOK, NEW j \in Jobs, NEW c \in Episodes, ProduceEpisode(j, c)
    PROVE  c \in ClientRequests /\ (Submits(j, c) \/ Rejoins(j))
<1>0. /\ immediates \in Seq(Jobs) /\ retryTimers \in [Jobs -> Nat]
      /\ episodeJob \in [Episodes -> Jobs \cup {NoJob}]
  BY DEF PTypeOK, PipelineTypeOK
<1>1. WakesKept /\ CallbacksTyped
  BY <1>0 DEF ProduceEpisode, callbacks, WakesKept, Woken, CallbacksTyped
<1>2. EpisodesTyped /\ Begins(j) /\ UNCHANGED <<callbacks, process, crashes>>
  BY <1>0, BeginBegins DEF ProduceEpisode, EpisodesTyped
<1>3. CASE Enqueue(j, c)
  BY <1>1, <1>2, <1>3, PipelineAssumption DEF Submits
<1>4. CASE ~Enqueue(j, c)
  <2>1. j \in Active(job) /\ UNCHANGED queueVars
    BY <1>4 DEF ProduceEpisode, Accepts, IsFirst, Duplicates
  <2> QED BY <1>2, <2>1, PipelineAssumption DEF Rejoins
<1> QED BY <1>3, <1>4

(* A step is a step of a pipeline, a start, a submission, an operation of  *)
(* a client or a timer on one job, an end of the process, or quiet.        *)
LEMMA PipelineNext ==
    ASSUME PTypeOK, SlotsOK, PNext
    PROVE  \/ \E r \in Runs : Advances(r) \/ Finishes(r)
           \/ \E j \in Jobs : Starts(j)
           \/ \E j \in Jobs, c \in ClientRequests \cup {NoClientRequest} : Submits(j, c)
           \/ \E j \in Jobs : Rejoins(j)
           \/ \E j \in Jobs : CancelRoute(j)
           \/ \E j \in Jobs, s \in StageIds : ResumeRoute(j, s)
           \/ \E j \in Jobs : EvictionTimer(j)
           \/ Crash
           \/ RestartProcess
           \/ Quiet
<1>0. /\ immediates \in Seq(Jobs) /\ retryTimers \in [Jobs -> Nat]
      /\ episodeJob \in [Episodes -> Jobs \cup {NoJob}]
  BY DEF PTypeOK, PipelineTypeOK
<1>k. UNCHANGED callbacks => WakesKept
  BY DEF callbacks, WakesKept, Woken
<1>1. CASE ImmediateFires
  BY <1>1, ImmediateSteps
<1>2. ASSUME NEW j \in Jobs, RetryTimerFires(j) PROVE Starts(j) \/ Quiet
  BY <1>2, TimerSteps
<1>3. ASSUME NEW j \in Jobs, NEW c \in ClientRequests \cup {NoClientRequest},
             PostJob(j, c)
      PROVE  Submits(j, c) \/ Quiet
  <2>1. CallbacksTyped /\ EpisodesTyped /\ UNCHANGED <<runs, env>>
    BY <1>0, <1>3 DEF PostJob, CallbacksTyped, EpisodesTyped, env
  <2>2. Enqueue(j, c) \/ UNCHANGED queueVars
    BY <1>3 DEF PostJob, Accepts
  <2>3. WakesKept /\ Woken(j)'
    <3>1. immediates' = Append(immediates, j) /\ retryTimers' = retryTimers
      BY <1>3 DEF PostJob
    <3>2. Len(immediates) + 1 \in DOMAIN immediates' /\ immediates'[Len(immediates) + 1] = j
      BY <1>0, <3>1
    <3>3. \A i \in DOMAIN immediates : i \in DOMAIN immediates' /\ immediates'[i] = immediates[i]
      BY <1>0, <3>1
    <3> QED BY <3>1, <3>2, <3>3 DEF WakesKept, Woken
  <2> QED BY <2>1, <2>2, <2>3 DEF Submits, Quiet, queueVars, env
<1>4. ASSUME NEW j \in Jobs, NEW c \in Episodes, ProduceEpisode(j, c)
      PROVE  c \in ClientRequests /\ (Submits(j, c) \/ Rejoins(j))
  BY <1>4, ProduceSteps
<1>5. ASSUME NEW p \in Orderings, ReprioritizeRoute(p) PROVE Quiet
  BY <1>0, <1>5, <1>k DEF ReprioritizeRoute, ReprioritizeQueue, Quiet, CallbacksTyped, callbacks
<1>6. ASSUME NEW r \in Runs, RunStep(r) \/ CancelWatcher(r)
      PROVE  Advances(r) \/ Finishes(r)
  BY <1>6, RunSteps
<1> QED BY <1>1, <1>2, <1>3, <1>4, <1>5, <1>6 DEF PNext, Requests

-----------------------------------------------------------------------------
(* Type correctness                                                        *)

LEMMA PipelineTypeStep ==
    PTypeOK /\ SlotsOK /\ [PNext]_vars => PTypeOK' /\ SlotsOK'
<1> SUFFICES ASSUME PTypeOK, SlotsOK, [PNext]_vars
             PROVE  PTypeOK' /\ SlotsOK'
  OBVIOUS
<1>0. TypeOK /\ PipelineTypeOK
  BY DEF PTypeOK
<1>1. CASE UNCHANGED vars
  BY <1>0, <1>1 DEF vars, PTypeOK, PipelineTypeOK, TypeOK, SlotsOK, SlotOK
<1>q. ASSUME [QueueNext]_queueVars, CallbacksTyped, EpisodesTyped, process' \in {"up", "killed", "rejected"},
             crashes' \in Nat, runs' \in [Runs -> Run], \A q \in Runs : SlotOK(runs'[q])
      PROVE  PTypeOK' /\ SlotsOK'
  <2>1. TypeOK'
    BY <1>0, <1>q, QueueTypeStep
  <2>2. PipelineTypeOK'
    BY <1>q DEF PipelineTypeOK, CallbacksTyped, EpisodesTyped
  <2> QED BY <1>q, <2>1, <2>2 DEF PTypeOK, SlotsOK, SlotOK
<1>t. ASSUME job' \in [Jobs -> VideoJob], UNCHANGED <<order, clock, cleanup>>,
             CallbacksTyped, EpisodesTyped, process' \in {"up", "killed", "rejected"},
             crashes' \in Nat, runs' \in [Runs -> Run], \A q \in Runs : SlotOK(runs'[q])
      PROVE  PTypeOK' /\ SlotsOK'
  BY <1>0, <1>t DEF PTypeOK, TypeOK, PipelineTypeOK, CallbacksTyped, EpisodesTyped, SlotsOK,
                   SlotOK
<1>r. ASSUME NEW r \in Runs, NEW u \in Run, SlotOK(u), runs' = [runs EXCEPT ![r] = u]
      PROVE  runs' \in [Runs -> Run] /\ \A q \in Runs : SlotOK(runs'[q])
  <2>1. \A q \in Runs : runs'[q] = IF q = r THEN u ELSE runs[q]
    BY <1>0, <1>r DEF PipelineTypeOK
  <2> QED BY <1>0, <1>r, <2>1 DEF PipelineTypeOK, SlotsOK
<1>b. ASSUME NEW j \in Jobs, Begins(j)
      PROVE  runs' \in [Runs -> Run] /\ \A q \in Runs : SlotOK(runs'[q])
  <2>1. PICK r \in Runs, c \in BOOLEAN : runs' = [runs EXCEPT ![r] = NewRun(j, c)]
    BY <1>b DEF Begins
  <2> QED BY <1>r, <2>1, NewRunTyped
<1>s. runs' = runs => runs' \in [Runs -> Run] /\ \A q \in Runs : SlotOK(runs'[q])
  BY <1>0 DEF PipelineTypeOK, SlotsOK
<1>c. UNCHANGED callbacks => CallbacksTyped
  BY <1>0 DEF callbacks, CallbacksTyped, PipelineTypeOK
<1>e. /\ UNCHANGED env => /\ process' \in {"up", "killed", "rejected"} /\ crashes' \in Nat
                          /\ EpisodesTyped
      /\ process \in {"up", "killed", "rejected"} /\ crashes \in Nat
      /\ UNCHANGED episodeJob => EpisodesTyped
  BY <1>0 DEF env, PipelineTypeOK, EpisodesTyped
<1>2. ASSUME NEW r \in Runs, Advances(r) PROVE PTypeOK' /\ SlotsOK'
  <2>1. PICK u \in Run : SlotOK(u) /\ runs' = [runs EXCEPT ![r] = u]
    BY <1>2 DEF Advances
  <2>2. job' \in [Jobs -> VideoJob] /\ UNCHANGED <<order, clock, cleanup, callbacks, env>>
    BY <1>2 DEF Advances, MovesTo
  <2>3. runs' \in [Runs -> Run] /\ \A q \in Runs : SlotOK(runs'[q])
    BY <1>r, <2>1
  <2> QED BY <1>t, <1>c, <1>e, <2>2, <2>3
<1>3. ASSUME NEW r \in Runs, Finishes(r) PROVE PTypeOK' /\ SlotsOK'
  <2>1. runs' \in [Runs -> Run] /\ \A q \in Runs : SlotOK(runs'[q])
    BY <1>3, <1>r, IdleRunTyped DEF Finishes, End
  <2>2. job' \in [Jobs -> VideoJob] /\ process' \in {"up", "killed", "rejected"}
    BY <1>0, <1>3, <1>e DEF Finishes, MovesTo, TypeOK
  <2>3. CallbacksTyped /\ EpisodesTyped /\ UNCHANGED <<order, clock, cleanup>> /\ crashes' \in Nat
    BY <1>3, <1>e DEF Finishes, CallbacksTyped, untouched
  <2> QED BY <1>t, <2>1, <2>2, <2>3
<1>4. ASSUME NEW j \in Jobs, Starts(j) PROVE PTypeOK' /\ SlotsOK'
  <2>1. job' \in [Jobs -> VideoJob]
    BY <1>0, <1>4, StartedMoves DEF Starts, MovesTo, TypeOK
  <2> QED BY <1>4, <1>b, <1>t, <1>e, <2>1 DEF Starts, untouched
<1>5. ASSUME NEW j \in Jobs, NEW c \in ClientRequests \cup {NoClientRequest},
             Submits(j, c)
      PROVE  PTypeOK' /\ SlotsOK'
  BY <1>5, <1>b, <1>s, <1>e, <1>q DEF Submits, QueueNext
<1>6. ASSUME NEW j \in Jobs, CancelRoute(j) PROVE PTypeOK' /\ SlotsOK'
  <2>1. runs' = [r \in Runs |-> [runs[r] EXCEPT !.cancelled = @ \/ runs[r].job = j]]
    BY <1>6 DEF CancelRoute
  <2>2. runs' \in [Runs -> Run]
    <3>1. ASSUME NEW q \in Runs
          PROVE  [runs[q] EXCEPT !.cancelled = @ \/ runs[q].job = j] \in Run
      <4> DEFINE b == runs[q].cancelled \/ runs[q].job = j
      <4>1. runs[q] \in Run /\ b \in BOOLEAN
        BY <1>0 DEF PipelineTypeOK
      <4> HIDE DEF b
      <4>2. [runs[q] EXCEPT !.cancelled = b] \in Run
        BY <4>1 DEF Run
      <4> QED BY <4>2 DEF b
    <3> QED BY <2>1, <3>1
  <2>3. ASSUME NEW q \in Runs PROVE SlotOK(runs'[q])
    <3>1. /\ runs[q] \in Run /\ SlotOK(runs[q])
          /\ runs'[q] = [runs[q] EXCEPT !.cancelled = runs[q].cancelled \/ runs[q].job = j]
      BY <1>0, <2>1 DEF PipelineTypeOK, SlotsOK
    <3>2. /\ runs'[q].pc = runs[q].pc /\ runs'[q].job = runs[q].job
          /\ runs'[q].stage = runs[q].stage
          /\ runs'[q].cancelled <=> (runs[q].cancelled \/ runs[q].job = j)
      BY <3>1, Zenon DEF Run
    <3> QED BY <3>1, <3>2, PipelineAssumption DEF SlotOK
  <2> QED BY <1>6, <1>q, <1>c, <1>e, <2>2, <2>3 DEF CancelRoute, QueueNext
<1>7. ASSUME NEW j \in Jobs, NEW s \in StageIds, ResumeRoute(j, s)
      PROVE  PTypeOK' /\ SlotsOK'
  BY <1>7, <1>q, <1>s, <1>c, <1>e DEF ResumeRoute, QueueNext
<1>8. ASSUME NEW j \in Jobs, EvictionTimer(j) PROVE PTypeOK' /\ SlotsOK'
  BY <1>8, <1>q, <1>s, <1>c, <1>e DEF EvictionTimer, QueueNext
<1>f. ForgetCallbacks => /\ CallbacksTyped /\ runs' \in [Runs -> Run]
                         /\ \A q \in Runs : SlotOK(runs'[q])
  BY IdleRunTyped DEF ForgetCallbacks, CallbacksTyped
<1>9. CASE Crash
  BY <1>9, <1>f, <1>q, <1>e DEF Crash
<1>10. CASE RestartProcess
  BY <1>10, <1>f, <1>q, <1>e DEF RestartProcess, QueueNext
<1>11. CASE Quiet
  BY <1>11, <1>q, <1>s, <1>e DEF Quiet, QueueNext
<1>12. ASSUME NEW j \in Jobs, Rejoins(j) PROVE PTypeOK' /\ SlotsOK'
  BY <1>12, <1>b, <1>c, <1>e, <1>q DEF Rejoins
<1> QED BY <1>1, <1>2, <1>3, <1>4, <1>5, <1>6, <1>7, <1>8, <1>9, <1>10, <1>11, <1>12,
          PipelineNext

LEMMA PipelineWellFormed == Spec => [](PTypeOK /\ SlotsOK)
<1>1. PInit => PTypeOK /\ SlotsOK
  <2>1. Init => TypeOK
    BY DEF Init, TypeOK, FreshJob, VideoJob, NoStages, Status, Absent
  <2> QED BY <2>1, IdleRunTyped DEF PInit, PTypeOK, PipelineTypeOK, SlotsOK, SlotOK
<1> QED BY <1>1, PipelineTypeStep, PTL DEF Spec

(* The registry, the pipelines, the callbacks and the process stay         *)
(* well-typed, for any number of jobs, pipelines and crashes.              *)
THEOREM PipelineTypeCorrect == Spec => []PTypeOK
BY PipelineWellFormed, PTL

-----------------------------------------------------------------------------
(* What the summaries say of the pipelines and of the statuses             *)

LEMMA AdvancesKeeps ==
    ASSUME PTypeOK, SlotsOK, NEW r \in Runs, Advances(r)
    PROVE  /\ \A q \in Runs : /\ runs'[q].job = runs[q].job
                              /\ runs'[q].pc = "idle" <=> runs[q].pc = "idle"
                              /\ runs'[q].cancelled = runs[q].cancelled
           /\ \A q \in Runs \ {r} : runs'[q] = runs[q]
           /\ \A k \in Jobs : /\ job'[k].status = job[k].status
                              /\ job'[k].retryCount = job[k].retryCount
<1>1. PICK u \in Run : /\ SlotOK(u) /\ runs' = [runs EXCEPT ![r] = u]
                       /\ u.job = runs[r].job /\ u.cancelled = runs[r].cancelled
  BY DEF Advances
<1>2. \A q \in Runs : runs'[q] = IF q = r THEN u ELSE runs[q]
  BY <1>1 DEF PTypeOK, PipelineTypeOK
<1>3. SlotOK(runs[r])
  BY DEF SlotsOK
<1>4. \A k \in Jobs : job'[k].status = job[k].status /\ job'[k].retryCount = job[k].retryCount
  BY DEF Advances, MovesTo
<1> QED BY <1>1, <1>2, <1>3, <1>4 DEF SlotOK

LEMMA FinishesFrees ==
    ASSUME PTypeOK, SlotsOK, NEW r \in Runs, Finishes(r)
    PROVE  /\ runs[r].pc # "idle" /\ runs[r].job \in Jobs
           /\ runs'[r] = IdleRun
           /\ \A q \in Runs \ {r} : runs'[q] = runs[q]
           /\ \A k \in Jobs \ {runs[r].job} : job'[k] = job[k]
           /\ job'[runs[r].job].status # "running"
<1>1. runs[r].pc # "idle" /\ runs[r].job \in Jobs /\ End(r)
  BY LiveHasJob DEF Finishes
<1>2. runs'[r] = IdleRun /\ \A q \in Runs \ {r} : runs'[q] = runs[q]
  BY <1>1 DEF End, PTypeOK, PipelineTypeOK
<1>3. CASE ~Mutable(job, runs[r].job) /\ job' = job
  BY <1>1, <1>2, <1>3 DEF Mutable, Active, Running
<1>4. CASE \E s \in {"queued", "failed", "completed"}, n \in Nat :
             MovesTo(job, job', runs[r].job, s, n)
  BY <1>1, <1>2, <1>4 DEF MovesTo
<1>5. job[runs[r].job].retryCount \in Nat /\ job[runs[r].job].retryCount + 1 \in Nat
  BY <1>1 DEF PTypeOK, TypeOK, VideoJob
<1> QED BY <1>3, <1>4, <1>5 DEF Finishes

LEMMA BeginsOne ==
    ASSUME PTypeOK, NEW j \in Jobs, Begins(j)
    PROVE  \E r \in Runs :
             /\ runs[r].pc = "idle"
             /\ runs'[r].pc = "preflight" /\ runs'[r].job = j
             /\ ~runs'[r].cancelled
             /\ \A q \in Runs \ {r} : runs'[q] = runs[q]
BY NewRunTyped DEF Begins, PTypeOK, PipelineTypeOK

LEMMA StartsOne ==
    ASSUME PTypeOK, NEW j \in Jobs, Starts(j)
    PROVE  /\ job[j].status = "queued" /\ Running(job) = {}
           /\ job'[j].status = "running"
           /\ \A k \in Jobs \ {j} : job'[k] = job[k]
BY DEF Starts, CanStart, Queued, Started, PTypeOK, TypeOK, VideoJob

LEMMA SubmitsOne ==
    ASSUME PTypeOK, NEW j \in Jobs, NEW c, Submits(j, c)
    PROVE  /\ job[j].status = "none" /\ job'[j].status = "queued"
           /\ \A k \in Jobs \ {j} : job'[k] = job[k]
BY DEF Submits, Enqueue, FreshJob, PTypeOK, TypeOK

LEMMA CancelsOne ==
    ASSUME PTypeOK, NEW j \in Jobs, CancelRoute(j)
    PROVE  /\ job[j].status \in {"queued", "running"} /\ job'[j].status = "cancelled"
           /\ \A k \in Jobs \ {j} : job'[k] = job[k]
           /\ \A q \in Runs : /\ runs'[q].pc = runs[q].pc /\ runs'[q].job = runs[q].job
                              /\ runs'[q].stage = runs[q].stage
                              /\ runs'[q].cancelled <=> runs[q].cancelled \/ runs[q].job = j
<1>1. /\ job[j].status \in {"queued", "running"} /\ job'[j].status = "cancelled"
      /\ \A k \in Jobs \ {j} : job'[k] = job[k]
  BY CancelledMoves
     DEF CancelRoute, CancelJob, Mutable, Active, Queued, Running, MovesTo, PTypeOK, TypeOK
<1>2. ASSUME NEW q \in Runs
      PROVE  /\ runs'[q].pc = runs[q].pc /\ runs'[q].job = runs[q].job
             /\ runs'[q].stage = runs[q].stage
             /\ runs'[q].cancelled <=> runs[q].cancelled \/ runs[q].job = j
  <2>1. /\ runs[q] \in Run
        /\ runs'[q] = [runs[q] EXCEPT !.cancelled = runs[q].cancelled \/ runs[q].job = j]
    BY DEF CancelRoute, PTypeOK, PipelineTypeOK
  <2> QED BY <2>1, Zenon DEF Run
<1> QED BY <1>1, <1>2

LEMMA ResumesOne ==
    ASSUME PTypeOK, NEW j \in Jobs, NEW s \in StageIds, ResumeRoute(j, s)
    PROVE  /\ job[j].status \in Terminal /\ job[j].retryCount < MaxRetryCount
           /\ job'[j].status = "queued"
           /\ \A k \in Jobs \ {j} : job'[k] = job[k]
           /\ UNCHANGED <<runs, env>>
BY ResumedMoves DEF ResumeRoute, ResumeJob, MovesTo, PTypeOK, TypeOK

(* An eviction timer that finds its job active does nothing.               *)
LEMMA EvictsOne ==
    ASSUME PTypeOK, NEW j \in Jobs, EvictionTimer(j)
    PROVE  /\ \/ job' = job
              \/ job[j].status \in Terminal /\ job'[j].status = "gone"
           /\ \A k \in Jobs \ {j} : job'[k] = job[k]
           /\ EvictionAllowed
           /\ UNCHANGED <<runs, env>>
<1>1. EvictionAllowed /\ UNCHANGED <<runs, env>>
  BY DEF EvictionTimer
<1>2. job' = job \/ (job[j].status \in Terminal /\ job' = Evicted(job, j))
  BY DEF EvictionTimer, CleanupTimer
<1>3. MovesTo(job, Evicted(job, j), j, "gone", job[j].retryCount)
  BY EvictedMoves DEF PTypeOK, TypeOK
<1> QED BY <1>1, <1>2, <1>3 DEF MovesTo

(* Without MaxRetryCount no client resumes a job.                          *)
LEMMA NoResume ==
    ASSUME PTypeOK, MaxRetryCount = 0, NEW j \in Jobs, NEW s \in StageIds
    PROVE  ~ResumeRoute(j, s)
BY ResumesOne DEF PTypeOK, TypeOK, VideoJob

-----------------------------------------------------------------------------
(* The lock is never held by nobody                                        *)

LEMMA RunningStep ==
    PTypeOK /\ SlotsOK /\ RunningHasPipelineInLife /\ [PNext]_vars
      => RunningHasPipelineInLife'
<1> SUFFICES ASSUME PTypeOK, SlotsOK, RunningHasPipelineInLife, [PNext]_vars
             PROVE  RunningHasPipelineInLife'
  OBVIOUS
<1> USE DEF RunningHasPipelineInLife, RunningHasPipeline, Running, Live
<1>0. crashes \in Nat
  BY DEF PTypeOK, PipelineTypeOK
<1>1. CASE UNCHANGED vars
  BY <1>1 DEF vars
<1>2. ASSUME NEW r \in Runs, Advances(r) PROVE RunningHasPipelineInLife'
  <2>1. UNCHANGED env
    BY <1>2 DEF Advances
  <2>2. Running(job') = Running(job) /\ Live' = Live /\ \A q \in Runs : runs'[q].job = runs[q].job
    BY <1>2, AdvancesKeeps
  <2> QED BY <2>1, <2>2 DEF env
<1>3. ASSUME NEW r \in Runs, Finishes(r) PROVE RunningHasPipelineInLife'
  <2>1. SUFFICES ASSUME crashes' = 0, process' = "up", NEW k \in Running(job')
                 PROVE  \E q \in Live' : runs'[q].job = k
    OBVIOUS
  <2>2. k # runs[r].job /\ job[k].status = "running"
    BY <1>3, FinishesFrees
  <2>3. crashes = 0 /\ process = "up"
    BY <1>3, <2>1 DEF Finishes, untouched
  <2>4. PICK q \in Live : runs[q].job = k
    BY <2>2, <2>3
  <2>5. q # r /\ runs'[q] = runs[q]
    BY <1>3, <2>2, <2>4, FinishesFrees
  <2> QED BY <2>4, <2>5
<1>4. ASSUME NEW j \in Jobs, Starts(j) PROVE RunningHasPipelineInLife'
  <2>1. \E r \in Runs : runs'[r].pc = "preflight" /\ runs'[r].job = j
    BY <1>4, BeginsOne DEF Starts
  <2> QED BY <1>4, <2>1, StartsOne
<1>5. ASSUME NEW j \in Jobs, NEW c \in ClientRequests \cup {NoClientRequest},
             Submits(j, c)
      PROVE  RunningHasPipelineInLife'
  <2>1. \A q \in Live : q \in Live' /\ runs'[q].job = runs[q].job
    BY <1>5, BeginsOne DEF Submits
  <2> QED BY <1>5, <2>1, SubmitsOne DEF Submits
<1>6. ASSUME NEW j \in Jobs, CancelRoute(j) PROVE RunningHasPipelineInLife'
  <2>1. UNCHANGED env
    BY <1>6 DEF CancelRoute
  <2>2. Running(job') \subseteq Running(job) /\ Live' = Live
        /\ \A q \in Runs : runs'[q].job = runs[q].job
    BY <1>6, CancelsOne
  <2> QED BY <2>1, <2>2 DEF env
<1>7. ASSUME NEW j \in Jobs, NEW s \in StageIds, ResumeRoute(j, s)
      PROVE  RunningHasPipelineInLife'
  BY <1>7, ResumesOne DEF env
<1>8. ASSUME NEW j \in Jobs, EvictionTimer(j) PROVE RunningHasPipelineInLife'
  BY <1>8, EvictsOne DEF env
<1>9. CASE Crash
  BY <1>9 DEF Crash
<1>10. CASE RestartProcess
  BY <1>0, <1>10 DEF RestartProcess
<1>11. CASE Quiet
  BY <1>11 DEF Quiet, env
<1>12. ASSUME NEW j \in Jobs, Rejoins(j) PROVE RunningHasPipelineInLife'
  <2>1. \A q \in Live : q \in Live' /\ runs'[q].job = runs[q].job
    BY <1>12, BeginsOne DEF Rejoins
  <2> QED BY <1>12, <2>1 DEF Rejoins, queueVars
<1> QED BY <1>1, <1>2, <1>3, <1>4, <1>5, <1>6, <1>7, <1>8, <1>9, <1>10, <1>11, <1>12,
          PipelineNext

(* In the first life of the process every "running" job has a pipeline     *)
(* that is alive: whatever overlaps, the lock is given back.               *)
THEOREM PipelineHoldsLock == Spec => []RunningHasPipelineInLife
<1>1. PInit => RunningHasPipelineInLife
  BY DEF PInit, Init, FreshJob, RunningHasPipelineInLife, RunningHasPipeline, Running
<1> QED BY <1>1, RunningStep, PipelineWellFormed, PTL DEF Spec

-----------------------------------------------------------------------------
(* VideoPipeline implements VideoLifecycle                                 *)

LEMMA PipelineLifecycleStep ==
    PTypeOK /\ SlotsOK /\ [PNext]_vars => [Lifecycle!Next]_Lifecycle!vars
<1> SUFFICES ASSUME PTypeOK, SlotsOK, [PNext]_vars
             PROVE  [Lifecycle!Next]_Lifecycle!vars
  OBVIOUS
<1>0. TypeOK
  BY DEF PTypeOK
<1>q. ASSUME [QueueNext]_queueVars PROVE [Lifecycle!Next]_Lifecycle!vars
  BY <1>0, <1>q, LifecycleStep
<1>1. CASE UNCHANGED queueVars
  BY <1>q, <1>1
<1>2. ASSUME NEW r \in Runs, Advances(r) PROVE UNCHANGED Lifecycle!vars
  <2>1. CASE runs[r].job \in Jobs
    BY <1>0, <1>2, <2>1, MovesNowhere DEF Advances
  <2> QED BY <1>2, <2>1, LiveHasJob DEF Advances
<1>3. ASSUME NEW r \in Runs, Finishes(r) PROVE [Lifecycle!Next]_Lifecycle!vars
  <2> DEFINE j == runs[r].job
  <2>1. j \in Jobs
    BY <1>3, FinishesFrees
  <2>2. CASE job' = job
    BY <2>2 DEF Lifecycle!vars
  <2>3. CASE /\ Mutable(job, j) /\ job[j].retryCount < MaxRetries
             /\ MovesTo(job, job', j, "queued", job[j].retryCount + 1)
    BY <1>0, <2>1, <2>3, MovesAreSteps DEF Lifecycle!Next
  <2>4. CASE /\ Mutable(job, j)
             /\ \E s \in {"failed", "completed"} : MovesTo(job, job', j, s, job[j].retryCount)
    BY <1>0, <2>1, <2>4, MovesAreSteps DEF Lifecycle!Next, Terminal
  <2> QED BY <1>3, <2>2, <2>3, <2>4 DEF Finishes
<1>4. ASSUME NEW j \in Jobs, Starts(j) PROVE QueueNext
  BY <1>4 DEF Starts, StartJob, QueueNext, untouched
<1>5. ASSUME NEW j \in Jobs, NEW c \in ClientRequests \cup {NoClientRequest},
             Submits(j, c)
      PROVE  QueueNext
  BY <1>5 DEF Submits, QueueNext
<1>6. ASSUME NEW j \in Jobs, CancelRoute(j) PROVE QueueNext
  BY <1>6 DEF CancelRoute, QueueNext
<1>7. ASSUME NEW j \in Jobs, NEW s \in StageIds, ResumeRoute(j, s) PROVE QueueNext
  BY <1>7 DEF ResumeRoute, QueueNext
<1>8. ASSUME NEW j \in Jobs, EvictionTimer(j) PROVE QueueNext
  BY <1>8 DEF EvictionTimer, QueueNext
<1>9. Crash \/ Quiet \/ UNCHANGED vars \/ (\E j \in Jobs : Rejoins(j)) => UNCHANGED job
  BY DEF Crash, Quiet, vars, queueVars, Rejoins
<1>10. UNCHANGED job => UNCHANGED Lifecycle!vars
  BY DEF Lifecycle!vars
<1>11. RestartProcess => QueueNext
  BY DEF RestartProcess, QueueNext
<1> QED BY <1>q, <1>2, <1>3, <1>4, <1>5, <1>6, <1>7, <1>8, <1>9, <1>10, <1>11,
          PipelineNext DEF Lifecycle!Next

(* The pipelines, timers and routes together implement the abstract job    *)
(* lifecycle, whatever overlaps, is cancelled, is resumed or crashes.      *)
THEOREM PipelineImplementsLifecycle == Spec => LifecycleSpec
<1>1. PInit => Lifecycle!Init
  BY DEF PInit, Init, FreshJob, Lifecycle!Init
<1> QED
  BY <1>1, PipelineLifecycleStep, PipelineWellFormed, PTL
     DEF Spec, LifecycleSpec, Lifecycle!Spec

(* A step of the lifecycle starts a job only while none is running.        *)
LEMMA LifecycleKeepsLock ==
    ASSUME TypeOK, TypeOK', SingleVideoLock, [Lifecycle!Next]_Lifecycle!vars
    PROVE  SingleVideoLock'
<1> SUFFICES ASSUME NEW j \in Jobs, NEW k \in Jobs,
                    job'[j].status = "running", job'[k].status = "running"
             PROVE  j = k
  BY DEF SingleVideoLock, Running
<1> DEFINE st == [i \in Jobs |-> job[i].status]
<1>1. \A i \in Jobs : st[i] = job[i].status /\ st'[i] = job'[i].status
  OBVIOUS
<1>2. \A a, b \in Jobs : st[a] = "running" /\ st[b] = "running" => a = b
  BY <1>1 DEF SingleVideoLock, Running
<1>3. CASE UNCHANGED st
  BY <1>1, <1>2, <1>3
<1>4. ASSUME NEW i \in Jobs, NEW s, st' = [st EXCEPT ![i] = s], s # "running"
      PROVE  j = k
  BY <1>1, <1>2, <1>4
<1>5. ASSUME NEW i \in Jobs, st' = [st EXCEPT ![i] = "running"],
             \A a \in Jobs : st[a] # "running"
      PROVE  j = k
  BY <1>1, <1>5
<1>6. \/ UNCHANGED st
      \/ \E i \in Jobs : \E s \in {"queued", "gone"} \cup Lifecycle!Terminal :
            st' = [st EXCEPT ![i] = s]
      \/ \E i \in Jobs : /\ st' = [st EXCEPT ![i] = "running"]
                         /\ \A a \in Jobs : st[a] # "running"
  BY DEF Lifecycle!Next, Lifecycle!vars, Lifecycle!Submit, Lifecycle!Start, Lifecycle!Requeue,
         Lifecycle!Finish, Lifecycle!Resume, Lifecycle!Evict, Lifecycle!Move
<1> QED BY <1>3, <1>4, <1>5, <1>6 DEF Lifecycle!Terminal

(* The SINGLE-VIDEO LOCK holds whatever pipelines overlap: no two jobs are *)
(* "running" at once, across resumes, episodes, timers and restarts.       *)
THEOREM PipelineSingleVideoLock == Spec => []SingleVideoLock
<1>1. PInit => SingleVideoLock
  BY DEF PInit, Init, FreshJob, SingleVideoLock, Running
<1>2. PTypeOK /\ PTypeOK' /\ SlotsOK /\ SingleVideoLock /\ [PNext]_vars => SingleVideoLock'
  BY PipelineLifecycleStep, LifecycleKeepsLock DEF PTypeOK
<1> QED BY <1>1, <1>2, PipelineWellFormed, PTL DEF Spec

-----------------------------------------------------------------------------
(* The SINGLE-VIDEO LOCK protects the pipelines                            *)

(* It does so as long as nothing but the lock starts a pipeline and        *)
(* nothing but the pipeline ends its job: a pipeline alive has a "running" *)
(* job, so the lock is taken.                                              *)
PipelineHasRunning ==
    AtMostOnePipeline /\ \A r \in Live : job[runs[r].job].status = "running"

LEMMA ExclusiveStep ==
    ASSUME CancelAllowed = FALSE, Episodes = {}
    PROVE  PTypeOK /\ SlotsOK /\ PipelineHasRunning /\ [PNext]_vars => PipelineHasRunning'
<1> SUFFICES ASSUME PTypeOK, SlotsOK, PipelineHasRunning, [PNext]_vars
             PROVE  PipelineHasRunning'
  OBVIOUS
<1> USE DEF PipelineHasRunning, AtMostOnePipeline, Live
<1>0. \A r \in Live : runs[r].job \in Jobs
  BY LiveHasJob
<1>1. CASE UNCHANGED vars
  BY <1>1 DEF vars
<1>2. ASSUME NEW r \in Runs, Advances(r) PROVE PipelineHasRunning'
  BY <1>0, <1>2, AdvancesKeeps
<1>3. ASSUME NEW r \in Runs, Finishes(r) PROVE PipelineHasRunning'
  <2>1. Live = {r}
    BY <1>3, FinishesFrees
  <2>2. Live' = {}
    BY <1>3, <2>1, FinishesFrees DEF IdleRun
  <2> QED BY <2>2
<1>4. ASSUME NEW j \in Jobs, Starts(j) PROVE PipelineHasRunning'
  <2>1. Live = {}
    BY <1>0, <1>4, StartsOne DEF Running
  <2>2. PICK r \in Runs : runs'[r].job = j /\ \A q \in Runs \ {r} : runs'[q] = runs[q]
    BY <1>4, BeginsOne DEF Starts
  <2>3. Live' \subseteq {r}
    BY <2>1, <2>2
  <2> QED BY <1>4, <2>2, <2>3, StartsOne
<1>5. ASSUME NEW j \in Jobs, NEW c \in ClientRequests \cup {NoClientRequest},
             Submits(j, c)
      PROVE  PipelineHasRunning'
  <2>1. UNCHANGED runs
    BY <1>5 DEF Submits
  <2> QED BY <1>0, <1>5, <2>1, SubmitsOne
<1>6. ASSUME NEW j \in Jobs, CancelRoute(j) PROVE FALSE
  BY <1>6 DEF CancelRoute
<1>7. ASSUME NEW j \in Jobs, NEW s \in StageIds, ResumeRoute(j, s)
      PROVE  PipelineHasRunning'
  BY <1>0, <1>7, ResumesOne DEF Terminal
<1>8. ASSUME NEW j \in Jobs, EvictionTimer(j) PROVE PipelineHasRunning'
  BY <1>0, <1>8, EvictsOne DEF Terminal
<1>9. Crash \/ RestartProcess => Live' = {}
  BY DEF Crash, RestartProcess, ForgetCallbacks, IdleRun
<1>10. CASE Quiet
  BY <1>10 DEF Quiet
<1>11. ~\E j \in Jobs : Rejoins(j)
  BY DEF Rejoins
<1> QED BY <1>1, <1>2, <1>3, <1>4, <1>5, <1>6, <1>7, <1>8, <1>9, <1>10, <1>11,
          PipelineNext

(* "The pipeline runs one job at a time": true, through every failure,     *)
(* retry, resume, eviction and crash, of clients that cancel no job and    *)
(* start no episode.                                                       *)
THEOREM PipelineExclusive ==
    ASSUME CancelAllowed = FALSE, Episodes = {}
    PROVE  Spec => []AtMostOnePipeline
<1>1. PInit => PipelineHasRunning
  BY DEF PInit, IdleRun, PipelineHasRunning, AtMostOnePipeline, Live
<1>2. PTypeOK /\ SlotsOK /\ PipelineHasRunning /\ [PNext]_vars => PipelineHasRunning'
  BY ExclusiveStep
<1>3. PipelineHasRunning => AtMostOnePipeline
  BY DEF PipelineHasRunning
<1> QED BY <1>1, <1>2, <1>3, PipelineWellFormed, PTL DEF Spec

-----------------------------------------------------------------------------
(* Cancelled pipelines                                                     *)

(* A pipeline whose job was cancelled still has a job that is over.        *)
CancelledIsOver ==
    \A r \in Runs : runs[r].cancelled => job[runs[r].job].status \in {"cancelled", "gone"}

LEMMA CancelledStep ==
    ASSUME MaxRetryCount = 0
    PROVE  PTypeOK /\ SlotsOK /\ CancelledIsOver /\ [PNext]_vars => CancelledIsOver'
<1> SUFFICES ASSUME PTypeOK, SlotsOK, CancelledIsOver, [PNext]_vars,
                    NEW q \in Runs, runs'[q].cancelled
             PROVE  job'[runs'[q].job].status \in {"cancelled", "gone"}
  BY DEF CancelledIsOver
<1> USE DEF CancelledIsOver
<1>0. runs[q].cancelled => runs[q].pc # "idle" /\ runs[q].job \in Jobs
  BY LiveHasJob DEF SlotsOK, SlotOK
<1>i. ~IdleRun.cancelled
  BY DEF IdleRun
<1>1. CASE UNCHANGED vars
  BY <1>1 DEF vars
<1>2. ASSUME NEW r \in Runs, Advances(r)
      PROVE  job'[runs'[q].job].status \in {"cancelled", "gone"}
  BY <1>0, <1>2, AdvancesKeeps
<1>3. ASSUME NEW r \in Runs, Finishes(r)
      PROVE  job'[runs'[q].job].status \in {"cancelled", "gone"}
  <2>1. q # r /\ runs'[q] = runs[q]
    BY <1>3, <1>i, FinishesFrees
  <2>2. CASE job' = job
    BY <2>1, <2>2
  <2>3. CASE Mutable(job, runs[r].job)
    <3>1. runs[q].job # runs[r].job
      BY <2>1, <2>3 DEF Mutable, Active, Queued, Running
    <3> QED BY <1>0, <1>3, <2>1, <3>1, FinishesFrees
  <2> QED BY <1>3, <2>2, <2>3 DEF Finishes
<1>4. ASSUME NEW j \in Jobs, Starts(j)
      PROVE  job'[runs'[q].job].status \in {"cancelled", "gone"}
  <2>1. runs'[q] = runs[q]
    BY <1>4, BeginsOne DEF Starts
  <2> QED BY <1>0, <1>4, <2>1, StartsOne
<1>5. ASSUME NEW j \in Jobs, NEW c \in ClientRequests \cup {NoClientRequest},
             Submits(j, c)
      PROVE  job'[runs'[q].job].status \in {"cancelled", "gone"}
  <2>1. runs'[q] = runs[q]
    BY <1>5, BeginsOne DEF Submits
  <2> QED BY <1>0, <1>5, <2>1, SubmitsOne
<1>6. ASSUME NEW j \in Jobs, CancelRoute(j)
      PROVE  job'[runs'[q].job].status \in {"cancelled", "gone"}
  BY <1>0, <1>6, CancelsOne
<1>7. ASSUME NEW j \in Jobs, NEW s \in StageIds, ResumeRoute(j, s) PROVE FALSE
  BY <1>7, NoResume
<1>8. ASSUME NEW j \in Jobs, EvictionTimer(j)
      PROVE  job'[runs'[q].job].status \in {"cancelled", "gone"}
  BY <1>0, <1>8, EvictsOne
<1>9. ~Crash /\ ~RestartProcess
  BY <1>i DEF Crash, RestartProcess, ForgetCallbacks
<1>10. CASE Quiet
  BY <1>10 DEF Quiet
<1>11. ASSUME NEW j \in Jobs, Rejoins(j)
       PROVE  job'[runs'[q].job].status \in {"cancelled", "gone"}
  <2>1. runs'[q] = runs[q] /\ job' = job
    BY <1>11, BeginsOne DEF Rejoins, queueVars
  <2> QED BY <2>1
<1> QED BY <1>1, <1>2, <1>3, <1>4, <1>5, <1>6, <1>7, <1>8, <1>9, <1>10, <1>11,
          PipelineNext

(* One step of a pipeline whose job is over enters no stage.               *)
LEMMA OverEntersNoStage ==
    ASSUME PTypeOK, SlotsOK, CancelledIsOver, [PNext]_vars, NEW q \in Runs,
           runs[q].cancelled, runs'[q].job = runs[q].job
    PROVE  runs'[q].stage = runs[q].stage
<1>0. runs[q].pc # "idle" /\ runs[q].job \in Jobs /\ runs[q].job # NoJob
  BY LiveHasJob, PipelineAssumption DEF SlotsOK, SlotOK
<1>i. IdleRun.job = NoJob
  BY DEF IdleRun
<1>1. CASE UNCHANGED vars
  BY <1>1 DEF vars
<1>2. ASSUME NEW r \in Runs, Advances(r) PROVE runs'[q].stage = runs[q].stage
  <2>1. CASE q # r
    BY <1>2, <2>1, AdvancesKeeps
  <2>2. CASE q = r
    <3>1. ~Mutable(job, runs[q].job)
      BY DEF CancelledIsOver, Mutable, Active, Queued, Running
    <3>2. PICK u \in Run : /\ u.stage # runs[r].stage => Mutable(job, runs[r].job)
                           /\ runs' = [runs EXCEPT ![r] = u]
      BY <1>2 DEF Advances
    <3> QED BY <2>2, <3>1, <3>2 DEF PTypeOK, PipelineTypeOK
  <2> QED BY <2>1, <2>2
<1>3. ASSUME NEW r \in Runs, Finishes(r) PROVE runs'[q].stage = runs[q].stage
  BY <1>0, <1>3, <1>i, FinishesFrees
<1>4. ASSUME NEW j \in Jobs, Begins(j) PROVE runs'[q].stage = runs[q].stage
  BY <1>0, <1>4, BeginsOne
<1>5. ASSUME NEW j \in Jobs, CancelRoute(j) PROVE runs'[q].stage = runs[q].stage
  BY <1>5, CancelsOne
<1>6. ~Crash /\ ~RestartProcess
  BY <1>0, <1>i DEF Crash, RestartProcess, ForgetCallbacks
<1>7. CASE UNCHANGED runs
  BY <1>7
<1> QED BY <1>1, <1>2, <1>3, <1>4, <1>5, <1>6, <1>7, PipelineNext
        DEF Starts, Submits, Rejoins, ResumeRoute, EvictionTimer, Quiet

(* "At any stage boundary, a cancelled job is aborted and no further       *)
(* stages run": true of any interleaving, as long as no client resumes a   *)
(* job.                                                                    *)
THEOREM CancelledPipelineEntersNoStage ==
    ASSUME MaxRetryCount = 0
    PROVE  Spec => CancelledRunEntersNoStage
<1>1. PInit => CancelledIsOver
  BY DEF PInit, IdleRun, CancelledIsOver
<1>2. PTypeOK /\ SlotsOK /\ CancelledIsOver /\ [PNext]_vars => CancelledIsOver'
  BY CancelledStep
<1>3. PTypeOK /\ SlotsOK /\ CancelledIsOver /\ [PNext]_vars =>
        [\A r \in Runs : runs[r].cancelled /\ runs'[r].job = runs[r].job
                           => runs'[r].stage = runs[r].stage]_vars
  BY OverEntersNoStage
<1> QED BY <1>1, <1>2, <1>3, PipelineWellFormed, PTL DEF Spec, CancelledRunEntersNoStage

-----------------------------------------------------------------------------
(* Each pipeline has its job to itself                                     *)

(* Without resumes and episodes a job never has two pipelines, and the one *)
(* it has finds it "running" unless a client cancelled it.                 *)
OwnsJob ==
    /\ \A r \in Live : job[runs[r].job].status \in {"running", "cancelled", "gone"}
    /\ \A r, q \in Live : runs[r].job = runs[q].job => r = q

NotEvicted == \A r \in Live : job[runs[r].job].status # "gone"

LEMMA LiveJobs ==
    ASSUME PTypeOK, SlotsOK
    PROVE  \A r \in Live : r \in Runs /\ runs[r].pc # "idle" /\ runs[r].job \in Jobs
BY LiveHasJob DEF Live

LEMMA ProcessEnds ==
    ASSUME Crash \/ RestartProcess
    PROVE  Live' = {} /\ job' = job /\ process' # "rejected"
BY DEF Crash, RestartProcess, Restart, ForgetCallbacks, IdleRun, Live, queueVars

LEMMA AdvancesLive ==
    ASSUME PTypeOK, SlotsOK, NEW r \in Runs, Advances(r)
    PROVE  Live' = Live /\ r \in Live
BY AdvancesKeeps DEF Live, Advances

LEMMA FinishesLive ==
    ASSUME PTypeOK, SlotsOK, NEW r \in Runs, Finishes(r)
    PROVE  Live' = Live \ {r} /\ r \in Live
BY FinishesFrees DEF Live, IdleRun

LEMMA StartsLive ==
    ASSUME PTypeOK, SlotsOK, NEW j \in Jobs, Starts(j)
    PROVE  \E r \in Runs \ Live :
             /\ Live' = Live \cup {r}
             /\ runs'[r].job = j
             /\ \A q \in Live : runs'[q] = runs[q]
BY BeginsOne DEF Starts, Live

LEMMA OwnsStep ==
    ASSUME MaxRetryCount = 0, Episodes = {}
    PROVE  PTypeOK /\ SlotsOK /\ OwnsJob /\ [PNext]_vars => OwnsJob'
<1> SUFFICES ASSUME PTypeOK, SlotsOK, OwnsJob, [PNext]_vars
             PROVE  OwnsJob'
  OBVIOUS
<1> USE DEF OwnsJob
<1>0. \A r \in Live : r \in Runs /\ runs[r].job \in Jobs
  BY LiveJobs
<1>1. CASE UNCHANGED vars
  BY <1>1 DEF vars, Live
<1>2. ASSUME NEW r \in Runs, Advances(r) PROVE OwnsJob'
  BY <1>0, <1>2, AdvancesKeeps, AdvancesLive
<1>3. ASSUME NEW r \in Runs, Finishes(r) PROVE OwnsJob'
  <2>1. \A q \in Live' : q \in Live /\ q # r /\ runs'[q] = runs[q]
    BY <1>0, <1>3, FinishesFrees, FinishesLive
  <2>2. \A q \in Live' : runs[q].job # runs[r].job
    BY <1>3, <2>1, FinishesLive
  <2> QED BY <1>0, <1>3, <2>1, <2>2, FinishesFrees
<1>4. ASSUME NEW j \in Jobs, Starts(j) PROVE OwnsJob'
  <2>1. \A q \in Live : runs[q].job # j
    BY <1>4, StartsOne
  <2> QED BY <1>0, <1>4, <2>1, StartsLive, StartsOne
<1>5. ASSUME NEW j \in Jobs, NEW c \in ClientRequests \cup {NoClientRequest},
             Submits(j, c)
      PROVE  OwnsJob'
  <2>1. UNCHANGED runs
    BY <1>5 DEF Submits
  <2>2. \A q \in Live : runs[q].job # j
    BY <1>5, SubmitsOne
  <2> QED BY <1>0, <1>5, <2>1, <2>2, SubmitsOne DEF Live
<1>6. ASSUME NEW j \in Jobs, CancelRoute(j) PROVE OwnsJob'
  <2>1. Live' = Live /\ \A q \in Live : runs'[q].job = runs[q].job
    BY <1>6, CancelsOne DEF Live
  <2> QED BY <1>0, <1>6, <2>1, CancelsOne
<1>7. ASSUME NEW j \in Jobs, NEW s \in StageIds, ResumeRoute(j, s) PROVE FALSE
  BY <1>7, NoResume
<1>8. ASSUME NEW j \in Jobs, EvictionTimer(j) PROVE OwnsJob'
  BY <1>0, <1>8, EvictsOne DEF Live
<1>9. Crash \/ RestartProcess => OwnsJob'
  BY ProcessEnds
<1>10. CASE Quiet
  BY <1>10 DEF Quiet, Live
<1>11. ~\E j \in Jobs : Rejoins(j)
  BY DEF Rejoins
<1> QED BY <1>1, <1>2, <1>3, <1>4, <1>5, <1>6, <1>7, <1>8, <1>9, <1>10, <1>11,
          PipelineNext

LEMMA RejectionStep ==
    ASSUME MaxRetryCount = 0, Episodes = {}, EvictionAllowed = FALSE
    PROVE  PTypeOK /\ SlotsOK /\ OwnsJob /\ NotEvicted /\ NoUnhandledRejection
             /\ [PNext]_vars
           => NotEvicted' /\ NoUnhandledRejection'
<1> SUFFICES ASSUME PTypeOK, SlotsOK, OwnsJob, NotEvicted, NoUnhandledRejection,
                    [PNext]_vars
             PROVE  NotEvicted' /\ NoUnhandledRejection'
  OBVIOUS
<1> USE DEF NotEvicted, NoUnhandledRejection
<1>0. \A r \in Live : r \in Runs /\ runs[r].job \in Jobs
  BY LiveJobs
<1>e. UNCHANGED env => process' = process
  BY DEF env
<1>1. CASE UNCHANGED vars
  BY <1>1 DEF vars, Live
<1>2. ASSUME NEW r \in Runs, Advances(r) PROVE NotEvicted' /\ NoUnhandledRejection'
  <2>1. UNCHANGED env
    BY <1>2 DEF Advances
  <2> QED BY <1>0, <1>2, <1>e, <2>1, AdvancesKeeps, AdvancesLive
<1>3. ASSUME NEW r \in Runs, Finishes(r) PROVE NotEvicted' /\ NoUnhandledRejection'
  <2>1. \A q \in Live' : q \in Live /\ q # r /\ runs'[q] = runs[q]
    BY <1>0, <1>3, FinishesFrees, FinishesLive
  <2>2. \A q \in Live' : runs[q].job # runs[r].job
    BY <1>3, <2>1, FinishesLive DEF OwnsJob
  <2>3. NotEvicted'
    BY <1>0, <1>3, <2>1, <2>2, FinishesFrees
  <2>4. job[runs[r].job].status \in {"running", "cancelled"}
    BY <1>3, FinishesLive DEF OwnsJob
  <2>5. Mutable(job, runs[r].job) \/ job[runs[r].job].status = "cancelled"
    BY <1>3, <2>4, FinishesFrees DEF Mutable, Active, Running
  <2>6. process' = process
    BY <1>3, <2>5 DEF Finishes
  <2> QED BY <2>3, <2>6
<1>4. ASSUME NEW j \in Jobs, Starts(j) PROVE NotEvicted' /\ NoUnhandledRejection'
  <2>1. process' = process
    BY <1>4 DEF Starts
  <2>2. \A q \in Live : runs[q].job # j
    BY <1>4, StartsOne DEF OwnsJob
  <2> QED BY <1>0, <1>4, <2>1, <2>2, StartsLive, StartsOne
<1>5. ASSUME NEW j \in Jobs, NEW c \in ClientRequests \cup {NoClientRequest},
             Submits(j, c)
      PROVE  NotEvicted' /\ NoUnhandledRejection'
  <2>1. UNCHANGED runs /\ process' = process
    BY <1>5 DEF Submits
  <2> QED BY <1>0, <1>5, <2>1, SubmitsOne DEF Live
<1>6. ASSUME NEW j \in Jobs, CancelRoute(j) PROVE NotEvicted' /\ NoUnhandledRejection'
  <2>1. Live' = Live /\ \A q \in Live : runs'[q].job = runs[q].job
    BY <1>6, CancelsOne DEF Live
  <2>2. UNCHANGED env
    BY <1>6 DEF CancelRoute
  <2> QED BY <1>0, <1>6, <1>e, <2>1, <2>2, CancelsOne
<1>7. ASSUME NEW j \in Jobs, NEW s \in StageIds, ResumeRoute(j, s) PROVE FALSE
  BY <1>7, NoResume
<1>8. ASSUME NEW j \in Jobs, EvictionTimer(j) PROVE FALSE
  BY <1>8, EvictsOne
<1>9. Crash \/ RestartProcess => NotEvicted' /\ NoUnhandledRejection'
  BY ProcessEnds
<1>10. CASE Quiet
  BY <1>10, <1>e DEF Quiet, Live
<1>11. ~\E j \in Jobs : Rejoins(j)
  BY DEF Rejoins
<1> QED BY <1>1, <1>2, <1>3, <1>4, <1>5, <1>6, <1>7, <1>8, <1>9, <1>10, <1>11,
          PipelineNext

(* Cancellations, failures, retry timers and crashes in any order end in   *)
(* no unhandled rejection, of clients that resume nothing and start no     *)
(* episode, within JOB_TTL_MS.                                             *)
THEOREM PipelineRejectsNothing ==
    ASSUME MaxRetryCount = 0, Episodes = {}, EvictionAllowed = FALSE
    PROVE  Spec => []NoUnhandledRejection
<1> DEFINE I == OwnsJob /\ NotEvicted /\ NoUnhandledRejection
<1>1. PInit => I
  BY DEF PInit, IdleRun, OwnsJob, NotEvicted, NoUnhandledRejection, Live
<1>2. PTypeOK /\ SlotsOK /\ I /\ [PNext]_vars => I'
  BY OwnsStep, RejectionStep
<1>3. I => NoUnhandledRejection
  OBVIOUS
<1> HIDE DEF I
<1> QED BY <1>1, <1>2, <1>3, PipelineWellFormed, PTL DEF Spec

-----------------------------------------------------------------------------
(* No lost wake-up                                                         *)

(* While no client cancels or resumes and the process lives, every step    *)
(* that leaves the lock free leaves a callback for a job that waits.       *)
LEMMA WakeStep ==
    ASSUME CancelAllowed = FALSE, Episodes = {}, MaxRetryCount = 0, MaxCrashes = 0
    PROVE  PTypeOK /\ SlotsOK /\ SomebodyWoken /\ crashes = 0 /\ [PNext]_vars
             => SomebodyWoken' /\ crashes' = 0
<1> SUFFICES ASSUME PTypeOK, SlotsOK, SomebodyWoken, crashes = 0, [PNext]_vars
             PROVE  SomebodyWoken' /\ crashes' = 0
  OBVIOUS
<1>k. ASSUME Queued(job') = Queued(job), Running(job') = Running(job), UNCHANGED callbacks
      PROVE  SomebodyWoken'
  BY <1>k DEF SomebodyWoken, Woken, callbacks
<1>e. UNCHANGED env => crashes' = 0
  BY DEF env
<1>1. CASE UNCHANGED vars
  BY <1>1 DEF vars, SomebodyWoken, Woken
<1>2. ASSUME NEW r \in Runs, Advances(r) PROVE SomebodyWoken' /\ crashes' = 0
  <2>1. UNCHANGED <<callbacks, env>>
    BY <1>2 DEF Advances
  <2>2. Queued(job') = Queued(job) /\ Running(job') = Running(job)
    BY <1>2, AdvancesKeeps DEF Queued, Running
  <2> QED BY <1>k, <1>e, <2>1, <2>2
<1>3. ASSUME NEW r \in Runs, Finishes(r) PROVE SomebodyWoken' /\ crashes' = 0
  BY <1>3 DEF Finishes, untouched
<1>4. ASSUME NEW j \in Jobs, Starts(j) PROVE SomebodyWoken' /\ crashes' = 0
  <2>1. j \in Running(job')
    BY <1>4, StartsOne DEF Running
  <2> QED BY <1>4, <2>1 DEF SomebodyWoken, Starts, untouched
<1>5. ASSUME NEW j \in Jobs, NEW c \in ClientRequests \cup {NoClientRequest},
             Submits(j, c)
      PROVE  SomebodyWoken' /\ crashes' = 0
  <2>1. Woken(j)' /\ crashes' = crashes
    BY <1>5 DEF Submits
  <2>2. j \in Queued(job')
    BY <1>5, SubmitsOne DEF Queued
  <2> QED BY <2>1, <2>2 DEF SomebodyWoken
<1>6. ASSUME NEW j \in Jobs, CancelRoute(j) PROVE FALSE
  BY <1>6 DEF CancelRoute
<1>7. ASSUME NEW j \in Jobs, NEW s \in StageIds, ResumeRoute(j, s) PROVE FALSE
  BY <1>7, NoResume
<1>8. ASSUME NEW j \in Jobs, EvictionTimer(j) PROVE SomebodyWoken' /\ crashes' = 0
  <2>1. UNCHANGED <<callbacks, env>>
    BY <1>8 DEF EvictionTimer
  <2>2. Queued(job') = Queued(job) /\ Running(job') = Running(job)
    BY <1>8, EvictsOne DEF Queued, Running, Terminal
  <2> QED BY <1>k, <1>e, <2>1, <2>2
<1>9. ~Crash /\ ~RestartProcess
  BY DEF Crash, RestartProcess
<1>10. CASE Quiet
  <2>1. job' = job /\ WakesKept /\ UNCHANGED env
    BY <1>10 DEF Quiet
  <2>2. ASSUME Running(job) = {}, NEW n \in Queued(job), Woken(n) PROVE Woken(n)'
    BY <2>1, <2>2 DEF WakesKept, CanStart, Queued
  <2> QED BY <1>e, <2>1, <2>2 DEF SomebodyWoken
<1>11. ~\E j \in Jobs : Rejoins(j)
  BY DEF Rejoins
<1> QED BY <1>1, <1>2, <1>3, <1>4, <1>5, <1>6, <1>7, <1>8, <1>9, <1>10, <1>11,
          PipelineNext

(* Within one life of the process, of clients that cancel and resume       *)
(* nothing and start no episode, no queued job is ever left without a      *)
(* pipeline or a callback that leads to it.                                *)
THEOREM PipelineStrandsNobody ==
    ASSUME CancelAllowed = FALSE, Episodes = {}, MaxRetryCount = 0, MaxCrashes = 0
    PROVE  Spec => []NoStrandedQueue
<1> DEFINE I == SomebodyWoken /\ crashes = 0
<1>1. PInit => I
  BY DEF PInit, Init, FreshJob, SomebodyWoken, Queued
<1>2. PTypeOK /\ SlotsOK /\ I /\ [PNext]_vars => I'
  BY WakeStep
<1>3. I /\ RunningHasPipelineInLife => NoStrandedQueue
  BY DEF SomebodyWoken, RunningHasPipelineInLife, RunningHasPipeline, NoStrandedQueue
<1> HIDE DEF I
<1> QED BY <1>1, <1>2, <1>3, PipelineHoldsLock, PipelineWellFormed, PTL DEF Spec
=============================================================================
