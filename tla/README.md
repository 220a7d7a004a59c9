# SwarmXQ: a verification project

TLA+ models of the parts of SwarmXQ whose correctness depends on order: the
queue and pipeline of video jobs in `apps/swarmx-api`, in memory and over BullMQ;
the orchestrator that decides which language model may be in memory; the series
engine; the circuit breakers of the model calls; and the job queue of the Python
server. TLC checks them on small instances, TLAPS proves the central invariants
for every value of the constants.

Everything is translated from the TypeScript and Python source. Paths below are
relative to the repository. `Q` stands for
`apps/swarmx-api/src/services/video-queue.ts`, `O` for `.../services/video-orchestrator.ts`,
`R` for `apps/swarmx-api/src/routes/video.ts`, `S` for `.../routes/series.ts`,
`M` for `.../services/model-orchestrator.ts`.

## 1. Inventory of the system

| Component | State it keeps | Operations | Module |
|---|---|---|---|
| Video job registry (`Q`) | Map of jobs, snapshot on disk, TTL timers | enqueue, startJob, recordStageProgress, completeStage, completeJob, failJob, setRetrySchedule, cancelJob, dequeueNext, reprioritizeQueue, resumeJob, hydrate, TTL eviction | `VideoQueue` |
| Video orchestrator (`O`) | none of its own: promises, `setImmediate` callbacks, retry timers, abort controllers | runOrchestration, runStage, catch/finally, cancelWatcher, scheduleNextQueuedJob | `VideoPipeline` |
| Video routes (`R`) and the produce route (`S`) | none | submit, cancel, resume, reprioritize, produce an episode | `VideoPipeline` |
| API process (`server.ts`) | the process itself | start and hydrate, exit on unhandledRejection | `VideoPipeline` |
| BullMQ worker (`workers/video-worker.ts`) | a Redis queue of its own | add (not awaited), deliver, restore, retry, stalled redelivery | `VideoWorker` |
| Model orchestrator (`M`) | active models, active 7B, mode, RAM reading, inFlightEviction, pendingWarmup | requestModel, evictIncompatible, _evictModel, unloadModel, onModelCallComplete, syncFromOllama, preload, setMode | `ModelOrchestrator` |
| Series engine (`series-registry.ts`, `video-series-planner.ts`, `video-episode-preproducer.ts`, `S`) | Map of series with pass marks, a record per episode, snapshot | create and plan, pre-produce, rerun one pass, produce, delete, expire, hydrate | `SeriesPlanning` |
| Circuit breakers (`adaptive-timeout-config.ts`, `routes/composer.ts`) | a circuit per canonical model, one for the composer | ask, record a success, record a failure | `CircuitBreaker` |
| Composer attempt loop (`routes/composer.ts`), virality and caption services | per request: model, attempt | try, back off, next candidate, fall back | `CircuitBreaker` |
| Python job queue (`src/swarmx/queue.py`, `storage.py`, `worker.py`, `server.py`) | jobs table, each status in a column and in a payload; worker threads | append, update, claim a resume job, claim the next job, process, request handlers | `PythonQueue` |
| Durable store (`local-state-store.ts`) | JSON snapshots, JSONL journal | write, read, append | as the snapshot only |
| Creative factory, SSE and WebSocket plugins, pressure monitor, rendering and publishing adapters, Python planning and evolution scripts, dashboard, installers | see section 6 | | no |

How they interact. A route mutates the registry synchronously and hands a job to
the orchestrator through `setImmediate`; the orchestrator's pipeline awaits
pressure probes, model calls and renders, and writes its progress to the
registry between the awaits. The end of a pipeline is what wakes the rest of the
queue (`scheduleNextQueuedJob`), unless the job will be retried, in which case a
timer is armed instead. Cancellation reaches a pipeline only through the job's
status, polled every 500 ms and read at stage boundaries. Where Redis answers,
BullMQ delivers the same jobs to a worker in the same process, beside all of
this. The series engine awaits one model call per pass and produces episodes by
submitting video jobs. Each text stage, the composer and the scoring services ask
a circuit and the singleton model orchestrator before they call Ollama on their
own. After every operation the registries are rewritten to disk; the next process
reads them back. The Python server shares nothing with the API: its threads meet
in its database.

What is hard: the API is one Node thread, so there are no data races, but every
`await` is a place where cancels, resumes, evictions, other pipelines, other
callers and the death of the process interleave. The Python server is threaded,
and atomic only within one database operation. The hazards are listed, line by
line, in `PROJECT.json`.

What makes each component correct:

* registry: only legal transitions of a job's status, one job `running` at a
  time, the retry budget, no countdown on a job that does not wait;
* pipelines: at most one alive, a `running` job has a live pipeline, no queued job
  forgotten, cancellation stops the pipeline and never kills the process;
* BullMQ mode: the three dispatchers together forget no job, across a crash too,
  but those whose delivery and wake-up are both gone;
* model orchestrator: two 7B models never resident together, room for a model
  before it is loaded, bookkeeping that agrees with itself, no request that waits
  for ever;
* series: one planner and one pre-production at a time, a complete episode made of
  one script, a status that follows its lifecycle, passes that end;
* circuits: they open and close on streaks of outcomes, late outcomes neither
  bypass the threshold nor prolong an outage, requests are answered;
* Python queue: whoever is shown running is run by somebody, both copies of a
  status agree, a plain job runs once, a queued one is settled.

## 2. Modules

`VideoLifecycle` and `SeriesLifecycle` are the abstract promises: a status per job
(with its attempts) or per series (with its roadmap and the episodes produced) and
the few moves it may make. `VideoQueue`, `VideoPipeline` and `SeriesPlanning`
implement them through a refinement mapping.

`VideoQueue` is the registry. One action per exported operation: each is a
synchronous function, hence atomic; a call that throws or returns null is a
disabled action. `job` is the Map's values, `order` its iteration order (which
`reprioritizeQueue` rebuilds and `dequeueNext` uses to break ties), `cleanup` the
pending TTL timers. `clock` is a logical `now()` that may or may not move between
two enqueues, so that equal `createdAt` occur. What an operation makes of a record
(`Started`, `Failed`, ...) is an operator, so that the pipeline can apply several
operations in one step.

`VideoPipeline` extends it with the live calls of `runOrchestration` (`runs`), the
pending callbacks (`immediates`, FIFO; `retryTimers`, a count per job because they
are never cleared), the process, and the job last recorded for each episode
(`episodeJob`, the series' `videoJobIds`), which is all the produce route looks at. An action is what runs between two awaits: a
stage's end, its progress record, the next stage's abort check and its first
progress record are one action, as are the catch and finally blocks together.
`Crash` may come at any moment and `RestartProcess` keeps only what the snapshot
holds.

`VideoWorker` extends `VideoPipeline` with BullMQ: the state of each job there,
its rejected deliveries, how often it was found stalled, and the pipeline the worker
awaits. A submission arms no callback; it leaves an add under way (`"adding"`, because
`enqueue` does not await it, `Q:155`), which arrives, is rejected, which nobody
handles and ends the process, or dies with it. A delivery restores a job that is
over and runs its pipeline without `startJob()`. A pipeline step that settles the
promise decides whether BullMQ delivers again. A stall, or the death of the process,
delivers an active job again, once: the worker leaves `maxStalledCount` at its
default of 1, and the second time BullMQ fails the job and tells the registry
nothing. `lost` is a history variable with the unfinished jobs that BullMQ is done
with and that lost, in a crash or a cancellation, what would have started them, or
that were resumed afterwards.

`ModelOrchestrator` models one request per caller: `/api/ps` awaited, evictions
one by one (queued behind `inFlightEviction` as the code does), the grant, the
generation. Ollama is external: it loads what is generated with, never drops a
model in use, drops idle ones, and may fail to answer.

`SeriesPlanning`: a pass touches the registry before and after its one model call,
so an action is a route, or the end of a call with everything up to the next call.
Of a script, a prompt suite or an audio plan it keeps whether it exists and
whether it was made from the script the episode has now (`Derived`).

`CircuitBreaker` has the per-model circuits, the composer's own, and their
callers: composer requests (candidates, attempts, backoff) and services that ask
once. `streak`, a history variable, counts the outcomes in a row that were
recorded for a model. A tag may be an alias: aliases share a circuit.

`PythonQueue`: `row` holds a job's two statuses; a worker thread goes through the
four looks of a poll (column and payload, resume jobs first) and a handler through
the writes of its request, one action per database operation.

`MC*` modules hold what the configurations need, `*_proofs` the proofs. Operators
commented "Mutant of X" are never used by the specifications: they record a
plausible bug each, and replacing X by it makes the property named in
`PROJECT.json` fail.

Abstractions worth knowing. The seven video stages are `NumStages` alike ones; a
stage's work ends well or with one of four error kinds, of which only `transient`
is retryable, as in `toVideoJobError`; consecutive awaits without shared state are
one (`preflight`); the work of a stage that outlives its timeout is left out; an
answer of `/api/ps` is still true when it arrives; RAM is counted in units; a disk
write always succeeds. Time is a set of flags that turn (`recent`, `cooling`). In
`PythonQueue` the database works and is not empty, so `jobs.jsonl`, read only
otherwise, is left out; done, error, blocked and a run record's status are one,
`settled`.

## 3. Runs

| Run | Instance | Question |
|---|---|---|
| `queue_ops` | 2 jobs, 2 stages, every reordering, 1 resume | Do all operations in any order, with restarts and evictions, keep the lock, the schedules and the lifecycle? |
| `pipe_slot` | 3 jobs, 2 pipelines, capacity 2, 1 retry, fairness | Submissions, failures and pressure only: is the lock on statuses a lock on pipelines, is nobody stranded, does every queued job end? |
| `pipe_cancel` | 2 jobs, 2 pipelines, 2 stages, reorderings, cancels, fairness | Does a cancelled pipeline enter no further stage, stop, and leave the process alive? |
| `pipe_all` | 2 jobs, 2 pipelines, an episode, resumes, evictions, 1 crash | With everything at once but cancels: legal lifecycle steps, and no lock held by nobody within a process life? |
| `worker` | 1 job, 2 pipelines, BullMQ, an add that may fail, stalls, 1 crash, cancel, resume, eviction, an episode, fairness | Do the dispatchers together forget no job, and does a delivered job end? |
| `models_serial` | 1 caller, two 7B models and a small one, RAM from critical to normal | Are the 7B lock and the headroom rule kept? |
| `models_overlap` | 2 callers, two 7B models, probes, evictions and calls that fail or time out, speculative loads, fairness | Does the bookkeeping agree with itself, and is every request granted? |
| `series` | 1 series of 2 episodes, 2 model calls at once, reruns of passes 1, A and D, 1 crash, fairness | One planner, one pre-production, coherent results, the lifecycle, and an end to every pass? |
| `circuit` | 1 model with an alias, 2 requests, 1 service, thresholds 2, 2 attempts, fairness | Do circuits move on streaks only, do late errors leave the countdown alone, is every request answered? |
| `pyqueue` | 3 jobs of any kind, 1 worker, a window of 2, 1 crash, fairness | Are running jobs run by somebody, do the copies agree, does a plain job run once and a queued one end? |

Bounds. Two jobs are what an overlap or an overtaking needs; a third makes a queue
behind a running and a waiting job (`pipe_slot`). Two pipelines are enough to see
an overlap. One retry gives an attempt inside the budget and one at its end. Two
stages are the smallest number with a boundary in between; where boundaries do not
matter there is one. `MaxRetryCount` bounds resumes, `MaxImmediates` the backlog of
submissions, `MaxCrashes` process lives, `PlanReruns` and
`EpisodeReruns` which passes clients rerun: each only cuts repetition of what
already happened once. Stalls need no bound: BullMQ's own limit allows two. The
worker instance has one job, because adds, stalls, crash, cancel, resume and eviction
together multiply (two jobs do not end in minutes): what two jobs add, the dispatch
of one by the end of another and the wake-up that a cancellation takes from another,
is covered by `WorkerForgetsNoJob` (section 5). In `series`, passes 2 to 4 and B to C are rerun as pass 1 and
A are. A window of 2 over 3 jobs makes one job too old to be updated. Two callers
suffice for every pairwise overlap in the orchestrator; eviction waiters that start
together need three, and there the theorems stand alone (`OrchestratorWaits`,
`OrchestratorAdvances`).
Symmetry is used where no liveness is checked. Deadlock checking is off where the
system may stop: when all jobs have ended, or the process is dead for good.

Fairness. Node's event loop runs every due callback, `retryTimers` are finite
timeouts, each await of a pipeline is bounded by a probe timeout, a stage timeout
or the abort signal, a supervisor restarts the process, an add to BullMQ arrives or
is given up by the Redis client, and BullMQ delivers to an idle worker: weak fairness
of those. A model call of a composer request ends by its timeout, and a jittered
delay is finite. A model call of a series pass has no timeout of the code's own: each
pass makes an `AbortController` that nothing aborts, and what ends it is the default
header timeout of Node's `fetch` (five minutes; Ollama answers in one piece).
`PassesEnd` rests on that default. `/api/ps` is given up after 3 s and an
unload after 5 s. A Python worker thread and a request handler go on; a job's work
is bounded by the timeouts of its calls and subprocesses. Clients, services'
generations and Ollama's own decisions owe nothing.

Runs that find a violation; each checks one sentence of the repository:

* `models_lock` (`Single7BResident`): "never allow two 7B models resident
  simultaneously" (`M:10`). Nothing covers the time between a grant and the end of
  the generation, so two callers load one each. With `OLLAMA_MAX_LOADED_MODELS=2`,
  which the repository prescribes for 16 GB, Ollama does not stop them.
* `worker_cancel` (`CancelledStaysCancelled`): "At any stage boundary, a cancelled
  job is aborted and no further stages run." (`docs/VIDEO-GENERATION.md:807`).
  `cancelJob()` leaves the job in BullMQ; `processJob()` then finds a job that is
  over, restores it as a fresh queued one (`workers/video-worker.ts:31`) and
  renders it in full.

## 4. Disagreements met while modelling, without a run of their own

Video:

* Cancelling frees the lock at once while the pipeline goes on to its next poll, so
  the next submission starts a second pipeline (`Q:202`), against "The pipeline
  runs one job at a time" (`docs/VIDEO-GENERATION.md:71`). The produce route
  (`S:223`) does the same by starting a pipeline without `startJob()`.
  `AtMostOnePipeline` is therefore checked without both.
* Cancelling the job that backs off loses the only wake-up of the rest of the queue
  (`O:1676`): the retry timer's `startJob()` returns null and nobody looks further,
  in BullMQ mode too for a job that BullMQ is done with (`CancelWorked`, `lost`).
  `NoStrandedQueue` is checked without cancels.
* In memory mode hydration restores a `running` job without its pipeline (`Q:513`),
  it keeps the lock for ever, and nothing starts the queued jobs (`server.ts:236`);
  `docs/SwarmXQ_Creative_Video_Factory_Production_Directive.md:1728` asks to
  resume. In BullMQ mode the redelivery covers it, but once: a job that stalled
  before, or that the process dies with twice, is failed by BullMQ and stays
  `running` in the registry, with the lock. A job that BullMQ is done with and only
  its retry timer would have started is not covered at all (both in `lost`).
* `void getBullQueue().add(...)` (`Q:155`) is not awaited: `POST /jobs` answers 201
  before Redis has the job. If the process dies before the add arrives, the next one
  restores a queued job that BullMQ never delivers; if the add is rejected, nobody
  handles it and `server.ts:433` ends the process, with the same result.
* Pressure that turns critical during the backoff throws an error commented
  "retryable: pressure may recover" (`O:1483`); the catch block rebuilds it from its
  code alone and the job fails for good.
* `POST /jobs/:id/resume` schedules nothing to start the resumed job, ignores the
  capacity of `enqueue()` and counts against the retry budget; with a resume inside
  the poll interval the cancelled pipeline goes on. `QueueDrains` and
  `CancelledRunEntersNoStage` are therefore checked without resumes. In BullMQ mode
  the route adds nothing to BullMQ either: a job resumed when BullMQ is done with it
  waits for another job's pipeline to end (`ResumeWorked`, `lost`).
* The produce route refuses an episode by the last job it recorded for it only
  (`S:167`). When that one has failed and an older one was resumed, `enqueue` returns
  the older one and a pipeline starts on it, beside the one it may have.
* `failJob` wipes a job's stages (`Q:330`) while a second pipeline of the job may be
  recording them. Job 1 runs; an episode is produced, whose pipeline A reaches its
  last stages without `startJob()`, so job 2 is still `queued`; job 1 fails and wakes
  the queue, which starts a second pipeline B on job 2; B records its first stage as
  started, A finalizes, and job 2 is completed with a stage that is not done. (Found
  on the instance of `pipe_all`, by asking that completed jobs have every stage done.)
* `dequeueNext` sorts by age: it ignores `nextRetryAt`, and `reprioritizeQueue` but
  for jobs created in the same millisecond, against "Reorder queued jobs by explicit
  ordered job IDs" (`docs/VIDEO-GENERATION.md:1357`);
  a submission starts its own job before older queued ones. BullMQ serves lower
  priority numbers first, `reprioritizeQueue` gives the first job the highest.
* `enqueue` looks at the capacity before the `clientRequestId`, so repeating an
  accepted submission is refused when the queue is full.
* With overlapping pipelines of one job, which BullMQ mode allows, or an eviction
  under a pipeline, `failJob` throws in the catch block (`O:1628`) and a rejection
  nobody handles may end the process. `NoUnhandledRejection` is checked without both:
  what it shows is that a cancellation cannot do this.

Models and circuits:

* A call given up by `withTimeout` in the composer or the virality scorer is not
  aborted: Ollama goes on with it while the next model is requested, which breaks
  the 7B lock with a single caller.
* A half-open circuit admits any number of calls, and outcomes of calls made before
  it opened count as probes. A late success closes the composer's circuit before
  its cooldown is over, and every refused request counts as one more failure.
* With `SWARMX_COMPOSER_CB_FAILURE_THRESHOLD=1`, which the code allows
  (`composer.ts:73`), a late success with an empty answer closes the composer's
  circuit and opens it again with a fresh countdown, against V6.2-FIX-06. The
  theorem assumes a threshold above 1 for this reason.
* A refusal by a model's circuit reads "timeout circuit open", so it is retried
  with backoff like a timeout.

Series:

* After a restart the marks "running", "planning" and an episode's status in
  progress remain with nobody behind them: reruns and pre-production are refused
  (409) for ever.
* A rerun of pass A, B or C of a complete episode leaves a status in progress with
  nothing running, again 409 for ever. A rerun of a complete or failed episode and
  a pre-production overlap (`S:264`, "Idempotency: reject if already running").
  Rerunning A and then D completes the episode with prompts and audio of the old
  script. `OnePassPerEpisode` and `CompleteIsCoherent` therefore leave out episodes
  whose passes were rerun by hand.
* A failing rerun of pass 1 or 2 turns a producing or completed series "failed", and
  no successful rerun brings it back.

Python:

* `POST /api/mission` writes "queued" again after `append_job()`: a job claimed in
  between runs twice. `POST /api/run` and `/api/evolve`, and the commands of
  `cli.py`, mark their job running in a second write: a worker may run it as well.
  `PlainJobRunsOnce` is about the other kinds.
* `claim_resume_job()` leaves the payload queued: with two or more worker threads
  the fallback of another claims it again. One thread is the default.
* After a crash a plain running job is never claimed again, an interrupted resume
  job is, by accident, through the same fallback. An exception in `execute_plan`
  leaves the job running. `update_job` does not find jobs older than the newest 500.
* The fallback of a claim writes `jobs.jsonl` and not the table. A job submitted
  between a worker's look at the column and its fallback is executed with its column
  still "queued"; if 500 jobs come before it ends, its end is forgotten and it is
  executed a second time. `PlainJobRunsOnce` allows just this.
* `cli.py:611` passes `interval` and `pool_size` to `start_worker()`, which takes
  neither.

## 5. Proofs

All are about the specifications the runs check, from the named assumptions of the
modules only, which TLC evaluates in every run.

`VideoQueue_proofs`, for any jobs, requests, stages, capacity and budget:

* `QueueTypeCorrect`, `QueueSingleVideoLock`: the lock is inductive together with
  the type: only `startJob` makes a job `running`, and it looks first.
* `QueueImplementsLifecycle`: every operation moves one job as an action of
  `VideoLifecycle` does, or none; one lemma per operation (`StartedMoves`,
  `FailedRequeues`, ...) says what it makes of the record, and the step theorem
  maps each to the abstract move.
* `QueueSchedules` (`ScheduleOnlyWhileQueued`).

`VideoPipeline_proofs`, for any jobs, pipelines, stages, budget and crashes. Every
step of a pipeline is first shown to be one of two kinds: `Advances` (the job keeps
its status; a stage is entered only while the job is active) or `Finishes` (the job was over, is queued again inside the budget,
failed or completed, and if the lock is free then a job that waits has been woken).
`PipelineNext` says the same of every other step, and the theorems rest on these
summaries only:

* `PipelineTypeCorrect`, `PipelineImplementsLifecycle`, `PipelineSingleVideoLock` and
  `PipelineHoldsLock` (`RunningHasPipelineInLife`) without any assumption on the
  clients. The second of them gives the third: `LifecycleKeepsLock` needs the
  abstract steps only.
* `PipelineExclusive` (`AtMostOnePipeline`) if clients cancel nothing and start no
  episode: the strengthening `PipelineHasRunning` says that a live pipeline's job is
  running, so that the lock, which counts statuses, counts pipelines.
* `PipelineStrandsNobody` (`NoStrandedQueue`) if besides no job is resumed and the
  process does not restart, from `SomebodyWoken`: while the lock is free, some job
  that waits has a callback.
* `CancelledPipelineEntersNoStage` if no job is resumed, from `CancelledIsOver`.
* `PipelineRejectsNothing` if no job is resumed or evicted and no episode started,
  from `OwnsJob`: a job has one pipeline at most, which finds it running unless it
  was cancelled.

The assumptions are those of section 4: each is a way of ending a job, or of
starting a pipeline, that the lock does not see.

`VideoWorker_proofs`, for any jobs, pipelines and crashes, and clients that submit,
produce, cancel, resume and reorder as they like, builds on the same summaries
(`WorkerNext`):

* `WorkerTypeCorrect`, with `BullKnows`: what BullMQ may deliver again has attempts
  left.
* `WorkerForgetsNoJob` (`NoJobForgotten`): until a job is lost, in one of the ways
  `lost` records, every queued job has an add or a delivery, a pipeline or a callback
  ahead. It does not say that nobody is lost, which is false (section 4), but that
  these are all the ways: no rejected delivery, no stall while the process lives, no
  eviction and no order of dispatch is one. It follows from `ServesLive` (the worker awaits a live
  pipeline, and an active delivery is its job's) and `LockIsServed` (a running job
  has a pipeline or a delivery ahead: the lock that makes a callback do nothing is
  given back by somebody; after a second stall inside a process the pipeline that
  stalled is still there, after one by the death of a process the job is lost). These two are of use by themselves and are stated as
  `WorkerAwaitsItsPipeline` and `WorkerGivesLockBack`.
* `WorkerImplementsLifecycleButForDeliveries`: `VideoLifecycle` is not implemented
  under BullMQ (`worker_cancel` shows a cancelled job queued again), and this says by
  how much: every step is one of the lifecycle or the delivery of a job that is over
  or evicted (`Revives`), which forgets the retries counted so far.
  `WorkerSingleVideoLock` follows, since that step starts nothing.

`ModelOrchestrator_proofs`, for any callers, models, sizes and thresholds:

* `OrchestratorTypeCorrect`, `OrchestratorBookkeeping` (`ActiveSevenIsActive`) and
  `OrchestratorWaits` (`AwaitedEvictionRuns`), from one inductive invariant `IInv`:
  the type, `Consistent(tracked)` and `Orderly(inFlight, call)`. The last also says
  that whoever is busy has a model. `Orderly` is stated for any marker and any
  callers, because at the end of an eviction the waiters go on before the caller
  does, and the sweep then works on the intermediate values.
* `OrchestratorSingle7B`: under `Alone` (one caller that waits for its generations,
  an Ollama that answers, no speculative load) the 7B lock holds. The strengthening
  `RoomMade` says which 7B model may still be resident at each point of a request:
  the victim before its eviction ends, nothing but the target after. `models_lock`
  shows that `Alone` cannot be dropped.
* `OrchestratorHeadroom` (`HeadroomBeforeLoad`), also under `Alone`. The
  strengthening `HeadroomMade` says that while `projectedAvailableMb` is too low
  nothing resident is hidden from the sweep: what it has not looked at, its victim
  and its target are all there is. `SweepMakesHeadroom` carries it through a round:
  a sweep that still needs headroom skips nobody.
* `OrchestratorAdvances` (`RequestsAdvance`), for any callers and without `Alone`: no
  step sets a request back. It has the answer of `/api/ps`, its turn at
  `inFlightEviction`, its snapshot, or fewer models left to look at, so a request
  takes a bounded number of steps whatever the others do. Together with fairness,
  which the prover cannot use, this is why `RequestsGranted` holds.

`SeriesPlanning_proofs`, for any series, episodes, slots and reruns:

* `SeriesTypeCorrect`, `SeriesOnePlannerCall`, `SeriesOnePassPerEpisode`,
  `SeriesCompleteIsCoherent`. `PlannerInv` makes the pass marks a lock: the pass a
  planner awaits is marked running and no other pipeline of the series exists.
  `EpisodeInv` ties the status of an episode to the pass its pipeline awaits and to
  what must exist by then; it is stated for episodes never rerun, which is where
  it holds.
* `SeriesImplementsLifecycle`: every step moves one series as `SeriesLifecycle`
  does, or none.

`CircuitBreaker_proofs`, for any models, aliases, thresholds, requests, services:

* `CircuitTypeCorrect`, `CircuitClosedBelowThreshold`, `CircuitMovesOnStreaks`,
  `CircuitLateErrorKeepsCountdown`, from `CircuitInv`: a closed circuit is below
  its threshold and has counted no more failures than came in a row, a half-open
  one no more successes than came in a row. The last theorem assumes a composer
  threshold above 1.

`PythonQueue_proofs`, for any number of jobs, workers and crashes:

* `PythonQueueTypeCorrect`, `PythonQueueCopiesAgree`, `PythonQueueRunningIsOwned`,
  from `QueueInv`: per job, a row not yet written is empty, the copies agree but
  for a claimed resume job, and a running job is owned. The lemmas say what
  `Append`, `Updated` and a claim keep of every other job.
* `PythonQueuePlainJobRunsOnce`, with `OneWorker`, which is what the server starts.
  The strengthening `PlainInv` says of a job that no request executes that, once
  begun and as long as `update_job` finds it, it is in the worker's hands or settled
  in both copies (`ServedOnce`), so neither claim finds it again; and that one begun
  twice, which `update_job` no longer finds, no longer looks queued.

Every invariant and action property of the passing runs is proved. Model-checked
only is liveness (`QueueDrains`, `CancelStops`, `RequestsGranted`, `PassesEnd`,
`RequestAnswered`, `QueuedSettles`, `DeliveredJobsEnd`): its proof needs ENABLED and
fairness, which are beyond the prover.

## 6. Plan, and what is not modelled

Done in this order: the video queue, lifecycle and pipeline, the model
orchestrator, the BullMQ worker, the series engine, the circuits, the Python
queue, and their proofs. What would come next: the creative factory's approval
steps; the event stream of a job (`subscribeToJob`, which closes on a
`video:failed` that will be retried, `Q:567`); snapshot writes that fail.

Not modelled:

* creative factory (`creative-factory-*.ts`): one sequential runner per workflow
  run with an approval in between; no two of its steps share state;
* pressure monitor, rendering, voice and publishing adapters: I/O, whose outcome
  enters the models as a nondeterministic choice;
* the rest of the composer (choice of models, prompts, sanitising, histograms) and
  the latency statistics behind the adaptive timeouts: arithmetic and wording;
* SSE and WebSocket plugins: they fan out events and nothing reads them back;
* Python planning, evolution, policy, memory and tooling: sequential scripts around
  model calls and files, whose result enters `PythonQueue` as a job's end;
* dashboards, installers, prompts, reports: no state of the system's.

In `ModelOrchestrator`, `init` and `destroy`, the keep-alive strings and
`warmQueue` (written, never read) are left out; in `VideoWorker`, a Redis that fails
after the start, but for the add it rejects; in `PythonQueue`, leases, checkpoints and a failing database.
