------------------------- MODULE VideoWorker_proofs -------------------------
(***************************************************************************)
(* Proofs about VideoWorker, for any number of jobs, pipelines, stalls,    *)
(* deliveries and crashes, whatever clients submit, cancel, resume and     *)
(* reorder.                                                                *)
(* What a step does to the pipelines and to the registry is what           *)
(* VideoPipeline_proofs says of it; the invariant below relates that to    *)
(* what BullMQ and the worker hold.                                        *)
(***************************************************************************)
EXTENDS VideoWorker, VideoPipeline_proofs

(* BullMQ was told of the jobs that were submitted, and one it may deliver *)
(* again has attempts left and was not stalled too often.                  *)
BullKnows ==
    \A j \in Jobs : /\ job[j].status = "none" <=> bull[j] = "none"
                    /\ bull[j] # "over" => /\ attemptsMade[j] < Attempts
                                           /\ stalledCount[j] <= MaxStalledCount

(* The worker awaits a pipeline that is alive, and an active job's is it.  *)
ServesLive ==
    process = "up" =>
        /\ serving # NoRun => serving \in Live
        /\ \A j \in Jobs : bull[j] = "active" => serving \in Live /\ runs[serving].job = j

(* The lock is not left with a job that nobody will run.                   *)
LockIsServed ==
    process = "up" /\ lost = {} =>
        \A j \in Running(job) : bull[j] = "waiting" \/ \E r \in Live : runs[r].job = j

-----------------------------------------------------------------------------
(* What the steps do                                                       *)

(* A new pipeline is in the slot that Begin chooses.                       *)
LEMMA BeginFills ==
    ASSUME PTypeOK, NEW j \in Jobs, NEW c \in BOOLEAN, Begin(j, c)
    PROVE  /\ FreeSlot \in Runs /\ FreeSlot \notin Live
           /\ runs' \in [Runs -> Run]
           /\ runs'[FreeSlot] = NewRun(j, c)
           /\ \A q \in Runs \ {FreeSlot} : runs'[q] = runs[q]
           /\ Live' = Live \cup {FreeSlot}
<1>1. \E r \in Runs : runs[r].pc = "idle"
  BY DEF Begin, Live
<1>2. FreeSlot \in Runs /\ runs[FreeSlot].pc = "idle"
  BY <1>1 DEF FreeSlot
<1>3. runs' = [runs EXCEPT ![FreeSlot] = NewRun(j, c)]
  BY DEF Begin
<1> HIDE DEF FreeSlot
<1>4. /\ runs' \in [Runs -> Run] /\ runs'[FreeSlot] = NewRun(j, c)
      /\ \A q \in Runs \ {FreeSlot} : runs'[q] = runs[q]
  BY <1>2, <1>3, NewRunTyped DEF PTypeOK, PipelineTypeOK
<1> QED BY <1>2, <1>4, NewRunTyped DEF Live

(* A delivery starts a pipeline; its job is active, restored if need be.   *)
LEMMA DeliversOne ==
    ASSUME WTypeOK, NEW j \in Jobs, Delivers(j)
    PROVE  /\ serving' \in Runs \ Live /\ Live' = Live \cup {serving'}
           /\ runs' \in [Runs -> Run]
           /\ runs'[serving'].job = j /\ SlotOK(runs'[serving'])
           /\ \A q \in Runs \ {serving'} : runs'[q] = runs[q]
           /\ job' \in [Jobs -> VideoJob]
           /\ job'[j].status \in {"queued", "running"}
           /\ \A k \in Jobs \ {j} : job'[k] = job[k]
           /\ order' \in Seq(Jobs) /\ cleanup' \subseteq Jobs
<1>0. PTypeOK /\ TypeOK
  BY DEF WTypeOK, PTypeOK
<1>1. Begin(j, TRUE) /\ serving' = FreeSlot
  BY DEF Delivers
<1> HIDE DEF FreeSlot
<1>2. /\ serving' \in Runs \ Live /\ Live' = Live \cup {serving'}
      /\ runs' \in [Runs -> Run] /\ runs'[serving'] = NewRun(j, TRUE)
      /\ \A q \in Runs \ {serving'} : runs'[q] = runs[q]
  BY <1>0, <1>1, BeginFills
<1>3. /\ job' \in [Jobs -> VideoJob] /\ job'[j].status \in {"queued", "running"}
      /\ \A k \in Jobs \ {j} : job'[k] = job[k]
      /\ order' \in Seq(Jobs) /\ cleanup' \subseteq Jobs
  <2>1. CASE j \in Active(job)
    BY <1>0, <2>1 DEF Delivers, TypeOK, Active, Queued, Running
  <2>2. CASE j \notin Active(job)
    <3> DEFINE v == FreshJob("queued", job[j].clientRequestId, clock)
    <3>1. Restored(j)
      BY <2>2 DEF Delivers
    <3>2. v \in VideoJob /\ v.status = "queued"
      BY <1>0 DEF TypeOK, VideoJob, FreshJob, NoStages, Status
    <3>3. job' = [job EXCEPT ![j] = v]
      BY <1>0, <3>1 DEF Restored, TypeOK
    <3> HIDE DEF v
    <3>4. order' \in Seq(Jobs) /\ cleanup' \subseteq Jobs
      BY <1>0, <3>1 DEF Restored, TypeOK
    <3> QED BY <1>0, <3>2, <3>3, <3>4 DEF TypeOK
  <2> QED BY <2>1, <2>2
<1> QED BY <1>2, <1>3, NewRunTyped

(* A submission under BullMQ.                                              *)
LEMMA PostsOne ==
    ASSUME WTypeOK, SlotsOK, NEW j \in Jobs, NEW c \in ClientRequests \cup {NoClientRequest},
           PostBullJob(j, c)
    PROVE  /\ PTypeOK' /\ SlotsOK'
           /\ job[j].status = "none" /\ job'[j].status = "queued"
           /\ \A k \in Jobs \ {j} : job'[k] = job[k]
           /\ UNCHANGED <<runs, callbacks, env>>
<1>0. TypeOK /\ PipelineTypeOK
  BY DEF WTypeOK, PTypeOK
<1>1. Enqueue(j, c) /\ UNCHANGED <<runs, callbacks, env>>
  BY DEF PostBullJob
<1>2. TypeOK'
  BY <1>0, <1>1, QueueTypeStep DEF QueueNext
<1>3. PipelineTypeOK' /\ SlotsOK'
  BY <1>0, <1>1 DEF PipelineTypeOK, SlotsOK, callbacks, env
<1>4. /\ job[j].status = "none" /\ job'[j].status = "queued"
      /\ \A k \in Jobs \ {j} : job'[k] = job[k]
  BY <1>0, <1>1 DEF Enqueue, FreshJob, TypeOK
<1> QED BY <1>1, <1>2, <1>3, <1>4 DEF PTypeOK

(* Steps that BullMQ and the worker take no part in.                       *)
Bystander ==
    \/ \E r \in Runs : Advances(r)
    \/ \E j \in Jobs : Starts(j)
    \/ \E j \in Jobs : Rejoins(j)
    \/ \E j \in Jobs : EvictionTimer(j)
    \/ Crash
    \/ Quiet

(* The steps of BullMQ mode.                                               *)
LEMMA WorkerNext ==
    ASSUME WTypeOK, SlotsOK, WNext
    PROVE  \/ \E j \in Jobs, c \in ClientRequests \cup {NoClientRequest} : PostBullJob(j, c)
           \/ \E j \in Jobs, c \in Episodes : Submits(j, c) /\ Added(j)
           \/ \E j \in Jobs : AddArrives(j) \/ AddFails(j)
           \/ \E j \in Jobs : Delivers(j)
           \/ \E r \in Runs : Finishes(r) /\ Settles(r)
           \/ \E j \in Jobs : Stalls(j)
           \/ \E j \in Jobs : CancelWorked(j)
           \/ \E j \in Jobs, s \in StageIds : ResumeWorked(j, s)
           \/ WorkerRestarts
           \/ Bystander /\ UNCHANGED bullVars
<1>0. PTypeOK
  BY DEF WTypeOK
<1>1. ASSUME NEW j \in Jobs, NEW c \in Episodes, ProduceBullEpisode(j, c)
      PROVE  (Submits(j, c) /\ Added(j)) \/ (Bystander /\ UNCHANGED bullVars)
  <2>1. Submits(j, c) \/ Rejoins(j)
    BY <1>0, <1>1, ProduceSteps DEF ProduceBullEpisode
  <2>2. Submits(j, c) => job[j].status = "none"
    BY <1>0, SubmitsOne
  <2>3. Rejoins(j) => job[j].status # "none"
    BY DEF Rejoins, Active, Queued, Running
  <2> QED BY <1>1, <2>1, <2>2, <2>3 DEF ProduceBullEpisode, Bystander
<1>2. ASSUME NEW r \in Runs, WorkedStep(r)
      PROVE  (Finishes(r) /\ Settles(r)) \/ (Bystander /\ UNCHANGED bullVars)
  <2>1. Advances(r) \/ Finishes(r)
    BY <1>0, <1>2, RunSteps DEF WorkedStep
  <2>2. Settles(r)
    BY <1>2 DEF WorkedStep
  <2>3. CASE Advances(r)
    <3>1. runs'[r].pc # "idle"
      BY <1>0, <2>3, AdvancesKeeps DEF Advances
    <3> QED BY <2>2, <2>3, <3>1 DEF Settles, Bystander
  <2> QED BY <2>1, <2>2, <2>3
<1>3. ASSUME NEW r \in Runs, CancelWatcher(r) PROVE Advances(r)
  <2>1. runs'[r].pc # "idle"
    BY <1>0, <1>3 DEF CancelWatcher, PTypeOK, PipelineTypeOK, Run
  <2>2. Advances(r) \/ Finishes(r)
    BY <1>0, <1>3, RunSteps
  <2> QED BY <1>0, <2>1, <2>2, FinishesFrees DEF IdleRun
<1>4. CASE Unwatched /\ UNCHANGED bullVars
  <2>1. ImmediateFires => Bystander
    BY <1>0, ImmediateSteps DEF Bystander
  <2>2. ASSUME NEW j \in Jobs, RetryTimerFires(j) PROVE Bystander
    BY <1>0, <2>2, TimerSteps DEF Bystander
  <2>3. ASSUME NEW o \in Orderings, ReprioritizeRoute(o) PROVE Quiet
    BY <1>0, <2>3
       DEF ReprioritizeRoute, ReprioritizeQueue, Quiet, WakesKept, Woken, CallbacksTyped,
           callbacks, PTypeOK, PipelineTypeOK
  <2> QED BY <1>3, <1>4, <2>1, <2>2, <2>3 DEF Unwatched, Bystander
<1> QED BY <1>1, <1>2, <1>4 DEF WNext, AddSettles

-----------------------------------------------------------------------------
(* Type correctness                                                        *)

(* The pipelines and the registry stay well-formed.                        *)
LEMMA WorkedPipelineStep ==
    ASSUME WTypeOK, SlotsOK, [WNext]_wvars
    PROVE  PTypeOK' /\ SlotsOK'
<1>0. PTypeOK
  BY DEF WTypeOK
<1>1. ASSUME [PNext]_vars PROVE PTypeOK' /\ SlotsOK'
  BY <1>0, <1>1, PipelineTypeStep
<1>2. ASSUME NEW j \in Jobs, NEW c \in ClientRequests \cup {NoClientRequest},
             PostBullJob(j, c)
      PROVE  PTypeOK' /\ SlotsOK'
  BY <1>2, PostsOne
<1>3. ASSUME NEW j \in Jobs, Delivers(j) PROVE PTypeOK' /\ SlotsOK'
  <2>1. TypeOK'
    BY <1>0, <1>3, DeliversOne DEF Delivers, PTypeOK, TypeOK
  <2>2. PipelineTypeOK'
    BY <1>0, <1>3, DeliversOne DEF Delivers, PTypeOK, PipelineTypeOK, callbacks, env
  <2>3. SlotsOK'
    BY <1>3, DeliversOne DEF SlotsOK, SlotOK
  <2> QED BY <2>1, <2>2, <2>3 DEF PTypeOK
<1>4. CASE UNCHANGED wvars
  BY <1>1, <1>4 DEF wvars
<1>5. CASE Unwatched
  BY <1>1, <1>5 DEF Unwatched, PNext, Requests
<1>6. CASE WorkerRestarts
  BY <1>1, <1>6 DEF WorkerRestarts, PNext
<1>7. ASSUME NEW j \in Jobs, CancelWorked(j) \/ Stalls(j) \/ AddArrives(j)
      PROVE  [PNext]_vars
  BY <1>7 DEF CancelWorked, Stalls, AddArrives, PNext, Requests
<1>8. ASSUME NEW j \in Jobs, NEW c \in Episodes, ProduceBullEpisode(j, c) PROVE PNext
  BY <1>8 DEF ProduceBullEpisode, PNext, Requests
<1>9. ASSUME NEW r \in Runs, WorkedStep(r) PROVE PNext
  BY <1>9 DEF WorkedStep, PNext
<1>10. ASSUME NEW j \in Jobs, NEW s \in StageIds, ResumeWorked(j, s) PROVE PNext
  BY <1>10 DEF ResumeWorked, PNext, Requests
<1>11. ASSUME NEW j \in Jobs, AddFails(j) PROVE PTypeOK' /\ SlotsOK'
  <2>1. /\ runs' = [r \in Runs |-> IdleRun] /\ immediates' = << >>
        /\ retryTimers' = [k \in Jobs |-> 0] /\ process' = "rejected"
        /\ UNCHANGED <<queueVars, crashes, episodeJob>>
    BY <1>11 DEF AddFails, ForgetCallbacks
  <2> QED BY <1>0, <2>1, IdleRunTyped DEF PTypeOK, TypeOK, PipelineTypeOK, SlotsOK, queueVars
<1> QED BY <1>1, <1>2, <1>3, <1>4, <1>5, <1>6, <1>7, <1>8, <1>9, <1>10, <1>11
        DEF WNext, AddSettles

(* What a step of the others makes of a job's status.                      *)
LEMMA BystanderKeepsJobs ==
    ASSUME PTypeOK, SlotsOK, Bystander, NEW j \in Jobs
    PROVE  /\ job'[j].status = "none" <=> job[j].status = "none"
           /\ Queued(job') \subseteq Queued(job)
<1>1. ASSUME NEW r \in Runs, Advances(r)
      PROVE  \A k \in Jobs : job'[k].status = job[k].status
  BY <1>1, AdvancesKeeps
<1>2. ASSUME NEW i \in Jobs, Starts(i) \/ EvictionTimer(i)
      PROVE  \A k \in Jobs : /\ job'[k].status = "none" <=> job[k].status = "none"
                             /\ job'[k].status = "queued" => job[k].status = "queued"
  BY <1>2, StartsOne, EvictsOne DEF Terminal
<1>3. Crash \/ Quiet \/ (\E i \in Jobs : Rejoins(i)) => job' = job
  BY DEF Crash, Quiet, Rejoins, queueVars
<1> QED BY <1>1, <1>2, <1>3 DEF Bystander, Queued

(* The job of a pipeline that settles was submitted.                       *)
LEMMA FinishedWasSubmitted ==
    ASSUME PTypeOK, SlotsOK, NEW r \in Runs, Finishes(r), NEW j \in Jobs
    PROVE  job'[j].status = "none" <=> job[j].status = "none"
<1>1. CASE j # runs[r].job \/ job' = job
  BY <1>1, FinishesFrees
<1>2. CASE j = runs[r].job /\ Mutable(job, j)
  <2>1. \E s \in {"queued", "failed", "completed"} : \E n : MovesTo(job, job', j, s, n)
    BY <1>2 DEF Finishes, Mutable, Active, Queued, Running
  <2> QED BY <1>2, <2>1 DEF MovesTo, Mutable, Active, Queued, Running
<1> QED BY <1>1, <1>2 DEF Finishes

LEMMA BullStep ==
    ASSUME WTypeOK, SlotsOK, BullKnows, [WNext]_wvars
    PROVE  WTypeOK' /\ BullKnows'
<1> USE DEF WTypeOK, BullKnows
<1>0. PTypeOK' /\ Attempts \in Nat \ {0}
  BY WorkedPipelineStep, QueueAssumption DEF Attempts
<1>1. CASE UNCHANGED wvars
  BY <1>0, <1>1 DEF wvars, vars, bullVars
<1>2. ASSUME NEW j \in Jobs, Added(j), job[j].status = "none", job'[j].status = "queued",
             \A k \in Jobs \ {j} : job'[k] = job[k]
      PROVE  WTypeOK' /\ BullKnows'
  BY <1>0, <1>2 DEF Added
<1>3. ASSUME NEW j \in Jobs, NEW c \in ClientRequests \cup {NoClientRequest}, PostBullJob(j, c)
      PROVE  WTypeOK' /\ BullKnows'
  BY <1>2, <1>3, PostsOne DEF PostBullJob
<1>4. ASSUME NEW j \in Jobs, NEW c \in Episodes, Submits(j, c), Added(j)
      PROVE  WTypeOK' /\ BullKnows'
  BY <1>2, <1>4, SubmitsOne
<1>5. ASSUME NEW j \in Jobs, Delivers(j) PROVE WTypeOK' /\ BullKnows'
  <2> HIDE DEF WTypeOK, BullKnows
  <2>1. /\ bull' = [bull EXCEPT ![j] = "active"] /\ bull[j] = "waiting"
        /\ UNCHANGED <<attemptsMade, stalledCount, lost>>
    BY <1>5 DEF Delivers
  <2>2. /\ serving' \in Runs /\ job'[j].status # "none"
        /\ \A k \in Jobs \ {j} : job'[k] = job[k]
    BY <1>5, DeliversOne
  <2>3. /\ bull' \in [Jobs -> {"none", "adding", "waiting", "active", "over"}]
        /\ bull'[j] = "active"
        /\ \A k \in Jobs \ {j} : bull'[k] = bull[k]
    BY <2>1 DEF WTypeOK
  <2>4. WTypeOK'
    BY <1>0, <2>1, <2>2, <2>3 DEF WTypeOK
  <2>5. BullKnows'
    BY <2>1, <2>2, <2>3 DEF BullKnows
  <2> QED BY <2>4, <2>5
<1>6. ASSUME NEW r \in Runs, Finishes(r), Settles(r) PROVE WTypeOK' /\ BullKnows'
  <2> DEFINE j == runs[r].job
  <2>1. j \in Jobs
    BY <1>6, FinishesFrees
  <2>2. CASE UNCHANGED bullVars
    BY <1>0, <1>6, <2>2, FinishedWasSubmitted DEF bullVars
  <2>3. CASE serving' = NoRun /\ UNCHANGED <<bull, attemptsMade, stalledCount, lost>>
    BY <1>0, <1>6, <2>3, FinishedWasSubmitted
  <2>4. CASE /\ serving' = NoRun /\ UNCHANGED <<stalledCount, lost>>
             /\ bull[j] = "active"
             /\ bull' = [bull EXCEPT ![j] = IF Rejects(r) /\ attemptsMade[j] + 1 < Attempts
                                            THEN "waiting" ELSE "over"]
             /\ attemptsMade' = [attemptsMade EXCEPT ![j] = IF Rejects(r) THEN @ + 1 ELSE @]
    <3>1. attemptsMade[j] \in Nat /\ attemptsMade[j] < Attempts
      BY <2>1, <2>4
    <3>2. WTypeOK'
      BY <1>0, <2>1, <2>4, <3>1
    <3>3. /\ bull'[j] \in {"waiting", "over"}
          /\ bull'[j] = "waiting" => attemptsMade'[j] < Attempts
          /\ \A k \in Jobs \ {j} : bull'[k] = bull[k] /\ attemptsMade'[k] = attemptsMade[k]
      BY <2>1, <2>4, <3>1
    <3> QED BY <1>6, <2>1, <2>4, <3>2, <3>3, FinishedWasSubmitted
  <2> QED BY <1>6, <2>2, <2>3, <2>4 DEF Settles
<1>7. ASSUME NEW j \in Jobs, Stalls(j) PROVE WTypeOK' /\ BullKnows'
  <2>1. /\ bull[j] = "active" /\ bull' = [bull EXCEPT ![j] = AfterStall(j)]
        /\ stalledCount' = [stalledCount EXCEPT ![j] = @ + 1]
        /\ UNCHANGED <<job, attemptsMade, serving, lost>>
    BY <1>7 DEF Stalls, vars
  <2>2. /\ stalledCount[j] \in 0..MaxStalledCount
        /\ AfterStall(j) \in {"waiting", "over"}
        /\ AfterStall(j) = "waiting" => stalledCount[j] + 1 <= MaxStalledCount
    BY <2>1 DEF AfterStall, MaxStalledCount
  <2> QED BY <1>0, <2>1, <2>2 DEF MaxStalledCount
<1>8. ASSUME NEW j \in Jobs, CancelWorked(j) PROVE WTypeOK' /\ BullKnows'
  <2>1. UNCHANGED <<bull, attemptsMade, serving, stalledCount>> /\ lost' \subseteq Jobs
    BY <1>8 DEF CancelWorked, Queued
  <2> QED BY <1>0, <1>8, <2>1, CancelsOne DEF CancelWorked
<1>9. CASE WorkerRestarts
  <2>1. job' = job
    BY <1>9, ProcessEnds DEF WorkerRestarts
  <2>2. /\ bull' = [k \in Jobs |-> Redelivered(k)] /\ serving' = NoRun
        /\ stalledCount' = [k \in Jobs |-> IF bull[k] = "active" THEN stalledCount[k] + 1
                                           ELSE stalledCount[k]]
        /\ UNCHANGED attemptsMade /\ lost' \subseteq Jobs
    BY <1>9 DEF WorkerRestarts, Active, Queued, Running
  <2>3. ASSUME NEW k \in Jobs
        PROVE  /\ bull'[k] \in {"none", "waiting", "over"}
               /\ bull'[k] = "none" <=> bull[k] = "none"
               /\ bull'[k] # "over" => bull[k] # "over"
               /\ stalledCount'[k] \in 0..(MaxStalledCount + 1)
               /\ bull'[k] # "over" => stalledCount'[k] <= MaxStalledCount
    BY <2>2, <2>3 DEF Redelivered, AfterStall, MaxStalledCount
  <2>4. /\ bull' \in [Jobs -> {"none", "adding", "waiting", "active", "over"}]
        /\ stalledCount' \in [Jobs -> 0..(MaxStalledCount + 1)]
    BY <2>2, <2>3
  <2> QED BY <1>0, <2>1, <2>2, <2>3, <2>4
<1>10. CASE Bystander /\ UNCHANGED bullVars
  BY <1>0, <1>10, BystanderKeepsJobs DEF bullVars
<1>11. ASSUME NEW j \in Jobs, AddArrives(j) PROVE WTypeOK' /\ BullKnows'
  BY <1>0, <1>11 DEF AddArrives, vars
<1>12. ASSUME NEW j \in Jobs, AddFails(j) PROVE WTypeOK' /\ BullKnows'
  BY <1>0, <1>12 DEF AddFails, bullVars, queueVars
<1>13. ASSUME NEW j \in Jobs, NEW s \in StageIds, ResumeWorked(j, s)
       PROVE  WTypeOK' /\ BullKnows'
  <2>1. UNCHANGED <<bull, attemptsMade, serving, stalledCount>> /\ lost' \subseteq Jobs
    BY <1>13 DEF ResumeWorked
  <2> QED BY <1>0, <1>13, <2>1, ResumesOne DEF ResumeWorked, Terminal
<1> QED BY <1>1, <1>3, <1>4, <1>5, <1>6, <1>7, <1>8, <1>9, <1>10, <1>11, <1>12, <1>13,
          WorkerNext

LEMMA WorkerWellFormed == WSpec => [](WTypeOK /\ SlotsOK /\ BullKnows)
<1>1. WInit => WTypeOK /\ SlotsOK /\ BullKnows
  <2>1. Init => TypeOK
    BY DEF Init, TypeOK, FreshJob, VideoJob, NoStages, Status, Absent
  <2>2. PInit => PTypeOK /\ SlotsOK
    BY <2>1, IdleRunTyped DEF PInit, PTypeOK, PipelineTypeOK, SlotsOK, SlotOK
  <2> QED
    BY <2>2, QueueAssumption
       DEF WInit, PInit, Init, FreshJob, WTypeOK, BullKnows, Attempts, MaxStalledCount
<1>2. WTypeOK /\ SlotsOK /\ BullKnows /\ [WNext]_wvars => (WTypeOK /\ SlotsOK /\ BullKnows)'
  BY WorkedPipelineStep, BullStep
<1> QED BY <1>1, <1>2, PTL DEF WSpec

(* What BullMQ, the worker, the registry and the pipelines hold stays      *)
(* well-typed: a job is delivered within its attempts and its one stall,   *)
(* however often its process dies.                                         *)
THEOREM WorkerTypeCorrect == WSpec => []WTypeOK
BY WorkerWellFormed, PTL

-----------------------------------------------------------------------------
(* No accepted job is forgotten                                            *)

(* Unless the process ends, what the others do leaves every pipeline with  *)
(* its job.                                                                *)
LEMMA BystanderKeepsRuns ==
    ASSUME PTypeOK, SlotsOK, Bystander, process' = "up"
    PROVE  /\ process = "up"
           /\ \A q \in Live : q \in Live' /\ runs'[q].job = runs[q].job
<1>1. ~Crash
  BY DEF Crash
<1>2. ASSUME NEW r \in Runs, Advances(r)
      PROVE  process = "up" /\ \A q \in Live : q \in Live' /\ runs'[q].job = runs[q].job
  BY <1>2, AdvancesKeeps DEF Advances, env, Live
<1>3. ASSUME NEW j \in Jobs, Starts(j)
      PROVE  process = "up" /\ \A q \in Live : q \in Live' /\ runs'[q].job = runs[q].job
  BY <1>3, StartsLive DEF Starts
<1>4. ASSUME UNCHANGED <<runs, env>>
      PROVE  process = "up" /\ \A q \in Live : q \in Live' /\ runs'[q].job = runs[q].job
  BY <1>4 DEF env, Live
<1>5. ASSUME NEW j \in Jobs, Rejoins(j)
      PROVE  process = "up" /\ \A q \in Live : q \in Live' /\ runs'[q].job = runs[q].job
  BY <1>5, BeginsOne DEF Rejoins, Live
<1> QED BY <1>1, <1>2, <1>3, <1>4, <1>5, EvictsOne DEF Bystander, Quiet

(* A pipeline that settles is the worker's, with the delivery it had, or   *)
(* nothing of BullMQ's changes.                                            *)
LEMMA SettlesOne ==
    ASSUME WTypeOK, SlotsOK, NEW r \in Runs, Finishes(r), Settles(r)
    PROVE  /\ lost' = lost
           /\ \/ r # serving /\ UNCHANGED <<bull, serving>>
              \/ /\ r = serving /\ serving' = NoRun
                 /\ bull'[runs[r].job] # "active"
           /\ \A k \in Jobs \ {runs[r].job} : bull'[k] = bull[k]
<1>1. runs'[r].pc = "idle" /\ runs[r].job \in Jobs
  BY FinishesFrees DEF WTypeOK, IdleRun
<1>2. CASE r # serving
  BY <1>2 DEF Settles, bullVars
<1>3. CASE r = serving
  <2> DEFINE b == IF Rejects(r) /\ attemptsMade[runs[r].job] + 1 < Attempts
                  THEN "waiting" ELSE "over"
  <2>1. /\ lost' = lost /\ serving' = NoRun
        /\ \/ bull[runs[r].job] # "active" /\ bull' = bull
           \/ bull' = [bull EXCEPT ![runs[r].job] = b]
    BY <1>1, <1>3 DEF Settles
  <2>2. b # "active"
    OBVIOUS
  <2> HIDE DEF b
  <2> QED BY <1>1, <1>3, <2>1, <2>2 DEF WTypeOK
<1> QED BY <1>2, <1>3

LEMMA ServesStep ==
    ASSUME WTypeOK, SlotsOK, ServesLive, [WNext]_wvars
    PROVE  ServesLive'
<1> SUFFICES ASSUME process' = "up"
             PROVE  /\ serving' # NoRun => serving' \in Live'
                    /\ \A j \in Jobs : bull'[j] = "active" =>
                          serving' \in Live' /\ runs'[serving'].job = j
  BY DEF ServesLive
<1> USE DEF ServesLive, WTypeOK
<1> DEFINE G == /\ serving' # NoRun => serving' \in Live'
                /\ \A j \in Jobs : bull'[j] = "active" =>
                      serving' \in Live' /\ runs'[serving'].job = j
<1>k. ASSUME process = "up", \A q \in Live : q \in Live' /\ runs'[q].job = runs[q].job,
             serving' = serving, \A k \in Jobs : bull'[k] = "active" => bull[k] = "active"
      PROVE  G
  BY <1>k
<1>1. CASE UNCHANGED wvars
  BY <1>1, <1>k DEF wvars, vars, bullVars, Live
<1>2. ASSUME NEW j \in Jobs, NEW c \in ClientRequests \cup {NoClientRequest}, PostBullJob(j, c)
      PROVE  G
  BY <1>2, <1>k, PostsOne DEF PostBullJob, Added, env, Live
<1>3. ASSUME NEW j \in Jobs, NEW c \in Episodes, Submits(j, c), Added(j) PROVE G
  <2>1. process = "up" /\ \A q \in Live : q \in Live' /\ runs'[q].job = runs[q].job
    BY <1>3, BeginsOne DEF Submits, env, Live
  <2> QED BY <1>3, <1>k, <2>1 DEF Added
<1>4. ASSUME NEW j \in Jobs, Delivers(j) PROVE G
  <2>1. /\ process = "up" /\ serving = NoRun
        /\ bull' = [bull EXCEPT ![j] = "active"]
    BY <1>4 DEF Delivers
  <2>2. \A k \in Jobs : bull[k] # "active"
    BY <2>1, WorkerAssumption DEF Live
  <2>3. serving' \in Live' /\ runs'[serving'].job = j
    BY <1>4, DeliversOne
  <2>4. \A k \in Jobs \ {j} : bull'[k] # "active"
    BY <2>1, <2>2
  <2> HIDE DEF WTypeOK, ServesLive
  <2> QED BY <2>3, <2>4
<1>5. ASSUME NEW r \in Runs, Finishes(r), Settles(r) PROVE G
  <2>0. process = "up" /\ Live' = Live \ {r}
    BY <1>5, FinishesLive DEF Finishes
  <2>a. \A q \in Live \ {r} : runs'[q] = runs[q]
    BY <1>5, FinishesFrees DEF Live
  <2>1. /\ process = "up" /\ Live' = Live \ {r}
        /\ \A q \in Live' : runs'[q] = runs[q]
    <3> HIDE DEF WTypeOK, ServesLive
    <3> QED BY <2>0, <2>a
  <2>2. CASE r # serving
    BY <1>5, <2>1, <2>2, SettlesOne
  <2>3. CASE r = serving
    <3>1. \A k \in Jobs : bull'[k] # "active"
      BY <1>5, <2>1, <2>3, SettlesOne
    <3> QED BY <1>5, <2>3, <3>1, SettlesOne
  <2> QED BY <2>2, <2>3
<1>6. ASSUME NEW j \in Jobs, Stalls(j) PROVE G
  BY <1>6, <1>k DEF Stalls, AfterStall, vars, Live
<1>7. ASSUME NEW j \in Jobs, CancelWorked(j) PROVE G
  <2>1. process = "up" /\ UNCHANGED <<bull, serving>>
    BY <1>7 DEF CancelWorked, CancelRoute
  <2>2. \A q \in Live : q \in Live' /\ runs'[q].job = runs[q].job
    BY <1>7, CancelsOne DEF CancelWorked, Live
  <2> QED BY <1>k, <2>1, <2>2
<1>8. CASE WorkerRestarts
  BY <1>8 DEF WorkerRestarts, Redelivered, AfterStall
<1>9. CASE Bystander /\ UNCHANGED bullVars
  BY <1>9, <1>k, BystanderKeepsRuns DEF bullVars
<1>10. ASSUME NEW j \in Jobs, AddArrives(j) PROVE G
  BY <1>10, <1>k DEF AddArrives, vars, Live
<1>11. ASSUME NEW j \in Jobs, AddFails(j) PROVE FALSE
  BY <1>11 DEF AddFails
<1>12. ASSUME NEW j \in Jobs, NEW s \in StageIds, ResumeWorked(j, s) PROVE G
  BY <1>12, <1>k, ResumesOne DEF ResumeWorked, env, Live
<1> QED BY <1>1, <1>2, <1>3, <1>4, <1>5, <1>6, <1>7, <1>8, <1>9, <1>10, <1>11, <1>12,
          WorkerNext

LEMMA LockServedStep ==
    ASSUME WTypeOK, SlotsOK, BullKnows, LockIsServed, [WNext]_wvars
    PROVE  LockIsServed'
<1> SUFFICES ASSUME process' = "up", lost' = {}, NEW k \in Jobs, job'[k].status = "running"
             PROVE  bull'[k] = "waiting" \/ \E r \in Live' : runs'[r].job = k
  BY DEF LockIsServed, Running
<1> USE DEF LockIsServed, WTypeOK, Running
<1> DEFINE G == bull'[k] = "waiting" \/ \E r \in Live' : runs'[r].job = k
<1>k. ASSUME process = "up", lost = {}, job[k].status = "running",
             bull[k] = "waiting" => bull'[k] = "waiting",
             \A q \in Live : runs[q].job = k => q \in Live' /\ runs'[q].job = k
      PROVE  G
  BY <1>k
<1>1. CASE UNCHANGED wvars
  BY <1>1, <1>k DEF wvars, vars, bullVars, Live
<1>2. ASSUME NEW j \in Jobs, NEW c \in ClientRequests \cup {NoClientRequest}, PostBullJob(j, c)
      PROVE  G
  <2>1. process = "up" /\ lost = {} /\ bull' = [bull EXCEPT ![j] = "adding"] /\ runs' = runs
    BY <1>2 DEF PostBullJob, Added
  <2> QED BY <1>2, <1>k, <2>1, PostsOne DEF Live
<1>3. ASSUME NEW j \in Jobs, NEW c \in Episodes, Submits(j, c), Added(j) PROVE G
  <2>1. process = "up" /\ \A q \in Live : q \in Live' /\ runs'[q].job = runs[q].job
    BY <1>3, BeginsOne DEF Submits, env, Live
  <2> QED BY <1>3, <1>k, <2>1, SubmitsOne DEF Added
<1>4. ASSUME NEW j \in Jobs, Delivers(j) PROVE G
  <2>1. process = "up" /\ lost = {} /\ bull' = [bull EXCEPT ![j] = "active"]
    BY <1>4 DEF Delivers
  <2>2. CASE k = j
    BY <1>4, <2>2, DeliversOne
  <2>3. CASE k # j
    <3>1. bull'[k] = bull[k] /\ job'[k] = job[k]
      BY <1>4, <2>1, <2>3, DeliversOne
    <3>2. \A q \in Live : q \in Live' /\ runs'[q] = runs[q]
      BY <1>4, DeliversOne DEF Live
    <3> QED BY <1>k, <2>1, <3>1, <3>2
  <2> QED BY <2>2, <2>3
<1>5. ASSUME NEW r \in Runs, Finishes(r), Settles(r) PROVE G
  <2>0. k # runs[r].job /\ job'[k] = job[k]
    BY <1>5, FinishesFrees
  <2>1. process = "up" /\ lost = {} /\ k # runs[r].job /\ job'[k] = job[k] /\ bull'[k] = bull[k]
    BY <1>5, <2>0, SettlesOne DEF Finishes
  <2>2. \A q \in Live : q # r => q \in Live' /\ runs'[q] = runs[q]
    BY <1>5, FinishesLive, FinishesFrees DEF Live
  <2> QED BY <1>k, <2>1, <2>2
<1>6. ASSUME NEW j \in Jobs, Stalls(j) PROVE G
  BY <1>6, <1>k DEF Stalls, vars, Live
<1>7. ASSUME NEW j \in Jobs, CancelWorked(j) PROVE G
  <2>1. process = "up" /\ lost = {} /\ UNCHANGED bull
    BY <1>7 DEF CancelWorked, CancelRoute
  <2>2. /\ k # j /\ job'[k] = job[k]
        /\ \A q \in Live : q \in Live' /\ runs'[q].job = runs[q].job
    BY <1>7, CancelsOne DEF CancelWorked, Live
  <2> QED BY <1>k, <2>1, <2>2
<1>8. CASE WorkerRestarts
  <2>1. job' = job /\ bull'[k] = Redelivered(k) /\ Redelivered(k) # "over"
    BY <1>8, ProcessEnds DEF WorkerRestarts, Active
  <2> QED BY <2>1 DEF Redelivered, AfterStall, BullKnows
<1>9. CASE Bystander /\ UNCHANGED bullVars
  <2>1. /\ process = "up" /\ lost = {} /\ UNCHANGED bull
        /\ \A q \in Live : q \in Live' /\ runs'[q].job = runs[q].job
    BY <1>9, BystanderKeepsRuns DEF bullVars
  <2>2. CASE job[k].status = "running"
    BY <1>k, <2>1, <2>2
  <2>3. CASE job[k].status # "running"
    <3>1. ~Crash /\ \A r \in Runs : ~Advances(r)
      BY <2>3, AdvancesKeeps DEF Crash
    <3>2. \A j \in Jobs : ~EvictionTimer(j)
      BY <2>3, EvictsOne
    <3>3. PICK j \in Jobs : Starts(j)
      BY <1>9, <2>3, <3>1, <3>2 DEF Bystander, Quiet, Rejoins, queueVars
    <3> QED BY <2>3, <3>3, StartsOne, StartsLive
  <2> QED BY <2>2, <2>3
<1>10. ASSUME NEW j \in Jobs, AddArrives(j) PROVE G
  BY <1>10, <1>k DEF AddArrives, vars, Live
<1>11. ASSUME NEW j \in Jobs, AddFails(j) PROVE FALSE
  BY <1>11 DEF AddFails
<1>12. ASSUME NEW j \in Jobs, NEW s \in StageIds, ResumeWorked(j, s) PROVE G
  <2>1. process = "up" /\ lost = {} /\ UNCHANGED bull
    BY <1>12 DEF ResumeWorked, ResumeRoute
  <2>2. k # j /\ job'[k] = job[k] /\ UNCHANGED runs
    BY <1>12, ResumesOne DEF ResumeWorked
  <2> QED BY <1>k, <2>1, <2>2 DEF Live
<1> QED BY <1>1, <1>2, <1>3, <1>4, <1>5, <1>6, <1>7, <1>8, <1>9, <1>10, <1>11, <1>12,
          WorkerNext

LEMMA NoJobForgottenStep ==
    ASSUME WTypeOK, SlotsOK, BullKnows, ServesLive, LockIsServed, NoJobForgotten,
           [WNext]_wvars
    PROVE  NoJobForgotten'
<1>0. LockIsServed'
  BY LockServedStep
<1> SUFFICES ASSUME process' = "up", lost' = {}, Queued(job') # {}
             PROVE  \/ Live' # {}
                    \/ \E j \in Jobs : bull'[j] \in {"adding", "waiting"}
                    \/ \E j \in Queued(job') : Woken(j)'
  BY DEF NoJobForgotten, Queued
<1> USE DEF NoJobForgotten, WTypeOK
<1> DEFINE W == \E j \in Jobs : bull'[j] \in {"adding", "waiting"}
           G == Live' # {} \/ W \/ \E j \in Queued(job') : Woken(j)'
<1>k. ASSUME process = "up", lost = {}, Queued(job') \subseteq Queued(job),
             \A j \in Jobs : bull[j] \in {"adding", "waiting"} => W,
             Live \subseteq Live',
             \A j \in Queued(job) : Woken(j) => G
      PROVE  G
  BY <1>k
<1>1. CASE UNCHANGED wvars
  BY <1>1 DEF wvars, vars, bullVars, Live, Woken
<1>2. ASSUME NEW j \in Jobs, Added(j) PROVE G
  BY <1>2 DEF Added
<1>3. ASSUME NEW j \in Jobs, NEW c \in ClientRequests \cup {NoClientRequest}, PostBullJob(j, c)
      PROVE  G
  BY <1>2, <1>3 DEF PostBullJob
<1>4. ASSUME NEW j \in Jobs, Delivers(j) PROVE G
  BY <1>4, DeliversOne
<1>5. ASSUME NEW r \in Runs, Finishes(r), Settles(r) PROVE G
  <2>1. SomebodyWoken'
    BY <1>5 DEF Finishes
  <2>2. CASE Running(job') # {}
    BY <1>0, <2>2 DEF LockIsServed, Running
  <2> QED BY <2>1, <2>2 DEF SomebodyWoken, Queued, Running
<1>6. ASSUME NEW j \in Jobs, Stalls(j) PROVE G
  <2>1. serving \in Live /\ UNCHANGED runs
    BY <1>6 DEF Stalls, ServesLive, vars
  <2> QED BY <2>1 DEF Live
<1>7. ASSUME NEW j \in Jobs, CancelWorked(j) PROVE G
  <2>1. /\ process = "up" /\ lost = {} /\ UNCHANGED <<bull, callbacks>>
        /\ Woken(j) => \A n \in Queued(job) \ {j} : bull[n] # "over"
    BY <1>7 DEF CancelWorked, CancelRoute
  <2>2. Live' = Live /\ Queued(job') = Queued(job) \ {j}
    BY <1>7, CancelsOne DEF CancelWorked, Live, Queued
  <2>3. \A n \in Jobs : Woken(n)' <=> Woken(n)
    BY <2>1 DEF Woken, callbacks
  <2>4. ASSUME Woken(j) PROVE G
    <3>1. PICK n \in Queued(job) \ {j} : bull[n] # "over" /\ bull[n] # "none"
      BY <2>1, <2>2, <2>4 DEF BullKnows, Queued
    <3>2. n \in Jobs /\ bull[n] \in {"adding", "waiting", "active"}
      BY <3>1 DEF Queued
    <3> QED BY <2>1, <2>2, <3>2 DEF ServesLive
  <2>5. ASSUME ~Woken(j), NEW n \in Queued(job), Woken(n) PROVE G
    BY <2>2, <2>3, <2>5 DEF Queued
  <2> QED BY <1>k, <2>1, <2>2, <2>4, <2>5
<1>8. CASE WorkerRestarts
  <2>1. PICK n \in Queued(job) : Redelivered(n) # "over" /\ bull[n] # "none"
    BY <1>8, ProcessEnds DEF WorkerRestarts, Active, BullKnows, Queued
  <2>2. n \in Jobs /\ bull'[n] = "waiting"
    BY <1>8, <2>1 DEF WorkerRestarts, Redelivered, AfterStall, Queued
  <2> QED BY <2>2
<1>9. CASE Bystander /\ UNCHANGED bullVars
  <2>1. /\ process = "up" /\ lost = {} /\ UNCHANGED bull
        /\ Live \subseteq Live'
    BY <1>9, BystanderKeepsRuns DEF bullVars
  <2>2. Queued(job') \subseteq Queued(job)
    BY <1>9, BystanderKeepsJobs DEF Queued
  <2>3. ASSUME NEW n \in Queued(job), Woken(n) PROVE G
    <3>1. CASE Running(job) # {}
      BY <2>1, <3>1 DEF LockIsServed, Running
    <3>2. CASE Running(job) = {} /\ WakesKept /\ job' = job
      BY <2>3, <3>2 DEF WakesKept, CanStart, Queued
    <3>3. ASSUME NEW r \in Runs, Advances(r) PROVE G
      BY <3>3, AdvancesLive
    <3>4. ASSUME NEW j \in Jobs, Starts(j) PROVE G
      BY <3>4, StartsLive
    <3>5. ASSUME NEW j \in Jobs, EvictionTimer(j) PROVE G
      <4>1. n \in Queued(job') /\ UNCHANGED callbacks
        BY <2>3, <3>5, EvictsOne DEF EvictionTimer, Queued, Terminal
      <4> QED BY <2>3, <4>1 DEF Woken, callbacks
    <3>6. ASSUME NEW j \in Jobs, Rejoins(j) PROVE G
      <4>1. n \in Queued(job') /\ UNCHANGED callbacks
        BY <2>3, <3>6 DEF Rejoins, Queued, queueVars
      <4> QED BY <2>3, <4>1 DEF Woken, callbacks
    <3> QED BY <1>9, <3>1, <3>2, <3>3, <3>4, <3>5, <3>6 DEF Bystander, Quiet, Crash
  <2> QED BY <1>k, <2>1, <2>2, <2>3
<1>10. ASSUME NEW j \in Jobs, AddArrives(j) PROVE G
  <2>1. bull'[j] = "waiting"
    BY <1>10 DEF AddArrives
  <2> QED BY <2>1
<1>11. ASSUME NEW j \in Jobs, AddFails(j) PROVE FALSE
  BY <1>11 DEF AddFails
<1>12. ASSUME NEW j \in Jobs, NEW s \in StageIds, ResumeWorked(j, s) PROVE G
  <2>1. /\ process = "up" /\ UNCHANGED <<bull, runs>>
        /\ bull[j] # "over"
    BY <1>12 DEF ResumeWorked, ResumeRoute
  <2>2. bull[j] # "none"
    BY <1>12, ResumesOne DEF ResumeWorked, BullKnows, Terminal
  <2>3. CASE bull[j] = "active"
    BY <2>1, <2>3 DEF ServesLive, Live
  <2>4. CASE bull[j] \in {"adding", "waiting"}
    BY <2>1, <2>4
  <2> QED BY <2>1, <2>2, <2>3, <2>4
<1> QED BY <1>1, <1>2, <1>3, <1>4, <1>5, <1>6, <1>7, <1>8, <1>9, <1>10, <1>11, <1>12,
          WorkerNext

(* What the worker awaits, the lock and the queued jobs, step after step.  *)
LEMMA WorkerInvariant == WSpec => [](ServesLive /\ LockIsServed /\ NoJobForgotten)
<1> DEFINE I == ServesLive /\ LockIsServed /\ NoJobForgotten
<1>1. WInit => I
  <2>1. WInit => Queued(job) = {} /\ Running(job) = {}
    BY DEF WInit, PInit, Init, FreshJob, Queued, Running
  <2>2. WInit => ServesLive
    BY DEF WInit, ServesLive
  <2> QED BY <2>1, <2>2 DEF LockIsServed, NoJobForgotten
<1>2. WTypeOK /\ SlotsOK /\ BullKnows /\ I /\ [WNext]_wvars => I'
  BY ServesStep, LockServedStep, NoJobForgottenStep
<1>3. WSpec => []I
  <2> HIDE DEF I
  <2> QED BY <1>1, <1>2, WorkerWellFormed, PTL DEF WSpec
<1> QED BY <1>3

(* No accepted job is forgotten: whatever clients submit, cancel, resume   *)
(* and reorder, through failures, stalls, evictions and deaths of the      *)
(* process, BullMQ has a job to deliver or is about to be told of one, a   *)
(* pipeline is alive, or a callback leads to a queued job.  The exceptions *)
(* are those of NoJobForgotten, which it lists: an add or a callback that  *)
(* died with the process, a job found stalled twice, a cancelled wake-up,  *)
(* a resume after BullMQ was done with the job.                            *)
THEOREM WorkerForgetsNoJob == WSpec => []NoJobForgotten
BY WorkerInvariant, PTL

(* The SINGLE-VIDEO LOCK is always given back under BullMQ, whatever       *)
(* clients do: a job that is running has a live pipeline or, after a death *)
(* of the process, a delivery ahead.  Here too until a job is lost as      *)
(* NoJobForgotten says: a job found stalled a second time when its process *)
(* dies stays "running" with nobody to run it.                             *)
THEOREM WorkerGivesLockBack == WSpec => []LockIsServed
BY WorkerInvariant, PTL

(* Whatever stalls, is delivered again, cancelled or evicted under it, the *)
(* worker awaits a pipeline that is alive, and a job that BullMQ holds for *)
(* active is that pipeline's: so at most one is.                           *)
THEOREM WorkerAwaitsItsPipeline == WSpec => []ServesLive
BY WorkerInvariant, PTL

-----------------------------------------------------------------------------
(* The lifecycle of a job under BullMQ                                     *)

(* The delivery of a job that is over, or evicted, puts a fresh record in  *)
(* the queue: its retries are forgotten.                                   *)
Revives(j) ==
    /\ bull[j] = "waiting" /\ job[j].status \in Terminal \cup {"gone"}
    /\ job'[j].status = "queued" /\ job'[j].retryCount = 0
    /\ \A k \in Jobs \ {j} : job'[k] = job[k]

(* Every step is one of the abstract lifecycle, does not show there, or is *)
(* such a delivery.                                                        *)
LifecycleButForDeliveries ==
    [][Lifecycle!Next \/ UNCHANGED Lifecycle!vars \/ \E j \in Jobs : Revives(j)]_wvars

LEMMA DeliveryStep ==
    ASSUME WTypeOK, BullKnows, NEW j \in Jobs, Delivers(j)
    PROVE  job' = job \/ Revives(j)
<1>0. job \in [Jobs -> VideoJob]
  BY DEF WTypeOK, PTypeOK, TypeOK
<1>1. CASE j \in Active(job)
  BY <1>1 DEF Delivers
<1>2. CASE j \notin Active(job)
  <2> DEFINE v == FreshJob("queued", job[j].clientRequestId, clock)
  <2>1. v.status = "queued" /\ v.retryCount = 0
    BY DEF FreshJob
  <2>2. job' = [job EXCEPT ![j] = v] /\ bull[j] = "waiting"
    BY <1>0, <1>2 DEF Delivers, Restored
  <2>3. job[j].status \in Terminal \cup {"gone"}
    BY <1>0, <1>2, <2>2 DEF BullKnows, Active, Queued, Running, VideoJob, Status, Terminal, Absent
  <2> HIDE DEF v
  <2> QED BY <1>0, <2>1, <2>2, <2>3 DEF Revives
<1> QED BY <1>1, <1>2

LEMMA WorkerLifecycleStep ==
    ASSUME WTypeOK, SlotsOK, BullKnows, [WNext]_wvars
    PROVE  \/ Lifecycle!Next \/ UNCHANGED Lifecycle!vars
           \/ \E j \in Jobs : Revives(j)
<1>0. PTypeOK /\ TypeOK
  BY DEF WTypeOK, PTypeOK
<1>1. ASSUME [PNext]_vars PROVE [Lifecycle!Next]_Lifecycle!vars
  BY <1>0, <1>1, PipelineLifecycleStep
<1>2. ASSUME NEW j \in Jobs, NEW c \in ClientRequests \cup {NoClientRequest},
             PostBullJob(j, c)
      PROVE  [Lifecycle!Next]_Lifecycle!vars
  BY <1>0, <1>2, LifecycleStep DEF PostBullJob, QueueNext
<1>3. ASSUME NEW j \in Jobs, Delivers(j)
      PROVE  UNCHANGED Lifecycle!vars \/ Revives(j)
  <2>1. job' = job => UNCHANGED Lifecycle!vars
    BY DEF Lifecycle!vars
  <2> QED BY <1>3, <2>1, DeliveryStep
<1>4. CASE UNCHANGED wvars
  BY <1>1, <1>4 DEF wvars
<1>5. CASE Unwatched
  BY <1>1, <1>5 DEF Unwatched, PNext, Requests
<1>6. CASE WorkerRestarts
  BY <1>1, <1>6 DEF WorkerRestarts, PNext
<1>7. ASSUME NEW j \in Jobs, CancelWorked(j) \/ Stalls(j) \/ AddArrives(j)
      PROVE  [PNext]_vars
  BY <1>7 DEF CancelWorked, Stalls, AddArrives, PNext, Requests
<1>8. ASSUME NEW j \in Jobs, NEW c \in Episodes, ProduceBullEpisode(j, c) PROVE PNext
  BY <1>8 DEF ProduceBullEpisode, PNext, Requests
<1>9. ASSUME NEW r \in Runs, WorkedStep(r) PROVE PNext
  BY <1>9 DEF WorkedStep, PNext
<1>10. ASSUME NEW j \in Jobs, NEW s \in StageIds, ResumeWorked(j, s) PROVE PNext
  BY <1>10 DEF ResumeWorked, PNext, Requests
<1>11. ASSUME NEW j \in Jobs, AddFails(j) PROVE UNCHANGED Lifecycle!vars
  BY <1>11 DEF AddFails, queueVars, Lifecycle!vars
<1> QED BY <1>1, <1>2, <1>3, <1>4, <1>5, <1>6, <1>7, <1>8, <1>9, <1>10, <1>11
        DEF WNext, AddSettles

(* Under BullMQ too, a job moves as the lifecycle says, inside its budget  *)
(* of retries, and the one departure is a delivery that revives a job:     *)
(* stalls, crashes, episodes and clients add no other.                     *)
THEOREM WorkerImplementsLifecycleButForDeliveries == WSpec => LifecycleButForDeliveries
<1>1. WTypeOK /\ SlotsOK /\ BullKnows /\ [WNext]_wvars =>
        [Lifecycle!Next \/ UNCHANGED Lifecycle!vars \/ \E j \in Jobs : Revives(j)]_wvars
  BY WorkerLifecycleStep
<1> QED BY <1>1, WorkerWellFormed, PTL DEF WSpec, LifecycleButForDeliveries

(* The SINGLE-VIDEO LOCK holds under BullMQ, for any number of jobs and    *)
(* deliveries: no two jobs are "running", though several pipelines may be  *)
(* alive.                                                                  *)
THEOREM WorkerSingleVideoLock == WSpec => []SingleVideoLock
<1>1. WInit => SingleVideoLock
  BY DEF WInit, PInit, Init, FreshJob, SingleVideoLock, Running
<1>2. WTypeOK /\ SlotsOK /\ BullKnows /\ SingleVideoLock /\ [WNext]_wvars => SingleVideoLock'
  <2> SUFFICES ASSUME WTypeOK, SlotsOK, BullKnows, SingleVideoLock, [WNext]_wvars
               PROVE  SingleVideoLock'
    OBVIOUS
  <2>1. TypeOK /\ TypeOK'
    BY WorkedPipelineStep DEF WTypeOK, PTypeOK
  <2>2. ASSUME NEW j \in Jobs, Revives(j) PROVE SingleVideoLock'
    <3>1. Running(job') \subseteq Running(job)
      BY <2>2 DEF Revives, Running
    <3> QED BY <3>1 DEF SingleVideoLock
  <2> QED BY <2>1, <2>2, WorkerLifecycleStep, LifecycleKeepsLock
<1> QED BY <1>1, <1>2, WorkerWellFormed, PTL DEF WSpec
=============================================================================
