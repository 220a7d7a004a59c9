------------------------- MODULE VideoQueue_proofs -------------------------
(***************************************************************************)
(* Proofs about VideoQueue, for any number of jobs, stages and retries.    *)
(* First what each operation makes of the registry (its type, the status   *)
(* and the retryCount of every job), then the type invariant, the          *)
(* SINGLE-VIDEO LOCK, the retry schedules and the implementation of        *)
(* VideoLifecycle.                                                         *)
(***************************************************************************)
EXTENDS VideoQueue, TLAPS

(* The registry g differs from r in job j only, which gets status s and    *)
(* retryCount n.                                                           *)
MovesTo(r, g, j, s, n) ==
    /\ g \in [Jobs -> VideoJob]
    /\ \A k \in Jobs \ {j} : g[k] = r[k]
    /\ g[j].status = s
    /\ g[j].retryCount = n

(* An entry replaced by another one moves to its status and retryCount.    *)
LEMMA EntryMoves ==
    ASSUME NEW r \in [Jobs -> VideoJob], NEW j \in Jobs, NEW v \in VideoJob,
           NEW g, g = [r EXCEPT ![j] = v],
           NEW s, NEW n, s = v.status, n = v.retryCount
    PROVE  MovesTo(r, g, j, s, n)
BY DEF MovesTo

(* A new status with its retry schedule changes nothing else.              *)
LEMMA StatusMoves ==
    ASSUME NEW r \in [Jobs -> VideoJob], NEW j \in Jobs,
           NEW s \in Status, NEW b \in BOOLEAN, NEW g,
           g = [r EXCEPT ![j].status = s, ![j].nextRetryAt = b]
    PROVE  MovesTo(r, g, j, s, r[j].retryCount)
<1> DEFINE v == [r[j] EXCEPT !.status = s, !.nextRetryAt = b]
<1>1. v \in VideoJob /\ v.status = s /\ v.retryCount = r[j].retryCount
  <2>1. r[j] \in VideoJob
    OBVIOUS
  <2> QED BY <2>1, Zenon DEF VideoJob
<1>2. g = [r EXCEPT ![j] = v]
  OBVIOUS
<1> HIDE DEF v
<1> QED BY <1>1, <1>2, EntryMoves

(* startJob only makes the job "running".                                  *)
LEMMA StartedMoves ==
    ASSUME NEW r \in [Jobs -> VideoJob], NEW j \in Jobs
    PROVE  MovesTo(r, Started(r, j), j, "running", r[j].retryCount)
BY StatusMoves DEF Started, Status, Terminal

(* A progress record changes no status.                                    *)
LEMMA StageRecordedMoves ==
    ASSUME NEW r \in [Jobs -> VideoJob], NEW j \in Jobs,
           NEW s \in StageIds, NEW m \in {"started", "done"}
    PROVE  MovesTo(r, StageRecorded(r, j, s, m), j, r[j].status, r[j].retryCount)
BY DEF MovesTo, StageRecorded, VideoJob

(* completeJob only makes the job "completed".                             *)
LEMMA CompletedMoves ==
    ASSUME NEW r \in [Jobs -> VideoJob], NEW j \in Jobs
    PROVE  MovesTo(r, Completed(r, j), j, "completed", r[j].retryCount)
BY StatusMoves DEF Completed, Status, Terminal

(* failJob re-queues inside the budget and spends one attempt ...          *)
LEMMA FailedRequeues ==
    ASSUME NEW r \in [Jobs -> VideoJob], NEW j \in Jobs, NEW retryable \in BOOLEAN,
           Retries(r, j, retryable)
    PROVE  MovesTo(r, Failed(r, j, retryable), j, "queued", r[j].retryCount + 1)
<1> DEFINE n == r[j].retryCount + 1
           v == [r[j] EXCEPT !.status = "queued", !.nextRetryAt = FALSE,
                             !.retryCount = n, !.stages = NoStages]
<1>1. n \in Nat
  BY DEF VideoJob
<1>2. NoStages \in [StageIds -> {"none", "started", "done"}]
  BY DEF NoStages
<1>3. Failed(r, j, retryable) = [r EXCEPT ![j] = v]
  BY DEF Failed
<1> HIDE DEF n
<1>4. v \in VideoJob /\ v.status = "queued" /\ v.retryCount = n
  BY <1>1, <1>2, Zenon DEF VideoJob, Status
<1> HIDE DEF v
<1>5. MovesTo(r, Failed(r, j, retryable), j, "queued", n)
  BY <1>3, <1>4 DEF MovesTo
<1> QED BY <1>5 DEF n

(* ... and otherwise fails the job for good.                               *)
LEMMA FailedFails ==
    ASSUME NEW r \in [Jobs -> VideoJob], NEW j \in Jobs, NEW retryable \in BOOLEAN,
           ~Retries(r, j, retryable)
    PROVE  MovesTo(r, Failed(r, j, retryable), j, "failed", r[j].retryCount)
BY StatusMoves DEF Failed, Status, Terminal

(* A retry schedule changes no status.                                     *)
LEMMA RetryScheduledMoves ==
    ASSUME NEW r \in [Jobs -> VideoJob], NEW j \in Jobs
    PROVE  MovesTo(r, RetryScheduled(r, j), j, r[j].status, r[j].retryCount)
<1> DEFINE v == [r[j] EXCEPT !.nextRetryAt = TRUE]
<1>1. v \in VideoJob /\ v.status = r[j].status /\ v.retryCount = r[j].retryCount
  <2>1. r[j] \in VideoJob
    OBVIOUS
  <2> QED BY <2>1, Zenon DEF VideoJob
<1>2. RetryScheduled(r, j) = [r EXCEPT ![j] = v]
  BY DEF RetryScheduled
<1> HIDE DEF v
<1> QED BY <1>1, <1>2, EntryMoves

(* cancelJob only makes the job "cancelled".                               *)
LEMMA CancelledMoves ==
    ASSUME NEW r \in [Jobs -> VideoJob], NEW j \in Jobs
    PROVE  MovesTo(r, Cancelled(r, j), j, "cancelled", r[j].retryCount)
BY StatusMoves DEF Cancelled, Status, Terminal

(* resumeJob queues the job and counts as an attempt.                      *)
LEMMA ResumedMoves ==
    ASSUME NEW r \in [Jobs -> VideoJob], NEW j \in Jobs
    PROVE  MovesTo(r, Resumed(r, j), j, "queued", r[j].retryCount + 1)
<1> DEFINE n == r[j].retryCount + 1
           v == [r[j] EXCEPT !.status = "queued", !.nextRetryAt = FALSE,
                             !.retryCount = n]
<1>1. n \in Nat
  BY DEF VideoJob
<1>2. Resumed(r, j) = [r EXCEPT ![j] = v]
  BY DEF Resumed
<1> HIDE DEF n
<1>3. v \in VideoJob /\ v.status = "queued" /\ v.retryCount = n
  BY <1>1, Zenon DEF VideoJob, Status
<1> HIDE DEF v
<1>4. MovesTo(r, Resumed(r, j), j, "queued", n)
  BY <1>2, <1>3 DEF MovesTo
<1> QED BY <1>4 DEF n

(* Eviction only makes the job "gone".                                     *)
LEMMA EvictedMoves ==
    ASSUME NEW r \in [Jobs -> VideoJob], NEW j \in Jobs
    PROVE  MovesTo(r, Evicted(r, j), j, "gone", r[j].retryCount)
BY DEF MovesTo, Evicted, VideoJob, Status, Absent

(* An operation that does not start j adds nothing to the "running" jobs.  *)
LEMMA NoNewRunning ==
    ASSUME NEW r \in [Jobs -> VideoJob], NEW g, NEW j \in Jobs, NEW s, NEW n,
           MovesTo(r, g, j, s, n),
           s # "running" \/ s = r[j].status
    PROVE  Running(g) \subseteq Running(r)
BY DEF MovesTo, Running

-----------------------------------------------------------------------------
(* Type correctness                                                        *)

(* A step of any caller keeps the registry, the Map order, the clock and   *)
(* the set of pending eviction timers well-typed.                          *)
LEMMA QueueTypeStep == TypeOK /\ [QueueNext]_queueVars => TypeOK'
<1> SUFFICES ASSUME TypeOK, [QueueNext]_queueVars
             PROVE  TypeOK'
  OBVIOUS
<1> USE DEF TypeOK
<1>1. CASE UNCHANGED queueVars
  BY <1>1 DEF queueVars
<1>2. ASSUME NEW j \in Jobs, NEW c \in ClientRequests \cup {NoClientRequest},
             Enqueue(j, c)
      PROVE  TypeOK'
  <2>1. clock' \in Nat
    BY <1>2 DEF Enqueue
  <2>2. FreshJob("queued", c, clock') \in VideoJob
    BY <2>1 DEF FreshJob, VideoJob, NoStages, Status
  <2> QED BY <1>2, <2>1, <2>2 DEF Enqueue
<1>3. ASSUME NEW j \in Jobs, StartJob(j) PROVE TypeOK'
  BY <1>3, StartedMoves DEF StartJob, MovesTo
<1>4. ASSUME NEW j \in Jobs, NEW s \in StageIds, NEW m \in {"started", "done"},
             RecordStageProgress(j, s, m)
      PROVE  TypeOK'
  BY <1>4, StageRecordedMoves DEF RecordStageProgress, MovesTo
<1>5. ASSUME NEW j \in Jobs, CompleteJob(j) PROVE TypeOK'
  BY <1>5, CompletedMoves DEF CompleteJob, MovesTo
<1>6. ASSUME NEW j \in Jobs, NEW retryable \in BOOLEAN, FailJob(j, retryable)
      PROVE  TypeOK'
  BY <1>6, FailedRequeues, FailedFails DEF FailJob, MovesTo
<1>7. ASSUME NEW j \in Jobs, SetRetrySchedule(j) PROVE TypeOK'
  BY <1>7, RetryScheduledMoves DEF SetRetrySchedule, MovesTo
<1>8. ASSUME NEW j \in Jobs, CancelJob(j) PROVE TypeOK'
  BY <1>8, CancelledMoves DEF CancelJob, MovesTo
<1>9. ASSUME NEW p \in Orderings, ReprioritizeQueue(p) PROVE TypeOK'
  <2>1. order' \in [1..Len(order) -> Jobs]
    BY <1>9 DEF ReprioritizeQueue, Registered
  <2> QED BY <1>9, <2>1 DEF ReprioritizeQueue
<1>10. ASSUME NEW j \in Jobs, NEW s \in StageIds, ResumeJob(j, s) PROVE TypeOK'
  BY <1>10, ResumedMoves DEF ResumeJob, MovesTo
<1>11. ASSUME NEW j \in Jobs, CleanupTimer(j) PROVE TypeOK'
  <2>1. CASE job[j].status \in Terminal
    <3>1. job' \in [Jobs -> VideoJob]
      BY <1>11, <2>1, EvictedMoves DEF CleanupTimer, MovesTo
    <3>2. PICK i \in DOMAIN order :
             order' = SubSeq(order, 1, i - 1) \o SubSeq(order, i + 1, Len(order))
      BY <1>11, <2>1 DEF CleanupTimer
    <3>3. /\ SubSeq(order, 1, i - 1) \in Seq(Jobs)
          /\ SubSeq(order, i + 1, Len(order)) \in Seq(Jobs)
      OBVIOUS
    <3>4. order' \in Seq(Jobs)
      BY <3>2, <3>3
    <3> QED BY <1>11, <3>1, <3>4 DEF CleanupTimer
  <2>2. CASE job[j].status \notin Terminal
    BY <1>11, <2>2 DEF CleanupTimer
  <2> QED BY <2>1, <2>2
<1>12. CASE Restart
  BY <1>12 DEF Restart, Registered
<1> QED BY <1>1, <1>2, <1>3, <1>4, <1>5, <1>6, <1>7, <1>8, <1>9, <1>10, <1>11, <1>12
         DEF QueueNext, CompleteStage

(* The registry is well-typed in every state, for every caller.            *)
THEOREM QueueTypeCorrect == QueueSpec => []TypeOK
<1>1. Init => TypeOK
  BY DEF Init, TypeOK, FreshJob, VideoJob, NoStages, Status, Absent
<1> QED BY <1>1, QueueTypeStep, PTL DEF QueueSpec

-----------------------------------------------------------------------------
(* The SINGLE-VIDEO LOCK                                                   *)

(* Only startJob makes a job "running", and only when none is.             *)
LEMMA LockStep ==
    TypeOK /\ SingleVideoLock /\ [QueueNext]_queueVars => SingleVideoLock'
<1> SUFFICES ASSUME TypeOK, SingleVideoLock, [QueueNext]_queueVars
             PROVE  SingleVideoLock'
  OBVIOUS
<1> USE DEF TypeOK
<1>1. ASSUME NEW j \in Jobs, StartJob(j) PROVE SingleVideoLock'
  <2>1. Running(job) = {} /\ MovesTo(job, job', j, "running", job[j].retryCount)
    BY <1>1, StartedMoves DEF StartJob, CanStart
  <2>2. Running(job') \subseteq {j}
    BY <2>1 DEF MovesTo, Running
  <2> QED BY <2>2 DEF SingleVideoLock, Running
<1>2. ASSUME Running(job') \subseteq Running(job) PROVE SingleVideoLock'
  BY <1>2 DEF SingleVideoLock, Running
<1>3. ASSUME NEW j \in Jobs, NEW c \in ClientRequests \cup {NoClientRequest},
             Enqueue(j, c)
      PROVE  Running(job') \subseteq Running(job)
  BY <1>3 DEF Enqueue, FreshJob, Running
<1>4. ASSUME NEW j \in Jobs, NEW s \in StageIds, NEW m \in {"started", "done"},
             RecordStageProgress(j, s, m)
      PROVE  Running(job') \subseteq Running(job)
  BY <1>4, StageRecordedMoves, NoNewRunning DEF RecordStageProgress
<1>5. ASSUME NEW j \in Jobs, CompleteJob(j)
      PROVE  Running(job') \subseteq Running(job)
  BY <1>5, CompletedMoves, NoNewRunning DEF CompleteJob
<1>6. ASSUME NEW j \in Jobs, NEW retryable \in BOOLEAN, FailJob(j, retryable)
      PROVE  Running(job') \subseteq Running(job)
  BY <1>6, FailedRequeues, FailedFails, NoNewRunning DEF FailJob
<1>7. ASSUME NEW j \in Jobs, SetRetrySchedule(j)
      PROVE  Running(job') \subseteq Running(job)
  BY <1>7, RetryScheduledMoves, NoNewRunning DEF SetRetrySchedule
<1>8. ASSUME NEW j \in Jobs, CancelJob(j)
      PROVE  Running(job') \subseteq Running(job)
  BY <1>8, CancelledMoves, NoNewRunning DEF CancelJob
<1>9. ASSUME NEW j \in Jobs, NEW s \in StageIds, ResumeJob(j, s)
      PROVE  Running(job') \subseteq Running(job)
  BY <1>9, ResumedMoves, NoNewRunning DEF ResumeJob
<1>10. ASSUME NEW j \in Jobs, CleanupTimer(j)
       PROVE  Running(job') \subseteq Running(job)
  BY <1>10, EvictedMoves, NoNewRunning DEF CleanupTimer
<1>11. CASE UNCHANGED job
  BY <1>2, <1>11
<1> QED BY <1>1, <1>2, <1>3, <1>4, <1>5, <1>6, <1>7, <1>8, <1>9, <1>10, <1>11
         DEF QueueNext, CompleteStage, ReprioritizeQueue, Restart, queueVars

(* SINGLE-VIDEO LOCK: whoever calls what in whatever order, no two jobs    *)
(* are "running" at once.                                                  *)
THEOREM QueueSingleVideoLock == QueueSpec => []SingleVideoLock
<1>1. Init => SingleVideoLock
  BY DEF Init, SingleVideoLock, Running, FreshJob
<1> QED BY <1>1, LockStep, QueueTypeCorrect, PTL DEF QueueSpec

-----------------------------------------------------------------------------
(* Retry schedules                                                         *)

(* nextRetryAt is set on queued jobs only: every operation that takes a    *)
(* job out of "queued" clears it.                                          *)
LEMMA ScheduleStep ==
    TypeOK /\ ScheduleOnlyWhileQueued /\ [QueueNext]_queueVars
      => ScheduleOnlyWhileQueued'
<1> SUFFICES ASSUME TypeOK, ScheduleOnlyWhileQueued, [QueueNext]_queueVars,
                    NEW k \in Jobs, job'[k].status \notin Absent, job'[k].nextRetryAt
             PROVE  job'[k].status = "queued"
  BY DEF ScheduleOnlyWhileQueued, Registered
<1>0. /\ job \in [Jobs -> VideoJob]
      /\ job[k].status \notin Absent /\ job[k].nextRetryAt => job[k].status = "queued"
  BY DEF TypeOK, ScheduleOnlyWhileQueued, Registered
<1>1. CASE UNCHANGED job
  BY <1>0, <1>1
<1>2. ASSUME NEW j \in Jobs, NEW c \in ClientRequests \cup {NoClientRequest},
             Enqueue(j, c)
      PROVE  job'[k].status = "queued"
  BY <1>0, <1>2 DEF Enqueue, FreshJob
<1>3. ASSUME NEW j \in Jobs, StartJob(j) PROVE job'[k].status = "queued"
  BY <1>0, <1>3 DEF StartJob, Started, VideoJob
<1>4. ASSUME NEW j \in Jobs, NEW s \in StageIds, NEW m \in {"started", "done"},
             RecordStageProgress(j, s, m)
      PROVE  job'[k].status = "queued"
  BY <1>0, <1>4 DEF RecordStageProgress, StageRecorded, VideoJob
<1>5. ASSUME NEW j \in Jobs, CompleteJob(j) PROVE job'[k].status = "queued"
  BY <1>0, <1>5 DEF CompleteJob, Completed, VideoJob
<1>6. ASSUME NEW j \in Jobs, NEW retryable \in BOOLEAN, FailJob(j, retryable)
      PROVE  job'[k].status = "queued"
  BY <1>0, <1>6 DEF FailJob, Failed, VideoJob
<1>7. ASSUME NEW j \in Jobs, SetRetrySchedule(j) PROVE job'[k].status = "queued"
  BY <1>0, <1>7 DEF SetRetrySchedule, RetryScheduled, Queued, VideoJob
<1>8. ASSUME NEW j \in Jobs, CancelJob(j) PROVE job'[k].status = "queued"
  BY <1>0, <1>8 DEF CancelJob, Cancelled, VideoJob
<1>9. ASSUME NEW j \in Jobs, NEW s \in StageIds, ResumeJob(j, s)
      PROVE  job'[k].status = "queued"
  BY <1>0, <1>9 DEF ResumeJob, Resumed, VideoJob
<1>10. ASSUME NEW j \in Jobs, CleanupTimer(j) PROVE job'[k].status = "queued"
  <2>1. job' = Evicted(job, j) \/ UNCHANGED job
    BY <1>10 DEF CleanupTimer
  <2> QED BY <1>0, <2>1 DEF Evicted, Absent, VideoJob
<1> QED BY <1>1, <1>2, <1>3, <1>4, <1>5, <1>6, <1>7, <1>8, <1>9, <1>10
         DEF QueueNext, CompleteStage, ReprioritizeQueue, Restart, queueVars

(* No job that runs, ended or was cancelled counts down to a retry.        *)
THEOREM QueueSchedules == QueueSpec => []ScheduleOnlyWhileQueued
<1>1. Init => ScheduleOnlyWhileQueued
  BY DEF Init, ScheduleOnlyWhileQueued, Registered, FreshJob, Absent
<1> QED BY <1>1, ScheduleStep, QueueTypeCorrect, PTL DEF QueueSpec

-----------------------------------------------------------------------------
(* VideoQueue implements VideoLifecycle                                    *)

(* The abstract status and attempts after a registry operation.            *)
LEMMA MovesAbstractly ==
    ASSUME TypeOK, NEW j \in Jobs, NEW s, NEW n, MovesTo(job, job', j, s, n)
    PROVE  /\ Lifecycle!Move(j, s)
           /\ [k \in Jobs |-> job[k].retryCount]' =
                 [[k \in Jobs |-> job[k].retryCount] EXCEPT ![j] = n]
BY DEF MovesTo, TypeOK, Lifecycle!Move

(* ... when the operation counts no attempt ...                            *)
LEMMA MovesKeepingAttempts ==
    ASSUME TypeOK, NEW j \in Jobs, NEW s, MovesTo(job, job', j, s, job[j].retryCount)
    PROVE  Lifecycle!Move(j, s) /\ UNCHANGED [k \in Jobs |-> job[k].retryCount]
BY DEF MovesTo, TypeOK, Lifecycle!Move

(* ... and when it changes neither.                                        *)
LEMMA MovesNowhere ==
    ASSUME TypeOK, NEW j \in Jobs,
           MovesTo(job, job', j, job[j].status, job[j].retryCount)
    PROVE  UNCHANGED Lifecycle!vars
BY DEF MovesTo, TypeOK, Lifecycle!vars

(* What an operation on an active or a finished job is in the abstract.    *)
LEMMA MovesAreSteps ==
    ASSUME TypeOK, NEW j \in Jobs
    PROVE  /\ Mutable(job, j)
                /\ (\E s \in Terminal : MovesTo(job, job', j, s, job[j].retryCount))
              => Lifecycle!Finish(j)
           /\ Mutable(job, j) /\ job[j].retryCount < MaxRetries
                /\ MovesTo(job, job', j, "queued", job[j].retryCount + 1)
              => Lifecycle!Requeue(j)
           /\ job[j].status \in Terminal
                /\ MovesTo(job, job', j, "queued", job[j].retryCount + 1)
              => Lifecycle!Resume(j)
           /\ job[j].status \in Terminal
                /\ MovesTo(job, job', j, "gone", job[j].retryCount)
              => Lifecycle!Evict(j)
           /\ CanStart(job, j)
                /\ MovesTo(job, job', j, "running", job[j].retryCount)
              => Lifecycle!Start(j)
<1>1. Mutable(job, j) => job[j].status \in {"queued", "running"}
  BY DEF Mutable, Active, Queued, Running
<1>2. ASSUME Mutable(job, j), NEW s \in Terminal,
             MovesTo(job, job', j, s, job[j].retryCount)
      PROVE  Lifecycle!Finish(j)
  BY <1>1, <1>2, MovesKeepingAttempts DEF Lifecycle!Finish, Terminal, Lifecycle!Terminal
<1>3. ASSUME MovesTo(job, job', j, "queued", job[j].retryCount + 1)
      PROVE  /\ Lifecycle!Move(j, "queued")
             /\ [k \in Jobs |-> job[k].retryCount]' =
                   [[k \in Jobs |-> job[k].retryCount] EXCEPT ![j] = @ + 1]
  BY <1>3, MovesAbstractly
<1>4. ASSUME Mutable(job, j), job[j].retryCount < MaxRetries,
             MovesTo(job, job', j, "queued", job[j].retryCount + 1)
      PROVE  Lifecycle!Requeue(j)
  BY <1>1, <1>3, <1>4 DEF Lifecycle!Requeue
<1>5. ASSUME job[j].status \in Terminal,
             MovesTo(job, job', j, "queued", job[j].retryCount + 1)
      PROVE  Lifecycle!Resume(j)
  BY <1>3, <1>5 DEF Lifecycle!Resume, Terminal, Lifecycle!Terminal
<1>6. ASSUME job[j].status \in Terminal,
             MovesTo(job, job', j, "gone", job[j].retryCount)
      PROVE  Lifecycle!Evict(j)
  BY <1>6, MovesKeepingAttempts DEF Lifecycle!Evict, Terminal, Lifecycle!Terminal
<1>7. ASSUME CanStart(job, j), MovesTo(job, job', j, "running", job[j].retryCount)
      PROVE  Lifecycle!Start(j)
  BY <1>7, MovesKeepingAttempts DEF Lifecycle!Start, CanStart, Queued, Running
<1> QED BY <1>2, <1>4, <1>5, <1>6, <1>7

(* Every operation of the registry is a step of the abstract lifecycle, or *)
(* does not show there.                                                    *)
LEMMA LifecycleStep ==
    TypeOK /\ [QueueNext]_queueVars => [Lifecycle!Next]_Lifecycle!vars
<1> SUFFICES ASSUME TypeOK, [QueueNext]_queueVars
             PROVE  [Lifecycle!Next]_Lifecycle!vars
  OBVIOUS
<1>0. job \in [Jobs -> VideoJob]
  BY DEF TypeOK
<1>1. CASE UNCHANGED job
  BY <1>1 DEF Lifecycle!vars
<1>2. ASSUME NEW j \in Jobs, NEW c \in ClientRequests \cup {NoClientRequest},
             Enqueue(j, c)
      PROVE  Lifecycle!Submit(j)
  <2>1. job[j].status = "none" /\ job' = [job EXCEPT ![j] = FreshJob("queued", c, clock')]
    BY <1>2 DEF Enqueue
  <2> QED BY <1>0, <2>1 DEF FreshJob, Lifecycle!Submit, Lifecycle!Move
<1>3. ASSUME NEW j \in Jobs, StartJob(j) PROVE Lifecycle!Start(j)
  BY <1>0, <1>3, StartedMoves, MovesAreSteps DEF StartJob
<1>4. ASSUME NEW j \in Jobs, NEW s \in StageIds, NEW m \in {"started", "done"},
             RecordStageProgress(j, s, m)
      PROVE  UNCHANGED Lifecycle!vars
  BY <1>0, <1>4, StageRecordedMoves, MovesNowhere DEF RecordStageProgress
<1>5. ASSUME NEW j \in Jobs, CompleteJob(j) PROVE Lifecycle!Finish(j)
  BY <1>0, <1>5, CompletedMoves, MovesAreSteps DEF CompleteJob, Terminal
<1>6. ASSUME NEW j \in Jobs, NEW retryable \in BOOLEAN, FailJob(j, retryable)
      PROVE  Lifecycle!Requeue(j) \/ Lifecycle!Finish(j)
  <2>1. CASE Retries(job, j, retryable)
    BY <1>0, <1>6, <2>1, FailedRequeues, MovesAreSteps DEF FailJob, Retries
  <2>2. CASE ~Retries(job, j, retryable)
    BY <1>0, <1>6, <2>2, FailedFails, MovesAreSteps DEF FailJob, Terminal
  <2> QED BY <2>1, <2>2
<1>7. ASSUME NEW j \in Jobs, SetRetrySchedule(j) PROVE UNCHANGED Lifecycle!vars
  BY <1>0, <1>7, RetryScheduledMoves, MovesNowhere DEF SetRetrySchedule
<1>8. ASSUME NEW j \in Jobs, CancelJob(j) PROVE Lifecycle!Finish(j)
  BY <1>0, <1>8, CancelledMoves, MovesAreSteps DEF CancelJob, Terminal
<1>9. ASSUME NEW j \in Jobs, NEW s \in StageIds, ResumeJob(j, s)
      PROVE  Lifecycle!Resume(j)
  BY <1>0, <1>9, ResumedMoves, MovesAreSteps DEF ResumeJob
<1>10. ASSUME NEW j \in Jobs, CleanupTimer(j)
       PROVE  Lifecycle!Evict(j) \/ UNCHANGED job
  BY <1>0, <1>10, EvictedMoves, MovesAreSteps DEF CleanupTimer
<1> QED
  BY <1>1, <1>2, <1>3, <1>4, <1>5, <1>6, <1>7, <1>8, <1>9, <1>10
     DEF QueueNext, CompleteStage, ReprioritizeQueue, Restart, queueVars, Lifecycle!Next

(* video-queue.ts implements the abstract job lifecycle: one job running,  *)
(* a terminal job moves only by resume or eviction, an attempt is counted  *)
(* on each way back to the queue.                                          *)
THEOREM QueueImplementsLifecycle == QueueSpec => LifecycleSpec
<1>1. Init => Lifecycle!Init
  BY DEF Init, FreshJob, Lifecycle!Init
<1> QED
  BY <1>1, LifecycleStep, QueueTypeCorrect, PTL
     DEF QueueSpec, LifecycleSpec, Lifecycle!Spec
=============================================================================
