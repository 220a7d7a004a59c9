---------------------------- MODULE VideoQueue ----------------------------
(***************************************************************************)
(* apps/swarmx-api/src/services/video-queue.ts: the registry of video jobs *)
(* and the operations on it, called by anybody in any order.  Each         *)
(* operation is one synchronous function of a single-threaded Node         *)
(* process, hence one action; a call that throws or returns null changes   *)
(* nothing, hence a disabled action.                                       *)
(*                                                                         *)
(* Abstractions.  persistJob() rewrites the snapshot synchronously in      *)
(* every operation, so the snapshot always equals the registry and Restart *)
(* (hydrateVideoQueueFromDisk) keeps job and order; a failed disk write,   *)
(* which the code logs and forgets, is left out.  Times are a logical      *)
(* clock, progress percentages, messages, outputs and errorLog are left    *)
(* out.  The BullMQ mirror is off (setBullMQRuntimeEnabled(false)).        *)
(***************************************************************************)
EXTENDS Integers, Sequences, FiniteSets

CONSTANTS
    Jobs,            \* ids randomUUID() may hand out
    NumStages,       \* length of VIDEO_JOB_STAGE_ORDER
    ClientRequests,  \* values of clientRequestId
    NoClientRequest, \* clientRequestId === undefined
    MaxQueueSize,    \* SWARMX_VIDEO_QUEUE_MAX_SIZE
    MaxRetries,      \* SWARMX_VIDEO_MAX_RETRIES
    MaxRetryCount,   \* bound: resumeJob is explored up to this retryCount
    Orderings        \* the orderedIds that reprioritizeQueue may be given

ASSUME QueueAssumption ==
    /\ NumStages     \in Nat \ {0}
    /\ MaxQueueSize  \in Nat \ {0}
    /\ MaxRetries    \in Nat
    /\ MaxRetryCount \in Nat
    /\ NoClientRequest \notin ClientRequests
    /\ Orderings \subseteq Seq(Jobs)

VARIABLES
    job,      \* the registry Map's values: the VideoJob of each id ...
    order,    \* ... and its keys, in iteration order
    clock,    \* now()
    cleanup   \* ids whose one-shot JOB_TTL_MS timer is pending

queueVars == <<job, order, clock, cleanup>>

-----------------------------------------------------------------------------
(* Job records                                                             *)

StageIds == 1..NumStages
Terminal == {"completed", "failed", "cancelled"}
Absent   == {"none", "gone"}       \* never submitted; evicted by its TTL
Status   == Absent \cup Terminal \cup {"queued", "running"}

VideoJob ==
    [status          : Status,
     retryCount      : Nat,
     createdAt       : Nat,
     clientRequestId : ClientRequests \cup {NoClientRequest},
     nextRetryAt     : BOOLEAN,    \* TRUE while nextRetryAt is set
     stages          : [StageIds -> {"none", "started", "done"}]]

NoStages == [s \in StageIds |-> "none"]

FreshJob(s, c, t) ==
    [status |-> s, retryCount |-> 0, createdAt |-> t, clientRequestId |-> c,
     nextRetryAt |-> FALSE, stages |-> NoStages]

TypeOK ==
    /\ job     \in [Jobs -> VideoJob]
    /\ order   \in Seq(Jobs)
    /\ clock   \in Nat
    /\ cleanup \subseteq Jobs

-----------------------------------------------------------------------------
(* Views of a registry r                                                   *)

Registered(r) == {j \in Jobs : r[j].status \notin Absent}
Queued(r)     == {j \in Jobs : r[j].status = "queued"}
Running(r)    == {j \in Jobs : r[j].status = "running"}
Active(r)     == Queued(r) \cup Running(r)

(* assertMutable lets an operation through.                                *)
Mutable(r, j) == j \in Active(r)

(* a comes before b in the Map o.                                          *)
Before(o, a, b) == \E i, k \in DOMAIN o : i < k /\ o[i] = a /\ o[k] = b

IsFirst(o, S, j) == j \in S /\ \A k \in S \ {j} : Before(o, j, k)

(* The job enqueue() answers a repeated clientRequestId with.              *)
Duplicates(r, c) ==
    {j \in Active(r) : c # NoClientRequest /\ r[j].clientRequestId = c}

Full(r) == Cardinality(Active(r)) >= MaxQueueSize

(* Mutant of CanStart: the SINGLE-VIDEO LOCK is not looked at.             *)
CanStartUnlocked(r, j) == j \in Queued(r)

(* startJob(j) does not return null.                                       *)
CanStart(r, j) == j \in Queued(r) /\ Running(r) = {}

(* dequeueNext() returns j: oldest createdAt, the Map's order on a tie.    *)
Dequeues(r, o, j) ==
    /\ Running(r) = {}
    /\ IsFirst(o, {k \in Queued(r) :
                     \A i \in Queued(r) : r[k].createdAt <= r[i].createdAt}, j)

-----------------------------------------------------------------------------
(* What each operation makes of a registry                                 *)

Started(r, j) ==
    [r EXCEPT ![j].status = "running", ![j].nextRetryAt = FALSE]

StageRecorded(r, j, s, mark) == [r EXCEPT ![j].stages[s] = mark]

Completed(r, j) ==
    [r EXCEPT ![j].status = "completed", ![j].nextRetryAt = FALSE]

(* Mutant of Retries: off by one.                                          *)
RetriesOnceMore(r, j, retryable) == retryable /\ r[j].retryCount <= MaxRetries

Retries(r, j, retryable) == retryable /\ r[j].retryCount < MaxRetries

(* Mutant of Failed: counts the attempts down.                             *)
FailedCountsDown(r, j, retryable) ==
    IF Retries(r, j, retryable)
    THEN [r EXCEPT ![j].status = "queued", ![j].nextRetryAt = FALSE,
                   ![j].retryCount = @ - 1, ![j].stages = NoStages]
    ELSE [r EXCEPT ![j].status = "failed", ![j].nextRetryAt = FALSE]

Failed(r, j, retryable) ==
    IF Retries(r, j, retryable)
    THEN [r EXCEPT ![j].status = "queued", ![j].nextRetryAt = FALSE,
                   ![j].retryCount = @ + 1, ![j].stages = NoStages]
    ELSE [r EXCEPT ![j].status = "failed", ![j].nextRetryAt = FALSE]

RetryScheduled(r, j) == [r EXCEPT ![j].nextRetryAt = TRUE]

(* Mutant of Cancelled: the retry schedule is left behind.                 *)
CancelledScheduled(r, j) == [r EXCEPT ![j].status = "cancelled"]

Cancelled(r, j) ==
    [r EXCEPT ![j].status = "cancelled", ![j].nextRetryAt = FALSE]

(* Mutant of Resumed: straight to "running".                               *)
ResumedRunning(r, j) ==
    [r EXCEPT ![j].status = "running", ![j].nextRetryAt = FALSE,
              ![j].retryCount = @ + 1]

Resumed(r, j) ==
    [r EXCEPT ![j].status = "queued", ![j].nextRetryAt = FALSE,
              ![j].retryCount = @ + 1]

Evicted(r, j) == [r EXCEPT ![j].status = "gone"]

-----------------------------------------------------------------------------
(* The operations                                                          *)

Init ==
    /\ job     = [j \in Jobs |-> FreshJob("none", NoClientRequest, 0)]
    /\ order   = << >>
    /\ clock   = 0
    /\ cleanup = {}

(* The next id of randomUUID(): nothing depends on the ids, so they are    *)
(* handed out in one fixed order.                                          *)
FreshId == CHOOSE j \in Jobs : job[j].status = "none"

(* enqueue() that makes a new job: capacity is checked first, then the     *)
(* clientRequestId.                                                        *)
Enqueue(j, c) ==
    /\ ~Full(job)
    /\ Duplicates(job, c) = {}
    /\ job[j].status = "none" /\ j = FreshId
    /\ clock' \in {clock, clock + 1}
    /\ job'     = [job EXCEPT ![j] = FreshJob("queued", c, clock')]
    /\ order'   = Append(order, j)
    /\ cleanup' = cleanup \cup {j}

StartJob(j) ==
    /\ CanStart(job, j)
    /\ job' = Started(job, j)
    /\ UNCHANGED <<order, clock, cleanup>>

(* A stage's first progress record has no completedAt, its last one has.   *)
RecordStageProgress(j, s, mark) ==
    /\ Mutable(job, j)
    /\ job' = StageRecorded(job, j, s, mark)
    /\ UNCHANGED <<order, clock, cleanup>>

CompleteStage(j, s) == RecordStageProgress(j, s, "done")

CompleteJob(j) ==
    /\ Mutable(job, j)
    /\ job' = Completed(job, j)
    /\ UNCHANGED <<order, clock, cleanup>>

FailJob(j, retryable) ==
    /\ Mutable(job, j)
    /\ job' = Failed(job, j, retryable)
    /\ UNCHANGED <<order, clock, cleanup>>

SetRetrySchedule(j) ==
    /\ j \in Queued(job)
    /\ job' = RetryScheduled(job, j)
    /\ UNCHANGED <<order, clock, cleanup>>

CancelJob(j) ==
    /\ Mutable(job, j)
    /\ job' = Cancelled(job, j)
    /\ UNCHANGED <<order, clock, cleanup>>

(* Order of the Map after reprioritizeQueue(p) deleted and re-inserted     *)
(* every queued job: those p names in p's order, then the others by age.   *)
Listed(p) == {p[i] : i \in DOMAIN p}

Precedes(p, a, b) ==
    IF a \in Queued(job) /\ b \in Queued(job) /\ (a \in Listed(p) \/ b \in Listed(p))
    THEN a \in Listed(p) /\ (b \in Listed(p) => Before(p, a, b))
    ELSE IF a \in Queued(job) /\ b \in Queued(job)
    THEN \/ job[a].createdAt < job[b].createdAt
         \/ job[a].createdAt = job[b].createdAt /\ Before(order, a, b)
    ELSE a \notin Queued(job) /\ (b \notin Queued(job) => Before(order, a, b))

ReprioritizeQueue(p) ==
    /\ order' \in {o \in [DOMAIN order -> Registered(job)] :
                     /\ \A j \in Registered(job) : \E i \in DOMAIN o : o[i] = j
                     /\ \A i, k \in DOMAIN o : i < k => Precedes(p, o[i], o[k])}
    /\ UNCHANGED <<job, clock, cleanup>>

ResumeJob(j, s) ==
    /\ job[j].status \in Terminal
    /\ s > 1 => job[j].stages[s - 1] = "done"
    /\ job[j].retryCount < MaxRetryCount
    /\ job' = Resumed(job, j)
    /\ UNCHANGED <<order, clock, cleanup>>

(* The timer of scheduleCleanup() fires: once per job and process life.    *)
CleanupTimer(j) ==
    /\ j \in cleanup
    /\ cleanup' = cleanup \ {j}
    /\ IF job[j].status \in Terminal
       THEN /\ job' = Evicted(job, j)
            /\ \E i \in DOMAIN order :
                 /\ order[i] = j
                 /\ order' = SubSeq(order, 1, i - 1) \o SubSeq(order, i + 1, Len(order))
       ELSE UNCHANGED <<job, order>>
    /\ UNCHANGED clock

(* Mutant of Restart: every restored job is queued again.                  *)
RestartRequeues ==
    /\ cleanup' = Registered(job)
    /\ job' = [j \in Jobs |-> IF j \in Registered(job)
                              THEN [job[j] EXCEPT !.status = "queued"] ELSE job[j]]
    /\ UNCHANGED <<order, clock>>

(* hydrateVideoQueueFromDisk() of the next process.                        *)
Restart ==
    /\ cleanup' = Registered(job)
    /\ UNCHANGED <<job, order, clock>>

QueueNext ==
    \/ \E j \in Jobs, c \in ClientRequests \cup {NoClientRequest} : Enqueue(j, c)
    \/ \E j \in Jobs : StartJob(j)
    \/ \E j \in Jobs, s \in StageIds, m \in {"started", "done"} : RecordStageProgress(j, s, m)
    \/ \E j \in Jobs, s \in StageIds : CompleteStage(j, s)
    \/ \E j \in Jobs : CompleteJob(j)
    \/ \E j \in Jobs, retryable \in BOOLEAN : FailJob(j, retryable)
    \/ \E j \in Jobs : SetRetrySchedule(j)
    \/ \E j \in Jobs : CancelJob(j)
    \/ \E p \in Orderings : ReprioritizeQueue(p)
    \/ \E j \in Jobs, s \in StageIds : ResumeJob(j, s)
    \/ \E j \in Jobs : CleanupTimer(j)
    \/ Restart

QueueSpec == Init /\ [][QueueNext]_queueVars

-----------------------------------------------------------------------------
(* Properties                                                              *)

(* SINGLE-VIDEO LOCK (video-queue.ts:33): whoever calls startJob, in       *)
(* whatever order with failures, cancellations, resumes and restarts, the  *)
(* registry never holds two "running" jobs.                                *)
SingleVideoLock ==
    \A j, k \in Running(job) : j = k

(* A retry schedule never outlives the wait it announces: nextRetryAt is   *)
(* set on queued jobs only, so the dashboard never counts down to a retry  *)
(* of a job that runs, ended or was cancelled.                             *)
ScheduleOnlyWhileQueued ==
    \A j \in Registered(job) : job[j].nextRetryAt => job[j].status = "queued"

(* The registry implements the abstract job lifecycle.                     *)
Lifecycle == INSTANCE VideoLifecycle WITH
    status   <- [j \in Jobs |-> job[j].status],
    attempts <- [j \in Jobs |-> job[j].retryCount]

LifecycleSpec == Lifecycle!Spec
=============================================================================
