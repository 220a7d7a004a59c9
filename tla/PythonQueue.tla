---------------------------- MODULE PythonQueue ----------------------------
(***************************************************************************)
(* The job queue of the Python server: the jobs table (src/swarmx/         *)
(* storage.py) behind queue.py, the worker threads of worker.py and the    *)
(* HTTP handlers of server.py that write it.  The server is threaded: a    *)
(* database operation is atomic (_DB_LOCK), whatever a thread does between *)
(* two of them interleaves.                                                *)
(*                                                                         *)
(* A row keeps a job's status twice, in the status column, which claims    *)
(* look at, and in the JSON payload, which load_jobs() returns.            *)
(*                                                                         *)
(* Abstractions.  Jobs are numbered by created_at.  The database works and *)
(* holds earlier jobs, so jobs.jsonl, which is read only when it fails or  *)
(* is empty, is left out, and update_job() is its one write.  What a job   *)
(* computes is external.  "settled" stands for done, error, blocked and    *)
(* the status of a run record: nothing in the queue tells them apart.      *)
(***************************************************************************)
EXTENDS Naturals

CONSTANTS
    NumJobs,     \* bound: jobs appended
    Workers,     \* threads of start_worker()
    NoJob,       \* what an idle worker has claimed
    Window,      \* newest jobs load_jobs(limit=500) returns
    MaxCrashes   \* bound: times the server is replaced by the next one

ASSUME QueueAssumption ==
    /\ NumJobs    \in Nat
    /\ Window     \in Nat \ {0}
    /\ MaxCrashes \in Nat
    /\ NoJob      \notin 1..NumJobs

VARIABLES
    count,      \* jobs appended so far: 1..count
    row,        \* the jobs table
    worker,     \* where each worker thread is in _worker_loop()
    handler,    \* where the HTTP request that appended a job is
    begun,      \* history: executions of each job begun in this process
    abandoned,  \* history: jobs a dead process or request left running
    crashes     \* processes that have ended so far

vars == <<count, row, worker, handler, begun, abandoned, crashes>>

Jobs    == 1..NumJobs
Kinds   == {"task", "resume", "mission", "run"}
Status  == {"none", "queued", "running", "settled"}

(* claim_resume_job() and claim_next_job() query the table, then look      *)
(* through load_jobs().                                                    *)
WorkerAt == {"claimResume", "loadResume", "claimNext", "loadNext", "busy"}

TypeOK ==
    /\ count     \in 0..NumJobs
    /\ row       \in [Jobs -> [kind : Kinds \cup {"none"}, column : Status, payload : Status]]
    /\ worker    \in [Workers -> [at : WorkerAt, job : Jobs \cup {NoJob}]]
    /\ handler   \in [Jobs -> {"none", "appended", "refused", "executing"}]
    /\ begun     \in [Jobs -> Nat]
    /\ abandoned \subseteq Jobs
    /\ crashes   \in Nat

Polling == [at |-> "claimResume", job |-> NoJob]

Init ==
    /\ count     = 0
    /\ row       = [j \in Jobs |-> [kind |-> "none", column |-> "none", payload |-> "none"]]
    /\ worker    = [w \in Workers |-> Polling]
    /\ handler   = [j \in Jobs |-> "none"]
    /\ begun     = [j \in Jobs |-> 0]
    /\ abandoned = {}
    /\ crashes   = 0

-----------------------------------------------------------------------------
(* The table                                                               *)

(* load_jobs() returns j.                                                  *)
Loaded(j) == j \in 1..count /\ count - j < Window

(* Mutant of Updated: only the column is written.                          *)
UpdatedColumn(j, s) == IF Loaded(j) THEN [row EXCEPT ![j].column = s] ELSE row

(* update_job() forgets the update of a job that is no longer loaded.      *)
Updated(j, s) ==
    IF Loaded(j) THEN [row EXCEPT ![j].column = s, ![j].payload = s] ELSE row

Oldest(S, j) == j \in S /\ \A k \in S : j <= k

ColumnQueued  == {j \in Jobs : row[j].column = "queued"}
PayloadQueued == {j \in Jobs : Loaded(j) /\ row[j].payload = "queued"}
OfKind(k)     == {j \in Jobs : row[j].kind = k}

(* Mutant of Append: the job is counted twice.                             *)
AppendTwice(j, kind) ==
    /\ j = count + 1
    /\ count' = j + 1
    /\ row'   = [row EXCEPT ![j] = [kind |-> kind, column |-> "queued", payload |-> "queued"]]

(* append_job() of a new id.                                               *)
Append(j, kind) ==
    /\ j = count + 1
    /\ count' = j
    /\ row'   = [row EXCEPT ![j] = [kind |-> kind, column |-> "queued", payload |-> "queued"]]

-----------------------------------------------------------------------------
(* Requests                                                                *)

(* POST /api/queue/submit, and the resume and branch commands.             *)
Submit(j, kind) ==
    /\ Append(j, kind)
    /\ UNCHANGED <<worker, handler, begun, abandoned, crashes>>

(* POST /api/run, /api/evolve or /api/mission: the job is queued first.    *)
HandlerAppends(j, kind) ==
    /\ Append(j, kind)
    /\ handler' = [handler EXCEPT ![j] = "appended"]
    /\ UNCHANGED <<worker, begun, abandoned, crashes>>

(* A mission is marked queued again, whatever became of it meanwhile.      *)
MissionMarks(j) ==
    /\ handler[j] = "appended" /\ row[j].kind = "mission"
    /\ row'     = Updated(j, "queued")
    /\ handler' = [handler EXCEPT ![j] = "none"]
    /\ UNCHANGED <<count, worker, begun, abandoned, crashes>>

(* A run is marked running, and executed if the policy gate lets it.       *)
RunMarks(j, allowed) ==
    /\ handler[j] = "appended" /\ row[j].kind = "run"
    /\ row'     = Updated(j, "running")
    /\ handler' = [handler EXCEPT ![j] = IF allowed THEN "executing" ELSE "refused"]
    /\ begun'   = IF allowed THEN [begun EXCEPT ![j] = @ + 1] ELSE begun
    /\ UNCHANGED <<count, worker, abandoned, crashes>>

(* Mutant of RunEnds: a refusal is answered and not recorded.              *)
RunEndsUnrecorded(j) ==
    /\ handler[j] \in {"executing", "refused"}
    /\ row'     = IF handler[j] = "refused" THEN row ELSE Updated(j, "settled")
    /\ handler' = [handler EXCEPT ![j] = "none"]
    /\ UNCHANGED <<count, worker, begun, abandoned, crashes>>

(* The run is blocked by the gate, or its record is stored.                *)
RunEnds(j) ==
    /\ handler[j] \in {"executing", "refused"}
    /\ row'     = Updated(j, "settled")
    /\ handler' = [handler EXCEPT ![j] = "none"]
    /\ UNCHANGED <<count, worker, begun, abandoned, crashes>>

(* execute_plan() raises and nothing in the handler catches it.            *)
RunRaises(j) ==
    /\ handler[j] = "executing"
    /\ handler'   = [handler EXCEPT ![j] = "none"]
    /\ abandoned' = abandoned \cup {j}
    /\ UNCHANGED <<count, row, worker, begun, crashes>>

HandlerStep(j) ==
    \/ MissionMarks(j)
    \/ \E allowed \in BOOLEAN : RunMarks(j, allowed)
    \/ RunEnds(j)

-----------------------------------------------------------------------------
(* Workers                                                                 *)

GoesTo(w, at) == worker' = [worker EXCEPT ![w] = [at |-> at, job |-> NoJob]]

Takes(w, j) ==
    /\ worker' = [worker EXCEPT ![w] = [at |-> "busy", job |-> j]]
    /\ begun'  = [begun EXCEPT ![j] = @ + 1]

(* The job claimed from the candidates S, or the next place to look at.    *)
Claims(w, S, claimed(_), at) ==
    \/ \E j \in S : Oldest(S, j) /\ Takes(w, j) /\ row' = claimed(j)
    \/ S = {} /\ GoesTo(w, at) /\ UNCHANGED <<row, begun>>

(* claim_resume_job() writes the column and leaves the payload.            *)
ClaimResume(w) ==
    LET ColumnRunning(j) == [row EXCEPT ![j].column = "running"] IN
    /\ worker[w].at = "claimResume"
    /\ Claims(w, ColumnQueued \cap OfKind("resume"), ColumnRunning, "loadResume")
    /\ UNCHANGED <<count, handler, abandoned, crashes>>

(* Its fallback writes jobs.jsonl, hence nothing.                          *)
LoadResume(w) ==
    LET Unwritten(j) == row IN
    /\ worker[w].at = "loadResume"
    /\ Claims(w, PayloadQueued \cap OfKind("resume"), Unwritten, "claimNext")
    /\ UNCHANGED <<count, handler, abandoned, crashes>>

RunningRow(j) == [row EXCEPT ![j].column = "running", ![j].payload = "running"]

(* claim_next_job() takes the oldest job of any kind.                      *)
ClaimNext(w) ==
    /\ worker[w].at = "claimNext"
    /\ Claims(w, ColumnQueued, RunningRow, "loadNext")
    /\ UNCHANGED <<count, handler, abandoned, crashes>>

(* The fallback of claim_next_job(), then the pause between two rounds.    *)
LoadNext(w) ==
    LET Unwritten(j) == row IN
    /\ worker[w].at = "loadNext"
    /\ Claims(w, PayloadQueued, Unwritten, "claimResume")
    /\ UNCHANGED <<count, handler, abandoned, crashes>>

(* _process_job() returns or raises: the job is done or in error.          *)
ProcessEnds(w) ==
    /\ worker[w].at = "busy"
    /\ row'    = Updated(worker[w].job, "settled")
    /\ worker' = [worker EXCEPT ![w] = Polling]
    /\ UNCHANGED <<count, handler, begun, abandoned, crashes>>

WorkerStep(w) ==
    \/ ClaimResume(w) \/ LoadResume(w) \/ ClaimNext(w) \/ LoadNext(w)
    \/ ProcessEnds(w)

-----------------------------------------------------------------------------
(* The server dies, and the next one starts its workers on the same table. *)
Crash ==
    /\ crashes < MaxCrashes
    /\ crashes'   = crashes + 1
    /\ worker'    = [w \in Workers |-> Polling]
    /\ handler'   = [j \in Jobs |-> "none"]
    /\ begun'     = [j \in Jobs |-> 0]
    /\ abandoned' = abandoned \cup {j \in Jobs : row[j].column = "running"}
    /\ UNCHANGED <<count, row>>

Next ==
    \/ \E j \in Jobs, kind \in {"task", "resume"} : Submit(j, kind)
    \/ \E j \in Jobs, kind \in {"mission", "run"} : HandlerAppends(j, kind)
    \/ \E j \in Jobs : HandlerStep(j) \/ RunRaises(j)
    \/ \E w \in Workers : WorkerStep(w)
    \/ Crash

Spec == Init /\ [][Next]_vars

(* A worker thread and a request go on; a job's work is bounded by the     *)
(* timeouts of its model calls and subprocesses.                           *)
FairSpec ==
    /\ Spec
    /\ \A w \in Workers : WF_vars(WorkerStep(w))
    /\ \A j \in Jobs : WF_vars(HandlerStep(j))

-----------------------------------------------------------------------------
(* Properties                                                              *)

(* The two copies of a status disagree in one way only: a resume job that  *)
(* claim_resume_job() handed out and nobody has settled.                   *)
CopiesAgree ==
    \A j \in Jobs : row[j].column # row[j].payload =>
        row[j].kind = "resume" /\ row[j].column = "running" /\ row[j].payload = "queued"

Owned(j) ==
    \/ handler[j] \in {"executing", "refused"}
    \/ \E w \in Workers : worker[w].at = "busy" /\ worker[w].job = j

(* A job is shown running because somebody runs it, however requests and   *)
(* workers overlap on it, unless a process or a request died with it, or   *)
(* so many jobs came after it that update_job() no longer finds it.        *)
RunningIsOwned ==
    \A j \in Jobs :
        row[j].column = "running" => Owned(j) \/ j \in abandoned \/ ~Loaded(j)

(* A submitted or resumed job is executed at most once by a server process *)
(* with one worker, which is what the server starts, while update_job()    *)
(* finds it.  A job that a fallback claimed still looks queued in the      *)
(* column: if so many jobs came meanwhile that its end is forgotten, it is *)
(* claimed once more, and then never again.                                *)
PlainJobRunsOnce ==
    \A j \in OfKind("task") \cup OfKind("resume") :
        begun[j] <= (IF Loaded(j) THEN 1 ELSE 2)

(* A queued job is settled in the end, by the process that queued it.      *)
QueuedSettles ==
    \A j \in Jobs :
        (row[j].column = "queued")
          ~> (row[j].column = "settled" \/ j \in abandoned \/ ~Loaded(j) \/ crashes > 0)
=============================================================================
