------------------------ MODULE PythonQueue_proofs ------------------------
(* Proofs about PythonQueue, for any number of jobs, workers and crashes.  *)
EXTENDS PythonQueue, TLAPS

Row == [kind : Kinds \cup {"none"}, column : Status, payload : Status]

(* CopiesAgree, of one row.                                                *)
RowAgrees(x) ==
    x.column # x.payload => x.kind = "resume" /\ x.column = "running" /\ x.payload = "queued"

(* RunningIsOwned, of one job.                                             *)
JobOwned(j) == row[j].column = "running" => Owned(j) \/ j \in abandoned \/ ~Loaded(j)

(* A row is written once its job has been appended.                        *)
Unwritten(j) == j > count => row[j].column = "none" /\ row[j].payload = "none"

QueueInv ==
    /\ TypeOK
    /\ \A j \in Jobs : Unwritten(j) /\ RowAgrees(row[j]) /\ JobOwned(j)

-----------------------------------------------------------------------------
(* What the writes of the table do                                         *)

(* update_job() writes both copies of a status, of that job alone.         *)
LEMMA UpdatedWell ==
    ASSUME TypeOK, NEW j \in Jobs, NEW s \in Status
    PROVE  /\ Updated(j, s) \in [Jobs -> Row]
           /\ \A k \in Jobs \ {j} : Updated(j, s)[k] = row[k]
           /\ Updated(j, s)[j].kind = row[j].kind
           /\ Loaded(j) => Updated(j, s)[j].column = s /\ Updated(j, s)[j].payload = s
           /\ ~Loaded(j) => Updated(j, s) = row
           /\ RowAgrees(row[j]) => RowAgrees(Updated(j, s)[j])
<1>1. row \in [Jobs -> Row] /\ row[j] \in Row
  BY DEF TypeOK, Row
<1>2. CASE Loaded(j)
  <2> DEFINE x == [row[j] EXCEPT !.column = s, !.payload = s]
  <2>1. Updated(j, s) = [row EXCEPT ![j] = x]
    BY <1>1, <1>2 DEF Updated, Row
  <2>2. x \in Row /\ x.kind = row[j].kind /\ x.column = s /\ x.payload = s
    BY <1>1 DEF Row
  <2> QED BY <1>1, <1>2, <2>1, <2>2 DEF RowAgrees
<1>3. CASE ~Loaded(j)
  BY <1>1, <1>3 DEF Updated
<1> QED BY <1>2, <1>3

LEMMA LoadedEver ==
    ASSUME count \in Nat, count' \in Nat, count <= count', NEW j \in Jobs, j <= count, Loaded(j)'
    PROVE  Loaded(j)
<1>1. j \in Nat /\ j >= 1 /\ Window \in Nat
  BY QueueAssumption DEF Jobs
<1>2. count' - j < Window
  BY DEF Loaded
<1>3. count - j < Window
  <2>1. \A a, b, i, w \in Nat : a <= b /\ b - i < w => a - i < w
    OBVIOUS
  <2> QED BY <1>1, <1>2, <2>1
<1>4. j \in 1..count
  BY <1>1
<1> QED BY <1>3, <1>4 DEF Loaded

(* A job keeps its owner when only others change.                          *)
LEMMA JobKept ==
    ASSUME TypeOK, NEW j \in Jobs, Unwritten(j), RowAgrees(row[j]), JobOwned(j),
           row'[j] = row[j], Owned(j) => Owned(j)',
           abandoned \subseteq abandoned', count' \in Nat, count <= count'
    PROVE  Unwritten(j)' /\ RowAgrees(row[j])' /\ JobOwned(j)'
<1>1. count \in Nat /\ j \in Nat
  BY QueueAssumption DEF TypeOK, Jobs
<1>2. Unwritten(j)' /\ RowAgrees(row[j])'
  BY <1>1 DEF Unwritten, RowAgrees
<1>3. CASE row[j].column = "running" /\ ~Loaded(j)
  <2>1. j <= count
    BY <1>1, <1>3 DEF Unwritten
  <2>2. ~Loaded(j)'
    BY <1>1, <1>3, <2>1, LoadedEver
  <2> QED BY <1>2, <2>2 DEF JobOwned
<1>4. CASE ~(row[j].column = "running" /\ ~Loaded(j))
  BY <1>2, <1>4 DEF JobOwned
<1> QED BY <1>3, <1>4

-----------------------------------------------------------------------------
(* One lemma per kind of step                                              *)

JobOK(j) == Unwritten(j) /\ RowAgrees(row[j]) /\ JobOwned(j)

(* append_job(): the new row is queued in both copies.                     *)
LEMMA AppendStep ==
    ASSUME QueueInv, NEW j \in Jobs, NEW kind \in Kinds, Append(j, kind),
           \A k \in Jobs \ {j} : handler'[k] = handler[k],
           UNCHANGED <<worker, begun, abandoned, crashes>>
    PROVE  /\ count' \in 0..NumJobs /\ row' \in [Jobs -> Row]
           /\ \A k \in Jobs : JobOK(k)'
<1> DEFINE x == [kind |-> kind, column |-> "queued", payload |-> "queued"]
<1>1. TypeOK /\ row \in [Jobs -> Row] /\ count \in Nat /\ j \in Nat
  BY QueueAssumption DEF QueueInv, TypeOK, Row, Jobs
<1>2. j = count + 1 /\ count' = j /\ row' = [row EXCEPT ![j] = x]
  BY DEF Append
<1>3. x \in Row /\ x.column = "queued" /\ x.payload = "queued"
  BY DEF Row, Status
<1> HIDE DEF x
<1>4. count' \in 0..NumJobs /\ row' \in [Jobs -> Row]
  BY <1>1, <1>2, <1>3, QueueAssumption DEF Jobs
<1>5. JobOK(j)'
  BY <1>1, <1>2, <1>3 DEF JobOK, Unwritten, RowAgrees, JobOwned
<1>6. ASSUME NEW k \in Jobs, k # j
      PROVE  JobOK(k)'
  <2>1. row'[k] = row[k] /\ count' \in Nat /\ count <= count'
    BY <1>1, <1>2, <1>6
  <2>2. Owned(k) => Owned(k)'
    BY <1>6 DEF Owned
  <2>3. Unwritten(k) /\ RowAgrees(row[k]) /\ JobOwned(k)
    BY DEF QueueInv
  <2> QED BY <1>1, <2>1, <2>2, <2>3, JobKept DEF JobOK
<1> QED BY <1>4, <1>5, <1>6

(* update_job() by whoever holds the job: the others keep their owners.    *)
LEMMA UpdateStep ==
    ASSUME QueueInv, NEW j \in Jobs, NEW s \in Status, row' = Updated(j, s),
           UNCHANGED <<count, abandoned>>,
           \A k \in Jobs \ {j} : Owned(k) => Owned(k)',
           s = "running" => Owned(j)'
    PROVE  row' \in [Jobs -> Row] /\ \A k \in Jobs : JobOK(k)'
<1>1. TypeOK /\ row \in [Jobs -> Row] /\ count \in Nat /\ j \in Nat
  BY QueueAssumption DEF QueueInv, TypeOK, Row, Jobs
<1>2. /\ row' \in [Jobs -> Row]
      /\ \A k \in Jobs \ {j} : row'[k] = row[k]
      /\ Loaded(j) => row'[j].column = s
      /\ ~Loaded(j) => row' = row
      /\ RowAgrees(row[j]) => RowAgrees(row'[j])
  BY <1>1, UpdatedWell
<1>3. ASSUME NEW k \in Jobs, k # j
      PROVE  JobOK(k)'
  <2>1. row'[k] = row[k] /\ count' \in Nat /\ count <= count' /\ abandoned \subseteq abandoned'
    BY <1>1, <1>2, <1>3
  <2>2. Unwritten(k) /\ RowAgrees(row[k]) /\ JobOwned(k)
    BY DEF QueueInv
  <2> QED BY <1>1, <1>3, <2>1, <2>2, JobKept DEF JobOK
<1>4. JobOK(j)'
  <2>1. Unwritten(j) /\ RowAgrees(row[j]) /\ JobOwned(j)
    BY DEF QueueInv
  <2>2. CASE Loaded(j)
    <3>1. j <= count
      BY <1>1, <2>2 DEF Loaded
    <3> QED BY <1>1, <1>2, <2>1, <2>2, <3>1 DEF JobOK, Unwritten, JobOwned
  <2>3. CASE ~Loaded(j)
    <3>1. ~Loaded(j)'
      BY <2>3 DEF Loaded
    <3> QED BY <1>2, <2>1, <2>3, <3>1 DEF JobOK, Unwritten, JobOwned
  <2> QED BY <2>2, <2>3
<1> QED BY <1>2, <1>3, <1>4

(* A step that writes no row and takes no job away from its owner.         *)
LEMMA RowKept ==
    ASSUME QueueInv, UNCHANGED <<count, row>>, abandoned \subseteq abandoned',
           \A k \in Jobs : Owned(k) => Owned(k)' \/ k \in abandoned'
    PROVE  \A k \in Jobs : JobOK(k)'
<1>1. \A k \in Jobs : Loaded(k)' <=> Loaded(k)
  BY DEF Loaded
<1> QED BY <1>1 DEF QueueInv, JobOK, Unwritten, RowAgrees, JobOwned

(* A worker claims the oldest of the queued jobs in S, or looks elsewhere. *)
LEMMA ClaimStep ==
    ASSUME QueueInv, NEW w \in Workers, worker[w].at # "busy",
           NEW S \in SUBSET Jobs, NEW at \in WorkerAt, at # "busy",
           UNCHANGED <<count, handler, abandoned, crashes>>,
           \/ /\ GoesTo(w, at) /\ UNCHANGED <<row, begun>>
           \/ \E j \in S :
                /\ Takes(w, j)
                /\ row' \in [Jobs -> Row]
                /\ \A k \in Jobs \ {j} : row'[k] = row[k]
                /\ j \in 1..count
                /\ RowAgrees(row[j]) => RowAgrees(row'[j])
    PROVE  QueueInv'
<1>1. TypeOK /\ row \in [Jobs -> Row] /\ count \in Nat
  BY QueueAssumption DEF QueueInv, TypeOK, Row, Jobs
<1>2. \A k \in Jobs : Owned(k) => Owned(k)'
  <2>1. \A v \in Workers \ {w} : worker'[v] = worker[v]
    BY <1>1 DEF GoesTo, Takes, TypeOK
  <2> QED BY <2>1 DEF Owned
<1>3. CASE GoesTo(w, at) /\ UNCHANGED <<row, begun>>
  <2>1. TypeOK'
    BY <1>1, <1>3 DEF TypeOK, GoesTo
  <2> QED BY <1>2, <1>3, <2>1, RowKept DEF QueueInv, JobOK
<1>4. ASSUME NEW j \in S, Takes(w, j), row' \in [Jobs -> Row],
             \A k \in Jobs \ {j} : row'[k] = row[k],
             j \in 1..count, RowAgrees(row[j]) => RowAgrees(row'[j])
      PROVE  QueueInv'
  <2>1. TypeOK'
    BY <1>1, <1>4 DEF TypeOK, Takes, Row, WorkerAt
  <2>2. ASSUME NEW k \in Jobs, k # j
        PROVE  JobOK(k)'
    <3>1. row'[k] = row[k] /\ count' \in Nat /\ count <= count' /\ abandoned \subseteq abandoned'
      BY <1>1, <1>4, <2>2
    <3>2. Unwritten(k) /\ RowAgrees(row[k]) /\ JobOwned(k)
      BY DEF QueueInv
    <3> QED BY <1>1, <1>2, <3>1, <3>2, JobKept DEF JobOK
  <2>3. JobOK(j)'
    <3>1. Owned(j)'
      BY <1>1, <1>4 DEF Takes, Owned, TypeOK
    <3>2. j <= count' /\ j \in Nat
      BY <1>1, <1>4
    <3>3. RowAgrees(row'[j])
      BY <1>4 DEF QueueInv
    <3> QED BY <1>1, <3>1, <3>2, <3>3 DEF JobOK, Unwritten, JobOwned
  <2> QED BY <2>1, <2>2, <2>3 DEF QueueInv, JobOK
<1> QED BY <1>3, <1>4

LEMMA QueueInit == Init => QueueInv
BY QueueAssumption
   DEF Init, QueueInv, TypeOK, Kinds, Status, WorkerAt, Polling, Unwritten, RowAgrees, JobOwned

LEMMA QueueStep == QueueInv /\ [Next]_vars => QueueInv'
<1> SUFFICES ASSUME QueueInv, [Next]_vars
             PROVE  QueueInv'
  OBVIOUS
<1>0. TypeOK /\ row \in [Jobs -> Row] /\ count \in 0..NumJobs
  BY DEF QueueInv, TypeOK, Row
<1>q. TypeOK' /\ (\A k \in Jobs : JobOK(k)') => QueueInv'
  BY DEF QueueInv, JobOK
<1>s. {"queued", "running", "settled"} \subseteq Status
  BY DEF Status
<1>1. ASSUME NEW j \in Jobs, NEW kind \in Kinds, Submit(j, kind)
      PROVE  QueueInv'
  <2>1. Append(j, kind) /\ UNCHANGED <<worker, handler, begun, abandoned, crashes>>
    BY <1>1 DEF Submit
  <2>2. /\ count' \in 0..NumJobs /\ row' \in [Jobs -> Row]
        /\ \A k \in Jobs : JobOK(k)'
    BY <2>1, AppendStep
  <2>3. TypeOK'
    BY <1>0, <2>1, <2>2 DEF TypeOK, Row
  <2> QED BY <1>q, <2>2, <2>3
<1>2. ASSUME NEW j \in Jobs, NEW kind \in Kinds, HandlerAppends(j, kind)
      PROVE  QueueInv'
  <2>1. /\ Append(j, kind) /\ UNCHANGED <<worker, begun, abandoned, crashes>>
        /\ handler' = [handler EXCEPT ![j] = "appended"]
    BY <1>2 DEF HandlerAppends
  <2>2. \A k \in Jobs \ {j} : handler'[k] = handler[k]
    BY <1>0, <2>1 DEF TypeOK
  <2>3. /\ count' \in 0..NumJobs /\ row' \in [Jobs -> Row]
        /\ \A k \in Jobs : JobOK(k)'
    BY <2>1, <2>2, AppendStep
  <2>4. TypeOK'
    BY <1>0, <2>1, <2>3 DEF TypeOK, Row
  <2> QED BY <1>q, <2>3, <2>4
<1>3. ASSUME NEW j \in Jobs, MissionMarks(j)
      PROVE  QueueInv'
  <2>1. /\ row' = Updated(j, "queued") /\ handler' = [handler EXCEPT ![j] = "none"]
        /\ UNCHANGED <<count, worker, begun, abandoned, crashes>>
    BY <1>3 DEF MissionMarks
  <2>2. \A k \in Jobs \ {j} : Owned(k) => Owned(k)'
    BY <1>0, <2>1 DEF Owned, TypeOK
  <2>3. row' \in [Jobs -> Row] /\ \A k \in Jobs : JobOK(k)'
    BY <1>s, <2>1, <2>2, UpdateStep
  <2>4. TypeOK'
    BY <1>0, <2>1, <2>3 DEF TypeOK, Row
  <2> QED BY <1>q, <2>3, <2>4
<1>4. ASSUME NEW j \in Jobs, NEW allowed \in BOOLEAN, RunMarks(j, allowed)
      PROVE  QueueInv'
  <2> DEFINE h == IF allowed THEN "executing" ELSE "refused"
  <2>1. /\ row' = Updated(j, "running") /\ handler' = [handler EXCEPT ![j] = h]
        /\ begun' = IF allowed THEN [begun EXCEPT ![j] = @ + 1] ELSE begun
        /\ UNCHANGED <<count, worker, abandoned, crashes>>
    BY <1>4 DEF RunMarks
  <2>2. h \in {"executing", "refused"}
    OBVIOUS
  <2> HIDE DEF h
  <2>3. /\ \A k \in Jobs \ {j} : Owned(k) => Owned(k)'
        /\ Owned(j)'
    BY <1>0, <2>1, <2>2 DEF Owned, TypeOK
  <2>4. row' \in [Jobs -> Row] /\ \A k \in Jobs : JobOK(k)'
    BY <1>s, <2>1, <2>3, UpdateStep
  <2>5. begun' \in [Jobs -> Nat]
    BY <1>0, <2>1 DEF TypeOK
  <2>6. TypeOK'
    BY <1>0, <2>1, <2>2, <2>4, <2>5 DEF TypeOK, Row
  <2> QED BY <1>q, <2>4, <2>6
<1>5. ASSUME NEW j \in Jobs, RunEnds(j)
      PROVE  QueueInv'
  <2>1. /\ row' = Updated(j, "settled") /\ handler' = [handler EXCEPT ![j] = "none"]
        /\ UNCHANGED <<count, worker, begun, abandoned, crashes>>
    BY <1>5 DEF RunEnds
  <2>2. \A k \in Jobs \ {j} : Owned(k) => Owned(k)'
    BY <1>0, <2>1 DEF Owned, TypeOK
  <2>3. row' \in [Jobs -> Row] /\ \A k \in Jobs : JobOK(k)'
    BY <1>s, <2>1, <2>2, UpdateStep
  <2>4. TypeOK'
    BY <1>0, <2>1, <2>3 DEF TypeOK, Row
  <2> QED BY <1>q, <2>3, <2>4
<1>6. ASSUME NEW j \in Jobs, RunRaises(j)
      PROVE  QueueInv'
  <2>1. /\ handler' = [handler EXCEPT ![j] = "none"] /\ abandoned' = abandoned \cup {j}
        /\ UNCHANGED <<count, row, worker, begun, crashes>>
    BY <1>6 DEF RunRaises
  <2>2. \A k \in Jobs : Owned(k) => Owned(k)' \/ k \in abandoned'
    BY <1>0, <2>1 DEF Owned, TypeOK
  <2>3. TypeOK'
    BY <1>0, <2>1 DEF TypeOK
  <2> QED BY <1>q, <2>1, <2>2, <2>3, RowKept
<1>7. ASSUME NEW w \in Workers, ClaimResume(w) \/ LoadResume(w) \/ ClaimNext(w) \/ LoadNext(w)
      PROVE  QueueInv'
  <2>1. /\ worker[w].at # "busy"
        /\ UNCHANGED <<count, handler, abandoned, crashes>>
    BY <1>7 DEF ClaimResume, LoadResume, ClaimNext, LoadNext
  <2>2. ASSUME NEW j \in ColumnQueued
        PROVE  j \in 1..count /\ row[j].payload = "queued"
    <3>1. row[j].column = "queued" /\ Unwritten(j) /\ RowAgrees(row[j]) /\ j \in 1..NumJobs
      BY DEF ColumnQueued, QueueInv, Jobs
    <3> QED BY <1>0, <3>1, QueueAssumption DEF Unwritten, RowAgrees
  <2>3. CASE ClaimResume(w)
    <3>1. \/ GoesTo(w, "loadResume") /\ UNCHANGED <<row, begun>>
          \/ \E j \in ColumnQueued \cap OfKind("resume") :
               Takes(w, j) /\ row' = [row EXCEPT ![j].column = "running"]
      BY <2>3 DEF ClaimResume, Claims
    <3>2. ASSUME NEW j \in ColumnQueued \cap OfKind("resume"),
                 row' = [row EXCEPT ![j].column = "running"]
          PROVE  /\ row' \in [Jobs -> Row] /\ \A k \in Jobs \ {j} : row'[k] = row[k]
                 /\ j \in 1..count /\ RowAgrees(row'[j])
      <4>1. j \in Jobs /\ row[j] \in Row /\ row[j].kind = "resume"
        BY <1>0 DEF OfKind
      <4>2. row[j].payload = "queued" /\ j \in 1..count
        BY <2>2
      <4>3. row' = [row EXCEPT ![j] = [row[j] EXCEPT !.column = "running"]]
        BY <3>2
      <4>4. [row[j] EXCEPT !.column = "running"] \in Row
        BY <1>s, <4>1 DEF Row
      <4> QED BY <1>0, <4>1, <4>2, <4>3, <4>4 DEF RowAgrees, Row
    <3>3. ColumnQueued \cap OfKind("resume") \in SUBSET Jobs /\ "loadResume" \in WorkerAt
      BY DEF OfKind, WorkerAt
    <3> QED BY <2>1, <3>1, <3>2, <3>3, ClaimStep
  <2>4. CASE ClaimNext(w)
    <3>1. \/ GoesTo(w, "loadNext") /\ UNCHANGED <<row, begun>>
          \/ \E j \in ColumnQueued : Takes(w, j) /\ row' = RunningRow(j)
      BY <2>4 DEF ClaimNext, Claims
    <3>2. ASSUME NEW j \in ColumnQueued, row' = RunningRow(j)
          PROVE  /\ row' \in [Jobs -> Row] /\ \A k \in Jobs \ {j} : row'[k] = row[k]
                 /\ j \in 1..count /\ RowAgrees(row'[j])
      <4> DEFINE x == [row[j] EXCEPT !.column = "running", !.payload = "running"]
      <4>1. j \in Jobs /\ row[j] \in Row /\ j \in 1..count
        BY <1>0, <2>2 DEF ColumnQueued
      <4>2. row' = [row EXCEPT ![j] = x]
        BY <3>2 DEF RunningRow
      <4>3. x \in Row /\ x.column = "running" /\ x.payload = "running"
        BY <1>s, <4>1 DEF Row
      <4> QED BY <1>0, <4>1, <4>2, <4>3 DEF RowAgrees
    <3>3. ColumnQueued \in SUBSET Jobs /\ "loadNext" \in WorkerAt
      BY DEF ColumnQueued, WorkerAt
    <3> QED BY <2>1, <3>1, <3>2, <3>3, ClaimStep
  <2>5. CASE LoadResume(w) \/ LoadNext(w)
    <3>1. PICK at \in {"claimNext", "claimResume"}, S \in SUBSET PayloadQueued :
          \/ GoesTo(w, at) /\ UNCHANGED <<row, begun>>
          \/ \E j \in S : Takes(w, j) /\ row' = row
      <4>1. CASE LoadResume(w)
        BY <4>1 DEF LoadResume, Claims
      <4>2. CASE LoadNext(w)
        BY <4>2 DEF LoadNext, Claims
      <4> QED BY <2>5, <4>1, <4>2
    <3>2. S \in SUBSET Jobs /\ \A j \in S : j \in 1..count
      BY DEF PayloadQueued, Loaded
    <3>3. at \in WorkerAt /\ at # "busy"
      BY DEF WorkerAt
    <3> QED BY <1>0, <2>1, <3>1, <3>2, <3>3, ClaimStep
  <2> QED BY <1>7, <2>3, <2>4, <2>5
<1>8. ASSUME NEW w \in Workers, ProcessEnds(w)
      PROVE  QueueInv'
  <2> DEFINE j == worker[w].job
  <2>1. /\ worker[w].at = "busy" /\ row' = Updated(j, "settled")
        /\ worker' = [worker EXCEPT ![w] = Polling]
        /\ UNCHANGED <<count, handler, begun, abandoned, crashes>>
    BY <1>8 DEF ProcessEnds
  <2>2. Polling \in [at : WorkerAt, job : Jobs \cup {NoJob}]
    BY DEF Polling, WorkerAt
  <2>3. \A k \in Jobs \ {j} : Owned(k) => Owned(k)'
    BY <1>0, <2>1 DEF Owned, TypeOK
  <2>4. CASE j \in Jobs
    <3>1. row' \in [Jobs -> Row] /\ \A k \in Jobs : JobOK(k)'
      BY <1>s, <2>1, <2>3, <2>4, UpdateStep
    <3>2. TypeOK'
      BY <1>0, <2>1, <2>2, <3>1 DEF TypeOK, Row
    <3> QED BY <1>q, <3>1, <3>2
  <2>5. CASE j \notin Jobs
    <3>1. ~Loaded(j)
      BY <1>0, <2>5, QueueAssumption DEF Loaded, Jobs
    <3>2. row' = row
      BY <2>1, <3>1 DEF Updated
    <3>3. TypeOK'
      BY <1>0, <2>1, <2>2, <3>2 DEF TypeOK
    <3> QED BY <1>q, <2>1, <2>3, <2>5, <3>2, <3>3, RowKept
  <2> QED BY <2>4, <2>5
<1>9. CASE Crash
  <2>1. TypeOK'
    BY <1>0, <1>9 DEF Crash, TypeOK, Polling, WorkerAt
  <2>2. UNCHANGED <<count, row>>
    BY <1>9 DEF Crash
  <2>3. \A k \in Jobs : Unwritten(k)' /\ RowAgrees(row[k])'
    BY <2>2 DEF QueueInv, Unwritten
  <2>4. \A k \in Jobs : JobOwned(k)'
    BY <1>9 DEF Crash, JobOwned
  <2> QED BY <2>1, <2>3, <2>4 DEF QueueInv
<1>10. CASE UNCHANGED vars
  BY <1>10 DEF vars, QueueInv, TypeOK, Unwritten, RowAgrees, JobOwned, Owned, Loaded
<1>k. {"task", "resume"} \subseteq Kinds /\ {"mission", "run"} \subseteq Kinds
  BY DEF Kinds
<1> QED BY <1>1, <1>2, <1>3, <1>4, <1>5, <1>6, <1>7, <1>8, <1>9, <1>10, <1>k
        DEF Next, HandlerStep, WorkerStep

-----------------------------------------------------------------------------
(* The theorems                                                            *)

(* Rows, workers and requests have their types, for any number of each.    *)
THEOREM PythonQueueTypeCorrect == Spec => []TypeOK
<1>1. QueueInv => TypeOK
  BY DEF QueueInv
<1> QED BY <1>1, QueueInit, QueueStep, PTL DEF Spec

(* The status column and the payload of a row disagree only for a resume   *)
(* job that claim_resume_job() handed out.                                 *)
THEOREM PythonQueueCopiesAgree == Spec => []CopiesAgree
<1>1. QueueInv => CopiesAgree
  BY DEF QueueInv, RowAgrees, CopiesAgree
<1> QED BY <1>1, QueueInit, QueueStep, PTL DEF Spec

(* No job is shown running that nobody runs, died with, or update_job()    *)
(* can no longer find, with any number of workers.                         *)
THEOREM PythonQueueRunningIsOwned == Spec => []RunningIsOwned
<1>1. QueueInv => RunningIsOwned
  BY DEF QueueInv, JobOwned, RunningIsOwned
<1> QED BY <1>1, QueueInit, QueueStep, PTL DEF Spec

-----------------------------------------------------------------------------
(* One worker                                                              *)

(* What the server starts: one worker thread.                              *)
OneWorker == \A v, w \in Workers : v = w

Busy(w, j) == worker[w].at = "busy" /\ worker[w].job = j

(* Begun once, the job is in the hands of the worker or settled for good,  *)
(* as long as update_job() finds it; later only a job whose column still   *)
(* shows it queued is claimed, and that claim is written.                  *)
ServedOnce(j) ==
    /\ begun[j] > 0 /\ Loaded(j) =>
         /\ begun[j] = 1
         /\ \/ row[j].column = "settled" /\ row[j].payload = "settled"
            \/ \E w \in Workers : Busy(w, j)
    /\ begun[j] <= 2
    /\ begun[j] = 2 => row[j].column # "queued"

(* A job that no request executes is served once; one that has not been    *)
(* appended is in nobody's hands.                                          *)
PlainOK(j) ==
    /\ j > count => begun[j] = 0 /\ handler[j] = "none"
    /\ row[j].kind \in {"task", "resume"} => handler[j] = "none" /\ ServedOnce(j)

PlainInv == QueueInv /\ \A j \in Jobs : PlainOK(j)

(* A job that others pass by.                                              *)
LEMMA PlainKept ==
    ASSUME QueueInv, NEW j \in Jobs, PlainOK(j), count' \in Nat, count <= count',
           begun'[j] = begun[j], row'[j] = row[j], handler'[j] = handler[j],
           \A w \in Workers : Busy(w, j) => Busy(w, j)'
    PROVE  PlainOK(j)'
<1>1. count \in Nat /\ j \in Nat
  BY QueueAssumption DEF QueueInv, TypeOK, Jobs
<1>2. j > count' => j > count
  BY <1>1
<1>3. CASE j > count
  <2>1. begun[j] = 0 /\ handler[j] = "none"
    BY <1>3 DEF PlainOK
  <2> QED BY <2>1 DEF PlainOK, ServedOnce
<1>4. CASE ~(j > count)
  <2>1. j <= count
    BY <1>1, <1>4
  <2>2. Loaded(j)' => Loaded(j)
    BY <1>1, <2>1, LoadedEver
  <2>3. ServedOnce(j) => ServedOnce(j)'
    BY <2>2 DEF ServedOnce
  <2> QED BY <1>2, <1>4, <2>3 DEF PlainOK
<1> QED BY <1>3, <1>4

(* A request that moves on has no plain job.                               *)
LEMMA RequestKeepsPlain ==
    ASSUME PlainInv, NEW j \in Jobs, handler[j] # "none", row'[j].kind = row[j].kind,
           UNCHANGED <<count, worker>>,
           \A k \in Jobs \ {j} : /\ row'[k] = row[k] /\ begun'[k] = begun[k]
                                 /\ handler'[k] = handler[k]
    PROVE  \A k \in Jobs : PlainOK(k)'
<1>1. count' \in Nat /\ count <= count' /\ QueueInv
  BY QueueAssumption DEF PlainInv, QueueInv, TypeOK
<1>2. \A k \in Jobs \ {j} : PlainOK(k)'
  BY <1>1, PlainKept DEF PlainInv, Busy
<1>3. ~(j > count) /\ row[j].kind \notin {"task", "resume"}
  BY DEF PlainInv, PlainOK
<1>4. PlainOK(j)'
  BY <1>3 DEF PlainOK
<1> QED BY <1>2, <1>4

(* Whoever claims takes a job that one of the copies shows queued.         *)
LEMMA ClaimsQueued ==
    ASSUME QueueInv, NEW w \in Workers,
           ClaimResume(w) \/ LoadResume(w) \/ ClaimNext(w) \/ LoadNext(w)
    PROVE  /\ worker[w].at # "busy" /\ UNCHANGED <<count, handler>>
           /\ \/ \E at \in WorkerAt : GoesTo(w, at) /\ UNCHANGED <<row, begun>>
              \/ \E j \in Jobs : /\ Takes(w, j)
                                 /\ \/ row[j].column = "queued" /\ row'[j].column = "running"
                                    \/ row[j].payload = "queued" /\ Loaded(j)
                                 /\ row'[j].kind = row[j].kind
                                 /\ \A k \in Jobs \ {j} : row'[k] = row[k]
<1>1. row \in [Jobs -> Row]
  BY DEF QueueInv, TypeOK, Row
<1>2. CASE ClaimResume(w)
  <2>1. \/ GoesTo(w, "loadResume") /\ UNCHANGED <<row, begun>>
        \/ \E j \in ColumnQueued \cap OfKind("resume") :
             Takes(w, j) /\ row' = [row EXCEPT ![j].column = "running"]
    BY <1>2 DEF ClaimResume, Claims
  <2>2. ASSUME NEW j \in ColumnQueued, row' = [row EXCEPT ![j].column = "running"]
        PROVE  /\ j \in Jobs /\ row[j].column = "queued" /\ row'[j].column = "running"
               /\ row'[j].kind = row[j].kind
               /\ \A k \in Jobs \ {j} : row'[k] = row[k]
    BY <1>1, <2>2 DEF ColumnQueued, Row
  <2> QED BY <1>2, <2>1, <2>2 DEF ClaimResume, WorkerAt
<1>3. CASE ClaimNext(w)
  <2>1. \/ GoesTo(w, "loadNext") /\ UNCHANGED <<row, begun>>
        \/ \E j \in ColumnQueued : Takes(w, j) /\ row' = RunningRow(j)
    BY <1>3 DEF ClaimNext, Claims
  <2>2. ASSUME NEW j \in ColumnQueued, row' = RunningRow(j)
        PROVE  /\ j \in Jobs /\ row[j].column = "queued" /\ row'[j].column = "running"
               /\ row'[j].kind = row[j].kind
               /\ \A k \in Jobs \ {j} : row'[k] = row[k]
    BY <1>1, <2>2 DEF ColumnQueued, RunningRow, Row
  <2> QED BY <1>3, <2>1, <2>2 DEF ClaimNext, WorkerAt
<1>4. CASE LoadResume(w) \/ LoadNext(w)
  <2>1. /\ worker[w].at # "busy" /\ UNCHANGED <<count, handler>>
        /\ \/ \E at \in {"claimNext", "claimResume"} : GoesTo(w, at) /\ UNCHANGED <<row, begun>>
           \/ \E j \in PayloadQueued : Takes(w, j) /\ row' = row
    <3>1. CASE LoadResume(w)
      BY <3>1 DEF LoadResume, Claims
    <3>2. CASE LoadNext(w)
      BY <3>2 DEF LoadNext, Claims
    <3> QED BY <1>4, <3>1, <3>2
  <2> QED BY <2>1 DEF PayloadQueued, WorkerAt
<1> QED BY <1>2, <1>3, <1>4

LEMMA PlainStep ==
    ASSUME OneWorker, PlainInv, [Next]_vars
    PROVE  PlainInv'
<1>0. /\ QueueInv /\ QueueInv' /\ TypeOK /\ TypeOK'
      /\ row \in [Jobs -> Row] /\ count \in Nat /\ count' \in Nat
  BY QueueStep, QueueAssumption DEF PlainInv, QueueInv, TypeOK, Row
<1> SUFFICES \A k \in Jobs : PlainOK(k)'
  BY <1>0 DEF PlainInv
<1>1. ASSUME NEW j \in Jobs, NEW kind, Append(j, kind),
             UNCHANGED <<worker, begun>>, \A k \in Jobs \ {j} : handler'[k] = handler[k],
             kind \in {"task", "resume"} => handler' = handler
      PROVE  \A k \in Jobs : PlainOK(k)'
  <2>1. j = count + 1 /\ count' = j /\ row'[j].kind = kind
        /\ \A k \in Jobs \ {j} : row'[k] = row[k]
    BY <1>0, <1>1 DEF Append
  <2>2. begun[j] = 0 /\ handler[j] = "none"
    BY <1>0, <2>1 DEF PlainInv, PlainOK
  <2>3. PlainOK(j)'
    BY <1>0, <1>1, <2>1, <2>2 DEF PlainOK, ServedOnce
  <2>4. count <= count'
    BY <1>0, <2>1
  <2>5. ASSUME NEW k \in Jobs \ {j}
        PROVE  PlainOK(k)'
    <3>1. PlainOK(k) /\ handler'[k] = handler[k] /\ row'[k] = row[k] /\ begun'[k] = begun[k]
      BY <1>1, <2>1 DEF PlainInv
    <3>2. \A w \in Workers : Busy(w, k) => Busy(w, k)'
      BY <1>1 DEF Busy
    <3> QED BY <1>0, <2>4, <3>1, <3>2, PlainKept
  <2> QED BY <2>3, <2>5
<1>2. ASSUME NEW j \in Jobs, NEW kind \in {"task", "resume"}, Submit(j, kind)
      PROVE  \A k \in Jobs : PlainOK(k)'
  BY <1>1, <1>2 DEF Submit
<1>3. ASSUME NEW j \in Jobs, NEW kind \in {"mission", "run"}, HandlerAppends(j, kind)
      PROVE  \A k \in Jobs : PlainOK(k)'
  <2>1. \A k \in Jobs \ {j} : handler'[k] = handler[k]
    BY <1>0, <1>3 DEF HandlerAppends, TypeOK
  <2> QED BY <1>1, <1>3, <2>1 DEF HandlerAppends
<1>4. ASSUME NEW j \in Jobs, HandlerStep(j) \/ RunRaises(j)
      PROVE  \A k \in Jobs : PlainOK(k)'
  <2>1. /\ handler[j] # "none" /\ UNCHANGED <<count, worker>>
        /\ row' = row \/ \E s \in {"queued", "running", "settled"} : row' = Updated(j, s)
    BY <1>4 DEF HandlerStep, MissionMarks, RunMarks, RunEnds, RunRaises
  <2>2. \A k \in Jobs \ {j} : begun'[k] = begun[k] /\ handler'[k] = handler[k]
    BY <1>0, <1>4 DEF HandlerStep, MissionMarks, RunMarks, RunEnds, RunRaises, TypeOK
  <2>3. row'[j].kind = row[j].kind /\ \A k \in Jobs \ {j} : row'[k] = row[k]
    BY <1>0, <2>1, UpdatedWell DEF Status
  <2> QED BY <2>1, <2>2, <2>3, RequestKeepsPlain
<1>5. ASSUME NEW w \in Workers,
             ClaimResume(w) \/ LoadResume(w) \/ ClaimNext(w) \/ LoadNext(w)
      PROVE  \A k \in Jobs : PlainOK(k)'
  <2>1. worker[w].at # "busy" /\ UNCHANGED <<count, handler>>
    BY <1>0, <1>5, ClaimsQueued
  <2>2. \A k \in Jobs : \A v \in Workers : ~Busy(v, k)
    BY <2>1 DEF OneWorker, Busy
  <2>3. CASE \E at \in WorkerAt : GoesTo(w, at) /\ UNCHANGED <<row, begun>>
    BY <1>0, <2>1, <2>2, <2>3, PlainKept DEF PlainInv
  <2>4. ASSUME NEW j \in Jobs, Takes(w, j),
               \/ row[j].column = "queued" /\ row'[j].column = "running"
               \/ row[j].payload = "queued" /\ Loaded(j),
               row'[j].kind = row[j].kind,
               \A k \in Jobs \ {j} : row'[k] = row[k]
        PROVE  \A k \in Jobs : PlainOK(k)'
    <3>1. /\ begun' = [begun EXCEPT ![j] = @ + 1] /\ Busy(w, j)'
      BY <1>0, <2>4 DEF Takes, Busy, TypeOK
    <3>2. \A k \in Jobs \ {j} : PlainOK(k)'
      BY <1>0, <2>1, <2>2, <2>4, <3>1, PlainKept DEF PlainInv, TypeOK
    <3>3. Loaded(j)' <=> Loaded(j)
      BY <2>1 DEF Loaded
    <3>4. PlainOK(j) /\ ~(j > count)
      BY <1>0, <2>4 DEF PlainInv, QueueInv, Unwritten
    <3>5. row[j].kind \in {"task", "resume"} /\ Loaded(j) => begun[j] = 0
      <4>1. begun[j] \in Nat
        BY <1>0 DEF TypeOK
      <4> QED BY <2>2, <2>4, <3>4, <4>1 DEF PlainOK, ServedOnce
    <3>6. begun'[j] = begun[j] + 1 /\ begun[j] \in Nat
      BY <1>0, <3>1 DEF TypeOK
    <3>7. row[j].kind \in {"task", "resume"}
            => begun'[j] <= 2 /\ (begun'[j] = 2 => row'[j].column # "queued")
      <4>1. CASE Loaded(j)
        BY <3>5, <3>6, <4>1
      <4>2. CASE ~Loaded(j)
        BY <2>4, <3>4, <3>6, <4>2 DEF PlainOK, ServedOnce
      <4> QED BY <4>1, <4>2
    <3>8. PlainOK(j)'
      BY <2>1, <2>4, <3>1, <3>3, <3>4, <3>5, <3>6, <3>7 DEF PlainOK, ServedOnce
    <3> QED BY <3>2, <3>8
  <2> QED BY <1>0, <1>5, <2>3, <2>4, ClaimsQueued
<1>6. ASSUME NEW w \in Workers, ProcessEnds(w)
      PROVE  \A k \in Jobs : PlainOK(k)'
  <2> SUFFICES ASSUME NEW j, j = worker[w].job
               PROVE  \A k \in Jobs : PlainOK(k)'
    OBVIOUS
  <2>1. /\ worker[w].at = "busy" /\ row' = Updated(j, "settled")
        /\ UNCHANGED <<count, handler, begun>>
    BY <1>6 DEF ProcessEnds
  <2>2. \A k \in Jobs \ {j} : \A v \in Workers : ~Busy(v, k)
    BY DEF OneWorker, Busy
  <2>3. \A k \in Jobs \ {j} : row'[k] = row[k]
    <3>1. CASE j \in Jobs
      BY <1>0, <2>1, <3>1, UpdatedWell DEF Status
    <3>2. CASE j \notin Jobs
      <4>1. ~Loaded(j)
        BY <1>0, <3>2, QueueAssumption DEF Loaded, Jobs, TypeOK
      <4> QED BY <2>1, <4>1 DEF Updated
    <3> QED BY <3>1, <3>2
  <2>4. \A k \in Jobs \ {j} : PlainOK(k)'
    BY <1>0, <2>1, <2>2, <2>3, PlainKept DEF PlainInv
  <2>5. ASSUME j \in Jobs PROVE PlainOK(j)'
    <3>1. /\ row'[j].kind = row[j].kind
          /\ Loaded(j) => row'[j].column = "settled" /\ row'[j].payload = "settled"
          /\ ~Loaded(j) => row' = row
      BY <1>0, <2>1, <2>5, UpdatedWell DEF Status
    <3>2. Loaded(j)' <=> Loaded(j)
      BY <2>1 DEF Loaded
    <3> QED BY <2>1, <2>5, <3>1, <3>2 DEF PlainInv, PlainOK, ServedOnce
  <2> QED BY <2>4, <2>5
<1>7. CASE Crash
  <2>1. \A k \in Jobs : handler'[k] = "none" /\ begun'[k] = 0
    BY <1>7 DEF Crash
  <2> QED BY <2>1 DEF PlainOK, ServedOnce
<1>8. CASE UNCHANGED vars
  <2>1. UNCHANGED <<count, row, worker, handler, begun>>
    BY <1>8 DEF vars
  <2>2. \A k \in Jobs, w \in Workers : Busy(w, k) => Busy(w, k)'
    BY <2>1 DEF Busy
  <2> QED BY <1>0, <2>1, <2>2, PlainKept DEF PlainInv
<1> QED BY <1>2, <1>3, <1>4, <1>5, <1>6, <1>7, <1>8 DEF Next, WorkerStep

(* With the one worker the server starts, a submitted or resumed job is    *)
(* executed at most once by a process while update_job() finds it, and     *)
(* twice at most afterwards, however claims, requests, crashes and later   *)
(* jobs overlap, for any number of jobs.                                   *)
THEOREM PythonQueuePlainJobRunsOnce ==
    ASSUME OneWorker
    PROVE  Spec => []PlainJobRunsOnce
<1>1. Init => PlainInv
  <2>1. Init => \A j \in Jobs : PlainOK(j)
    BY DEF Init, PlainOK, ServedOnce
  <2> QED BY <2>1, QueueInit DEF PlainInv
<1>2. PlainInv => PlainJobRunsOnce
  BY DEF PlainInv, PlainOK, ServedOnce, PlainJobRunsOnce, OfKind, QueueInv, TypeOK
<1>3. PlainInv /\ [Next]_vars => PlainInv'
  BY PlainStep
<1> QED BY <1>1, <1>2, <1>3, PTL DEF Spec
=============================================================================
