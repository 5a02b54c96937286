------------------------- MODULE DatasetPurgeProofs -------------------------
(***************************************************************************)
(* TLAPS proofs about DatasetPurge, for any number of worker slots,        *)
(* requests, purges, exports, objects and faults.                          *)
(***************************************************************************)
EXTENDS DatasetPurge, TLAPS

\* What idle and returned slots and the requests the handlers hold look like.
LEMMA Shapes ==
  /\ Idle \in Task /\ Idle.pc = "idle"
  /\ \A j \in Jobs : Returned(j) \in Task /\ Returned(j).pc = "ack" /\ Returned(j).job = j
  /\ NoRequest \in Request /\ NoRequest.pc = "idle"
BY DEF Idle, Returned, NoRequest, Task, Request, JobStatus, DatasetStatus

\* An active dataset is well-formed.
LEMMA InitPurge == Init => PInv
<1> SUFFICES ASSUME Init PROVE PInv
  OBVIOUS
<1>1. worker \in [Workers -> Task] /\ request \in [Clients -> Request]
  BY Shapes DEF Init
<1>2. TypeOK
  <2>1. job \in [Jobs -> JobStatus] /\ msgs \in [Jobs -> Nat]
    BY DEF Init, JobStatus
  <2>2. faults \in 0..MaxFaults
    BY PurgeBoundsAssumption DEF Init
  <2> QED
    BY <1>1, <2>1, <2>2 DEF Init, TypeOK, DatasetStatus
<1>3. TaskInv /\ ClearedInv
  BY Shapes DEF Init, TaskInv, TaskOK, RequestOK, ClearedInv, ClearedOK, PurgeSteps, ExportSteps
<1> QED
  BY <1>2, <1>3 DEF PInv, Init, RowsOutliveObjects, Exists

-----------------------------------------------------------------------------
(* Requests.                                                                *)

\* What a request step has to show: a well-formed request, columns of the right
\* type, and no dataset that comes back.
LEMMA RequestFrame ==
  ASSUME PInv, NEW c \in Clients, NEW r \in Request, RequestOK(r), Holds(c, r),
         UNCHANGED <<objects, worker, exported>>,
         dataset' \in DatasetStatus \cup {"gone"}, ~Exists => dataset' = "gone",
         dataset' = "gone" => ~Exists,
         deleted' \in BOOLEAN, job' \in [Jobs -> JobStatus],
         msgs' \in [Jobs -> Nat], faults' \in 0..MaxFaults
  PROVE  PInv'
<1>1. request' \in [Clients -> Request] /\ \A d \in Clients : RequestOK(request'[d])
  BY DEF PInv, TypeOK, TaskInv, Holds
<1>2. TypeOK'
  BY <1>1 DEF PInv, TypeOK
<1>3. TaskInv'
  BY <1>1 DEF PInv, TaskInv
<1>4. Exists' = Exists
  BY DEF Exists
<1>5. ClearedInv' /\ RowsOutliveObjects'
  BY <1>4 DEF PInv, ClearedInv, ClearedOK, RowsOutliveObjects
<1> QED
  BY <1>2, <1>3, <1>5 DEF PInv

\* A request that only reads, gives up or enqueues.
LEMMA RequestQuiet ==
  ASSUME PInv, NEW c \in Clients, NEW r \in Request, RequestOK(r), Holds(c, r),
         UNCHANGED <<dbVars, objects, worker>>,
         msgs' \in [Jobs -> Nat], faults' \in 0..MaxFaults
  PROVE  PInv'
BY RequestFrame DEF PInv, TypeOK, dbVars, Exists

\* No request breaks the invariant.
LEMMA RequestKeeps ==
  ASSUME PInv, NEW c \in Clients, RequestStep(c)
  PROVE  PInv'
<1> USE DEF PInv
<1>0. /\ request[c] \in Request /\ RequestOK(request[c])
      /\ msgs \in [Jobs -> Nat] /\ faults \in 0..MaxFaults
      /\ RequestOK(NoRequest)
  BY Shapes DEF TypeOK, TaskInv, RequestOK
<1>1. CASE DeleteRead(c) \/ RestoreRead(c)
  <2>1. PICK p \in {"delete", "restore"} : Reads(c, [NoRequest EXCEPT !.pc = p])
    BY <1>1 DEF DeleteRead, RestoreRead
  <2>2. [NoRequest EXCEPT !.pc = p] \in Request /\ RequestOK([NoRequest EXCEPT !.pc = p])
    BY DEF NoRequest, Request, RequestOK, DatasetStatus
  <2> QED
    BY <1>0, <2>1, <2>2, RequestQuiet DEF Reads, Begin
<1>2. CASE DeleteCommit(c) \/ RestoreCommit(c)
  <2>1. Exists /\ deleted' \in BOOLEAN /\ Holds(c, NoRequest)
        /\ UNCHANGED <<dataset, job, exported, objects, msgs, worker, faults>>
    BY <1>2 DEF DeleteCommit, RestoreCommit
  <2> QED
    BY <1>0, <2>1, Shapes, RequestFrame DEF TypeOK, Exists
<1>3. ASSUME NEW p \in Purges, PurgeRead(c, p) PROVE PInv'
  <2> DEFINE r == [pc |-> "purge_test", job |-> p, status |-> dataset]
  <2>1. r \in Request /\ RequestOK(r)
    BY <1>3 DEF PurgeRead, InBin, Exists, Request, RequestOK, TypeOK, Jobs
  <2> HIDE DEF r
  <2> QED
    BY <1>0, <1>3, <2>1, RequestQuiet DEF PurgeRead, Reads, Begin, r
<1>4. CASE PurgeTest(c)
  <2>1. PICK r \in {NoRequest, [request[c] EXCEPT !.pc = "purge_commit"]} : Holds(c, r)
    BY <1>4 DEF PurgeTest
  <2>2. r \in Request /\ RequestOK(r)
    BY <1>0, <1>4, <2>1, Shapes DEF PurgeTest, Request, RequestOK
  <2> QED
    BY <1>0, <1>4, <2>1, <2>2, RequestQuiet DEF PurgeTest
\* A handler that commits a queued job and goes on to enqueue it.
<1>5. ASSUME NEW j \in Jobs, ThenSend(c, j), job' = [job EXCEPT ![j] = "queued"],
             UNCHANGED <<deleted, exported, objects, msgs, worker, faults>>,
             \/ dataset' = dataset
             \/ Exists /\ dataset' = "purging"
      PROVE  PInv'
  <2>1. PICK r : r = [NoRequest EXCEPT !.pc = "send", !.job = j]
    OBVIOUS
  <2>2. r \in Request /\ RequestOK(r) /\ Holds(c, r)
    <3>1. r \in Request
      BY <2>1 DEF NoRequest, Request, DatasetStatus
    <3>2. r.pc = "send" /\ r.job = j
      BY <2>1 DEF NoRequest
    <3> QED
      BY <1>5, <2>1, <3>1, <3>2 DEF RequestOK, ThenSend
  <2>3. job' \in [Jobs -> JobStatus]
    BY <1>5 DEF TypeOK, JobStatus
  <2> QED
    BY <1>0, <1>5, <2>2, <2>3, RequestFrame DEF TypeOK, Exists, DatasetStatus
<1>6. CASE PurgeCommit(c)
  <2>1. request[c].job \in Jobs
    BY <1>0, <1>6 DEF PurgeCommit, RequestOK, Jobs
  <2>2. dataset' = dataset \/ (Exists /\ dataset' = "purging")
    BY <1>6 DEF PurgeCommit, Saved
  <2> QED
    BY <1>5, <1>6, <2>1, <2>2 DEF PurgeCommit
<1>7. ASSUME NEW e \in Exports, ExportRead(c, e) \/ CancelRead(c, e) PROVE PInv'
  <2>1. PICK p \in {"export", "cancel"} :
          Reads(c, [NoRequest EXCEPT !.pc = p, !.job = e])
    BY <1>7 DEF ExportRead, CancelRead
  <2>2. PICK r : r = [NoRequest EXCEPT !.pc = p, !.job = e]
    OBVIOUS
  <2>3. r \in Request /\ RequestOK(r)
    <3>1. r \in Request
      BY <2>2 DEF NoRequest, Request, DatasetStatus, Jobs
    <3>2. r.pc = p /\ r.job = e
      BY <2>2 DEF NoRequest
    <3> QED
      BY <3>1, <3>2 DEF RequestOK
  <2> QED
    BY <1>0, <2>1, <2>2, <2>3, RequestQuiet DEF Reads, Begin
<1>8. CASE ExportCommit(c)
  <2>1. request[c].job \in Jobs
    BY <1>0, <1>8 DEF ExportCommit, RequestOK, Jobs
  <2> QED
    BY <1>5, <1>8, <2>1 DEF ExportCommit
<1>9. CASE CancelCommit(c)
  <2>1. job' \in [Jobs -> JobStatus]
    BY <1>0, <1>9 DEF CancelCommit, TypeOK, JobStatus
  <2> QED
    BY <1>0, <1>9, <2>1, Shapes, RequestFrame DEF CancelCommit, TypeOK, Exists
<1>10. CASE RequestStale(c)
  BY <1>0, <1>10, Shapes, RequestQuiet DEF RequestStale
<1>11. CASE Send(c)
  <2>1. msgs' \in [Jobs -> Nat]
    BY <1>0, <1>11 DEF Send, RequestOK
  <2> QED
    BY <1>0, <1>11, <2>1, Shapes, RequestQuiet DEF Send
<1>12. CASE ApiDies(c)
  <2>1. faults' \in 0..MaxFaults
    BY <1>0, <1>12, PurgeBoundsAssumption DEF ApiDies
  <2> QED
    BY <1>0, <1>12, <2>1, Shapes, RequestQuiet DEF ApiDies
<1> QED
  BY <1>1, <1>2, <1>3, <1>4, <1>6, <1>7, <1>8, <1>9, <1>10, <1>11, <1>12 DEF RequestStep

-----------------------------------------------------------------------------
(* Workers.                                                                 *)

\* What a worker step has to show: a well-formed task that is right about what
\* is in storage, columns of the right type, and that objects of assets and
\* archives only disappear, the rows last.
LEMMA WorkerFrame ==
  ASSUME PInv, NEW w \in Workers, NEW t \in Task, TaskOK(t), Becomes(w, t),
         UNCHANGED <<deleted, request>>,
         t.pc = "purge_objects" => Stored \cap objects' \subseteq t.left,
         t.pc \in {"purge_missing", "purge_finish"} => dataset' = "gone",
         dataset' \in DatasetStatus \cup {"gone"}, ~Exists => dataset' = "gone",
         dataset' = "gone" /\ Exists => Stored \cap objects' = {},
         exported' \subseteq Exports,
         objects' \subseteq Stored \cup Exports, objects' \cap Stored \subseteq objects,
         \A v \in Workers : v # w /\ worker[v].pc = "purge_objects" =>
            Stored \cap objects' \subseteq worker[v].left,
         job' \in [Jobs -> JobStatus],
         msgs' \in [Jobs -> Nat], faults' \in 0..MaxFaults
  PROVE  PInv'
<1>1. worker'[w] = t /\ \A v \in Workers : v # w => worker'[v] = worker[v]
  BY DEF PInv, TypeOK, Becomes
<1>2. worker' \in [Workers -> Task]
  BY DEF PInv, TypeOK, Becomes
<1>3. TypeOK'
  BY <1>2 DEF PInv, TypeOK
<1>4. TaskInv'
  BY <1>1 DEF PInv, TaskInv
<1>5. ClearedInv'
  BY <1>1 DEF PInv, ClearedInv, ClearedOK, Exists
<1>6. RowsOutliveObjects'
  BY DEF PInv, RowsOutliveObjects, Exists
<1> QED
  BY <1>3, <1>4, <1>5, <1>6 DEF PInv

\* A step that leaves the storage and the dataset's rows alone.
LEMMA WorkerQuiet ==
  ASSUME PInv, NEW w \in Workers, NEW t \in Task, TaskOK(t), Becomes(w, t),
         UNCHANGED <<deleted, request, objects>>,
         t.pc = "purge_objects" => Stored \cap objects \subseteq t.left,
         t.pc \in {"purge_missing", "purge_finish"} => ~Exists,
         dataset' \in DatasetStatus \cup {"gone"}, ~Exists => dataset' = "gone",
         Exists => dataset' # "gone",
         exported' \subseteq Exports, job' \in [Jobs -> JobStatus],
         msgs' \in [Jobs -> Nat], faults' \in 0..MaxFaults
  PROVE  PInv'
<1>1. /\ objects' \subseteq Stored \cup Exports /\ objects' \cap Stored \subseteq objects
      /\ \A v \in Workers : v # w /\ worker[v].pc = "purge_objects" =>
           Stored \cap objects' \subseteq worker[v].left
  BY DEF PInv, TypeOK, ClearedInv, ClearedOK
<1>2. (t.pc = "purge_objects" => Stored \cap objects' \subseteq t.left)
      /\ (t.pc \in {"purge_missing", "purge_finish"} => dataset' = "gone")
  OBVIOUS
<1> QED
  BY <1>1, <1>2, WorkerFrame

\* Assigning a status through a loaded copy leaves a status.
LEMMA SetJobType ==
  ASSUME PInv, NEW w \in Workers, NEW s \in JobStatus, SetJob(w, s)
  PROVE  job' \in [Jobs -> JobStatus]
BY DEF PInv, TypeOK, SetJob, Saved

\* No worker step breaks the invariant.
LEMMA WorkerKeeps ==
  ASSUME PInv, NEW w \in Workers, WorkerStep(w)
  PROVE  PInv'
<1> DEFINE k == worker[w].job
<1>0. /\ worker[w] \in Task /\ TaskOK(worker[w]) /\ ClearedOK(worker[w])
      /\ job \in [Jobs -> JobStatus] /\ dataset \in DatasetStatus \cup {"gone"}
      /\ exported \subseteq Exports
      /\ objects \subseteq Stored \cup Exports
      /\ msgs \in [Jobs -> Nat] /\ faults \in 0..MaxFaults
      /\ {"failed", "running", "succeeded", "removed"} \subseteq JobStatus
  BY DEF PInv, TypeOK, TaskInv, ClearedInv, JobStatus
<1>1. \A j \in Jobs : TaskOK(Returned(j)) /\ TaskOK(Idle)
  BY Shapes DEF TaskOK, PurgeSteps, ExportSteps
<1>2. worker[w].pc # "idle" => k \in Jobs
  BY <1>0 DEF TaskOK
<1>3. ASSUME NEW j \in Jobs, NEW ret, NEW p \in {"purge_begin", "purge_missing", "export_collect"},
             p = "export_collect" => j \in Exports, p # "export_collect" => j \in Purges,
             p = "purge_missing" => ~Exists, Take(w, j, ret, p)
      PROVE  PInv'
  <2>1. PICK t : t = [Idle EXCEPT !.pc = p, !.job = j, !.seenJob = job[j]]
    OBVIOUS
  <2>2. t \in Task /\ t.pc = p /\ t.job = j
    BY <1>0, <2>1 DEF Idle, Task, PurgeSteps, ExportSteps
  <2>3. TaskOK(t)
    BY <1>3, <2>2 DEF TaskOK, PurgeSteps, ExportSteps
  <2>4. msgs' \in [Jobs -> Nat]
    BY <1>0, <1>3 DEF Take
  <2>5. UNCHANGED <<dataset, deleted, job, exported, objects, request, faults>>
    BY <1>3 DEF Take, dbVars
  <2>6. Becomes(w, Idle) \/ Becomes(w, t)
    BY <1>3, <2>1 DEF Take
  <2> QED
    BY <1>0, <1>1, <1>3, <2>2, <2>3, <2>4, <2>5, <2>6, Shapes, WorkerQuiet DEF Exists
<1>4. CASE TakeAny(w)
  <2>1. CASE \E p \in Purges : TakePurge(w, p)
    <3>1. PICK p \in Purges : TakePurge(w, p)
      BY <2>1
    <3>2. PICK q \in {"purge_begin", "purge_missing"} :
            /\ Take(w, p, {"succeeded", "cancelled"}, q)
            /\ q = "purge_missing" => ~Exists
      BY <3>1 DEF TakePurge
    <3> QED
      BY <1>3, <3>2 DEF Jobs
  <2>2. CASE \E e \in Exports : TakeExport(w, e)
    BY <1>3, <2>2 DEF TakeExport, Jobs
  <2> QED
    BY <1>4, <2>1, <2>2 DEF TakeAny, TakePurge, TakeExport
\* A task that returns, having written at most its job and a failure.
<1>5. ASSUME worker[w].pc # "idle", Becomes(w, Returned(k)),
             UNCHANGED <<deleted, objects, msgs, request, faults>>,
             job' \in [Jobs -> JobStatus], exported' \subseteq Exports,
             dataset' = dataset \/ (Exists /\ dataset' = "purge_failed")
      PROVE  PInv'
  BY <1>0, <1>1, <1>2, <1>5, Shapes, WorkerQuiet DEF Exists, DatasetStatus
<1>6. CASE PurgeMissing(w)
  BY <1>0, <1>5, <1>6, SetJobType DEF PurgeMissing, Own
<1>7. CASE PurgeBegin(w)
  <2>1. PICK t : t = [worker[w] EXCEPT !.pc = "purge_objects", !.seenJob = "running",
                                       !.left = Inventory]
    OBVIOUS
  <2>2. t \in Task /\ t.pc = "purge_objects" /\ t.job = k /\ t.left = Inventory
    BY <1>0, <2>1 DEF Task, Inventory, PurgeSteps
  <2>3. TaskOK(t)
    BY <1>0, <1>7, <2>2 DEF PurgeBegin, TaskOK, PurgeSteps, ExportSteps
  <2>4. Stored \cap objects \subseteq t.left
    BY <2>2 DEF PInv, RowsOutliveObjects, Inventory
  <2>5. Becomes(w, t) /\ job' \in [Jobs -> JobStatus]
        /\ UNCHANGED <<dataset, deleted, exported, objects, msgs, request, faults>>
    BY <1>0, <1>7, <2>1, SetJobType DEF PurgeBegin
  <2> QED
    BY <1>0, <2>2, <2>3, <2>4, <2>5, WorkerQuiet DEF Exists
<1>8. ASSUME NEW o \in Stored \cup Exports, PurgeObject(w, o) PROVE PInv'
  <2>1. PICK t : t = [worker[w] EXCEPT !.left = @ \ {o}]
    OBVIOUS
  <2>2. t \in Task /\ t.pc = "purge_objects" /\ t.job = k /\ t.left = worker[w].left \ {o}
    BY <1>0, <1>8, <2>1 DEF PurgeObject, Task
  <2>3. TaskOK(t)
    BY <1>0, <1>8, <2>2 DEF PurgeObject, TaskOK, PurgeSteps, ExportSteps
  <2>4. Becomes(w, t) /\ objects' = objects \ {o}
        /\ UNCHANGED <<dataset, deleted, job, exported, msgs, request, faults>>
    BY <1>8, <2>1 DEF PurgeObject, dbVars
  <2>5. Stored \cap objects' \subseteq t.left
    BY <1>0, <1>8, <2>2, <2>4 DEF PurgeObject, ClearedOK
  <2>6. \A v \in Workers : worker[v].pc = "purge_objects" =>
          Stored \cap objects' \subseteq worker[v].left
    BY <2>4 DEF PInv, ClearedInv, ClearedOK
  <2> QED
    BY <1>0, <2>2, <2>3, <2>4, <2>5, <2>6, WorkerFrame DEF Exists
<1>9. CASE PurgeRecords(w)
  <2>1. PICK t : t = [worker[w] EXCEPT !.pc = "purge_finish"]
    OBVIOUS
  <2>2. t \in Task /\ t.pc = "purge_finish" /\ t.job = k
    BY <1>0, <2>1 DEF Task, PurgeSteps
  <2>3. TaskOK(t)
    BY <1>0, <1>9, <2>2 DEF PurgeRecords, TaskOK, PurgeSteps, ExportSteps
  <2>4. Becomes(w, t) /\ dataset' = "gone" /\ exported' = {}
        /\ UNCHANGED <<deleted, objects, msgs, request, faults>>
    BY <1>9, <2>1 DEF PurgeRecords
  <2>5. Stored \cap objects = {}
    BY <1>0, <1>9 DEF PurgeRecords, NothingLeft, ClearedOK
  <2>6. job' \in [Jobs -> JobStatus]
    BY <1>0, <1>9 DEF PurgeRecords, KeepsOwnJob
  <2> QED
    BY <1>0, <2>2, <2>3, <2>4, <2>5, <2>6, WorkerFrame
<1>10. CASE PurgeFinish(w)
  BY <1>0, <1>5, <1>10, SetJobType DEF PurgeFinish, Own
<1>11. CASE PurgeFail(w)
  <2>1. job' \in [Jobs -> JobStatus]
    BY <1>0, <1>11 DEF PurgeFail, Own
  <2>2. dataset' = dataset \/ (Exists /\ dataset' = "purge_failed")
    BY <1>11 DEF PurgeFail, DatasetFailed, Exists
  <2>3. worker[w].pc # "idle"
    BY <1>11 DEF PurgeFail, PurgeSteps
  <2> QED
    BY <1>0, <1>5, <1>11, <2>1, <2>2, <2>3 DEF PurgeFail, Own
<1>12. CASE ExportCollect(w)
  <2>1. PICK t : t = [worker[w] EXCEPT !.pc = "export_put", !.seenJob = job[k]]
    OBVIOUS
  <2>2. k \in Exports /\ k \in Jobs
    BY <1>0, <1>12 DEF ExportCollect, TaskOK, ExportSteps
  <2>3. t \in Task /\ t.pc = "export_put" /\ t.job = k
    BY <1>0, <2>1, <2>2 DEF Task, ExportSteps
  <2>4. TaskOK(t)
    BY <2>2, <2>3 DEF TaskOK, PurgeSteps, ExportSteps
  <2>5. UNCHANGED <<dataset, deleted, job, exported, objects, msgs, request, faults>>
    BY <1>12 DEF ExportCollect, dbVars
  <2>6. Becomes(w, Returned(k)) \/ Becomes(w, t)
    BY <1>12, <2>1 DEF ExportCollect, Own
  <2> QED
    BY <1>0, <1>1, <2>2, <2>3, <2>4, <2>5, <2>6, Shapes, WorkerQuiet DEF Exists
<1>13. CASE ExportPut(w)
  <2>1. PICK t : t = [worker[w] EXCEPT !.pc = "export_finish"]
    OBVIOUS
  <2>2. k \in Exports /\ k \notin Stored
    BY <1>0, <1>13, IdsAssumption DEF ExportPut, TaskOK, ExportSteps
  <2>3. t \in Task /\ t.pc = "export_finish" /\ t.job = k
    BY <1>0, <2>1 DEF Task, ExportSteps
  <2>4. TaskOK(t)
    BY <2>2, <2>3 DEF TaskOK, PurgeSteps, ExportSteps, Jobs
  <2>5. Becomes(w, t) /\ objects' = objects \cup {k}
        /\ UNCHANGED <<dataset, deleted, job, exported, msgs, request, faults>>
    BY <1>13, <2>1 DEF ExportPut, Own, dbVars
  <2>6. Stored \cap objects' = Stored \cap objects
    BY <2>2, <2>5
  <2>7. \A v \in Workers : worker[v].pc = "purge_objects" =>
          Stored \cap objects' \subseteq worker[v].left
    BY <2>6 DEF PInv, ClearedInv, ClearedOK
  <2> QED
    BY <1>0, <2>2, <2>3, <2>4, <2>5, <2>6, <2>7, WorkerFrame DEF Exists
<1>14. CASE ExportFinish(w)
  <2>1. k \in Exports
    BY <1>0, <1>14 DEF ExportFinish, TaskOK, ExportSteps
  <2> QED
    BY <1>0, <1>5, <1>14, <2>1, SetJobType DEF ExportFinish, Own
<1>15. CASE ExportFail(w) \/ TaskStale(w)
  BY <1>0, <1>5, <1>15 DEF ExportFail, ExportSteps, TaskStale, Own, dbVars
<1>16. CASE Ack(w)
  <2>1. Becomes(w, Idle) /\ k \in Jobs
        /\ UNCHANGED <<dataset, deleted, job, exported, objects, msgs, request, faults>>
    BY <1>2, <1>16 DEF Ack, dbVars
  <2> QED
    BY <1>0, <1>1, <2>1, Shapes, WorkerQuiet DEF Exists
<1>17. CASE WorkerCrash(w) \/ Redeliver(w)
  <2>1. /\ k \in Jobs /\ faults' \in 0..MaxFaults
        /\ UNCHANGED <<dataset, deleted, job, exported, objects, request>>
    BY <1>0, <1>2, <1>17, PurgeBoundsAssumption DEF WorkerCrash, Redeliver, dbVars
  <2>2. msgs' \in [Jobs -> Nat]
    BY <1>0, <1>17, <2>1 DEF WorkerCrash, Redeliver, Requeued, Own
  <2>3. CASE WorkerCrash(w)
    BY <1>0, <1>1, <2>1, <2>2, <2>3, Shapes, WorkerQuiet DEF WorkerCrash, Exists
  <2>4. CASE Redeliver(w)
    BY <2>1, <2>2, <2>4
       DEF Redeliver, PInv, TypeOK, TaskInv, ClearedInv, ClearedOK, RowsOutliveObjects, Exists
  <2> QED
    BY <1>17, <2>3, <2>4
<1> QED
  BY <1>4, <1>6, <1>7, <1>8, <1>9, <1>10, <1>11, <1>12, <1>13, <1>14, <1>15, <1>16, <1>17
     DEF WorkerStep, TaskStep

\* Every step keeps the invariant.
LEMMA PInvStep == PInv /\ [Next]_vars => PInv'
<1> SUFFICES ASSUME PInv, [Next]_vars PROVE PInv'
  OBVIOUS
<1>1. CASE Next
  BY <1>1, RequestKeeps, WorkerKeeps DEF Next
<1>2. CASE UNCHANGED vars
  BY <1>2 DEF vars, dbVars, PInv, TypeOK, TaskInv, ClearedInv, ClearedOK,
              RowsOutliveObjects, Exists
<1> QED
  BY <1>1, <1>2

\* Types, ids and what running purges know are right in every reachable state.
THEOREM PurgeCorrect == Spec => []PInv
BY InitPurge, PInvStep, PTL DEF Spec

\* Types are right in every reachable state.
THEOREM PurgeTypes == Spec => []TypeOK
<1>1. PInv => TypeOK
  BY DEF PInv
<1> QED
  BY <1>1, PurgeCorrect, PTL

\* However purges fail, crash, run twice or compete, no asset or archive is left
\* in storage once the rows that name it are gone.
THEOREM ObjectsGoFirst == Spec => []RowsOutliveObjects
<1>1. PInv => RowsOutliveObjects
  BY DEF PInv
<1> QED
  BY <1>1, PurgeCorrect, PTL

-----------------------------------------------------------------------------
(* The job of one purge survives the dataset.                               *)

\* A job's row disappears only with the dataset, and then not that of the purge
\* that deletes it.
LEMMA RowsKept ==
  ASSUME PInv, SomePurgeReports, [Next]_vars
  PROVE  SomePurgeReports'
<1>0. job \in [Jobs -> JobStatus] /\ Purges \subseteq Jobs
  BY DEF PInv, TypeOK, Jobs
\* A step that changes the status of at most one job, to one that has a row.
<1>1. ASSUME NEW k, NEW s, s \notin {"absent", "removed"},
             job' = job \/ job' = [job EXCEPT ![k] = s],
             dataset' = "gone" => ~Exists
      PROVE  SomePurgeReports'
  <2>1. \A j \in Jobs : HasRow(j) => HasRow(j)'
    BY <1>0, <1>1 DEF HasRow
  <2> QED
    BY <1>0, <1>1, <2>1 DEF SomePurgeReports, Exists
<1>2. CASE UNCHANGED vars
  BY <1>1, <1>2 DEF vars, dbVars, Exists
<1>3. ASSUME NEW c \in Clients, RequestStep(c) PROVE SomePurgeReports'
  <2>1. PICK s \in {"queued", "cancelled"} :
          job' = job \/ job' = [job EXCEPT ![request[c].job] = s]
    BY <1>3 DEF RequestStep, DeleteRead, RestoreRead, PurgeRead, ExportRead, CancelRead, Reads,
                DeleteCommit, RestoreCommit, PurgeTest, PurgeCommit, ExportCommit,
                CancelCommit, RequestStale, Send, ApiDies, dbVars
  <2>2. dataset' = dataset \/ dataset' = "purging"
    BY <1>3 DEF RequestStep, DeleteRead, RestoreRead, PurgeRead, ExportRead, CancelRead, Reads,
                DeleteCommit, RestoreCommit, PurgeTest, PurgeCommit, ExportCommit,
                CancelCommit, RequestStale, Send, ApiDies, dbVars, Saved
  <2> QED
    BY <1>1, <2>1, <2>2 DEF Exists
<1>4. ASSUME NEW w \in Workers, WorkerStep(w) PROVE SomePurgeReports'
  <2>1. CASE PurgeRecords(w)
    <3>1. Own(w) \in Purges /\ HasRow(Own(w))
      BY <2>1 DEF PurgeRecords, PInv, TaskInv, TaskOK, PurgeSteps, Own
    <3>2. HasRow(Own(w))'
      <4>1. job'[worker[w].job] = job[worker[w].job]
        BY <1>0, <2>1, <3>1 DEF PurgeRecords, KeepsOwnJob, Own
      <4>2. worker'[w].job = worker[w].job
        BY <2>1 DEF PurgeRecords, Becomes, PInv, TypeOK, Task
      <4> QED
        BY <3>1, <4>1, <4>2 DEF HasRow, Own
    <3>3. Own(w)' = Own(w)
      BY <2>1 DEF PurgeRecords, Becomes, PInv, TypeOK, Task, Own
    <3> QED
      BY <3>1, <3>2, <3>3 DEF SomePurgeReports
  <2>2. CASE ~PurgeRecords(w)
    <3>1. PICK s \in {"running", "failed", "succeeded"} :
            job' = job \/ job' = [job EXCEPT ![worker[w].job] = s]
      BY <1>0, <1>4, <2>2
         DEF WorkerStep, TaskStep, TakeAny, TakePurge, TakeExport, Take, PurgeMissing,
             PurgeBegin, PurgeObject, PurgeFinish, PurgeFail, ExportCollect, ExportPut,
             ExportFinish, ExportFail, TaskStale, Ack, WorkerCrash, Redeliver, SetJob,
             Saved, Own, dbVars
    <3>2. dataset' = "gone" => ~Exists
      BY <1>4, <2>2
         DEF WorkerStep, TaskStep, TakeAny, TakePurge, TakeExport, Take, PurgeMissing,
             PurgeBegin, PurgeObject, PurgeFinish, PurgeFail, ExportCollect, ExportPut,
             ExportFinish, ExportFail, TaskStale, Ack, WorkerCrash, Redeliver,
             DatasetFailed, Exists, dbVars
    <3> QED
      BY <1>1, <3>1, <3>2
  <2> QED
    BY <2>1, <2>2
<1> QED
  BY <1>2, <1>3, <1>4 DEF Next

\* Once a dataset is gone, the job of one of its purges is there to report it,
\* although competing purges delete each other's jobs.
THEOREM APurgeReports == Spec => []SomePurgeReports
<1>1. Init => SomePurgeReports
  BY DEF Init, SomePurgeReports, Exists
<1>2. PInv /\ SomePurgeReports /\ [Next]_vars => SomePurgeReports'
  BY RowsKept
<1> QED
  BY <1>1, <1>2, PurgeCorrect, PTL DEF Spec

-----------------------------------------------------------------------------
(* A dataset does not hang in `purging'.                                    *)

\* Purge p is active and somebody will end it.
UnderWay(p) == Active(job[p]) /\ Owned(p)

\* No request leaves a purging dataset without a purge under way.
LEMMA RequestKeepsGoing ==
  ASSUME ~ApiMayDie, PInv, PurgingIsUnderWay, NEW c \in Clients, RequestStep(c),
         dataset' = "purging"
  PROVE  \E p \in Purges : UnderWay(p)'
<1>0. /\ job \in [Jobs -> JobStatus] /\ msgs \in [Jobs -> Nat]
      /\ request \in [Clients -> Request] /\ RequestOK(request[c])
      /\ Purges \subseteq Jobs /\ Purges \cap Exports = {}
  BY IdsAssumption DEF PInv, TypeOK, TaskInv, Jobs
<1>1. ASSUME dataset = "purging", NEW r, Holds(c, r), request[c].pc # "send",
             UNCHANGED <<msgs, worker>>, \A p \in Purges : job'[p] = job[p]
      PROVE  \E p \in Purges : UnderWay(p)'
  <2>1. PICK p \in Purges : UnderWay(p)
    BY <1>1 DEF PurgingIsUnderWay, UnderWay
  <2>2. \A d \in Clients : d # c => request'[d] = request[d]
    BY <1>0, <1>1 DEF Holds
  <2>3. Owned(p)'
    BY <1>1, <2>1, <2>2 DEF UnderWay, Owned, Executes
  <2> QED
    BY <1>1, <2>1, <2>3 DEF UnderWay, Active
<1>2. CASE PurgeCommit(c)
  <2> DEFINE p == request[c].job
  <2>1. p \in Purges
    BY <1>0, <1>2 DEF PurgeCommit, RequestOK
  <2>2. job'[p] = "queued"
    BY <1>0, <1>2, <2>1 DEF PurgeCommit
  <2>3. request'[c].pc = "send" /\ request'[c].job = p
    BY <1>0, <1>2 DEF PurgeCommit, ThenSend, Holds, NoRequest
  <2>4. \E d \in Clients : request'[d].pc = "send" /\ request'[d].job = p
    BY <2>3
  <2> HIDE DEF p
  <2> QED
    BY <2>1, <2>2, <2>4 DEF UnderWay, Owned, Active
<1>3. CASE Send(c)
  <2>1. request[c].pc = "send" /\ request[c].job \in Jobs
        /\ msgs' = [msgs EXCEPT ![request[c].job] = @ + 1]
        /\ UNCHANGED <<dataset, job, worker>>
    BY <1>0, <1>3 DEF Send, RequestOK, dbVars
  <2>2. msgs'[request[c].job] > 0 /\ \A j \in Jobs : msgs[j] > 0 => msgs'[j] > 0
    BY <1>0, <2>1
  <2>3. \A d \in Clients : d # c => request'[d] = request[d]
    BY <1>0, <1>3 DEF Send, Holds
  <2>4. PICK p \in Purges : UnderWay(p)
    BY <2>1 DEF PurgingIsUnderWay, UnderWay
  <2>5. Owned(p)'
    BY <1>0, <2>1, <2>2, <2>3, <2>4 DEF UnderWay, Owned, Executes
  <2> QED
    BY <2>1, <2>4, <2>5 DEF UnderWay, Active
<1>4. CASE ~PurgeCommit(c) /\ ~Send(c)
  <2>1. dataset' = dataset
    BY <1>4 DEF RequestStep, DeleteRead, RestoreRead, PurgeRead, ExportRead, CancelRead, Reads,
                DeleteCommit, RestoreCommit, PurgeTest, ExportCommit, CancelCommit,
                RequestStale, ApiDies, dbVars
  <2>2. request[c].pc # "send" /\ UNCHANGED <<msgs, worker>>
    BY <1>4 DEF RequestStep, DeleteRead, RestoreRead, PurgeRead, ExportRead, CancelRead, Reads,
                DeleteCommit, RestoreCommit, PurgeTest, ExportCommit, CancelCommit,
                RequestStale, ApiDies, Begin
  <2>3. PICK r : Holds(c, r)
    BY <1>4 DEF RequestStep, DeleteRead, RestoreRead, PurgeRead, ExportRead, CancelRead, Reads,
                DeleteCommit, RestoreCommit, PurgeTest, ExportCommit, CancelCommit,
                RequestStale, ApiDies, Begin, ThenSend, Holds
  <2>4. \A p \in Purges : job'[p] = job[p]
    <3>1. CASE ExportCommit(c) \/ CancelCommit(c)
      <4>1. request[c].job \in Exports
        BY <1>0, <3>1 DEF ExportCommit, CancelCommit, RequestOK
      <4> QED
        BY <1>0, <3>1, <4>1 DEF ExportCommit, CancelCommit
    <3>2. CASE ~ExportCommit(c) /\ ~CancelCommit(c)
      BY <1>4, <3>2
         DEF RequestStep, DeleteRead, RestoreRead, PurgeRead, ExportRead, CancelRead, Reads,
             DeleteCommit, RestoreCommit, PurgeTest, RequestStale, ApiDies, dbVars
    <3> QED
      BY <3>1, <3>2
  <2> QED
    BY <1>1, <2>1, <2>2, <2>3, <2>4
<1> QED
  BY <1>2, <1>3, <1>4

\* No worker leaves a purging dataset without a purge under way: a task that
\* ends a purge takes the dataset out of `purging' in the same commit.
LEMMA WorkerKeepsGoing ==
  ASSUME PInv, PurgingIsUnderWay, NEW w \in Workers, WorkerStep(w), dataset' = "purging"
  PROVE  \E p \in Purges : UnderWay(p)'
<1> DEFINE k == worker[w].job
<1>0. /\ job \in [Jobs -> JobStatus] /\ msgs \in [Jobs -> Nat]
      /\ worker \in [Workers -> Task] /\ worker[w] \in Task
      /\ TaskOK(worker[w]) /\ ClearedOK(worker[w])
      /\ Purges \subseteq Jobs /\ Purges \cap Exports = {}
  BY IdsAssumption DEF PInv, TypeOK, TaskInv, ClearedInv, Jobs
<1>1. ~PurgeRecords(w) /\ ~PurgeFail(w)
  BY DEF PurgeRecords, PurgeFail, DatasetFailed
<1>2. dataset = "purging"
  BY <1>1 DEF WorkerStep, TaskStep, TakeAny, TakePurge, TakeExport, Take, PurgeMissing,
              PurgeBegin, PurgeObject, PurgeFinish, ExportCollect, ExportPut,
              ExportFinish, ExportFail, TaskStale, Ack, WorkerCrash, Redeliver, dbVars
<1>3. ~PurgeMissing(w) /\ ~PurgeFinish(w)
  BY <1>0, <1>2 DEF PurgeMissing, PurgeFinish, ClearedOK, Exists
<1>4. PICK p \in Purges : UnderWay(p)
  BY <1>2 DEF PurgingIsUnderWay, UnderWay
<1>5. UNCHANGED request
  BY <1>1, <1>3 DEF WorkerStep, TaskStep, TakeAny, TakePurge, TakeExport, Take,
              PurgeBegin, PurgeObject, ExportCollect, ExportPut,
              ExportFinish, ExportFail, TaskStale, Ack, WorkerCrash, Redeliver
<1>6. PICK t : t = worker'[w]
  OBVIOUS
<1>7. worker'[w] = t /\ \A v \in Workers : v # w => worker'[v] = worker[v]
  <2>1. (\E u : Becomes(w, u)) \/ UNCHANGED worker
    BY <1>1, <1>3 DEF WorkerStep, TaskStep, TakeAny, TakePurge, TakeExport, Take,
                PurgeBegin, PurgeObject, ExportCollect, ExportPut,
                ExportFinish, ExportFail, TaskStale, Ack, WorkerCrash, Redeliver
  <2> QED
    BY <1>0, <1>6, <2>1 DEF Becomes
\* A step that changes p's status and messages to no harm, and keeps w at work
\* on p if it was.
<1>8. ASSUME Active(job'[p]), msgs[p] > 0 => msgs'[p] > 0 \/ Executes(t, p),
             Executes(worker[w], p) => Executes(t, p) \/ msgs'[p] > 0
      PROVE  UnderWay(p)'
  <2>1. Owned(p)'
    <3>1. CASE msgs'[p] > 0 \/ Executes(t, p)
      BY <1>7, <3>1 DEF Owned, Executes
    <3>2. CASE ~(msgs'[p] > 0) /\ ~Executes(t, p)
      BY <1>4, <1>5, <1>7, <1>8, <3>2 DEF UnderWay, Owned, Executes
    <3> QED
      BY <3>1, <3>2
  <2> QED
    BY <1>8, <2>1 DEF UnderWay, Active
<1>9. CASE TakeAny(w)
  <2>1. PICK j \in Jobs, ret \in {{"succeeded", "cancelled"}},
             q \in {"purge_begin", "purge_missing", "export_collect"} : Take(w, j, ret, q)
    BY <1>9 DEF TakeAny, TakePurge, TakeExport
  <2>2. /\ job' = job /\ worker[w].pc = "idle"
        /\ \A i \in Jobs : i # j => msgs'[i] = msgs[i]
    BY <1>0, <2>1 DEF Take, dbVars
  <2>3. Active(job[p])
    BY <1>4 DEF UnderWay
  <2>4. p = j => Executes(t, p)
    <3> SUFFICES ASSUME p = j PROVE Executes(t, p)
      OBVIOUS
    <3>1. PICK u : u = [Idle EXCEPT !.pc = q, !.job = j, !.seenJob = job[j]]
      OBVIOUS
    <3>2. u.pc = q /\ u.job = j
      BY <3>1 DEF Idle
    <3>3. HasRow(j) /\ job[j] \notin ret
      BY <2>1, <2>3 DEF Active, HasRow
    <3>4. worker'[w] = u
      BY <1>0, <2>1, <3>1, <3>3 DEF Take, Becomes
    <3> QED
      BY <1>7, <3>2, <3>4 DEF Executes
  <2>5. ~Executes(worker[w], p) /\ Active(job'[p])
    BY <2>2, <2>3 DEF Executes
  <2>6. msgs[p] > 0 => msgs'[p] > 0 \/ Executes(t, p)
    BY <1>0, <2>2, <2>4
  <2> QED
    BY <1>8, <2>5, <2>6
<1>10. CASE WorkerCrash(w) \/ Redeliver(w)
  <2>1. k \in Jobs /\ job' = job /\ msgs' = [msgs EXCEPT ![k] = @ + 1]
    BY <1>0, <1>10 DEF WorkerCrash, Redeliver, Requeued, Own, TaskOK, dbVars
  <2>2. (msgs[p] > 0 => msgs'[p] > 0) /\ (Executes(worker[w], p) => msgs'[p] > 0)
    BY <1>0, <2>1 DEF Executes
  <2> QED
    BY <1>4, <1>8, <2>1, <2>2 DEF UnderWay
<1>11. CASE PurgeBegin(w)
  <2>1. PICK u : u = [worker[w] EXCEPT !.pc = "purge_objects", !.seenJob = "running",
                                       !.left = Inventory]
    OBVIOUS
  <2>2. u.pc = "purge_objects" /\ u.job = k /\ t = u
    BY <1>0, <1>7, <1>11, <2>1 DEF PurgeBegin, Becomes, Task
  <2>3. Active(job'[p])
    BY <1>0, <1>4, <1>11 DEF PurgeBegin, SetJob, Saved, Own, UnderWay, Active
  <2>4. msgs' = msgs /\ (Executes(worker[w], p) => Executes(t, p))
    BY <1>11, <2>2 DEF PurgeBegin, Executes
  <2> QED
    BY <1>8, <2>3, <2>4
<1>12. ASSUME NEW o \in Stored \cup Exports, PurgeObject(w, o) PROVE UnderWay(p)'
  <2>1. PICK u : u = [worker[w] EXCEPT !.left = @ \ {o}]
    OBVIOUS
  <2>2. u.pc = "purge_objects" /\ u.job = k /\ t = u
    BY <1>0, <1>7, <1>12, <2>1 DEF PurgeObject, Becomes, Task
  <2>3. UNCHANGED <<job, msgs>> /\ (Executes(worker[w], p) => Executes(t, p))
    BY <1>12, <2>2 DEF PurgeObject, Executes, dbVars
  <2> QED
    BY <1>4, <1>8, <2>3 DEF UnderWay
\* An export, a task that has returned, or one whose job is gone.
<1>13. ASSUME k # p \/ ~Executes(worker[w], p), job'[p] = job[p], UNCHANGED msgs
       PROVE  UnderWay(p)'
  BY <1>4, <1>8, <1>13 DEF UnderWay, Executes
<1>14. CASE ExportCollect(w) \/ ExportPut(w) \/ ExportFinish(w) \/ ExportFail(w)
  <2>1. k \in Exports
    BY <1>0, <1>14 DEF ExportCollect, ExportPut, ExportFinish, ExportFail, ExportSteps, TaskOK
  <2>2. job'[p] = job[p] /\ UNCHANGED msgs
    BY <1>0, <1>14, <2>1
       DEF ExportCollect, ExportPut, ExportFinish, ExportFail, SetJob, Own, dbVars
  <2> QED
    BY <1>0, <1>13, <2>1, <2>2
<1>15. CASE TaskStale(w)
  BY <1>4, <1>13, <1>15 DEF TaskStale, HasRow, Own, UnderWay, Active, dbVars
<1>16. CASE Ack(w)
  BY <1>13, <1>16 DEF Ack, Executes, dbVars
<1> QED
  BY <1>1, <1>3, <1>9, <1>10, <1>11, <1>12, <1>14, <1>15, <1>16 DEF WorkerStep, TaskStep

\* While the API process survives its requests, a dataset shown as `purging' has
\* an active purge that somebody will end, in spite of failures, crashes and
\* competing purges.
THEOREM NoPurgeHangs ==
  ASSUME ~ApiMayDie
  PROVE  Spec => []PurgingIsUnderWay
<1>1. Init => PurgingIsUnderWay
  BY DEF Init, PurgingIsUnderWay
<1>2. PInv /\ PurgingIsUnderWay /\ [Next]_vars => PurgingIsUnderWay'
  <2> SUFFICES ASSUME PInv, PurgingIsUnderWay, [Next]_vars
               PROVE  PurgingIsUnderWay'
    OBVIOUS
  <2>1. CASE Next
    <3>1. dataset' = "purging" => \E p \in Purges : UnderWay(p)'
      BY <2>1, RequestKeepsGoing, WorkerKeepsGoing DEF Next
    <3> QED
      BY <3>1 DEF PurgingIsUnderWay, UnderWay
  <2>2. CASE UNCHANGED vars
    BY <2>2 DEF vars, dbVars, PurgingIsUnderWay, Active, Owned, Executes
  <2> QED
    BY <2>1, <2>2
<1> QED
  BY <1>1, <1>2, PurgeCorrect, PTL DEF Spec


-----------------------------------------------------------------------------
(* An active dataset has not been touched.                                  *)

\* Nobody has begun to purge a dataset that is still `active', and whoever is
\* about to has loaded that status, so that its commit will be seen.
WholeInv ==
  dataset = "active" =>
    /\ Stored \subseteq objects
    /\ \A p \in Purges : job[p] = "absent"
    /\ \A w \in Workers : worker[w].pc \notin PurgeSteps
    /\ \A c \in Clients : request[c].pc \in {"purge_test", "purge_commit"}
                            => request[c].status = "active"

\* Requests: a purge that commits takes the status along.
LEMMA RequestKeepsWhole ==
  ASSUME PInv, WholeInv, NEW c \in Clients, RequestStep(c), dataset' = "active"
  PROVE  WholeInv'
<1>0. /\ job \in [Jobs -> JobStatus] /\ RequestOK(request[c])
      /\ Purges \subseteq Jobs /\ Purges \cap Exports = {}
      /\ NoRequest.pc = "idle"
  BY IdsAssumption DEF PInv, TypeOK, TaskInv, Jobs, NoRequest
<1>1. ASSUME NEW r, Holds(c, r), UNCHANGED <<dataset, objects, worker>>,
             \A p \in Purges : job'[p] = job[p],
             r.pc \in {"purge_test", "purge_commit"} => (dataset = "active" => r.status = "active")
      PROVE  WholeInv'
  <2>1. request'[c] = r /\ \A d \in Clients : d # c => request'[d] = request[d]
    BY <1>1 DEF Holds, PInv, TypeOK
  <2> QED
    BY <1>1, <2>1 DEF WholeInv
\* A request that has read, and goes on with what it holds.
<1>2. ASSUME NEW r, Reads(c, r), r.pc \in {"purge_test", "purge_commit"} => r.status = dataset
      PROVE  WholeInv'
  BY <1>1, <1>2 DEF Reads, Begin, dbVars
<1>3. CASE DeleteRead(c) \/ RestoreRead(c)
  BY <1>2, <1>3 DEF DeleteRead, RestoreRead, NoRequest
<1>4. ASSUME NEW p \in Purges, PurgeRead(c, p) PROVE WholeInv'
  BY <1>2, <1>4 DEF PurgeRead
<1>5. ASSUME NEW e \in Exports, ExportRead(c, e) \/ CancelRead(c, e) PROVE WholeInv'
  BY <1>2, <1>5 DEF ExportRead, CancelRead, NoRequest
<1>6. CASE DeleteCommit(c) \/ RestoreCommit(c) \/ RequestStale(c) \/ Send(c) \/ ApiDies(c)
  BY <1>0, <1>1, <1>6 DEF DeleteCommit, RestoreCommit, RequestStale, Send, ApiDies, dbVars
<1>7. CASE PurgeTest(c)
  <2>1. PICK r : r = IF \E j \in Jobs : Active(job[j]) THEN NoRequest
                     ELSE [request[c] EXCEPT !.pc = "purge_commit"]
    OBVIOUS
  <2>2. r.pc \in {"purge_test", "purge_commit"} => r.status = request[c].status
    BY <1>0, <2>1 DEF PInv, TypeOK, Request
  <2> QED
    BY <1>1, <1>7, <2>1, <2>2 DEF PurgeTest, WholeInv, dbVars
<1>8. CASE PurgeCommit(c)
  <2>1. dataset = "active" /\ request[c].status = "purging"
    BY <1>8 DEF PurgeCommit, Saved
  <2> QED
    BY <1>8, <2>1 DEF PurgeCommit, WholeInv
\* The commits of exports and cancellations.
<1>9. CASE ExportCommit(c) \/ CancelCommit(c)
  <2>1. request[c].job \in Exports
    BY <1>0, <1>9 DEF ExportCommit, CancelCommit, RequestOK
  <2>2. \A p \in Purges : job'[p] = job[p]
    BY <1>0, <1>9, <2>1 DEF ExportCommit, CancelCommit
  <2>3. PICK r : Holds(c, r) /\ r.pc \in {"idle", "send"}
    <3>1. PICK r : r = [NoRequest EXCEPT !.pc = "send", !.job = request[c].job]
      OBVIOUS
    <3>2. r.pc = "send"
      BY <3>1 DEF NoRequest
    <3> QED
      BY <1>0, <1>9, <3>1, <3>2 DEF ExportCommit, CancelCommit, ThenSend
  <2> QED
    BY <1>1, <1>9, <2>2, <2>3 DEF ExportCommit, CancelCommit
<1> QED
  BY <1>3, <1>4, <1>5, <1>6, <1>7, <1>8, <1>9 DEF RequestStep

\* Workers: a purge task has nothing to do before a purge is committed.
LEMMA WorkerKeepsWhole ==
  ASSUME PInv, WholeInv, NEW w \in Workers, WorkerStep(w), dataset' = "active"
  PROVE  WholeInv'
<1> DEFINE k == worker[w].job
<1>0. /\ job \in [Jobs -> JobStatus] /\ TaskOK(worker[w]) /\ worker[w] \in Task
      /\ Purges \subseteq Jobs /\ Purges \cap Exports = {}
      /\ Idle.pc = "idle" /\ \A j : Returned(j).pc = "ack"
  BY IdsAssumption DEF PInv, TypeOK, TaskInv, Jobs, Idle, Returned
<1>1. ASSUME NEW t, Becomes(w, t), UNCHANGED <<dataset, request>>, objects \subseteq objects',
             \A p \in Purges : job'[p] = job[p], t.pc \notin PurgeSteps
      PROVE  WholeInv'
  <2>1. worker'[w] = t /\ \A v \in Workers : v # w => worker'[v] = worker[v]
    BY <1>1 DEF Becomes, PInv, TypeOK
  <2> QED
    BY <1>1, <2>1 DEF WholeInv
<1>2. ~PurgeRecords(w) /\ ~PurgeFail(w)
  BY DEF PurgeRecords, PurgeFail, DatasetFailed
<1>3. dataset = "active" /\ worker[w].pc \notin PurgeSteps
  <2>1. dataset = "active"
    BY <1>2 DEF WorkerStep, TaskStep, TakeAny, TakePurge, TakeExport, Take, PurgeMissing, PurgeBegin,
       PurgeFinish, PurgeObject, ExportCollect, ExportPut, ExportFinish, TaskStale, ExportFail,
       Ack, WorkerCrash, Redeliver, dbVars
  <2> QED
    BY <2>1 DEF WholeInv
<1>4. ~PurgeMissing(w)
  <2>1. ASSUME PurgeMissing(w) PROVE FALSE
    BY <1>0, <1>3, <2>1 DEF PurgeMissing, PInv, ClearedInv, ClearedOK, Exists
  <2> QED
    BY <2>1
<1>5. ~PurgeBegin(w) /\ ~PurgeFinish(w) /\ \A o \in Stored \cup Exports : ~PurgeObject(w, o)
  BY <1>3 DEF PurgeBegin, PurgeFinish, PurgeObject, PurgeSteps
<1>6. ASSUME NEW j \in Jobs, TakePurge(w, j) PROVE WholeInv'
  <2>1. j \in Purges /\ ~HasRow(j)
    BY <1>3, <1>6 DEF TakePurge, WholeInv, HasRow
  <2> QED
    BY <1>0, <1>1, <1>6, <2>1 DEF TakePurge, Take, PurgeSteps, dbVars
<1>7. ASSUME NEW j \in Jobs, TakeExport(w, j) PROVE WholeInv'
  <2>1. PICK t : t = IF ~HasRow(j) \/ job[j] \in {"succeeded", "cancelled"} THEN Idle
                     ELSE [Idle EXCEPT !.pc = "export_collect", !.job = j, !.seenJob = job[j]]
    OBVIOUS
  <2>2. t.pc \in {"idle", "export_collect"}
    BY <2>1 DEF Idle
  <2> QED
    BY <1>1, <1>7, <2>1, <2>2 DEF TakeExport, Take, PurgeSteps, dbVars
\* An export's steps assign its own job only.
<1>8. CASE ExportCollect(w) \/ ExportPut(w) \/ ExportFinish(w) \/ ExportFail(w)
  <2>1. k \in Exports
    BY <1>0, <1>8 DEF ExportCollect, ExportPut, ExportFinish, ExportFail, ExportSteps, TaskOK
  <2>2. \A p \in Purges : job'[p] = job[p]
    BY <1>0, <1>8, <2>1
       DEF ExportCollect, ExportPut, ExportFinish, ExportFail, SetJob, Own, dbVars
  <2>3. PICK t : Becomes(w, t) /\ t.pc \in {"ack", "export_put", "export_finish"}
    <3>1. [worker[w] EXCEPT !.pc = "export_finish"].pc = "export_finish"
          /\ [worker[w] EXCEPT !.pc = "export_put", !.seenJob = job[k]].pc = "export_put"
      BY <1>0 DEF Task
    <3> QED
      BY <1>0, <1>8, <3>1 DEF ExportCollect, ExportPut, ExportFinish, ExportFail, Own
  <2> QED
    BY <1>1, <1>8, <2>2, <2>3
       DEF ExportCollect, ExportPut, ExportFinish, ExportFail, PurgeSteps, dbVars
<1>9. CASE TaskStale(w) \/ Ack(w) \/ WorkerCrash(w)
  BY <1>0, <1>1, <1>9 DEF TaskStale, Ack, WorkerCrash, PurgeSteps, dbVars
<1>10. CASE Redeliver(w)
  BY <1>10 DEF Redeliver, WholeInv, dbVars
<1> QED
  BY <1>2, <1>4, <1>5, <1>6, <1>7, <1>8, <1>9, <1>10 DEF WorkerStep, TaskStep, TakeAny

\* As long as its status is `active', every object of the dataset is in storage:
\* no restoration or late delivery makes a dataset look untouched again once a
\* purge has been committed.
THEOREM ActiveStaysWhole == Spec => []ActiveIsWhole
<1>1. Init => WholeInv
  BY DEF Init, WholeInv, Idle, NoRequest, Jobs, PurgeSteps
<1>2. PInv /\ WholeInv /\ [Next]_vars => WholeInv'
  <2> SUFFICES ASSUME PInv, WholeInv, [Next]_vars PROVE WholeInv'
    OBVIOUS
  <2>1. CASE dataset' # "active"
    BY <2>1 DEF WholeInv
  <2>2. CASE Next /\ dataset' = "active"
    BY <2>2, RequestKeepsWhole, WorkerKeepsWhole DEF Next
  <2>3. CASE UNCHANGED vars
    BY <2>3 DEF vars, dbVars, WholeInv
  <2> QED
    BY <2>1, <2>2, <2>3
<1>3. WholeInv => ActiveIsWhole
  BY DEF WholeInv, ActiveIsWhole
<1> QED
  BY <1>1, <1>2, <1>3, PurgeCorrect, PTL DEF Spec

=============================================================================
