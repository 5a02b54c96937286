---------------------------- MODULE DatasetPurge ----------------------------
(***************************************************************************)
(* One dataset in the recycle bin: the API handlers that delete, restore   *)
(* and purge it, the purge_dataset task that removes its objects and then  *)
(* its rows, and the exports that write objects of their own and whose     *)
(* jobs the purge waits for.                                               *)
(*                                                                         *)
(* Transactions, requests and deliveries are those of ImportPipeline: an   *)
(* actor works on values it has loaded, and a commit comes to nothing when *)
(* a row it updates has been deleted meanwhile.  The imports of the        *)
(* dataset are over: its rows name the objects `Stored', and disappear in  *)
(* one transaction.                                                        *)
(***************************************************************************)
EXTENDS Integers, FiniteSets

CONSTANTS
  Workers,    \* worker slots
  Clients,    \* API requests that may be in progress at the same time
  Purges,     \* ids for the jobs that queue_dataset_purge creates
  Exports,    \* ids for the jobs that queue_export creates; also the object
              \* key an export writes, which contains the job's id
  NoJob,      \* "no job", in an idle worker slot or request
  Stored,     \* object keys of the dataset's assets and uploaded archives
  MaxFaults,  \* bound: worker crashes, redeliveries and API failures
  MaxCopies,  \* bound: copies of one job's message waiting in the broker
  ApiMayDie   \* may the API process (or Redis) fail before the enqueue?

Jobs == Purges \cup Exports

ASSUME IdsAssumption == /\ Purges \cap Exports = {}
                        /\ NoJob \notin Jobs
                        /\ Stored \cap Exports = {}
ASSUME PurgeBoundsAssumption == /\ MaxFaults \in Nat
                                /\ MaxCopies \in Nat
                                /\ ApiMayDie \in BOOLEAN

VARIABLES
  dataset,   \* Dataset.status, or "gone" when the row and all below it are
  deleted,   \* is Dataset.deleted_at set?
  job,       \* Job.status; "absent" before the row exists, "removed" after
  exported,  \* export jobs whose result_json names their object
  objects,   \* objects in MinIO
  msgs,      \* messages waiting in the broker, per job
  worker,    \* worker slots: task, position, loaded status, objects to delete
  request,   \* API requests in progress and the dataset status they loaded
  faults     \* faults so far, at most MaxFaults

dbVars == <<dataset, deleted, job, exported>>
vars == <<dbVars, objects, msgs, worker, request, faults>>

DatasetStatus == {"active", "purging", "purge_failed"}
JobStatus == {"absent", "queued", "running", "succeeded", "failed",
              "cancelled", "removed"}

Idle == [pc |-> "idle", job |-> NoJob, seenJob |-> "absent", left |-> {}]
Returned(j) == [Idle EXCEPT !.pc = "ack", !.job = j]
NoRequest == [pc |-> "idle", job |-> NoJob, status |-> "active"]

PurgeSteps == {"purge_begin", "purge_objects", "purge_finish"}
ExportSteps == {"export_collect", "export_put", "export_finish"}

Task == [pc : {"idle", "purge_missing", "ack"} \cup PurgeSteps \cup ExportSteps,
         job : Jobs \cup {NoJob}, seenJob : JobStatus,
         left : SUBSET (Stored \cup Exports)]
Request == [pc : {"idle", "delete", "restore", "purge_test", "purge_commit",
                  "export", "cancel", "send"},
            job : Jobs \cup {NoJob}, status : DatasetStatus]

\* Every column, message count and loaded value has a value its code can give it.
TypeOK ==
  /\ dataset \in DatasetStatus \cup {"gone"}
  /\ deleted \in BOOLEAN
  /\ job \in [Jobs -> JobStatus]
  /\ exported \subseteq Exports
  /\ objects \subseteq Stored \cup Exports
  /\ msgs \in [Jobs -> Nat]
  /\ worker \in [Workers -> Task]
  /\ request \in [Clients -> Request]
  /\ faults \in 0..MaxFaults

\* An active dataset with its objects, and no purge or export yet.
Init ==
  /\ dataset = "active" /\ deleted = FALSE
  /\ job = [j \in Jobs |-> "absent"]
  /\ exported = {}
  /\ objects = Stored
  /\ msgs = [j \in Jobs |-> 0]
  /\ worker = [w \in Workers |-> Idle]
  /\ request = [c \in Clients |-> NoRequest]
  /\ faults = 0

-----------------------------------------------------------------------------
Saved(current, seen, new) == IF new = seen THEN current ELSE new
Active(s) == s \in {"queued", "running"}
HasRow(j) == job[j] \notin {"absent", "removed"}
Exists == dataset # "gone"
\* get_dataset_for_org and _get_removed_dataset_for_org.
Visible == Exists /\ ~deleted
InBin == Exists /\ deleted
Fresh(j) == job[j] = "absent" /\ \A c \in Clients : request[c].job # j

-----------------------------------------------------------------------------
(* API requests: read, commit, enqueue.                                     *)

Holds(c, r) == request' = [request EXCEPT ![c] = r]
Begin(c, r) == request[c].pc = "idle" /\ Holds(c, r)
\* A request has read what it tests and goes on.
Reads(c, r) == Begin(c, r) /\ UNCHANGED <<dbVars, objects, msgs, worker, faults>>
ThenSend(c, j) == Holds(c, [NoRequest EXCEPT !.pc = "send", !.job = j])

DeleteRead(c) == Visible /\ Reads(c, [NoRequest EXCEPT !.pc = "delete"])
DeleteCommit(c) ==
  /\ request[c].pc = "delete" /\ Exists
  /\ deleted' = TRUE
  /\ Holds(c, NoRequest)
  /\ UNCHANGED <<dataset, job, exported, objects, msgs, worker, faults>>

\* What restore_dataset accepts: also a dataset whose purge has failed.
Restorable == InBin /\ dataset # "purging"

RestoreRead(c) == Restorable /\ Reads(c, [NoRequest EXCEPT !.pc = "restore"])
RestoreCommit(c) ==
  /\ request[c].pc = "restore" /\ Exists
  /\ deleted' = FALSE
  /\ Holds(c, NoRequest)
  /\ UNCHANGED <<dataset, job, exported, objects, msgs, worker, faults>>

\* queue_dataset_purge loads the dataset, then looks for active jobs, then
\* commits: three statements between which others may commit.
PurgeRead(c, p) ==
  /\ InBin /\ Fresh(p)
  /\ Reads(c, [pc |-> "purge_test", job |-> p, status |-> dataset])

PurgeTest(c) ==
  /\ request[c].pc = "purge_test"
  /\ Holds(c, IF \E j \in Jobs : Active(job[j]) THEN NoRequest
              ELSE [request[c] EXCEPT !.pc = "purge_commit"])
  /\ UNCHANGED <<dbVars, objects, msgs, worker, faults>>

\* A dataset loaded as `purging' is not written again, and may even be gone.
PurgeCommit(c) ==
  /\ request[c].pc = "purge_commit"
  /\ request[c].status # "purging" => Exists
  /\ dataset' = Saved(dataset, request[c].status, "purging")
  /\ job' = [job EXCEPT ![request[c].job] = "queued"]
  /\ ThenSend(c, request[c].job)
  /\ UNCHANGED <<deleted, exported, objects, msgs, worker, faults>>

\* queue_export; Job.resource_id is no foreign key, so the insert succeeds even
\* when the dataset is gone by now.
ExportRead(c, e) ==
  /\ Visible /\ Fresh(e)
  /\ Reads(c, [NoRequest EXCEPT !.pc = "export", !.job = e])
ExportCommit(c) ==
  /\ request[c].pc = "export"
  /\ job' = [job EXCEPT ![request[c].job] = "queued"]
  /\ ThenSend(c, request[c].job)
  /\ UNCHANGED <<dataset, deleted, exported, objects, msgs, worker, faults>>

\* cancel_job, which refuses purges.
CancelRead(c, e) ==
  /\ Active(job[e])
  /\ Reads(c, [NoRequest EXCEPT !.pc = "cancel", !.job = e])
CancelCommit(c) ==
  /\ request[c].pc = "cancel" /\ HasRow(request[c].job)
  /\ job' = [job EXCEPT ![request[c].job] = "cancelled"]
  /\ Holds(c, NoRequest)
  /\ UNCHANGED <<dataset, deleted, exported, objects, msgs, worker, faults>>

\* The row a request updates has been deleted: StaleDataError, answer 500.
RequestStale(c) ==
  /\ \/ request[c].pc \in {"delete", "restore"} /\ ~Exists
     \/ request[c].pc = "purge_commit" /\ request[c].status # "purging" /\ ~Exists
     \/ request[c].pc = "cancel" /\ ~HasRow(request[c].job)
  /\ Holds(c, NoRequest)
  /\ UNCHANGED <<dbVars, objects, msgs, worker, faults>>

Send(c) ==
  /\ request[c].pc = "send"
  /\ msgs' = [msgs EXCEPT ![request[c].job] = @ + 1]
  /\ Holds(c, NoRequest)
  /\ UNCHANGED <<dbVars, objects, worker, faults>>

ApiDies(c) ==
  /\ ApiMayDie /\ faults < MaxFaults
  /\ request[c].pc # "idle"
  /\ Holds(c, NoRequest)
  /\ faults' = faults + 1
  /\ UNCHANGED <<dbVars, objects, msgs, worker>>

-----------------------------------------------------------------------------
(* The broker.                                                              *)

Becomes(w, task) == worker' = [worker EXCEPT ![w] = task]
Own(w) == worker[w].job
\* Mutant: acknowledged on delivery.
NotRequeued(w) == w \in Workers /\ UNCHANGED msgs
Requeued(w) == msgs' = [msgs EXCEPT ![Own(w)] = @ + 1]

\* Deliver a message of job j, whose task returns at once or loads the job.
Take(w, j, returns, firstStep) ==
  /\ worker[w].pc = "idle"
  /\ msgs[j] > 0
  /\ msgs' = [msgs EXCEPT ![j] = @ - 1]
  /\ Becomes(w, IF ~HasRow(j) \/ job[j] \in returns THEN Idle
                ELSE [Idle EXCEPT !.pc = firstStep, !.job = j, !.seenJob = job[j]])
  /\ UNCHANGED <<dbVars, objects, request, faults>>

Ack(w) ==
  /\ worker[w].pc = "ack"
  /\ Becomes(w, Idle)
  /\ UNCHANGED <<dbVars, objects, msgs, request, faults>>

WorkerCrash(w) ==
  /\ faults < MaxFaults
  /\ worker[w].pc # "idle"
  /\ Requeued(w)
  /\ Becomes(w, Idle)
  /\ faults' = faults + 1
  /\ UNCHANGED <<dbVars, objects, request>>

Redeliver(w) ==
  /\ faults < MaxFaults
  /\ worker[w].pc # "idle"
  /\ msgs[Own(w)] < MaxCopies
  /\ Requeued(w)
  /\ faults' = faults + 1
  /\ UNCHANGED <<dbVars, objects, worker, request>>

\* A commit that updates the task's job finds its row deleted and raises: the
\* task ends, and the handler that would record the failure raises as well.
TaskStale(w) ==
  /\ worker[w].pc \notin {"idle", "ack"}
  /\ ~HasRow(Own(w))
  /\ Becomes(w, Returned(Own(w)))
  /\ UNCHANGED <<dbVars, objects, msgs, request, faults>>

-----------------------------------------------------------------------------
(* purge_dataset                                                            *)

SetJob(w, s) == job' = [job EXCEPT ![Own(w)] = Saved(@, worker[w].seenJob, s)]

TakePurge(w, p) ==
  p \in Purges /\ Take(w, p, {"succeeded", "cancelled"},
                       IF Exists THEN "purge_begin" ELSE "purge_missing")

\* dataset.not_found
PurgeMissing(w) ==
  /\ worker[w].pc = "purge_missing" /\ HasRow(Own(w))
  /\ SetJob(w, "failed")
  /\ Becomes(w, Returned(Own(w)))
  /\ UNCHANGED <<dataset, deleted, exported, objects, msgs, request, faults>>

\* collect_dataset_purge_inventory: assets and archives, and recorded exports.
Inventory == exported \cup (IF Exists THEN Stored ELSE {})

PurgeBegin(w) ==
  /\ worker[w].pc = "purge_begin" /\ HasRow(Own(w))
  /\ SetJob(w, "running")
  /\ Becomes(w, [worker[w] EXCEPT !.pc = "purge_objects", !.seenJob = "running",
                                  !.left = Inventory])
  /\ UNCHANGED <<dataset, deleted, exported, objects, msgs, request, faults>>

\* One object; the commits in between write progress only.
PurgeObject(w, o) ==
  /\ worker[w].pc = "purge_objects"
  /\ o \in worker[w].left
  /\ objects' = objects \ {o}
  /\ Becomes(w, [worker[w] EXCEPT !.left = @ \ {o}])
  /\ UNCHANGED <<dbVars, msgs, request, faults>>

\* Mutant: keep_job_id is forgotten.
KeepsNoJob(w) == [j \in Jobs |-> IF HasRow(j) THEN "removed" ELSE job[j]]
\* The jobs of the dataset go with it, except the purge's own.
KeepsOwnJob(w) ==
  [j \in Jobs |-> IF HasRow(j) /\ j # Own(w) THEN "removed" ELSE job[j]]

\* Mutant: the rows go while objects are left.
AnyLeft(w) == w \in Workers
NothingLeft(w) == worker[w].left = {}

\* _purge_dataset_records: all rows in one transaction.
PurgeRecords(w) ==
  /\ worker[w].pc = "purge_objects" /\ HasRow(Own(w))
  /\ NothingLeft(w)
  /\ dataset' = "gone"
  /\ job' = KeepsOwnJob(w)
  /\ exported' = {}
  /\ Becomes(w, [worker[w] EXCEPT !.pc = "purge_finish"])
  /\ UNCHANGED <<deleted, objects, msgs, request, faults>>

PurgeFinish(w) ==
  /\ worker[w].pc = "purge_finish" /\ HasRow(Own(w))
  /\ SetJob(w, "succeeded")
  /\ Becomes(w, Returned(Own(w)))
  /\ UNCHANGED <<dataset, deleted, exported, objects, msgs, request, faults>>

\* Mutants: the failure is recorded in the job only; a status no code knows; as
\* before the purge.
JobFailedOnly == UNCHANGED dataset
MisspeltFailure == dataset' = IF Exists THEN "failed" ELSE "gone"
BackToActive == dataset' = IF Exists THEN "active" ELSE "gone"
\* The failure is also shown on the dataset, if it still exists.
DatasetFailed == dataset' = IF Exists THEN "purge_failed" ELSE "gone"

\* A storage or database error or the time limit, anywhere in the try block.
PurgeFail(w) ==
  /\ worker[w].pc \in PurgeSteps /\ HasRow(Own(w))
  /\ DatasetFailed
  /\ job' = [job EXCEPT ![Own(w)] = "failed"]
  /\ Becomes(w, Returned(Own(w)))
  /\ UNCHANGED <<deleted, exported, objects, msgs, request, faults>>

-----------------------------------------------------------------------------
(* create_export                                                            *)

TakeExport(w, e) ==
  e \in Exports /\ Take(w, e, {"succeeded", "cancelled"}, "export_collect")

\* The samples are read between refreshes of the job.  A refresh discards the
\* uncommitted `running', so that the row stays `queued' until the end.
ExportCollect(w) ==
  /\ worker[w].pc = "export_collect" /\ HasRow(Own(w))
  /\ Becomes(w, IF job[Own(w)] = "cancelled" THEN Returned(Own(w))
                ELSE [worker[w] EXCEPT !.pc = "export_put", !.seenJob = job[Own(w)]])
  /\ UNCHANGED <<dbVars, objects, msgs, request, faults>>

ExportPut(w) ==
  /\ worker[w].pc = "export_put"
  /\ objects' = objects \cup {Own(w)}
  /\ Becomes(w, [worker[w] EXCEPT !.pc = "export_finish"])
  /\ UNCHANGED <<dbVars, msgs, request, faults>>

ExportFinish(w) ==
  /\ worker[w].pc = "export_finish" /\ HasRow(Own(w))
  /\ SetJob(w, "succeeded")
  /\ exported' = exported \cup {Own(w)}
  /\ Becomes(w, Returned(Own(w)))
  /\ UNCHANGED <<dataset, deleted, objects, msgs, request, faults>>

\* No handler: a missing object or the time limit ends the task without a trace.
ExportFail(w) ==
  /\ worker[w].pc \in ExportSteps
  /\ Becomes(w, Returned(Own(w)))
  /\ UNCHANGED <<dbVars, objects, msgs, request, faults>>

-----------------------------------------------------------------------------
RequestStep(c) ==
  \/ DeleteRead(c) \/ DeleteCommit(c)
  \/ RestoreRead(c) \/ RestoreCommit(c)
  \/ \E p \in Purges : PurgeRead(c, p)
  \/ PurgeTest(c) \/ PurgeCommit(c)
  \/ \E e \in Exports : ExportRead(c, e) \/ CancelRead(c, e)
  \/ ExportCommit(c) \/ CancelCommit(c)
  \/ RequestStale(c) \/ Send(c) \/ ApiDies(c)

TakeAny(w) == \E j \in Jobs : TakePurge(w, j) \/ TakeExport(w, j)

TaskStep(w) ==
  \/ PurgeMissing(w) \/ PurgeBegin(w) \/ PurgeRecords(w) \/ PurgeFinish(w)
  \/ \E o \in Stored \cup Exports : PurgeObject(w, o)
  \/ ExportCollect(w) \/ ExportPut(w) \/ ExportFinish(w)
  \/ TaskStale(w)

WorkerStep(w) ==
  \/ TakeAny(w) \/ TaskStep(w) \/ PurgeFail(w) \/ ExportFail(w)
  \/ Ack(w) \/ WorkerCrash(w) \/ Redeliver(w)

Next == \/ \E c \in Clients : RequestStep(c)
        \/ \E w \in Workers : WorkerStep(w)

Spec == Init /\ [][Next]_vars

\* Worker slots deliver and make progress, a request that committed enqueues.
Fairness == /\ \A w \in Workers : /\ WF_vars(TakeAny(w))
                                  /\ WF_vars(TaskStep(w))
                                  /\ WF_vars(Ack(w))
            /\ \A c \in Clients : WF_vars(Send(c))
FairSpec == Spec /\ Fairness

-----------------------------------------------------------------------------
(* Properties.                                                              *)

\* The rows of a dataset outlive its objects: however purges fail, crash, run
\* twice or compete, an asset or archive still in storage is still named by a
\* row, so that purging again will find it.
RowsOutliveObjects == ~Exists => Stored \cap objects = {}

\* Task t will still end purge p.
Executes(t, p) == t.job = p /\ t.pc \notin {"idle", "ack"}

Owned(p) == \/ msgs[p] > 0
            \/ \E w \in Workers : Executes(worker[w], p)
            \/ \E c \in Clients : request[c].pc = "send" /\ request[c].job = p

\* A dataset shown as `purging', which may not be restored, has an active purge
\* that somebody will end: it does not hang in the recycle bin.
PurgingIsUnderWay ==
  dataset = "purging" => \E p \in Purges : Active(job[p]) /\ Owned(p)

\* However many purges compete, the job of one survives the dataset and reports
\* its end: competing purges delete each other's jobs, but never all.
SomePurgeReports == ~Exists => \E p \in Purges : HasRow(p)

\* A purge comes to an end, by removing the dataset or by admitting failure.
PurgingEnds == dataset = "purging" ~> dataset # "purging"

\* A dataset that users see does not vanish: only one in the bin is destroyed.
VisibleIsNotDestroyed == [][Visible => dataset' # "gone"]_vars

\* A dataset whose status is `active' has all its files: once a purge has begun,
\* no restoration, failure or late delivery lets it look untouched again.
ActiveIsWhole == dataset = "active" => Stored \subseteq objects

-----------------------------------------------------------------------------
(* What makes the safety properties inductive.                              *)

\* Purge tasks and requests have purge ids, export ones export ids.
TaskOK(t) ==
  /\ t.pc # "idle" => t.job \in Jobs
  /\ t.pc \in PurgeSteps \cup {"purge_missing"} => t.job \in Purges
  /\ t.pc \in ExportSteps => t.job \in Exports
RequestOK(r) ==
  /\ r.pc \in {"purge_test", "purge_commit"} => r.job \in Purges
  /\ r.pc \in {"export", "cancel"} => r.job \in Exports
  /\ r.pc = "send" => r.job \in Jobs
TaskInv == /\ \A w \in Workers : TaskOK(worker[w])
           /\ \A c \in Clients : RequestOK(request[c])

\* What a purge has not yet to delete is not in storage; a purge that found no
\* dataset, or has deleted its rows, need not look again.
ClearedOK(t) ==
  /\ t.pc = "purge_objects" => Stored \cap objects \subseteq t.left
  /\ t.pc \in {"purge_missing", "purge_finish"} => ~Exists
ClearedInv == \A w \in Workers : ClearedOK(worker[w])

PInv == TypeOK /\ TaskInv /\ ClearedInv /\ RowsOutliveObjects

=============================================================================
