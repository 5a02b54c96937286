--------------------------- MODULE ImportPipeline ---------------------------
(***************************************************************************)
(* One upload session on its way from `created' to `ready': the API        *)
(* handlers that drive it (complete, confirm, cancel, rescan), the Celery  *)
(* broker that delivers its jobs at least once, and the worker slots that  *)
(* execute scan_upload and confirm_import.                                 *)
(*                                                                         *)
(* PostgreSQL runs READ COMMITTED and the SQLAlchemy sessions keep their   *)
(* objects across commits (expire_on_commit=False): an actor works on the  *)
(* values it loaded and a commit writes a column only when the actor gave  *)
(* it a value other than the one it loaded (operator Saved).  An API       *)
(* request is therefore a read step, a commit step and a separate enqueue  *)
(* step, and a task is one step per transaction.                           *)
(***************************************************************************)
EXTENDS Integers, Sequences, FiniteSets

CONSTANTS
  Workers,      \* worker slots (celery worker_concurrency)
  Clients,      \* API requests that may be in progress at the same time
  FirstScan,    \* the scan job created together with the upload session
  Rescans,      \* ids for the scan jobs that rescan_import_batch creates
  ImportJobs,   \* ids for the import jobs that confirm_upload creates
  NoJob,        \* "no job", in an idle worker slot or request
  Samples,      \* relative paths of the images in the archive
  Manifest,     \* the parsed manifest: a sequence of samples, in parser order
  AssetsOf,     \* the object keys a sample's image, annotation and manifest use
  CommitBatch,  \* settings.import_commit_batch_size
  MaxFaults,    \* bound: worker crashes, redeliveries and API failures
  MaxCopies,    \* bound: copies of one job's message waiting in the broker
  ApiMayDie     \* may the API process (or Redis) fail before the enqueue?

ScanJobs == {FirstScan} \cup Rescans
Jobs == ScanJobs \cup ImportJobs
Assets == UNION {AssetsOf[s] : s \in Samples}
\* The first k entries of the manifest; it may list an image more than once.
Leading(k) == {Manifest[i] : i \in 1..k}
ManifestSamples == Leading(Len(Manifest))

ASSUME JobsAssumption ==
  /\ FirstScan \notin Rescans \cup ImportJobs
  /\ Rescans \cap ImportJobs = {}
  /\ NoJob \notin Jobs
ASSUME ManifestAssumption ==
  /\ Manifest \in Seq(Samples)
  /\ DOMAIN AssetsOf = Samples
ASSUME BoundsAssumption ==
  /\ CommitBatch \in Nat \ {0}
  /\ MaxFaults \in Nat
  /\ MaxCopies \in Nat
  /\ ApiMayDie \in BOOLEAN

VARIABLES
  upload,     \* UploadSession.status
  batch,      \* ImportBatch.status
  version,    \* DatasetVersion.status
  job,        \* Job.status of every job ("absent": no such row yet)
  rows,       \* committed Sample rows
  indexRows,  \* samples with committed AnnotationIndex / SampleClassIndex rows
  assetRows,  \* committed Asset rows
  objects,    \* objects in MinIO
  msgs,       \* messages waiting in the broker, per job
  worker,     \* worker slots: task, position in it, and what it has loaded
  request,    \* API requests in progress and what they have loaded
  faults      \* faults so far, at most MaxFaults

dbVars == <<upload, batch, version, job>>
dataVars == <<rows, indexRows, assetRows, objects>>
vars == <<dbVars, dataVars, msgs, worker, request, faults>>

UploadStatus == {"created", "uploaded", "scanning", "waiting_confirmation",
                 "importing", "ready", "scan_failed", "import_failed",
                 "cancelled"}
BatchStatus == {"uploading", "scanning", "waiting_confirmation", "ready",
                "import_failed", "cancelled"}
JobStatus == {"absent", "pending", "queued", "running", "succeeded",
              "failed", "cancelled"}

ScanSteps == {"scan_begin", "scan_check", "scan_read", "scan_finish"}
ImportSteps == {"import_check", "import_begin", "import_load", "import_loop",
                "import_flush"}

\* The local state of a task.  `known' is existing_samples and `knownAssets'
\* the committed part of assets_by_key; `pending' and `pendingAssets' are the
\* samples (each with its index rows) and assets added since the last commit.
Idle == [pc |-> "idle", job |-> NoJob, seenJob |-> "absent",
         seenUpload |-> "created", seenBatch |-> "uploading", next |-> 1,
         known |-> {}, pending |-> {}, knownAssets |-> {}, pendingAssets |-> {}]

\* A task that has returned and whose message is still to be acknowledged.
Returned(j) == [Idle EXCEPT !.pc = "ack", !.job = j]

NoRequest == [pc |-> "idle", job |-> NoJob, upload |-> "created",
              batch |-> "uploading"]

Task == [pc : {"idle", "import_reject", "ack"} \cup ScanSteps \cup ImportSteps,
         job : Jobs \cup {NoJob}, seenJob : JobStatus,
         seenUpload : UploadStatus, seenBatch : BatchStatus,
         next : 1..(Len(Manifest) + 1),
         known : SUBSET ManifestSamples, pending : SUBSET ManifestSamples,
         knownAssets : SUBSET Assets, pendingAssets : SUBSET Assets]
Request == [pc : {"idle", "complete", "confirm", "cancel", "rescan", "send"},
            job : Jobs \cup {NoJob}, upload : UploadStatus, batch : BatchStatus]

\* Every column, message count and loaded value has a value its code can give it.
TypeOK ==
  /\ upload \in UploadStatus
  /\ batch \in BatchStatus
  /\ version \in {"draft", "ready"}
  /\ job \in [Jobs -> JobStatus]
  /\ rows \subseteq ManifestSamples
  /\ indexRows \subseteq ManifestSamples
  /\ assetRows \subseteq Assets
  /\ objects \subseteq Assets
  /\ msgs \in [Jobs -> Nat]
  /\ worker \in [Workers -> Task]
  /\ request \in [Clients -> Request]
  /\ faults \in 0..MaxFaults

\* create_upload_session has committed: the session and its pending scan job.
Init ==
  /\ upload = "created"
  /\ batch = "uploading"
  /\ version = "draft"
  /\ job = [j \in Jobs |-> IF j = FirstScan THEN "pending" ELSE "absent"]
  /\ rows = {} /\ indexRows = {} /\ assetRows = {} /\ objects = {}
  /\ msgs = [j \in Jobs |-> 0]
  /\ worker = [w \in Workers |-> Idle]
  /\ request = [c \in Clients |-> NoRequest]
  /\ faults = 0

-----------------------------------------------------------------------------
(* Statuses the handlers and tasks test.                                    *)

\* A commit's effect on a column loaded as `seen' and assigned `new'.
Saved(current, seen, new) == IF new = seen THEN current ELSE new

\* A job the task entry point must not run again.
Settled(s) == s \in {"succeeded", "cancelled"}
\* A job cancel_job accepts.
Cancellable(s) == s \in {"pending", "queued", "running"}
\* A job the user sees as under way.
Active(s) == s \in {"queued", "running"}
Terminal(s) == s \in {"succeeded", "failed", "cancelled"}

\* An id that no row and no request in progress uses (uuid4()).
Fresh(j) == job[j] = "absent" /\ \A c \in Clients : request[c].job # j

-----------------------------------------------------------------------------
(* API requests: read, commit, enqueue.                                     *)

Holds(c, r) == request' = [request EXCEPT ![c] = r]
Begin(c, r) == request[c].pc = "idle" /\ Holds(c, r)

\* The rest of a handler after its commit: <task>.delay(job.id).
ThenSend(c, j) ==
  Holds(c, [NoRequest EXCEPT !.pc = "send", !.job = j])

\* complete_upload has checked that the session is still waiting for its file.
CompleteRead(c) ==
  /\ upload = "created"
  /\ Begin(c, [NoRequest EXCEPT !.pc = "complete", !.job = FirstScan])
  /\ UNCHANGED <<dbVars, dataVars, msgs, worker, faults>>

CompleteCommit(c) ==
  /\ request[c].pc = "complete"
  /\ upload' = "uploaded"
  /\ job' = [job EXCEPT ![FirstScan] = "queued"]
  /\ ThenSend(c, FirstScan)
  /\ UNCHANGED <<batch, version, dataVars, msgs, worker, faults>>

\* confirm_upload: each confirmation gets an import job of its own.
ConfirmRead(c, i) ==
  /\ upload = "waiting_confirmation"
  /\ Fresh(i)
  /\ Begin(c, [NoRequest EXCEPT !.pc = "confirm", !.job = i])
  /\ UNCHANGED <<dbVars, dataVars, msgs, worker, faults>>

ConfirmCommit(c) ==
  /\ request[c].pc = "confirm"
  /\ upload' = "importing"
  /\ job' = [job EXCEPT ![request[c].job] = "queued"]
  /\ ThenSend(c, request[c].job)
  /\ UNCHANGED <<batch, version, dataVars, msgs, worker, faults>>

\* cancel_job of a scan or import job, and of its session when that is not over.
CancelRead(c, j) ==
  /\ Cancellable(job[j])
  /\ Begin(c, [pc |-> "cancel", job |-> j, upload |-> upload, batch |-> batch])
  /\ UNCHANGED <<dbVars, dataVars, msgs, worker, faults>>

\* Mutant: a session that is importing is left as it is.
ImportingIsOver(u) ==
  u \in {"importing", "ready", "import_failed", "scan_failed"}
\* cancel_job leaves a session alone that has already ended.
SessionOver(u) == u \in {"ready", "import_failed", "scan_failed"}

\* Mutant: a status no other code knows.
MisspeltCancel(c) ==
  IF SessionOver(request[c].upload) THEN UNCHANGED <<upload, batch>>
  ELSE upload' = "canceled" /\ batch' = "canceled"
\* What cancel_job does to the session.
CancelledSession(c) ==
  IF SessionOver(request[c].upload)
  THEN UNCHANGED <<upload, batch>>
  ELSE /\ upload' = Saved(upload, request[c].upload, "cancelled")
       /\ batch' = Saved(batch, request[c].batch, "cancelled")

CancelCommit(c) ==
  /\ request[c].pc = "cancel"
  /\ job' = [job EXCEPT ![request[c].job] = "cancelled"]
  /\ CancelledSession(c)
  /\ Holds(c, NoRequest)
  /\ UNCHANGED <<version, dataVars, msgs, worker, faults>>

\* rescan_import_batch: refused while a scan (not an import) is under way.
RescanRead(c, r) ==
  /\ \A s \in ScanJobs : ~Cancellable(job[s])
  /\ Fresh(r)
  /\ Begin(c, [pc |-> "rescan", job |-> r, upload |-> upload, batch |-> batch])
  /\ UNCHANGED <<dbVars, dataVars, msgs, worker, faults>>

RescanCommit(c) ==
  /\ request[c].pc = "rescan"
  /\ upload' = Saved(upload, request[c].upload, "uploaded")
  /\ batch' = Saved(batch, request[c].batch, "scanning")
  /\ job' = [job EXCEPT ![request[c].job] = "queued"]
  /\ ThenSend(c, request[c].job)
  /\ UNCHANGED <<version, dataVars, msgs, worker, faults>>

Send(c) ==
  /\ request[c].pc = "send"
  /\ msgs' = [msgs EXCEPT ![request[c].job] = @ + 1]
  /\ Holds(c, NoRequest)
  /\ UNCHANGED <<dbVars, dataVars, worker, faults>>

\* The API process dies, or .delay() raises, in the middle of a request.
ApiDies(c) ==
  /\ ApiMayDie /\ faults < MaxFaults
  /\ request[c].pc # "idle"
  /\ Holds(c, NoRequest)
  /\ faults' = faults + 1
  /\ UNCHANGED <<dbVars, dataVars, msgs, worker>>

-----------------------------------------------------------------------------
(* The broker: acks_late, so a message leaves only when its task returns.   *)

Becomes(w, task) == worker' = [worker EXCEPT ![w] = task]

\* Deliver a message of job j; the task loads the job and the session.
Take(w, j, firstStep) ==
  /\ worker[w].pc = "idle"
  /\ msgs[j] > 0
  /\ msgs' = [msgs EXCEPT ![j] = @ - 1]
  /\ Becomes(w, IF Settled(job[j]) THEN Idle
                ELSE [Idle EXCEPT !.pc = firstStep, !.job = j, !.seenJob = job[j],
                                  !.seenUpload = upload])
  /\ UNCHANGED <<dbVars, dataVars, request, faults>>

\* The task has returned (with a result or after a recorded failure).
Ack(w) ==
  /\ worker[w].pc = "ack"
  /\ Becomes(w, Idle)
  /\ UNCHANGED <<dbVars, dataVars, msgs, request, faults>>

\* Mutant: acknowledged on delivery (no task_acks_late).
NotRequeued(w) == UNCHANGED msgs
\* The message of the task in slot w goes back to the broker.
Requeued(w) == msgs' = [msgs EXCEPT ![worker[w].job] = @ + 1]

\* The worker process dies: its transaction is lost, its message comes back.
WorkerCrash(w) ==
  /\ faults < MaxFaults
  /\ worker[w].pc # "idle"
  /\ Requeued(w)
  /\ Becomes(w, Idle)
  /\ faults' = faults + 1
  /\ UNCHANGED <<dbVars, dataVars, request>>

\* The Redis visibility timeout expires while the task is still running.
Redeliver(w) ==
  /\ faults < MaxFaults
  /\ worker[w].pc # "idle"
  /\ msgs[worker[w].job] < MaxCopies
  /\ Requeued(w)
  /\ faults' = faults + 1
  /\ UNCHANGED <<dbVars, dataVars, worker, request>>

-----------------------------------------------------------------------------
(* scan_upload                                                              *)

\* Assign job.status through the worker's loaded copy and commit.
SetJob(w, s) ==
  job' = [job EXCEPT ![worker[w].job] = Saved(@, worker[w].seenJob, s)]

\* job_is_cancelled: refresh the job; return if it is cancelled, else go on.
CheckedCancel(w, nextStep) ==
  Becomes(w, IF job[worker[w].job] = "cancelled" THEN Returned(worker[w].job)
             ELSE [worker[w] EXCEPT !.pc = nextStep,
                                    !.seenJob = job[worker[w].job]])

TakeScan(w, j) == j \in ScanJobs /\ Take(w, j, "scan_begin")

ScanBegin(w) ==
  /\ worker[w].pc = "scan_begin"
  /\ SetJob(w, "running")
  /\ upload' = Saved(upload, worker[w].seenUpload, "scanning")
  /\ Becomes(w, [worker[w] EXCEPT !.pc = "scan_check", !.seenJob = "running",
                                  !.seenUpload = "scanning"])
  /\ UNCHANGED <<batch, version, dataVars, msgs, request, faults>>

\* The only look scan_upload takes at a cancellation.
ScanCheck(w) ==
  /\ worker[w].pc = "scan_check"
  /\ CheckedCancel(w, "scan_read")
  /\ UNCHANGED <<dbVars, dataVars, msgs, request, faults>>

\* The archive has been downloaded and its checksum agrees.
ScanRead(w) ==
  /\ worker[w].pc = "scan_read"
  /\ SetJob(w, "running")
  /\ Becomes(w, [worker[w] EXCEPT !.pc = "scan_finish", !.seenJob = "running"])
  /\ UNCHANGED <<upload, batch, version, dataVars, msgs, request, faults>>

ScanFinish(w) ==
  /\ worker[w].pc = "scan_finish"
  /\ SetJob(w, "succeeded")
  /\ upload' = "waiting_confirmation"
  /\ batch' = "waiting_confirmation"
  /\ Becomes(w, Returned(worker[w].job))
  /\ UNCHANGED <<version, dataVars, msgs, request, faults>>

\* A bad archive, a checksum mismatch, no temporary space, the soft time limit.
ScanFail(w) ==
  /\ worker[w].pc \in {"scan_check", "scan_read", "scan_finish"}
  /\ SetJob(w, "failed")
  /\ upload' = Saved(upload, worker[w].seenUpload, "scan_failed")
  /\ Becomes(w, Returned(worker[w].job))
  /\ UNCHANGED <<batch, version, dataVars, msgs, request, faults>>

-----------------------------------------------------------------------------
(* confirm_import                                                           *)

\* A task whose session is not `importing' refuses to run.
TakeImport(w, j) ==
  /\ j \in ImportJobs
  /\ Take(w, j, IF upload = "importing" THEN "import_check" ELSE "import_reject")

ImportReject(w) ==
  /\ worker[w].pc = "import_reject"
  /\ SetJob(w, "failed")
  /\ Becomes(w, Returned(worker[w].job))
  /\ UNCHANGED <<upload, batch, version, dataVars, msgs, request, faults>>

ImportCheck(w) ==
  /\ worker[w].pc = "import_check"
  /\ CheckedCancel(w, "import_begin")
  /\ UNCHANGED <<dbVars, dataVars, msgs, request, faults>>

\* The commits of the stages download, prepare_archive and parse_annotations.
ImportBegin(w) ==
  /\ worker[w].pc = "import_begin"
  /\ SetJob(w, "running")
  /\ Becomes(w, [worker[w] EXCEPT !.pc = "import_load", !.seenJob = "running"])
  /\ UNCHANGED <<upload, batch, version, dataVars, msgs, request, faults>>

\* The snapshots of the batch, the existing samples and the existing assets.
ImportLoad(w) ==
  /\ worker[w].pc = "import_load"
  /\ Becomes(w, [worker[w] EXCEPT !.pc = "import_loop", !.seenBatch = batch,
                                  !.known = rows, !.knownAssets = assetRows])
  /\ UNCHANGED <<dbVars, dataVars, msgs, request, faults>>

Current(w) == Manifest[worker[w].next]
InLoop(w) == worker[w].pc = "import_loop" /\ worker[w].next <= Len(Manifest)
\* Mutant: one commit for the whole manifest.
AtEnd(i) == i = Len(Manifest)
\* A commit after every full batch, and after the last sample.
AtBoundary(i) == i % CommitBatch = 0 \/ i = Len(Manifest)

LoopDone(w) == worker[w].pc = "import_loop" /\ worker[w].next > Len(Manifest)

\* An existing sample: `continue', past the batch boundary at the loop's end.
ImportSkip(w) ==
  /\ InLoop(w)
  /\ Current(w) \in worker[w].known
  /\ Becomes(w, [worker[w] EXCEPT !.next = @ + 1])
  /\ UNCHANGED <<dbVars, dataVars, msgs, request, faults>>

\* Mutant: an object found in storage gets no Asset row.
UnstoredOnly(w, s) == AssetsOf[s] \ objects
\* The objects of sample s that assets_by_key does not know yet.
Uncached(w, s) ==
  AssetsOf[s] \ (worker[w].knownAssets \cup worker[w].pendingAssets)

\* A new sample: its objects are stored at once, its rows stay in the session.
ImportSample(w) ==
  LET new == Uncached(w, Current(w))
      boundary == AtBoundary(worker[w].next) IN
  /\ InLoop(w)
  /\ Current(w) \notin worker[w].known
  /\ objects' = objects \cup new
  /\ Becomes(w, [worker[w] EXCEPT
                   !.pc = IF boundary THEN "import_flush" ELSE "import_loop",
                   !.next = IF boundary THEN @ ELSE @ + 1,
                   !.known = @ \cup {Current(w)},
                   !.pending = @ \cup {Current(w)},
                   !.pendingAssets = @ \cup new])
  /\ UNCHANGED <<dbVars, rows, indexRows, assetRows, msgs, request, faults>>

\* uq_sample_version_path and the unique Asset.object_key.
Conflict(w) == \/ worker[w].pending \cap rows # {}
               \/ worker[w].pendingAssets \cap assetRows # {}

FlushRows(w) == /\ rows' = rows \cup worker[w].pending
                /\ assetRows' = assetRows \cup worker[w].pendingAssets

JobCancelled(w) == job[worker[w].job] = "cancelled"

\* The task with everything it held committed, at the i-th sample.
Flushed(w, i) == [worker[w] EXCEPT
                    !.pc = "import_loop", !.next = i,
                    !.pending = {}, !.pendingAssets = {},
                    !.knownAssets = @ \cup worker[w].pendingAssets]

\* Mutant: a cancelled import breaks off the loop instead of returning.
BreaksOff(w) ==
  Flushed(w, IF JobCancelled(w) THEN Len(Manifest) + 1 ELSE worker[w].next + 1)
\* The refreshed job decides whether the task goes on after a boundary.
AfterFlush(w) == IF JobCancelled(w) THEN Returned(worker[w].job)
                 ELSE Flushed(w, worker[w].next + 1)

\* A batch boundary: rows and index rows in one commit.
ImportFlush(w) ==
  /\ worker[w].pc = "import_flush"
  /\ ~Conflict(w)
  /\ FlushRows(w)
  /\ indexRows' = indexRows \cup worker[w].pending
  /\ job' = [job EXCEPT ![worker[w].job] = IF JobCancelled(w) THEN @ ELSE "running"]
  /\ Becomes(w, AfterFlush(w))
  /\ UNCHANGED <<upload, batch, version, objects, msgs, request, faults>>

\* The last commit.  It flushes what the session still holds, but the index
\* rows of a batch are only ever added at a boundary.
ImportFinish(w) ==
  /\ LoopDone(w)
  /\ ~Conflict(w)
  /\ FlushRows(w)
  /\ version' = "ready"
  /\ batch' = Saved(batch, worker[w].seenBatch, "ready")
  /\ upload' = Saved(upload, worker[w].seenUpload, "ready")
  /\ SetJob(w, "succeeded")
  /\ Becomes(w, Returned(worker[w].job))
  /\ UNCHANGED <<indexRows, objects, msgs, request, faults>>

\* _set_import_failed: a conflict with another import of the session, a storage
\* or archive error, the soft time limit.  It reloads everything it writes.
ImportFail(w) ==
  /\ worker[w].pc \in ImportSteps
  /\ upload' = "import_failed"
  /\ batch' = "import_failed"
  /\ job' = [job EXCEPT ![worker[w].job] = "failed"]
  /\ Becomes(w, Returned(worker[w].job))
  /\ UNCHANGED <<version, dataVars, msgs, request, faults>>

-----------------------------------------------------------------------------
RequestStep(c) ==
  \/ CompleteRead(c)
  \/ CompleteCommit(c)
  \/ \E i \in ImportJobs : ConfirmRead(c, i)
  \/ ConfirmCommit(c)
  \/ \E j \in Jobs : CancelRead(c, j)
  \/ CancelCommit(c)
  \/ \E r \in Rescans : RescanRead(c, r)
  \/ RescanCommit(c)
  \/ Send(c)
  \/ ApiDies(c)

ScanStep(w) == \/ ScanBegin(w) \/ ScanCheck(w) \/ ScanRead(w) \/ ScanFinish(w)

ImportStep(w) == \/ ImportReject(w) \/ ImportCheck(w) \/ ImportBegin(w)
                 \/ ImportLoad(w) \/ ImportSkip(w) \/ ImportSample(w)
                 \/ ImportFlush(w) \/ ImportFinish(w)

TakeAny(w) == \/ \E j \in ScanJobs : TakeScan(w, j)
              \/ \E j \in ImportJobs : TakeImport(w, j)

WorkerStep(w) ==
  \/ TakeAny(w)
  \/ ScanStep(w)
  \/ ImportStep(w)
  \/ ScanFail(w)
  \/ ImportFail(w)
  \/ Ack(w)
  \/ WorkerCrash(w)
  \/ Redeliver(w)

Next == \/ \E c \in Clients : RequestStep(c)
        \/ \E w \in Workers : WorkerStep(w)

Spec == Init /\ [][Next]_vars

\* Worker processes keep running and the API process that committed keeps
\* going: the broker delivers, a task makes progress, a request enqueues.
Fairness == /\ \A w \in Workers : /\ WF_vars(TakeAny(w))
                                  /\ WF_vars(ScanStep(w))
                                  /\ WF_vars(ImportStep(w))
                                  /\ WF_vars(Ack(w))
            /\ \A c \in Clients : WF_vars(Send(c))

FairSpec == Spec /\ Fairness

-----------------------------------------------------------------------------
(* Properties.                                                              *)

\* A version (or session) is `ready' only when every sample of the manifest is
\* committed, whatever mixture of redelivered, crashed, cancelled and competing
\* import tasks got it there.
ReadyMeansComplete ==
  upload = "ready" \/ version = "ready" => rows = ManifestSamples

\* The samples whose batch ends.  A boundary on an image listed before is passed
\* over by `continue', and a batch is then only ended by a later boundary.
Listed(i) == \E h \in 1..(i - 1) : Manifest[h] = Manifest[i]
EndsBatch(i) == (i % CommitBatch = 0 \/ i = Len(Manifest)) /\ ~Listed(i)
Counted == UNION {Leading(i) : i \in {k \in 1..Len(Manifest) : EndsBatch(k)}}

\* Every committed sample of a batch that ends has its index rows, and no index
\* row is orphaned: the statistics, filters and exports count the samples that
\* exist.  Without a repeated image every batch ends and all samples count.
SamplesAreIndexed == indexRows = rows \cap Counted

\* Every asset a committed sample refers to has its row and its stored object:
\* objects are put before, rows committed after, so that a crash between the
\* two leaves at worst an object nobody refers to.
ReferencedAssetsStored ==
  /\ \A s \in rows : AssetsOf[s] \subseteq assetRows
  /\ assetRows \subseteq objects

\* Task t will still write job j's status.  One that loaded `failed' writes
\* nothing when it fails the job again.
Executes(t, j) == /\ t.job = j
                  /\ t.pc \notin {"idle", "ack"}
                  /\ t.seenJob # "failed"

\* A job shown as queued or running is in somebody's hands: a message waits for
\* it, a task executes it, or the request that queued it is about to enqueue it.
ActiveJobsAreOwned ==
  \A j \in Jobs : Active(job[j]) =>
    \/ msgs[j] > 0
    \/ \E w \in Workers : Executes(worker[w], j)
    \/ \E c \in Clients : request[c].pc = "send" /\ request[c].job = j

\* A session shown as `importing' has an import job that is queued or running,
\* so it is not stuck in a state that accepts neither a confirmation nor an end.
ImportingHasActiveImport ==
  upload = "importing" => \E i \in ImportJobs : Active(job[i])

\* Every job that was queued comes to an end, in spite of worker crashes and
\* redeliveries.
QueuedJobsEnd == \A j \in Jobs : Active(job[j]) ~> Terminal(job[j])

\* The pipeline keeps the promise of BatchedImport: samples become visible in
\* manifest order, indexed and for good, and the version is published last.
Promised == INSTANCE BatchedImport
              WITH stored <- rows, indexed <- indexRows, published <- version = "ready",
                   Counted <- Counted
ImplementsBatchedImport == Promised!Spec

\* A cancellation is observed: a cancelled job stays cancelled.
CancelIsFinal ==
  [][\A j \in Jobs : job[j] = "cancelled" => job'[j] = "cancelled"]_vars

-----------------------------------------------------------------------------
(* What makes the safety properties inductive.                              *)

Importing(t) == t.pc \in {"import_loop", "import_flush"}

\* Only a free slot is without a job; a task past its first commit has itself
\* written `running'; a batch is flushed at a sample of the manifest; only the
\* import loop holds uncommitted rows.
TaskOK(t) ==
  /\ t.pc # "idle" => t.job \in Jobs
  /\ t.pc \in {"scan_finish", "import_load", "import_loop", "import_flush"}
       => t.seenJob = "running"
  /\ t.pc = "import_flush" => t.next <= Len(Manifest)
  /\ ~Importing(t) => t.next = 1 /\ t.pending = {} /\ t.pendingAssets = {}
TaskInv ==
  /\ \A w \in Workers : TaskOK(worker[w])
  /\ \A c \in Clients : request[c].pc # "idle" => request[c].job \in Jobs

\* Task t has seen to the i-th sample of the manifest.
Past(t, i) == i < t.next \/ (i = t.next /\ t.pc = "import_flush")

\* What an import task knows and has not added itself is committed, assets and
\* stored objects included, and it knows every sample it is past.
LoopOK(t) ==
  /\ t.pending \subseteq t.known
  /\ t.known \subseteq rows \cup t.pending
  /\ \A i \in 1..Len(Manifest) : Past(t, i) => Manifest[i] \in t.known
  /\ t.knownAssets \subseteq assetRows
  /\ t.pendingAssets \subseteq objects
  /\ \A s \in t.known : AssetsOf[s] \subseteq t.knownAssets \cup t.pendingAssets
LoopInv == \A w \in Workers : Importing(worker[w]) => LoopOK(worker[w])

\* S is what some of the first entries of the manifest list.
Prefix(S) == \E k \in 0..Len(Manifest) : S = Leading(k)

\* The last entry of the manifest that task t has seen to.
LastPast(t) == IF t.pc = "import_flush" THEN t.next ELSE t.next - 1

\* What is committed, and what a task knows, are the first samples of the
\* manifest.  A task with rows still to commit knows no more than it is past, so
\* that only a repeated image makes it `continue' past a boundary; its rows are
\* then of no batch that has ended, and at a flush a batch ends.
PrefixOK(t) ==
  /\ Prefix(t.known)
  /\ t.pending # {} => t.known = Leading(LastPast(t))
  /\ \A i \in 1..Len(Manifest) :
       EndsBatch(i) /\ i < t.next => t.pending \cap Leading(i) = {}
  /\ t.pc = "import_flush" => EndsBatch(t.next)
PrefixInv ==
  /\ Prefix(rows)
  /\ \A w \in Workers : Importing(worker[w]) => PrefixOK(worker[w])

\* A job without a row is known to nobody but the request that will create it,
\* and no other request shares the id of a confirmation.
RowInv ==
  /\ job[FirstScan] # "absent"
  /\ \A j \in Jobs : job[j] = "absent" =>
       /\ msgs[j] = 0
       /\ \A w \in Workers : worker[w].job # j
       /\ \A c \in Clients : request[c].job = j => request[c].pc \in {"confirm", "rescan"}
FreshInv ==
  \A c \in Clients :
    /\ request[c].pc = "rescan" => request[c].job \in Rescans
    /\ request[c].pc = "confirm" =>
         /\ request[c].job \in ImportJobs
         /\ job[request[c].job] = "absent"
         /\ \A d \in Clients : d # c => request[d].job # request[c].job

\* Import job i is active, and whoever handles it has seen the session as
\* `importing', so that its end, or its cancellation, ends the session's import.
SeesImporting(t) == /\ t.pc # "import_reject"
                    /\ t.pc \notin ScanSteps
                    /\ t.pc \in ImportSteps => t.seenUpload = "importing"
Carries(i) ==
  /\ Active(job[i])
  /\ \A w \in Workers : worker[w].job = i => SeesImporting(worker[w])
  /\ \A c \in Clients : request[c].pc = "cancel" /\ request[c].job = i
                          => request[c].upload = "importing"

\* The job confirmed last carries the import.
SessionInv == /\ RowInv /\ FreshInv
              /\ upload = "importing" => \E i \in ImportJobs : Carries(i)

IInv == TypeOK /\ TaskInv /\ LoopInv /\ PrefixInv /\ SessionInv

=============================================================================
