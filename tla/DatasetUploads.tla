---------------------------- MODULE DatasetUploads ----------------------------
(***************************************************************************)
(* The uploads of one dataset, from create_upload_session on: version      *)
(* numbers and idempotency keys under competing requests, and uploads that *)
(* go on while the dataset is in the recycle bin and being purged.         *)
(*                                                                         *)
(* A request on uploads reads, then commits.  Scan and import are cut down *)
(* to their commits, and an import commits once: ImportPipeline has their  *)
(* steps and the delivery of messages.  Requests on the dataset are single *)
(* steps, so that one purge runs at a time: DatasetPurge has the others.   *)
(* A row that is gone fails the commit that updates it.                    *)
(***************************************************************************)
EXTENDS Integers, FiniteSets

CONSTANTS
  Uploads,  \* ids of upload sessions, each with its version, batch and scan job
  Keys,     \* values of the Idempotency-Key header
  NoKey,    \* a request without one
  Clients,  \* API requests that may be in progress at the same time
  Workers,  \* worker slots
  None      \* "no upload", in an idle request or slot

ASSUME IdsAreDistinct == /\ NoKey \notin Keys /\ None \notin Uploads
                         /\ IsFiniteSet(Uploads)

VARIABLES
  dataset,   \* "active", "deleted" (deleted_at is set) or "gone" with its rows
  upload,    \* UploadSession: status, key, and version_number of its version
  scan,      \* Job.status of an upload's scan
  import,    \* Job.status of its imports; two that overlap share it here, and
             \* have a job each in ImportPipeline
  purge,     \* Job.status of the newest purge
  samples,   \* uploads whose Sample rows are committed
  assets,    \* uploads whose Asset rows are committed; nothing refers to a
             \* dataset from them
  archives,  \* uploads whose archive is in storage
  request,   \* requests in progress
  task,      \* tasks in progress; a purge's inventory
  answers    \* what clients were told: key and upload

vars == <<dataset, upload, scan, import, purge, samples, assets, archives,
          request, task, answers>>
jobVars == <<scan, import, purge>>
dataVars == <<samples, assets, archives>>

UploadStatus == {"absent", "created", "uploaded", "scanning", "scan_failed",
                 "waiting_confirmation", "importing", "import_failed", "ready"}
JobStatus == {"absent", "pending", "queued", "running", "succeeded", "failed"}
Upload == [status : UploadStatus, number : Nat, key : Keys \cup {NoKey}]
NoUpload == [status |-> "absent", number |-> 0, key |-> NoKey]

Request == {r \in [pc : {"idle", "number", "create", "complete", "confirm"},
                   upload : Uploads \cup {None}, key : Keys \cup {NoKey}, number : Nat] :
              r.pc \in {"complete", "confirm"} => r.upload # None}
NoRequest == [pc |-> "idle", upload |-> None, key |-> NoKey, number |-> 0]

\* `listed' and `listedAssets' are a purge's inventory, `left' what it has
\* still to delete from storage.
Task == {t \in [pc : {"idle", "scan", "load", "import", "purge"},
                upload : Uploads \cup {None}, listed : SUBSET Uploads,
                listedAssets : SUBSET Uploads, left : SUBSET Uploads] :
           t.pc \in {"scan", "load", "import"} => t.upload # None}
Idle == [pc |-> "idle", upload |-> None, listed |-> {}, listedAssets |-> {}, left |-> {}]

\* Rows, requests and tasks have values their code can give them.
TypeOK ==
  /\ dataset \in {"active", "deleted", "gone"}
  /\ upload \in [Uploads -> Upload]
  /\ scan \in [Uploads -> JobStatus] /\ import \in [Uploads -> JobStatus \ {"pending"}]
  /\ purge \in JobStatus \ {"pending"}
  /\ samples \subseteq Uploads /\ assets \subseteq Uploads /\ archives \subseteq Uploads
  /\ request \in [Clients -> Request]
  /\ task \in [Workers -> Task]
  /\ answers \subseteq Keys \X Uploads

\* A dataset without uploads.
Init ==
  /\ dataset = "active"
  /\ upload = [u \in Uploads |-> NoUpload]
  /\ scan = [u \in Uploads |-> "absent"] /\ import = [u \in Uploads |-> "absent"]
  /\ purge = "absent"
  /\ samples = {} /\ assets = {} /\ archives = {}
  /\ request = [c \in Clients |-> NoRequest]
  /\ task = [w \in Workers |-> Idle]
  /\ answers = {}

-----------------------------------------------------------------------------
Exists(u) == upload[u].status # "absent"
Created == {u \in Uploads : Exists(u)}
Numbers == {upload[u].number : u \in Created}
Active(status) == status \in {"queued", "running"}

Holds(c, r) == request' = [request EXCEPT ![c] = r]
Begins(c, r) == /\ request[c].pc = "idle"
                /\ Holds(c, r)
                /\ UNCHANGED <<dataset, upload, jobVars, dataVars, task, answers>>

(* create_dataset_upload                                                    *)

WithKey(k) == {u \in Created : upload[u].key = k}
Answered(k, u) == answers' = IF k = NoKey THEN answers ELSE answers \cup {<<k, u>>}

\* The key is known: the client is given the session it stands for.
CreateAgain(c, k) ==
  /\ dataset = "active" /\ k # NoKey /\ request[c].pc = "idle"
  /\ \E u \in WithKey(k) : Answered(k, u)
  /\ UNCHANGED <<dataset, upload, jobVars, dataVars, request, task>>

CreateRead(c, k) ==
  /\ dataset = "active"
  /\ k = NoKey \/ WithKey(k) = {}
  /\ Begins(c, [NoRequest EXCEPT !.pc = "number", !.key = k])

\* select max(version_number)
Highest(n) == \A m \in Numbers : m <= n
CreateNumber(c) ==
  /\ request[c].pc = "number"
  /\ \E n \in Numbers \cup {0} :
       /\ Highest(n)
       /\ Holds(c, [pc |-> "create", upload |-> None, key |-> request[c].key,
                    number |-> n + 1])
  /\ UNCHANGED <<dataset, upload, jobVars, dataVars, task, answers>>

\* Each of the two alone is a mutant of Taken: without one of the constraints.
KeyTaken(r) == r.key # NoKey /\ WithKey(r.key) # {}
NumberTaken(r) == r.number \in Numbers
\* A unique constraint refuses the rows.
Taken(r) == NumberTaken(r) \/ KeyTaken(r)

Create(c, u) ==
  /\ ~Exists(u)
  /\ upload' = [upload EXCEPT ![u] = [status |-> "created", number |-> request[c].number,
                                      key |-> request[c].key]]
  /\ scan' = [scan EXCEPT ![u] = "pending"]
  /\ Answered(request[c].key, u)

CreateCommit(c) ==
  /\ request[c].pc = "create"
  /\ IF dataset = "gone" \/ Taken(request[c]) THEN UNCHANGED <<upload, scan, answers>>
     ELSE \E u \in Uploads : Create(c, u)
  /\ Holds(c, NoRequest)
  /\ UNCHANGED <<dataset, import, purge, dataVars, task>>

\* The session was answered with a presigned URL, which outlives a purge.
PutArchive(u) ==
  /\ upload[u].number # 0
  /\ archives' = archives \cup {u}
  /\ UNCHANGED <<dataset, upload, jobVars, samples, assets, request, task, answers>>

(* complete_upload and confirm_upload: the dataset is not looked at.        *)

CompleteRead(c, u) ==
  /\ upload[u].status = "created" /\ u \in archives
  /\ Begins(c, [NoRequest EXCEPT !.pc = "complete", !.upload = u])
ConfirmRead(c, u) ==
  /\ upload[u].status = "waiting_confirmation"
  /\ Begins(c, [NoRequest EXCEPT !.pc = "confirm", !.upload = u])

\* Mutant: a status that no other code knows.
SetMisspelt(u, s) ==
  upload' = [upload EXCEPT ![u].status = IF s = "scan_failed" THEN "failed_scan" ELSE s]
SetUpload(u, s) == upload' = [upload EXCEPT ![u].status = s]

CompleteCommit(c) ==
  LET u == request[c].upload IN
  /\ request[c].pc = "complete"
  /\ IF Exists(u) THEN SetUpload(u, "uploaded") /\ scan' = [scan EXCEPT ![u] = "queued"]
     ELSE UNCHANGED <<upload, scan>>
  /\ Holds(c, NoRequest)
  /\ UNCHANGED <<dataset, import, purge, dataVars, task, answers>>
ConfirmCommit(c) ==
  LET u == request[c].upload IN
  /\ request[c].pc = "confirm"
  /\ IF Exists(u) THEN SetUpload(u, "importing") /\ import' = [import EXCEPT ![u] = "queued"]
     ELSE UNCHANGED <<upload, import>>
  /\ Holds(c, NoRequest)
  /\ UNCHANGED <<dataset, scan, purge, dataVars, task, answers>>

(* delete_dataset, restore_dataset, queue_dataset_purge                     *)

DeleteDataset ==
  /\ dataset = "active" /\ dataset' = "deleted"
  /\ UNCHANGED <<upload, jobVars, dataVars, request, task, answers>>
RestoreDataset ==
  /\ dataset = "deleted" /\ ~Active(purge) /\ dataset' = "active"
  /\ UNCHANGED <<upload, jobVars, dataVars, request, task, answers>>

\* A scan that is still pending does not count as active.
QueuePurge ==
  /\ dataset = "deleted"
  /\ ~Active(purge) /\ \A u \in Uploads : ~Active(scan[u]) /\ ~Active(import[u])
  /\ purge' = "queued"
  /\ UNCHANGED <<dataset, upload, scan, import, dataVars, request, task, answers>>

-----------------------------------------------------------------------------
(* scan_upload and confirm_import                                           *)

Becomes(w, t) == task' = [task EXCEPT ![w] = t]
Own(w) == task[w].upload

TakeScan(w, u) ==
  /\ task[w].pc = "idle" /\ scan[u] = "queued"
  /\ IF Exists(u)
     THEN /\ SetUpload(u, "scanning") /\ scan' = [scan EXCEPT ![u] = "running"]
          /\ Becomes(w, [Idle EXCEPT !.pc = "scan", !.upload = u])
     ELSE scan' = [scan EXCEPT ![u] = "failed"] /\ UNCHANGED <<upload, task>>
  /\ UNCHANGED <<dataset, import, purge, dataVars, request, answers>>

ScanEnd(w) ==
  /\ task[w].pc = "scan" /\ Exists(Own(w))
  /\ \/ /\ Own(w) \in archives
        /\ SetUpload(Own(w), "waiting_confirmation")
        /\ scan' = [scan EXCEPT ![Own(w)] = "succeeded"]
     \/ SetUpload(Own(w), "scan_failed") /\ scan' = [scan EXCEPT ![Own(w)] = "failed"]
  /\ Becomes(w, Idle)
  /\ UNCHANGED <<dataset, import, purge, dataVars, request, answers>>

\* A job whose session is no longer importing is rejected.
TakeImport(w, u) ==
  /\ task[w].pc = "idle" /\ import[u] = "queued"
  /\ IF upload[u].status = "importing"
     THEN /\ import' = [import EXCEPT ![u] = "running"]
          /\ Becomes(w, [Idle EXCEPT !.pc = "load", !.upload = u])
     ELSE import' = [import EXCEPT ![u] = "failed"] /\ UNCHANGED task
  /\ UNCHANGED <<dataset, upload, scan, purge, dataVars, request, answers>>

ImportLoad(w) ==
  /\ task[w].pc = "load" /\ Own(w) \in archives
  /\ Becomes(w, [task[w] EXCEPT !.pc = "import"])
  /\ UNCHANGED <<dataset, upload, jobVars, dataVars, request, answers>>

\* Samples refer to the version: they and their assets are refused with it.
ImportCommit(w) ==
  /\ task[w].pc = "import" /\ Exists(Own(w))
  /\ samples' = samples \cup {Own(w)} /\ assets' = assets \cup {Own(w)}
  /\ SetUpload(Own(w), "ready") /\ import' = [import EXCEPT ![Own(w)] = "succeeded"]
  /\ Becomes(w, Idle)
  /\ UNCHANGED <<dataset, scan, purge, archives, request, answers>>

ImportFail(w) ==
  /\ task[w].pc \in {"load", "import"} /\ Exists(Own(w))
  /\ SetUpload(Own(w), "import_failed") /\ import' = [import EXCEPT ![Own(w)] = "failed"]
  /\ Becomes(w, Idle)
  /\ UNCHANGED <<dataset, scan, purge, dataVars, request, answers>>

\* The rows are gone: there is nothing to write the failure to.
TaskStale(w) ==
  /\ task[w].pc \in {"scan", "load", "import"} /\ ~Exists(Own(w))
  /\ Becomes(w, Idle)
  /\ UNCHANGED <<dataset, upload, jobVars, dataVars, request, answers>>

(* purge_dataset                                                            *)

TakePurge(w) ==
  /\ task[w].pc = "idle" /\ purge = "queued"
  /\ purge' = "running"
  /\ Becomes(w, [Idle EXCEPT !.pc = "purge", !.listed = Created, !.listedAssets = assets,
                             !.left = Created])
  /\ UNCHANGED <<dataset, upload, scan, import, dataVars, request, answers>>

PurgeObject(w, u) ==
  /\ task[w].pc = "purge" /\ u \in task[w].left
  /\ archives' = archives \ {u}
  /\ Becomes(w, [task[w] EXCEPT !.left = @ \ {u}])
  /\ UNCHANGED <<dataset, upload, jobVars, samples, assets, request, answers>>

\* Mutant: the versions of the dataset are deleted, listed or not.
AnyVersion(w) == TRUE
\* A version that is not listed refers to the dataset and saves its row.
OnlyListed(w) == Created = task[w].listed

PurgeRecords(w) ==
  LET listed == task[w].listed
      Without(job) == [u \in Uploads |-> IF u \in listed THEN "absent" ELSE job[u]] IN
  /\ task[w].pc = "purge" /\ task[w].left = {} /\ OnlyListed(w)
  /\ dataset' = "gone"
  /\ upload' = [u \in Uploads |-> [upload[u] EXCEPT !.status = "absent"]]
  /\ scan' = Without(scan) /\ import' = Without(import) /\ purge' = "succeeded"
  /\ samples' = {} /\ assets' = assets \ task[w].listedAssets
  /\ Becomes(w, Idle)
  /\ UNCHANGED <<archives, request, answers>>

PurgeFail(w) ==
  /\ task[w].pc = "purge"
  /\ purge' = "failed"
  /\ Becomes(w, Idle)
  /\ UNCHANGED <<dataset, upload, scan, import, dataVars, request, answers>>

-----------------------------------------------------------------------------
RequestStep(c) ==
  \/ \E k \in Keys \cup {NoKey} : CreateAgain(c, k) \/ CreateRead(c, k)
  \/ CreateNumber(c) \/ CreateCommit(c)
  \/ \E u \in Uploads : CompleteRead(c, u) \/ ConfirmRead(c, u)
  \/ CompleteCommit(c) \/ ConfirmCommit(c)

WorkerStep(w) ==
  \/ \E u \in Uploads : TakeScan(w, u) \/ TakeImport(w, u) \/ PurgeObject(w, u)
  \/ ScanEnd(w) \/ ImportLoad(w) \/ ImportCommit(w) \/ ImportFail(w) \/ TaskStale(w)
  \/ TakePurge(w) \/ PurgeRecords(w) \/ PurgeFail(w)

Next ==
  \/ \E c \in Clients : RequestStep(c)
  \/ \E w \in Workers : WorkerStep(w)
  \/ \E u \in Uploads : PutArchive(u)
  \/ DeleteDataset \/ RestoreDataset \/ QueuePurge

Spec == Init /\ [][Next]_vars

-----------------------------------------------------------------------------
(* Properties.                                                              *)

\* A client that repeats a request with its key is never given two sessions of
\* the dataset, however many of its requests are in progress.
KeysNameOneUpload ==
  \A a, b \in answers : a[1] = b[1] => a = b

\* Uploads are numbered 1, 2, ... without a gap or a repetition, although each
\* request reads the highest number by itself: the newest version, whose labels
\* count, is the one with the highest number.
NumbersHaveNoGaps == Numbers = 1..Cardinality(Created)

\* A job refers to its upload by an id that no constraint checks: still no scan
\* or import outlives the session, or begins after it is gone.
JobsHaveUploads ==
  \A u \in Uploads : scan[u] # "absent" \/ import[u] # "absent" => Exists(u)

\* A purge removes the records of the dataset, its assets included.
PurgeLeavesNoAsset == dataset = "gone" => assets = {}

=============================================================================
