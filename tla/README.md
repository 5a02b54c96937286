# Verification of the dataset platform

TLA+ models, TLC runs and TLAPS proofs about the dataset platform of this
repository: a FastAPI backend, a Celery worker, PostgreSQL, Redis, MinIO and a
React front end that manage image datasets for annotation work.

Paths below are relative to the repository; `tasks.py` is
`backend/app/jobs/tasks.py` and `platform.py` is
`backend/app/api/routes/platform.py`.

## 1. Inventory

| Component | State it keeps | Operations | Talks to |
|---|---|---|---|
| Upload and import sessions (`platform.py` 376-512, 722-745, 1087-1152; `dataset_service.py`) | `UploadSession`, `ImportBatch`, `DatasetVersion`, `Job` rows | create, complete, confirm, cancel, rescan | broker (`.delay`), object storage (exists, stat) |
| `scan_upload` (`tasks.py` 242-310) | the same rows, a temporary file | begin, check for a cancellation, download, finish, fail | broker, storage, `dataset_core` |
| `confirm_import` (`tasks.py` 313-530) | `Sample`, `AnnotationIndex`, `SampleClassIndex`, `Asset`, label and keypoint rows; objects | reject, begin, load snapshots, loop with a commit per batch, finish, fail | the same |
| Broker and worker processes (`celery_app.py`) | queued and unacknowledged messages | deliver, acknowledge late, redeliver | everything |
| ORM sessions (`db/session.py`) | loaded objects, dirty columns | load, flush, commit, refresh, rollback | PostgreSQL |
| Object storage (`storage/service.py`) | objects by key | put, read, stat, delete, presign | MinIO |
| Recycle bin and purge (`platform.py` 222-368, `tasks.py` 533-667, `purge_service.py`) | `Dataset.status`, `deleted_at`, everything below a dataset | delete, restore, preview, queue purge, purge | broker, storage |
| Operation history (`history_service.py`; `platform.py` 570-679, 1156-1219, 1609-1665) | `OperationHistory`, `deleted_at` and subset of samples, batches | subset move, sample and batch deletion, undo, redo | the import's rows |
| Quality checks, exports (`tasks.py` 670-858, `export_task.py`) | `QualityIssue` rows, export objects, jobs | queue, run, cancel | broker, storage |
| Labels, keypoint names (`platform.py` 1300-1480, `tasks.py` 193-239) | `LabelDefinition`, `KeypointDefinition` rows | upsert, rename, delete | import, export |
| Archive inspection (`src/dataset_core`) | none: pure functions of the archive's entries | validate, pair, detect the parser, parse | worker |
| Statistics, queries, auth, front end, bootstrap, deployment | none of their own that others depend on | read-only or run once | |

**How the parts interact.**  A handler loads rows, tests them, changes them,
commits, and only then sends a Celery message with the job's id.  The worker
loads the job again, writes `running`, works with storage outside any
transaction, and commits its results.  The API and the worker share state only
through PostgreSQL rows, without row locks or version columns.

**What is hard.**

* Every handler and task tests values it has loaded and writes later.  With
  `expire_on_commit=False` a task keeps its objects over several commits, and
  SQLAlchemy writes only columns whose value differs from the loaded one, so a
  status another actor changed is sometimes overwritten and sometimes kept.
* `task_acks_late` with Redis delivers a message at least once: after a lost
  worker, and again, concurrently, when the visibility timeout expires.
* Database and object storage commit separately, and so do the database and the
  broker: a crash between any two of them leaves one without the other.
* An import commits in batches and is restarted from the beginning.
* Several statuses (job, session, batch, version) tell one story and are
  written by different actors.

**What makes each component correct.**

* Sessions and jobs: a job shown as active has somebody who will end it; it
  ends; a session is `importing` only while an import is under way; a
  cancellation holds.
* Import: `ready` means that the whole manifest is committed; samples and index
  rows agree, as far as batches end; nothing committed refers to an object that is missing; two
  imports never commit one sample twice.
* Purge: a visible dataset is whole and does not vanish; a purged one leaves
  nothing; a purge ends and reports its end.
* History: whatever is undone and redone, the rows are what the applied
  operations say.
* Read jobs: a report or export describes one version; a job that fails ends.
* Archive inspection and labels: results equal their definitions on every input
  within the limits.

## 2. Modules

In the order in which they were written, the most important behaviour first:

| Module | Models | Checked by | Proved in |
|---|---|---|---|
| `ImportPipeline` | one session with its jobs, requests, broker, workers and storage | `MCImport` | `ImportPipelineProofs` |
| `BatchedImport` | what an import promises: a committed prefix of the manifest that only grows, then `ready` | refined by ImportPipeline | `ImportPipelineProofs` |
| `DatasetPurge` | recycle bin, purge and export jobs of one dataset | `MCPurge` | `DatasetPurgeProofs` |
| `OperationHistory` | edits and deletions of a part, undo and redo, and the import that adds to the part | `MCHistory` | `OperationHistoryProofs` |
| `QualityCheck` | the quality report of one version, its jobs and its transaction | `MCQuality` | `QualityCheckProofs` |
| `DatasetArchive` | `dataset_core` as operators: names, validation, scan report, the four parsers, the manifest | both below | `DatasetArchiveProofs`: lemmas on its operators |
| `ArchiveInspection` | an archive that grows file by file: scan and manifest of every archive | `MCInspection` | `ArchiveInspectionProofs` |
| `ExportArchive` | versions with samples and labels made by DatasetArchive, edits, and an export that is read back | `MCExport` | `ExportArchiveProofs` |
| `DatasetUploads` | the uploads of one dataset: competing creations, and uploads and imports beside the recycle bin | `MCUploads` | `DatasetUploadsProofs` |

ExportArchive and ArchiveInspection extend DatasetArchive, so that export and
import are one system: the files `Written` by an export are the input of
`Manifest`.  ImportPipeline, DatasetPurge and QualityCheck share the conventions
of requests, messages and worker slots (a `pc` per slot, `Saved` for a commit of
loaded values); each has the part of the API that reaches its rows.

DatasetUploads takes the scans and imports of ImportPipeline and the purge of
DatasetPurge as a few steps each and puts them together.

What remains undone: keypoint names, worker temporary directories.  Section 10
says why.

## 3. ImportPipeline

| State | Code |
|---|---|
| `upload`, `batch`, `version` | status columns of the three rows that `create_upload_session` creates together |
| `job` | `Job.status`; the scan job exists from the start, the others when a handler adds them |
| `rows`, `indexRows`, `assetRows` | committed `Sample`; `AnnotationIndex` with `SampleClassIndex`; `Asset` rows |
| `objects` | keys in the bucket below the version's prefix |
| `msgs` | messages waiting per job; a delivered one is held by its slot until `Ack` |
| `worker` | per slot: position in the task, job and statuses it has loaded, loop index, `existing_samples` (`known`), `assets_by_key` (`knownAssets`, `pendingAssets`), session contents since the last commit (`pending`) |
| `request` | per request in progress: handler, job id and the statuses it has loaded |

An API request is three steps (read and test; commit; enqueue) and a task is one
step per transaction, so that every other actor can act in between.  `Saved` is
the ORM's rule for writing a column.  Steps of `_set_import_failed` reload what
they write, because a rollback expires it; all others use loaded values.

Abstractions, each of which leaves the control as it is:

* A sample is its relative path, an asset its object key; `AssetsOf` says which
  objects a sample's image, annotation and normalized manifest use, and may
  share them.
* The three stage-only commits of `confirm_import` before parsing are one step;
  they write the same status.
* Archive, checksum, storage and time-limit errors are one nondeterministic
  failure per task (`ScanFail`, `ImportFail`), possible wherever the code's
  `try` covers, label and keypoint upsert conflicts included.
* A conflict with a unique constraint disables `ImportFlush` and `ImportFinish`;
  the task can then only fail, crash or be redelivered.
* Two statements of one handler before its commit are one read.  The handlers'
  answers that change nothing (job already there, wrong status) are no steps.
* Progress counts, previews, checksums, audit rows, and the update of existing
  samples on a rescan are left out: no status or row set depends on them.
* Deletion of the batch meanwhile belongs to OperationHistory, the creation of
  the session and a purge that meets its import to DatasetUploads.

**What an import promises.**  `BatchedImport` has three variables and two steps:
the next samples of the manifest become visible together with their index rows,
and the version is published once, after the last of them.  Of the samples those
in `Counted` get index rows, the others may appear as late as with the publication.
The refinement mapping reads `stored` as `rows`, `indexed` as `indexRows` and `published` as
`version = "ready"`, and `Counted` as the samples of the batches that end (below);
jobs, sessions, messages, slots and requests do not show.

**Repeated images.**  The parser does not remove duplicates, and a COCO document
may list an image twice.  `continue` (`tasks.py` 405) then passes over the batch
boundary that falls on the repetition, and the samples since the last boundary get
their rows with a later commit, the last one if need be, but index rows only at a
boundary.  `EndsBatch` says which positions of the manifest are boundaries that no
import can pass over, and `Counted` which samples are before one.
`SamplesAreIndexed` claims index rows for exactly these, whatever crashes, restarts
and overlaps: `indexRows = rows \cap Counted`.  Without a repeated image all
samples count (`EveryBatchEnds`).  With one at the end of the last batch, some do
not: that is what the code does, and the model does it too.

### Runs

All with `MCImport`; three samples `a`, `b`, `c`, one image object each and one
annotation object for all, `MaxCopies = 1`.  `CHECK_DEADLOCK FALSE` because a
session comes to rest when its jobs have ended.

| Run | Instance | Shows |
|---|---|---|
| `ImportRescan` | 4 entries with 3 images, the first listed again at the end, commits after 2; 2 workers, 1 request, 1 rescan, 2 imports, 1 fault, the API may die; symmetry | `IInv`, the data properties, `ImportingHasActiveImport`, the refinement `ImplementsBatchedImport` |
| `ImportLive` | 2 images, commits after 1; 2 workers, 1 request, 1 import, 2 faults; fair, no symmetry | `ActiveJobsAreOwned`, `QueuedJobsEnd` |
| `ImportCancel` | 2 images; 1 worker, 1 request, no fault | violation: a cancelled job runs |

Bounds.  Four entries with a batch of two give a full batch, which a restart may
meet half or wholly imported, and a batch whose boundary falls on a repeated image
and is passed over; two images with a batch of one give a task that is overtaken
between two commits.  Two workers and two
import ids let two imports overlap; a fault is a crash or a second delivery, and
two of them a redelivery followed by a crash of either execution.  The theorems
of section 9 hold for all numbers.  Symmetry under permutations of workers,
requests and import ids is sound: nothing distinguishes them, the properties
checked with it are invariants and step properties in which they do not occur or
occur under a quantifier, and no run with a liveness property uses it.

Fairness (`FairSpec`): a delivered task makes progress and returns, a free
worker takes a message, a request that has committed enqueues.  systemd restarts
workers (`deploy/wsl2-native/systemd`) and `task_time_limit` ends a task that
hangs.  No fairness is assumed of users, failures, crashes or redeliveries;
faults are bounded by `MaxFaults`, since a worker that always dies never
finishes.  Fairness is on the disjunction of a slot's task steps, not on each.

### What the runs found

* **Cancellation** (`ImportCancel`).  A cancellation committed after the scan task
  has loaded its job is overwritten by the task's first commit (`tasks.py` 256-258):
  the job goes from `cancelled` to `running`, the session from `cancelled` to
  `scanning`, although `job_is_cancelled`, which looks afterwards, is documented to
  observe it (`dataset_service.py:144`).  The later commits at 290, 328 and 510 have
  the same form; the run ends at the first.

Seen with the same model, in runs that are not kept:

* **Commit, then enqueue.**  A process that fails between the commit of a
  `queued` job and its `.delay()` leaves the job queued for ever; completing or
  confirming again returns the same job without sending it.  `QueuedJobsEnd`
  fails as soon as `ApiMayDie` is `TRUE`; with `FALSE` jobs do end, and
  `NoJobIsAbandoned` proves that they always have an owner.
* **Repeated images.**  If the boundary of the last batch falls on an image that
  was listed before (a COCO document may repeat one), the samples of that batch have
  no index rows: statistics and filters miss them.  `Counted` leaves them out.
* **Late scan.**  A redelivered scan makes a confirmed session confirmable again
  and allows a second import; the data properties hold even then.

## 4. DatasetPurge

| State | Code |
|---|---|
| `dataset`, `deleted` | `Dataset.status`, or `"gone"` with all rows below it; whether `deleted_at` is set |
| `job` | `Job.status` of purges and exports; `"removed"` once a purge has deleted the row |
| `exported` | export jobs whose `result_json` names an object, which a purge lists |
| `objects` | the dataset's assets and archives (`Stored`) and one object per export |
| `msgs`, `worker`, `request`, `faults` | as in ImportPipeline; `left` is what a purge's loop has still to delete |

`queue_dataset_purge` is three steps, because its queries see other commits in
between and its loaded `status` decides whether the column is written.
`PurgeObject` deletes one object outside any transaction; `PurgeRecords` is the
one transaction of `_purge_dataset_records`, which deletes the jobs of competing
purges with everything else.  A commit that updates a row deleted meanwhile
raises in SQLAlchemy: `RequestStale` for a request, `TaskStale` for a task,
whose handler raises again.  An export commits `queued` jobs only at the end:
the refresh in `job_is_cancelled` discards the uncommitted `running`, because
the session factory has `autoflush=False`.  `PurgeFail` is possible wherever
the `try` covers; `ExportFail` leaves no trace, there is no handler.

Abstractions: a dataset's rows are one row, its objects are deleted in any
order, progress commits are left out, an export's samples are read at once.  The
imports of the dataset are over, and only exports and purges count as its active
jobs (DatasetUploads has one purge at a time, but uploads and imports beside it).  Temporary directories and previews do not matter to the properties.

| Run | Instance | Shows |
|---|---|---|
| `PurgeRaces` | 2 workers, 2 requests, 2 purges, 1 export, 2 objects, 1 fault, the API may die; symmetry | `PInv`, no object outlives the rows, an active dataset is whole, a purge survives to report |
| `PurgeLive` | as above with 1 object, no export; fair, no symmetry | `PurgingIsUnderWay`, `PurgingEnds` |
| `PurgeOneUser` | 1 request at a time, no fault; symmetry | violation: a restored dataset is destroyed |

Bounds.  Two purges compete, two requests interleave, two objects allow a
failure between two deletions, one fault is a crash of either task or a second
delivery of a failed purge; the theorems hold for all numbers.  Fairness is that
of ImportPipeline: a slot takes messages, goes on with its task and returns, a
committed request enqueues; none is assumed of users, failures or faults.

What the runs found:

* **A purge queued while an earlier one fails** (`PurgeOneUser`).  The request
  loads `purging`, the first purge commits `purge_failed` and its own end, the
  request finds no active job and does not write the unchanged column.  The
  dataset may then be restored, and the second purge destroys it.  The status is
  no lock; `SELECT ... FOR UPDATE` on the dataset would make it one.
  With two requests the same property fails in a second way: a restoration that
  has read the dataset before its purge was queued commits afterwards.
* **A half-purged dataset** may be restored without its files.  It is not
  `active` then but keeps the status `purge_failed`, which is what
  `ActiveIsWhole` relies on.

What holds in spite of them: however the tasks fail and compete, rows are
deleted only after the objects, so that a repeated purge finds what is left; one
purge's job survives; and a dataset does not stay `purging`.

## 5. OperationHistory

| State | Code |
|---|---|
| `rows` | samples of the part that the import has committed |
| `sample` | `subset`, `status` and whether `deleted_at` is set, per `Sample` |
| `part` | name, status and whether `deleted_at` is set, of the `ImportBatch` |
| `op` | `OperationHistory` rows in order of creation: action, status and payload (`before`, `part`, `after`) |
| `request` | per request: handler, the operation it makes or replays, the rows it has loaded |
| `import` | step of the import and the batch status it has loaded |
| `disjoint`, `inOrder` | history of the run only, see below |

A request reads in one step and commits in a second.  `Replay` is
`apply_operation`: it assigns to loaded rows, so that `Saved` decides what is
written; a deletion's `deleted_at` is a new time stamp and is always written.
Two statements see the rows as they are at the commit: `record_operation`
discards every undone operation, and `delete_import_batch` deletes every live
sample of the part.

`disjoint` becomes false when a commit falls between the read and the commit of
a conflicting request (a common sample, or the part), or when the import commits
while the part is being deleted; `inOrder` when an undo is not of the newest applied
operation, or a redo not of the oldest undone one or of one that has been discarded
since it was read.  The code forbids neither.  The properties say what holds
without such a conflict, which every one of these handlers would need a row lock
to exclude; without that premise they fail.

Left out: audit rows, rescans (they write subsets of the archive over those of
the users and record no operation), samples of other parts.

| Run | Instance | Shows |
|---|---|---|
| `History` | 2 requests, 2 samples, 2 subsets, 2 names, 3 operations; symmetry | `DeletionsAreExplained` in any order of undo and redo, `HistoryExplainsColumns` |

Bounds.  Three operations are a deletion of a sample, one of the part and an
edit between them; two samples make a bulk operation partial.  `Bounded` stops at
the first conflict, since the properties are about the time before it, and when
all three operations are recorded lets one request run at a time.

What the model showed about conflicts, in runs that are not kept:

* **Deleting a part during its import.**  Samples that the import commits between
  the handler's read and its UPDATE (`platform.py` 1191) are deleted and not
  listed in the payload, so that undo leaves them deleted, against `README.md:31`
  and the question the front end asks (`App.tsx:912`).
* Undoing the deletion of a part restores the status it was read with: a part
  deleted before its import has ended comes back as `waiting_confirmation`.
* A redo that was read before another operation is recorded brings back the
  operation that the latter discards.  `DeletionsAreExplained` covers this
  interleaving (what comes back is applied again, and what it deletes is deleted);
  `HistoryExplainsColumns` ends there, since the operations are out of order.

## 6. QualityCheck

| State | Code |
|---|---|
| `live` | samples of the version that are not deleted; they change at any time |
| `job` | `Job.status`; never seen as `running`, because `job_is_cancelled` refreshes the row before the assignment is flushed |
| `issues` | committed `QualityIssue` rows, each with the execution it comes from |
| `msgs`, `request`, `faults` | as in ImportPipeline |
| `worker` | per slot: `read` and `todo` samples, `doomed` (rows the `DELETE` sees), `locked` (rows it has deleted, until the commit), `found` (rows added), `unread` (samples whose annotation could not be read) |
| `runs`, `last`, `overlap` | history of the run only: executions begun, the one that committed last and how, whether two were in their transactions together |

The `DELETE` is two steps, `Snapshot` and `Delete`: under READ COMMITTED it sees
the rows committed when it begins, waits for those another transaction has
deleted, and skips them afterwards.  `Validate` handles one sample and is a
cancellation point; `ObserveCancel` commits what has been found so far, as the
code does.  Whatever reading or decoding an annotation raises, a storage error or
the soft time limit included, is caught (`tasks.py` 766) and becomes an issue of that
sample, with which the check goes on: `unreadable` in `Validate`, and `Kinds` says
what is reported of a sample then.  A sample without a normalized annotation
(`Missing`) is not read, and one with an empty index (`Empty`) is reported before
the reading.  `Raise` is an exception or the soft time limit anywhere else, for
which there is no handler.  The other tests of annotations are one defect (`Bad`),
equal checksums are `Twins`.

| Run | Instance | Shows |
|---|---|---|
| `Quality` | 2 workers, 1 request, 2 checks, 4 samples (one good, one bad, one without an annotation to read, one seen to be empty before it is read, of which two are twins), 1 fault; symmetry | `LastReportIsKept`, `ReportIsOfOneCheck` |

Bounds.  Two checks and one fault are up to three executions, two at a time; a
duplicate needs two samples.  A fault is a crash, a redelivery or an annotation that
cannot be read.  `LastingStay` lets one of the samples be deleted; the theorems hold
for any.

Seen on the way, none against a documented promise: two overlapping executions
leave both reports, so that every defect is listed twice (this is why
`ReportIsOfOneCheck` has its premise); a cancelled check leaves a partial
report; a good sample may be reported because a read failed, and nothing tells this
from a defect; a task that raises leaves its job `queued`, which also blocks a purge of
the dataset; a cancelled check is run again when its message returns.

## 7. DatasetArchive, ArchiveInspection, ExportArchive

A name is its folders, stem and suffix; case is kept and `Lower` is a table of
the parts that occur.  A file's data is what a parser finds in its bytes, never
text: lines of numbers, shapes, objects, a document.  Coordinates are integers
that stand for `v / Unit` (`Unit = 4`), and 0 is also the missing size of an
image.  Loops that fill a dictionary keep the last file of a key (`LastWith`);
lists take the first match.  A filter of a sequence is `Only`, and `normpath` is
`Normal`: both are recursive functions, because the provers know nothing of
`SelectSeq` and cannot use a module with a RECURSIVE operator.  `lstrip("./")`
(`archive_parser.py` 169) is `Stripped`: it drops leading parts that consist of dots
and slashes and the dot of the first part that is left; `Undotted` is the table of
such parts.

| Operator | Code |
|---|---|
| `Acceptable`, `Accepted`, `Entries` | `validated_entries` |
| `MatchKey`, `SubsetFor`, `DetectParser`, `Scan` | `match_key`, `subset_for`, `detect_parser`, `scan_dataset_archive` |
| `ParseYolo`, `ParseLabelme`, `ParseVoc`, `ParseCoco` | the four parsers |
| `YoloLabels`, `NumberedLabels`, `Resolved`, `Manifest` | `inspect_dataset_reader` |

**ArchiveInspection** has one variable, the archive, which grows by one file per
step in any order; every state is an archive that somebody may upload.
`Inspection` checks all archives of up to four of sixteen files (images whose
names differ in folder, in case, or only before normalization, one in a folder
whose name begins with a dot; annotations of every format for them, some of which draw
nothing or have a negative class; a broken, an unrelated and a configuration document, a
COCO document, an unsafe name) in every order: what the scan announces is what
the import makes of the archive (`ScanPredictsImport`); an annotation's class is
the label of its name, but with a YOLO configuration beside LabelMe or VOC files
(`LabelsNameAnnotations`); the order of the files does not
matter unless two share a key (`OrderDoesNotMatter`); a COCO document loses no
image that is there and unambiguous and whose path `lstrip` leaves as it is
(`CocoKeepsImages`).  Each pair of files that
the code relates (image and annotation, document and image, configuration and
label file, two of one key) is among four.

**ExportArchive**:

| State | Code |
|---|---|
| `versions` | per imported Part: its samples (subset, deleted, annotations) and its `LabelDefinition` rows |
| `given` | history of the run only: per class, the name or deletion that users decided last |
| `job`, `msgs` | the export job with its format, filter and result; copies of its message that wait |
| `worker` | per slot: position, columns loaded (`seen`), samples still to do, records and labels collected |
| `objects` | the object under each key an execution may put (one per format): records, labels, files |
| `overlap` | history of the run only: have two executions run at the same time? |
| `edits`, `faults` | counts of users' edits, of crashes and redeliveries, bounded |

`ImportPart` and `Rescan` upsert the labels of a manifest (`tasks.py` 193-239),
`UpdateLabel` and `DeleteLabel` change every version that has the class, and an
export shows each class as the newest version that has it.  `Package` writes the
archive and puts the object; `Commit` is a later step, so that a crash in
between repeats the task on other samples, and a redelivery (`Redeliver`) runs it
beside the first.  `job_is_cancelled` refreshes the row before each sample and before
packing (`ObserveCancel`, `Collect`, `Pack`), which discards the uncommitted
`running`; `Commit` writes a column only if it differs from what was last loaded.  A
`manifest` is not looked at again before its put.  `ResultDescribesObject` claims of
a succeeded job that the object it names is there, and, unless two executions have
overlapped, that it holds the number of samples the result says.

`ExportReadsBack` is the round trip of the two halves of the system: what
`Written` makes of samples and labels goes through `Accepted` and `Manifest`
again.  Its premises are what the formats and the code leave out: no two of the
samples have one key (`Cardinality(keys) = Len(records)`), the archive has not
more files than an import accepts (every sample adds one or two, a document or a
configuration one more), no path in a COCO export begins with a dot or a slash
(`Stripped`), and an annotation has a label, a box or a polygon of
three points, and the size of its image where it must be converted (`Holdable`).
Whether the place is the same is exact where the export converts nothing.  Where
it writes pixels as fractions or the other way round, `Within` says what a
division on whole numbers may lose: less than one step of the fraction, at a
box's centre and in its width alike.  The model's step is `1 / Unit` and it
rounds down; the code's is the sixth decimal (`export_task.py` 62), to which it
rounds.

| Run | Instance | Shows |
|---|---|---|
| `Export` | archives in YOLO, COCO and LabelMe with VOC, up to 2 Parts, 1 edit, five formats, two filters, a cancellation, 2 workers, 1 crash or redelivery; symmetry | `LabelsAreAsGiven`, `ExportReadsBack`, `ResultDescribesObject` |

Bounds.  Two Parts of different formats renumber and share classes; one edit is
a rename, a deletion, a moved or a deleted sample before, between or during the
export; one crash falls before or after the put, and one redelivery lets two executions
overtake each other at any step.  `Bounded` starts the export when both Parts are
there, has faults only in YOLO and COCO exports of different Parts, and stops when
the export has ended.

What the model showed, in a run that is not kept:

* **Pascal VOC.**  The export writes `JPEGImages/x.jpg` and `Annotations/x.xml`
  (`export_task.py` 231-232); `match_key` pairs folders named images, labels or
  annotations, so that no image finds its annotation when the archive is
  imported.  `README.md:22` lists VOC among the formats recognised.  LabelMe
  exports do not pair either; `ExportReadsBack` is about YOLO and COCO.
* **Overlapping exports.**  A message returns while its export still runs (visibility
  timeout): the first execution puts five samples, one is deleted, the second puts
  four and commits, and the first commits its count of five.  Both use one key.

Met while modelling, each a premise of `ExportReadsBack` or of `Holdable`, or
left out:

* Images imported from YOLO have no stored size, so that COCO, LabelMe and VOC
  exports write their fractions as if they were pixels.
* An annotation of a deleted label is dropped from YOLO and COCO exports.
* LabelMe and VOC imports number classes in alphabetical order per Part; an
  export gives a class the newest Part's name, which may not be the name the
  older Part had.  A YOLO configuration beside LabelMe or VOC files replaces
  the numbering (`archive_parser.py` 274-279): names it does not list all become class
  -1 under the first of them, so that annotations get a wrong class.
  `LabelsNameAnnotations` excludes such archives.
* A COCO document's path below a folder such as `.data` loses its dot in `lstrip`; the
  image is then found by its base name, and is lost when that is not unique.  The
  same happens to the path of an exported sample that is imported again.
* An import or a rescan of an archive that has the class overwrites a name that
  users gave and revives a class they deleted; `LabelsAreAsGiven` ends there.
* A pose export writes no `kpt_shape`, so that its keypoints are read as
  polygons; a polygon of fewer than three points is read as a box.
* The lookup of COCO images by path ignores case: of two paths that differ in
  case only, the last is taken for both.
* Two samples with one path, in two Parts, give an archive with a name twice,
  which an import refuses.

## 8. DatasetUploads

| State | Code |
|---|---|
| `dataset` | `"active"`, `"deleted"` (`deleted_at` is set), or `"gone"` with its rows |
| `upload` | per session: status, idempotency key, and the number of the version created with it |
| `scan`, `import`, `purge` | `Job.status` of a session's scan and imports, and of the newest purge |
| `samples`, `assets`, `archives` | uploads with committed samples, committed assets, a stored archive |
| `request`, `task` | requests and tasks in progress; a purge's inventory (`listed`, `listedAssets`) and what it has still to delete (`left`) |
| `answers` | history of the run only: which key was answered with which session |

`create_dataset_upload` is three steps: it looks for the key (`CreateRead`),
reads the highest version number (`CreateNumber`) and commits (`CreateCommit`).
A commit that a unique constraint refuses (`Taken`: `uq_dataset_version_number`,
`upload_sessions.idempotency_key`), or that refers to a dataset that is gone,
changes nothing and the request fails.  `complete_upload` and `confirm_upload`
are two steps and do not look at the dataset, as in the code.  The purge has its
inventory, its loop and its transaction; `OnlyListed` is the foreign key by
which a version that is not listed refuses the deletion of the dataset.

Abstractions: a session stands for its version and batch; a scan and an import
commit once and are delivered once, two overlapping imports of one session share
a job, and requests on the dataset are single steps.  ImportPipeline and
DatasetPurge have what this leaves out: redelivery, crashes, cancellation,
rescans, competing purges.

| Run | Instance | Shows |
|---|---|---|
| `Uploads` | 2 uploads, 1 key, 2 requests, 2 workers; symmetry | `KeysNameOneUpload`, `NumbersHaveNoGaps`, `JobsHaveUploads` |
| `UploadPurged` | 1 upload, 1 request, 2 workers; symmetry | violation: assets of a dataset that is gone |

Bounds.  Two requests with one key or none are enough to compete for a key and
for a number; two workers run a purge and an import together.  `Bounded` lets one
upload get past `created`: the properties relate uploads only where they are
created or deleted.  The theorems hold for all numbers and without `Bounded`.

What the runs found:

* **An upload completed during a purge** (`UploadPurged`).  A `created` upload is
  no active job, so the purge is queued and lists it; then the client completes
  and confirms it.  Its import commits assets after the inventory was taken, and
  the purge deletes its version, its samples and its session, but those assets
  are not in the list.  Nothing refers to them any more, no later purge finds
  them, and `test_purge_dataset.py:95` expects that none is left.  Testing
  `deleted_at` in `complete_upload` and `confirm_upload` would close it (and in
  `rescan_import_batch`, which does not test it either).

Without a run:

* A presigned URL outlives the dataset: a PUT after the purge leaves an archive.
  `PutArchive` has it, since storage does not look at the session's row.
* Of two simultaneous requests with one key, the second is not given the first
  one's session but fails; repeating it gives the session.
* The lookup of a key (`platform.py` 391-397) does not compare the dataset, so a
  key used again for another dataset of the organization returns the session of
  the first.  The model has one dataset.

## 9. Proofs

Everything is proved for any numbers of workers, requests, jobs, operations,
samples and faults; in ImportPipeline also for any manifest, sharing of assets
and batch size; in ExportArchive for any archives, coordinates and class numbers; in
ArchiveInspection for any files, in archives of any size:

| Theorem | Assumes | Along |
|---|---|---|
| *ImportPipeline* | | |
| `TypeCorrect` | | `TypeOK /\ TaskInv`, inductive |
| `ReadyIsComplete` | | `DataInv` |
| `NothingReferencedIsMissing` | | `DataInv` |
| `EverySampleIsIndexed` | | `DataInv`, `IndexInv` |
| `EveryBatchEnds` | no image is listed twice | `EverySampleIsIndexed`: all samples count |
| `InvariantHolds` (`IInv`) | | all parts of the invariant together |
| `ImportingIsUnderWay` | | `SessionInv` |
| `NoJobIsAbandoned` | `~ApiMayDie` | `ActiveJobsAreOwned` itself, with `TaskInv` |
| `PipelineKeepsItsPromise` | | `DataInv`, `IndexInv`; every step maps to a step of BatchedImport or a stutter |
| *DatasetPurge* | | |
| `PurgeCorrect`, `PurgeTypes`, `ObjectsGoFirst` | | `PInv` |
| `ActiveStaysWhole` | | `WholeInv` |
| `APurgeReports` | | `TypeOK`, `TaskInv`: `PurgeRecords` runs in a purge whose own job it keeps |
| `NoPurgeHangs` | `~ApiMayDie` | `PurgingIsUnderWay`, with `TaskInv` |
| *OperationHistory* | | |
| `HistoryTypes`, `DeletionsExplained` | | `HInv` |
| `HistoryExplained` | | `CInv` |
| *QualityCheck* | | |
| `NoDefectIsLost`, `OneReport` | | `QInv` |
| `ChecksTyped` | | `BInv` |
| *ExportArchive* | | |
| `LabelsStayAsGiven` | | `LInv` |
| `ExportTyped`, `ResultDescribes`, `ExportsReadBack` | | `EInv` |
| *ArchiveInspection* | | |
| `ScanPredicts`, `LabelsNamedAsDrawn`, `OrderOfFiles`, `CocoKeeps`, `InspectionTyped` | | `Packed`, `Sound` |
| *DatasetUploads* | | |
| `UploadTypes`, `NumbersStayDense`, `KeysStayUnique`, `NoOrphanJobs` | | `UInv` |

The constants' assumptions are those of the modules: job ids are disjoint, the
manifest is a sequence of samples, the batch size is positive (the code takes
`max(1, ...)`), there are finitely many check ids, an archive of ExportArchive is
a sequence of named files whose classes and names the bounds cover
(`ArchivesFit`) and whose data are sequences of what the parsers make numbers of,
in files of the suffixes they open (`ArchivesAreRead`), the formats are those of the request's schema
(`FormatsWritten`), a file's data has the form that its suffix makes the parsers
look for (`FilesAreRead`), and the constant `ClassNames`, which stands for the
alphabet in which LabelMe and VOC classes are sorted, lists the names that occur
(`NamesAreListed`).  TLC evaluates each.

*The invariant of imports.*  `TaskInv` ties a slot's position to what it has
loaded: a task past its first commit has itself written `running`, and only the
import loop holds uncommitted rows.  `LoopInv` says that what an import knows is
committed or pending, that it knows every sample it is past, and that the assets
of what it knows are its own pending ones or committed; so the last commit makes
the manifest complete, and unique-constraint failures cannot matter.  It is
stable under other tasks' steps because committed data only grows.  `IndexInv`
adds that what is committed, and what a task knows, is a *prefix* of the manifest.
A task with pending rows knows exactly what it is past, so that of the samples ahead
only a repetition of one it has seen can make it `continue`; and no pending row is of
a batch that has ended, for at the boundary that ends it the task flushes.  At a
flush, therefore, all of the prefix counts, and afterwards all that is committed and
counts is indexed; the last commit may add rows, but none that count.  The lemmas
`QuietRequest` and `QuietWorker` show once that all other steps leave the data
alone.  `TaskOwns` carries the ownership argument: a step that takes a job's
executor away ends the job, unless the task had loaded `failed` and therefore
was not its executor (`Executes`).

*The refinement.*  Another import may have committed since a task's last commit;
but a batch that meets no unique constraint shares no sample with what is committed.
Both that and what the task knows are prefixes of the manifest, so that a flush makes
the committed samples the prefix of what the task knows, which is a `Commit` of
BatchedImport, and the last commit makes them the manifest, which is its `Publish`.

*The invariant of purges.*  `ObjectsGoFirst` is not inductive alone.
`ClearedInv` adds that whatever a purge has not yet to delete is not in storage,
and that a purge which found no dataset, or has deleted its rows, need not look
again: so a purge with nothing left deletes rows that name nothing stored, and a
second purge that began with an older inventory cannot bring anything back, for
only exports write objects, under keys of their own.

*Sessions.*  `SessionInv` names the import that carries the session: an active
one whose executor, and any request that is cancelling it, has seen the session
as `importing`, so that its end or cancellation ends the session's import as well
(`Carries`).  `RowInv` and `FreshInv` say that a job without a row has no
message, task or other request, so that a confirmation starts a carrier of its
own.

*Active datasets.*  `WholeInv`: while a dataset is active nobody has begun to
purge it, and a request about to has loaded `active`, so that its commit changes
the column and the premise goes with it.

*History.*  `HInv` has the types always and four parts while `disjoint` holds.
`OpsInv`: payloads list committed samples, and a deletion those that were ready.
`DeletedInv`: a sample is deleted exactly when an applied deletion lists it.
`OneInv` makes this inductive: at most one deletion that is applied or undone,
and so may be undone or redone, lists a sample; a second one is recorded only
when the first is undone, which discards it.  `LoadedInv`: what a request has
loaded is still there when it commits, which another step can change only by a
conflict; an undone operation may be discarded meanwhile, but no other deletion of
its samples can have been recorded without a conflict.

*Explained columns.*  `CInv` adds, while `disjoint` holds, that operations are
recorded in their ids' order, that what a request has read of the part is there
when it commits, and that a part is deleted exactly when one deletion of it is
applied; and while undos and redos are in order, `ExplainedInv`.  The property
speaks of the last applied operation alone, and undoing it needs the one before:
`Explained` therefore says of every edit, applied or undone, that what it
replaced is what the applied edits before it had left, so that they form a chain
from the first value to the column's.  The undone edits are the newest, and each
continues the chain where the one before it ends.

*Reports.*  `FoundInv` says that a task's rows are those of the samples it is
past; `ReportInv` that the rows of the last commit are there.  That commit
replaces nothing but rows its `DELETE` saw, and adds its own.  `AloneInv`:
without an overlap one transaction at a time holds every committed row.

*Executions.*  The bound on executions in QualityCheck's `TypeOK` is a count over
the queue.  `CountInv`: executions begun, copies of messages that wait, and checks
whose message is still to be sent are together never more than the checks and the
faults.  A delivery turns a copy into an execution, a request's send a check into
a copy, and only a crash or a redelivery, each a fault, adds a copy.  `SendInv`:
one request at a time is to send a check's message.

*Labels.*  `GivenInv` says that every version that has a class a user has named
agrees on the name, not only the newest, which is all that the list shows;
`VersionsInv` gives the form of the versions.

*Exports.*  `EInv`: every row that a worker has collected is of an image, so that
what each of the four writers makes of `n` rows has `n` files with an image's
suffix, at positions of its own; and a worker that is about to commit finds the
object of its *own* rows under the key (`ObjectOfRows`).  A worker that died
between its put and its commit leaves the object of other rows, but the
redelivered task puts its own before it commits again.

*Reading back.*  `ExportReadsBack` speaks of one state, and what it needs of the
past is that every row is a record (`IsRecord`): its name is clean, that is, an
import would leave it as it is, its annotations are sequences of numbers, and
the object is what `Written` makes of its rows and labels (`ObjectWritten`).
Clean names come from `Accepted`, by which `SafeName` has neither `..` nor `/`
left and `Normal` does nothing more (`SafeIsClean`, `NormalParts`,
`NormalSame`); the numbers from the four parsers, one lemma each
(`LinesDrawn`, `ShapesDrawn`, `ObjectsDrawn`, `EntriesDrawn`), and no edit
touches them.  The rest is about one list of records, in four parts.  Where the
files are: `FlattenSeq` of pairs puts the image of record `i` at `2i` and its
label file at `2i + 1` (`YoloPlaces`); a COCO archive has the images in order and
the document last (`CocoPlaces`).  That each image finds its own: two records
with different keys have different label files, and a label file has the key
of its image and of no other (`LabelFileParts`, `YoloPartner`); a COCO entry
has the exact path (`CocoFound`).  That each annotation has one line or entry, and
keeps its place among the others: `Only` keeps all of what is `Holdable`
(`OnlyAll`), and of a document's flattened entries those with a record's number
are that record's, in their order (`OnlyOfFlattened`, `OwnEntries`).  And what is
read of a line or an entry: the name that the label's new number has
(`NameRead`: `Index` is a bijection onto 0 to n - 1), and the place
(`PolygonRead`, `BoxRead`, `PixelBoxIs`, `PixelPolygonIs`), where a quotient times
its divisor misses the dividend by less than the divisor.

*Archives.*  The archive is a sequence of `Files` (`Packed`), and `Accepted` makes
the names of its files distinct (`Sound`); the rest is about one such sequence.
`ScanPredicts` counts: every image has one sample, and is either the first of its
key, which the scan counts, or a duplicate, which it reports; the file that the
scan keeps for a key is the one the import looks up.  `LabelsNamedAsDrawn` follows a
name from the file that has it to the labels, where `YoloLabels` or
`NumberedLabels` puts every name found, and through `Resolved`, which looks it up there.
`OrderOfFiles` shows that each lookup of the parsers (the last file
of a key, the first document, the names of a kind, the alphabet of `Only`) finds
after the exchange of two neighbours that do not compete the file it found
before (`LastMoved`, `FirstMoved`).

*Uploads.*  Nearly all steps leave alone which uploads exist and how they are
numbered and keyed (`Kept`).  `NumbersInv` adds that a request which has read the
highest number is at most one ahead of it, so that the unique constraint lets
only the next number through; a purge makes the premise void with the dataset.
`KeysInv`: an answer's session exists and says its key while the dataset does,
and two sessions have different keys.  `RowsInv`: the records of a dataset that
is gone are gone, so that a purge, which deletes what it has listed and is
refused when it has not listed everything, takes every job with its session.

*Induction.*  The library's induction theorems take an operator as a parameter,
which the provers cannot instantiate.  Where a fact about a recursive function
is needed (`Only`, `Normal`, `FlattenSeq`), it is proved with `AllNumbers`: the numbers for which
the fact holds are a set with 0 and the successors of its members, which is `Nat`
because the order of `Nat` is well founded (`WFMin`).

Only model-checked:

* `QueuedJobsEnd` and `PurgingEnds`: liveness and ENABLED are beyond the prover.
* The violations.

## 10. Not modelled

* Keypoint names and label colours, which nothing but their own list reads.
* Temporary directories of workers, SQL queries and statistics (read-only),
  presigned URLs, container formats and text decoding, authentication (stateless
  tests at the top of each handler), the front end, bootstrap, migrations and
  deployment, and `build/lib`, a generated copy.

Two behaviours the model has and no property is stated about: `cancel_job` may
write `cancelled` over a job that has just succeeded, and a cancel that loaded a
stale `scan_failed` leaves a session `scanning` with a cancelled job until the
next rescan.

## 11. Mutants

Operators marked *Mutant* stand beside the definition they vary and are used by
no action: each is a plausible bug (acknowledging on delivery, one commit for
the whole manifest, a cancelled import that breaks off its loop, ...).  `PROJECT.json`
pairs them with the property that fails when the definition is replaced.
