------------------------ MODULE ImportPipelineProofs ------------------------
(***************************************************************************)
(* TLAPS proofs about ImportPipeline, for any number of worker slots,      *)
(* requests and jobs, any manifest and any commit batch size.              *)
(***************************************************************************)
EXTENDS ImportPipeline, TLAPS

\* What the assumption on the manifest gives.
LEMMA ManifestFacts ==
  /\ Len(Manifest) \in Nat
  /\ \A i \in 1..Len(Manifest) : Manifest[i] \in ManifestSamples
  /\ ManifestSamples \subseteq Samples
  /\ \A s \in ManifestSamples : AssetsOf[s] \subseteq Assets
<1>1. Manifest \in Seq(Samples)
  BY ManifestAssumption
<1>2. Len(Manifest) \in Nat /\ \A i \in 1..Len(Manifest) : Manifest[i] \in Samples
  BY <1>1
<1> QED
  BY <1>2 DEF ManifestSamples, Leading, Assets

\* Where the job ids belong.
LEMMA JobFacts == FirstScan \in Jobs /\ ScanJobs \subseteq Jobs /\ ImportJobs \subseteq Jobs
                  /\ Rescans \subseteq Jobs /\ NoJob \notin Jobs
BY JobsAssumption DEF Jobs, ScanJobs

\* A fresh slot and a returned task are well-formed.
LEMMA IdleType == Idle \in Task /\ \A j \in Jobs : Returned(j) \in Task
<1>1. Idle \in Task
  BY ManifestFacts DEF Idle, Task, JobStatus, UploadStatus, BatchStatus
<1> QED
  BY <1>1 DEF Returned, Task

\* The created session is well-formed.
LEMMA InitType == Init => TypeOK /\ TaskInv
<1> SUFFICES ASSUME Init PROVE TypeOK /\ TaskInv
  OBVIOUS
<1>1. worker \in [Workers -> Task]
  BY IdleType DEF Init
<1>2. request \in [Clients -> Request]
  BY DEF Init, NoRequest, Request, UploadStatus, BatchStatus
<1>3. job \in [Jobs -> JobStatus] /\ msgs \in [Jobs -> Nat]
  BY DEF Init, JobStatus
<1>4. faults \in 0..MaxFaults
  BY BoundsAssumption DEF Init
<1>5. TypeOK
  BY <1>1, <1>2, <1>3, <1>4 DEF TypeOK, Init, UploadStatus, BatchStatus
<1>6. TaskInv
  BY DEF Init, TaskInv, TaskOK, Importing, Idle, NoRequest
<1> QED
  BY <1>5, <1>6

\* A step that gives slot w the task t keeps every slot well-formed.
LEMMA BecomesType ==
  ASSUME TypeOK, TaskInv, NEW w \in Workers, NEW t \in Task, TaskOK(t), Becomes(w, t)
  PROVE  /\ worker' \in [Workers -> Task]
         /\ \A v \in Workers : TaskOK(worker'[v])
BY DEF TypeOK, TaskInv, Becomes

\* A step that leaves request c holding r keeps every request well-formed.
LEMMA HoldsType ==
  ASSUME TypeOK, TaskInv, NEW c \in Clients, NEW r \in Request,
         r.pc # "idle" => r.job \in Jobs, Holds(c, r)
  PROVE  /\ request' \in [Clients -> Request]
         /\ \A d \in Clients : request'[d].pc # "idle" => request'[d].job \in Jobs
BY DEF TypeOK, TaskInv, Holds

\* The requests the handlers hold.
LEMMA RequestType ==
  /\ NoRequest \in Request
  /\ \A j \in Jobs : \A p \in {"complete", "confirm", "send"} :
       [NoRequest EXCEPT !.pc = p, !.job = j] \in Request
BY DEF NoRequest, Request, UploadStatus, BatchStatus

\* Assigning a status through a loaded copy leaves a status.
LEMMA SetJobType ==
  ASSUME TypeOK, TaskInv, NEW w \in Workers, worker[w].pc # "idle",
         NEW s \in JobStatus, SetJob(w, s)
  PROVE  job' \in [Jobs -> JobStatus]
BY DEF TypeOK, TaskInv, TaskOK, Importing, SetJob, Saved

\* One more message, one more fault.
LEMMA MessageType ==
  ASSUME TypeOK, NEW j \in Jobs, msgs' = [msgs EXCEPT ![j] = @ + 1]
  PROVE  msgs' \in [Jobs -> Nat]
BY DEF TypeOK

\* A fault stays within the bound.
LEMMA FaultType ==
  ASSUME TypeOK, faults < MaxFaults, faults' = faults + 1
  PROVE  faults' \in 0..MaxFaults
BY BoundsAssumption DEF TypeOK

\* The task after a new sample and after a flushed batch.
LEMMA SampleTask ==
  ASSUME NEW t \in Task, t.pc = "import_loop", t.next <= Len(Manifest), TaskOK(t),
         NEW s \in ManifestSamples, NEW new \in SUBSET Assets, NEW b \in BOOLEAN,
         NEW u, u = [t EXCEPT !.pc = IF b THEN "import_flush" ELSE "import_loop",
                              !.next = IF b THEN @ ELSE @ + 1,
                              !.known = @ \cup {s}, !.pending = @ \cup {s},
                              !.pendingAssets = @ \cup new]
  PROVE  u \in Task /\ TaskOK(u)
<1>1. t.next \in 1..Len(Manifest) /\ t.next + 1 \in 1..(Len(Manifest) + 1)
  BY ManifestFacts DEF Task
<1>2. t.job \in Jobs /\ t.seenJob = "running"
  BY DEF TaskOK, Importing
<1>3. t.known \cup {s} \in SUBSET ManifestSamples /\ t.pending \cup {s} \in SUBSET ManifestSamples
      /\ t.pendingAssets \cup new \in SUBSET Assets
  BY DEF Task
<1>4. CASE b
  BY <1>1, <1>2, <1>3, <1>4, ManifestFacts DEF Task, TaskOK, Importing, ImportSteps
<1>5. CASE ~b
  BY <1>1, <1>2, <1>3, <1>5, ManifestFacts DEF Task, TaskOK, Importing, ImportSteps
<1> QED
  BY <1>4, <1>5

\* Leaving a batch boundary for the next sample keeps a task well-formed.
LEMMA FlushTask ==
  ASSUME NEW t \in Task, t.pc = "import_flush", TaskOK(t),
         NEW u, u = [t EXCEPT !.pc = "import_loop", !.next = @ + 1,
                              !.pending = {}, !.pendingAssets = {},
                              !.knownAssets = @ \cup t.pendingAssets]
  PROVE  u \in Task /\ TaskOK(u)
<1>1. t.next + 1 \in 1..(Len(Manifest) + 1)
  BY ManifestFacts DEF Task, TaskOK, Importing
<1>2. t.job \in Jobs /\ t.seenJob = "running"
  BY DEF TaskOK, Importing
<1>3. t.knownAssets \cup t.pendingAssets \in SUBSET Assets
  BY DEF Task
<1> QED
  BY <1>1, <1>2, <1>3 DEF Task, TaskOK, Importing, ImportSteps

\* No step of an API request breaks a type.
LEMMA RequestTypeStep ==
  ASSUME TypeOK, TaskInv, NEW c \in Clients, RequestStep(c)
  PROVE  (TypeOK /\ TaskInv)'
<1> USE JobFacts, RequestType DEF dbVars, dataVars
<1>1. CASE CompleteRead(c)
  <2> [NoRequest EXCEPT !.pc = "complete", !.job = FirstScan].job \in Jobs
    BY DEF NoRequest
  <2> QED
    BY <1>1, HoldsType DEF CompleteRead, Begin, TypeOK, TaskInv
<1>2. CASE CompleteCommit(c)
  <2> [NoRequest EXCEPT !.pc = "send", !.job = FirstScan].job \in Jobs
    BY DEF NoRequest
  <2> QED
    BY <1>2, HoldsType DEF CompleteCommit, ThenSend, TypeOK, TaskInv, UploadStatus, JobStatus
<1>3. ASSUME NEW i \in ImportJobs, ConfirmRead(c, i) PROVE (TypeOK /\ TaskInv)'
  <2> [NoRequest EXCEPT !.pc = "confirm", !.job = i].job \in Jobs
    BY DEF NoRequest
  <2> QED
    BY <1>3, HoldsType DEF ConfirmRead, Begin, TypeOK, TaskInv
<1>4. CASE ConfirmCommit(c)
  <2> request[c].job \in Jobs
    BY <1>4 DEF ConfirmCommit, TaskInv
  <2> [NoRequest EXCEPT !.pc = "send", !.job = request[c].job].job \in Jobs
    BY DEF NoRequest
  <2> QED
    BY <1>4, HoldsType DEF ConfirmCommit, ThenSend, TypeOK, TaskInv, UploadStatus, JobStatus
<1>5. ASSUME NEW j \in Jobs, CancelRead(c, j) PROVE (TypeOK /\ TaskInv)'
  <2> DEFINE r == [pc |-> "cancel", job |-> j, upload |-> upload, batch |-> batch]
  <2> r \in Request /\ r.job \in Jobs
    BY DEF Request, TypeOK
  <2> HIDE DEF r
  <2> QED
    BY <1>5, HoldsType DEF CancelRead, Begin, TypeOK, TaskInv, r
<1>6. CASE CancelCommit(c)
  <2>1. request[c].job \in Jobs
    BY <1>6 DEF CancelCommit, TaskInv
  <2>2. job' \in [Jobs -> JobStatus]
    BY <1>6, <2>1 DEF CancelCommit, TypeOK, JobStatus
  <2>3. upload' \in UploadStatus /\ batch' \in BatchStatus
    BY <1>6 DEF CancelCommit, CancelledSession, Saved, TypeOK, UploadStatus, BatchStatus
  <2>4. NoRequest.pc = "idle"
    BY DEF NoRequest
  <2> QED
    BY <1>6, <2>2, <2>3, <2>4, HoldsType DEF CancelCommit, TypeOK, TaskInv
<1>7. ASSUME NEW j \in Rescans, RescanRead(c, j) PROVE (TypeOK /\ TaskInv)'
  <2> DEFINE r == [pc |-> "rescan", job |-> j, upload |-> upload, batch |-> batch]
  <2> r \in Request /\ r.job \in Jobs
    BY DEF Request, TypeOK
  <2> HIDE DEF r
  <2> QED
    BY <1>7, HoldsType DEF RescanRead, Begin, TypeOK, TaskInv, r
<1>8. CASE RescanCommit(c)
  <2>1. request[c].job \in Jobs
    BY <1>8 DEF RescanCommit, TaskInv
  <2>2. [NoRequest EXCEPT !.pc = "send", !.job = request[c].job].job \in Jobs
    BY <2>1 DEF NoRequest
  <2>3. upload' \in UploadStatus /\ batch' \in BatchStatus /\ job' \in [Jobs -> JobStatus]
    BY <1>8, <2>1 DEF RescanCommit, Saved, TypeOK, UploadStatus, BatchStatus, JobStatus
  <2> QED
    BY <1>8, <2>1, <2>2, <2>3, HoldsType DEF RescanCommit, ThenSend, TypeOK, TaskInv
<1>9. CASE Send(c)
  <2>1. request[c].job \in Jobs
    BY <1>9 DEF Send, TaskInv
  <2>2. msgs' \in [Jobs -> Nat]
    BY <1>9, <2>1, MessageType DEF Send
  <2>3. NoRequest.pc = "idle"
    BY DEF NoRequest
  <2> QED
    <3>1. request' \in [Clients -> Request]
          /\ \A d \in Clients : request'[d].pc # "idle" => request'[d].job \in Jobs
      BY <1>9, <2>3, HoldsType DEF Send
    <3>2. UNCHANGED <<dbVars, dataVars, worker, faults>>
      BY <1>9 DEF Send
    <3> QED
      BY <2>2, <3>1, <3>2 DEF TypeOK, TaskInv
<1>10. CASE ApiDies(c)
  <2>1. NoRequest.pc = "idle"
    BY DEF NoRequest
  <2>2. faults' \in 0..MaxFaults
    BY <1>10, FaultType DEF ApiDies
  <2> QED
    <3>1. request' \in [Clients -> Request]
          /\ \A d \in Clients : request'[d].pc # "idle" => request'[d].job \in Jobs
      BY <1>10, <2>1, HoldsType DEF ApiDies
    <3>2. UNCHANGED <<dbVars, dataVars, msgs, worker>>
      BY <1>10 DEF ApiDies
    <3> QED
      BY <2>2, <3>1, <3>2 DEF TypeOK, TaskInv
<1> QED
  BY <1>1, <1>2, <1>3, <1>4, <1>5, <1>6, <1>7, <1>8, <1>9, <1>10 DEF RequestStep

\* What a worker step has to show: a well-formed task for its slot, and the
\* columns it writes.
LEMMA TaskStep ==
  ASSUME TypeOK, TaskInv, NEW w \in Workers, NEW t \in Task, TaskOK(t),
         Becomes(w, t), UNCHANGED request,
         upload' \in UploadStatus, batch' \in BatchStatus, version' \in {"draft", "ready"},
         job' \in [Jobs -> JobStatus], msgs' \in [Jobs -> Nat], faults' \in 0..MaxFaults,
         rows' \subseteq ManifestSamples, indexRows' \subseteq ManifestSamples,
         assetRows' \subseteq Assets, objects' \subseteq Assets
  PROVE  (TypeOK /\ TaskInv)'
<1>1. worker' \in [Workers -> Task] /\ \A v \in Workers : TaskOK(worker'[v])
  BY BecomesType
<1>2. TypeOK'
  BY <1>1 DEF TypeOK
<1>3. TaskInv'
  BY <1>1 DEF TaskInv
<1> QED
  BY <1>2, <1>3

\* A task that returns, in whatever way, leaves a well-formed slot.
LEMMA ReturnedOK ==
  ASSUME TypeOK, TaskInv, NEW w \in Workers, worker[w].pc # "idle"
  PROVE  /\ worker[w].job \in Jobs
         /\ Returned(worker[w].job) \in Task
         /\ TaskOK(Returned(worker[w].job))
<1>1. worker[w].job \in Jobs
  BY DEF TaskInv, TaskOK, Importing
<1> QED
  BY <1>1, IdleType DEF Returned, Idle, TaskOK, Importing

\* A free slot has nothing pending.
LEMMA IdleOK == Idle \in Task /\ TaskOK(Idle)
BY IdleType DEF Idle, TaskOK, Importing

\* job_is_cancelled returns or goes on with the refreshed status.
LEMMA CheckedCancelType ==
  ASSUME TypeOK, TaskInv, NEW w \in Workers, worker[w].pc \in {"scan_check", "import_check"},
         NEW p \in {"scan_read", "import_begin"}, CheckedCancel(w, p)
  PROVE  \E t \in Task : TaskOK(t) /\ Becomes(w, t)
<1>1. worker[w] \in Task /\ worker[w].job \in Jobs /\ job[worker[w].job] \in JobStatus
  BY ReturnedOK DEF TypeOK
<1> DEFINE t == [worker[w] EXCEPT !.pc = p, !.seenJob = job[worker[w].job]]
<1>2. t \in Task
  BY <1>1 DEF Task, ScanSteps, ImportSteps
<1>4. TaskOK(t)
  BY <1>1 DEF Task, TaskInv, TaskOK, Importing
<1> HIDE DEF t
<1>3. Becomes(w, Returned(worker[w].job)) \/ Becomes(w, t)
  BY DEF CheckedCancel, t
<1> QED
  BY <1>2, <1>3, <1>4, ReturnedOK

\* No step of a worker breaks a type.
LEMMA WorkerTypeStep ==
  ASSUME TypeOK, TaskInv, NEW w \in Workers, WorkerStep(w)
  PROVE  (TypeOK /\ TaskInv)'
<1> USE JobFacts, ManifestFacts DEF dbVars, dataVars
<1>0. worker[w] \in Task
  BY DEF TypeOK
<1>1. ASSUME NEW j \in Jobs, NEW p \in {"scan_begin", "import_check", "import_reject"},
             Take(w, j, p)
      PROVE  (TypeOK /\ TaskInv)'
  <2> DEFINE t == [Idle EXCEPT !.pc = p, !.job = j, !.seenJob = job[j],
                               !.seenUpload = upload]
  <2>1. t \in Task /\ TaskOK(t)
    BY IdleType DEF Idle, TypeOK, Task, TaskOK, Importing, ScanSteps, ImportSteps
  <2> HIDE DEF t
  <2>2. Becomes(w, Idle) \/ Becomes(w, t)
    BY <1>1 DEF Take, t
  <2>3. msgs' \in [Jobs -> Nat]
    BY <1>1 DEF Take, TypeOK
  <2>4. UNCHANGED <<dbVars, dataVars, request, faults>>
    BY <1>1 DEF Take
  <2> QED
    BY <2>1, <2>2, <2>3, <2>4, IdleOK, TaskStep DEF TypeOK
<1>2. CASE TakeAny(w)
  BY <1>1, <1>2 DEF TakeAny, TakeScan, TakeImport
<1>3. CASE ScanBegin(w)
  <2> DEFINE t == [worker[w] EXCEPT !.pc = "scan_check", !.seenJob = "running",
                                    !.seenUpload = "scanning"]
  <2>1. t \in Task /\ TaskOK(t)
    <3>1. t \in Task
      BY <1>0 DEF Task, ScanSteps, UploadStatus, JobStatus
    <3>2. TaskOK(worker[w]) /\ worker[w].pc = "scan_begin"
      BY <1>3 DEF ScanBegin, TaskInv
    <3>3. /\ t.pc = "scan_check" /\ t.job = worker[w].job /\ t.next = worker[w].next
          /\ t.pending = worker[w].pending /\ t.pendingAssets = worker[w].pendingAssets
      BY <1>0 DEF Task
    <3> HIDE DEF t
    <3> QED BY <3>1, <3>2, <3>3 DEF TaskOK, Importing, ImportSteps
  <2> HIDE DEF t
  <2>2. Becomes(w, t) /\ UNCHANGED <<batch, version, dataVars, msgs, request, faults>>
    BY <1>3 DEF ScanBegin, t
  <2>3. job' \in [Jobs -> JobStatus]
    BY <1>3, SetJobType DEF ScanBegin, JobStatus
  <2>4. upload' \in UploadStatus
    BY <1>3 DEF ScanBegin, Saved, TypeOK, UploadStatus
  <2> QED
    BY <2>1, <2>2, <2>3, <2>4, TaskStep DEF TypeOK
<1>4. CASE ScanCheck(w)
  <2>1. \E t \in Task : TaskOK(t) /\ Becomes(w, t)
    BY <1>4, CheckedCancelType DEF ScanCheck
  <2>2. UNCHANGED <<dbVars, dataVars, msgs, request, faults>>
    BY <1>4 DEF ScanCheck
  <2> QED
    BY <2>1, <2>2, TaskStep DEF TypeOK
<1>5. CASE ScanRead(w)
  <2> DEFINE t == [worker[w] EXCEPT !.pc = "scan_finish", !.seenJob = "running"]
  <2>1. t \in Task /\ TaskOK(t)
    BY <1>0, <1>5 DEF ScanRead, TaskInv, TaskOK, Importing, Task, ScanSteps, JobStatus
  <2> HIDE DEF t
  <2>2. Becomes(w, t) /\ UNCHANGED <<upload, batch, version, dataVars, msgs, request, faults>>
    BY <1>5 DEF ScanRead, t
  <2>3. job' \in [Jobs -> JobStatus]
    BY <1>5, SetJobType DEF ScanRead, JobStatus
  <2> QED
    BY <2>1, <2>2, <2>3, TaskStep DEF TypeOK
<1>6. CASE ScanFinish(w)
  <2>1. Becomes(w, Returned(worker[w].job)) /\ UNCHANGED <<version, dataVars, msgs, request, faults>>
    BY <1>6 DEF ScanFinish
  <2>2. job' \in [Jobs -> JobStatus] /\ worker[w].pc # "idle"
    BY <1>6, SetJobType DEF ScanFinish, JobStatus
  <2>3. upload' \in UploadStatus /\ batch' \in BatchStatus
    BY <1>6 DEF ScanFinish, UploadStatus, BatchStatus
  <2> QED
    BY <2>1, <2>2, <2>3, ReturnedOK, TaskStep DEF TypeOK
<1>7. CASE ScanFail(w)
  <2>1. Becomes(w, Returned(worker[w].job)) /\ UNCHANGED <<batch, version, dataVars, msgs, request, faults>>
    BY <1>7 DEF ScanFail
  <2>2. job' \in [Jobs -> JobStatus] /\ worker[w].pc # "idle"
    BY <1>7, SetJobType DEF ScanFail, JobStatus
  <2>3. upload' \in UploadStatus
    BY <1>7 DEF ScanFail, Saved, TypeOK, UploadStatus
  <2> QED
    BY <2>1, <2>2, <2>3, ReturnedOK, TaskStep DEF TypeOK
<1>8. CASE ImportReject(w)
  <2>1. Becomes(w, Returned(worker[w].job)) /\ UNCHANGED <<upload, batch, version, dataVars, msgs, request, faults>>
    BY <1>8 DEF ImportReject
  <2>2. job' \in [Jobs -> JobStatus] /\ worker[w].pc # "idle"
    BY <1>8, SetJobType DEF ImportReject, JobStatus
  <2> QED
    BY <2>1, <2>2, ReturnedOK, TaskStep DEF TypeOK
<1>9. CASE ImportCheck(w)
  <2>1. \E t \in Task : TaskOK(t) /\ Becomes(w, t)
    BY <1>9, CheckedCancelType DEF ImportCheck
  <2>2. UNCHANGED <<dbVars, dataVars, msgs, request, faults>>
    BY <1>9 DEF ImportCheck
  <2> QED
    BY <2>1, <2>2, TaskStep DEF TypeOK
<1>10. CASE ImportBegin(w)
  <2> DEFINE t == [worker[w] EXCEPT !.pc = "import_load", !.seenJob = "running"]
  <2>1. t \in Task /\ TaskOK(t)
    BY <1>0, <1>10 DEF ImportBegin, TaskInv, TaskOK, Importing, Task, ImportSteps, JobStatus
  <2> HIDE DEF t
  <2>2. Becomes(w, t) /\ UNCHANGED <<upload, batch, version, dataVars, msgs, request, faults>>
    BY <1>10 DEF ImportBegin, t
  <2>3. job' \in [Jobs -> JobStatus]
    BY <1>10, SetJobType DEF ImportBegin, JobStatus
  <2> QED
    BY <2>1, <2>2, <2>3, TaskStep DEF TypeOK
<1>11. CASE ImportLoad(w)
  <2> DEFINE t == [worker[w] EXCEPT !.pc = "import_loop", !.seenBatch = batch,
                                    !.known = rows, !.knownAssets = assetRows]
  <2>1. t \in Task /\ TaskOK(t)
    BY <1>0, <1>11 DEF ImportLoad, TypeOK, TaskInv, TaskOK, Importing, Task, ImportSteps
  <2> HIDE DEF t
  <2>2. Becomes(w, t) /\ UNCHANGED <<dbVars, dataVars, msgs, request, faults>>
    BY <1>11 DEF ImportLoad, t
  <2> QED
    BY <2>1, <2>2, TaskStep DEF TypeOK
<1>12. CASE ImportSkip(w)
  <2> DEFINE t == [worker[w] EXCEPT !.next = @ + 1]
  <2>1. t \in Task /\ TaskOK(t)
    BY <1>0, <1>12 DEF ImportSkip, InLoop, TaskInv, TaskOK, Importing, Task
  <2> HIDE DEF t
  <2>2. Becomes(w, t) /\ UNCHANGED <<dbVars, dataVars, msgs, request, faults>>
    BY <1>12 DEF ImportSkip, t
  <2> QED
    BY <2>1, <2>2, TaskStep DEF TypeOK
<1>13. CASE ImportSample(w)
  <2> DEFINE s == Current(w)
             new == Uncached(w, s)
             b == AtBoundary(worker[w].next)
             t == [worker[w] EXCEPT
                    !.pc = IF b THEN "import_flush" ELSE "import_loop",
                    !.next = IF b THEN @ ELSE @ + 1,
                    !.known = @ \cup {s}, !.pending = @ \cup {s},
                    !.pendingAssets = @ \cup new]
  <2>1. worker[w].next \in 1..Len(Manifest) /\ worker[w].pc = "import_loop"
    BY <1>0, <1>13 DEF ImportSample, InLoop, Task
  <2>2. s \in ManifestSamples /\ new \subseteq Assets
    BY <2>1 DEF Current, Uncached
  <2>3. Becomes(w, t) /\ UNCHANGED <<dbVars, rows, indexRows, assetRows, msgs, request, faults>>
        /\ objects' = objects \cup new
    BY <1>13 DEF ImportSample
  <2>6. b \in BOOLEAN
    BY DEF AtBoundary
  <2>7. TaskOK(worker[w]) /\ worker[w].next <= Len(Manifest)
    BY <2>1 DEF TaskInv
  <2> HIDE DEF s, new, b
  <2>4. t \in Task /\ TaskOK(t)
    BY <1>0, <2>1, <2>2, <2>6, <2>7, SampleTask
  <2>5. objects' \subseteq Assets
    BY <2>2, <2>3 DEF TypeOK
  <2> HIDE DEF t
  <2> QED
    BY <2>3, <2>4, <2>5, TaskStep DEF TypeOK
<1>14. CASE ImportFlush(w)
  <2> DEFINE t == [worker[w] EXCEPT
                    !.pc = "import_loop", !.next = @ + 1,
                    !.pending = {}, !.pendingAssets = {},
                    !.knownAssets = @ \cup worker[w].pendingAssets]
  <2>1. worker[w].next \in 1..Len(Manifest) /\ worker[w].pc = "import_flush"
    BY <1>0, <1>14 DEF ImportFlush, AfterFlush, Flushed, JobCancelled, Task, TaskInv, TaskOK, Importing
  <2>2. t \in Task /\ TaskOK(t)
    BY <1>0, <2>1, FlushTask DEF TaskInv
  <2>3. Becomes(w, t) \/ Becomes(w, Returned(worker[w].job))
    BY <1>14 DEF ImportFlush, AfterFlush, Flushed, JobCancelled
  <2> HIDE DEF t
  <2>4. rows' \subseteq ManifestSamples /\ indexRows' \subseteq ManifestSamples
        /\ assetRows' \subseteq Assets
    BY <1>0, <1>14 DEF ImportFlush, AfterFlush, Flushed, JobCancelled, FlushRows, TypeOK, Task
  <2>5. job' \in [Jobs -> JobStatus]
    BY <1>14, <2>1, ReturnedOK DEF ImportFlush, AfterFlush, Flushed, JobCancelled, TypeOK, JobStatus
  <2>6. UNCHANGED <<upload, batch, version, objects, msgs, request, faults>>
    BY <1>14 DEF ImportFlush, AfterFlush, Flushed, JobCancelled
  <2> QED
    BY <2>1, <2>2, <2>3, <2>4, <2>5, <2>6, ReturnedOK, TaskStep DEF TypeOK
<1>15. CASE ImportFinish(w)
  <2>1. Becomes(w, Returned(worker[w].job)) /\ worker[w].pc # "idle"
        /\ UNCHANGED <<indexRows, objects, msgs, request, faults>>
    BY <1>15 DEF ImportFinish, LoopDone
  <2>2. job' \in [Jobs -> JobStatus]
    BY <1>15, <2>1, SetJobType DEF ImportFinish, JobStatus
  <2>3. rows' \subseteq ManifestSamples /\ assetRows' \subseteq Assets
    BY <1>0, <1>15 DEF ImportFinish, FlushRows, TypeOK, Task
  <2>4. upload' \in UploadStatus /\ batch' \in BatchStatus /\ version' \in {"draft", "ready"}
    BY <1>15 DEF ImportFinish, Saved, TypeOK, UploadStatus, BatchStatus
  <2> QED
    BY <2>1, <2>2, <2>3, <2>4, ReturnedOK, TaskStep DEF TypeOK
<1>16. CASE ImportFail(w)
  <2>1. Becomes(w, Returned(worker[w].job)) /\ worker[w].pc # "idle"
        /\ UNCHANGED <<version, dataVars, msgs, request, faults>>
    BY <1>16 DEF ImportFail, ImportSteps
  <2>2. job' \in [Jobs -> JobStatus] /\ upload' \in UploadStatus /\ batch' \in BatchStatus
    BY <1>16, <2>1, ReturnedOK DEF ImportFail, TypeOK, JobStatus, UploadStatus, BatchStatus
  <2> QED
    BY <2>1, <2>2, ReturnedOK, TaskStep DEF TypeOK
<1>17. CASE Ack(w)
  <2>1. Becomes(w, Idle) /\ UNCHANGED <<dbVars, dataVars, msgs, request, faults>>
    BY <1>17 DEF Ack
  <2> QED
    BY <2>1, IdleOK, TaskStep DEF TypeOK
<1>18. CASE WorkerCrash(w)
  <2>1. Becomes(w, Idle) /\ worker[w].pc # "idle" /\ UNCHANGED <<dbVars, dataVars, request>>
    BY <1>18 DEF WorkerCrash
  <2>2. msgs' \in [Jobs -> Nat]
    BY <1>18, <2>1, ReturnedOK, MessageType DEF WorkerCrash, Requeued
  <2>3. faults' \in 0..MaxFaults
    BY <1>18, FaultType DEF WorkerCrash
  <2> QED
    BY <2>1, <2>2, <2>3, IdleOK, TaskStep DEF TypeOK
<1>19. CASE Redeliver(w)
  <2>1. worker[w].pc # "idle" /\ UNCHANGED <<dbVars, dataVars, worker, request>>
    BY <1>19 DEF Redeliver
  <2>2. msgs' \in [Jobs -> Nat]
    BY <1>19, <2>1, ReturnedOK, MessageType DEF Redeliver, Requeued
  <2>3. faults' \in 0..MaxFaults
    BY <1>19, FaultType DEF Redeliver
  <2> QED
    BY <2>1, <2>2, <2>3 DEF TypeOK, TaskInv
<1> QED
  BY <1>2, <1>3, <1>4, <1>5, <1>6, <1>7, <1>8, <1>9, <1>10, <1>11, <1>12, <1>13,
     <1>14, <1>15, <1>16, <1>17, <1>18, <1>19 DEF WorkerStep, ScanStep, ImportStep

\* Every column, message count and loaded value keeps a value its code gives it,
\* and every busy slot keeps a job.
THEOREM TypeCorrect == Spec => [](TypeOK /\ TaskInv)
<1>1. TypeOK /\ TaskInv /\ [Next]_vars => (TypeOK /\ TaskInv)'
  <2> SUFFICES ASSUME TypeOK, TaskInv, [Next]_vars PROVE (TypeOK /\ TaskInv)'
    OBVIOUS
  <2>1. CASE Next
    BY <2>1, RequestTypeStep, WorkerTypeStep DEF Next
  <2>2. CASE UNCHANGED vars
    BY <2>2 DEF vars, dbVars, dataVars, TypeOK, TaskInv
  <2> QED
    BY <2>1, <2>2
<1> QED
  BY <1>1, InitType, PTL DEF Spec

-----------------------------------------------------------------------------
(* The steps that leave the data alone.                                     *)

\* A step that touches neither the data nor what a running import knows.
Quiet == /\ UNCHANGED dataVars /\ UNCHANGED version
         /\ upload' = "ready" => upload = "ready"
         /\ \A v \in Workers : Importing(worker'[v]) => worker'[v] = worker[v]

\* A step that gives slot w a task t which is not importing leaves the others.
LEMMA BecomesNotImporting ==
  ASSUME TypeOK, NEW w \in Workers, NEW t, ~Importing(t), Becomes(w, t)
  PROVE  \A v \in Workers : Importing(worker'[v]) => worker'[v] = worker[v]
BY DEF TypeOK, Becomes

\* Free slots and returned tasks are not importing.
LEMMA QuietTasks ==
  /\ ~Importing(Idle)
  /\ \A j : ~Importing(Returned(j))
BY DEF Importing, Idle, Returned

\* Stuttering is quiet.
LEMMA QuietStutter == UNCHANGED vars => Quiet
BY DEF vars, dbVars, Quiet

\* API requests of this pipeline leave samples, assets and objects alone.
LEMMA QuietRequest ==
  ASSUME NEW c \in Clients, RequestStep(c)
  PROVE  Quiet
<1>1. UNCHANGED <<dataVars, version, worker>>
  BY DEF RequestStep, CompleteRead, CompleteCommit, ConfirmRead, ConfirmCommit, CancelRead,
     CancelCommit, RescanRead, RescanCommit, Send, ApiDies, dbVars
<1>2. upload' = "ready" => upload = "ready"
  BY DEF RequestStep, CompleteRead, CompleteCommit, ConfirmRead, ConfirmCommit, CancelRead,
     CancelCommit, CancelledSession, Saved, RescanRead, RescanCommit, Send, ApiDies, dbVars
<1> QED
  BY <1>1, <1>2 DEF Quiet

\* Of a worker's steps only those of the import loop are not quiet.
LEMMA QuietWorker ==
  ASSUME TypeOK, TaskInv, NEW w \in Workers, WorkerStep(w)
  PROVE  \/ Quiet
         \/ ImportLoad(w) \/ ImportSkip(w) \/ ImportSample(w)
         \/ ImportFlush(w) \/ ImportFinish(w)
<1>0. worker[w] \in Task /\ TaskOK(worker[w])
  BY DEF TypeOK, TaskInv
<1>1. ASSUME NEW t, Becomes(w, t), ~Importing(t), UNCHANGED dataVars, UNCHANGED version,
             upload' = "ready" => upload = "ready"
      PROVE  Quiet
  BY <1>1, BecomesNotImporting DEF Quiet
<1>2. ASSUME NEW j, NEW p \in {"scan_begin", "import_check", "import_reject"}, Take(w, j, p)
      PROVE  Quiet
  <2> DEFINE t == [Idle EXCEPT !.pc = p, !.job = j, !.seenJob = job[j],
                               !.seenUpload = upload]
  <2>1. ~Importing(t)
    BY DEF Idle, Importing
  <2>2. Becomes(w, Idle) \/ Becomes(w, t)
    BY <1>2 DEF Take
  <2> HIDE DEF t
  <2>3. UNCHANGED dataVars /\ UNCHANGED version /\ UNCHANGED upload
    BY <1>2 DEF Take, dbVars
  <2> QED
    BY <1>1, <2>1, <2>2, <2>3, QuietTasks
<1>3. CASE TakeAny(w)
  BY <1>2, <1>3 DEF TakeAny, TakeScan, TakeImport
<1>4. ASSUME NEW p \in {"scan_read", "import_begin"}, CheckedCancel(w, p),
             UNCHANGED <<dbVars, dataVars>>
      PROVE  Quiet
  <2> DEFINE t == [worker[w] EXCEPT !.pc = p, !.seenJob = job[worker[w].job]]
  <2>1. ~Importing(t)
    BY <1>0 DEF Task, Importing
  <2>2. Becomes(w, Returned(worker[w].job)) \/ Becomes(w, t)
    BY <1>4 DEF CheckedCancel
  <2> HIDE DEF t
  <2> QED
    BY <1>1, <1>4, <2>1, <2>2, QuietTasks DEF dbVars
<1>5. CASE ScanStep(w)
  <2>1. CASE ScanBegin(w)
    <3> DEFINE t == [worker[w] EXCEPT !.pc = "scan_check", !.seenJob = "running",
                                      !.seenUpload = "scanning"]
    <3>1. ~Importing(t)
      BY <1>0 DEF Task, Importing
    <3> HIDE DEF t
    <3>2. Becomes(w, t) /\ UNCHANGED <<batch, version, dataVars>>
      BY <2>1 DEF ScanBegin, t
    <3>3. upload' = "ready" => upload = "ready"
      BY <2>1 DEF ScanBegin, Saved
    <3> QED
      BY <1>1, <3>1, <3>2, <3>3
  <2>2. CASE ScanCheck(w)
    BY <1>4, <2>2 DEF ScanCheck
  <2>3. CASE ScanRead(w)
    <3> DEFINE t == [worker[w] EXCEPT !.pc = "scan_finish", !.seenJob = "running"]
    <3>1. ~Importing(t)
      BY <1>0 DEF Task, Importing
    <3> HIDE DEF t
    <3>2. Becomes(w, t) /\ UNCHANGED <<upload, batch, version, dataVars>>
      BY <2>3 DEF ScanRead, t
    <3> QED
      BY <1>1, <3>1, <3>2
  <2>4. CASE ScanFinish(w)
    BY <1>1, <2>4, QuietTasks DEF ScanFinish
  <2> QED
    BY <1>5, <2>1, <2>2, <2>3, <2>4 DEF ScanStep
<1>6. CASE ScanFail(w)
  <2>1. upload' = "ready" => upload = "ready"
    BY <1>6 DEF ScanFail, Saved
  <2> QED
    BY <1>1, <1>6, <2>1, QuietTasks DEF ScanFail
<1>7. CASE ImportReject(w) \/ ImportFail(w) \/ Ack(w) \/ WorkerCrash(w)
  <2>1. UNCHANGED dataVars /\ UNCHANGED version /\ (upload' = "ready" => upload = "ready")
    BY <1>7 DEF ImportReject, ImportFail, Ack, WorkerCrash, dbVars
  <2>2. Becomes(w, Returned(worker[w].job)) \/ Becomes(w, Idle)
    BY <1>7 DEF ImportReject, ImportFail, Ack, WorkerCrash
  <2> QED
    BY <1>1, <2>1, <2>2, QuietTasks
<1>8. CASE ImportCheck(w)
  BY <1>4, <1>8 DEF ImportCheck
<1>9. CASE ImportBegin(w)
  <2> DEFINE t == [worker[w] EXCEPT !.pc = "import_load", !.seenJob = "running"]
  <2>1. ~Importing(t)
    BY <1>0 DEF Task, Importing
  <2> HIDE DEF t
  <2>2. Becomes(w, t) /\ UNCHANGED <<upload, batch, version, dataVars>>
    BY <1>9 DEF ImportBegin, t
  <2> QED
    BY <1>1, <2>1, <2>2
<1>10. CASE Redeliver(w)
  <2>1. UNCHANGED <<upload, batch, version, job, dataVars, worker>>
    BY <1>10 DEF Redeliver, dbVars
  <2> QED
    BY <2>1 DEF Quiet
<1> QED
  BY <1>3, <1>5, <1>6, <1>7, <1>8, <1>9, <1>10 DEF WorkerStep, ImportStep

-----------------------------------------------------------------------------
(* Ready means complete, and nothing referenced is missing.                 *)

DataInv == ReadyMeansComplete /\ ReferencedAssetsStored /\ LoopInv

\* A quiet step keeps the data invariant.
LEMMA DataUntouched ==
  ASSUME DataInv, Quiet
  PROVE  DataInv'
<1>1. LoopInv'
  <2> SUFFICES ASSUME NEW v \in Workers, Importing(worker'[v]) PROVE LoopOK(worker[v])'
    BY DEF LoopInv
  <2>1. worker'[v] = worker[v] /\ LoopOK(worker[v])
    BY DEF DataInv, LoopInv, Quiet
  <2> QED
    BY <2>1 DEF LoopOK, Past, dataVars, Quiet
<1> QED
  BY <1>1 DEF DataInv, ReadyMeansComplete, ReferencedAssetsStored, dataVars, Quiet

\* Data only grows, so what another import task knows stays true.
LEMMA LoopOKGrows ==
  ASSUME NEW t, LoopOK(t), rows \subseteq rows', assetRows \subseteq assetRows',
         objects \subseteq objects'
  PROVE  LoopOK(t)'
BY DEF LoopOK, Past

\* The steps of the import loop keep the data invariant.
LEMMA WorkerDataStep ==
  ASSUME TypeOK, TaskInv, DataInv, NEW w \in Workers, WorkerStep(w)
  PROVE  DataInv'
<1>0. worker[w] \in Task /\ TaskOK(worker[w])
  BY DEF TypeOK, TaskInv
<1>11. ASSUME NEW t, Becomes(w, t), Importing(t) => LoopOK(t)',
              rows \subseteq rows', assetRows \subseteq assetRows', objects \subseteq objects'
       PROVE  LoopInv'
  <2>1. worker'[w] = t /\ \A v \in Workers : v # w => worker'[v] = worker[v]
    BY <1>11 DEF Becomes, TypeOK
  <2>2. \A v \in Workers : v # w /\ Importing(worker[v]) => LoopOK(worker[v])'
    <3> SUFFICES ASSUME NEW v \in Workers, v # w, Importing(worker[v])
                 PROVE  LoopOK(worker[v])'
      OBVIOUS
    <3>1. LoopOK(worker[v])
      BY DEF DataInv, LoopInv
    <3>2. worker'[v] = worker[v]
      BY <2>1
    <3> QED
      BY <1>11, <3>1, <3>2 DEF LoopOK, Past
  <2>3. \A v \in Workers : Importing(worker'[v]) => LoopOK(worker[v])'
    <3> SUFFICES ASSUME NEW v \in Workers, Importing(worker'[v]) PROVE LoopOK(worker[v])'
      OBVIOUS
    <3>1. CASE v = w
      BY <1>11, <2>1, <3>1 DEF LoopOK, Past
    <3>2. CASE v # w
      BY <2>1, <2>2, <3>2
    <3> QED
      BY <3>1, <3>2
  <2> QED
    BY <2>3 DEF LoopInv
<1>12. CASE ImportLoad(w)
  <2>0. PICK t : t = [worker[w] EXCEPT !.pc = "import_loop", !.seenBatch = batch,
                                       !.known = rows, !.knownAssets = assetRows]
    OBVIOUS
  <2>1. worker[w].next = 1 /\ worker[w].pending = {} /\ worker[w].pendingAssets = {}
    BY <1>0, <1>12 DEF ImportLoad, TaskOK, Importing
  <2>2. t.known = rows /\ t.knownAssets = assetRows /\ t.next = 1
        /\ t.pending = {} /\ t.pendingAssets = {} /\ t.pc = "import_loop"
    BY <1>0, <2>0, <2>1 DEF Task
  <2>3. Becomes(w, t) /\ UNCHANGED <<upload, version, dataVars>>
    BY <1>12, <2>0 DEF ImportLoad, dbVars
  <2>4. UNCHANGED <<rows, assetRows, objects>>
    BY <2>3 DEF dataVars
  <2>5. \A i \in 1..Len(Manifest) : ~Past(t, i)
    BY <2>2, ManifestFacts DEF Past
  <2>6. \A s \in rows : AssetsOf[s] \subseteq assetRows
    BY DEF DataInv, ReferencedAssetsStored
  <2>7. LoopOK(t)'
    BY <2>2, <2>4, <2>5, <2>6 DEF LoopOK, Past
  <2>8. LoopInv'
    BY <1>11, <2>3, <2>4, <2>7
  <2> QED
    BY <2>3, <2>8 DEF DataInv, ReadyMeansComplete, ReferencedAssetsStored, dataVars
<1>13. CASE ImportSkip(w)
  <2>0. PICK t : t = [worker[w] EXCEPT !.next = @ + 1]
    OBVIOUS
  <2>1. LoopOK(worker[w]) /\ worker[w].pc = "import_loop"
    BY <1>13 DEF ImportSkip, InLoop, DataInv, LoopInv, Importing
  <2>2. t.known = worker[w].known /\ t.knownAssets = worker[w].knownAssets
        /\ t.next = worker[w].next + 1 /\ t.pending = worker[w].pending
        /\ t.pendingAssets = worker[w].pendingAssets /\ t.pc = "import_loop"
    BY <1>0, <2>0, <2>1 DEF Task
  <2>3. Becomes(w, t) /\ UNCHANGED <<upload, version, dataVars>>
        /\ Manifest[worker[w].next] \in worker[w].known
    BY <1>13, <2>0 DEF ImportSkip, Current, dbVars
  <2>4. UNCHANGED <<rows, assetRows, objects>>
    BY <2>3 DEF dataVars
  <2>5. worker[w].next \in Int
    BY <1>0, ManifestFacts DEF Task
  <2>6. \A i \in 1..Len(Manifest) : Past(t, i) => Past(worker[w], i) \/ i = worker[w].next
    BY <2>2, <2>5, ManifestFacts DEF Past
  <2>7. \A i \in 1..Len(Manifest) : Past(t, i) => Manifest[i] \in t.known
    BY <2>1, <2>2, <2>3, <2>6 DEF LoopOK
  <2>8. LoopOK(t)'
    BY <2>1, <2>2, <2>4, <2>7 DEF LoopOK, Past
  <2>9. LoopInv'
    BY <1>11, <2>3, <2>4, <2>8
  <2> QED
    BY <2>3, <2>9 DEF DataInv, ReadyMeansComplete, ReferencedAssetsStored, dataVars
<1>14. CASE ImportSample(w)
  <2> DEFINE s == Manifest[worker[w].next]
             new == Uncached(w, s)
             boundary == AtBoundary(worker[w].next)
  <2>0. PICK t : t = [worker[w] EXCEPT
                        !.pc = IF boundary THEN "import_flush" ELSE "import_loop",
                        !.next = IF boundary THEN @ ELSE @ + 1,
                        !.known = @ \cup {s}, !.pending = @ \cup {s},
                        !.pendingAssets = @ \cup new]
    OBVIOUS
  <2>1. LoopOK(worker[w]) /\ worker[w].pc = "import_loop"
    BY <1>14 DEF ImportSample, InLoop, DataInv, LoopInv, Importing
  <2>2. /\ t.known = worker[w].known \cup {s}
        /\ t.pending = worker[w].pending \cup {s}
        /\ t.knownAssets = worker[w].knownAssets
        /\ t.pendingAssets = worker[w].pendingAssets \cup new
    BY <1>0, <2>0 DEF Task
  <2>3. \/ t.pc = "import_flush" /\ t.next = worker[w].next
        \/ t.pc = "import_loop" /\ t.next = worker[w].next + 1
    BY <1>0, <2>0 DEF Task
  <2>4. Becomes(w, t) /\ objects' = objects \cup new
        /\ UNCHANGED <<upload, version, rows, assetRows>>
    BY <1>14, <2>0 DEF ImportSample, Current, dbVars
  <2>5. AssetsOf[s] \subseteq worker[w].knownAssets \cup worker[w].pendingAssets \cup new
    BY DEF Uncached
  <2> HIDE DEF new, boundary
  <2>6. worker[w].next \in Int
    BY <1>0, ManifestFacts DEF Task
  <2>7. \A i \in 1..Len(Manifest) : Past(t, i) => Past(worker[w], i) \/ i = worker[w].next
    BY <2>1, <2>3, <2>6, ManifestFacts DEF Past
  <2>8. \A i \in 1..Len(Manifest) : Past(t, i) => Manifest[i] \in t.known
    BY <2>1, <2>2, <2>7 DEF LoopOK
  <2> HIDE DEF s
  <2>9. LoopOK(t)'
    <3>1. t.pending \subseteq t.known /\ t.known \subseteq rows' \cup t.pending
      BY <2>1, <2>2, <2>4 DEF LoopOK
    <3>2. t.knownAssets \subseteq assetRows' /\ t.pendingAssets \subseteq objects'
      BY <2>1, <2>2, <2>4 DEF LoopOK
    <3>3. \A x \in t.known : AssetsOf[x] \subseteq t.knownAssets \cup t.pendingAssets
      BY <2>1, <2>2, <2>5 DEF LoopOK
    <3> QED
      BY <2>8, <3>1, <3>2, <3>3 DEF LoopOK, Past
  <2>10. LoopInv'
    BY <1>11, <2>4, <2>9
  <2> QED
    BY <2>4, <2>10 DEF DataInv, ReadyMeansComplete, ReferencedAssetsStored
<1>15. ASSUME LoopOK(worker[w]), FlushRows(w), UNCHANGED objects
       PROVE  ReferencedAssetsStored' /\ rows \subseteq rows' /\ assetRows \subseteq assetRows'
  <2>1. rows' = rows \cup worker[w].pending
        /\ assetRows' = assetRows \cup worker[w].pendingAssets
    BY <1>15 DEF FlushRows
  <2>2. \A s \in worker[w].pending : AssetsOf[s] \subseteq assetRows'
    BY <1>15, <2>1 DEF LoopOK
  <2> QED
    BY <1>15, <2>1, <2>2 DEF DataInv, ReferencedAssetsStored, LoopOK
<1>16. ASSUME FlushRows(w), ReadyMeansComplete PROVE upload = "ready" \/ version = "ready" => rows' = ManifestSamples
  BY <1>0, <1>16 DEF FlushRows, ReadyMeansComplete, Task
<1>17. CASE ImportFlush(w)
  <2>1. LoopOK(worker[w]) /\ FlushRows(w) /\ UNCHANGED <<upload, version, objects>>
    BY <1>17 DEF ImportFlush, AfterFlush, Flushed, JobCancelled, DataInv, LoopInv, Importing
  <2>2. ReferencedAssetsStored' /\ rows \subseteq rows' /\ assetRows \subseteq assetRows'
    BY <1>15, <2>1
  <2>3. ReadyMeansComplete'
    BY <1>16, <2>1 DEF DataInv, ReadyMeansComplete, ManifestSamples
  <2>0. PICK t : t = [worker[w] EXCEPT
                        !.pc = "import_loop", !.next = @ + 1,
                        !.pending = {}, !.pendingAssets = {},
                        !.knownAssets = @ \cup worker[w].pendingAssets]
    OBVIOUS
  <2>4. Becomes(w, Returned(worker[w].job)) \/ Becomes(w, t)
    BY <1>17, <2>0 DEF ImportFlush, AfterFlush, Flushed, JobCancelled
  <2>5. /\ t.pc = "import_loop" /\ t.next = worker[w].next + 1 /\ t.known = worker[w].known
        /\ t.pending = {} /\ t.pendingAssets = {}
        /\ t.knownAssets = worker[w].knownAssets \cup worker[w].pendingAssets
    BY <1>0, <2>0 DEF Task
  <2>6. worker[w].next \in Int /\ worker[w].pc = "import_flush"
    BY <1>0, <1>17, ManifestFacts DEF Task, ImportFlush, AfterFlush, Flushed, JobCancelled
  <2>7. \A i \in 1..Len(Manifest) : Past(t, i) => Past(worker[w], i)
    BY <2>5, <2>6, ManifestFacts DEF Past
  <2>8. LoopOK(t)'
    <3>1. t.known \subseteq rows' /\ t.knownAssets \subseteq assetRows'
      BY <2>1, <2>5 DEF LoopOK, FlushRows
    <3>2. \A i \in 1..Len(Manifest) : Past(t, i) => Manifest[i] \in t.known
      BY <2>1, <2>5, <2>7 DEF LoopOK
    <3>3. \A s \in t.known : AssetsOf[s] \subseteq t.knownAssets
      BY <2>1, <2>5 DEF LoopOK
    <3> QED
      BY <2>5, <3>1, <3>2, <3>3 DEF LoopOK, Past
  <2>9. LoopInv'
    BY <1>11, <2>1, <2>2, <2>4, <2>8, QuietTasks
  <2> QED
    BY <2>2, <2>3, <2>9 DEF DataInv
<1>18. CASE ImportFinish(w)
  <2>1. LoopOK(worker[w]) /\ FlushRows(w) /\ UNCHANGED objects
        /\ Becomes(w, Returned(worker[w].job)) /\ worker[w].next > Len(Manifest)
    BY <1>18 DEF ImportFinish, LoopDone, DataInv, LoopInv, Importing
  <2>2. ReferencedAssetsStored' /\ rows \subseteq rows' /\ assetRows \subseteq assetRows'
    BY <1>15, <2>1
  <2>3. rows' = ManifestSamples
    <3>1. \A i \in 1..Len(Manifest) : Past(worker[w], i)
      BY <1>0, <2>1, ManifestFacts DEF Past, Task
    <3>2. ManifestSamples \subseteq worker[w].known
      BY <2>1, <3>1 DEF LoopOK, ManifestSamples, Leading
    <3>3. rows' \subseteq ManifestSamples
      BY <1>0, <2>1 DEF FlushRows, TypeOK, Task
    <3> QED
      BY <2>1, <3>2, <3>3 DEF LoopOK, FlushRows
  <2>4. LoopInv'
    BY <1>11, <2>1, <2>2, QuietTasks
  <2> QED
    BY <2>2, <2>3, <2>4 DEF DataInv, ReadyMeansComplete, ManifestSamples
<1> QED
  BY <1>12, <1>13, <1>14, <1>17, <1>18, QuietWorker, DataUntouched

\* Nothing is stored, ready or importing at first.
LEMMA InitData == Init => DataInv
<1> SUFFICES ASSUME Init PROVE DataInv
  OBVIOUS
<1>1. \A w \in Workers : ~Importing(worker[w])
  BY DEF Init, Idle, Importing
<1> QED
  BY <1>1 DEF Init, DataInv, ReadyMeansComplete, ReferencedAssetsStored, LoopInv

\* The data invariant holds at every moment.
LEMMA DataCorrect == Spec => [](TypeOK /\ TaskInv /\ DataInv)
<1>1. TypeOK /\ TaskInv /\ DataInv /\ [Next]_vars => DataInv'
  <2> SUFFICES ASSUME TypeOK, TaskInv, DataInv, [Next]_vars PROVE DataInv'
    OBVIOUS
  <2>1. CASE Next
    BY <2>1, QuietRequest, DataUntouched, WorkerDataStep DEF Next
  <2>2. CASE UNCHANGED vars
    BY <2>2, QuietStutter, DataUntouched
  <2> QED
    BY <2>1, <2>2
<1> QED
  BY <1>1, InitData, TypeCorrect, PTL DEF Spec

\* A version or session is `ready' only when every sample is committed.
THEOREM ReadyIsComplete == Spec => []ReadyMeansComplete
<1>1. DataInv => ReadyMeansComplete
  BY DEF DataInv
<1> QED
  BY <1>1, DataCorrect, PTL

\* No committed row refers to an asset without a row or a stored object.
THEOREM NothingReferencedIsMissing == Spec => []ReferencedAssetsStored
<1>1. DataInv => ReferencedAssetsStored
  BY DEF DataInv
<1> QED
  BY <1>1, DataCorrect, PTL

-----------------------------------------------------------------------------
(* The samples of every batch that ends are indexed.                        *)

IndexInv == SamplesAreIndexed /\ PrefixInv

\* A quiet step keeps the index invariant.
LEMMA IndexUntouched ==
  ASSUME IndexInv, Quiet
  PROVE  IndexInv'
<1>1. rows' = rows /\ indexRows' = indexRows
  BY DEF Quiet, dataVars
<1>2. \A v \in Workers : Importing(worker'[v]) => PrefixOK(worker[v])'
  <2> SUFFICES ASSUME NEW v \in Workers, Importing(worker'[v]) PROVE PrefixOK(worker[v])'
    OBVIOUS
  <2>1. worker'[v] = worker[v] /\ PrefixOK(worker[v])
    BY DEF IndexInv, PrefixInv, Quiet
  <2> QED
    BY <2>1 DEF PrefixOK, LastPast
<1> QED
  BY <1>1, <1>2 DEF IndexInv, SamplesAreIndexed, PrefixInv, Prefix

\* Slot w takes up task t, and what is committed is still a prefix.
LEMMA PrefixStep ==
  ASSUME TypeOK, IndexInv, NEW w \in Workers, NEW t, Becomes(w, t),
         Importing(t) => PrefixOK(t), Prefix(rows')
  PROVE  PrefixInv'
<1>1. worker'[w] = t /\ \A v \in Workers : v # w => worker'[v] = worker[v]
  BY DEF Becomes, TypeOK
<1>2. \A v \in Workers : Importing(worker'[v]) => PrefixOK(worker[v])'
  <2> SUFFICES ASSUME NEW v \in Workers, Importing(worker'[v]) PROVE PrefixOK(worker[v])'
    OBVIOUS
  <2>1. CASE v = w
    BY <1>1, <2>1 DEF PrefixOK, LastPast
  <2>2. CASE v # w
    <3>1. worker'[v] = worker[v] /\ PrefixOK(worker[v])
      BY <1>1, <2>2 DEF IndexInv, PrefixInv
    <3> QED
      BY <3>1 DEF PrefixOK, LastPast
  <2> QED
    BY <2>1, <2>2
<1>3. Prefix(rows)'
  BY DEF Prefix
<1> QED
  BY <1>2, <1>3 DEF PrefixInv

\* More of the first entries list more samples, one more entry one sample more,
\* and no entry at all none.
LEMMA LeadingFacts ==
  /\ \A k, m \in 0..Len(Manifest) : k <= m => Leading(k) \subseteq Leading(m)
  /\ \A n \in 1..Len(Manifest) : Leading(n) = Leading(n - 1) \cup {Manifest[n]}
  /\ Leading(0) = {}
<1>1. \A k, m \in 0..Len(Manifest) : k <= m => Leading(k) \subseteq Leading(m)
  BY ManifestFacts DEF Leading
<1>2. ASSUME NEW n \in 1..Len(Manifest)
      PROVE  Leading(n) = Leading(n - 1) \cup {Manifest[n]}
  <2>1. 1..n = (1..(n - 1)) \cup {n}
    BY ManifestFacts
  <2> QED
    BY <2>1 DEF Leading
<1>3. Leading(0) = {}
  BY DEF Leading
<1> QED
  BY <1>1, <1>2, <1>3

\* A boundary that ends a batch is at a sample not listed before.
LEMMA EndIsNew ==
  ASSUME NEW n \in 1..Len(Manifest), EndsBatch(n)
  PROVE  Manifest[n] \notin Leading(n - 1)
BY DEF EndsBatch, Listed, Leading

\* An importing task knows what it is past.
LEMMA KnowsPast ==
  ASSUME NEW t, LoopOK(t), t.pc \in {"import_loop", "import_flush"},
         t.next \in 1..(Len(Manifest) + 1), t.pc = "import_flush" => t.next <= Len(Manifest)
  PROVE  LastPast(t) \in 0..Len(Manifest) /\ Leading(LastPast(t)) \subseteq t.known
<1>1. LastPast(t) \in 0..Len(Manifest)
  BY ManifestFacts DEF LastPast
<1>2. \A i \in 1..LastPast(t) : Manifest[i] \in t.known
  BY <1>1, ManifestFacts DEF LastPast, LoopOK, Past
<1> QED
  BY <1>1, <1>2 DEF Leading

\* Before a new sample a task knows exactly what it is past.
LEMMA NewIsNext ==
  ASSUME NEW t, LoopOK(t), PrefixOK(t), t.pc = "import_loop",
         t.next \in 1..Len(Manifest), Manifest[t.next] \notin t.known
  PROVE  t.known = Leading(t.next - 1)
<1>1. Leading(t.next - 1) \subseteq t.known
  BY KnowsPast, ManifestFacts DEF LastPast
<1>2. PICK k \in 0..Len(Manifest) : t.known = Leading(k)
  BY DEF PrefixOK, Prefix
<1>3. k < t.next
  BY <1>2, ManifestFacts DEF Leading
<1>4. Leading(k) \subseteq Leading(t.next - 1)
  BY <1>3, LeadingFacts, ManifestFacts
<1> QED
  BY <1>1, <1>2, <1>4

\* Committing what a task holds makes a prefix of the manifest, and when there is
\* something new to commit a longer one.
LEMMA CommittedPrefix ==
  ASSUME NEW t, LoopOK(t), PrefixOK(t), t.pc \in {"import_loop", "import_flush"},
         t.next \in 1..(Len(Manifest) + 1), t.pc = "import_flush" => t.next <= Len(Manifest),
         Prefix(rows)
  PROVE  /\ Prefix(rows \cup t.pending)
         /\ t.pending # {} /\ t.pending \cap rows = {}
              => \E k, m \in 0..Len(Manifest) : /\ k < m
                                                /\ rows = Leading(k)
                                                /\ rows \cup t.pending = Leading(m)
<1>1. PICK k \in 0..Len(Manifest) : rows = Leading(k)
  BY DEF Prefix
<1>2. CASE t.pending = {}
  <2>1. rows \cup t.pending = rows
    BY <1>2
  <2> QED
    BY <1>2, <2>1
<1>3. CASE t.pending # {}
  <2>1. PICK m \in 0..Len(Manifest) : t.known = Leading(m)
    BY <1>3 DEF PrefixOK, Prefix
  <2>2. rows \cup t.pending = rows \cup t.known
    BY DEF LoopOK
  <2>3. CASE m <= k
    <3>1. t.known \subseteq rows
      BY <1>1, <2>1, <2>3, LeadingFacts
    <3>2. rows \cup t.pending = rows /\ t.pending \cap rows # {}
      BY <1>3, <2>2, <3>1 DEF LoopOK
    <3> QED
      BY <3>2
  <2>4. CASE k < m
    <3>1. rows \cup t.pending = Leading(m)
      BY <1>1, <2>1, <2>2, <2>4, LeadingFacts
    <3> QED
      BY <1>1, <2>4, <3>1 DEF Prefix
  <2> QED
    BY <2>3, <2>4, ManifestFacts
<1> QED
  BY <1>2, <1>3

\* At a flush everything uncommitted counts; when the loop is over, nothing does.
LEMMA WhatIsCounted ==
  ASSUME NEW t, LoopOK(t), PrefixOK(t), t.next \in 1..(Len(Manifest) + 1)
  PROVE  /\ t.pc = "import_flush" /\ t.next <= Len(Manifest) => t.pending \subseteq Counted
         /\ t.next > Len(Manifest) => t.pending \cap Counted = {}
<1>1. ASSUME t.pc = "import_flush", t.next <= Len(Manifest)
      PROVE  t.pending \subseteq Counted
  <2>1. CASE t.pending = {}
    BY <2>1
  <2>2. CASE t.pending # {}
    <3>1. t.pending \subseteq Leading(t.next)
      BY <1>1, <2>2 DEF PrefixOK, LastPast, LoopOK
    <3>2. t.next \in 1..Len(Manifest) /\ EndsBatch(t.next)
      BY <1>1, ManifestFacts DEF PrefixOK
    <3>3. Leading(t.next) \subseteq Counted
      BY <3>2 DEF Counted
    <3> QED
      BY <3>1, <3>3
  <2> QED
    BY <2>1, <2>2
<1>2. ASSUME t.next > Len(Manifest) PROVE t.pending \cap Counted = {}
  <2>1. \A i \in 1..Len(Manifest) : EndsBatch(i) => t.pending \cap Leading(i) = {}
    BY <1>2, ManifestFacts DEF PrefixOK
  <2> QED
    BY <2>1 DEF Counted
<1> QED
  BY <1>1, <1>2

\* The steps of the import loop keep the index invariant.
LEMMA WorkerIndexStep ==
  ASSUME TypeOK, TaskInv, DataInv, IndexInv, NEW w \in Workers, WorkerStep(w)
  PROVE  IndexInv'
<1>0. worker[w] \in Task /\ TaskOK(worker[w]) /\ worker[w].next \in 1..(Len(Manifest) + 1)
      /\ (worker[w].pc = "import_flush" => worker[w].next <= Len(Manifest))
  BY ManifestFacts DEF TypeOK, TaskInv, TaskOK, Task
<1>1. Importing(worker[w]) => LoopOK(worker[w]) /\ PrefixOK(worker[w])
  BY DEF DataInv, LoopInv, IndexInv, PrefixInv
<1>2. Prefix(rows) /\ indexRows = rows \cap Counted
  BY DEF IndexInv, PrefixInv, SamplesAreIndexed
<1>3. CASE ImportLoad(w)
  <2>1. PICK t : t = [worker[w] EXCEPT !.pc = "import_loop", !.seenBatch = batch,
                                       !.known = rows, !.knownAssets = assetRows]
    OBVIOUS
  <2>2. t.known = rows /\ t.pending = {} /\ t.pc = "import_loop"
    BY <1>0, <1>3, <2>1 DEF Task, TaskOK, Importing, ImportLoad
  <2>3. Becomes(w, t) /\ rows' = rows /\ indexRows' = indexRows
    BY <1>3, <2>1 DEF ImportLoad, dataVars
  <2>4. PrefixOK(t)
    BY <1>2, <2>2 DEF PrefixOK
  <2> QED
    BY <1>2, <2>3, <2>4, PrefixStep DEF IndexInv, SamplesAreIndexed
<1>4. CASE ImportSkip(w)
  <2> DEFINE n == worker[w].next
  <2>1. PICK t : t = [worker[w] EXCEPT !.next = @ + 1]
    OBVIOUS
  <2>2. worker[w].pc = "import_loop" /\ n \in 1..Len(Manifest)
        /\ Manifest[n] \in worker[w].known
    BY <1>0, <1>4, ManifestFacts DEF ImportSkip, InLoop, Current
  <2>3. LoopOK(worker[w]) /\ PrefixOK(worker[w])
    BY <1>1, <2>2 DEF Importing
  <2>4. t.known = worker[w].known /\ t.pending = worker[w].pending
        /\ t.next = n + 1 /\ t.pc = "import_loop"
    BY <1>0, <2>1, <2>2 DEF Task
  <2>5. Becomes(w, t) /\ rows' = rows /\ indexRows' = indexRows
    BY <1>4, <2>1 DEF ImportSkip, dataVars
  <2>a. LastPast(worker[w]) = n - 1
    BY <2>2 DEF LastPast
  <2>b. t.pending # {} => t.known = Leading(n - 1)
    BY <2>3, <2>4, <2>a DEF PrefixOK
  <2> HIDE DEF n
  <2>c. Leading(n) = Leading(n - 1) \cup {Manifest[n]}
    BY <2>2, LeadingFacts
  <2>6. t.pending # {} => t.known = Leading(n - 1) /\ Leading(n) = Leading(n - 1)
    BY <2>2, <2>4, <2>b, <2>c
  <2>7. t.pending # {} => t.known = Leading(LastPast(t))
    <3>1. LastPast(t) = n
      BY <2>2, <2>4, ManifestFacts DEF LastPast
    <3> QED
      BY <2>6, <3>1
  <2>8. ASSUME NEW i \in 1..Len(Manifest), EndsBatch(i), i < t.next
        PROVE  t.pending \cap Leading(i) = {}
    <3>1. CASE i < n
      BY <2>3, <2>4, <2>8, <3>1 DEF PrefixOK, n
    <3>2. CASE i = n
      <4>1. Manifest[n] \notin Leading(n - 1)
        BY <2>2, <2>8, <3>2, EndIsNew
      <4>2. t.pending = {}
        BY <2>2, <2>4, <2>6, <4>1
      <4> QED
        BY <4>2
    <3> QED
      BY <2>2, <2>4, <2>8, <3>1, <3>2, ManifestFacts
  <2>9. PrefixOK(t)
    BY <2>3, <2>4, <2>7, <2>8 DEF PrefixOK
  <2> QED
    BY <1>2, <2>5, <2>9, PrefixStep DEF IndexInv, SamplesAreIndexed
<1>5. CASE ImportSample(w)
  <2> DEFINE n == worker[w].next
             boundary == AtBoundary(n)
  <2>1. PICK t : t = [worker[w] EXCEPT
                        !.pc = IF boundary THEN "import_flush" ELSE "import_loop",
                        !.next = IF boundary THEN @ ELSE @ + 1,
                        !.known = @ \cup {Manifest[n]}, !.pending = @ \cup {Manifest[n]},
                        !.pendingAssets = @ \cup Uncached(w, Manifest[n])]
    OBVIOUS
  <2>2. worker[w].pc = "import_loop" /\ n \in 1..Len(Manifest)
        /\ Manifest[n] \notin worker[w].known
    BY <1>0, <1>5, ManifestFacts DEF ImportSample, InLoop, Current
  <2>3. LoopOK(worker[w]) /\ PrefixOK(worker[w])
    BY <1>1, <2>2 DEF Importing
  <2>4. t.known = worker[w].known \cup {Manifest[n]}
        /\ t.pending = worker[w].pending \cup {Manifest[n]}
    BY <1>0, <2>1 DEF Task
  <2>5. \/ boundary /\ t.pc = "import_flush" /\ t.next = n
        \/ ~boundary /\ t.pc = "import_loop" /\ t.next = n + 1
    BY <1>0, <2>1 DEF Task
  <2>6. Becomes(w, t) /\ rows' = rows /\ indexRows' = indexRows
    BY <1>5, <2>1 DEF ImportSample, Current
  <2>7. ~boundary => ~EndsBatch(n)
    BY DEF AtBoundary, EndsBatch
  <2>8. worker[w].known = Leading(n - 1)
    BY <2>2, <2>3, NewIsNext
  <2>9. boundary => EndsBatch(n)
    <3>1. ~Listed(n)
      BY <2>2, <2>8, ManifestFacts DEF Listed, Leading
    <3> QED
      BY <3>1 DEF AtBoundary, EndsBatch
  <2>10. worker[w].pending \subseteq worker[w].known
         /\ \A i \in 1..Len(Manifest) :
              EndsBatch(i) /\ i < n => worker[w].pending \cap Leading(i) = {}
    BY <2>3 DEF LoopOK, PrefixOK
  <2> HIDE DEF n, boundary
  <2>11. t.known = Leading(n) /\ LastPast(t) = n
    <3>1. t.known = Leading(n)
      BY <2>2, <2>4, <2>8, LeadingFacts
    <3>2. LastPast(t) = n
      BY <2>2, <2>5, ManifestFacts DEF LastPast
    <3> QED
      BY <3>1, <3>2
  <2>12. ASSUME NEW i \in 1..Len(Manifest), EndsBatch(i), i < t.next
         PROVE  t.pending \cap Leading(i) = {}
    <3>1. i < n
      BY <2>2, <2>5, <2>7, <2>12, ManifestFacts
    <3>2. worker[w].pending \cap Leading(i) = {}
      BY <2>10, <2>12, <3>1
    <3>3. Manifest[n] \notin Leading(i)
      <4>1. Leading(i) \subseteq Leading(n - 1)
        BY <2>2, <3>1, LeadingFacts, ManifestFacts
      <4> QED
        BY <2>2, <2>8, <4>1
    <3> QED
      BY <2>4, <3>2, <3>3
  <2>13. Prefix(t.known)
    BY <2>2, <2>11, ManifestFacts DEF Prefix
  <2>14. t.pc = "import_flush" => EndsBatch(t.next)
    BY <2>5, <2>9
  <2>15. PrefixOK(t)
    BY <2>11, <2>12, <2>13, <2>14 DEF PrefixOK
  <2> QED
    BY <1>2, <2>6, <2>15, PrefixStep DEF IndexInv, SamplesAreIndexed
<1>6. CASE ImportFlush(w)
  <2>1. PICK t : t = Flushed(w, worker[w].next + 1)
    OBVIOUS
  <2>2. rows' = rows \cup worker[w].pending /\ indexRows' = indexRows \cup worker[w].pending
        /\ worker[w].pc = "import_flush"
    BY <1>6 DEF ImportFlush, FlushRows
  <2>3. Becomes(w, Returned(worker[w].job)) \/ Becomes(w, t)
    BY <1>6, <2>1 DEF ImportFlush, AfterFlush
  <2>4. t.known = worker[w].known /\ t.pending = {} /\ t.pc = "import_loop"
    BY <1>0, <2>1 DEF Task, Flushed
  <2>5. LoopOK(worker[w]) /\ PrefixOK(worker[w])
    BY <1>1, <2>2 DEF Importing
  <2>6. PrefixOK(t)
    BY <2>4, <2>5 DEF PrefixOK
  <2>7. Prefix(rows')
    BY <1>0, <1>2, <2>2, <2>5, CommittedPrefix
  <2>8. PrefixInv'
    BY <2>3, <2>6, <2>7, PrefixStep, QuietTasks
  <2>9. worker[w].pending \subseteq Counted
    BY <1>0, <2>2, <2>5, WhatIsCounted
  <2>10. indexRows' = rows' \cap Counted
    BY <1>2, <2>2, <2>9
  <2> QED
    BY <2>8, <2>10 DEF IndexInv, SamplesAreIndexed
<1>7. CASE ImportFinish(w)
  <2>1. rows' = rows \cup worker[w].pending /\ indexRows' = indexRows
        /\ worker[w].pc = "import_loop" /\ worker[w].next > Len(Manifest)
        /\ Becomes(w, Returned(worker[w].job))
    BY <1>7 DEF ImportFinish, FlushRows, LoopDone
  <2>2. LoopOK(worker[w]) /\ PrefixOK(worker[w])
    BY <1>1, <2>1 DEF Importing
  <2>3. Prefix(rows')
    BY <1>0, <1>2, <2>1, <2>2, CommittedPrefix
  <2>4. PrefixInv'
    BY <2>1, <2>3, PrefixStep, QuietTasks
  <2>5. worker[w].pending \cap Counted = {}
    BY <1>0, <2>1, <2>2, WhatIsCounted
  <2>6. indexRows' = rows' \cap Counted
    BY <1>2, <2>1, <2>5
  <2> QED
    BY <2>4, <2>6 DEF IndexInv, SamplesAreIndexed
<1> QED
  BY <1>3, <1>4, <1>5, <1>6, <1>7, QuietWorker, IndexUntouched

\* Nothing is stored or indexed at first.
LEMMA InitIndex == Init => IndexInv
<1> SUFFICES ASSUME Init PROVE IndexInv
  OBVIOUS
<1>1. \A w \in Workers : ~Importing(worker[w])
  BY DEF Init, Idle, Importing
<1>2. Prefix(rows)
  BY LeadingFacts, ManifestFacts DEF Init, Prefix
<1> QED
  BY <1>1, <1>2 DEF Init, IndexInv, SamplesAreIndexed, PrefixInv

\* Every step keeps the index invariant.
LEMMA IndexStep ==
  ASSUME TypeOK, TaskInv, DataInv, IndexInv, [Next]_vars
  PROVE  IndexInv'
<1>1. CASE Next
  BY <1>1, QuietRequest, IndexUntouched, WorkerIndexStep DEF Next
<1>2. CASE UNCHANGED vars
  BY <1>2, QuietStutter, IndexUntouched
<1> QED
  BY <1>1, <1>2

\* At every moment the index rows are those of the committed samples whose batch
\* ends, whichever tasks crashed, were redelivered, cancelled or lost a race, and
\* whatever the manifest repeats.
THEOREM EverySampleIsIndexed == Spec => []SamplesAreIndexed
<1>1. TypeOK /\ TaskInv /\ DataInv /\ IndexInv /\ [Next]_vars => IndexInv'
  BY IndexStep
<1>2. IndexInv => SamplesAreIndexed
  BY DEF IndexInv
<1> QED
  BY <1>1, <1>2, InitIndex, DataCorrect, PTL DEF Spec

\* A manifest without repetitions leaves no committed sample uncounted.
THEOREM EveryBatchEnds ==
  ASSUME \A i, j \in 1..Len(Manifest) : Manifest[i] = Manifest[j] => i = j
  PROVE  Spec => [](indexRows = rows)
<1>1. ManifestSamples \subseteq Counted
  <2>1. CASE Len(Manifest) = 0
    BY <2>1, LeadingFacts DEF ManifestSamples
  <2>2. CASE Len(Manifest) # 0
    <3>1. Len(Manifest) \in 1..Len(Manifest) /\ EndsBatch(Len(Manifest))
      BY <2>2, ManifestFacts DEF EndsBatch, Listed
    <3> QED
      BY <3>1 DEF Counted, ManifestSamples
  <2> QED
    BY <2>1, <2>2
<1>2. TypeOK /\ SamplesAreIndexed => indexRows = rows
  BY <1>1 DEF TypeOK, SamplesAreIndexed
<1> QED
  BY <1>2, EverySampleIsIndexed, DataCorrect, PTL

-----------------------------------------------------------------------------
(* An active job is owned, as long as every commit reaches its enqueue.     *)

\* A step of slot w that sends nothing and assigns no other job than its own.
\* Either its job is not active afterwards, or the task goes on executing it, or
\* it has neither executed it before nor assigned it now.
LEMMA TaskOwns ==
  ASSUME TypeOK, ActiveJobsAreOwned, NEW w \in Workers, NEW t, Becomes(w, t),
         UNCHANGED <<msgs, request>>,
         \A j \in Jobs : j # worker[w].job => job'[j] = job[j],
         worker[w].job \in Jobs =>
           \/ ~Active(job'[worker[w].job])
           \/ Executes(t, worker[w].job)
           \/ job'[worker[w].job] = job[worker[w].job] /\ ~Executes(worker[w], worker[w].job)
  PROVE  ActiveJobsAreOwned'
<1> DEFINE k == worker[w].job
<1>1. worker'[w] = t /\ \A v \in Workers : v # w => worker'[v] = worker[v]
  BY DEF Becomes, TypeOK
<1> SUFFICES ASSUME NEW j \in Jobs, Active(job'[j]), ~(msgs[j] > 0),
                    ~(\E c \in Clients : request[c].pc = "send" /\ request[c].job = j)
             PROVE  \E v \in Workers : Executes(worker'[v], j)
  BY DEF ActiveJobsAreOwned, Active, Executes
<1>2. ASSUME ~Executes(worker[w], j), job'[j] = job[j]
      PROVE  \E v \in Workers : Executes(worker'[v], j)
  <2>1. PICK v \in Workers : Executes(worker[v], j)
    BY <1>2 DEF ActiveJobsAreOwned
  <2>2. worker'[v] = worker[v]
    BY <1>1, <1>2, <2>1
  <2> QED
    BY <2>1, <2>2
<1>3. CASE j # k
  BY <1>2, <1>3 DEF Executes
<1>4. CASE j = k /\ Executes(t, k)
  BY <1>1, <1>4
<1>5. CASE j = k /\ ~Executes(t, k)
  BY <1>2, <1>5
<1> QED
  BY <1>3, <1>4, <1>5

\* No step of an API request abandons an active job: it makes one active only
\* where it is itself about to enqueue it.
LEMMA RequestOwns ==
  ASSUME ~ApiMayDie, TypeOK, TaskInv, ActiveJobsAreOwned, NEW c \in Clients, RequestStep(c)
  PROVE  ActiveJobsAreOwned'
<1>1. ASSUME NEW r, Holds(c, r), request[c].pc # "send", UNCHANGED <<msgs, worker>>,
             \A j \in Jobs : Active(job'[j]) =>
               Active(job[j]) \/ (r.pc = "send" /\ r.job = j)
      PROVE  ActiveJobsAreOwned'
  <2>1. request'[c] = r /\ \A d \in Clients : d # c => request'[d] = request[d]
    BY <1>1 DEF Holds, TypeOK
  <2> SUFFICES ASSUME NEW j \in Jobs, Active(job'[j]), ~(msgs[j] > 0),
                      ~(\E w \in Workers : Executes(worker[w], j))
               PROVE  \E d \in Clients : request'[d].pc = "send" /\ request'[d].job = j
    BY <1>1 DEF ActiveJobsAreOwned, Active, Executes
  <2>2. CASE r.pc = "send" /\ r.job = j
    BY <2>1, <2>2
  <2>3. CASE Active(job[j])
    <3>1. PICK d \in Clients : request[d].pc = "send" /\ request[d].job = j
      BY <2>3 DEF ActiveJobsAreOwned
    <3>2. request'[d] = request[d]
      BY <1>1, <2>1, <3>1
    <3> QED
      BY <3>1, <3>2
  <2> QED
    BY <1>1, <2>2, <2>3
<1>2. ASSUME NEW j, NEW s, ThenSend(c, j), request[c].pc # "send", UNCHANGED <<msgs, worker>>,
             job' = [job EXCEPT ![j] = s]
      PROVE  ActiveJobsAreOwned'
  <2> DEFINE r == [NoRequest EXCEPT !.pc = "send", !.job = j]
  <2>1. r.pc = "send" /\ r.job = j
    BY DEF NoRequest
  <2>2. Holds(c, r)
    BY <1>2 DEF ThenSend
  <2> HIDE DEF r
  <2>3. \A i \in Jobs : i # j => job'[i] = job[i]
    BY <1>2 DEF TypeOK
  <2> QED
    BY <1>1, <1>2, <2>1, <2>2, <2>3
<1>3. ASSUME NEW r, Begin(c, r), UNCHANGED <<msgs, worker, dbVars>>
      PROVE  ActiveJobsAreOwned'
  BY <1>1, <1>3 DEF Begin, dbVars
<1>4. CASE CompleteRead(c)
  BY <1>3, <1>4 DEF CompleteRead
<1>5. CASE CompleteCommit(c)
  BY <1>2, <1>5 DEF CompleteCommit
<1>6. CASE \E i \in ImportJobs : ConfirmRead(c, i)
  BY <1>3, <1>6 DEF ConfirmRead
<1>7. CASE ConfirmCommit(c)
  BY <1>2, <1>7 DEF ConfirmCommit
<1>8. CASE \E j \in Jobs : CancelRead(c, j)
  BY <1>3, <1>8 DEF CancelRead
<1>9. CASE CancelCommit(c)
  <2>1. Holds(c, NoRequest) /\ request[c].pc = "cancel" /\ UNCHANGED <<msgs, worker>>
    BY <1>9 DEF CancelCommit
  <2>2. \A j \in Jobs : Active(job'[j]) => Active(job[j])
    BY <1>9 DEF CancelCommit, TypeOK, Active
  <2> QED
    BY <1>1, <2>1, <2>2
<1>10. CASE \E r \in Rescans : RescanRead(c, r)
  BY <1>3, <1>10 DEF RescanRead
<1>11. CASE RescanCommit(c)
  BY <1>2, <1>11 DEF RescanCommit
<1>12. CASE Send(c)
  <2>1. request[c].pc = "send" /\ request[c].job \in Jobs
        /\ msgs' = [msgs EXCEPT ![request[c].job] = @ + 1]
        /\ UNCHANGED <<job, worker>>
    BY <1>12 DEF Send, TaskInv, dbVars
  <2>2. msgs'[request[c].job] > 0 /\ \A j \in Jobs : msgs[j] > 0 => msgs'[j] > 0
    BY <2>1 DEF TypeOK
  <2>3. \A d \in Clients : d # c => request'[d] = request[d]
    BY <1>12 DEF Send, Holds, TypeOK
  <2> QED
    BY <2>1, <2>2, <2>3 DEF ActiveJobsAreOwned
<1> QED
  BY <1>4, <1>5, <1>6, <1>7, <1>8, <1>9, <1>10, <1>11, <1>12 DEF RequestStep, ApiDies

\* No step of a worker abandons an active job.
LEMMA WorkerOwns ==
  ASSUME TypeOK, TaskInv, ActiveJobsAreOwned, NEW w \in Workers, WorkerStep(w)
  PROVE  ActiveJobsAreOwned'
<1> DEFINE k == worker[w].job
<1>0. worker[w] \in Task /\ TaskOK(worker[w]) /\ job \in [Jobs -> JobStatus]
  BY DEF TypeOK, TaskInv
<1>1. ASSUME NEW p, NEW s, SetJob(w, s)
      PROVE  /\ \A j \in Jobs : j # k => job'[j] = job[j]
             /\ k \in Jobs => job'[k] = Saved(job[k], worker[w].seenJob, s)
  BY <1>0, <1>1 DEF SetJob
<1>2. ASSUME NEW j \in Jobs, NEW p \in {"scan_begin", "import_check", "import_reject"},
             Take(w, j, p)
      PROVE  ActiveJobsAreOwned'
  <2>1. PICK t : t = [Idle EXCEPT !.pc = p, !.job = j, !.seenJob = job[j],
                                  !.seenUpload = upload]
    OBVIOUS
  <2>2. UNCHANGED <<job, request>> /\ worker[w].pc = "idle"
        /\ msgs' = [msgs EXCEPT ![j] = @ - 1]
        /\ \A v \in Workers : v # w => worker'[v] = worker[v]
    BY <1>2 DEF Take, Becomes, TypeOK, dbVars
  <2>3. Active(job[j]) => Executes(worker'[w], j)
    <3> SUFFICES ASSUME Active(job[j]) PROVE Executes(worker'[w], j)
      OBVIOUS
    <3>1. worker'[w] = t
      BY <1>2, <2>1 DEF Take, Becomes, TypeOK, Active, Settled
    <3>2. t.pc = p /\ t.job = j /\ t.seenJob = job[j]
      BY <2>1 DEF Idle
    <3> QED
      BY <3>1, <3>2 DEF Executes, Active
  <2>4. \A i \in Jobs : i # j /\ msgs[i] > 0 => msgs'[i] > 0
    BY <2>2 DEF TypeOK
  <2> SUFFICES ASSUME NEW i \in Jobs, i # j, Active(job[i])
               PROVE  \/ msgs'[i] > 0
                      \/ \E v \in Workers : Executes(worker'[v], i)
                      \/ \E c \in Clients : request[c].pc = "send" /\ request[c].job = i
    BY <2>2, <2>3 DEF ActiveJobsAreOwned
  <2>5. ASSUME NEW v \in Workers, Executes(worker[v], i) PROVE worker'[v] = worker[v]
    BY <2>2, <2>5 DEF Executes
  <2> QED
    BY <2>4, <2>5 DEF ActiveJobsAreOwned
<1>3. CASE TakeAny(w)
  BY <1>2, <1>3, JobFacts DEF TakeAny, TakeScan, TakeImport
<1>4. ASSUME NEW t, Becomes(w, t), UNCHANGED <<msgs, request>>,
             t.pc \notin {"idle", "ack"}, t.job = k, t.seenJob = "running",
             \A j \in Jobs : j # k => job'[j] = job[j]
      PROVE  ActiveJobsAreOwned'
  BY <1>4, TaskOwns DEF Executes
<1>5. ASSUME NEW p \in {"scan_read", "import_begin"}, CheckedCancel(w, p),
             worker[w].pc # "idle", UNCHANGED <<dbVars, msgs, request>>
      PROVE  ActiveJobsAreOwned'
  <2>1. PICK t : t = [worker[w] EXCEPT !.pc = p, !.seenJob = job[k]]
    OBVIOUS
  <2>2. k \in Jobs
    BY <1>0, <1>5 DEF TaskOK
  <2>3. UNCHANGED <<job, msgs, request>>
    BY <1>5 DEF dbVars
  <2>4. CASE job[k] = "cancelled"
    BY <1>5, <2>3, <2>4, TaskOwns DEF CheckedCancel, Active
  <2>5. CASE job[k] # "cancelled"
    <3>1. Becomes(w, t)
      BY <1>5, <2>1, <2>5 DEF CheckedCancel
    <3>2. t.pc = p /\ t.job = k /\ t.seenJob = job[k]
      BY <1>0, <2>1 DEF Task
    <3>3. Active(job[k]) => Executes(t, k)
      BY <3>2 DEF Executes, Active
    <3> QED
      BY <2>3, <3>1, <3>3, TaskOwns
  <2> QED
    BY <2>4, <2>5
\* A task that ends its job, or finds that it has loaded the end itself.
<1>6. ASSUME NEW s \in {"succeeded", "failed"}, SetJob(w, s), Becomes(w, Returned(k)),
             UNCHANGED <<msgs, request>>, s = "succeeded" => worker[w].seenJob = "running"
      PROVE  ActiveJobsAreOwned'
  <2>1. \A j \in Jobs : j # k => job'[j] = job[j]
    BY <1>1, <1>6
  <2>2. CASE worker[w].seenJob # s
    BY <1>1, <1>6, <2>1, <2>2, TaskOwns DEF Saved, Active
  <2>3. CASE worker[w].seenJob = s
    BY <1>1, <1>6, <2>1, <2>3, TaskOwns DEF Saved, Executes
  <2> QED
    BY <2>2, <2>3
<1>7. CASE ScanStep(w)
  <2>1. CASE ScanBegin(w)
    <3>1. PICK t : t = [worker[w] EXCEPT !.pc = "scan_check", !.seenJob = "running",
                                         !.seenUpload = "scanning"]
      OBVIOUS
    <3>2. t.pc = "scan_check" /\ t.job = k /\ t.seenJob = "running"
      BY <1>0, <3>1 DEF Task
    <3>3. Becomes(w, t) /\ SetJob(w, "running") /\ UNCHANGED <<msgs, request>>
      BY <2>1, <3>1 DEF ScanBegin
    <3> QED
      BY <1>1, <1>4, <3>2, <3>3
  <2>2. CASE ScanCheck(w)
    BY <1>5, <2>2 DEF ScanCheck
  <2>3. CASE ScanRead(w)
    <3>1. PICK t : t = [worker[w] EXCEPT !.pc = "scan_finish", !.seenJob = "running"]
      OBVIOUS
    <3>2. t.pc = "scan_finish" /\ t.job = k /\ t.seenJob = "running"
      BY <1>0, <3>1 DEF Task
    <3>3. Becomes(w, t) /\ SetJob(w, "running") /\ UNCHANGED <<msgs, request>>
      BY <2>3, <3>1 DEF ScanRead
    <3> QED
      BY <1>1, <1>4, <3>2, <3>3
  <2>4. CASE ScanFinish(w)
    BY <1>0, <1>6, <2>4 DEF ScanFinish, TaskOK
  <2> QED
    BY <1>7, <2>1, <2>2, <2>3, <2>4 DEF ScanStep
<1>8. CASE ScanFail(w)
  BY <1>6, <1>8 DEF ScanFail
<1>9. CASE ImportReject(w)
  BY <1>6, <1>9 DEF ImportReject
<1>10. CASE ImportCheck(w)
  BY <1>5, <1>10 DEF ImportCheck
<1>11. CASE ImportBegin(w)
  <2>1. PICK t : t = [worker[w] EXCEPT !.pc = "import_load", !.seenJob = "running"]
    OBVIOUS
  <2>2. t.pc = "import_load" /\ t.job = k /\ t.seenJob = "running"
    BY <1>0, <2>1 DEF Task
  <2>3. Becomes(w, t) /\ SetJob(w, "running") /\ UNCHANGED <<msgs, request>>
    BY <1>11, <2>1 DEF ImportBegin
  <2> QED
    BY <1>1, <1>4, <2>2, <2>3
<1>12. CASE ImportLoad(w) \/ ImportSkip(w) \/ ImportSample(w)
  <2>1. PICK t : worker' = [worker EXCEPT ![w] = t]
    BY <1>12 DEF ImportLoad, ImportSkip, ImportSample, Becomes
  <2>2. worker[w].seenJob = "running" /\ UNCHANGED <<job, msgs, request>>
    BY <1>0, <1>12 DEF ImportLoad, ImportSkip, ImportSample, InLoop, TaskOK, dbVars
  <2>3. worker'[w].job = k /\ worker'[w].seenJob = "running"
        /\ worker'[w].pc \in {"import_loop", "import_flush"}
    <3>1. CASE ImportLoad(w)
      BY <1>0, <2>2, <3>1 DEF ImportLoad, Becomes, TypeOK, Task
    <3>2. CASE ImportSkip(w)
      BY <1>0, <2>2, <3>2 DEF ImportSkip, InLoop, Becomes, TypeOK, Task
    <3>3. CASE ImportSample(w)
      BY <1>0, <2>2, <3>3 DEF ImportSample, InLoop, Becomes, TypeOK, Task
    <3> QED
      BY <1>12, <3>1, <3>2, <3>3
  <2>4. worker'[w] = t
    BY <2>1 DEF TypeOK
  <2> QED
    BY <1>4, <2>1, <2>2, <2>3, <2>4 DEF Becomes
<1>13. CASE ImportFlush(w)
  <2>1. PICK t : t = [worker[w] EXCEPT
                        !.pc = "import_loop", !.next = @ + 1,
                        !.pending = {}, !.pendingAssets = {},
                        !.knownAssets = @ \cup worker[w].pendingAssets]
    OBVIOUS
  <2>2. k \in Jobs /\ worker[w].seenJob = "running" /\ UNCHANGED <<msgs, request>>
    BY <1>0, <1>13 DEF ImportFlush, AfterFlush, Flushed, JobCancelled, TaskOK
  <2>3. \A j \in Jobs : j # k => job'[j] = job[j]
    BY <1>0, <1>13 DEF ImportFlush, AfterFlush, Flushed, JobCancelled
  <2>4. CASE job[k] = "cancelled"
    <3>1. Becomes(w, Returned(k)) /\ job'[k] = "cancelled"
      BY <1>0, <1>13, <2>4 DEF ImportFlush, AfterFlush, Flushed, JobCancelled
    <3> QED
      BY <2>2, <2>3, <3>1, TaskOwns DEF Active
  <2>5. CASE job[k] # "cancelled"
    <3>1. Becomes(w, t)
      BY <1>13, <2>1, <2>5 DEF ImportFlush, AfterFlush, Flushed, JobCancelled
    <3>2. t.pc = "import_loop" /\ t.job = k /\ t.seenJob = "running"
      BY <1>0, <2>1, <2>2 DEF Task
    <3> QED
      BY <1>4, <2>2, <2>3, <3>1, <3>2
  <2> QED
    BY <2>4, <2>5
<1>14. CASE ImportFinish(w)
  BY <1>0, <1>6, <1>14 DEF ImportFinish, LoopDone, TaskOK
<1>15. CASE ImportFail(w)
  <2>1. (\A j \in Jobs : j # k => job'[j] = job[j]) /\ (k \in Jobs => job'[k] = "failed")
    BY <1>0, <1>15 DEF ImportFail
  <2>2. Becomes(w, Returned(k)) /\ UNCHANGED <<msgs, request>>
    BY <1>15 DEF ImportFail
  <2> QED
    BY <2>1, <2>2, TaskOwns DEF Active
<1>16. CASE Ack(w)
  <2>1. Becomes(w, Idle) /\ UNCHANGED <<job, msgs, request>> /\ ~Executes(worker[w], k)
    BY <1>16 DEF Ack, dbVars, Executes
  <2> QED
    BY <2>1, TaskOwns
<1>17. CASE WorkerCrash(w) \/ Redeliver(w)
  <2>1. k \in Jobs /\ msgs' = [msgs EXCEPT ![k] = @ + 1] /\ UNCHANGED <<job, request>>
    BY <1>0, <1>17 DEF WorkerCrash, Redeliver, Requeued, TaskOK, dbVars
  <2>2. msgs'[k] > 0 /\ \A j \in Jobs : msgs[j] > 0 => msgs'[j] > 0
    BY <2>1 DEF TypeOK
  <2>3. \A v \in Workers : v # w => worker'[v] = worker[v]
    BY <1>17 DEF WorkerCrash, Redeliver, Becomes, TypeOK
  <2>4. \A j \in Jobs : Executes(worker[w], j) => j = k
    BY DEF Executes
  <2> QED
    BY <2>1, <2>2, <2>3, <2>4 DEF ActiveJobsAreOwned
<1> QED
  BY <1>3, <1>7, <1>8, <1>9, <1>10, <1>11, <1>12, <1>13, <1>14, <1>15, <1>16, <1>17
     DEF WorkerStep, ImportStep

\* No job is active at first.
LEMMA InitOwned == Init => ActiveJobsAreOwned
BY DEF Init, ActiveJobsAreOwned, Active

\* Every step leaves each active job with an owner.
LEMMA OwnedStep ==
  ASSUME ~ApiMayDie, TypeOK, TaskInv, ActiveJobsAreOwned, [Next]_vars
  PROVE  ActiveJobsAreOwned'
<1>1. CASE Next
  BY <1>1, RequestOwns, WorkerOwns DEF Next
<1>2. CASE UNCHANGED vars
  BY <1>2 DEF vars, dbVars, ActiveJobsAreOwned, Active, Executes
<1> QED
  BY <1>1, <1>2

\* While the API process survives its requests, a job shown as queued or running
\* always has somebody to end it, however often workers die or messages return.
THEOREM NoJobIsAbandoned ==
  ASSUME ~ApiMayDie
  PROVE  Spec => []ActiveJobsAreOwned
<1>1. TypeOK /\ TaskInv /\ ActiveJobsAreOwned /\ [Next]_vars => ActiveJobsAreOwned'
  BY OwnedStep
<1> QED
  BY <1>1, InitOwned, TypeCorrect, PTL DEF Spec

-----------------------------------------------------------------------------
(* A session shown as `importing' has an active import job.  The witness is *)
(* the job confirmed last: since its confirmation the session has been      *)
(* `importing' without interruption, so that whoever handles the job has    *)
(* loaded that status and takes the session along when it ends.             *)

\* Nothing has happened yet.
LEMMA InitSession == Init => SessionInv
<1> SUFFICES ASSUME Init PROVE SessionInv
  OBVIOUS
<1>1. job[FirstScan] = "pending" /\ upload = "created" /\ \A j \in Jobs : msgs[j] = 0
  BY JobFacts DEF Init
<1>2. \A w \in Workers : worker[w].job = NoJob
  BY DEF Init, Idle
<1>3. \A c \in Clients : request[c].job = NoJob /\ request[c].pc = "idle"
  BY DEF Init, NoRequest
<1>4. RowInv
  BY <1>1, <1>2, <1>3, JobFacts DEF RowInv
<1>5. FreshInv
  BY <1>3 DEF FreshInv
<1> QED
  BY <1>1, <1>4, <1>5 DEF SessionInv

-----------------------------------------------------------------------------
(* Requests.                                                                *)

\* A request that goes on to r, where r knows of no more jobs than before, or of
\* one that has a row or is fresh, keeps the jobs without a row to themselves.
LEMMA RequestKeepsRows ==
  ASSUME TypeOK, RowInv, FreshInv, NEW c \in Clients, NEW r, Holds(c, r), worker' = worker,
         \A j \in Jobs : job'[j] = "absent" => job[j] = "absent" /\ msgs'[j] = msgs[j],
         \A j \in Jobs : job[j] = "absent" /\ j # request[c].job => job'[j] = "absent",
         r.job \in {request[c].job, NoJob} \/ (r.job \in Jobs /\ job[r.job] # "absent")
           \/ (r.job \in Jobs /\ Fresh(r.job)),
         r.job \in Jobs /\ job'[r.job] = "absent" => r.pc \in {"confirm", "rescan"},
         r.pc = "confirm" => r.job \in ImportJobs /\ Fresh(r.job) /\ job' = job,
         r.pc = "rescan" => r.job \in Rescans
  PROVE  RowInv' /\ FreshInv'
<1>1. request'[c] = r /\ \A d \in Clients : d # c => request'[d] = request[d]
  BY DEF Holds, TypeOK
<1>2. RowInv'
  BY <1>1, JobFacts DEF RowInv
<1>4. \A d \in Clients : request'[d].pc = "rescan" => request'[d].job \in Rescans
  BY <1>1 DEF FreshInv
<1>3. ASSUME NEW d \in Clients, request'[d].pc = "confirm"
      PROVE  /\ request'[d].job \in ImportJobs
             /\ job'[request'[d].job] = "absent"
             /\ \A e \in Clients : e # d => request'[e].job # request'[d].job
  <2>1. CASE d = c
    BY <1>1, <1>3, <2>1 DEF Fresh
  <2>2. CASE d # c
    <3>1. request[d].pc = "confirm" /\ request'[d] = request[d]
      BY <1>1, <1>3, <2>2
    <3>2. request[d].job \in ImportJobs /\ job[request[d].job] = "absent"
          /\ \A e \in Clients : e # d => request[e].job # request[d].job
      BY <3>1 DEF FreshInv
    <3>3. request[c].job # request[d].job /\ request[d].job # NoJob
      BY <2>2, <3>2, JobFacts
    <3>4. r.job # request[d].job
      BY <3>2, <3>3 DEF Fresh
    <3> QED
      BY <1>1, <2>2, <3>1, <3>2, <3>3, <3>4, JobFacts
  <2> QED
    BY <2>1, <2>2
<1> QED
  BY <1>2, <1>3, <1>4 DEF FreshInv

\* The import is carried on by the same job as before.
LEMMA RequestKeepsCarrier ==
  ASSUME TypeOK, NEW c \in Clients, NEW r, Holds(c, r), worker' = worker,
         NEW i \in ImportJobs, Carries(i), Active(job'[i]),
         r.pc = "cancel" /\ r.job = i => r.upload = "importing"
  PROVE  Carries(i)'
<1>1. request'[c] = r /\ \A d \in Clients : d # c => request'[d] = request[d]
  BY DEF Holds, TypeOK
<1> QED
  BY <1>1 DEF Carries, SeesImporting

\* Requests keep the session invariant.
LEMMA RequestSession ==
  ASSUME TypeOK, TaskInv, SessionInv, NEW c \in Clients, RequestStep(c)
  PROVE  SessionInv'
<1> USE JobFacts
<1>k. PICK k : k = request[c].job
  OBVIOUS
<1>0. /\ RowInv /\ FreshInv /\ job \in [Jobs -> JobStatus] /\ msgs \in [Jobs -> Nat]
      /\ upload = "importing" => \E i \in ImportJobs : Carries(i)
      /\ request[c].pc # "idle" => k \in Jobs
      /\ NoRequest.job = NoJob /\ NoRequest.pc = "idle"
  BY <1>k DEF SessionInv, TypeOK, TaskInv, NoRequest
<1>1. ASSUME NEW r, Holds(c, r), UNCHANGED <<worker, job, upload>>,
             \A j \in Jobs : job[j] = "absent" => msgs'[j] = msgs[j],
             r.job \in {k, NoJob} \/ (r.job \in Jobs /\ job[r.job] # "absent")
               \/ (r.job \in Jobs /\ Fresh(r.job)),
             r.job \in Jobs /\ job[r.job] = "absent" => r.pc \in {"confirm", "rescan"},
             r.pc = "confirm" => r.job \in ImportJobs /\ Fresh(r.job),
             r.pc = "rescan" => r.job \in Rescans,
             r.pc = "cancel" => r.upload = upload
      PROVE  SessionInv'
  <2>1. RowInv' /\ FreshInv'
    BY <1>k, <1>0, <1>1, RequestKeepsRows
  <2>2. ASSUME NEW i \in ImportJobs, Carries(i), upload = "importing" PROVE Carries(i)'
    BY <1>1, <2>2, RequestKeepsCarrier DEF Carries
  <2> QED
    BY <1>0, <1>1, <2>1, <2>2 DEF SessionInv
\* A commit that assigns job h.
<1>2. ASSUME NEW r, Holds(c, r), UNCHANGED <<worker, msgs>>, NEW h \in Jobs,
             h = k \/ job[h] # "absent",
             r.job \in {h, NoJob}, r.pc \in {"idle", "send"},
             \A j \in Jobs : j # h => job'[j] = job[j], job'[h] # "absent",
             upload' = "importing" =>
               \/ upload = "importing" /\ ~(h \in ImportJobs /\ Carries(h))
               \/ request[c].pc = "confirm" /\ h = k /\ job'[h] = "queued"
      PROVE  SessionInv'
  <2>1. RowInv' /\ FreshInv'
    BY <1>k, <1>0, <1>2, RequestKeepsRows
  <2>2. ASSUME NEW i \in ImportJobs, Carries(i), i # h PROVE Carries(i)'
    <3>1. job'[i] = job[i] /\ Active(job[i])
      BY <1>2, <2>2 DEF Carries
    <3> QED
      BY <1>2, <2>2, <3>1, RequestKeepsCarrier
  <2>3. ASSUME request[c].pc = "confirm", h = k, job'[h] = "queued"
        PROVE  h \in ImportJobs /\ Carries(h)'
    <3>1. h \in ImportJobs /\ (\A w \in Workers : worker[w].job # h)
          /\ \A d \in Clients : d # c => request[d].job # h
      BY <1>k, <1>0, <2>3 DEF FreshInv, RowInv
    <3>2. request'[c] = r /\ \A d \in Clients : d # c => request'[d] = request[d]
      BY <1>2 DEF Holds, TypeOK
    <3> QED
      BY <1>2, <2>3, <3>1, <3>2 DEF Carries, Active
  <2> QED
    BY <1>0, <1>2, <2>1, <2>2, <2>3 DEF SessionInv
<1>3. CASE CompleteRead(c)
  <2>1. PICK r : r = [NoRequest EXCEPT !.pc = "complete", !.job = FirstScan]
    OBVIOUS
  <2>2. r.pc = "complete" /\ r.job = FirstScan
    BY <2>1 DEF NoRequest
  <2> QED
    BY <1>0, <1>1, <1>3, <2>1, <2>2 DEF CompleteRead, Begin, dbVars, RowInv
<1>4. CASE CompleteCommit(c)
  <2>1. PICK r : r = [NoRequest EXCEPT !.pc = "send", !.job = FirstScan]
    OBVIOUS
  <2>2. r.pc = "send" /\ r.job = FirstScan
    BY <2>1 DEF NoRequest
  <2>3. Holds(c, r) /\ UNCHANGED <<worker, msgs>> /\ upload' # "importing"
    BY <1>4, <2>1 DEF CompleteCommit, ThenSend
  <2>4. job'[FirstScan] = "queued" /\ \A j \in Jobs : j # FirstScan => job'[j] = job[j]
    BY <1>0, <1>4 DEF CompleteCommit
  <2>5. job[FirstScan] # "absent"
    BY <1>0 DEF RowInv
  <2> QED
    BY <1>2, <2>2, <2>3, <2>4, <2>5
<1>5. ASSUME NEW i \in ImportJobs, ConfirmRead(c, i) PROVE SessionInv'
  <2>1. PICK r : r = [NoRequest EXCEPT !.pc = "confirm", !.job = i]
    OBVIOUS
  <2>2. r.pc = "confirm" /\ r.job = i
    BY <2>1 DEF NoRequest
  <2> QED
    BY <1>0, <1>1, <1>5, <2>1, <2>2 DEF ConfirmRead, Begin, dbVars
<1>6. CASE ConfirmCommit(c)
  <2>1. PICK r : r = [NoRequest EXCEPT !.pc = "send", !.job = k]
    OBVIOUS
  <2>2. r.pc = "send" /\ r.job = k
    BY <2>1 DEF NoRequest
  <2>3. job' = [job EXCEPT ![k] = "queued"] /\ k \in Jobs
    BY <1>k, <1>0, <1>6 DEF ConfirmCommit
  <2>4. Holds(c, r) /\ UNCHANGED <<worker, msgs>> /\ request[c].pc = "confirm"
    BY <1>k, <1>6, <2>1 DEF ConfirmCommit, ThenSend
  <2>5. job'[k] = "queued" /\ \A j \in Jobs : j # k => job'[j] = job[j]
    BY <1>0, <2>3
  <2> QED
    BY <1>2, <2>2, <2>3, <2>4, <2>5
<1>7. ASSUME NEW j \in Jobs, CancelRead(c, j) PROVE SessionInv'
  <2>1. PICK r : r = [pc |-> "cancel", job |-> j, upload |-> upload, batch |-> batch]
    OBVIOUS
  <2> QED
    BY <1>0, <1>1, <1>7, <2>1 DEF CancelRead, Begin, dbVars, Cancellable
<1>8. CASE CancelCommit(c)
  <2>1. job' = [job EXCEPT ![k] = "cancelled"] /\ k \in Jobs /\ request[c].pc = "cancel"
    BY <1>k, <1>0, <1>8 DEF CancelCommit
  <2>2. ASSUME upload' = "importing" PROVE upload = "importing" /\ request[c].upload # "importing"
    BY <1>8, <2>2 DEF CancelCommit, CancelledSession, Saved, SessionOver
  <2>3. ~(upload' = "importing" /\ k \in ImportJobs /\ Carries(k))
    BY <1>k, <2>1, <2>2 DEF Carries
  <2> QED
    BY <1>0, <1>2, <1>8, <2>1, <2>2, <2>3 DEF CancelCommit
<1>9. ASSUME NEW i \in Rescans, RescanRead(c, i) PROVE SessionInv'
  <2>1. PICK r : r = [pc |-> "rescan", job |-> i, upload |-> upload, batch |-> batch]
    OBVIOUS
  <2> QED
    BY <1>0, <1>1, <1>9, <2>1 DEF RescanRead, Begin, dbVars
<1>10. CASE RescanCommit(c)
  <2>1. PICK r : r = [NoRequest EXCEPT !.pc = "send", !.job = k]
    OBVIOUS
  <2>2. r.pc = "send" /\ r.job = k
    BY <2>1 DEF NoRequest
  <2>3. job' = [job EXCEPT ![k] = "queued"] /\ k \in Jobs /\ k \notin ImportJobs
    BY <1>k, <1>0, <1>10, JobsAssumption DEF RescanCommit, FreshInv
  <2>4. Holds(c, r) /\ UNCHANGED <<worker, msgs>>
    BY <1>k, <1>10, <2>1 DEF RescanCommit, ThenSend
  <2>5. job'[k] = "queued" /\ \A j \in Jobs : j # k => job'[j] = job[j]
    BY <1>0, <2>3
  <2>6. upload' = "importing" => upload = "importing"
    BY <1>10 DEF RescanCommit, Saved
  <2> QED
    BY <1>2, <2>2, <2>3, <2>4, <2>5, <2>6
<1>11. CASE Send(c)
  <2>1. k \in Jobs /\ request[c].pc = "send" /\ msgs' = [msgs EXCEPT ![k] = @ + 1]
    BY <1>k, <1>0, <1>11 DEF Send
  <2>2. job[k] # "absent"
    BY <1>k, <1>0, <2>1 DEF RowInv
  <2> QED
    BY <1>0, <1>1, <1>11, <2>1, <2>2 DEF Send, dbVars
<1>12. CASE ApiDies(c)
  BY <1>0, <1>1, <1>12 DEF ApiDies, dbVars
<1> QED
  BY <1>3, <1>4, <1>5, <1>6, <1>7, <1>8, <1>9, <1>10, <1>11, <1>12 DEF RequestStep

-----------------------------------------------------------------------------
(* Workers.                                                                 *)

\* Slot w goes on to t.  It knows its job and no other, and if it saw the session
\* as `importing' and keeps it so, its job stays active and in good hands.
LEMMA TaskSession ==
  ASSUME TypeOK, TaskInv, SessionInv, NEW w \in Workers, NEW t, Becomes(w, t),
         worker[w].pc # "idle", request' = request,
         NEW k, k = worker[w].job, t.job \in {k, NoJob},
         \A j \in Jobs : j # k => job'[j] = job[j] /\ msgs'[j] = msgs[j],
         job'[k] # "absent",
         upload' = "importing" => upload = "importing",
         upload' = "importing" /\ Active(job[k]) /\ SeesImporting(worker[w])
           => Active(job'[k]) /\ (t.job = k => SeesImporting(t))
  PROVE  SessionInv'
<1> USE JobFacts
<1>1. worker'[w] = t /\ \A v \in Workers : v # w => worker'[v] = worker[v]
  BY DEF Becomes, TypeOK
<1>2. k \in Jobs /\ job[k] # "absent"
  BY DEF TaskInv, TaskOK, SessionInv, RowInv
<1>3. RowInv'
  BY <1>1, <1>2 DEF SessionInv, RowInv
<1>4. FreshInv'
  <2> SUFFICES ASSUME NEW c \in Clients, request[c].pc = "confirm"
               PROVE  job'[request[c].job] = "absent"
    BY DEF SessionInv, FreshInv
  <2>1. request[c].job \in ImportJobs /\ job[request[c].job] = "absent"
    BY DEF SessionInv, FreshInv
  <2> QED
    BY <1>2, <2>1
<1>5. ASSUME NEW i \in ImportJobs, Carries(i), upload' = "importing" PROVE Carries(i)'
  <2>1. Active(job[i]) /\ \A v \in Workers : worker[v].job = i => SeesImporting(worker[v])
    BY <1>5 DEF Carries
  <2>2. Active(job'[i])
    BY <1>5, <2>1
  <2>3. ASSUME NEW v \in Workers, worker'[v].job = i PROVE SeesImporting(worker'[v])
    BY <1>1, <1>5, <2>1, <2>3
  <2> QED
    BY <1>5, <2>2, <2>3 DEF Carries, SeesImporting
<1> QED
  BY <1>3, <1>4, <1>5 DEF SessionInv

\* A delivery: a job that has a row, seen with the session's status.
LEMMA TakeSession ==
  ASSUME TypeOK, TaskInv, SessionInv, NEW w \in Workers, TakeAny(w)
  PROVE  SessionInv'
<1> USE JobFacts
<1>1. PICK j \in Jobs, p \in {"scan_begin", "import_check", "import_reject"} :
        /\ Take(w, j, p)
        /\ j \in ImportJobs /\ upload = "importing" => p = "import_check"
  BY JobsAssumption DEF TakeAny, TakeScan, TakeImport, ScanJobs
<1>2. /\ msgs[j] > 0 /\ UNCHANGED <<dbVars, request>>
      /\ msgs' = [msgs EXCEPT ![j] = @ - 1]
      /\ \A v \in Workers : v # w => worker'[v] = worker[v]
  BY <1>1 DEF Take, Becomes, TypeOK
<1>3. \/ worker'[w].job = NoJob
      \/ worker'[w].job = j /\ worker'[w].pc = p /\ worker'[w].seenUpload = upload
  <2>1. PICK t : t = [Idle EXCEPT !.pc = p, !.job = j, !.seenJob = job[j],
                                  !.seenUpload = upload]
    OBVIOUS
  <2>2. t.job = j /\ t.pc = p /\ t.seenUpload = upload
    BY <2>1 DEF Idle
  <2>3. worker'[w] = Idle \/ worker'[w] = t
    BY <1>1, <2>1 DEF Take, Becomes, TypeOK
  <2> QED
    BY <2>2, <2>3 DEF Idle
<1>4. job[j] # "absent"
  BY <1>2 DEF SessionInv, RowInv
<1>5. \A i \in Jobs : msgs[i] = 0 => msgs'[i] = 0
  BY <1>2 DEF TypeOK
<1>6. RowInv'
  BY <1>2, <1>3, <1>4, <1>5 DEF SessionInv, RowInv, dbVars
<1>7. FreshInv'
  BY <1>2 DEF SessionInv, FreshInv, dbVars
<1>8. ASSUME NEW i \in ImportJobs, Carries(i), upload = "importing" PROVE Carries(i)'
  <2>1. ASSUME NEW v \in Workers, worker'[v].job = i PROVE SeesImporting(worker'[v])
    <3>1. CASE v = w
      BY <1>1, <1>3, <1>8, <2>1, <3>1 DEF SeesImporting, ScanSteps
    <3>2. CASE v # w
      BY <1>2, <1>8, <2>1, <3>2 DEF Carries
    <3> QED
      BY <3>1, <3>2
  <2> QED
    BY <1>2, <1>8, <2>1 DEF Carries, SeesImporting, dbVars
<1> QED
  BY <1>2, <1>6, <1>7, <1>8 DEF SessionInv, dbVars

\* Workers keep the session invariant.
LEMMA WorkerSession ==
  ASSUME TypeOK, TaskInv, SessionInv, NEW w \in Workers, WorkerStep(w)
  PROVE  SessionInv'
<1> USE JobFacts
<1>k. PICK k : k = worker[w].job
  OBVIOUS
<1>0. /\ worker[w] \in Task /\ job \in [Jobs -> JobStatus] /\ msgs \in [Jobs -> Nat]
      /\ worker[w].pc # "idle" => k \in Jobs /\ job[k] # "absent"
      /\ Idle.job = NoJob
      /\ Returned(k).job = k /\ SeesImporting(Returned(k))
  BY <1>k DEF TypeOK, TaskInv, TaskOK, SessionInv, RowInv, Idle, Returned, SeesImporting,
              ScanSteps, ImportSteps
\* What a task does that leaves messages and requests alone.
<1>1. ASSUME NEW t, Becomes(w, t), UNCHANGED <<msgs, request>>, worker[w].pc # "idle",
             t.job = k, \A j \in Jobs : j # k => job'[j] = job[j], job'[k] # "absent",
             upload' = "importing" => upload = "importing",
             upload' = "importing" /\ Active(job[k]) /\ SeesImporting(worker[w])
               => Active(job'[k]) /\ SeesImporting(t)
      PROVE  SessionInv'
  BY <1>k, <1>1, TaskSession
<1>2. ASSUME NEW s \in JobStatus \ {"absent"}, SetJob(w, s), worker[w].pc # "idle"
      PROVE  /\ \A j \in Jobs : j # k => job'[j] = job[j]
             /\ job'[k] \in {job[k], s} /\ job'[k] # "absent"
  BY <1>k, <1>0, <1>2 DEF SetJob, Saved
<1>3. ASSUME worker[w].pc \in ScanSteps \cup {"import_reject"} PROVE ~SeesImporting(worker[w])
  BY <1>3 DEF SeesImporting
<1>4. CASE ScanBegin(w)
  <2>1. PICK t : t = [worker[w] EXCEPT !.pc = "scan_check", !.seenJob = "running",
                                       !.seenUpload = "scanning"]
    OBVIOUS
  <2>2. t.job = k /\ worker[w].pc = "scan_begin"
    BY <1>k, <1>0, <1>4, <2>1 DEF ScanBegin, Task
  <2>3. Becomes(w, t) /\ SetJob(w, "running") /\ UNCHANGED <<msgs, request>>
        /\ (upload' = "importing" => upload = "importing")
    BY <1>4, <2>1 DEF ScanBegin, Saved
  <2> QED
    BY <1>1, <1>2, <1>3, <2>2, <2>3 DEF ScanSteps, JobStatus
<1>5. ASSUME NEW p, NEW q, worker[w].pc = p, p # "idle", q \notin ScanSteps \cup {"import_reject"}
                \/ p \in ScanSteps,
             CheckedCancel(w, q), UNCHANGED <<dbVars, msgs, request>>,
             q \in ImportSteps => p \in ImportSteps
      PROVE  SessionInv'
  <2>1. PICK t : t = IF job[k] = "cancelled" THEN Returned(k)
                     ELSE [worker[w] EXCEPT !.pc = q, !.seenJob = job[k]]
    OBVIOUS
  <2>2. t.job = k /\ Becomes(w, t)
    BY <1>k, <1>0, <1>5, <2>1 DEF CheckedCancel, Task
  <2>3. SeesImporting(worker[w]) => SeesImporting(t)
    BY <1>0, <1>5, <2>1 DEF SeesImporting, Task
  <2> QED
    BY <1>0, <1>1, <1>5, <2>2, <2>3 DEF dbVars
<1>6. CASE ScanCheck(w)
  BY <1>5, <1>6 DEF ScanCheck, ScanSteps, ImportSteps
<1>7. CASE ScanRead(w)
  <2>1. PICK t : t = [worker[w] EXCEPT !.pc = "scan_finish", !.seenJob = "running"]
    OBVIOUS
  <2>2. t.job = k /\ worker[w].pc = "scan_read"
    BY <1>k, <1>0, <1>7, <2>1 DEF ScanRead, Task
  <2>3. Becomes(w, t) /\ SetJob(w, "running") /\ UNCHANGED <<msgs, request, upload>>
    BY <1>7, <2>1 DEF ScanRead
  <2> QED
    BY <1>1, <1>2, <1>3, <2>2, <2>3 DEF ScanSteps, JobStatus
<1>8. CASE ScanFinish(w)
  BY <1>k, <1>0, <1>1, <1>2, <1>3, <1>8 DEF ScanFinish, ScanSteps, JobStatus
<1>9. CASE ScanFail(w)
  <2>1. upload' = "importing" => upload = "importing"
    BY <1>9 DEF ScanFail, Saved
  <2> QED
    BY <1>k, <1>0, <1>1, <1>2, <1>3, <1>9, <2>1 DEF ScanFail, ScanSteps, JobStatus
<1>10. CASE ImportReject(w)
  BY <1>k, <1>0, <1>1, <1>2, <1>3, <1>10 DEF ImportReject, JobStatus
<1>11. CASE ImportCheck(w)
  BY <1>5, <1>11 DEF ImportCheck, ScanSteps, ImportSteps
\* The steps of an import that goes on.
<1>12. ASSUME NEW t, Becomes(w, t), UNCHANGED <<msgs, request, upload>>,
              worker[w].pc \in ImportSteps, t.job = k, t.pc \in ImportSteps,
              t.seenUpload = worker[w].seenUpload,
              \A j \in Jobs : j # k => job'[j] = job[j], job'[k] \in {job[k], "running"}
       PROVE  SessionInv'
  <2>1. worker[w].pc # "idle" /\ t.pc \notin ScanSteps \cup {"import_reject"}
    BY <1>12 DEF ImportSteps, ScanSteps
  <2> QED
    BY <1>0, <1>1, <1>12, <2>1 DEF SeesImporting, Active
<1>13. CASE ImportBegin(w)
  <2>1. PICK t : t = [worker[w] EXCEPT !.pc = "import_load", !.seenJob = "running"]
    OBVIOUS
  <2>2. t.job = k /\ t.pc = "import_load" /\ t.seenUpload = worker[w].seenUpload
    BY <1>k, <1>0, <2>1 DEF Task
  <2>3. Becomes(w, t) /\ SetJob(w, "running") /\ UNCHANGED <<msgs, request, upload>>
        /\ worker[w].pc = "import_begin"
    BY <1>13, <2>1 DEF ImportBegin
  <2> QED
    BY <1>2, <1>12, <2>2, <2>3 DEF ImportSteps, JobStatus
<1>14. CASE ImportLoad(w)
  <2>1. PICK t : t = [worker[w] EXCEPT !.pc = "import_loop", !.seenBatch = batch,
                                       !.known = rows, !.knownAssets = assetRows]
    OBVIOUS
  <2>2. t.job = k /\ t.pc = "import_loop" /\ t.seenUpload = worker[w].seenUpload
    BY <1>k, <1>0, <2>1 DEF Task
  <2> QED
    BY <1>12, <1>14, <2>1, <2>2 DEF ImportLoad, ImportSteps, dbVars
<1>15. CASE ImportSkip(w)
  <2>1. PICK t : t = [worker[w] EXCEPT !.next = @ + 1]
    OBVIOUS
  <2>2. t.job = k /\ t.pc = worker[w].pc /\ t.seenUpload = worker[w].seenUpload
    BY <1>k, <1>0, <2>1 DEF Task
  <2> QED
    BY <1>12, <1>15, <2>1, <2>2 DEF ImportSkip, InLoop, ImportSteps, dbVars
<1>16. CASE ImportSample(w)
  <2> DEFINE boundary == AtBoundary(worker[w].next)
  <2>1. PICK t : t = [worker[w] EXCEPT
                        !.pc = IF boundary THEN "import_flush" ELSE "import_loop",
                        !.next = IF boundary THEN @ ELSE @ + 1,
                        !.known = @ \cup {Current(w)}, !.pending = @ \cup {Current(w)},
                        !.pendingAssets = @ \cup Uncached(w, Current(w))]
    OBVIOUS
  <2>2. t.job = k /\ t.pc \in {"import_flush", "import_loop"}
        /\ t.seenUpload = worker[w].seenUpload
    BY <1>k, <1>0, <2>1 DEF Task
  <2>3. Becomes(w, t) /\ UNCHANGED <<msgs, request, upload, job>> /\ worker[w].pc = "import_loop"
    BY <1>16, <2>1 DEF ImportSample, InLoop, dbVars
  <2> QED
    BY <1>12, <2>2, <2>3 DEF ImportSteps
<1>17. CASE ImportFlush(w)
  <2>1. job' = [job EXCEPT ![k] = IF job[k] = "cancelled" THEN @ ELSE "running"]
        /\ UNCHANGED <<msgs, request, upload>> /\ worker[w].pc = "import_flush" /\ k \in Jobs
    BY <1>k, <1>0, <1>17 DEF ImportFlush, AfterFlush, Flushed, JobCancelled
  <2>2. job'[k] \in {job[k], "running"} /\ \A j \in Jobs : j # k => job'[j] = job[j]
    BY <1>0, <2>1
  <2>3. CASE job[k] = "cancelled"
    BY <1>k, <1>0, <1>1, <1>17, <2>1, <2>2, <2>3 DEF ImportFlush, AfterFlush, Flushed, JobCancelled, Active
  <2>4. CASE job[k] # "cancelled"
    <3>1. PICK t : t = [worker[w] EXCEPT !.pc = "import_loop", !.next = @ + 1,
                          !.pending = {}, !.pendingAssets = {},
                          !.knownAssets = @ \cup worker[w].pendingAssets]
      OBVIOUS
    <3>2. t.job = k /\ t.pc = "import_loop" /\ t.seenUpload = worker[w].seenUpload
      BY <1>k, <1>0, <3>1 DEF Task
    <3>3. Becomes(w, t)
      BY <1>k, <1>17, <2>4, <3>1 DEF ImportFlush, AfterFlush, Flushed, JobCancelled
    <3> QED
      BY <1>12, <2>1, <2>2, <3>2, <3>3 DEF ImportSteps
  <2> QED
    BY <2>3, <2>4
<1>18. CASE ImportFinish(w)
  <2>1. worker[w].pc = "import_loop" /\ SetJob(w, "succeeded") /\ UNCHANGED <<msgs, request>>
        /\ Becomes(w, Returned(k)) /\ upload' = Saved(upload, worker[w].seenUpload, "ready")
    BY <1>k, <1>18 DEF ImportFinish, LoopDone
  <2>2. upload' = "importing" => upload = "importing" /\ ~SeesImporting(worker[w])
    BY <2>1 DEF Saved, SeesImporting, ImportSteps
  <2> QED
    BY <1>0, <1>1, <1>2, <2>1, <2>2 DEF JobStatus
<1>19. CASE ImportFail(w)
  <2>1. worker[w].pc # "idle" /\ upload' = "import_failed" /\ UNCHANGED <<msgs, request>>
        /\ Becomes(w, Returned(k)) /\ job' = [job EXCEPT ![k] = "failed"]
    BY <1>k, <1>19 DEF ImportFail, ImportSteps
  <2> QED
    BY <1>0, <1>1, <2>1
\* The broker.
<1>20. ASSUME NEW t \in {Idle, worker[w]}, Becomes(w, t), worker[w].pc # "idle",
              UNCHANGED <<dbVars, request>>,
              \A j \in Jobs : j # k => msgs'[j] = msgs[j]
       PROVE  SessionInv'
  <2>1. t.job \in {k, NoJob} /\ (t.job = k => t = worker[w])
    BY <1>k, <1>0, <1>20
  <2> QED
    BY <1>k, <1>0, <1>20, <2>1, TaskSession DEF dbVars
<1>21. CASE Ack(w)
  BY <1>20, <1>21 DEF Ack
<1>22. CASE WorkerCrash(w)
  BY <1>k, <1>0, <1>20, <1>22 DEF WorkerCrash, Requeued
<1>23. CASE Redeliver(w)
  <2>1. Becomes(w, worker[w])
    BY <1>23 DEF Redeliver, Becomes, TypeOK
  <2> QED
    BY <1>k, <1>0, <1>20, <1>23, <2>1 DEF Redeliver, Requeued
<1> QED
  BY <1>4, <1>6, <1>7, <1>8, <1>9, <1>10, <1>11, <1>13, <1>14, <1>15, <1>16, <1>17, <1>18,
     <1>19, <1>21, <1>22, <1>23, TakeSession DEF WorkerStep, ScanStep, ImportStep

-----------------------------------------------------------------------------
\* A step keeps the session invariant.
LEMMA SessionStep ==
  ASSUME TypeOK, TaskInv, SessionInv, [Next]_vars
  PROVE  SessionInv'
<1>1. CASE Next
  BY <1>1, RequestSession, WorkerSession DEF Next
<1>2. CASE UNCHANGED vars
  <2>1. UNCHANGED <<upload, job, msgs, worker, request>>
    BY <1>2 DEF vars, dbVars
  <2>2. \A i : Carries(i)' <=> Carries(i)
    BY <2>1 DEF Carries, SeesImporting
  <2> QED
    BY <2>1, <2>2 DEF SessionInv, RowInv, FreshInv
<1> QED
  BY <1>1, <1>2

\* Whatever is confirmed twice, cancelled, rescanned, crashed or redelivered, a
\* session is never left `importing' without an import job that is under way.
THEOREM ImportingIsUnderWay == Spec => []ImportingHasActiveImport
<1>1. TypeOK /\ TaskInv /\ SessionInv /\ [Next]_vars => SessionInv'
  BY SessionStep
<1>2. SessionInv => ImportingHasActiveImport
  BY DEF SessionInv, ImportingHasActiveImport, Carries
<1> QED
  BY <1>1, <1>2, InitSession, TypeCorrect, PTL DEF Spec

-----------------------------------------------------------------------------
(* The pipeline implements BatchedImport.                                   *)

\* What the outside sees of a pipeline.
seen == <<rows, indexRows, version = "ready">>

\* A quiet step shows nothing.
LEMMA QuietShowsNothing == Quiet => UNCHANGED seen
BY DEF Quiet, dataVars, seen

\* Both modules count the entries of the manifest alike.
LEMMA SameLeading == \A k : Promised!Leading(k) = Leading(k)
BY DEF Promised!Leading, Leading

\* Every step of a worker is a step of the promise, or shows nothing.
LEMMA WorkerShows ==
  ASSUME TypeOK, TaskInv, DataInv, IndexInv, NEW w \in Workers, WorkerStep(w)
  PROVE  Promised!Next \/ UNCHANGED seen
<1>0. worker[w].next \in 1..(Len(Manifest) + 1)
      /\ (worker[w].pc = "import_flush" => worker[w].next <= Len(Manifest))
  BY ManifestFacts DEF TypeOK, TaskInv, TaskOK, Task
<1>1. Importing(worker[w]) => LoopOK(worker[w]) /\ PrefixOK(worker[w])
  BY DEF DataInv, LoopInv, IndexInv, PrefixInv
<1>2. IndexInv' /\ DataInv'
  BY WorkerIndexStep, WorkerDataStep
<1>3. CASE ImportLoad(w) \/ ImportSkip(w) \/ ImportSample(w)
  BY <1>3 DEF ImportLoad, ImportSkip, ImportSample, dbVars, dataVars, seen
<1>4. CASE ImportFlush(w)
  <2>1. rows' = rows \cup worker[w].pending /\ indexRows' = indexRows \cup worker[w].pending
        /\ version' = version /\ worker[w].pc = "import_flush"
        /\ worker[w].pending \cap rows = {}
    BY <1>4 DEF ImportFlush, FlushRows, Conflict
  <2>2. CASE worker[w].pending = {}
    BY <2>1, <2>2 DEF seen
  <2>3. CASE worker[w].pending # {}
    <3>1. LoopOK(worker[w]) /\ PrefixOK(worker[w]) /\ Prefix(rows)
      BY <1>1, <2>1 DEF Importing, IndexInv, PrefixInv
    <3>2. \E k, m \in 0..Len(Manifest) : /\ k < m
                                         /\ rows = Leading(k)
                                         /\ rows \cup worker[w].pending = Leading(m)
      BY <1>0, <2>1, <2>3, <3>1, CommittedPrefix
    <3>3. indexRows' = rows' \cap Counted
      BY <1>2 DEF IndexInv, SamplesAreIndexed
    <3> QED
      BY <2>1, <3>2, <3>3, SameLeading DEF Promised!Next, Promised!Commit
  <2> QED
    BY <2>2, <2>3
<1>5. CASE ImportFinish(w)
  <2>1. rows' = rows \cup worker[w].pending /\ indexRows' = indexRows /\ version' = "ready"
        /\ worker[w].pc = "import_loop" /\ worker[w].next > Len(Manifest)
        /\ worker[w].pending \cap rows = {}
    BY <1>5 DEF ImportFinish, FlushRows, Conflict, LoopDone
  <2>2. worker[w].pending \cap Counted = {}
    BY <1>0, <1>1, <2>1, WhatIsCounted DEF Importing
  <2>3. rows' = Leading(Len(Manifest))
    BY <1>2, <2>1 DEF DataInv, ReadyMeansComplete, ManifestSamples
  <2>4. CASE version = "ready"
    <3>1. rows = Leading(Len(Manifest))
      BY <2>4 DEF DataInv, ReadyMeansComplete, ManifestSamples
    <3> QED
      BY <2>1, <2>3, <2>4, <3>1 DEF seen
  <2>5. CASE version # "ready"
    <3>1. rows' \cap Counted \subseteq rows
      BY <2>1, <2>2
    <3> QED
      BY <2>1, <2>3, <2>5, <3>1, SameLeading DEF Promised!Next, Promised!Publish
  <2> QED
    BY <2>4, <2>5
<1> QED
  BY <1>3, <1>4, <1>5, QuietWorker, QuietShowsNothing

\* Every step of the pipeline is a step of the promise, or shows nothing.
LEMMA StepShows ==
  ASSUME TypeOK, TaskInv, DataInv, IndexInv, [Next]_vars
  PROVE  [Promised!Next]_(Promised!view)
<1>1. CASE Next
  BY <1>1, QuietRequest, QuietShowsNothing, WorkerShows DEF Next, seen, Promised!view
<1>2. CASE UNCHANGED vars
  BY <1>2, QuietStutter, QuietShowsNothing DEF seen, Promised!view
<1> QED
  BY <1>1, <1>2

\* The created session shows nothing.
LEMMA InitShows == Init => Promised!Init
BY DEF Init, Promised!Init

\* Whatever is crashed, redelivered, cancelled, rescanned or imported twice, those
\* who look at the version see the promise: samples in order and for good, those
\* that count with their index rows, and a version that is published when all of
\* them are there.
THEOREM PipelineKeepsItsPromise == Spec => ImplementsBatchedImport
<1>1. TypeOK /\ TaskInv /\ DataInv /\ IndexInv /\ [Next]_vars => IndexInv'
  BY IndexStep
<1>2. TypeOK /\ TaskInv /\ DataInv /\ IndexInv /\ [Next]_vars
        => [Promised!Next]_(Promised!view)
  BY StepShows
<1> QED
  BY <1>1, <1>2, InitShows, InitIndex, DataCorrect, PTL
     DEF Spec, ImplementsBatchedImport, Promised!Spec

\* The invariant that the others follow from: what every slot, request, message
\* and row is known to be at any moment.
THEOREM InvariantHolds == Spec => []IInv
<1>1. TypeOK /\ TaskInv /\ DataInv /\ IndexInv /\ [Next]_vars => IndexInv'
  BY IndexStep
<1>2. TypeOK /\ TaskInv /\ SessionInv /\ [Next]_vars => SessionInv'
  BY SessionStep
<1>3. TypeOK /\ TaskInv /\ DataInv /\ IndexInv /\ SessionInv => IInv
  BY DEF IInv, DataInv, IndexInv
<1> QED
  BY <1>1, <1>2, <1>3, InitIndex, InitSession, DataCorrect, PTL DEF Spec

=============================================================================
