------------------------- MODULE DatasetUploadsProofs -------------------------
(***************************************************************************)
(* Proofs about DatasetUploads: keys and numbers stay unique however many  *)
(* requests compete, and no job is left without its upload.                *)
(*                                                                         *)
(* Nearly all steps leave alone which uploads exist and how they are       *)
(* numbered and keyed (Kept); what remains is a creation, which the unique *)
(* constraints guard, and the deletion of everything by a purge.           *)
(***************************************************************************)
EXTENDS DatasetUploads, FiniteSetTheorems, TLAPS

\* A request that has read the highest number is at most one ahead.
NumbersInv ==
  /\ NumbersHaveNoGaps
  /\ \A c \in Clients : request[c].pc = "create" /\ dataset # "gone"
                          => request[c].number \in 1..(Cardinality(Created) + 1)

\* While there are uploads, an answer is about one of them, and says its key.
KeysInv ==
  /\ KeysNameOneUpload
  /\ dataset # "gone" => \A a \in answers : Exists(a[2]) /\ upload[a[2]].key = a[1]
  /\ \A u, v \in Created : upload[u].key = upload[v].key /\ upload[u].key # NoKey => u = v

RowsInv == JobsHaveUploads /\ (dataset = "gone" => Created = {})

UInv == TypeOK /\ NumbersInv /\ KeysInv /\ RowsInv

-----------------------------------------------------------------------------
LEMMA Blank == /\ NoUpload \in Upload /\ NoRequest \in Request /\ Idle \in Task
               /\ NoRequest.pc = "idle" /\ NoUpload.status = "absent"
  BY DEF NoUpload, Upload, UploadStatus, NoRequest, Request, Idle, Task

LEMMA CreatedFinite == IsFiniteSet(Created)
  BY IdsAreDistinct, FS_Subset DEF Created

LEMMA UInit == Init => UInv
<1> SUFFICES ASSUME Init PROVE UInv
  OBVIOUS
<1>1. Created = {}
  BY Blank DEF Init, Created, Exists
<1>2. Cardinality(Created) = 0 /\ Numbers = {} /\ 1..0 = {}
  BY <1>1, FS_EmptySet DEF Numbers
<1>3. TypeOK
  BY Blank DEF Init, TypeOK, JobStatus
<1>4. NumbersInv
  BY <1>2, Blank DEF Init, NumbersInv, NumbersHaveNoGaps
<1>5. KeysInv
  BY <1>1 DEF Init, KeysInv, KeysNameOneUpload
<1> QED BY <1>1, <1>3, <1>4, <1>5 DEF Init, UInv, RowsInv, JobsHaveUploads

-----------------------------------------------------------------------------
(* Steps that create and delete no upload.                                  *)

Kept == \A u \in Uploads : /\ Exists(u)' <=> Exists(u)
                           /\ upload'[u].number = upload[u].number
                           /\ upload'[u].key = upload[u].key
\* No request reaches its commit with a number of its own making.
NoneAhead == \A c \in Clients : request'[c].pc = "create" =>
               \/ request[c].pc = "create" /\ request'[c].number = request[c].number
               \/ request'[c].number \in 1..(Cardinality(Created) + 1)

LEMMA KeptUploads ==
  ASSUME UInv, Kept, NoneAhead, dataset' = "gone" <=> dataset = "gone",
         \/ answers' = answers
         \/ \E u \in Uploads, k \in Keys : /\ Exists(u) /\ upload[u].key = k
                                           /\ answers' = answers \cup {<<k, u>>}
                                           /\ dataset # "gone"
  PROVE  NumbersInv' /\ KeysInv' /\ (dataset' = "gone" => Created' = {})
<1>1. Created' = Created
  BY DEF Kept, Created
<1>2. Numbers' = Numbers
  BY <1>1 DEF Numbers, Kept, Created
<1>3. NumbersInv'
  BY <1>1, <1>2 DEF UInv, NumbersInv, NumbersHaveNoGaps, NoneAhead
<1>4. KeysInv'
  <2>1. \A u, v \in Created' : upload'[u].key = upload'[v].key /\ upload'[u].key # NoKey => u = v
    BY <1>1 DEF UInv, KeysInv, Kept, Created
  <2>2. \A a \in answers : a[2] \in Uploads
    BY DEF UInv, TypeOK
  <2>3. CASE answers' = answers
    BY <2>1, <2>2, <2>3 DEF UInv, KeysInv, KeysNameOneUpload, Kept
  <2>4. ASSUME NEW u \in Uploads, NEW k \in Keys, Exists(u), upload[u].key = k,
               answers' = answers \cup {<<k, u>>}, dataset # "gone"
        PROVE  KeysInv'
    <3>1. k # NoKey
      BY IdsAreDistinct
    <3>2. \A a \in answers : a[1] = k => a = <<k, u>>
      <4> SUFFICES ASSUME NEW a \in answers, a[1] = k PROVE a = <<k, u>>
        OBVIOUS
      <4>1. a[2] \in Created /\ u \in Created /\ upload[a[2]].key = k
        BY <2>2, <2>4 DEF UInv, KeysInv, Created
      <4>2. a[2] = u
        BY <4>1, <3>1, <2>4 DEF UInv, KeysInv
      <4>3. a \in Keys \X Uploads
        BY DEF UInv, TypeOK
      <4> QED BY <4>2, <4>3
    <3>3. KeysNameOneUpload'
      BY <2>4, <3>2 DEF UInv, KeysInv, KeysNameOneUpload
    <3>4. \A a \in answers' : Exists(a[2])' /\ upload'[a[2]].key = a[1]
      BY <2>2, <2>4 DEF UInv, KeysInv, Kept
    <3> QED BY <2>1, <3>3, <3>4 DEF KeysInv
  <2> QED BY <2>3, <2>4
<1> QED BY <1>1, <1>3, <1>4 DEF UInv, RowsInv

\* A status written to an upload that is there.
LEMMA SetUploadKeeps ==
  ASSUME TypeOK, NEW u \in Uploads, NEW s \in UploadStatus, s # "absent", Exists(u), SetUpload(u, s)
  PROVE  Kept /\ upload' \in [Uploads -> Upload]
<1>1. \A v \in Uploads : upload'[v] = IF v = u THEN [upload[u] EXCEPT !.status = s] ELSE upload[v]
  BY DEF SetUpload, TypeOK
<1>2. \A v \in Uploads : upload[v] \in Upload
  BY DEF TypeOK
<1>3. [upload[u] EXCEPT !.status = s] \in Upload /\ [upload[u] EXCEPT !.status = s].status = s
      /\ [upload[u] EXCEPT !.status = s].number = upload[u].number
      /\ [upload[u] EXCEPT !.status = s].key = upload[u].key
  BY <1>2 DEF Upload
<1>4. Kept
  BY <1>1, <1>3 DEF Kept, Exists
<1> QED BY <1>1, <1>2, <1>3, <1>4 DEF SetUpload, TypeOK

\* A job that gets a status while its upload is there.
LEMMA JobsKeep ==
  ASSUME UInv, Kept,
         \A u \in Uploads : scan'[u] # scan[u] \/ import'[u] # import[u] => Exists(u)
  PROVE  JobsHaveUploads'
  BY DEF UInv, RowsInv, JobsHaveUploads, Kept

-----------------------------------------------------------------------------
(* Creation.                                                                *)

\* The unique constraints let only the next number and a new key through.
LEMMA CreateKeeps ==
  ASSUME UInv, NEW c \in Clients, request[c].pc = "create", dataset # "gone",
         ~Taken(request[c]), NEW u \in Uploads, Create(c, u), Holds(c, NoRequest),
         UNCHANGED <<dataset, import, purge, dataVars, task>>
  PROVE  UInv'
<1> DEFINE n == Cardinality(Created)
           r == request[c]
<1>1. r \in Request /\ r.number \in Nat /\ r.key \in Keys \cup {NoKey}
  BY DEF UInv, TypeOK, Request
<1>2. /\ \A v \in Uploads : v # u => upload'[v] = upload[v]
      /\ upload'[u] = [status |-> "created", number |-> r.number, key |-> r.key]
      /\ upload'[u].status = "created" /\ upload'[u].number = r.number /\ upload'[u].key = r.key
  BY DEF Create, UInv, TypeOK
<1>3. u \notin Created /\ Created' = Created \cup {u}
  BY <1>2 DEF Create, Created, Exists
<1>4. n \in Nat /\ Cardinality(Created') = n + 1
  BY <1>3, CreatedFinite, FS_AddElement, FS_CardinalityType
<1>5. Numbers' = Numbers \cup {r.number}
  <2>1. \A v \in Created : v # u /\ v \in Uploads
    BY <1>3 DEF Created
  <2>2. \A v \in Created : upload'[v].number = upload[v].number
    BY <1>2, <2>1
  <2>3. Numbers' = {upload'[v].number : v \in Created \cup {u}}
    BY <1>3 DEF Numbers
  <2> QED BY <1>2, <2>2, <2>3 DEF Numbers
<1>6. r.number = n + 1
  <2>1. r.number \in 1..(n + 1) /\ r.number \notin 1..n
    BY DEF UInv, NumbersInv, NumbersHaveNoGaps, Taken, NumberTaken
  <2> QED BY <1>1, <1>4, <2>1
<1>7. Numbers' = 1..Cardinality(Created')
  <2>1. 1..(n + 1) = (1..n) \cup {n + 1}
    BY <1>4
  <2> QED BY <1>4, <1>5, <1>6, <2>1 DEF UInv, NumbersInv, NumbersHaveNoGaps
<1>8. \A d \in Clients : request'[d] = IF d = c THEN NoRequest ELSE request[d]
  BY DEF Holds, UInv, TypeOK
<1>9. NumbersInv'
  <2>1. ASSUME NEW d \in Clients, request'[d].pc = "create"
        PROVE  request'[d].number \in 1..(Cardinality(Created') + 1)
    <3>1. request'[d] = request[d] /\ request[d].number \in 1..(n + 1)
      BY <1>8, <2>1, Blank DEF UInv, NumbersInv
    <3>2. 1..(n + 1) \subseteq 1..(n + 2)
      BY <1>4
    <3> QED BY <1>4, <3>1, <3>2
  <2> QED BY <1>7, <2>1 DEF NumbersInv, NumbersHaveNoGaps
<1>10. KeysInv'
  <2>1. r.key # NoKey => \A v \in Created : upload[v].key # r.key
    BY DEF Taken, KeyTaken, WithKey
  <2>2. \A a \in answers : a[2] \in Created /\ upload[a[2]].key = a[1] /\ a \in Keys \X Uploads
    BY DEF UInv, KeysInv, TypeOK, Created
  <2>3. \A a \in answers : Exists(a[2])' /\ upload'[a[2]].key = a[1] /\ a[1] # NoKey
    BY <1>2, <1>3, <2>2, IdsAreDistinct DEF Created
  <2>4. \A v, x \in Created' : upload'[v].key = upload'[x].key /\ upload'[v].key # NoKey => v = x
    BY <1>2, <1>3, <2>1 DEF UInv, KeysInv, Created
  <2>5. CASE r.key = NoKey
    BY <2>3, <2>4, <2>5 DEF Create, Answered, KeysInv, UInv, KeysNameOneUpload
  <2>6. CASE r.key # NoKey
    <3>1. answers' = answers \cup {<<r.key, u>>}
      BY <2>6 DEF Create, Answered
    <3>2. \A a \in answers : a[1] # r.key
      BY <2>1, <2>2, <2>6
    <3>3. KeysNameOneUpload'
      BY <3>1, <3>2 DEF UInv, KeysInv, KeysNameOneUpload
    <3>4. Exists(u)' /\ upload'[u].key = r.key
      BY <1>2 DEF Exists
    <3> QED BY <2>3, <2>4, <3>1, <3>3, <3>4 DEF KeysInv
  <2> QED BY <2>5, <2>6
<1>11. RowsInv'
  BY <1>2, <1>3 DEF Create, UInv, RowsInv, JobsHaveUploads, Exists, TypeOK
<1>12. TypeOK'
  <2>1. upload' \in [Uploads -> Upload]
    BY <1>1 DEF Create, UInv, TypeOK, Upload, UploadStatus
  <2>2. request' \in [Clients -> Request]
    BY <1>8, Blank DEF Holds, UInv, TypeOK
  <2>3. answers' \subseteq Keys \X Uploads
    BY <1>1 DEF Create, Answered, UInv, TypeOK
  <2>4. scan' \in [Uploads -> JobStatus]
    BY DEF Create, UInv, TypeOK, JobStatus
  <2> QED BY <2>1, <2>2, <2>3, <2>4 DEF UInv, TypeOK, dataVars
<1> QED BY <1>9, <1>10, <1>11, <1>12 DEF UInv

-----------------------------------------------------------------------------
(* The other requests.                                                      *)

\* A request that changes no upload's number or key, and no answer.
LEMMA QuietRequest ==
  ASSUME UInv, NEW c \in Clients, NEW r \in Request, Holds(c, r),
         r.pc = "create" => r.number \in 1..(Cardinality(Created) + 1),
         Kept, upload' \in [Uploads -> Upload],
         scan' \in [Uploads -> JobStatus], import' \in [Uploads -> JobStatus \ {"pending"}],
         \A u \in Uploads : scan'[u] # scan[u] \/ import'[u] # import[u] => Exists(u),
         UNCHANGED <<dataset, purge, dataVars, task, answers>>
  PROVE  UInv'
<1>1. \A d \in Clients : request'[d] = IF d = c THEN r ELSE request[d]
  BY DEF Holds, UInv, TypeOK
<1>2. NoneAhead
  BY <1>1 DEF NoneAhead
<1>3. TypeOK'
  BY DEF UInv, TypeOK, Holds, dataVars
<1> QED BY <1>2, <1>3, KeptUploads, JobsKeep DEF UInv, RowsInv

LEMMA RequestKeeps ==
  ASSUME UInv, NEW c \in Clients, RequestStep(c)
  PROVE  UInv'
<1>0. request[c] \in Request /\ TypeOK
  BY DEF UInv, TypeOK
<1>k. upload' = upload => Kept /\ upload' \in [Uploads -> Upload]
  BY <1>0 DEF Kept, Exists, TypeOK
<1>1. ASSUME NEW k \in Keys \cup {NoKey}, CreateAgain(c, k) PROVE UInv'
  <2>1. PICK u \in WithKey(k) : Answered(k, u)
    BY <1>1 DEF CreateAgain
  <2>2. u \in Uploads /\ Exists(u) /\ upload[u].key = k /\ k \in Keys
    BY <1>1, <2>1 DEF WithKey, Created, CreateAgain
  <2>3. answers' = answers \cup {<<k, u>>} /\ dataset # "gone"
    BY <1>1, <2>1 DEF CreateAgain, Answered
  <2>4. TypeOK'
    BY <1>0, <1>1, <2>2, <2>3 DEF TypeOK, CreateAgain, jobVars, dataVars
  <2>5. NoneAhead /\ UNCHANGED <<upload, scan, import, dataset>>
    BY <1>1 DEF NoneAhead, CreateAgain, jobVars
  <2> QED BY <1>k, <2>2, <2>3, <2>4, <2>5, KeptUploads, JobsKeep DEF UInv, RowsInv
<1>2. ASSUME NEW r \in Request, Begins(c, r), r.pc # "create" PROVE UInv'
  BY <1>0, <1>k, <1>2, QuietRequest DEF Begins, jobVars, TypeOK
<1>3. ASSUME NEW k \in Keys \cup {NoKey}, CreateRead(c, k) PROVE UInv'
  <2>1. [NoRequest EXCEPT !.pc = "number", !.key = k] \in Request
    BY Blank DEF NoRequest, Request
  <2> QED BY <1>2, <1>3, <2>1 DEF CreateRead, NoRequest
<1>4. CASE CreateNumber(c)
  <2> DEFINE next(n) == [pc |-> "create", upload |-> None, key |-> request[c].key,
                         number |-> n + 1]
  <2>1. PICK n \in Numbers \cup {0} : Highest(n) /\ Holds(c, next(n))
    BY <1>4 DEF CreateNumber
  <2>2. Cardinality(Created) \in Nat
    BY CreatedFinite, FS_CardinalityType
  <2>3. n \in Nat /\ n + 1 \in 1..(Cardinality(Created) + 1)
    BY <2>2 DEF UInv, NumbersInv, NumbersHaveNoGaps
  <2>4. next(n) \in Request /\ next(n).number = n + 1
    <3>1. request[c].key \in Keys \cup {NoKey} /\ n + 1 \in Nat
      BY <1>0, <2>3 DEF Request
    <3> QED BY <3>1 DEF Request
  <2> HIDE DEF next
  <2> QED BY <1>0, <1>k, <1>4, <2>1, <2>3, <2>4, QuietRequest
          DEF CreateNumber, jobVars, TypeOK
<1>5. CASE CreateCommit(c)
  <2>1. CASE dataset = "gone" \/ Taken(request[c])
    BY <1>0, <1>k, <1>5, <2>1, Blank, QuietRequest DEF CreateCommit, TypeOK
  <2>2. CASE ~(dataset = "gone" \/ Taken(request[c]))
    BY <1>5, <2>2, CreateKeeps DEF CreateCommit
  <2> QED BY <2>1, <2>2
<1>6. ASSUME NEW u \in Uploads, CompleteRead(c, u) \/ ConfirmRead(c, u) PROVE UInv'
  <2>1. /\ [NoRequest EXCEPT !.pc = "complete", !.upload = u] \in Request
        /\ [NoRequest EXCEPT !.pc = "confirm", !.upload = u] \in Request
    BY IdsAreDistinct DEF NoRequest, Request
  <2> QED BY <1>2, <1>6, <2>1 DEF CompleteRead, ConfirmRead, NoRequest
<1>7. ASSUME CompleteCommit(c) \/ ConfirmCommit(c), Exists(request[c].upload),
             request[c].upload \in Uploads
      PROVE  UInv'
  <2>1. PICK u \in Uploads : u = request[c].upload
    BY <1>7
  <2>2. Kept /\ upload' \in [Uploads -> Upload]
    BY <1>0, <1>7, <2>1, SetUploadKeeps DEF CompleteCommit, ConfirmCommit, UploadStatus
  <2>3. /\ scan' \in [Uploads -> JobStatus] /\ import' \in [Uploads -> JobStatus \ {"pending"}]
        /\ \A v \in Uploads : scan'[v] # scan[v] \/ import'[v] # import[v] => v = u
    BY <1>0, <1>7, <2>1 DEF CompleteCommit, ConfirmCommit, TypeOK, JobStatus
  <2> QED BY <1>7, <2>1, <2>2, <2>3, Blank, QuietRequest DEF CompleteCommit, ConfirmCommit
<1>8. ASSUME CompleteCommit(c) \/ ConfirmCommit(c), ~Exists(request[c].upload)
      PROVE  UInv'
  BY <1>0, <1>k, <1>8, Blank, QuietRequest DEF CompleteCommit, ConfirmCommit, TypeOK
<1>9. CompleteCommit(c) \/ ConfirmCommit(c) => request[c].upload \in Uploads
  BY <1>0 DEF CompleteCommit, ConfirmCommit, Request
<1> QED BY <1>1, <1>3, <1>4, <1>5, <1>6, <1>7, <1>8, <1>9 DEF RequestStep

-----------------------------------------------------------------------------
(* Workers.                                                                 *)

\* A step of no request that creates and deletes nothing.
LEMMA QuietStep ==
  ASSUME UInv, Kept, upload' \in [Uploads -> Upload],
         dataset' \in {"active", "deleted", "gone"}, dataset' = "gone" <=> dataset = "gone",
         scan' \in [Uploads -> JobStatus], import' \in [Uploads -> JobStatus \ {"pending"}],
         purge' \in JobStatus \ {"pending"},
         \A u \in Uploads : scan'[u] # scan[u] \/ import'[u] # import[u] => Exists(u),
         samples' \subseteq Uploads, assets' \subseteq Uploads, archives' \subseteq Uploads,
         task' \in [Workers -> Task], UNCHANGED <<request, answers>>
  PROVE  UInv'
<1>1. NoneAhead
  BY DEF NoneAhead
<1>2. TypeOK'
  BY DEF UInv, TypeOK
<1> QED BY <1>1, <1>2, KeptUploads, JobsKeep DEF UInv, RowsInv

LEMMA Unchanged ==
  ASSUME UInv, upload' = upload
  PROVE  Kept /\ upload' \in [Uploads -> Upload]
  BY DEF UInv, Kept, Exists, TypeOK

\* The slot's new contents are a task, and a task has its upload.
LEMMA Tasks ==
  ASSUME TypeOK, NEW w \in Workers
  PROVE  /\ task[w] \in Task
         /\ \A t \in Task : Becomes(w, t) => task' \in [Workers -> Task]
         /\ task[w].pc \in {"scan", "load", "import"} => Own(w) \in Uploads
         /\ \A pc \in {"scan", "load"}, u \in Uploads :
              [Idle EXCEPT !.pc = pc, !.upload = u] \in Task
<1>1. task[w] \in Task
  BY DEF TypeOK
<1>2. \A t \in Task : Becomes(w, t) => task' \in [Workers -> Task]
  BY DEF Becomes, TypeOK
<1>3. task[w].pc \in {"scan", "load", "import"} => Own(w) \in Uploads
  BY <1>1 DEF Task, Own
<1>4. \A pc \in {"scan", "load"}, u \in Uploads :
        [Idle EXCEPT !.pc = pc, !.upload = u] \in Task
  BY IdsAreDistinct DEF Idle, Task
<1> QED BY <1>1, <1>2, <1>3, <1>4

LEMMA TakeKeeps ==
  ASSUME UInv, NEW w \in Workers, NEW u \in Uploads, TakeScan(w, u) \/ TakeImport(w, u)
  PROVE  UInv'
<1>1. TypeOK /\ Exists(u)
  BY DEF UInv, RowsInv, JobsHaveUploads, TakeScan, TakeImport
<1>2. task' \in [Workers -> Task]
  BY <1>1, Tasks DEF TakeScan, TakeImport, TypeOK
<1>3. /\ scan' \in [Uploads -> JobStatus] /\ import' \in [Uploads -> JobStatus \ {"pending"}]
      /\ \A v \in Uploads : scan'[v] # scan[v] \/ import'[v] # import[v] => v = u
  BY <1>1 DEF TakeScan, TakeImport, TypeOK, JobStatus
<1>4. UNCHANGED <<dataset, purge, samples, assets, archives, request, answers>>
  BY DEF TakeScan, TakeImport, dataVars
<1>5. Kept /\ upload' \in [Uploads -> Upload]
  <2>1. CASE TakeScan(w, u)
    BY <1>1, <2>1, SetUploadKeeps DEF TakeScan, UploadStatus
  <2>2. CASE TakeImport(w, u)
    BY <2>2, Unchanged DEF TakeImport
  <2> QED BY <2>1, <2>2
<1> QED BY <1>1, <1>2, <1>3, <1>4, <1>5, QuietStep DEF TypeOK

\* A scan or an import ends, and its session gets the status of that end.
LEMMA EndKeeps ==
  ASSUME UInv, NEW w \in Workers, ScanEnd(w) \/ ImportCommit(w) \/ ImportFail(w)
  PROVE  UInv'
<1>1. TypeOK /\ Own(w) \in Uploads /\ Exists(Own(w))
  BY Tasks DEF UInv, ScanEnd, ImportCommit, ImportFail
<1>2. task' \in [Workers -> Task]
  BY <1>1, Tasks, Blank DEF ScanEnd, ImportCommit, ImportFail
<1>3. PICK u \in Uploads : u = Own(w)
  BY <1>1
<1>4. /\ scan' \in [Uploads -> JobStatus] /\ import' \in [Uploads -> JobStatus \ {"pending"}]
      /\ \A v \in Uploads : scan'[v] # scan[v] \/ import'[v] # import[v] => v = u
  BY <1>1, <1>3 DEF ScanEnd, ImportCommit, ImportFail, TypeOK, JobStatus
<1>5. /\ UNCHANGED <<dataset, purge, archives, request, answers>>
      /\ samples' \subseteq Uploads /\ assets' \subseteq Uploads
  BY <1>1 DEF ScanEnd, ImportCommit, ImportFail, TypeOK, dataVars
<1>6. Kept /\ upload' \in [Uploads -> Upload]
  BY <1>1, SetUploadKeeps DEF ScanEnd, ImportCommit, ImportFail, UploadStatus
<1> QED BY <1>1, <1>2, <1>3, <1>4, <1>5, <1>6, QuietStep DEF TypeOK

\* Steps of a task that write no upload and no job of one.
LEMMA TaskKeeps ==
  ASSUME UInv, NEW w \in Workers,
         \/ ImportLoad(w) \/ TaskStale(w) \/ TakePurge(w) \/ PurgeFail(w)
         \/ \E u \in Uploads : PurgeObject(w, u)
  PROVE  UInv'
<1>1. TypeOK /\ task[w] \in Task /\ Idle \in Task
  BY Tasks, Blank DEF UInv
<1>2. UNCHANGED <<dataset, upload, scan, import, samples, assets, request, answers>>
  BY DEF ImportLoad, TaskStale, TakePurge, PurgeFail, PurgeObject, jobVars, dataVars
<1>3. purge' \in JobStatus \ {"pending"} /\ archives' \subseteq Uploads
  BY <1>1 DEF ImportLoad, TaskStale, TakePurge, PurgeFail, PurgeObject, jobVars, dataVars,
              TypeOK, JobStatus
<1>4. task' \in [Workers -> Task]
  <2>1. CASE ImportLoad(w)
    <3>1. [task[w] EXCEPT !.pc = "import"] \in Task
      BY <1>1, <2>1 DEF ImportLoad, Task
    <3> QED BY <1>1, <2>1, <3>1, Tasks DEF ImportLoad
  <2>2. CASE TaskStale(w) \/ PurgeFail(w)
    BY <1>1, <2>2, Tasks DEF TaskStale, PurgeFail
  <2>3. CASE TakePurge(w)
    <3>1. Created \subseteq Uploads /\ assets \subseteq Uploads
      BY <1>1 DEF Created, TypeOK
    <3>2. [Idle EXCEPT !.pc = "purge", !.listed = Created, !.listedAssets = assets,
                       !.left = Created] \in Task
      BY <3>1 DEF Idle, Task
    <3> QED BY <1>1, <2>3, <3>2, Tasks DEF TakePurge
  <2>4. ASSUME NEW u \in Uploads, PurgeObject(w, u) PROVE task' \in [Workers -> Task]
    <3>1. [task[w] EXCEPT !.left = @ \ {u}] \in Task
      BY <1>1, <2>4 DEF PurgeObject, Task
    <3> QED BY <1>1, <2>4, <3>1, Tasks DEF PurgeObject
  <2> QED BY <2>1, <2>2, <2>3, <2>4
<1>5. Kept /\ upload' \in [Uploads -> Upload]
  BY <1>2, Unchanged
<1> QED BY <1>1, <1>2, <1>3, <1>4, <1>5, QuietStep DEF TypeOK

\* The purge lists every upload there is, or its commit is refused: all the
\* jobs there are go with their uploads.
LEMMA PurgeKeeps ==
  ASSUME UInv, NEW w \in Workers, PurgeRecords(w)
  PROVE  UInv'
<1>1. TypeOK /\ Idle \in Task /\ task[w].listed = Created
  BY Blank DEF UInv, PurgeRecords, OnlyListed
<1>a. \A u \in Uploads : /\ [upload[u] EXCEPT !.status = "absent"] \in Upload
                         /\ [upload[u] EXCEPT !.status = "absent"].status = "absent"
  BY <1>1 DEF TypeOK, Upload, UploadStatus
<1>b. upload' \in [Uploads -> Upload] /\ \A u \in Uploads : upload'[u].status = "absent"
  BY <1>a DEF PurgeRecords
<1>2. /\ Created' = {} /\ dataset' = "gone"
      /\ UNCHANGED <<archives, request, answers>>
  BY <1>b DEF PurgeRecords, Created, Exists
<1>3. \A u \in Uploads : scan'[u] = "absent" /\ import'[u] = "absent"
  <2> SUFFICES ASSUME NEW u \in Uploads PROVE scan'[u] = "absent" /\ import'[u] = "absent"
    OBVIOUS
  <2>1. CASE u \in Created
    BY <1>1, <2>1 DEF PurgeRecords
  <2>2. CASE u \notin Created
    BY <1>1, <2>2 DEF PurgeRecords, UInv, RowsInv, JobsHaveUploads, Created
  <2> QED BY <2>1, <2>2
<1>4. TypeOK'
  <2>1. upload' \in [Uploads -> Upload] /\ task' \in [Workers -> Task]
    BY <1>1, <1>b, Tasks DEF PurgeRecords
  <2>2. /\ scan' \in [Uploads -> JobStatus] /\ import' \in [Uploads -> JobStatus \ {"pending"}]
        /\ purge' \in JobStatus \ {"pending"}
    BY <1>1, <1>3 DEF PurgeRecords, JobStatus
  <2>3. samples' \subseteq Uploads /\ assets' \subseteq Uploads
    BY <1>1 DEF PurgeRecords, TypeOK
  <2> QED BY <1>1, <1>2, <2>1, <2>2, <2>3 DEF TypeOK
<1>5. NumbersInv'
  <2>1. Cardinality(Created') = 0 /\ Numbers' = {} /\ 1..0 = {}
    BY <1>2, FS_EmptySet DEF Numbers
  <2> QED BY <1>2, <2>1 DEF NumbersInv, NumbersHaveNoGaps
<1>6. KeysInv'
  BY <1>2 DEF UInv, KeysInv, KeysNameOneUpload
<1> QED BY <1>2, <1>3, <1>4, <1>5, <1>6 DEF UInv, RowsInv, JobsHaveUploads

-----------------------------------------------------------------------------
\* Requests on the dataset, and the client's PUT.
LEMMA DatasetKeeps ==
  ASSUME UInv,
         \/ DeleteDataset \/ RestoreDataset \/ QueuePurge \/ UNCHANGED vars
         \/ \E u \in Uploads : PutArchive(u)
  PROVE  UInv'
<1>1. TypeOK
  BY DEF UInv
<1>2. UNCHANGED <<upload, scan, import, samples, assets, request, task, answers>>
  BY DEF DeleteDataset, RestoreDataset, QueuePurge, PutArchive, vars, jobVars, dataVars
<1>3. /\ purge' \in JobStatus \ {"pending"} /\ archives' \subseteq Uploads
      /\ dataset' \in {"active", "deleted", "gone"} /\ (dataset' = "gone" <=> dataset = "gone")
  BY <1>1 DEF DeleteDataset, RestoreDataset, QueuePurge, PutArchive, vars, jobVars, dataVars,
              TypeOK, JobStatus
<1>4. Kept /\ upload' \in [Uploads -> Upload]
  BY <1>2, Unchanged
<1> QED BY <1>1, <1>2, <1>3, <1>4, QuietStep DEF TypeOK

LEMMA UNext == UInv /\ [Next]_vars => UInv'
<1> SUFFICES ASSUME UInv, [Next]_vars PROVE UInv'
  OBVIOUS
<1>1. ASSUME NEW w \in Workers, WorkerStep(w) PROVE UInv'
  BY <1>1, TakeKeeps, EndKeeps, TaskKeeps, PurgeKeeps DEF WorkerStep
<1> QED BY <1>1, RequestKeeps, DatasetKeeps DEF Next

LEMMA UAlways == Spec => []UInv
  BY UInit, UNext, PTL DEF Spec

\* Rows, requests and tasks of any number of uploads, clients and workers have
\* only values their code can give them.
THEOREM UploadTypes == Spec => []TypeOK
<1>1. UInv => TypeOK
  BY DEF UInv
<1> QED BY <1>1, UAlways, PTL

\* The versions of a dataset are numbered 1, 2, ... whatever requests compete in
\* create_dataset_upload.
THEOREM NumbersStayDense == Spec => []NumbersHaveNoGaps
<1>1. UInv => NumbersHaveNoGaps
  BY DEF UInv, NumbersInv
<1> QED BY <1>1, UAlways, PTL

\* No key is answered with two sessions of the dataset, as long as it exists.
THEOREM KeysStayUnique == Spec => []KeysNameOneUpload
<1>1. UInv => KeysNameOneUpload
  BY DEF UInv, KeysInv
<1> QED BY <1>1, UAlways, PTL

\* No scan or import job is left, or begun, for a session that a purge deleted.
THEOREM NoOrphanJobs == Spec => []JobsHaveUploads
<1>1. UInv => JobsHaveUploads
  BY DEF UInv, RowsInv
<1> QED BY <1>1, UAlways, PTL

=============================================================================
