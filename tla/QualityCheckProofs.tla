-------------------------- MODULE QualityCheckProofs --------------------------
(***************************************************************************)
(* What the committed report says, for any numbers of workers, requests,   *)
(* checks, samples and faults.                                             *)
(*                                                                         *)
(* The rows a task has found are those of the samples it has been through, *)
(* whatever happens around it.  Until two executions overlap, the one that *)
(* is in its transaction sees, and then holds, every committed row.        *)
(***************************************************************************)
EXTENDS QualityCheck, FiniteSetTheorems, TLAPS

Found == [run : Nat, sample : Samples, kind : {"annotation", "unreadable", "duplicate"}]
Task == [pc : {"idle", "read", "snapshot", "delete", "validate", "ack"},
         job : Checks \cup {NoJob}, seenJob : JobStatus, run : Nat,
         read : SUBSET Samples, todo : SUBSET Samples,
         doomed : SUBSET Found, locked : SUBSET Found, found : SUBSET Found,
         unread : SUBSET Samples]

\* Types, without the bound on the number of executions.
QTypes ==
  /\ worker \in [Workers -> Task]
  /\ request \in [Clients -> [pc : {"idle", "queue", "cancel", "send"}, job : Checks \cup {NoJob}]]
  /\ job \in [Checks -> JobStatus]
  /\ live \subseteq Samples
  /\ issues \subseteq Found
  /\ runs \in Nat
  /\ last \in [run : Nat, read : SUBSET Samples, unread : SUBSET Samples,
               outcome : {"none", "succeeded", "cancelled"}]
  /\ overlap \in BOOLEAN
  /\ \A w \in Workers : worker[w].pc # "idle" => worker[w].job \in Checks
  /\ \A c \in Clients : request[c].pc # "idle" => request[c].job \in Checks

\* The rows of the samples S in the report of execution r, which could not read the
\* annotations of some.
Rows(r, S, unread) ==
  {i \in [run : {r}, sample : S, kind : {"annotation", "unreadable"}] :
     i.kind \in Kinds(i.sample, i.sample \in unread)}

\* What a task in its transaction holds.
FoundInv ==
  \A w \in Workers :
    /\ worker[w].todo \subseteq worker[w].read
    /\ worker[w].pc \in {"read", "snapshot", "delete"} =>
         worker[w].found = {} /\ worker[w].locked = {} /\ worker[w].unread = {}
    /\ worker[w].unread \subseteq worker[w].read \ worker[w].todo
    /\ worker[w].pc \in {"snapshot", "delete"} => worker[w].todo = worker[w].read
    /\ worker[w].pc = "validate" =>
         worker[w].found =
           Rows(worker[w].run, worker[w].read \ worker[w].todo, worker[w].unread)

\* Until two overlap, a transaction has every committed row to itself.
AloneInv ==
  ~overlap =>
    \A w \in Workers :
      /\ InTransaction(w) => \A v \in Workers \ {w} : ~InTransaction(v)
      /\ worker[w].pc = "delete" => worker[w].doomed = issues
      /\ worker[w].pc = "validate" => worker[w].locked = issues

\* The rows of a whole report.
WholeReport(r, S, unread) ==
  Rows(r, S, unread) \cup {[run |-> r, sample |-> s, kind |-> "duplicate"] : s \in SameChecksum(S)}

ReportInv ==
  /\ last.outcome = "succeeded" => WholeReport(last.run, last.read, last.unread) \subseteq issues
  /\ ~overlap => /\ \A i \in issues : i.run = last.run
                 /\ last.outcome = "succeeded" => issues = WholeReport(last.run, last.read, last.unread)

QInv == QTypes /\ FoundInv /\ AloneInv /\ ReportInv

-----------------------------------------------------------------------------
LEMMA IdleTask == Idle \in Task /\ Idle.pc = "idle" /\ Idle.todo = {} /\ Idle.unread = {}
  BY DEF Idle, Task, JobStatus

LEMMA ReturnedTask ==
  \A j \in Checks : /\ Returned(j) \in Task /\ Returned(j).pc = "ack" /\ Returned(j).job = j
                    /\ Returned(j).todo = {} /\ Returned(j).unread = {}
  BY IdleTask DEF Returned, Task, Idle

\* A task that is replaced leaves the other tasks as they were.
LEMMA Replaced ==
  ASSUME QTypes, NEW w \in Workers, NEW task, Becomes(w, task)
  PROVE  /\ worker'[w] = task
         /\ \A v \in Workers : v # w => worker'[v] = worker[v]
         /\ task \in Task => worker' \in [Workers -> Task]
  BY DEF QTypes, Becomes

LEMMA QInvInit == Init => QInv
<1> SUFFICES ASSUME Init PROVE QInv
  OBVIOUS
<1>1. QTypes
  BY IdleTask DEF Init, QTypes, JobStatus, NoRequest
<1>2. FoundInv /\ AloneInv /\ ReportInv
  BY IdleTask DEF Init, FoundInv, AloneInv, ReportInv, InTransaction
<1> QED BY <1>1, <1>2 DEF QInv

\* A task that keeps its part of FoundInv keeps all of it.
FoundBy(task) ==
  /\ task.todo \subseteq task.read
  /\ task.pc \in {"read", "snapshot", "delete"} =>
       task.found = {} /\ task.locked = {} /\ task.unread = {}
  /\ task.unread \subseteq task.read \ task.todo
  /\ task.pc \in {"snapshot", "delete"} => task.todo = task.read
  /\ task.pc = "validate" => task.found = Rows(task.run, task.read \ task.todo, task.unread)

LEMMA TaskFound ==
  ASSUME FoundInv, NEW w \in Workers, NEW task, worker'[w] = task,
         \A v \in Workers : v # w => worker'[v] = worker[v], FoundBy(task)
  PROVE  FoundInv'
<1>1. \A v \in Workers : FoundBy(worker[v])
  BY DEF FoundInv, FoundBy
<1>2. \A v \in Workers : FoundBy(worker'[v])
  BY <1>1
<1> QED BY <1>2 DEF FoundInv, FoundBy

\* A step outside any transaction, after which w's task is idle, waiting or has not begun.
LEMMA Outside ==
  ASSUME QInv, NEW w \in Workers, NEW task \in Task, Becomes(w, task), QTypes',
         task.todo = {}, task.unread = {},
         task.pc \in {"idle", "ack"} \/ (task.pc = "read" /\ task.found = {} /\ task.locked = {}),
         UNCHANGED <<issues, last, overlap>>
  PROVE  QInv'
<1>1. /\ worker'[w] = task
      /\ \A v \in Workers : v # w => worker'[v] = worker[v]
  BY Replaced DEF QInv
<1>2. FoundInv'
  <2>1. FoundBy(task)
    BY DEF FoundBy
  <2> QED BY <1>1, <2>1, TaskFound DEF QInv
<1>3. AloneInv'
  BY <1>1 DEF QInv, AloneInv, InTransaction
<1>4. ReportInv'
  BY DEF QInv, ReportInv
<1> QED BY <1>2, <1>3, <1>4 DEF QInv

LEMMA NoTask ==
  ASSUME QInv, QTypes', UNCHANGED <<worker, issues, last, overlap>>
  PROVE  QInv'
  BY DEF QInv, FoundInv, AloneInv, InTransaction, ReportInv

LEMMA TakeKeeps ==
  ASSUME QInv, NEW w \in Workers, NEW j \in Checks, Take(w, j)
  PROVE  QInv'
<1> DEFINE task == [Idle EXCEPT !.pc = "read", !.job = j, !.seenJob = job[j], !.run = runs + 1]
<1>1. CASE job[j] = "succeeded"
  <2>1. UNCHANGED <<worker, runs, live, job, issues, request, last, overlap>>
    BY <1>1 DEF Take
  <2> QED BY <2>1, NoTask DEF QInv, QTypes
<1>2. CASE job[j] # "succeeded"
  <2>1. Becomes(w, task) /\ runs' = runs + 1 /\ UNCHANGED <<live, job, issues, request, last, overlap>>
    BY <1>2 DEF Take
  <2>2. /\ task \in Task
        /\ task.pc = "read" /\ task.job = j /\ task.found = {} /\ task.locked = {}
        /\ task.todo = {} /\ task.unread = {}
    <3>1. runs + 1 \in Nat /\ job[j] \in JobStatus
      BY DEF QInv, QTypes
    <3>2. Idle.found = {} /\ Idle.locked = {} /\ Idle.todo = {} /\ Idle.read = {} /\ Idle.unread = {}
      BY DEF Idle
    <3> QED BY <3>1, <3>2, IdleTask DEF Task
  <2> HIDE DEF task
  <2>3. QTypes'
    BY <2>1, <2>2, Replaced DEF QInv, QTypes
  <2> QED BY <2>1, <2>2, <2>3, Outside
<1> QED BY <1>1, <1>2

LEMMA EndsKeeps ==
  ASSUME QInv, NEW w \in Workers, Ack(w) \/ Raise(w) \/ WorkerCrash(w)
  PROVE  QInv'
<1>1. CASE Raise(w)
  <2> DEFINE task == Returned(worker[w].job)
  <2>1. Becomes(w, task) /\ UNCHANGED <<live, job, issues, request, runs, last, overlap>>
    BY <1>1 DEF Raise, Own, Ghosts
  <2>2. task \in Task /\ task.pc = "ack" /\ task.job \in Checks /\ task.todo = {} /\ task.unread = {}
    BY <1>1, ReturnedTask DEF Raise, QInv, QTypes
  <2> HIDE DEF task
  <2>3. QTypes'
    BY <2>1, <2>2, Replaced DEF QInv, QTypes
  <2> QED BY <2>1, <2>2, <2>3, Outside
<1>2. CASE Ack(w) \/ WorkerCrash(w)
  <2>1. Becomes(w, Idle) /\ UNCHANGED <<live, job, issues, request, runs, last, overlap>>
    BY <1>2 DEF Ack, WorkerCrash, Ghosts
  <2>2. QTypes'
    BY <2>1, IdleTask, Replaced DEF QInv, QTypes
  <2> QED BY <2>1, <2>2, IdleTask, Outside
<1> QED BY <1>1, <1>2

\* A step of w inside an execution that writes nothing: the task keeps its run.
LEMMA Inside ==
  ASSUME QInv, NEW w \in Workers, NEW task \in Task, Becomes(w, task),
         worker[w].pc # "idle", task.job = worker[w].job,
         UNCHANGED <<live, job, issues, request, runs, last>>, overlap' \in BOOLEAN
  PROVE  /\ QTypes' /\ worker'[w] = task
         /\ \A v \in Workers : v # w => worker'[v] = worker[v]
  BY Replaced DEF QInv, QTypes

LEMMA ReadSamplesKeeps ==
  ASSUME QInv, NEW w \in Workers, ReadSamples(w)
  PROVE  QInv'
<1> DEFINE task == [worker[w] EXCEPT !.pc = "snapshot", !.read = live, !.todo = live]
<1>1. /\ worker[w] \in Task /\ worker[w].pc = "read"
      /\ Becomes(w, task)
      /\ UNCHANGED <<live, job, issues, request, runs, last, overlap>>
  BY DEF ReadSamples, Ghosts, QInv, QTypes
<1>2. /\ task \in Task /\ task.pc = "snapshot" /\ task.job = worker[w].job
      /\ task.todo = task.read
      /\ task.found = worker[w].found /\ task.locked = worker[w].locked
      /\ task.unread = worker[w].unread
  BY <1>1 DEF QInv, QTypes, Task
<1> HIDE DEF task
<1>3. /\ QTypes' /\ worker'[w] = task
      /\ \A v \in Workers : v # w => worker'[v] = worker[v]
  BY <1>1, <1>2, Inside DEF QInv, QTypes
<1>4. FoundInv'
  <2>1. task.found = {} /\ task.locked = {} /\ task.unread = {}
    BY <1>1, <1>2 DEF QInv, FoundInv
  <2>2. FoundBy(task)
    BY <1>2, <2>1 DEF FoundBy
  <2> QED BY <1>3, <2>2, TaskFound DEF QInv
<1>5. AloneInv'
  BY <1>1, <1>2, <1>3 DEF QInv, AloneInv, InTransaction
<1>6. ReportInv'
  BY <1>1 DEF QInv, ReportInv
<1> QED BY <1>3, <1>4, <1>5, <1>6 DEF QInv

LEMMA SnapshotKeeps ==
  ASSUME QInv, NEW w \in Workers, Snapshot(w)
  PROVE  QInv'
<1> DEFINE task == [worker[w] EXCEPT !.pc = "delete", !.doomed = issues]
<1>1. /\ worker[w] \in Task /\ worker[w].pc = "snapshot"
      /\ Becomes(w, task)
      /\ overlap' = (overlap \/ \E v \in Workers \ {w} : InTransaction(v))
      /\ UNCHANGED <<live, job, issues, request, runs, last>>
  BY DEF Snapshot, Ghosts, QInv, QTypes
<1>2. /\ task \in Task /\ task.pc = "delete" /\ task.job = worker[w].job
      /\ task.doomed = issues
      /\ task.todo = worker[w].todo /\ task.read = worker[w].read
      /\ task.found = worker[w].found /\ task.locked = worker[w].locked
      /\ task.unread = worker[w].unread
  BY <1>1 DEF QInv, QTypes, Task
<1> HIDE DEF task
<1>3. /\ QTypes' /\ worker'[w] = task
      /\ \A v \in Workers : v # w => worker'[v] = worker[v]
  <2>1. overlap' \in BOOLEAN
    BY <1>1 DEF QInv, QTypes
  <2> QED BY <1>1, <1>2, <2>1, Inside
<1>4. FoundInv'
  <2>1. FoundBy(worker[w])
    BY DEF QInv, FoundInv, FoundBy
  <2>2. FoundBy(task)
    BY <1>1, <1>2, <2>1 DEF FoundBy
  <2> QED BY <1>3, <2>2, TaskFound DEF QInv
<1>5. AloneInv'
  <2> SUFFICES ASSUME ~overlap'
               PROVE  \A v \in Workers :
                        /\ InTransaction(v)' => \A u \in Workers \ {v} : ~InTransaction(u)'
                        /\ worker'[v].pc = "delete" => worker'[v].doomed = issues'
                        /\ worker'[v].pc = "validate" => worker'[v].locked = issues'
    BY DEF AloneInv
  <2>1. \A v \in Workers \ {w} : ~InTransaction(v)
    BY <1>1
  <2>2. \A v \in Workers \ {w} : ~InTransaction(v)'
    BY <2>1, <1>3 DEF InTransaction
  <2> QED BY <1>1, <1>2, <1>3, <2>2 DEF InTransaction
<1>6. ReportInv'
  BY <1>1 DEF QInv, ReportInv
<1> QED BY <1>3, <1>4, <1>5, <1>6 DEF QInv

LEMMA DeleteKeeps ==
  ASSUME QInv, NEW w \in Workers, Delete(w)
  PROVE  QInv'
<1> DEFINE task == [worker[w] EXCEPT !.pc = "validate",
                                     !.locked = worker[w].locked \cup (worker[w].doomed \cap issues)]
<1>1. /\ worker[w] \in Task /\ worker[w].pc = "delete"
      /\ Becomes(w, task)
      /\ UNCHANGED <<live, job, issues, request, runs, last, overlap>>
  BY DEF Delete, Ghosts, QInv, QTypes
<1>2. /\ task \in Task /\ task.pc = "validate" /\ task.job = worker[w].job
      /\ task.locked = worker[w].locked \cup (worker[w].doomed \cap issues)
      /\ task.todo = worker[w].todo /\ task.read = worker[w].read /\ task.run = worker[w].run
      /\ task.found = worker[w].found /\ task.unread = worker[w].unread
  BY <1>1 DEF QInv, QTypes, Task
<1> HIDE DEF task
<1>3. /\ QTypes' /\ worker'[w] = task
      /\ \A v \in Workers : v # w => worker'[v] = worker[v]
  BY <1>1, <1>2, Inside DEF QInv, QTypes
<1>4. FoundInv'
  <2>1. task.found = {} /\ task.todo = task.read /\ task.unread = {}
    BY <1>1, <1>2 DEF QInv, FoundInv
  <2>2. Rows(task.run, task.read \ task.todo, task.unread) = {}
    BY <2>1 DEF Rows
  <2>3. FoundBy(task)
    BY <1>2, <2>1, <2>2 DEF FoundBy
  <2> QED BY <1>3, <2>3, TaskFound DEF QInv
<1>5. AloneInv'
  <2>1. ~overlap => task.locked = issues
    BY <1>1, <1>2 DEF QInv, AloneInv, FoundInv
  <2>2. UNCHANGED <<issues, overlap>> /\ InTransaction(w)
    BY <1>1 DEF InTransaction
  <2>3. \A v \in Workers : InTransaction(v)' <=> InTransaction(v)
    BY <1>2, <1>3, <2>2 DEF InTransaction
  <2> SUFFICES ASSUME ~overlap, NEW v \in Workers
               PROVE  /\ InTransaction(v) => \A u \in Workers \ {v} : ~InTransaction(u)
                      /\ worker'[v].pc = "delete" => worker'[v].doomed = issues
                      /\ worker'[v].pc = "validate" => worker'[v].locked = issues
    BY <2>2, <2>3 DEF AloneInv
  <2>4. AloneInv
    BY DEF QInv
  <2>5. CASE v = w
    BY <1>2, <1>3, <2>1, <2>4, <2>5 DEF AloneInv
  <2>6. CASE v # w
    BY <1>3, <2>4, <2>6 DEF AloneInv
  <2> QED BY <2>5, <2>6
<1>6. ReportInv'
  BY <1>1 DEF QInv, ReportInv
<1> QED BY <1>3, <1>4, <1>5, <1>6 DEF QInv

\* One more sample s is checked: U2 are then the unread ones, and `new' its rows.
OneMoreChecked(r, S, U, s, unreadable, U2, new) ==
  /\ U \subseteq S /\ s \notin S /\ unreadable \in BOOLEAN
  /\ s \in U2 <=> unreadable
  /\ \A q \in S : q \in U2 <=> q \in U
  /\ \A i : i \in new <=> \E kind \in Kinds(s, unreadable) :
                            i = [run |-> r, sample |-> s, kind |-> kind]

LEMMA RowsGrow ==
  ASSUME NEW r, NEW S, NEW U, NEW s, NEW unreadable, NEW U2, NEW new,
         OneMoreChecked(r, S, U, s, unreadable, U2, new)
  PROVE  Rows(r, S \cup {s}, U2) = Rows(r, S, U) \cup new
<1> USE DEF OneMoreChecked
<1>1. Kinds(s, unreadable) \subseteq {"annotation", "unreadable"}
  BY DEF Kinds
<1>2. (s \in U2) = unreadable /\ \A q \in S : (q \in U2) = (q \in U)
  OBVIOUS
<1>3. ASSUME NEW i \in new PROVE i \in Rows(r, S \cup {s}, U2)
  <2>1. PICK kind \in Kinds(s, unreadable) : i = [run |-> r, sample |-> s, kind |-> kind]
    OBVIOUS
  <2> QED BY <1>1, <1>2, <2>1 DEF Rows
<1>4. ASSUME NEW i \in Rows(r, S, U) PROVE i \in Rows(r, S \cup {s}, U2)
  BY <1>2 DEF Rows
<1>5. ASSUME NEW i \in Rows(r, S \cup {s}, U2) PROVE i \in Rows(r, S, U) \cup new
  <2>1. /\ i \in [run : {r}, sample : S \cup {s}, kind : {"annotation", "unreadable"}]
        /\ i.kind \in Kinds(i.sample, i.sample \in U2)
    BY DEF Rows
  <2>2. CASE i.sample = s
    <3>1. i = [run |-> r, sample |-> s, kind |-> i.kind] /\ i.kind \in Kinds(s, unreadable)
      BY <1>2, <2>1, <2>2
    <3> QED BY <3>1
  <2>3. CASE i.sample # s
    <3>1. i.sample \in S
      BY <2>1, <2>3
    <3>2. i \in [run : {r}, sample : S, kind : {"annotation", "unreadable"}]
      BY <2>1, <3>1
    <3>3. i.kind \in Kinds(i.sample, i.sample \in U)
      BY <1>2, <2>1, <3>1
    <3> QED BY <3>2, <3>3 DEF Rows
  <2> QED BY <2>2, <2>3
<1> QED BY <1>3, <1>4, <1>5

LEMMA ValidateKeeps ==
  ASSUME QInv, NEW w \in Workers, NEW s \in Samples, NEW unreadable \in BOOLEAN,
         Validate(w, s, unreadable)
  PROVE  QInv'
<1> DEFINE new == {Row(w, s, kind) : kind \in Kinds(s, unreadable)}
           unread == IF unreadable THEN worker[w].unread \cup {s} ELSE worker[w].unread
           task == [worker[w] EXCEPT !.todo = worker[w].todo \ {s}, !.seenJob = job[worker[w].job],
                                     !.unread = unread, !.found = worker[w].found \cup new]
<1>1. /\ worker[w] \in Task /\ worker[w].pc = "validate" /\ s \in worker[w].todo
      /\ worker[w].job \in Checks
      /\ Becomes(w, task)
      /\ UNCHANGED <<live, job, issues, request, runs, last, overlap>>
  BY DEF Validate, Ghosts, Own, QInv, QTypes
<1>2. /\ worker[w].unread \subseteq worker[w].read \ worker[w].todo
      /\ worker[w].todo \subseteq worker[w].read
      /\ worker[w].found = Rows(worker[w].run, worker[w].read \ worker[w].todo, worker[w].unread)
  BY <1>1 DEF QInv, FoundInv
<1>3. new \subseteq Found /\ job[worker[w].job] \in JobStatus
  BY <1>1 DEF Found, Row, Kinds, Task, QInv, QTypes
<1>4. unread \subseteq Samples /\ unread \subseteq worker[w].unread \cup {s}
  BY <1>1 DEF Task
<1>5. Rows(worker[w].run, (worker[w].read \ worker[w].todo) \cup {s}, unread) =
        Rows(worker[w].run, worker[w].read \ worker[w].todo, worker[w].unread) \cup new
  <2> DEFINE done == worker[w].read \ worker[w].todo
  <2>1. \A i : i \in new <=> \E kind \in Kinds(s, unreadable) :
                               i = [run |-> worker[w].run, sample |-> s, kind |-> kind]
    BY DEF Row
  <2>2. worker[w].unread \subseteq done /\ s \notin done
    BY <1>1, <1>2
  <2>3. (s \in unread <=> unreadable) /\ \A q \in done : q \in unread <=> q \in worker[w].unread
    BY <2>2
  <2> HIDE DEF done, new, unread
  <2>4. OneMoreChecked(worker[w].run, done, worker[w].unread, s, unreadable, unread, new)
    BY <2>1, <2>2, <2>3 DEF OneMoreChecked
  <2>5. Rows(worker[w].run, done \cup {s}, unread) =
          Rows(worker[w].run, done, worker[w].unread) \cup new
    BY <2>4, RowsGrow
  <2> QED BY <2>5 DEF done
<1> HIDE DEF new, unread
<1>6. /\ task \in Task /\ task.pc = "validate" /\ task.job = worker[w].job
      /\ task.locked = worker[w].locked /\ task.doomed = worker[w].doomed
      /\ task.todo = worker[w].todo \ {s} /\ task.read = worker[w].read /\ task.run = worker[w].run
      /\ task.found = worker[w].found \cup new /\ task.unread = unread
  BY <1>1, <1>3, <1>4 DEF Task
<1> HIDE DEF task
<1>7. /\ QTypes' /\ worker'[w] = task
      /\ \A v \in Workers : v # w => worker'[v] = worker[v]
  BY <1>1, <1>6, Inside DEF QInv, QTypes
<1>8. FoundInv'
  <2>1. task.read \ task.todo = (worker[w].read \ worker[w].todo) \cup {s}
    BY <1>1, <1>2, <1>6
  <2>2. task.found = Rows(task.run, task.read \ task.todo, task.unread)
    BY <1>2, <1>5, <1>6, <2>1
  <2>3. task.todo \subseteq task.read /\ task.unread \subseteq task.read \ task.todo
    BY <1>2, <1>4, <1>6, <2>1
  <2>4. FoundBy(task)
    BY <1>6, <2>2, <2>3 DEF FoundBy
  <2> QED BY <1>7, <2>4, TaskFound DEF QInv
<1>9. AloneInv'
  BY <1>1, <1>6, <1>7 DEF QInv, AloneInv, InTransaction
<1>10. ReportInv'
  BY <1>1 DEF QInv, ReportInv
<1> QED BY <1>7, <1>8, <1>9, <1>10 DEF QInv

\* The commit of w's transaction, with the rows of a whole report or of a part of one.
LEMMA CommitKeeps ==
  ASSUME QInv, NEW w \in Workers, NEW found \in SUBSET Found, NEW outcome,
         worker[w].pc = "validate", Commits(w, found, outcome), job' \in [Checks -> JobStatus],
         outcome \in {"succeeded", "cancelled"},
         \A i \in found : i.run = worker[w].run,
         outcome = "succeeded" => found = WholeReport(worker[w].run, worker[w].read, worker[w].unread)
  PROVE  QInv'
<1> DEFINE task == Returned(worker[w].job)
<1>1. /\ worker[w] \in Task /\ worker[w].job \in Checks
      /\ Becomes(w, task)
      /\ issues' = (issues \ worker[w].locked) \cup found
      /\ last' = [run |-> worker[w].run, read |-> worker[w].read, unread |-> worker[w].unread,
                  outcome |-> outcome]
      /\ UNCHANGED <<live, request, runs, overlap>>
  BY DEF Commits, Own, QInv, QTypes
<1>2. task \in Task /\ task.pc = "ack" /\ task.job = worker[w].job /\ task.todo = {}
      /\ task.unread = {}
  BY <1>1, ReturnedTask
<1> HIDE DEF task
<1>3. /\ worker'[w] = task
      /\ \A v \in Workers : v # w => worker'[v] = worker[v]
  BY <1>1, Replaced DEF QInv
<1>4. QTypes'
  <2>1. last' \in [run : Nat, read : SUBSET Samples, unread : SUBSET Samples,
                   outcome : {"none", "succeeded", "cancelled"}]
    BY <1>1 DEF Task
  <2>2. worker' \in [Workers -> Task]
    BY <1>1, <1>2, Replaced DEF QInv
  <2> QED BY <1>1, <1>2, <1>3, <2>1, <2>2 DEF QInv, QTypes
<1>5. FoundInv'
  <2>1. FoundBy(task)
    BY <1>2 DEF FoundBy
  <2> QED BY <1>3, <2>1, TaskFound DEF QInv
<1>6. AloneInv'
  BY <1>1, <1>2, <1>3 DEF QInv, AloneInv, InTransaction
<1>7. ReportInv'
  <2>1. last'.run = worker[w].run /\ last'.read = worker[w].read /\ last'.unread = worker[w].unread
        /\ last'.outcome = outcome
    BY <1>1
  <2>2. ~overlap => issues' = found
    BY <1>1 DEF QInv, AloneInv
  <2> QED BY <1>1, <2>1, <2>2 DEF ReportInv
<1> QED BY <1>4, <1>5, <1>6, <1>7 DEF QInv

LEMMA CommitsKeep ==
  ASSUME QInv, NEW w \in Workers, ObserveCancel(w) \/ Finish(w)
  PROVE  QInv'
<1>1. worker[w] \in Task /\ worker[w].pc = "validate" /\ worker[w].job \in Checks
  BY DEF ObserveCancel, Finish, QInv, QTypes
<1>2. worker[w].found = Rows(worker[w].run, worker[w].read \ worker[w].todo, worker[w].unread)
  BY <1>1 DEF QInv, FoundInv
<1>3. worker[w].found \in SUBSET Found /\ \A i \in worker[w].found : i.run = worker[w].run
  BY <1>1, <1>2 DEF Task, Rows
<1>4. CASE ObserveCancel(w)
  BY <1>1, <1>3, <1>4, CommitKeeps DEF ObserveCancel, QInv, QTypes
<1>5. CASE Finish(w)
  <2> DEFINE report == worker[w].found \cup
                         {Row(w, s, "duplicate") : s \in SameChecksum(worker[w].read)}
  <2>1. /\ worker[w].todo = {}
        /\ Commits(w, report, "succeeded")
        /\ job' = [job EXCEPT ![worker[w].job] = Saved(job[worker[w].job], worker[w].seenJob, "succeeded")]
    BY <1>5 DEF Finish, Own
  <2>2. job' \in [Checks -> JobStatus]
    BY <1>1, <2>1 DEF QInv, QTypes, Saved, JobStatus
  <2>3. report = WholeReport(worker[w].run, worker[w].read, worker[w].unread)
    BY <1>2, <2>1 DEF WholeReport, Row
  <2>4. SameChecksum(worker[w].read) \subseteq Samples
    BY <1>1 DEF SameChecksum, Task
  <2>5. report \in SUBSET Found /\ \A i \in report : i.run = worker[w].run
    BY <1>1, <1>3, <2>4 DEF Found, Row, Task
  <2> HIDE DEF report
  <2> QED BY <1>1, <2>1, <2>2, <2>3, <2>5, CommitKeeps
<1> QED BY <1>4, <1>5

\* Requests, and samples that come and go.
LEMMA RequestsKeep ==
  ASSUME QInv, NEW c \in Clients, NEW j \in Checks,
         QueueRead(c, j) \/ CancelRead(c, j) \/ QueueCommit(c) \/ CancelCommit(c) \/ Send(c)
  PROVE  QInv'
<1>1. CASE QueueRead(c, j) \/ CancelRead(c, j) \/ Send(c)
  <2>1. QTypes'
    BY <1>1 DEF QueueRead, CancelRead, Send, Holds, NoRequest, Ghosts, QInv, QTypes
  <2> QED BY <1>1, <2>1, NoTask DEF QueueRead, CancelRead, Send, Ghosts
<1>2. CASE QueueCommit(c) \/ CancelCommit(c)
  <2>1. QTypes'
    <3>1. CASE QueueCommit(c)
      BY <3>1 DEF QueueCommit, Holds, NoRequest, Ghosts, QInv, QTypes, JobStatus
    <3>2. CASE CancelCommit(c)
      BY <3>2 DEF CancelCommit, Holds, NoRequest, Ghosts, QInv, QTypes, JobStatus
    <3> QED BY <1>2, <3>1, <3>2
  <2> QED BY <1>2, <2>1, NoTask DEF QueueCommit, CancelCommit, Ghosts
<1> QED BY <1>1, <1>2

LEMMA QInvStep ==
  ASSUME QInv, [Next]_vars
  PROVE  QInv'
<1>1. ASSUME NEW c \in Clients, NEW j \in Checks, QueueRead(c, j) \/ CancelRead(c, j) PROVE QInv'
  BY <1>1, RequestsKeep
<1>2. ASSUME NEW c \in Clients, QueueCommit(c) \/ CancelCommit(c) \/ Send(c) PROVE QInv'
  <2>1. request[c].job \in Checks
    BY <1>2 DEF QueueCommit, CancelCommit, Send, QInv, QTypes
  <2> QED BY <1>2, <2>1, RequestsKeep
<1>3. ASSUME NEW s \in Samples, SampleChanges(s) PROVE QInv'
  <2>1. QTypes'
    BY <1>3 DEF SampleChanges, Ghosts, QInv, QTypes
  <2> QED BY <1>3, <2>1, NoTask DEF SampleChanges, Ghosts
<1>4. ASSUME NEW w \in Workers, NEW j \in Checks, Take(w, j) PROVE QInv'
  BY <1>4, TakeKeeps
<1>5. ASSUME NEW w \in Workers, RunStep(w) PROVE QInv'
  BY <1>5, ReadSamplesKeeps, SnapshotKeeps, DeleteKeeps, ValidateKeeps, CommitsKeep DEF RunStep
<1>6. ASSUME NEW w \in Workers, Raise(w) \/ Ack(w) \/ WorkerCrash(w) PROVE QInv'
  BY <1>6, EndsKeeps
<1>7. ASSUME NEW w \in Workers, Redeliver(w) PROVE QInv'
  <2>1. QTypes'
    BY <1>7 DEF Redeliver, Ghosts, QInv, QTypes
  <2> QED BY <1>7, <2>1, NoTask DEF Redeliver, Ghosts
<1>8. CASE UNCHANGED vars
  <2>1. QTypes'
    BY <1>8 DEF vars, QInv, QTypes
  <2> QED BY <1>8, <2>1, NoTask DEF vars
<1> QED BY <1>1, <1>2, <1>3, <1>4, <1>5, <1>6, <1>7, <1>8 DEF Next

-----------------------------------------------------------------------------
\* The rows of a whole report name the defects of its samples.
LEMMA WholeReportNames ==
  ASSUME NEW r, NEW S, NEW unread
  PROVE  {<<i.sample, i.kind>> : i \in WholeReport(r, S, unread)} = Defects(S, unread)
<1>1. \A s : Kinds(s, s \in unread) \subseteq {"annotation", "unreadable"}
  BY DEF Kinds
<1>2. \A s, kind : <<s, kind>> \in Defects(S, unread) <=>
                     \/ s \in S /\ kind \in Kinds(s, s \in unread)
                     \/ s \in SameChecksum(S) /\ kind = "duplicate"
  <2> DEFINE Of(s) == {<<s, kind>> : kind \in Kinds(s, s \in unread)}
  <2>1. \A s, kind : <<s, kind>> \in UNION {Of(q) : q \in S} <=> s \in S /\ kind \in Kinds(s, s \in unread)
    OBVIOUS
  <2> QED BY <2>1 DEF Defects
<1>3. \A d \in Defects(S, unread) : \E s, kind : d = <<s, kind>>
  BY DEF Defects
<1>4. ASSUME NEW i \in WholeReport(r, S, unread) PROVE <<i.sample, i.kind>> \in Defects(S, unread)
  <2>1. CASE i \in Rows(r, S, unread)
    BY <1>2, <2>1 DEF Rows
  <2>2. CASE i \notin Rows(r, S, unread)
    BY <1>2, <2>2 DEF WholeReport
  <2> QED BY <2>1, <2>2
<1>5. ASSUME NEW d \in Defects(S, unread)
      PROVE  \E i \in WholeReport(r, S, unread) : d = <<i.sample, i.kind>>
  <2>1. PICK s, kind : d = <<s, kind>>
    BY <1>3
  <2> DEFINE i == [run |-> r, sample |-> s, kind |-> kind]
  <2>2. i \in WholeReport(r, S, unread)
    <3>1. CASE s \in S /\ kind \in Kinds(s, s \in unread)
      BY <1>1, <3>1 DEF WholeReport, Rows
    <3>2. CASE s \in SameChecksum(S) /\ kind = "duplicate"
      BY <3>2 DEF WholeReport
    <3> QED BY <1>2, <2>1, <3>1, <3>2
  <2> QED BY <2>1, <2>2
<1> QED BY <1>4, <1>5

LEMMA ReportsShown == QInv => LastReportIsKept /\ ReportIsOfOneCheck
<1> SUFFICES ASSUME QInv PROVE LastReportIsKept /\ ReportIsOfOneCheck
  OBVIOUS
<1> DEFINE Names(S) == {<<i.sample, i.kind>> : i \in S}
           whole == WholeReport(last.run, last.read, last.unread)
<1>1. Names(whole) = Defects(last.read, last.unread)
  BY WholeReportNames
<1>2. Reported = Names(issues)
  BY DEF Reported
<1>3. whole \subseteq issues => Names(whole) \subseteq Names(issues)
  <2> HIDE DEF whole
  <2> QED OBVIOUS
<1> HIDE DEF Names
<1>4. LastReportIsKept
  BY <1>1, <1>2, <1>3 DEF QInv, ReportInv, LastReportIsKept
<1>5. ReportIsOfOneCheck
  BY <1>1, <1>2 DEF QInv, ReportInv, ReportIsOfOneCheck
<1> QED BY <1>4, <1>5

LEMMA QInvHolds == Spec => []QInv
  BY QInvInit, QInvStep, PTL DEF Spec

\* The report that was committed last is whole, whatever executions crash, are
\* cancelled or overlap, for any numbers of workers, checks, samples and faults.
THEOREM NoDefectIsLost == Spec => []LastReportIsKept
  BY QInvHolds, ReportsShown, PTL

\* Unless two executions overlap, the rows are those of one check.
THEOREM OneReport == Spec => []ReportIsOfOneCheck
  BY QInvHolds, ReportsShown, PTL

-----------------------------------------------------------------------------
(* How many executions there can be.                                        *)

\* The messages that wait, one by one.
Copies == {m \in Checks \X Nat : 1 <= m[2] /\ m[2] <= msgs[m[1]]}

\* The checks whose one message has not been sent.
Sending(c) == request[c].pc \in {"queue", "send"}
Unsent == {j \in Checks : job[j] = "absent" \/ \E c \in Clients : Sending(c) /\ request[c].job = j}

\* A check is queued by one request, which sends its message once the row exists.
SendInv ==
  /\ \A c, d \in Clients : Sending(c) /\ Sending(d) /\ request[c].job = request[d].job => c = d
  /\ \A c \in Clients : request[c].pc = "send" => job[request[c].job] # "absent"

\* An execution is paid for by a check or by a fault: the messages that wait
\* and those to be sent are the executions still to come.
CountInv ==
  /\ msgs \in [Checks -> Nat] /\ faults \in 0..MaxFaults
  /\ IsFiniteSet(Copies)
  /\ runs + Cardinality(Copies) + Cardinality(Unsent) <= Cardinality(Checks) + faults

\* No value is from an execution that has not begun.
RunInv ==
  /\ \A w \in Workers :
       /\ worker[w].run <= runs
       /\ worker[w].pc \notin {"idle", "ack"} => 1 <= worker[w].run
       /\ \A i \in worker[w].found \cup worker[w].doomed : 1 <= i.run /\ i.run <= runs
       /\ worker[w].locked \subseteq worker[w].doomed
  /\ \A i \in issues : 1 <= i.run /\ i.run <= runs
  /\ last.run <= runs

BInv == QInv /\ SendInv /\ CountInv /\ RunInv

LEMMA UnsentFinite == IsFiniteSet(Unsent)
  BY CheckAssumption, FS_Subset DEF Unsent

LEMMA BoundReached == CountInv /\ runs \in Nat => runs <= MaxRuns /\ MaxRuns \in Nat
<1>1. Cardinality(Unsent) \in Nat /\ Cardinality(Checks) \in Nat
  BY UnsentFinite, CheckAssumption, FS_CardinalityType
<1>2. CountInv => Cardinality(Copies) \in Nat
  BY FS_CardinalityType DEF CountInv
<1> QED BY <1>1, <1>2, CheckAssumption DEF CountInv, MaxRuns

LEMMA BInvInit == Init => BInv
<1> SUFFICES ASSUME Init PROVE BInv
  OBVIOUS
<1>1. SendInv
  BY DEF Init, SendInv, Sending, NoRequest
<1>2. CountInv
  <2>1. Copies = {} /\ Unsent = Checks
    BY DEF Init, Copies, Unsent
  <2>2. Cardinality({}) = 0 /\ IsFiniteSet({}) /\ Cardinality(Checks) \in Nat
    BY FS_EmptySet, CheckAssumption, FS_CardinalityType
  <2> QED BY <2>1, <2>2, CheckAssumption DEF Init, CountInv
<1>3. RunInv
  BY DEF Init, RunInv, Idle
<1> QED BY <1>1, <1>2, <1>3, QInvInit DEF BInv

\* Steps that neither send, take nor repeat a message.
LEMMA NoMessage ==
  ASSUME CountInv, Unsent' \subseteq Unsent, UNCHANGED <<msgs, runs>>, runs \in Nat,
         faults' \in {faults} \cup {n \in {faults + 1} : faults < MaxFaults}
  PROVE  CountInv'
<1>1. Copies' = Copies
  BY DEF Copies
<1>2. Cardinality(Unsent') <= Cardinality(Unsent)
  BY UnsentFinite, FS_Subset
<1>3. /\ Cardinality(Unsent') \in Nat /\ Cardinality(Unsent) \in Nat
      /\ Cardinality(Copies) \in Nat /\ Cardinality(Checks) \in Nat
  <2>1. IsFiniteSet(Unsent')
    BY UnsentFinite, FS_Subset
  <2> QED BY <2>1, UnsentFinite, CheckAssumption, FS_CardinalityType DEF CountInv
<1> QED BY <1>1, <1>2, <1>3, CheckAssumption DEF CountInv

\* One more message waits.
LEMMA OneMore ==
  ASSUME CountInv, NEW j \in Checks, msgs' = [msgs EXCEPT ![j] = msgs[j] + 1]
  PROVE  /\ msgs' \in [Checks -> Nat]
         /\ IsFiniteSet(Copies') /\ Cardinality(Copies') = Cardinality(Copies) + 1
<1>1. msgs' \in [Checks -> Nat] /\ msgs[j] \in Nat
  BY DEF CountInv
<1> DEFINE new == <<j, msgs[j] + 1>>
<1>2. Copies' = Copies \cup {new}
  <2>1. ASSUME NEW q \in Checks, NEW k \in Nat
        PROVE  <<q, k>> \in Copies' <=> <<q, k>> \in Copies \cup {new}
    BY <1>1 DEF Copies, CountInv
  <2> QED BY <2>1, <1>1 DEF Copies
<1>3. new \notin Copies
  BY <1>1 DEF Copies
<1> QED BY <1>1, <1>2, <1>3, FS_AddElement DEF CountInv

\* A message is taken.
LEMMA OneLess ==
  ASSUME CountInv, NEW j \in Checks, 0 < msgs[j], msgs' = [msgs EXCEPT ![j] = msgs[j] - 1]
  PROVE  /\ msgs' \in [Checks -> Nat]
         /\ IsFiniteSet(Copies') /\ Cardinality(Copies') = Cardinality(Copies) - 1
<1>1. msgs' \in [Checks -> Nat] /\ msgs[j] \in Nat
  BY DEF CountInv
<1> DEFINE old == <<j, msgs[j]>>
<1>2. Copies' = Copies \ {old}
  <2>1. ASSUME NEW q \in Checks, NEW k \in Nat
        PROVE  <<q, k>> \in Copies' <=> <<q, k>> \in Copies \ {old}
    BY <1>1 DEF Copies, CountInv
  <2> QED BY <2>1, <1>1 DEF Copies
<1>3. old \in Copies
  BY <1>1 DEF Copies
<1> QED BY <1>1, <1>2, <1>3, FS_RemoveElement DEF CountInv

LEMMA RequestsCounted ==
  ASSUME BInv, NEW c \in Clients, NEW j \in Checks,
         QueueRead(c, j) \/ CancelRead(c, j) \/ QueueCommit(c) \/ CancelCommit(c) \/ Send(c)
  PROVE  SendInv' /\ CountInv'
<1>1. /\ request \in [Clients -> [pc : {"idle", "queue", "cancel", "send"}, job : Checks \cup {NoJob}]]
      /\ job \in [Checks -> JobStatus] /\ runs \in Nat
      /\ \A d \in Clients : request[d].pc # "idle" => request[d].job \in Checks
  BY DEF BInv, QInv, QTypes
<1>2. CASE QueueRead(c, j) \/ CancelRead(c, j)
  <2>1. SendInv'
    BY <1>1, <1>2 DEF QueueRead, CancelRead, Holds, Ghosts, BInv, SendInv, Sending
  <2>2. Unsent' \subseteq Unsent
    BY <1>1, <1>2 DEF QueueRead, CancelRead, Holds, Ghosts, Unsent, Sending
  <2> QED BY <1>1, <1>2, <2>1, <2>2, NoMessage DEF QueueRead, CancelRead, Ghosts, BInv
<1>3. CASE QueueCommit(c) \/ CancelCommit(c)
  <2>1. SendInv'
    BY <1>1, <1>3 DEF QueueCommit, CancelCommit, Holds, NoRequest, Ghosts, BInv, SendInv, Sending
  <2>2. Unsent' \subseteq Unsent
    BY <1>1, <1>3 DEF QueueCommit, CancelCommit, Holds, NoRequest, Ghosts, Unsent, Sending
  <2> QED BY <1>1, <1>3, <2>1, <2>2, NoMessage DEF QueueCommit, CancelCommit, Ghosts, BInv
<1>4. CASE Send(c)
  <2> DEFINE q == request[c].job
  <2>1. /\ q \in Checks /\ request[c].pc = "send" /\ job[q] # "absent"
        /\ msgs' = [msgs EXCEPT ![q] = msgs[q] + 1]
        /\ request' = [request EXCEPT ![c] = NoRequest]
        /\ UNCHANGED <<job, runs, faults>>
    BY <1>1, <1>4 DEF Send, Holds, Ghosts, BInv, SendInv
  <2>2. SendInv'
    BY <1>1, <2>1 DEF NoRequest, BInv, SendInv, Sending
  <2>3. Unsent' = Unsent \ {q} /\ q \in Unsent
    BY <1>1, <2>1 DEF NoRequest, BInv, SendInv, Sending, Unsent
  <2> HIDE DEF q
  <2>4. /\ IsFiniteSet(Unsent') /\ Cardinality(Unsent') = Cardinality(Unsent) - 1
        /\ Cardinality(Unsent) \in Nat
    BY <2>3, UnsentFinite, FS_RemoveElement, FS_CardinalityType
  <2>5. /\ msgs' \in [Checks -> Nat]
        /\ IsFiniteSet(Copies') /\ Cardinality(Copies') = Cardinality(Copies) + 1
    BY <2>1, OneMore DEF BInv
  <2>6. Cardinality(Copies) \in Nat /\ Cardinality(Checks) \in Nat
    BY CheckAssumption, FS_CardinalityType DEF BInv, CountInv
  <2> QED BY <1>1, <2>1, <2>2, <2>4, <2>5, <2>6, CheckAssumption DEF BInv, CountInv
<1> QED BY <1>2, <1>3, <1>4

\* The requests and the broker leave the rows as they are.
LEMMA RunsKept ==
  ASSUME BInv, UNCHANGED <<worker, issues, last, runs>>
  PROVE  RunInv'
  BY DEF BInv, RunInv

\* A task is replaced, and nothing is committed.
LEMMA RunReplaced ==
  ASSUME BInv, NEW w \in Workers, NEW task, Becomes(w, task), NEW n \in Nat, runs' = n, runs <= n,
         task.run <= n, task.pc \notin {"idle", "ack"} => 1 <= task.run,
         \A i \in task.found \cup task.doomed : 1 <= i.run /\ i.run <= n,
         task.locked \subseteq task.doomed, UNCHANGED <<issues, last>>
  PROVE  RunInv'
<1>1. /\ worker'[w] = task
      /\ \A v \in Workers : v # w => worker'[v] = worker[v]
  BY Replaced DEF BInv, QInv
<1>2. /\ runs \in Nat /\ last.run \in Nat
      /\ \A i \in issues : i.run \in Nat
      /\ \A v \in Workers :
           /\ worker[v].run \in Nat
           /\ \A i \in worker[v].found \cup worker[v].doomed : i.run \in Nat
  BY DEF BInv, QInv, QTypes, Task, Found
<1>3. last.run <= n /\ \A i \in issues : 1 <= i.run /\ i.run <= n
  BY <1>2 DEF BInv, RunInv
<1>4. ASSUME NEW v \in Workers
      PROVE  /\ worker'[v].run <= n
             /\ worker'[v].pc \notin {"idle", "ack"} => 1 <= worker'[v].run
             /\ \A i \in worker'[v].found \cup worker'[v].doomed : 1 <= i.run /\ i.run <= n
             /\ worker'[v].locked \subseteq worker'[v].doomed
  <2>1. CASE v = w
    BY <1>1, <2>1
  <2>2. CASE v # w
    <3>1. worker'[v] = worker[v]
      BY <1>1, <2>2
    <3> QED BY <3>1, <1>2 DEF BInv, RunInv
  <2> QED BY <2>1, <2>2
<1> QED BY <1>3, <1>4 DEF RunInv

\* The requests are as they were, and no check is absent that was not.
LEMMA SendsKept ==
  ASSUME BInv, UNCHANGED request, \A j \in Checks : job'[j] = "absent" => job[j] = "absent"
  PROVE  SendInv' /\ Unsent' \subseteq Unsent
  BY DEF BInv, QInv, QTypes, SendInv, Unsent, Sending

LEMMA TakeCounted ==
  ASSUME BInv, NEW w \in Workers, NEW j \in Checks, Take(w, j)
  PROVE  SendInv' /\ CountInv' /\ RunInv'
<1>1. /\ worker[w].pc = "idle" /\ 0 < msgs[j] /\ runs \in Nat
      /\ msgs' = [msgs EXCEPT ![j] = msgs[j] - 1]
      /\ UNCHANGED <<live, job, issues, request, last, overlap, faults>>
  BY DEF Take, BInv, QInv, QTypes
<1>2. runs' \in {runs, runs + 1}
  BY DEF Take
<1>3. SendInv' /\ Unsent' = Unsent
  <2>1. Unsent' = Unsent
    BY <1>1 DEF Unsent, Sending
  <2> QED BY <1>1, <2>1, SendsKept
<1>4. CountInv'
  <2>1. /\ msgs' \in [Checks -> Nat]
        /\ IsFiniteSet(Copies') /\ Cardinality(Copies') = Cardinality(Copies) - 1
    BY <1>1, OneLess DEF BInv
  <2>2. Cardinality(Copies) \in Nat /\ Cardinality(Checks) \in Nat /\ Cardinality(Unsent) \in Nat
    BY CheckAssumption, UnsentFinite, FS_CardinalityType DEF BInv, CountInv
  <2> QED BY <1>1, <1>2, <1>3, <2>1, <2>2, CheckAssumption DEF BInv, CountInv
<1>5. RunInv'
  <2>1. CASE job[j] = "succeeded"
    BY <1>1, <2>1, RunsKept DEF Take
  <2>2. CASE job[j] # "succeeded"
    <3> DEFINE task == [Idle EXCEPT !.pc = "read", !.job = j, !.seenJob = job[j], !.run = runs + 1]
    <3>1. Becomes(w, task) /\ runs' = runs + 1
      BY <2>2 DEF Take
    <3>2. task.run = runs + 1 /\ task.found = {} /\ task.doomed = {} /\ task.locked = {}
      BY DEF Idle
    <3> HIDE DEF task
    <3>3. runs + 1 \in Nat /\ runs <= runs + 1 /\ 1 <= runs + 1
      BY <1>1
    <3> DEFINE n == runs + 1
    <3>4. n \in Nat /\ runs' = n /\ runs <= n /\ task.run <= n /\ 1 <= task.run
      BY <3>1, <3>2, <3>3
    <3> HIDE DEF n
    <3> QED BY <1>1, <3>1, <3>2, <3>4, RunReplaced
  <2> QED BY <2>1, <2>2
<1> QED BY <1>3, <1>4, <1>5

\* A step of w's task that commits nothing.
LEMMA StepCounted ==
  ASSUME BInv, NEW w \in Workers,
         \/ ReadSamples(w) \/ Snapshot(w) \/ Delete(w) \/ Raise(w) \/ Ack(w) \/ WorkerCrash(w)
         \/ \E s \in Samples, unreadable \in BOOLEAN : Validate(w, s, unreadable)
  PROVE  RunInv'
<1>1. /\ runs \in Nat /\ worker[w].run \in Nat /\ worker[w].run <= runs
      /\ worker[w] \in Task
      /\ worker[w].pc \notin {"idle", "ack"} => 1 <= worker[w].run
      /\ worker[w].locked \subseteq worker[w].doomed
      /\ \A i \in worker[w].found \cup worker[w].doomed : 1 <= i.run /\ i.run <= runs
      /\ \A i \in issues : 1 <= i.run /\ i.run <= runs
  BY DEF BInv, QInv, QTypes, RunInv, Task
<1>2. UNCHANGED <<issues, last, runs>>
  BY DEF ReadSamples, Snapshot, Delete, Raise, Ack, WorkerCrash, Validate, Ghosts
<1> SUFFICES \E task : /\ Becomes(w, task) /\ task.run <= runs
                       /\ task.pc \notin {"idle", "ack"} => 1 <= task.run
                       /\ \A i \in task.found \cup task.doomed : 1 <= i.run /\ i.run <= runs
                       /\ task.locked \subseteq task.doomed
  BY <1>1, <1>2, RunReplaced
<1>3. CASE ReadSamples(w)
  <2> DEFINE task == [worker[w] EXCEPT !.pc = "snapshot", !.read = live, !.todo = live]
  <2>1. Becomes(w, task) /\ worker[w].pc = "read"
    BY <1>3 DEF ReadSamples
  <2>2. /\ task.run = worker[w].run /\ task.found = worker[w].found
        /\ task.doomed = worker[w].doomed /\ task.locked = worker[w].locked
    BY <1>1 DEF Task
  <2> HIDE DEF task
  <2> QED BY <1>1, <2>1, <2>2
<1>4. CASE Snapshot(w)
  <2> DEFINE task == [worker[w] EXCEPT !.pc = "delete", !.doomed = issues]
  <2>1. Becomes(w, task) /\ worker[w].pc = "snapshot"
    BY <1>4 DEF Snapshot
  <2>2. /\ task.run = worker[w].run /\ task.found = worker[w].found
        /\ task.doomed = issues /\ task.locked = worker[w].locked
    BY <1>1 DEF Task
  <2>3. worker[w].locked = {}
    BY <2>1 DEF BInv, QInv, FoundInv
  <2> HIDE DEF task
  <2> QED BY <1>1, <2>1, <2>2, <2>3
<1>5. CASE Delete(w)
  <2> DEFINE task == [worker[w] EXCEPT !.pc = "validate",
                                       !.locked = worker[w].locked \cup (worker[w].doomed \cap issues)]
  <2>1. Becomes(w, task) /\ worker[w].pc = "delete"
    BY <1>5 DEF Delete
  <2>2. /\ task.run = worker[w].run /\ task.found = worker[w].found /\ task.doomed = worker[w].doomed
        /\ task.locked = worker[w].locked \cup (worker[w].doomed \cap issues)
    BY <1>1 DEF Task
  <2> HIDE DEF task
  <2> QED BY <1>1, <2>1, <2>2
<1>6. CASE Raise(w)
  <2>1. Becomes(w, Returned(worker[w].job))
    BY <1>6 DEF Raise, Own
  <2>2. /\ Returned(worker[w].job).run = 0 /\ Returned(worker[w].job).found = {}
        /\ Returned(worker[w].job).doomed = {} /\ Returned(worker[w].job).locked = {}
        /\ Returned(worker[w].job).pc = "ack"
    BY DEF Returned, Idle
  <2> QED BY <1>1, <2>1, <2>2
<1>7. CASE Ack(w) \/ WorkerCrash(w)
  <2>1. Becomes(w, Idle)
    BY <1>7 DEF Ack, WorkerCrash
  <2>2. Idle.run = 0 /\ Idle.found = {} /\ Idle.doomed = {} /\ Idle.locked = {} /\ Idle.pc = "idle"
    BY DEF Idle
  <2> QED BY <1>1, <2>1, <2>2
<1>8. CASE \E s \in Samples, unreadable \in BOOLEAN : Validate(w, s, unreadable)
  <2>1. PICK s \in Samples, unreadable \in BOOLEAN : Validate(w, s, unreadable)
    BY <1>8
  <2> DEFINE new == {Row(w, s, kind) : kind \in Kinds(s, unreadable)}
             unread == IF unreadable THEN worker[w].unread \cup {s} ELSE worker[w].unread
             task == [worker[w] EXCEPT !.todo = worker[w].todo \ {s}, !.seenJob = job[worker[w].job],
                                       !.unread = unread, !.found = worker[w].found \cup new]
  <2>2. Becomes(w, task) /\ worker[w].pc = "validate"
    BY <2>1 DEF Validate, Own
  <2>3. \A i \in new : i.run = worker[w].run
    BY DEF Row
  <2> HIDE DEF new, unread
  <2>4. /\ task.run = worker[w].run /\ task.found = worker[w].found \cup new
        /\ task.doomed = worker[w].doomed /\ task.locked = worker[w].locked
    BY <1>1 DEF Task
  <2> HIDE DEF task
  <2> QED BY <1>1, <2>2, <2>3, <2>4
<1> QED BY <1>3, <1>4, <1>5, <1>6, <1>7, <1>8

LEMMA CommitsCounted ==
  ASSUME BInv, NEW w \in Workers, ObserveCancel(w) \/ Finish(w)
  PROVE  RunInv'
<1> DEFINE whole == worker[w].found \cup {Row(w, s, "duplicate") : s \in SameChecksum(worker[w].read)}
<1>1. PICK found \in {worker[w].found, whole}, outcome \in {"succeeded", "cancelled"} :
        Commits(w, found, outcome)
  BY DEF ObserveCancel, Finish
<1>2. /\ runs \in Nat /\ worker[w].run \in Nat /\ worker[w].run <= runs
      /\ 1 <= worker[w].run
      /\ \A i \in worker[w].found : 1 <= i.run /\ i.run <= runs
      /\ \A i \in issues : 1 <= i.run /\ i.run <= runs
  BY DEF ObserveCancel, Finish, BInv, QInv, QTypes, RunInv, Task
<1>3. \A i \in found : 1 <= i.run /\ i.run <= runs
  <2>1. \A i \in whole : 1 <= i.run /\ i.run <= runs
    BY <1>2 DEF Row
  <2> HIDE DEF whole
  <2> QED BY <1>1, <1>2, <2>1
<1> HIDE DEF whole
<1> DEFINE task == Returned(worker[w].job)
<1>4. /\ Becomes(w, task) /\ runs' = runs
      /\ issues' = (issues \ worker[w].locked) \cup found
      /\ last'.run = worker[w].run
  BY <1>1 DEF Commits, Own
<1>5. task.run = 0 /\ task.found = {} /\ task.doomed = {} /\ task.locked = {} /\ task.pc = "ack"
  BY DEF Returned, Idle
<1> HIDE DEF task
<1>6. /\ worker'[w] = task
      /\ \A v \in Workers : v # w => worker'[v] = worker[v]
  BY <1>4, Replaced DEF BInv, QInv
<1>7. \A i \in issues' : 1 <= i.run /\ i.run <= runs
  BY <1>2, <1>3, <1>4
<1> QED BY <1>2, <1>4, <1>5, <1>6, <1>7 DEF BInv, RunInv

LEMMA BInvStep ==
  ASSUME BInv, [Next]_vars
  PROVE  BInv'
<1>1. QInv'
  BY QInvStep DEF BInv
<1>2. runs \in Nat /\ job \in [Checks -> JobStatus]
  BY DEF BInv, QInv, QTypes
<1> SUFFICES SendInv' /\ CountInv' /\ RunInv'
  BY <1>1 DEF BInv
<1>3. ASSUME NEW c \in Clients, NEW j \in Checks, QueueRead(c, j) \/ CancelRead(c, j)
      PROVE  SendInv' /\ CountInv' /\ RunInv'
  BY <1>3, RequestsCounted, RunsKept DEF QueueRead, CancelRead, Ghosts
<1>4. ASSUME NEW c \in Clients, QueueCommit(c) \/ CancelCommit(c) \/ Send(c)
      PROVE  SendInv' /\ CountInv' /\ RunInv'
  <2>1. request[c].job \in Checks
    BY <1>4 DEF QueueCommit, CancelCommit, Send, BInv, QInv, QTypes
  <2>2. UNCHANGED <<worker, issues, last, runs>>
    BY <1>4 DEF QueueCommit, CancelCommit, Send, Ghosts
  <2> QED BY <1>4, <2>1, <2>2, RequestsCounted, RunsKept
<1>5. ASSUME NEW s \in Samples, SampleChanges(s) PROVE SendInv' /\ CountInv' /\ RunInv'
  <2>1. UNCHANGED <<job, msgs, faults, request, worker, issues, last, runs>>
    BY <1>5 DEF SampleChanges, Ghosts
  <2> QED BY <1>2, <2>1, SendsKept, NoMessage, RunsKept DEF BInv
<1>6. ASSUME NEW w \in Workers, NEW j \in Checks, Take(w, j) PROVE SendInv' /\ CountInv' /\ RunInv'
  BY <1>6, TakeCounted
<1>7. ASSUME NEW w \in Workers, RunStep(w) \/ Raise(w) \/ Ack(w)
      PROVE  SendInv' /\ CountInv' /\ RunInv'
  <2>1. UNCHANGED <<request, msgs, runs>>
    BY <1>7 DEF RunStep, ReadSamples, Snapshot, Delete, Validate, ObserveCancel, Finish, Commits,
                Raise, Ack, Ghosts
  <2>2. faults' \in {faults} \cup {n \in {faults + 1} : faults < MaxFaults}
    BY <1>7 DEF RunStep, ReadSamples, Snapshot, Delete, Validate, ObserveCancel, Finish, Commits,
                Raise, Ack, Ghosts
  <2>3. \A j \in Checks : job'[j] = "absent" => job[j] = "absent"
    <3>1. CASE Finish(w)
      BY <1>2, <3>1 DEF Finish, Saved
    <3>2. CASE ~Finish(w)
      BY <1>7, <3>2 DEF RunStep, ReadSamples, Snapshot, Delete, Validate, ObserveCancel, Raise, Ack
    <3> QED BY <3>1, <3>2
  <2>4. RunInv'
    BY <1>7, StepCounted, CommitsCounted DEF RunStep
  <2>5. SendInv' /\ Unsent' \subseteq Unsent
    BY <2>1, <2>3, SendsKept
  <2> QED BY <1>2, <2>1, <2>2, <2>4, <2>5, NoMessage DEF BInv
<1>8. ASSUME NEW w \in Workers, WorkerCrash(w) \/ Redeliver(w) PROVE SendInv' /\ CountInv' /\ RunInv'
  <2> DEFINE j == worker[w].job
  <2>1. /\ j \in Checks /\ faults < MaxFaults /\ faults' = faults + 1
        /\ msgs' = [msgs EXCEPT ![j] = msgs[j] + 1]
        /\ UNCHANGED <<job, request, runs, issues, last>>
    BY <1>8 DEF WorkerCrash, Redeliver, Own, Ghosts, BInv, QInv, QTypes
  <2>2. SendInv' /\ Unsent' = Unsent
    <3>1. Unsent' = Unsent
      BY <2>1 DEF Unsent, Sending
    <3> QED BY <2>1, <3>1, SendsKept
  <2>3. CountInv'
    <3> HIDE DEF j
    <3>1. /\ msgs' \in [Checks -> Nat]
          /\ IsFiniteSet(Copies') /\ Cardinality(Copies') = Cardinality(Copies) + 1
      BY <2>1, OneMore DEF BInv
    <3>2. Cardinality(Copies) \in Nat /\ Cardinality(Checks) \in Nat /\ Cardinality(Unsent) \in Nat
      BY CheckAssumption, UnsentFinite, FS_CardinalityType DEF BInv, CountInv
    <3> QED BY <1>2, <2>1, <2>2, <3>1, <3>2, CheckAssumption DEF BInv, CountInv
  <2>4. RunInv'
    BY <1>8, <2>1, StepCounted, RunsKept DEF Redeliver
  <2> QED BY <2>2, <2>3, <2>4
<1>9. CASE UNCHANGED vars
  <2>1. UNCHANGED <<job, msgs, faults, request, worker, issues, last, runs>>
    BY <1>9 DEF vars
  <2> QED BY <1>2, <2>1, SendsKept, NoMessage, RunsKept DEF BInv
<1> QED BY <1>3, <1>4, <1>5, <1>6, <1>7, <1>8, <1>9 DEF Next

LEMMA BInvTypes == BInv => TypeOK
<1> SUFFICES ASSUME BInv PROVE TypeOK
  OBVIOUS
<1>1. runs \in Nat /\ runs <= MaxRuns /\ MaxRuns \in Nat
  BY BoundReached DEF BInv, QInv, QTypes
<1>2. issues \subseteq Issue
  BY <1>1 DEF BInv, QInv, QTypes, RunInv, Found, Issue
<1>3. ASSUME NEW w \in Workers
      PROVE  /\ DOMAIN worker[w] = DOMAIN Idle
             /\ worker[w].pc \in {"idle", "read", "snapshot", "delete", "validate", "ack"}
             /\ worker[w].job \in Checks \cup {NoJob} /\ worker[w].seenJob \in JobStatus
             /\ worker[w].run \in 0..MaxRuns
             /\ worker[w].todo \subseteq worker[w].read /\ worker[w].read \subseteq Samples
             /\ worker[w].locked \subseteq worker[w].doomed /\ worker[w].doomed \subseteq Issue
             /\ worker[w].found \subseteq Issue /\ worker[w].unread \subseteq worker[w].read
  <2>1. worker[w] \in Task
    BY DEF BInv, QInv, QTypes
  <2>2. DOMAIN worker[w] = DOMAIN Idle
    BY <2>1 DEF Task, Idle
  <2>3. worker[w].run \in 0..MaxRuns
    BY <1>1, <2>1 DEF BInv, RunInv, Task
  <2>4. worker[w].doomed \subseteq Issue /\ worker[w].found \subseteq Issue
    BY <1>1, <2>1 DEF BInv, RunInv, Task, Found, Issue
  <2> QED BY <2>1, <2>2, <2>3, <2>4 DEF BInv, RunInv, QInv, FoundInv, Task
<1>4. last \in [run : 0..MaxRuns, read : SUBSET Samples, unread : SUBSET Samples,
                 outcome : {"none", "succeeded", "cancelled"}]
  BY <1>1 DEF BInv, QInv, QTypes, RunInv
<1> QED BY <1>1, <1>2, <1>3, <1>4 DEF TypeOK, BInv, QInv, QTypes, CountInv

\* Every column and every loaded value has a value its code can give it, and no
\* more executions begin than there are checks and faults: a message is sent
\* once for each check, and only a crash or a redelivery repeats it.
THEOREM ChecksTyped == Spec => []TypeOK
<1>1. Spec => []BInv
  BY BInvInit, BInvStep, PTL DEF Spec
<1> QED BY <1>1, BInvTypes, PTL

=============================================================================
