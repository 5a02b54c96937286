---------------------------- MODULE QualityCheck ----------------------------
(***************************************************************************)
(* The quality report of one dataset version: queue_quality_check, the     *)
(* cancellation of its jobs, and the run_quality_check task that replaces  *)
(* the QualityIssue rows of the version in one long transaction.           *)
(*                                                                         *)
(* Requests, deliveries and loaded values are those of ImportPipeline.     *)
(* The task deletes the rows its statement sees, waiting for the locks of  *)
(* another execution that deletes them too, and inserts its own at the     *)
(* commit, so that two executions can be in the middle of it.  Samples     *)
(* come and go meanwhile (operation history).  A read of an annotation that *)
(* fails is caught and becomes an issue of its sample.                     *)
(***************************************************************************)
EXTENDS Integers, FiniteSets

CONSTANTS
  Workers,    \* worker slots
  Clients,    \* API requests that may be in progress at the same time
  Checks,     \* ids for the jobs that queue_quality_check creates
  NoJob,      \* "no job", in an idle worker slot or request
  Samples,    \* samples of the version
  Bad,        \* those whose annotation has a defect
  Missing,    \* of these, those that have none to read
  Empty,      \* and those whose defect is seen before the annotation is read
  Twins,      \* those that share one image checksum
  MaxFaults,  \* bound: worker crashes, redeliveries and failed reads
  MaxCopies   \* bound: copies of one job's message waiting in the broker

MaxRuns == Cardinality(Checks) + MaxFaults
Issue == [run : 1..MaxRuns, sample : Samples, kind : {"annotation", "unreadable", "duplicate"}]

ASSUME CheckAssumption == /\ NoJob \notin Checks /\ IsFiniteSet(Checks)
                          /\ Bad \subseteq Samples /\ Twins \subseteq Samples
                          /\ Missing \subseteq Bad /\ Empty \subseteq Bad
                          /\ MaxFaults \in Nat /\ MaxCopies \in Nat

VARIABLES
  live,     \* samples that are not deleted
  job,      \* Job.status; "absent" before the row exists
  issues,   \* committed QualityIssue rows, each with the execution it is from
  msgs,     \* messages waiting in the broker, per job
  worker,   \* worker slots: task, position, loaded values and its transaction
  request,  \* API requests in progress
  runs,     \* executions begun
  last,     \* the execution that committed last, what it had read, its outcome
  overlap,  \* have two executions been in their transactions together?
  faults    \* faults so far, at most MaxFaults

vars == <<live, job, issues, msgs, worker, request, runs, last, overlap, faults>>

JobStatus == {"absent", "queued", "succeeded", "cancelled"}

\* `doomed' are the rows the DELETE sees, `locked' those it has deleted,
\* `found' the rows added to the session, `unread' the samples whose annotation could
\* not be read.
Idle == [pc |-> "idle", job |-> NoJob, seenJob |-> "absent", run |-> 0, read |-> {},
         todo |-> {}, doomed |-> {}, locked |-> {}, found |-> {}, unread |-> {}]
Returned(j) == [Idle EXCEPT !.pc = "ack", !.job = j]
NoRequest == [pc |-> "idle", job |-> NoJob]

\* Every column and every loaded value has a value its code can give it; in
\* particular the row of a check is never seen to be `running'.
TypeOK ==
  /\ live \subseteq Samples
  /\ job \in [Checks -> JobStatus]
  /\ issues \subseteq Issue
  /\ msgs \in [Checks -> Nat]
  /\ \A w \in Workers :
       /\ DOMAIN worker[w] = DOMAIN Idle
       /\ worker[w].pc \in {"idle", "read", "snapshot", "delete", "validate", "ack"}
       /\ worker[w].job \in Checks \cup {NoJob} /\ worker[w].seenJob \in JobStatus
       /\ worker[w].run \in 0..MaxRuns
       /\ worker[w].todo \subseteq worker[w].read /\ worker[w].read \subseteq Samples
       /\ worker[w].locked \subseteq worker[w].doomed /\ worker[w].doomed \subseteq Issue
       /\ worker[w].found \subseteq Issue /\ worker[w].unread \subseteq worker[w].read
  /\ request \in [Clients -> [pc : {"idle", "queue", "cancel", "send"}, job : Checks \cup {NoJob}]]
  /\ runs \in 0..MaxRuns
  /\ last \in [run : 0..MaxRuns, read : SUBSET Samples, unread : SUBSET Samples,
               outcome : {"none", "succeeded", "cancelled"}]
  /\ overlap \in BOOLEAN
  /\ faults \in 0..MaxFaults

\* A version that is ready, not yet checked.
Init ==
  /\ live = Samples
  /\ job = [j \in Checks |-> "absent"]
  /\ issues = {}
  /\ msgs = [j \in Checks |-> 0]
  /\ worker = [w \in Workers |-> Idle]
  /\ request = [c \in Clients |-> NoRequest]
  /\ runs = 0
  /\ last = [run |-> 0, read |-> {}, unread |-> {}, outcome |-> "none"]
  /\ overlap = FALSE /\ faults = 0

-----------------------------------------------------------------------------
Saved(current, seen, new) == IF new = seen THEN current ELSE new
Holds(c, r) == request' = [request EXCEPT ![c] = r]
Becomes(w, task) == worker' = [worker EXCEPT ![w] = task]
Own(w) == worker[w].job
Ghosts == <<runs, last, overlap>>

(* API requests.                                                            *)

QueueRead(c, j) ==
  /\ request[c].pc = "idle"
  /\ job[j] = "absent" /\ \A d \in Clients : request[d].job # j
  /\ Holds(c, [pc |-> "queue", job |-> j])
  /\ UNCHANGED <<live, job, issues, msgs, worker, Ghosts, faults>>

QueueCommit(c) ==
  /\ request[c].pc = "queue"
  /\ job' = [job EXCEPT ![request[c].job] = "queued"]
  /\ Holds(c, [pc |-> "send", job |-> request[c].job])
  /\ UNCHANGED <<live, issues, msgs, worker, Ghosts, faults>>

Send(c) ==
  /\ request[c].pc = "send"
  /\ msgs' = [msgs EXCEPT ![request[c].job] = @ + 1]
  /\ Holds(c, NoRequest)
  /\ UNCHANGED <<live, job, issues, worker, Ghosts, faults>>

CancelRead(c, j) ==
  /\ request[c].pc = "idle"
  /\ job[j] = "queued"
  /\ Holds(c, [pc |-> "cancel", job |-> j])
  /\ UNCHANGED <<live, job, issues, msgs, worker, Ghosts, faults>>

\* Mutant: a status no other code knows.
CancelMisspelt(c) ==
  /\ request[c].pc = "cancel"
  /\ job' = [job EXCEPT ![request[c].job] = "canceled"]
  /\ Holds(c, NoRequest)
  /\ UNCHANGED <<live, issues, msgs, worker, Ghosts, faults>>
CancelCommit(c) ==
  /\ request[c].pc = "cancel"
  /\ job' = [job EXCEPT ![request[c].job] = "cancelled"]
  /\ Holds(c, NoRequest)
  /\ UNCHANGED <<live, issues, msgs, worker, Ghosts, faults>>

\* Samples are deleted and restored at any time.
SampleChanges(s) ==
  /\ live' = IF s \in live THEN live \ {s} ELSE live \cup {s}
  /\ UNCHANGED <<job, issues, msgs, worker, request, Ghosts, faults>>

-----------------------------------------------------------------------------
(* The broker.                                                              *)

Ack(w) ==
  /\ worker[w].pc = "ack"
  /\ Becomes(w, Idle)
  /\ UNCHANGED <<live, job, issues, msgs, request, Ghosts, faults>>

\* The transaction of a worker that dies is rolled back, its locks are gone.
WorkerCrash(w) ==
  /\ faults < MaxFaults
  /\ worker[w].pc # "idle"
  /\ msgs' = [msgs EXCEPT ![Own(w)] = @ + 1]
  /\ Becomes(w, Idle)
  /\ faults' = faults + 1
  /\ UNCHANGED <<live, job, issues, request, Ghosts>>

Redeliver(w) ==
  /\ faults < MaxFaults
  /\ worker[w].pc # "idle"
  /\ msgs[Own(w)] < MaxCopies
  /\ msgs' = [msgs EXCEPT ![Own(w)] = @ + 1]
  /\ faults' = faults + 1
  /\ UNCHANGED <<live, job, issues, worker, request, Ghosts>>

-----------------------------------------------------------------------------
(* run_quality_check                                                        *)

\* Only a check that has succeeded is not run again; a cancelled one is.
Take(w, j) ==
  /\ worker[w].pc = "idle"
  /\ msgs[j] > 0
  /\ msgs' = [msgs EXCEPT ![j] = @ - 1]
  /\ IF job[j] = "succeeded" THEN UNCHANGED <<worker, runs>>
     ELSE /\ runs' = runs + 1
          /\ Becomes(w, [Idle EXCEPT !.pc = "read", !.job = j, !.seenJob = job[j],
                                     !.run = runs + 1])
  /\ UNCHANGED <<live, job, issues, request, last, overlap, faults>>

ReadSamples(w) ==
  /\ worker[w].pc = "read"
  /\ Becomes(w, [worker[w] EXCEPT !.pc = "snapshot", !.read = live, !.todo = live])
  /\ UNCHANGED <<live, job, issues, msgs, request, Ghosts, faults>>

InTransaction(v) == worker[v].pc \in {"delete", "validate"}

\* The DELETE begins: it will see no row committed from now on.
Snapshot(w) ==
  /\ worker[w].pc = "snapshot"
  /\ Becomes(w, [worker[w] EXCEPT !.pc = "delete", !.doomed = issues])
  /\ overlap' = (overlap \/ \E v \in Workers \ {w} : InTransaction(v))
  /\ UNCHANGED <<live, job, issues, msgs, request, runs, last, faults>>

\* It waits for rows that another transaction has deleted, and skips them when
\* that one commits.
Delete(w) ==
  /\ worker[w].pc = "delete"
  /\ \A v \in Workers \ {w} : worker[v].locked \cap worker[w].doomed = {}
  /\ Becomes(w, [worker[w] EXCEPT !.pc = "validate", !.locked = @ \cup (worker[w].doomed \cap issues)])
  /\ UNCHANGED <<live, job, issues, msgs, request, Ghosts, faults>>

\* Mutant: the rows of earlier checks are kept.
KeepsOld(w, found, outcome) ==
  /\ issues' = issues \cup found
  /\ last' = [run |-> worker[w].run, read |-> worker[w].read, unread |-> worker[w].unread,
              outcome |-> outcome]
  /\ Becomes(w, Returned(Own(w)))
  /\ UNCHANGED <<live, msgs, request, runs, overlap, faults>>
\* The commit of w's transaction, whose rows then are `found'.
Commits(w, found, outcome) ==
  /\ issues' = (issues \ worker[w].locked) \cup found
  /\ last' = [run |-> worker[w].run, read |-> worker[w].read, unread |-> worker[w].unread,
              outcome |-> outcome]
  /\ Becomes(w, Returned(Own(w)))
  /\ UNCHANGED <<live, msgs, request, runs, overlap, faults>>

Row(w, s, kind) == [run |-> worker[w].run, sample |-> s, kind |-> kind]

\* What is reported of a sample, whose annotation is read or cannot be.
Kinds(s, unreadable) ==
  {kind \in {"annotation"} : s \in Bad /\ (unreadable => s \in Empty)}
    \cup {kind \in {"unreadable"} : unreadable}

\* Mutant: the rows added for the samples before are dropped.
ValidateOnlyLast(w, s, unreadable) ==
  /\ worker[w].pc = "validate"
  /\ s \in worker[w].todo
  /\ job[Own(w)] # "cancelled"
  /\ unreadable => s \notin Missing /\ faults < MaxFaults
  /\ faults' = IF unreadable THEN faults + 1 ELSE faults
  /\ Becomes(w, [worker[w] EXCEPT
                   !.todo = @ \ {s}, !.seenJob = job[Own(w)],
                   !.unread = IF unreadable THEN @ \cup {s} ELSE @,
                   !.found = {Row(w, s, kind) : kind \in Kinds(s, unreadable)}])
  /\ UNCHANGED <<live, job, issues, msgs, request, Ghosts>>
\* job_is_cancelled, and the checks of one sample.  The refresh throws away the
\* `running' assigned before it.  Whatever the reading of the annotation raises is
\* caught, the soft time limit too.
Validate(w, s, unreadable) ==
  /\ worker[w].pc = "validate"
  /\ s \in worker[w].todo
  /\ job[Own(w)] # "cancelled"
  /\ unreadable => s \notin Missing /\ faults < MaxFaults
  /\ faults' = IF unreadable THEN faults + 1 ELSE faults
  /\ Becomes(w, [worker[w] EXCEPT
                   !.todo = @ \ {s}, !.seenJob = job[Own(w)],
                   !.unread = IF unreadable THEN @ \cup {s} ELSE @,
                   !.found = @ \cup {Row(w, s, kind) : kind \in Kinds(s, unreadable)}])
  /\ UNCHANGED <<live, job, issues, msgs, request, Ghosts>>

\* A cancelled check commits the deletion and what it has found so far.
ObserveCancel(w) ==
  /\ worker[w].pc = "validate"
  /\ worker[w].todo # {}
  /\ job[Own(w)] = "cancelled"
  /\ Commits(w, worker[w].found, "cancelled")
  /\ UNCHANGED job

SameChecksum(S) == IF Cardinality(S \cap Twins) < 2 THEN {} ELSE S \cap Twins

Finish(w) ==
  /\ worker[w].pc = "validate"
  /\ worker[w].todo = {}
  /\ Commits(w, worker[w].found \cup
                  {Row(w, s, "duplicate") : s \in SameChecksum(worker[w].read)}, "succeeded")
  /\ job' = [job EXCEPT ![Own(w)] = Saved(@, worker[w].seenJob, "succeeded")]

\* An exception or the soft time limit anywhere else: there is no handler, the
\* transaction is rolled back and the message acknowledged.
Raise(w) ==
  /\ worker[w].pc \notin {"idle", "ack"}
  /\ Becomes(w, Returned(Own(w)))
  /\ UNCHANGED <<live, job, issues, msgs, request, Ghosts, faults>>

-----------------------------------------------------------------------------
RunStep(w) == \/ ReadSamples(w) \/ Snapshot(w) \/ Delete(w)
              \/ \E s \in Samples, unreadable \in BOOLEAN : Validate(w, s, unreadable)
              \/ ObserveCancel(w) \/ Finish(w)

Next ==
  \/ \E c \in Clients :
       \/ \E j \in Checks : QueueRead(c, j) \/ CancelRead(c, j)
       \/ QueueCommit(c) \/ CancelCommit(c) \/ Send(c)
  \/ \E s \in Samples : SampleChanges(s)
  \/ \E w \in Workers :
       \/ \E j \in Checks : Take(w, j)
       \/ RunStep(w) \/ Raise(w) \/ Ack(w) \/ WorkerCrash(w) \/ Redeliver(w)

Spec == Init /\ [][Next]_vars

-----------------------------------------------------------------------------
(* Properties.                                                              *)

Reported == {<<i.sample, i.kind>> : i \in issues}
\* What a check of the samples S has to report, if it cannot read the annotations of
\* some.
Defects(S, unread) ==
  (UNION {{<<s, kind>> : kind \in Kinds(s, s \in unread)} : s \in S})
    \cup {<<s, "duplicate">> : s \in SameChecksum(S)}

\* The report misses nothing: whatever executions crash, are cancelled or run
\* at the same time, the rows of the check that committed last are all there,
\* and if it succeeded they name every defect of the samples it read, and every
\* sample whose annotation it could not read.
LastReportIsKept ==
  last.outcome = "succeeded" => Defects(last.read, last.unread) \subseteq Reported

\* The report is of one check: unless two executions overlap, no row of an
\* earlier one survives, so nothing is reported twice, or that was not found: a sample
\* without a defect is reported only if that very check failed to read it.
ReportIsOfOneCheck ==
  ~overlap =>
    /\ \A i \in issues : i.run = last.run
    /\ last.outcome = "succeeded" => Reported = Defects(last.read, last.unread)

=============================================================================
