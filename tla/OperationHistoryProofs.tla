------------------------ MODULE OperationHistoryProofs ------------------------
(***************************************************************************)
(* Undo and redo, for any numbers of users, samples and operations, next   *)
(* to an import that is still adding samples.                              *)
(*                                                                         *)
(* Until two conflicting requests overlap, what a request has loaded of    *)
(* the samples it lists is what is there, and of the deletions that can    *)
(* still be undone or redone at most one lists a sample: a new deletion    *)
(* lists live samples only, and discards the ones that were undone.        *)
(*                                                                         *)
(* Undoing newest first and redoing oldest first keeps the operations      *)
(* undone behind those applied, so that each of them would restore what    *)
(* the ones before it on the same column have left there.                  *)
(***************************************************************************)
EXTENDS OperationHistory, WellFoundedInduction, TLAPS

Deletion(o) == o.action \in {"samples.delete", "import_batch.delete"}

\* An operation's payload fits its action.
OpTyped(o) ==
  /\ o \in Operation
  /\ o.action = "samples.subset_update" =>
       o.after \in Subsets /\ \A s \in Listed(o) : o.before[s] \in Subsets
  /\ Deletion(o) => \A s \in Listed(o) : o.before[s] \in SampleStatus
  /\ o.action = "import_batch.delete" => o.part \in PartStatus
  /\ o.action = "import_batch.update" => o.part \in Names /\ o.after \in Names

HTypes ==
  /\ TypeOK
  /\ \A i \in Ops : OpTyped(op[i])
  /\ \A c \in Clients : /\ OpTyped(request[c].op)
                        /\ request[c].pc \in {"undo", "redo"} => request[c].id \in Ops

-----------------------------------------------------------------------------
(* Types.                                                                   *)

LEMMA Payload ==
  ASSUME NEW S \in SUBSET Samples, NEW f \in [S -> Subsets \cup SampleStatus]
  PROVE  f \in UNION {[R -> Subsets \cup SampleStatus] : R \in SUBSET Samples}
  OBVIOUS

LEMMA ListedSamples ==
  ASSUME NEW o \in Operation
  PROVE  Listed(o) \subseteq Samples
<1>1. PICK S \in SUBSET Samples : o.before \in [S -> Subsets \cup SampleStatus]
  BY DEF Operation
<1> QED BY <1>1 DEF Listed

LEMMA NoOpTyped == OpTyped(NoOp)
<1> DEFINE none == [s \in {} |-> Imported]
<1>1. none \in [{} -> Subsets \cup SampleStatus] /\ DOMAIN none = {}
  OBVIOUS
<1>2. none \in UNION {[R -> Subsets \cup SampleStatus] : R \in SUBSET Samples}
  BY <1>1, Payload
<1> HIDE DEF none
<1>3. NoOp = [action |-> "none", status |-> "absent", before |-> none, part |-> "none",
              after |-> "deleted"]
  BY DEF NoOp, none
<1>4. NoOp \in Operation
  BY <1>2, <1>3 DEF Operation
<1> QED BY <1>3, <1>4 DEF OpTyped, Deletion

LEMMA NewRowsTyped == NewSample \in Sample /\ NewPart \in Part
  BY HistoryAssumption DEF HistoryAssumption, NewSample, NewPart, Sample, Part, SampleStatus, PartStatus

LEMMA NoRequestTyped == NoRequest \in Request /\ NoRequest.op = NoOp /\ NoRequest.pc = "idle"
  BY NoOpTyped, NewRowsTyped DEF NoRequest, Request, OpTyped

LEMMA HTypesInit == Init => HTypes
<1> SUFFICES ASSUME Init PROVE HTypes
  OBVIOUS
<1>1. TypeOK
  BY NoOpTyped, NewRowsTyped, NoRequestTyped DEF Init, TypeOK, OpTyped, PartStatus
<1>2. /\ \A i \in Ops : OpTyped(op[i])
      /\ \A c \in Clients : /\ OpTyped(request[c].op)
                            /\ request[c].pc \in {"undo", "redo"} => request[c].id \in Ops
  BY NoOpTyped, NoRequestTyped DEF Init
<1> QED BY <1>1, <1>2 DEF HTypes

\* A request that reads.
LEMMA ReadsTyped ==
  ASSUME HTypes, NEW c \in Clients, NEW pc \in {"record", "undo", "redo"}, NEW id \in Ops \cup {0},
         pc # "record" => id \in Ops, NEW o, OpTyped(o), Reads(c, pc, id, o)
  PROVE  HTypes'
<1> DEFINE seen == [s \in Samples |-> IF s \in Listed(o) THEN sample[s] ELSE NewSample]
           new == [pc |-> pc, id |-> id, op |-> o, part |-> part, sample |-> seen]
<1>1. /\ request' = [request EXCEPT ![c] = new]
      /\ UNCHANGED <<rows, sample, part, op, import, disjoint, inOrder>>
  BY DEF Reads, dbVars
<1>2. seen \in [Samples -> Sample]
  BY NewRowsTyped DEF HTypes, TypeOK
<1> HIDE DEF seen
<1>3. new \in Request /\ new.op = o /\ new.pc = pc /\ new.id = id
  BY <1>2 DEF Request, HTypes, TypeOK, OpTyped
<1> HIDE DEF new
<1>4. /\ request' \in [Clients -> Request]
      /\ request'[c] = new
      /\ \A d \in Clients : d # c => request'[d] = request[d]
  BY <1>1, <1>3 DEF HTypes, TypeOK
<1>5. TypeOK'
  BY <1>1, <1>4 DEF HTypes, TypeOK
<1>6. \A i \in Ops : OpTyped(op'[i])
  BY <1>1 DEF HTypes
<1>7. ASSUME NEW d \in Clients
      PROVE  /\ OpTyped(request'[d].op)
             /\ request'[d].pc \in {"undo", "redo"} => request'[d].id \in Ops
  <2>1. CASE d = c
    BY <1>3, <1>4, <2>1
  <2>2. CASE d # c
    BY <1>4, <2>2 DEF HTypes
  <2> QED BY <2>1, <2>2
<1> QED BY <1>5, <1>6, <1>7 DEF HTypes, OpTyped, Deletion, Listed

\* What a handler records of the samples S.
LEMMA NewOperation ==
  ASSUME NEW S \in SUBSET Samples, NEW f \in [S -> Subsets \cup SampleStatus], NEW action, NEW p, NEW after,
         action \in {"samples.subset_update", "samples.delete", "import_batch.update", "import_batch.delete"},
         p \in Names \cup PartStatus \cup {"none"}, after \in Subsets \cup Names \cup {"deleted"},
         NEW o, o = [action |-> action, status |-> "applied", before |-> f, part |-> p, after |-> after]
  PROVE  /\ o \in Operation /\ Listed(o) = S
         /\ o.action = action /\ o.status = "applied" /\ o.before = f /\ o.part = p /\ o.after = after
  BY Payload DEF Operation, Listed

LEMMA StatusesTyped ==
  ASSUME HTypes, NEW S \in SUBSET Samples
  PROVE  /\ StatusOf(S) \in [S -> Subsets \cup SampleStatus]
         /\ \A s \in S : StatusOf(S)[s] \in SampleStatus /\ StatusOf(S)[s] = sample[s].status
  BY DEF StatusOf, HTypes, TypeOK, Sample

LEMMA LiveSamples == ASSUME HTypes PROVE Live \in SUBSET Samples /\ Live \subseteq rows
  BY DEF Live, HTypes, TypeOK

\* The request that a handler's read leaves is of a well-typed operation that
\* lists the samples asked for; o is that operation.
LEMMA SubsetOperation ==
  ASSUME HTypes, NEW S, NEW v \in Subsets, S # {}, S \subseteq Live,
         NEW o, o = [action |-> "samples.subset_update", status |-> "applied",
                     before |-> [s \in S |-> sample[s].subset], part |-> "none", after |-> v]
  PROVE  /\ OpTyped(o) /\ Listed(o) = S /\ o.status = "applied"
         /\ ~Deletion(o) /\ ~PartAction(o)
<1> DEFINE f == [s \in S |-> sample[s].subset]
<1>1. S \in SUBSET Samples
  BY LiveSamples
<1>2. f \in [S -> Subsets \cup SampleStatus] /\ \A s \in S : f[s] \in Subsets
  BY <1>1 DEF HTypes, TypeOK, Sample
<1> HIDE DEF f
<1>3. o = [action |-> "samples.subset_update", status |-> "applied", before |-> f, part |-> "none",
           after |-> v]
  BY DEF f
<1>4. /\ o \in Operation /\ Listed(o) = S /\ o.before = f /\ o.after = v
      /\ o.action = "samples.subset_update" /\ o.status = "applied"
  BY <1>1, <1>2, <1>3, NewOperation
<1> QED BY <1>2, <1>4 DEF OpTyped, Deletion, PartAction

LEMMA DeleteOperation ==
  ASSUME HTypes, NEW S, S \subseteq Live,
         NEW action, NEW p, \/ action = "samples.delete" /\ p = "none"
                            \/ action = "import_batch.delete" /\ p \in PartStatus,
         NEW o, o = [action |-> action, status |-> "applied", before |-> StatusOf(S), part |-> p,
                     after |-> "deleted"]
  PROVE  /\ OpTyped(o) /\ Listed(o) = S /\ o.status = "applied" /\ o.action = action
         /\ Deletion(o) /\ \A s \in S : o.before[s] = sample[s].status
<1>1. S \in SUBSET Samples
  BY LiveSamples
<1>2. /\ o \in Operation /\ Listed(o) = S /\ o.before = StatusOf(S) /\ o.part = p
      /\ o.action = action /\ o.status = "applied"
  <2>1. /\ action \in {"samples.subset_update", "samples.delete", "import_batch.update",
                       "import_batch.delete"}
        /\ p \in Names \cup PartStatus \cup {"none"}
    OBVIOUS
  <2>2. StatusOf(S) \in [S -> Subsets \cup SampleStatus]
    BY <1>1, StatusesTyped
  <2> QED BY <1>1, <2>1, <2>2, NewOperation
<1> QED BY <1>1, <1>2, StatusesTyped DEF OpTyped, Deletion

LEMMA RenameOperation ==
  ASSUME HTypes, NEW n \in Names,
         NEW o, o = [action |-> "import_batch.update", status |-> "applied",
                     before |-> [s \in {} |-> "ready"], part |-> part.name, after |-> n]
  PROVE  /\ OpTyped(o) /\ Listed(o) = {} /\ o.status = "applied"
         /\ ~Deletion(o) /\ PartAction(o)
<1> DEFINE f == [s \in {} |-> "ready"]
<1>1. f \in [{} -> Subsets \cup SampleStatus]
  OBVIOUS
<1> HIDE DEF f
<1>2. o = [action |-> "import_batch.update", status |-> "applied", before |-> f, part |-> part.name,
           after |-> n]
  BY DEF f
<1>3. part.name \in Names
  BY DEF HTypes, TypeOK, Part
<1>4. /\ o \in Operation /\ Listed(o) = {} /\ o.part = part.name /\ o.after = n
      /\ o.action = "import_batch.update" /\ o.status = "applied"
  <2>1. {} \in SUBSET Samples
    OBVIOUS
  <2> DEFINE empty == {}
  <2> HIDE DEF empty
  <2>2. f \in [empty -> Subsets \cup SampleStatus] /\ empty \in SUBSET Samples
    BY <1>1 DEF empty
  <2>3. Listed(o) = empty /\ o \in Operation /\ o.part = part.name /\ o.after = n
        /\ o.action = "import_batch.update" /\ o.status = "applied"
    BY SMTT(20), <1>2, <1>3, <2>2, NewOperation
  <2> QED BY <2>3 DEF empty
<1> QED BY <1>3, <1>4 DEF OpTyped, Deletion, PartAction

\* A commit leaves columns of their types.
LEMMA ReplayedTyped ==
  ASSUME NEW current \in Sample, NEW seen \in Sample, NEW o, OpTyped(o), NEW s \in Listed(o),
         NEW forward \in BOOLEAN
  PROVE  Replayed(current, seen, o, s, forward) \in Sample
<1>1. CASE o.action = "samples.subset_update"
  <2>1. (IF forward THEN o.after ELSE o.before[s]) \in Subsets
    BY <1>1 DEF OpTyped
  <2>2. Saved(current.subset, seen.subset, IF forward THEN o.after ELSE o.before[s]) \in Subsets
    BY <2>1 DEF Saved, Sample
  <2>3. Replayed(current, seen, o, s, forward)
          = [current EXCEPT !.subset =
               Saved(current.subset, seen.subset, IF forward THEN o.after ELSE o.before[s])]
    BY <1>1 DEF Replayed
  <2> QED BY <2>2, <2>3 DEF Sample
<1>2. CASE Deletion(o)
  <2> DEFINE d == IF forward THEN TRUE ELSE Saved(current.deleted, seen.deleted, FALSE)
             t == Saved(current.status, seen.status, IF forward THEN "deleted" ELSE o.before[s])
  <2>1. Replayed(current, seen, o, s, forward) = [current EXCEPT !.deleted = d, !.status = t]
    BY <1>2 DEF Replayed, Deletion
  <2>2. o.before[s] \in SampleStatus
    BY <1>2 DEF OpTyped
  <2>3. d \in BOOLEAN /\ t \in SampleStatus
    BY <2>2 DEF Saved, Sample, SampleStatus
  <2> QED BY <2>1, <2>3 DEF Sample
<1>3. CASE o.action # "samples.subset_update" /\ ~Deletion(o)
  BY <1>3 DEF Replayed, Deletion
<1> QED BY <1>1, <1>2, <1>3

LEMMA ReplayedPartTyped ==
  ASSUME NEW current \in Part, NEW seen \in Part, NEW o, OpTyped(o), NEW forward \in BOOLEAN
  PROVE  ReplayedPart(current, seen, o, forward) \in Part
<1>1. CASE o.action = "import_batch.update"
  <2> DEFINE n == Saved(current.name, seen.name, IF forward THEN o.after ELSE o.part)
  <2>1. ReplayedPart(current, seen, o, forward) = [current EXCEPT !.name = n]
    BY <1>1 DEF ReplayedPart
  <2>2. n \in Names
    BY <1>1 DEF OpTyped, Saved, Part
  <2> QED BY <2>1, <2>2 DEF Part
<1>2. CASE o.action = "import_batch.delete"
  <2> DEFINE d == IF forward THEN TRUE ELSE Saved(current.deleted, seen.deleted, FALSE)
             t == Saved(current.status, seen.status, IF forward THEN "deleted" ELSE o.part)
  <2>1. ReplayedPart(current, seen, o, forward) = [current EXCEPT !.deleted = d, !.status = t]
    BY <1>2 DEF ReplayedPart
  <2>2. d \in BOOLEAN /\ t \in PartStatus
    BY <1>2 DEF OpTyped, Saved, Part, PartStatus
  <2> QED BY <2>1, <2>2 DEF Part
<1>3. CASE o.action \notin {"import_batch.update", "import_batch.delete"}
  BY <1>3 DEF ReplayedPart
<1> QED BY <1>1, <1>2, <1>3

LEMMA PerformedTyped ==
  ASSUME HTypes, NEW c \in Clients, NEW forward \in BOOLEAN,
         Replay(request[c], forward) \/ DeleteLive(request[c])
  PROVE  sample' \in [Samples -> Sample] /\ part' \in Part
<1>1. /\ request[c].op \in Operation /\ OpTyped(request[c].op)
      /\ request[c].part \in Part /\ request[c].sample \in [Samples -> Sample]
      /\ part \in Part /\ sample \in [Samples -> Sample]
  BY DEF HTypes, TypeOK, Request
<1>2. CASE Replay(request[c], forward)
  <2>1. \A s \in Samples : sample'[s] \in Sample
    <3> SUFFICES ASSUME NEW s \in Samples PROVE sample'[s] \in Sample
      OBVIOUS
    <3>1. CASE s \in Listed(request[c].op)
      <4>1. sample'[s] = Replayed(sample[s], request[c].sample[s], request[c].op, s, forward)
        BY <1>2, <3>1 DEF Replay
      <4> QED BY <1>1, <3>1, <4>1, ReplayedTyped
    <3>2. CASE s \notin Listed(request[c].op)
      BY <1>1, <1>2, <3>2 DEF Replay
    <3> QED BY <3>1, <3>2
  <2>2. part' \in Part
    <3>1. part' = ReplayedPart(part, request[c].part, request[c].op, forward)
      BY <1>2 DEF Replay
    <3> QED BY <1>1, <3>1, ReplayedPartTyped
  <2>3. sample' = [s \in Samples |-> sample'[s]]
    BY <1>2 DEF Replay
  <2> QED BY <2>1, <2>2, <2>3
<1>3. CASE DeleteLive(request[c])
  <2>1. \A s \in Samples : sample'[s] \in Sample
    BY <1>1, <1>3 DEF DeleteLive, Sample, SampleStatus
  <2>2. part' \in Part
    <3>1. part' = ReplayedPart(part, request[c].part, request[c].op, TRUE)
      BY <1>3 DEF DeleteLive
    <3> QED BY <1>1, <3>1, ReplayedPartTyped
  <2>3. sample' = [s \in Samples |-> sample'[s]]
    BY <1>3 DEF DeleteLive
  <2> QED BY <2>1, <2>2, <2>3
<1> QED BY <1>2, <1>3

\* Another status leaves an operation as it is otherwise.
LEMMA StatusTyped ==
  ASSUME NEW o, OpTyped(o), NEW status \in {"absent", "applied", "undone", "discarded"}
  PROVE  /\ OpTyped([o EXCEPT !.status = status])
         /\ [o EXCEPT !.status = status].status = status
         /\ [o EXCEPT !.status = status].action = o.action
         /\ [o EXCEPT !.status = status].before = o.before
         /\ [o EXCEPT !.status = status].part = o.part
         /\ [o EXCEPT !.status = status].after = o.after
  BY DEF OpTyped, Operation, Deletion, Listed

LEMMA CommittedTyped ==
  ASSUME HTypes, NEW c \in Clients, Ends(c), sample' \in [Samples -> Sample], part' \in Part,
         op' = [i \in Ops |-> op'[i]], \A i \in Ops : OpTyped(op'[i]), inOrder' \in BOOLEAN
  PROVE  HTypes'
<1>1. /\ request' \in [Clients -> Request]
      /\ request'[c] = NoRequest
      /\ \A d \in Clients : d # c => request'[d] = request[d]
  BY NoRequestTyped DEF Ends, HTypes, TypeOK
<1>2. op' \in [Ops -> Operation]
  BY DEF OpTyped
<1>3. UNCHANGED <<rows, import>> /\ disjoint' \in BOOLEAN
  BY DEF Ends, HTypes, TypeOK
<1>4. TypeOK'
  BY <1>1, <1>2, <1>3 DEF HTypes, TypeOK
<1>5. ASSUME NEW d \in Clients
      PROVE  /\ OpTyped(request'[d].op)
             /\ request'[d].pc \in {"undo", "redo"} => request'[d].id \in Ops
  <2>1. CASE d = c
    BY <1>1, <2>1, NoRequestTyped, NoOpTyped
  <2>2. CASE d # c
    BY <1>1, <2>2 DEF HTypes
  <2> QED BY <2>1, <2>2
<1> QED BY <1>4, <1>5 DEF HTypes, OpTyped, Deletion, Listed

-----------------------------------------------------------------------------
(* The invariant.                                                           *)

\* The samples an operation lists are the part's; those of a deletion were
\* ready, and only operations on the part itself list none.
ListsInv(o) ==
  /\ Listed(o) \subseteq rows
  /\ Deletion(o) => \A s \in Listed(o) : o.before[s] = "ready"
  /\ Listed(o) = {} => PartAction(o)
OpsInv == \A i \in Recorded : ListsInv(op[i])

\* A redo in progress brings its operation back, although it has been discarded since.
Held(i) == \E c \in Clients : request[c].pc = "redo" /\ request[c].id = i
Reversible(i, s) == /\ op[i].status \in {"applied", "undone"} \/ Held(i)
                    /\ Deletion(op[i]) /\ s \in Listed(op[i])
OneInv == \A s \in Samples : \A i, j \in Ops : Reversible(i, s) /\ Reversible(j, s) => i = j

DeletedInv ==
  \A s \in Samples :
    /\ sample[s].deleted <=> \E i \in Ops : Covers(i, s)
    /\ sample[s].deleted <=> sample[s].status = "deleted"

\* What a request in progress has loaded is what is there.
Loaded(c) == /\ ListsInv(request[c].op)
             /\ \A s \in Listed(request[c].op) : request[c].sample[s] = sample[s]
\* The operation o is p, or was.
Was(o, p) == /\ o.action = p.action /\ o.before = p.before /\ o.part = p.part /\ o.after = p.after
             /\ o.status = p.status \/ o.status = "discarded"
LoadedInv ==
  \A c \in Clients :
    /\ request[c].pc # "idle" => Loaded(c)
    /\ request[c].pc = "record" =>
         /\ request[c].op.status = "applied"
         /\ Deletion(request[c].op) => \A s \in Listed(request[c].op) : ~sample[s].deleted
         /\ DeletesPart(request[c]) => Live \subseteq Listed(request[c].op)
    /\ request[c].pc = "undo" => op[request[c].id] = request[c].op /\ request[c].op.status = "applied"
    /\ request[c].pc = "redo" => Was(op[request[c].id], request[c].op) /\ request[c].op.status = "undone"

Undisturbed == OpsInv /\ OneInv /\ DeletedInv /\ LoadedInv
HInv == HTypes /\ (disjoint => Undisturbed)

LEMMA HInvInit == Init => HInv
<1> SUFFICES ASSUME Init PROVE HInv
  OBVIOUS
<1>1. \A i \in Ops : op[i] = NoOp
  BY DEF Init
<1>2. NoOp.status = "absent"
  BY DEF NoOp
<1>3. OpsInv /\ OneInv
  BY <1>1, <1>2, NoRequestTyped DEF Init, OpsInv, OneInv, Recorded, Reversible, Held
<1>4. DeletedInv
  BY <1>1, <1>2 DEF Init, DeletedInv, Covers, NewSample
<1>5. LoadedInv
  BY NoRequestTyped DEF Init, LoadedInv
<1> QED BY <1>3, <1>4, <1>5, HTypesInit DEF HInv, Undisturbed

\* A request that reads: its operation's lists are right, and nothing else changes.
LEMMA ReadsKeep ==
  ASSUME HInv, NEW c \in Clients, NEW pc \in {"record", "undo", "redo"}, NEW id \in Ops \cup {0},
         pc # "record" => id \in Ops, NEW o, OpTyped(o), Reads(c, pc, id, o),
         disjoint => /\ ListsInv(o)
                     /\ pc = "record" =>
                          /\ o.status = "applied"
                          /\ Deletion(o) => \A s \in Listed(o) : ~sample[s].deleted
                          /\ o.action = "import_batch.delete" => Live \subseteq Listed(o)
                     /\ pc = "undo" => op[id] = o /\ o.status = "applied"
                     /\ pc = "redo" => op[id] = o /\ o.status = "undone"
  PROVE  HInv'
<1> DEFINE seen == [s \in Samples |-> IF s \in Listed(o) THEN sample[s] ELSE NewSample]
           new == [pc |-> pc, id |-> id, op |-> o, part |-> part, sample |-> seen]
<1>1. /\ request' = [request EXCEPT ![c] = new]
      /\ UNCHANGED <<rows, sample, part, op, import, disjoint, inOrder>>
  BY DEF Reads, dbVars
<1>2. HTypes'
  BY ReadsTyped DEF HInv
<1>3. \A s \in Listed(o) : seen[s] = sample[s]
  BY ListedSamples DEF OpTyped
<1> HIDE DEF seen
<1>4. new.op = o /\ new.pc = pc /\ new.id = id /\ new.sample = seen
  OBVIOUS
<1> HIDE DEF new
<1>5. request'[c] = new /\ \A d \in Clients : d # c => request'[d] = request[d]
  BY <1>1 DEF HInv, HTypes, TypeOK
<1> SUFFICES ASSUME disjoint PROVE Undisturbed'
  BY <1>1, <1>2 DEF HInv
<1>6. OpsInv' /\ OneInv' /\ DeletedInv'
  <2>1. OpsInv' /\ DeletedInv'
    BY <1>1 DEF HInv, Undisturbed, OpsInv, ListsInv, Listed, Recorded, DeletedInv, Covers, Deletion, PartAction
  <2>2. \A i \in Ops : Held(i)' => Held(i) \/ op[i].status = "undone"
    BY <1>4, <1>5 DEF Held
  <2>3. \A i \in Ops, s \in Samples : Reversible(i, s)' => Reversible(i, s)
    BY <1>1, <2>2 DEF Reversible, Deletion, Listed
  <2> QED BY <2>1, <2>3 DEF HInv, Undisturbed, OneInv
<1>7. LoadedInv'
  <2> SUFFICES ASSUME NEW d \in Clients
               PROVE  (/\ request[d].pc # "idle" => Loaded(d)
                       /\ request[d].pc = "record" =>
                            /\ request[d].op.status = "applied"
                            /\ Deletion(request[d].op) =>
                                 \A s \in Listed(request[d].op) : ~sample[s].deleted
                            /\ DeletesPart(request[d]) => Live \subseteq Listed(request[d].op)
                       /\ request[d].pc = "undo" =>
                            op[request[d].id] = request[d].op /\ request[d].op.status = "applied"
                       /\ request[d].pc = "redo" =>
                            Was(op[request[d].id], request[d].op) /\ request[d].op.status = "undone")'
    BY DEF LoadedInv
  <2>1. CASE d = c
    <3>1. Loaded(d)'
      BY <1>1, <1>3, <1>4, <1>5, <2>1 DEF Loaded, ListsInv, Listed, Deletion, PartAction
    <3>2. Live' = Live
      BY <1>1 DEF Live
    <3> QED BY <1>1, <1>4, <1>5, <2>1, <3>1, <3>2 DEF Deletion, DeletesPart, Listed, Was
  <2>2. CASE d # c
    BY <1>1, <1>5, <2>2 DEF HInv, Undisturbed, LoadedInv, Loaded, ListsInv, Listed, Deletion,
                            PartAction, DeletesPart, Live, Was
  <2> QED BY <2>1, <2>2
<1> QED BY <1>6, <1>7 DEF Undisturbed

\* Live samples are ready, so that what a deletion records of them is.
LEMMA LiveReady ==
  ASSUME HInv, disjoint
  PROVE  \A s \in Live : sample[s].status = "ready" /\ ~sample[s].deleted
  BY DEF HInv, Undisturbed, DeletedInv, Live, HTypes, TypeOK, Sample, SampleStatus

LEMMA EditReadsKeep ==
  ASSUME HInv, NEW c \in Clients, NEW S \in SUBSET Samples,
         DeleteRead(c, S) \/ \E v \in Subsets : SubsetRead(c, S, v)
  PROVE  HInv'
<1>1. CASE DeleteRead(c, S)
  <2> DEFINE o == [action |-> "samples.delete", status |-> "applied", before |-> StatusOf(S),
                   part |-> "none", after |-> "deleted"]
  <2>1. S # {} /\ S \subseteq Live /\ Reads(c, "record", 0, o)
    BY <1>1 DEF DeleteRead, Records
  <2>2. /\ OpTyped(o) /\ Listed(o) = S /\ o.status = "applied" /\ o.action = "samples.delete"
        /\ \A s \in S : o.before[s] = sample[s].status
    BY <2>1, DeleteOperation DEF HInv
  <2> HIDE DEF o
  <2>3. disjoint => ListsInv(o) /\ \A s \in Listed(o) : ~sample[s].deleted
    BY <2>1, <2>2, LiveReady, LiveSamples DEF ListsInv, HInv
  <2> QED BY <2>1, <2>2, <2>3, ReadsKeep
<1>2. ASSUME NEW v \in Subsets, SubsetRead(c, S, v) PROVE HInv'
  <2> DEFINE o == [action |-> "samples.subset_update", status |-> "applied",
                   before |-> [s \in S |-> sample[s].subset], part |-> "none", after |-> v]
  <2>1. S # {} /\ S \subseteq Live /\ Reads(c, "record", 0, o)
    BY <1>2 DEF SubsetRead, Records
  <2>2. OpTyped(o) /\ Listed(o) = S /\ o.status = "applied" /\ ~Deletion(o)
    BY <2>1, SubsetOperation DEF HInv
  <2> HIDE DEF o
  <2>3. ListsInv(o) /\ o.action # "import_batch.delete"
    BY <2>1, <2>2, LiveSamples DEF ListsInv, HInv, Deletion
  <2> QED BY <2>1, <2>2, <2>3, ReadsKeep
<1> QED BY <1>1, <1>2

LEMMA PartReadsKeep ==
  ASSUME HInv, NEW c \in Clients, PartDeleteRead(c) \/ \E n \in Names : RenameRead(c, n)
  PROVE  HInv'
<1>1. CASE PartDeleteRead(c)
  <2> DEFINE o == [action |-> "import_batch.delete", status |-> "applied", before |-> StatusOf(Live),
                   part |-> part.status, after |-> "deleted"]
  <2>1. Reads(c, "record", 0, o)
    BY <1>1 DEF PartDeleteRead, Records
  <2>2. part.status \in PartStatus
    BY DEF HInv, HTypes, TypeOK, Part
  <2>3. /\ OpTyped(o) /\ Listed(o) = Live /\ o.status = "applied" /\ o.action = "import_batch.delete"
        /\ \A s \in Live : o.before[s] = sample[s].status
    BY <2>2, DeleteOperation DEF HInv
  <2> HIDE DEF o
  <2>4. disjoint => ListsInv(o) /\ \A s \in Listed(o) : ~sample[s].deleted
    BY <2>3, LiveReady, LiveSamples DEF ListsInv, HInv, PartAction
  <2> QED BY <2>1, <2>3, <2>4, ReadsKeep
<1>2. ASSUME NEW n \in Names, RenameRead(c, n) PROVE HInv'
  <2> DEFINE o == [action |-> "import_batch.update", status |-> "applied",
                   before |-> [s \in {} |-> "ready"], part |-> part.name, after |-> n]
  <2>1. Reads(c, "record", 0, o)
    BY <1>2 DEF RenameRead, Records
  <2>2. OpTyped(o) /\ Listed(o) = {} /\ o.status = "applied" /\ ~Deletion(o) /\ PartAction(o)
    BY RenameOperation DEF HInv
  <2> HIDE DEF o
  <2>3. ListsInv(o) /\ o.action # "import_batch.delete"
    BY <2>2 DEF ListsInv, Deletion
  <2> QED BY <2>1, <2>2, <2>3, ReadsKeep
<1> QED BY <1>1, <1>2

LEMMA ReplayReadsKeep ==
  ASSUME HInv, NEW c \in Clients, NEW i \in Ops, UndoRead(c, i) \/ RedoRead(c, i)
  PROVE  HInv'
<1>1. OpTyped(op[i])
  BY DEF HInv, HTypes
<1>2. disjoint => ListsInv(op[i])
  BY DEF UndoRead, RedoRead, HInv, Undisturbed, OpsInv, Recorded
<1>3. CASE UndoRead(c, i)
  BY <1>1, <1>2, <1>3, ReadsKeep DEF UndoRead
<1>4. CASE RedoRead(c, i)
  BY <1>1, <1>2, <1>4, ReadsKeep DEF RedoRead
<1> QED BY <1>3, <1>4

\* The import: a sample that no request lists, and the part's status.
LEMMA ImportKeeps ==
  ASSUME HInv, ImportLoad \/ (\E s \in Samples : ImportSample(s)) \/ ImportFinish \/ ImportFail
  PROVE  HInv'
<1>1. /\ UNCHANGED <<sample, op, request, inOrder>>
      /\ rows \subseteq rows' /\ rows' \subseteq Samples
      /\ disjoint' \in BOOLEAN /\ (disjoint' => disjoint)
      /\ disjoint' => rows' = rows \/ ~\E c \in Clients : DeletesPart(request[c])
  <2>1. disjoint \in BOOLEAN /\ rows \subseteq Samples
    BY DEF HInv, HTypes, TypeOK
  <2>2. CASE ImportLoad \/ ImportFinish \/ ImportFail
    BY <2>1, <2>2 DEF ImportLoad, ImportFinish, ImportFail, dbVars
  <2>3. ASSUME NEW s \in Samples, ImportSample(s)
        PROVE  /\ UNCHANGED <<sample, op, request, inOrder>>
               /\ rows' = rows \cup {s}
               /\ disjoint' = (disjoint /\ ~\E c \in Clients : DeletesPart(request[c]))
    BY <2>3 DEF ImportSample
  <2> QED BY <2>1, <2>2, <2>3
<1>2. import' \in [pc : {"confirmed", "loop", "over"}, status : PartStatus] /\ part' \in Part
  <2>1. CASE ImportLoad \/ \E s \in Samples : ImportSample(s)
    BY <2>1 DEF ImportLoad, ImportSample, dbVars, HInv, HTypes, TypeOK, Part
  <2>2. CASE ImportFinish
    BY <2>2 DEF ImportFinish, HInv, HTypes, TypeOK, Part, PartStatus, Saved
  <2>3. CASE ImportFail
    BY <2>3 DEF ImportFail, HInv, HTypes, TypeOK, Part, PartStatus
  <2> QED BY <2>1, <2>2, <2>3
<1>3. HTypes'
  BY <1>1, <1>2 DEF HInv, HTypes, TypeOK, OpTyped, Deletion, Listed
<1> SUFFICES ASSUME disjoint' PROVE Undisturbed'
  BY <1>3 DEF HInv
<1>4. OpsInv' /\ OneInv' /\ DeletedInv'
  BY <1>1 DEF HInv, Undisturbed, OpsInv, ListsInv, Listed, Recorded, OneInv, Reversible, Held, DeletedInv,
              Covers, Deletion, PartAction
<1>5. LoadedInv'
  BY <1>1 DEF HInv, Undisturbed, LoadedInv, Loaded, ListsInv, Listed, Deletion, PartAction,
              DeletesPart, Live, Was
<1> QED BY <1>4, <1>5 DEF Undisturbed

\* The position of a new operation is one that no operation has.
LEMMA NextIsNew ==
  ASSUME Recorded # Ops
  PROVE  NextOp \in Ops \ Recorded /\ \A j \in Ops \ Recorded : NextOp <= j
<1> DEFINE Less == OpToRel(<, Nat)
           free == Ops \ Recorded
<1>1. free # {} /\ free \subseteq Nat
  BY DEF Recorded, Ops
<1>2. IsWellFoundedOn(Less, Nat)
  BY NatLessThanWellFounded
<1>3. PICK i \in free : \A j \in free : ~ (<<j, i>> \in Less)
  <2> HIDE DEF free, Less
  <2> QED BY <1>1, <1>2, WFMin
<1>4. \A j \in free : i <= j
  <2> SUFFICES ASSUME NEW j \in free PROVE i <= j
    OBVIOUS
  <2>1. i \in Nat /\ j \in Nat
    BY <1>1
  <2>2. ~ (j < i)
    BY <1>3, <2>1 DEF OpToRel
  <2> QED BY <2>1, <2>2
<1> DEFINE First(k) == \A j \in Ops \ Recorded : k <= j
<1>5. \E k \in Ops \ Recorded : First(k)
  BY <1>4
<1> HIDE DEF First
<1> DEFINE first == CHOOSE k \in Ops \ Recorded : First(k)
<1>6. first \in Ops \ Recorded /\ First(first)
  BY <1>5
<1> QED BY <1>6 DEF NextOp, First

\* What a commit does to the samples, while no conflicting requests overlap.
LEMMA Effect ==
  ASSUME HInv, disjoint, NEW c \in Clients, request[c].pc # "idle", NEW forward \in BOOLEAN,
         \/ request[c].pc = "record" /\ forward /\ Performs(request[c])
         \/ request[c].pc # "record" /\ Replay(request[c], forward)
  PROVE  \A s \in Samples :
           /\ s \notin Reach(request[c]) => sample'[s] = sample[s]
           /\ IF Deletion(request[c].op) /\ s \in Listed(request[c].op)
              THEN /\ sample'[s].deleted = forward
                   /\ sample'[s].status = IF forward THEN "deleted" ELSE "ready"
              ELSE /\ sample'[s].deleted = sample[s].deleted
                   /\ sample'[s].status = sample[s].status
<1> DEFINE r == request[c]
<1>1. /\ OpTyped(r.op) /\ sample \in [Samples -> Sample]
      /\ Loaded(c)
      /\ Listed(r.op) \subseteq Samples
  BY ListedSamples DEF HInv, HTypes, TypeOK, Undisturbed, LoadedInv, OpTyped
<1>2. CASE Replay(r, forward)
  <2> SUFFICES ASSUME NEW s \in Samples
               PROVE  /\ s \notin Reach(r) => sample'[s] = sample[s]
                      /\ IF Deletion(r.op) /\ s \in Listed(r.op)
                         THEN /\ sample'[s].deleted = forward
                              /\ sample'[s].status = IF forward THEN "deleted" ELSE "ready"
                         ELSE /\ sample'[s].deleted = sample[s].deleted
                              /\ sample'[s].status = sample[s].status
    OBVIOUS
  <2>1. CASE s \notin Listed(r.op)
    <3>1. sample'[s] = sample[s]
      BY <1>2, <2>1 DEF Replay
    <3> QED BY <2>1, <3>1
  <2>2. CASE s \in Listed(r.op)
    <3>1. /\ sample'[s] = Replayed(sample[s], sample[s], r.op, s, forward)
          /\ sample[s] \in Sample
      BY <1>1, <1>2, <2>2 DEF Replay, Loaded
    <3>2. s \in Reach(r)
      BY <2>2 DEF Reach
    <3>3. CASE Deletion(r.op)
      <4> DEFINE d == IF forward THEN TRUE ELSE Saved(sample[s].deleted, sample[s].deleted, FALSE)
                 t == Saved(sample[s].status, sample[s].status,
                            IF forward THEN "deleted" ELSE r.op.before[s])
      <4>1. sample'[s] = [sample[s] EXCEPT !.deleted = d, !.status = t]
        BY <3>1, <3>3 DEF Replayed, Deletion
      <4>2. r.op.before[s] = "ready"
        BY <1>1, <2>2, <3>3 DEF Loaded, ListsInv
      <4>3. d = forward /\ t = IF forward THEN "deleted" ELSE "ready"
        BY <4>2 DEF Saved
      <4> HIDE DEF d, t
      <4>4. sample'[s].deleted = d /\ sample'[s].status = t
        BY <3>1, <4>1 DEF Sample
      <4> QED BY <2>2, <3>2, <3>3, <4>3, <4>4
    <3>4. CASE ~Deletion(r.op)
      <4>1. sample'[s].deleted = sample[s].deleted /\ sample'[s].status = sample[s].status
        BY <3>1, <3>4 DEF Replayed, Deletion, Sample
      <4> QED BY <3>2, <3>4, <4>1
    <3> QED BY <3>3, <3>4
  <2> QED BY <2>1, <2>2
<1>3. CASE r.pc = "record" /\ forward /\ r.op.action = "import_batch.delete" /\ DeleteLive(r)
  <2>1. Listed(r.op) = Live
    BY <1>1, <1>3 DEF HInv, Undisturbed, LoadedInv, Loaded, ListsInv, Deletion, DeletesPart, Live
  <2>2. Reach(r) = Samples /\ Deletion(r.op)
    BY <1>3 DEF Reach, DeletesPart, Deletion
  <2>3. \A s \in Samples :
          sample'[s] = IF s \in Live THEN [sample[s] EXCEPT !.deleted = TRUE, !.status = "deleted"]
                       ELSE sample[s]
    BY <1>3 DEF DeleteLive
  <2> QED BY <1>1, <1>3, <2>1, <2>2, <2>3 DEF Sample
<1> QED BY <1>2, <1>3 DEF Performs

\* A commit that conflicts with no other request leaves what those have loaded.
LEMMA OthersLoaded ==
  ASSUME HInv, disjoint, NEW c \in Clients, request[c].pc # "idle", Ends(c), disjoint',
         \A s \in Samples : s \notin Reach(request[c]) => sample'[s] = sample[s],
         \A d \in Clients \ {c} : ~Conflict(request[c], request[d]) =>
           /\ request[d].pc = "undo" => op'[request[d].id] = op[request[d].id]
           /\ request[d].pc = "redo" => Was(op'[request[d].id], op[request[d].id])
  PROVE  LoadedInv'
<1>1. /\ rows' = rows
      /\ request'[c] = NoRequest
      /\ \A d \in Clients : d # c => request'[d] = request[d]
      /\ ~Interferes(c)
  BY DEF Ends, HInv, HTypes, TypeOK
<1> SUFFICES ASSUME NEW d \in Clients, d # c
             PROVE  (/\ request[d].pc # "idle" => Loaded(d)
                     /\ request[d].pc = "record" =>
                          /\ request[d].op.status = "applied"
                          /\ Deletion(request[d].op) =>
                               \A s \in Listed(request[d].op) : ~sample[s].deleted
                          /\ DeletesPart(request[d]) => Live \subseteq Listed(request[d].op)
                     /\ request[d].pc = "undo" =>
                          op[request[d].id] = request[d].op /\ request[d].op.status = "applied"
                     /\ request[d].pc = "redo" =>
                          Was(op[request[d].id], request[d].op) /\ request[d].op.status = "undone")'
  BY <1>1, NoRequestTyped DEF LoadedInv
<1>2. CASE request[d].pc = "idle"
  BY <1>1, <1>2
<1>3. CASE request[d].pc # "idle"
  <2>1. ~Conflict(request[c], request[d])
    BY <1>1, <1>3 DEF Interferes
  <2>2. Reach(request[c]) \cap Reach(request[d]) = {}
    BY <2>1 DEF Conflict
  <2>3. Listed(request[d].op) \subseteq Reach(request[d]) /\ Listed(request[d].op) \subseteq Samples
    BY ListedSamples DEF Reach, HInv, HTypes, OpTyped
  <2>4. \A s \in Listed(request[d].op) : sample'[s] = sample[s]
    BY <2>2, <2>3
  <2>5. Loaded(d)'
    BY <1>1, <1>3, <2>4 DEF HInv, Undisturbed, LoadedInv, Loaded, ListsInv, Listed, Deletion, PartAction
  <2>6. DeletesPart(request[d]) => Live' = Live
    BY <1>1, <2>2 DEF Reach, Live, HInv, HTypes, TypeOK
  <2>7. /\ request[d].pc = "undo" => op'[request[d].id] = op[request[d].id]
        /\ request[d].pc = "redo" => Was(op'[request[d].id], op[request[d].id])
    BY <2>1
  <2>8. request[d].pc = "redo" => Was(op'[request[d].id], request[d].op)
    BY <2>7 DEF HInv, Undisturbed, LoadedInv, Was
  <2> QED BY <1>1, <2>4, <2>5, <2>6, <2>7, <2>8
          DEF HInv, Undisturbed, LoadedInv, Deletion, DeletesPart, Listed, Was
<1> QED BY <1>2, <1>3

\* The operations after a new one is recorded.
LEMMA Appended ==
  ASSUME HTypes, NEW o, OpTyped(o), Recorded # Ops, RecordOperation(o)
  PROVE  /\ NextOp \in Ops \ Recorded
         /\ op' = [i \in Ops |-> op'[i]] /\ op'[NextOp] = o
         /\ \A i \in Ops : i # NextOp =>
              /\ op'[i].action = op[i].action /\ op'[i].before = op[i].before
              /\ op'[i].part = op[i].part /\ op'[i].after = op[i].after
              /\ op'[i].status = IF op[i].status = "undone" THEN "discarded" ELSE op[i].status
              /\ op[i].status # "undone" => op'[i] = op[i]
         /\ \A i \in Ops : OpTyped(op'[i])
<1>1. NextOp \in Ops \ Recorded
  BY NextIsNew
<1>2. ASSUME NEW i \in Ops, i # NextOp
      PROVE  /\ op'[i].action = op[i].action /\ op'[i].before = op[i].before
             /\ op'[i].part = op[i].part /\ op'[i].after = op[i].after
             /\ op'[i].status = IF op[i].status = "undone" THEN "discarded" ELSE op[i].status
             /\ op[i].status # "undone" => op'[i] = op[i]
             /\ OpTyped(op'[i])
  <2>1. OpTyped(op[i])
    BY DEF HTypes
  <2>2. op'[i] = IF op[i].status = "undone" THEN [op[i] EXCEPT !.status = "discarded"] ELSE op[i]
    BY <1>2 DEF RecordOperation
  <2> DEFINE new == [op[i] EXCEPT !.status = "discarded"]
  <2>3. /\ OpTyped(new) /\ new.status = "discarded"
        /\ new.action = op[i].action /\ new.before = op[i].before
        /\ new.part = op[i].part /\ new.after = op[i].after
    BY <2>1, StatusTyped
  <2> HIDE DEF new
  <2>4. op'[i] = IF op[i].status = "undone" THEN new ELSE op[i]
    BY <2>2 DEF new
  <2> QED BY <2>1, <2>3, <2>4
<1>3. op' = [i \in Ops |-> op'[i]] /\ op'[NextOp] = o
  BY <1>1 DEF RecordOperation
<1> QED BY <1>1, <1>2, <1>3

LEMMA RecordKeeps ==
  ASSUME HInv, NEW c \in Clients, RecordCommit(c)
  PROVE  HInv'
<1> DEFINE o == request[c].op
<1>1. /\ request[c].pc = "record" /\ Recorded # Ops /\ Performs(request[c])
      /\ RecordOperation(o) /\ Ends(c) /\ inOrder' = inOrder
  BY DEF RecordCommit
<1>2. OpTyped(o) /\ Listed(o) \subseteq Samples
  BY ListedSamples DEF HInv, HTypes, OpTyped
<1>3. /\ NextOp \in Ops \ Recorded
      /\ op' = [i \in Ops |-> op'[i]] /\ op'[NextOp] = o
      /\ \A i \in Ops : i # NextOp =>
           /\ op'[i].action = op[i].action /\ op'[i].before = op[i].before
           /\ op'[i].part = op[i].part /\ op'[i].after = op[i].after
           /\ op'[i].status = IF op[i].status = "undone" THEN "discarded" ELSE op[i].status
           /\ op[i].status # "undone" => op'[i] = op[i]
      /\ \A i \in Ops : OpTyped(op'[i])
  BY <1>1, <1>2, Appended DEF HInv
<1>4. HTypes'
  <2>1. sample' \in [Samples -> Sample] /\ part' \in Part
    BY <1>1, PerformedTyped DEF Performs, HInv
  <2> QED BY <1>1, <1>3, <2>1, CommittedTyped DEF HInv, HTypes, TypeOK
<1>5. rows' = rows /\ (disjoint' => disjoint)
  BY <1>1 DEF Ends, HInv, HTypes, TypeOK
<1> SUFFICES ASSUME disjoint' PROVE Undisturbed'
  BY <1>4 DEF HInv
<1>6. /\ Loaded(c) /\ o.status = "applied"
      /\ Deletion(o) => \A s \in Listed(o) : ~sample[s].deleted
  BY <1>1, <1>5 DEF HInv, Undisturbed, LoadedInv
<1>7. \A s \in Samples :
        /\ s \notin Reach(request[c]) => sample'[s] = sample[s]
        /\ IF Deletion(o) /\ s \in Listed(o)
           THEN sample'[s].deleted /\ sample'[s].status = "deleted"
           ELSE sample'[s].deleted = sample[s].deleted /\ sample'[s].status = sample[s].status
  BY <1>1, <1>5, Effect
<1> HIDE DEF o
<1>8. OpsInv'
  <2> SUFFICES ASSUME NEW i \in Ops, op'[i].status # "absent" PROVE ListsInv(op[i])'
    BY DEF OpsInv, Recorded
  <2>1. CASE i = NextOp
    BY <1>3, <1>5, <1>6, <2>1 DEF Loaded, ListsInv, Listed, Deletion, PartAction, o
  <2>2. CASE i # NextOp
    <3>1. i \in Recorded
      BY <1>3, <2>2 DEF Recorded
    <3> QED BY <1>3, <1>5, <2>2, <3>1, <1>5 DEF HInv, Undisturbed, OpsInv, ListsInv, Listed, Deletion, PartAction
  <2> QED BY <2>1, <2>2
<1> DEFINE Returns(i) == \E d \in Clients \ {c} : request[d].pc = "redo" /\ request[d].id = i
<1>9. \A i \in Ops, s \in Samples :
        /\ Reversible(i, s)' => IF i = NextOp THEN Deletion(o) /\ s \in Listed(o)
                                ELSE /\ Covers(i, s) \/ Returns(i)
                                     /\ Deletion(op[i]) /\ s \in Listed(op[i])
        /\ Covers(i, s)' <=> IF i = NextOp THEN Deletion(o) /\ s \in Listed(o) ELSE Covers(i, s)
  <2> SUFFICES ASSUME NEW i \in Ops, NEW s \in Samples
               PROVE /\ Reversible(i, s)' => IF i = NextOp THEN Deletion(o) /\ s \in Listed(o)
                                             ELSE /\ Covers(i, s) \/ Returns(i)
                                                  /\ Deletion(op[i]) /\ s \in Listed(op[i])
                     /\ Covers(i, s)' <=> IF i = NextOp THEN Deletion(o) /\ s \in Listed(o) ELSE Covers(i, s)
    OBVIOUS
  <2>1. CASE i = NextOp
    BY <1>3, <1>6, <2>1 DEF Reversible, Covers, Deletion, Listed
  <2>2. CASE i # NextOp
    <3>1. op'[i].status \in {"applied", "undone"} <=> op[i].status = "applied"
      BY <1>3, <2>2 DEF HInv, HTypes, OpTyped, Operation
    <3>2. op'[i].status = "applied" <=> op[i].status = "applied"
      BY <1>3, <2>2
    <3>3. Held(i)' => Returns(i)
      BY <1>1, NoRequestTyped DEF Held, Ends, HInv, HTypes, TypeOK
    <3> HIDE DEF Returns
    <3> QED BY <1>3, <2>2, <3>1, <3>2, <3>3 DEF Reversible, Covers, Deletion, Listed
  <2> QED BY <2>1, <2>2
<1>10. \A i \in Ops, s \in Samples : Deletion(o) /\ s \in Listed(o) => ~Covers(i, s)
  BY <1>5, <1>6 DEF HInv, Undisturbed, DeletedInv
<1>11. OneInv'
  <2>1. \A i \in Ops, s \in Samples : Covers(i, s) => Reversible(i, s)
    BY DEF Covers, Reversible, Deletion
  <2>2. \A i \in Ops, s \in Samples : Returns(i) /\ Deletion(op[i]) /\ s \in Listed(op[i]) => Reversible(i, s)
    BY DEF Reversible, Held
  <2>3. ASSUME NEW i \in Ops, NEW s \in Samples, Returns(i), s \in Listed(op[i])
        PROVE  s \notin Listed(o)
    <3>1. PICK d \in Clients \ {c} : request[d].pc = "redo" /\ request[d].id = i
      BY <2>3
    <3>2. Was(op[i], request[d].op)
      BY <1>5, <3>1 DEF HInv, Undisturbed, LoadedInv
    <3>3. s \in Listed(request[d].op)
      BY <2>3, <3>2 DEF Was, Listed
    <3>4. ~Conflict(request[c], request[d])
      BY <1>1, <3>1 DEF Ends, Interferes
    <3>5. s \in Reach(request[d]) /\ (s \in Listed(o) => s \in Reach(request[c]))
      BY <3>3 DEF Reach, o
    <3> QED BY <3>4, <3>5 DEF Conflict
  <2> HIDE DEF Returns
  <2>4. \A i \in Ops, s \in Samples : Reversible(i, s)' /\ i # NextOp => Reversible(i, s)
    BY <1>9, <2>1, <2>2
  <2>5. \A i \in Ops, s \in Samples : Reversible(i, s)' /\ i # NextOp => ~Deletion(o) \/ s \notin Listed(o)
    BY <1>9, <1>10, <2>3
  <2>6. \A i \in Ops, s \in Samples : Reversible(i, s)' /\ i = NextOp => Deletion(o) /\ s \in Listed(o)
    BY <1>9
  <2> QED BY <1>5, <2>4, <2>5, <2>6 DEF HInv, Undisturbed, OneInv
<1>12. DeletedInv'
  <2> SUFFICES ASSUME NEW s \in Samples
               PROVE /\ sample'[s].deleted <=> \E i \in Ops : Covers(i, s)'
                     /\ sample'[s].deleted <=> sample'[s].status = "deleted"
    BY DEF DeletedInv
  <2>1. CASE Deletion(o) /\ s \in Listed(o)
    BY <1>3, <1>7, <1>9, <2>1
  <2>2. CASE ~(Deletion(o) /\ s \in Listed(o))
    <3>1. ~Covers(NextOp, s)
      BY <1>3 DEF Covers, Recorded
    <3> QED BY <1>3, <1>5, <1>7, <1>9, <2>2, <3>1 DEF HInv, Undisturbed, DeletedInv
  <2> QED BY <2>1, <2>2
<1>13. LoadedInv'
  <2>1. ASSUME NEW d \in Clients \ {c}, request[d].pc \in {"undo", "redo"}
        PROVE  /\ request[d].pc = "undo" => op'[request[d].id] = op[request[d].id]
               /\ Was(op'[request[d].id], op[request[d].id])
    <3>1. /\ request[d].id \in Ops /\ op[request[d].id].status # "absent"
          /\ request[d].pc = "undo" => op[request[d].id].status = "applied"
      BY <1>5, <2>1 DEF HInv, HTypes, Undisturbed, LoadedInv, Was
    <3>2. request[d].id # NextOp
      BY <1>3, <3>1 DEF Recorded
    <3> QED BY <1>3, <3>1, <3>2 DEF Was
  <2> QED BY <1>1, <1>5, <1>7, <2>1, OthersLoaded
<1> QED BY <1>8, <1>11, <1>12, <1>13 DEF Undisturbed

\* The operations after one of them is undone or redone.
LEMMA StatusSet ==
  ASSUME HTypes, NEW i \in Ops, NEW status \in {"applied", "undone"}, SetStatus(i, status)
  PROVE  /\ op' = [j \in Ops |-> op'[j]]
         /\ \A j \in Ops : j # i => op'[j] = op[j]
         /\ op'[i].status = status /\ op'[i].action = op[i].action /\ op'[i].before = op[i].before
         /\ op'[i].part = op[i].part /\ op'[i].after = op[i].after
         /\ \A j \in Ops : OpTyped(op'[j])
<1>1. OpTyped(op[i]) /\ op \in [Ops -> Operation]
  BY DEF HTypes, TypeOK
<1> DEFINE new == [op[i] EXCEPT !.status = status]
<1>2. /\ OpTyped(new) /\ new.status = status
      /\ new.action = op[i].action /\ new.before = op[i].before
      /\ new.part = op[i].part /\ new.after = op[i].after
  <2> DEFINE old == op[i]
  <2> HIDE DEF old
  <2>1. OpTyped(old) /\ status \in {"absent", "applied", "undone", "discarded"}
    BY <1>1 DEF old
  <2>2. /\ OpTyped([old EXCEPT !.status = status])
        /\ [old EXCEPT !.status = status].status = status
        /\ [old EXCEPT !.status = status].action = old.action
        /\ [old EXCEPT !.status = status].before = old.before
        /\ [old EXCEPT !.status = status].part = old.part
        /\ [old EXCEPT !.status = status].after = old.after
    BY <2>1, StatusTyped
  <2> QED BY <2>2 DEF old
<1>3. op' = [op EXCEPT ![i] = new]
  BY DEF SetStatus
<1> HIDE DEF new
<1> QED BY <1>1, <1>2, <1>3 DEF HTypes

LEMMA ReplayKeeps ==
  ASSUME HInv, NEW c \in Clients, UndoCommit(c) \/ RedoCommit(c)
  PROVE  HInv'
<1> DEFINE o == request[c].op
           i == request[c].id
           forward == request[c].pc = "redo"
           status == IF forward THEN "applied" ELSE "undone"
<1>1. /\ request[c].pc \in {"undo", "redo"} /\ Replay(request[c], forward)
      /\ SetStatus(i, status) /\ Ends(c) /\ inOrder' \in BOOLEAN
  BY DEF UndoCommit, RedoCommit, HInv, HTypes, TypeOK
<1>2. OpTyped(o) /\ Listed(o) \subseteq Samples /\ i \in Ops
  BY <1>1, ListedSamples DEF HInv, HTypes, OpTyped
<1>3. /\ op' = [j \in Ops |-> op'[j]]
      /\ \A j \in Ops : j # i => op'[j] = op[j]
      /\ op'[i].status = status /\ op'[i].action = op[i].action /\ op'[i].before = op[i].before
      /\ \A j \in Ops : OpTyped(op'[j])
  <2>1. status \in {"applied", "undone"}
    OBVIOUS
  <2> HIDE DEF status, i
  <2> QED BY <1>1, <1>2, <2>1, StatusSet DEF HInv
<1>4. HTypes'
  <2>1. sample' \in [Samples -> Sample] /\ part' \in Part
    BY <1>1, PerformedTyped DEF HInv
  <2> QED BY <1>1, <1>3, <2>1, CommittedTyped DEF HInv
<1>5. rows' = rows /\ (disjoint' => disjoint)
  BY <1>1 DEF Ends, HInv, HTypes, TypeOK
<1> SUFFICES ASSUME disjoint' PROVE Undisturbed'
  BY <1>4 DEF HInv
<1>6. /\ op[i].action = o.action /\ op[i].before = o.before
      /\ op[i].status \in IF forward THEN {"undone", "discarded"} ELSE {"applied"}
  BY <1>1, <1>5 DEF HInv, Undisturbed, LoadedInv, Was
<1>7. \A s \in Samples :
        /\ s \notin Reach(request[c]) => sample'[s] = sample[s]
        /\ IF Deletion(o) /\ s \in Listed(o)
           THEN /\ sample'[s].deleted = forward
                /\ sample'[s].status = IF forward THEN "deleted" ELSE "ready"
           ELSE sample'[s].deleted = sample[s].deleted /\ sample'[s].status = sample[s].status
  <2>1. forward \in BOOLEAN
    OBVIOUS
  <2> HIDE DEF forward
  <2> QED BY <1>1, <1>5, <2>1, Effect
<1>8. OpsInv'
  <2> SUFFICES ASSUME NEW j \in Ops, op'[j].status # "absent" PROVE ListsInv(op[j])'
    BY DEF OpsInv, Recorded
  <2>1. j \in Recorded
    BY <1>3, <1>6 DEF Recorded
  <2>2. op'[j].action = op[j].action /\ op'[j].before = op[j].before
    BY <1>3
  <2> QED BY <1>5, <2>1, <2>2 DEF HInv, Undisturbed, OpsInv, ListsInv, Listed, Deletion, PartAction
<1>9. \A j \in Ops, s \in Samples :
        /\ Reversible(j, s)' <=> Reversible(j, s)
        /\ Covers(j, s)' <=> IF j = i THEN forward /\ Deletion(o) /\ s \in Listed(o) ELSE Covers(j, s)
  <2>1. \A j \in Ops : j # i => Held(j)' = Held(j)
    BY <1>1, NoRequestTyped DEF Held, Ends, HInv, HTypes, TypeOK
  <2>2. forward => Held(i)
    BY DEF Held
  <2> HIDE DEF forward, o, i
  <2>3. \A j \in Ops, s \in Samples : j = i => (Reversible(j, s)' <=> Reversible(j, s))
    <3> SUFFICES ASSUME NEW j \in Ops, j = i PROVE \A s \in Samples : Reversible(j, s)' <=> Reversible(j, s)
      OBVIOUS
    <3>1. /\ op'[j].status \in {"applied", "undone"} /\ op'[j].action = op[j].action /\ op'[j].before = op[j].before
          /\ op[j].status \in {"applied", "undone"} \/ Held(j)
      BY <1>3, <1>6, <2>2
    <3> QED BY <3>1 DEF Reversible, Deletion, Listed
  <2>4. \A j \in Ops, s \in Samples : j # i => (Reversible(j, s)' <=> Reversible(j, s))
    BY <1>3, <2>1 DEF Reversible, Deletion, Listed
  <2>5. \A j \in Ops, s \in Samples :
          Covers(j, s)' <=> IF j = i THEN forward /\ Deletion(o) /\ s \in Listed(o) ELSE Covers(j, s)
    BY <1>2, <1>3, <1>6 DEF Covers, Deletion, Listed
  <2> QED BY <2>3, <2>4, <2>5
<1>10. OneInv'
  BY <1>5, <1>9 DEF HInv, Undisturbed, OneInv
<1>11. \A j \in Ops, s \in Samples :
         Deletion(o) /\ s \in Listed(o) /\ Covers(j, s) => j = i
  <2>1. \A j \in Ops, s \in Samples : Covers(j, s) => Reversible(j, s)
    BY DEF Covers, Reversible, Deletion
  <2>2. \A s \in Samples : Deletion(o) /\ s \in Listed(o) => Reversible(i, s)
    BY <1>6 DEF Reversible, Held, Deletion, Listed
  <2> HIDE DEF o, i
  <2> QED BY <1>2, <1>5, <2>1, <2>2 DEF HInv, Undisturbed, OneInv
<1>12. DeletedInv'
  <2> SUFFICES ASSUME NEW s \in Samples
               PROVE /\ sample'[s].deleted <=> \E j \in Ops : Covers(j, s)'
                     /\ sample'[s].deleted <=> sample'[s].status = "deleted"
    BY DEF DeletedInv
  <2>1. CASE Deletion(o) /\ s \in Listed(o)
    BY <1>2, <1>7, <1>9, <1>11, <2>1
  <2>2. CASE ~(Deletion(o) /\ s \in Listed(o))
    <3>1. ~Covers(i, s)
      BY <1>6, <2>2 DEF Covers, Deletion, Listed
    <3> QED BY <1>2, <1>5, <1>7, <1>9, <2>2, <3>1 DEF HInv, Undisturbed, DeletedInv
  <2> QED BY <2>1, <2>2
<1>13. LoadedInv'
  <2>1. ASSUME NEW d \in Clients \ {c}, request[d].pc \in {"undo", "redo"},
               ~Conflict(request[c], request[d])
        PROVE  op'[request[d].id] = op[request[d].id]
    <3>1. /\ request[d].id \in Ops /\ ListsInv(request[d].op)
          /\ op[request[d].id].action = request[d].op.action
          /\ op[request[d].id].before = request[d].op.before
      BY <1>5, <2>1 DEF HInv, HTypes, Undisturbed, LoadedInv, Loaded, Was
    <3>2. CASE request[d].id # i
      BY <1>3, <3>1, <3>2
    <3>3. CASE request[d].id = i
      <4>1. request[d].op.action = o.action /\ request[d].op.before = o.before
        BY <1>6, <3>1, <3>3
      <4>2. Listed(o) \subseteq Reach(request[c]) /\ Listed(o) \subseteq Reach(request[d])
        BY <1>2, <4>1 DEF Reach, Listed
      <4>3. Listed(o) # {} \/ PartAction(o)
        BY <3>1, <4>1 DEF ListsInv, Listed, PartAction
      <4>4. PartAction(request[d].op) <=> PartAction(o)
        BY <4>1 DEF PartAction
      <4> QED BY <2>1, <4>2, <4>3, <4>4 DEF Conflict
    <3> QED BY <3>2, <3>3
  <2> QED BY <1>1, <1>5, <1>7, <2>1, OthersLoaded DEF Was
<1> QED BY <1>8, <1>10, <1>12, <1>13 DEF Undisturbed

LEMMA HInvStep ==
  ASSUME HInv, [Next]_vars
  PROVE  HInv'
<1>1. ASSUME NEW c \in Clients, NEW S \in SUBSET Samples,
             DeleteRead(c, S) \/ \E v \in Subsets : SubsetRead(c, S, v)
      PROVE  HInv'
  BY <1>1, EditReadsKeep
<1>2. ASSUME NEW c \in Clients, PartDeleteRead(c) \/ \E n \in Names : RenameRead(c, n) PROVE HInv'
  BY <1>2, PartReadsKeep
<1>3. ASSUME NEW c \in Clients, NEW i \in Ops, UndoRead(c, i) \/ RedoRead(c, i) PROVE HInv'
  BY <1>3, ReplayReadsKeep
<1>4. ASSUME NEW c \in Clients, RecordCommit(c) PROVE HInv'
  BY <1>4, RecordKeeps
<1>5. ASSUME NEW c \in Clients, UndoCommit(c) \/ RedoCommit(c) PROVE HInv'
  BY <1>5, ReplayKeeps
<1>6. CASE ImportLoad \/ (\E s \in Samples : ImportSample(s)) \/ ImportFinish \/ ImportFail
  BY <1>6, ImportKeeps
<1>7. CASE UNCHANGED vars
  <2>1. HTypes'
    BY <1>7 DEF vars, dbVars, HInv, HTypes, TypeOK, OpTyped, Deletion, Listed
  <2>2. OpsInv' = OpsInv /\ DeletedInv' = DeletedInv
    BY <1>7 DEF vars, dbVars, OpsInv, ListsInv, Listed, Deletion, PartAction, Recorded, DeletedInv, Covers
  <2>3. OneInv' = OneInv
    BY <1>7 DEF vars, dbVars, OneInv, Reversible, Held, Deletion, Listed
  <2>4. LoadedInv' = LoadedInv
    BY <1>7 DEF vars, dbVars, LoadedInv, Loaded, ListsInv, Listed, Deletion, PartAction, Was, DeletesPart, Live
  <2> QED BY <1>7, <2>1, <2>2, <2>3, <2>4 DEF vars, HInv, Undisturbed
<1> QED BY <1>1, <1>2, <1>3, <1>4, <1>5, <1>6, <1>7 DEF Next

LEMMA HInvHolds == Spec => []HInv
  BY HInvInit, HInvStep, PTL DEF Spec

-----------------------------------------------------------------------------
\* Columns, recorded operations and loaded values have their types in every
\* reachable state, also after conflicting requests have overlapped.
THEOREM HistoryTypes == Spec => []TypeOK
<1>1. HInv => TypeOK
  BY DEF HInv, HTypes
<1> QED BY <1>1, HInvHolds, PTL

\* Until conflicting requests overlap, a sample is deleted exactly when one
\* applied deletion lists it, for any numbers of users, samples and operations.
THEOREM DeletionsExplained == Spec => []DeletionsAreExplained
<1>1. HInv => DeletionsAreExplained
  <2> SUFFICES ASSUME HInv, disjoint, NEW s \in rows
               PROVE  /\ sample[s].deleted <=> \E i \in Ops : Covers(i, s)
                      /\ \A i, j \in Ops : Covers(i, s) /\ Covers(j, s) => i = j
                      /\ sample[s].deleted <=> sample[s].status = "deleted"
    BY DEF DeletionsAreExplained
  <2>1. s \in Samples
    BY DEF HInv, HTypes, TypeOK
  <2>2. \A i \in Ops : Covers(i, s) => Reversible(i, s)
    BY DEF Covers, Reversible, Deletion
  <2> QED BY <2>1, <2>2 DEF HInv, Undisturbed, OneInv, DeletedInv
<1> QED BY <1>1, HInvHolds, PTL

-----------------------------------------------------------------------------
(* What the history leaves in a column.                                     *)

\* The last of some operations, and the value that they leave in a column that
\* was `first' before any of them.
Newest(X) == CHOOSE i \in X : \A j \in X : j <= i
Given(X, after, first) == IF X = {} THEN first ELSE after[Newest(X)]

\* Of the operations on a column some are applied, some undone: the column has
\* what the applied ones leave in it, and each would restore what those before
\* it have left.
Explained(applied, undone, before, after, first, value) ==
  /\ value = Given(applied, after, first)
  /\ \A i \in applied \cup undone :
       before[i] = Given({j \in applied \cup undone : j < i}, after, first)

LEMMA NewestIs ==
  ASSUME NEW X \in SUBSET Ops, NEW i \in X, \A j \in X : j <= i
  PROVE  Newest(X) = i
<1> DEFINE Last(k) == \A j \in X : j <= k
<1>1. \A k \in X : Last(k) => k = i
  BY DEF Ops
<1>2. Last(i)
  OBVIOUS
<1> HIDE DEF Last
<1>3. (CHOOSE k \in X : Last(k)) = i
  BY <1>1, <1>2
<1> QED BY <1>3 DEF Newest, Last

\* A set of operations has a last one.
LEMMA NewestExists ==
  ASSUME NEW X \in SUBSET Ops, X # {}
  PROVE  Newest(X) \in X /\ \A j \in X : j <= Newest(X)
<1> DEFINE Above(k) == MaxOps - k
           Less == OpToRel(<, Nat)
           depths == {Above(k) : k \in X}
<1>1. MaxOps \in Nat /\ X \subseteq 1..MaxOps
  BY HistoryAssumption DEF HistoryAssumption, Ops
<1>2. depths # {} /\ depths \subseteq Nat
  <2>1. \A k \in X : k \in Int /\ MaxOps - k \in Nat
    BY <1>1
  <2> QED BY <2>1
<1>3. IsWellFoundedOn(Less, Nat)
  BY NatLessThanWellFounded
<1>4. PICK d \in depths : \A e \in depths : ~ (<<e, d>> \in Less)
  <2> HIDE DEF depths, Less
  <2> QED BY <1>2, <1>3, WFMin
<1>5. PICK i \in X : d = Above(i)
  OBVIOUS
<1>6. \A j \in X : j <= i
  <2> SUFFICES ASSUME NEW j \in X PROVE j <= i
    OBVIOUS
  <2>1. Above(j) \in depths /\ Above(j) \in Nat /\ d \in Nat
    BY <1>1
  <2>2. ~ (Above(j) < d)
    BY <1>4, <2>1 DEF OpToRel
  <2> QED BY <1>1, <1>5, <2>2
<1> QED BY <1>6, NewestIs

\* The same operations with the same payloads explain the same value.
LEMMA GivenSame ==
  ASSUME NEW X \in SUBSET Ops, NEW a, NEW a2, NEW first, \A i \in X : a2[i] = a[i]
  PROVE  Given(X, a2, first) = Given(X, a, first)
  BY NewestExists DEF Given

LEMMA ExplainedSame ==
  ASSUME NEW X \in SUBSET Ops, NEW Y \in SUBSET Ops, NEW b, NEW a, NEW first, NEW value,
         Explained(X, Y, b, a, first, value),
         NEW b2, NEW a2, \A i \in X \cup Y : b2[i] = b[i] /\ a2[i] = a[i]
  PROVE  Explained(X, Y, b2, a2, first, value)
<1>1. Given(X, a2, first) = Given(X, a, first)
  BY GivenSame
<1>2. ASSUME NEW i \in X \cup Y
      PROVE  Given({j \in X \cup Y : j < i}, a2, first) = Given({j \in X \cup Y : j < i}, a, first)
  <2> DEFINE earlier == {j \in X \cup Y : j < i}
  <2>1. earlier \in SUBSET Ops /\ \A j \in earlier : a2[j] = a[j]
    OBVIOUS
  <2> HIDE DEF earlier
  <2>2. Given(earlier, a2, first) = Given(earlier, a, first)
    BY <2>1, GivenSame
  <2> QED BY <2>2 DEF earlier
<1> QED BY <1>1, <1>2 DEF Explained

\* A new operation, and the undone ones are discarded.
LEMMA ExplainedDiscard ==
  ASSUME NEW X \in SUBSET Ops, NEW Y \in SUBSET Ops, NEW b, NEW a, NEW first, NEW value,
         \A i \in X, j \in Y : i < j,
         Explained(X, Y, b, a, first, value)
  PROVE  Explained(X, {}, b, a, first, value)
<1>1. ASSUME NEW i \in X
      PROVE  {j \in X \cup Y : j < i} = {j \in X \cup {} : j < i}
  <2>1. \A j \in Y : ~(j < i)
    BY DEF Ops
  <2> QED BY <2>1
<1> QED BY <1>1 DEF Explained

LEMMA ExplainedAppend ==
  ASSUME NEW X \in SUBSET Ops, NEW b, NEW a, NEW first, NEW value,
         Explained(X, {}, b, a, first, value),
         NEW n \in Ops, \A i \in X : i < n, b[n] = value
  PROVE  Explained(X \cup {n}, {}, b, a, first, a[n])
<1> DEFINE Z == X \cup {n}
<1>1. Newest(Z) = n /\ Z \in SUBSET Ops /\ Z # {}
  BY NewestIs DEF Ops
<1>2. \A i \in Z : {j \in Z : j < i} = IF i = n THEN X ELSE {j \in X : j < i}
  <2>1. \A i \in X : i < n /\ ~(n < i) /\ i # n
    BY DEF Ops
  <2>2. ~(n < n)
    BY DEF Ops
  <2> QED BY <2>1, <2>2
<1>3. ASSUME NEW i \in Z
      PROVE  b[i] = Given({j \in Z : j < i}, a, first)
  <2>1. CASE i = n
    <3>1. b[i] = Given(X, a, first) /\ {j \in Z : j < i} = X
      BY <1>2, <2>1 DEF Explained
    <3> QED BY <3>1
  <2>2. CASE i # n
    <3>1. i \in X /\ X \cup {} = X
      BY <2>2
    <3>2. b[i] = Given({j \in X : j < i}, a, first)
      BY <3>1 DEF Explained
    <3>3. {j \in Z : j < i} = {j \in X : j < i}
      BY <1>2, <2>2
    <3> QED BY <3>2, <3>3
  <2> QED BY <2>1, <2>2
<1>4. Z \cup {} = Z
  OBVIOUS
<1>5. a[n] = Given(Z, a, first)
  BY <1>1 DEF Given
<1> HIDE DEF Z
<1>6. Explained(Z, {}, b, a, first, a[n])
  BY <1>3, <1>4, <1>5 DEF Explained
<1> QED BY <1>6 DEF Z

\* The newest of those applied is undone, or the oldest of those undone redone.
LEMMA ExplainedUndo ==
  ASSUME NEW X \in SUBSET Ops, NEW Y \in SUBSET Ops, NEW b, NEW a, NEW first, NEW value,
         \A i \in X, j \in Y : i < j,
         Explained(X, Y, b, a, first, value),
         NEW n \in X, \A i \in X : i <= n
  PROVE  Explained(X \ {n}, Y \cup {n}, b, a, first, b[n])
<1>1. (X \ {n}) \cup (Y \cup {n}) = X \cup Y
  OBVIOUS
<1>2. {j \in X \cup Y : j < n} = X \ {n}
  <2>1. \A j \in X : j < n <=> j # n
    BY DEF Ops
  <2>2. \A j \in Y : ~(j < n)
    BY DEF Ops
  <2> QED BY <2>1, <2>2
<1>3. b[n] = Given({j \in X \cup Y : j < n}, a, first)
  BY DEF Explained
<1> DEFINE X2 == X \ {n}
           Y2 == Y \cup {n}
<1>4. X2 \cup Y2 = X \cup Y /\ b[n] = Given(X2, a, first)
  BY <1>1, <1>2, <1>3
<1> HIDE DEF X2, Y2
<1>5. Explained(X2, Y2, b, a, first, b[n])
  BY <1>4 DEF Explained
<1> QED BY <1>5 DEF X2, Y2

LEMMA ExplainedRedo ==
  ASSUME NEW X \in SUBSET Ops, NEW Y \in SUBSET Ops, NEW b, NEW a, NEW first, NEW value,
         \A i \in X, j \in Y : i < j,
         Explained(X, Y, b, a, first, value),
         NEW n \in Y
  PROVE  Explained(X \cup {n}, Y \ {n}, b, a, first, a[n])
<1> DEFINE X2 == X \cup {n}
           Y2 == Y \ {n}
<1>1. X2 \cup Y2 = X \cup Y
  OBVIOUS
<1>2. Newest(X2) = n
  BY NewestIs DEF Ops
<1>3. a[n] = Given(X2, a, first)
  BY <1>2 DEF Given
<1> HIDE DEF X2, Y2
<1>4. Explained(X2, Y2, b, a, first, a[n])
  BY <1>1, <1>3 DEF Explained
<1> QED BY <1>4 DEF X2, Y2

\* One column through a commit: n is recorded, undone or redone, and is on the
\* column or not.
LEMMA ColumnStep ==
  ASSUME NEW X \in SUBSET Ops, NEW Y \in SUBSET Ops, \A i \in X, j \in Y : i < j,
         NEW b, NEW a, NEW first, NEW value, Explained(X, Y, b, a, first, value),
         NEW b2, NEW a2, \A i \in X \cup Y : b2[i] = b[i] /\ a2[i] = a[i],
         NEW X2, NEW Y2, NEW value2, NEW n \in Ops,
         \/ X2 = X /\ (Y2 = Y \/ Y2 = {}) /\ value2 = value
         \/ X2 = X \cup {n} /\ Y2 = {} /\ (\A i \in X : i < n) /\ b2[n] = value /\ value2 = a2[n]
         \/ n \in X /\ (\A i \in X : i <= n) /\ X2 = X \ {n} /\ Y2 = Y \cup {n} /\ value2 = b2[n]
         \/ n \in Y /\ X2 = X \cup {n} /\ Y2 = Y \ {n} /\ value2 = a2[n]
  PROVE  Explained(X2, Y2, b2, a2, first, value2)
<1>1. Explained(X, Y, b2, a2, first, value)
  BY ExplainedSame
<1>2. CASE X2 = X /\ (Y2 = Y \/ Y2 = {}) /\ value2 = value
  BY <1>1, <1>2, ExplainedDiscard
<1>3. CASE X2 = X \cup {n} /\ Y2 = {} /\ (\A i \in X : i < n) /\ b2[n] = value /\ value2 = a2[n]
  <2>1. Explained(X, {}, b2, a2, first, value)
    BY <1>1, ExplainedDiscard
  <2>2. Explained(X \cup {n}, {}, b2, a2, first, a2[n])
    BY <1>3, <2>1, ExplainedAppend
  <2> QED BY <1>3, <2>2
<1>4. CASE n \in X /\ (\A i \in X : i <= n) /\ X2 = X \ {n} /\ Y2 = Y \cup {n} /\ value2 = b2[n]
  <2>1. Explained(X \ {n}, Y \cup {n}, b2, a2, first, b2[n])
    BY <1>1, <1>4, ExplainedUndo
  <2> QED BY <1>4, <2>1
<1>5. CASE n \in Y /\ X2 = X \cup {n} /\ Y2 = Y \ {n} /\ value2 = a2[n]
  <2>1. Explained(X \cup {n}, Y \ {n}, b2, a2, first, a2[n])
    BY <1>1, <1>5, ExplainedRedo
  <2> QED BY <1>5, <2>1
<1> QED BY <1>2, <1>3, <1>4, <1>5

-----------------------------------------------------------------------------
(* The columns that operations explain: their invariant.                    *)

\* The operations on the subset of a sample, on the name and on the deletion of
\* the part, and what they would restore and have written.
Edits(s) == {i \in Ops : op[i].action = "samples.subset_update" /\ s \in Listed(op[i])}
Renames == {i \in Ops : op[i].action = "import_batch.update"}
PartDeletions == {i \in Ops : op[i].action = "import_batch.delete"}
Before(s) == [i \in Ops |-> op[i].before[s]]
PartBefore == [i \in Ops |-> op[i].part]
After == [i \in Ops |-> op[i].after]

PositionInv == \A i \in Recorded, j \in Ops : j < i => j \in Recorded

\* What a request has loaded of the part is there, except for the status that
\* the import may write, and a new operation would restore what is there.
PartLoaded(c) ==
  LET r == request[c] IN
  /\ PartAction(r.op) => r.part.name = part.name /\ r.part.deleted = part.deleted
  /\ r.pc = "record" =>
       /\ r.op.action = "samples.subset_update" => \A s \in Listed(r.op) : r.op.before[s] = sample[s].subset
       /\ r.op.action = "import_batch.update" => r.op.part = part.name
       /\ r.op.action = "import_batch.delete" => ~part.deleted
PartLoadedInv == \A c \in Clients : request[c].pc # "idle" => PartLoaded(c)

\* The operations that an undo or a redo may replay.
Replayable == With("applied") \cup With("undone") \cup {i \in Ops : Held(i)}
PartDeletedInv ==
  /\ part.deleted <=> PartDeletions \cap With("applied") # {}
  /\ \A i, j \in PartDeletions \cap Replayable : i = j

ExplainedInv ==
  /\ \A i \in With("applied"), j \in With("undone") : i < j
  /\ \A s \in Samples :
       Explained(Edits(s) \cap With("applied"), Edits(s) \cap With("undone"), Before(s), After,
                 Imported, sample[s].subset)
  /\ Explained(Renames \cap With("applied"), Renames \cap With("undone"), PartBefore, After,
               FirstName, part.name)

CInv == /\ HInv
        /\ disjoint => /\ PositionInv /\ PartLoadedInv /\ PartDeletedInv
                       /\ inOrder => ExplainedInv

LEMMA CInvInit == Init => CInv
<1> SUFFICES ASSUME Init PROVE CInv
  OBVIOUS
<1>1. HInv
  BY HInvInit
<1>2. \A i \in Ops : op[i].status = "absent"
  BY DEF Init, NoOp
<1>3. With("applied") = {} /\ With("undone") = {} /\ Recorded = {}
  BY <1>2 DEF With, Recorded
<1>4. PositionInv /\ PartLoadedInv /\ PartDeletedInv
  BY <1>3, NoRequestTyped DEF Init, PositionInv, PartLoadedInv, PartDeletedInv, NewPart, Replayable, Held
<1>5. ExplainedInv
  BY <1>3 DEF Init, ExplainedInv, Explained, Given, NewSample, NewPart
<1> QED BY <1>1, <1>4, <1>5 DEF CInv

\* A step that changes neither the operations nor the columns they explain.
LEMMA ColumnsKept ==
  ASSUME CInv, HInv', op' = op, sample' = sample, part'.name = part.name, part'.deleted = part.deleted,
         inOrder' = inOrder, disjoint' => disjoint,
         \A i \in Ops : Held(i)' => Held(i) \/ op[i].status = "undone",
         disjoint' => \A c \in Clients :
           \/ request'[c].pc # "idle" => PartLoaded(c)'
           \/ request'[c] = request[c]
  PROVE  CInv'
<1> SUFFICES ASSUME disjoint'
             PROVE  /\ PositionInv' /\ PartLoadedInv' /\ PartDeletedInv'
                    /\ inOrder' => ExplainedInv'
  BY DEF CInv
<1>1. PositionInv' /\ PartDeletedInv'
  <2>1. Replayable' \subseteq Replayable
    BY DEF Replayable, With
  <2>2. /\ PartDeletions' = PartDeletions /\ With("applied")' = With("applied")
        /\ PositionInv' = PositionInv
    BY DEF PositionInv, Recorded, PartDeletions, With
  <2> QED BY <2>1, <2>2 DEF CInv, PartDeletedInv
<1>2. PartLoadedInv'
  BY DEF CInv, PartLoadedInv, PartLoaded, PartAction, Listed
<1>3. ASSUME inOrder' PROVE ExplainedInv'
  BY <1>3 DEF CInv, ExplainedInv, Edits, Renames, With, Before, PartBefore, After, Listed
<1> QED BY <1>1, <1>2, <1>3

LEMMA ReadsExplained ==
  ASSUME CInv, HInv', NEW c \in Clients, NEW pc, NEW id, NEW o, Reads(c, pc, id, o),
         pc = "redo" => op[id].status = "undone",
         pc = "record" =>
           /\ o.action = "samples.subset_update" => \A s \in Listed(o) : o.before[s] = sample[s].subset
           /\ o.action = "import_batch.update" => o.part = part.name
           /\ o.action = "import_batch.delete" => ~part.deleted
  PROVE  CInv'
<1> DEFINE seen == [s \in Samples |-> IF s \in Listed(o) THEN sample[s] ELSE NewSample]
           new == [pc |-> pc, id |-> id, op |-> o, part |-> part, sample |-> seen]
<1>1. /\ request' = [request EXCEPT ![c] = new]
      /\ UNCHANGED <<rows, sample, part, op, import, disjoint, inOrder>>
  BY DEF Reads, dbVars
<1> HIDE DEF seen
<1>2. new.op = o /\ new.pc = pc /\ new.part = part /\ new.id = id
  OBVIOUS
<1> HIDE DEF new
<1>3. request'[c] = new /\ \A d \in Clients : d # c => request'[d] = request[d]
  BY <1>1 DEF CInv, HInv, HTypes, TypeOK
<1>4. PartLoaded(c)'
  BY <1>1, <1>2, <1>3 DEF PartLoaded, PartAction, Listed
<1>5. \A i \in Ops : Held(i)' => Held(i) \/ op[i].status = "undone"
  BY <1>2, <1>3 DEF Held
<1> QED BY <1>1, <1>3, <1>4, <1>5, ColumnsKept

LEMMA EditReadsExplained ==
  ASSUME CInv, HInv', NEW c \in Clients, NEW S \in SUBSET Samples,
         DeleteRead(c, S) \/ \E v \in Subsets : SubsetRead(c, S, v)
  PROVE  CInv'
<1>1. CASE DeleteRead(c, S)
  <2> DEFINE o == [action |-> "samples.delete", status |-> "applied", before |-> StatusOf(S),
                   part |-> "none", after |-> "deleted"]
  <2>1. Reads(c, "record", 0, o) /\ o.action = "samples.delete"
    BY <1>1 DEF DeleteRead, Records
  <2> HIDE DEF o
  <2> QED BY <2>1, ReadsExplained
<1>2. ASSUME NEW v \in Subsets, SubsetRead(c, S, v) PROVE CInv'
  <2> DEFINE o == [action |-> "samples.subset_update", status |-> "applied",
                   before |-> [s \in S |-> sample[s].subset], part |-> "none", after |-> v]
  <2>1. Reads(c, "record", 0, o) /\ o.action = "samples.subset_update"
    BY <1>2 DEF SubsetRead, Records
  <2>2. \A s \in Listed(o) : o.before[s] = sample[s].subset
    BY DEF Listed
  <2> HIDE DEF o
  <2> QED BY <2>1, <2>2, ReadsExplained
<1> QED BY <1>1, <1>2

LEMMA PartReadsExplained ==
  ASSUME CInv, HInv', NEW c \in Clients, PartDeleteRead(c) \/ \E n \in Names : RenameRead(c, n)
  PROVE  CInv'
<1>1. CASE PartDeleteRead(c)
  <2> DEFINE o == [action |-> "import_batch.delete", status |-> "applied", before |-> StatusOf(Live),
                   part |-> part.status, after |-> "deleted"]
  <2>1. Reads(c, "record", 0, o) /\ o.action = "import_batch.delete" /\ ~part.deleted
    BY <1>1 DEF PartDeleteRead, Records
  <2> HIDE DEF o
  <2> QED BY <2>1, ReadsExplained
<1>2. ASSUME NEW n \in Names, RenameRead(c, n) PROVE CInv'
  <2> DEFINE o == [action |-> "import_batch.update", status |-> "applied",
                   before |-> [s \in {} |-> "ready"], part |-> part.name, after |-> n]
  <2>1. Reads(c, "record", 0, o) /\ o.action = "import_batch.update" /\ o.part = part.name
    BY <1>2 DEF RenameRead, Records
  <2> HIDE DEF o
  <2> QED BY <2>1, ReadsExplained
<1> QED BY <1>1, <1>2

LEMMA ReplayReadsExplained ==
  ASSUME CInv, HInv', NEW c \in Clients, NEW i \in Ops, UndoRead(c, i) \/ RedoRead(c, i)
  PROVE  CInv'
<1>1. CASE UndoRead(c, i)
  <2>1. Reads(c, "undo", i, op[i])
    BY <1>1 DEF UndoRead
  <2> QED BY <2>1, ReadsExplained
<1>2. CASE RedoRead(c, i)
  <2>1. Reads(c, "redo", i, op[i]) /\ op[i].status = "undone"
    BY <1>2 DEF RedoRead
  <2> QED BY <2>1, ReadsExplained
<1> QED BY <1>1, <1>2

LEMMA ImportExplained ==
  ASSUME CInv, HInv', ImportLoad \/ (\E s \in Samples : ImportSample(s)) \/ ImportFinish \/ ImportFail
  PROVE  CInv'
<1>1. /\ UNCHANGED <<sample, op, request, inOrder>> /\ (disjoint' => disjoint)
  BY DEF ImportLoad, ImportSample, ImportFinish, ImportFail, dbVars, CInv, HInv, HTypes, TypeOK
<1>2. part \in Part
  BY DEF CInv, HInv, HTypes, TypeOK
<1>3. part'.name = part.name /\ part'.deleted = part.deleted
  BY <1>2 DEF ImportLoad, ImportSample, ImportFinish, ImportFail, dbVars, Part
<1>4. \A i \in Ops : Held(i)' => Held(i)
  BY <1>1 DEF Held
<1> QED BY <1>1, <1>3, <1>4, ColumnsKept

-----------------------------------------------------------------------------
\* What a commit does to the subsets of samples and to the part, while no
\* conflicting requests overlap.
LEMMA SubsetEffect ==
  ASSUME HInv, disjoint, NEW c \in Clients, request[c].pc # "idle", NEW forward \in BOOLEAN,
         \/ request[c].pc = "record" /\ forward /\ Performs(request[c])
         \/ request[c].pc # "record" /\ Replay(request[c], forward),
         NEW s \in Samples
  PROVE  sample'[s].subset =
           IF request[c].op.action = "samples.subset_update" /\ s \in Listed(request[c].op)
           THEN IF forward THEN request[c].op.after ELSE request[c].op.before[s]
           ELSE sample[s].subset
<1> DEFINE r == request[c]
           o == r.op
<1>1. /\ sample[s] \in Sample /\ \A t \in Listed(o) : r.sample[t] = sample[t]
  BY DEF HInv, HTypes, TypeOK, Undisturbed, LoadedInv, Loaded
<1>2. CASE Replay(r, forward) /\ s \in Listed(o)
  <2> DEFINE new == IF forward THEN o.after ELSE o.before[s]
  <2>1. sample'[s] = Replayed(sample[s], sample[s], o, s, forward)
    BY <1>1, <1>2 DEF Replay
  <2>2. CASE o.action = "samples.subset_update"
    <3>1. sample'[s] = [sample[s] EXCEPT !.subset = Saved(sample[s].subset, sample[s].subset, new)]
      BY <2>1, <2>2 DEF Replayed
    <3>2. Saved(sample[s].subset, sample[s].subset, new) = new
      BY DEF Saved
    <3> HIDE DEF new
    <3>3. sample'[s].subset = new
      BY <1>1, <3>1, <3>2 DEF Sample
    <3> QED BY <1>2, <2>2, <3>3 DEF new
  <2>3. CASE o.action # "samples.subset_update"
    <3>1. sample'[s].subset = sample[s].subset
      BY <1>1, <2>1, <2>3 DEF Replayed, Sample
    <3> QED BY <2>3, <3>1
  <2> QED BY <2>2, <2>3
<1>3. CASE Replay(r, forward) /\ s \notin Listed(o)
  BY <1>3 DEF Replay
<1>4. CASE o.action = "import_batch.delete" /\ DeleteLive(r)
  <2>1. sample'[s] = IF s \in Live THEN [sample[s] EXCEPT !.deleted = TRUE, !.status = "deleted"]
                     ELSE sample[s]
    BY <1>4 DEF DeleteLive
  <2>2. sample'[s].subset = sample[s].subset
    BY <1>1, <2>1 DEF Sample
  <2> QED BY <1>4, <2>2
<1> QED BY <1>2, <1>3, <1>4 DEF Performs

LEMMA PartEffect ==
  ASSUME CInv, disjoint, NEW c \in Clients, request[c].pc # "idle", NEW forward \in BOOLEAN,
         \/ request[c].pc = "record" /\ forward /\ Performs(request[c])
         \/ request[c].pc # "record" /\ Replay(request[c], forward)
  PROVE  /\ part'.name = IF request[c].op.action = "import_batch.update"
                         THEN IF forward THEN request[c].op.after ELSE request[c].op.part
                         ELSE part.name
         /\ part'.deleted = IF request[c].op.action = "import_batch.delete" THEN forward
                            ELSE part.deleted
<1> DEFINE r == request[c]
           o == r.op
<1>1. /\ part \in Part /\ part' = ReplayedPart(part, r.part, o, forward)
      /\ PartAction(o) => r.part.name = part.name /\ r.part.deleted = part.deleted
  BY DEF CInv, HInv, HTypes, TypeOK, PartLoadedInv, PartLoaded, Performs, Replay, DeleteLive
<1>2. CASE o.action = "import_batch.update"
  <2> DEFINE new == IF forward THEN o.after ELSE o.part
  <2>1. part' = [part EXCEPT !.name = Saved(part.name, r.part.name, new)]
    BY <1>1, <1>2 DEF ReplayedPart
  <2>2. Saved(part.name, r.part.name, new) = new
    BY <1>1, <1>2 DEF Saved, PartAction
  <2> HIDE DEF new
  <2>3. part'.name = new /\ part'.deleted = part.deleted
    BY <1>1, <2>1, <2>2 DEF Part
  <2> QED BY <1>2, <2>3 DEF new
<1>3. CASE o.action = "import_batch.delete"
  <2> DEFINE d == IF forward THEN TRUE ELSE Saved(part.deleted, r.part.deleted, FALSE)
             t == Saved(part.status, r.part.status, IF forward THEN "deleted" ELSE o.part)
  <2>1. part' = [part EXCEPT !.deleted = d, !.status = t]
    BY <1>1, <1>3 DEF ReplayedPart
  <2>2. d = forward
    BY <1>1, <1>3 DEF Saved, PartAction, Part
  <2> HIDE DEF d, t
  <2>3. part'.name = part.name /\ part'.deleted = d
    BY <1>1, <2>1 DEF Part
  <2> QED BY <1>3, <2>2, <2>3
<1>4. CASE ~PartAction(o)
  BY <1>1, <1>4 DEF ReplayedPart, PartAction
<1> QED BY <1>2, <1>3, <1>4 DEF PartAction

LEMMA OthersPartLoaded ==
  ASSUME CInv, disjoint, NEW c \in Clients, request[c].pc # "idle", Ends(c), disjoint',
         \A s \in Samples : s \notin Reach(request[c]) => sample'[s] = sample[s],
         ~PartAction(request[c].op) => part'.name = part.name /\ part'.deleted = part.deleted
  PROVE  PartLoadedInv'
<1>1. /\ request'[c] = NoRequest
      /\ \A d \in Clients : d # c => request'[d] = request[d]
      /\ ~Interferes(c)
  BY DEF Ends, CInv, HInv, HTypes, TypeOK
<1> SUFFICES ASSUME NEW d \in Clients, d # c, request[d].pc # "idle"
             PROVE  PartLoaded(d)'
  BY <1>1, NoRequestTyped DEF PartLoadedInv
<1>2. PartLoaded(d) /\ ~Conflict(request[c], request[d])
  BY <1>1 DEF CInv, PartLoadedInv, Interferes
<1>3. Listed(request[d].op) \subseteq Reach(request[d]) /\ Listed(request[d].op) \subseteq Samples
  BY ListedSamples DEF Reach, CInv, HInv, HTypes, OpTyped
<1>4. \A s \in Listed(request[d].op) : sample'[s] = sample[s]
  BY <1>2, <1>3 DEF Conflict
<1>5. PartAction(request[d].op) => part'.name = part.name /\ part'.deleted = part.deleted
  BY <1>2 DEF Conflict
<1> QED BY <1>1, <1>2, <1>4, <1>5 DEF PartLoaded, PartAction, Listed

LEMMA RecordExplained ==
  ASSUME CInv, HInv', NEW c \in Clients, RecordCommit(c)
  PROVE  CInv'
<1> DEFINE o == request[c].op
           n == NextOp
<1>1. /\ request[c].pc = "record" /\ Recorded # Ops /\ Performs(request[c])
      /\ RecordOperation(o) /\ Ends(c) /\ inOrder' = inOrder
  BY DEF RecordCommit
<1>2. disjoint' => disjoint
  BY <1>1 DEF Ends, CInv, HInv, HTypes, TypeOK
<1> SUFFICES ASSUME disjoint'
             PROVE  /\ PositionInv' /\ PartLoadedInv' /\ PartDeletedInv'
                    /\ inOrder' => ExplainedInv'
  BY DEF CInv
<1>3. OpTyped(o) /\ HTypes /\ o.status = "applied"
  BY <1>1, <1>2 DEF CInv, HInv, HTypes, Undisturbed, LoadedInv
<1>4. /\ n \in Ops \ Recorded /\ \A j \in Ops \ Recorded : n <= j
      /\ op' = [i \in Ops |-> op'[i]] /\ op'[n] = o
      /\ \A i \in Ops : i # n =>
           /\ op'[i].action = op[i].action /\ op'[i].before = op[i].before
           /\ op'[i].part = op[i].part /\ op'[i].after = op[i].after
           /\ op'[i].status = IF op[i].status = "undone" THEN "discarded" ELSE op[i].status
  BY <1>1, <1>3, Appended, NextIsNew
<1> HIDE DEF n
<1>5. \A i \in Ops : op[i].status \in {"absent", "applied", "undone", "discarded"}
  BY DEF CInv, HInv, HTypes, OpTyped, Operation
<1>6. /\ Recorded' = Recorded \cup {n}
      /\ With("applied")' = With("applied") \cup {n}
      /\ With("undone")' = {}
      /\ With("applied") \in SUBSET Ops /\ With("undone") \in SUBSET Ops
      /\ With("applied") \subseteq Recorded /\ n \notin With("applied")
  <2>1. \A i \in Ops : i \in Recorded' <=> i \in Recorded \/ i = n
    BY <1>3, <1>4, <1>5 DEF Recorded
  <2>2. \A i \in Ops : i \in With("applied")' <=> i \in With("applied") \/ i = n
    BY <1>3, <1>4, <1>5 DEF With
  <2>3. \A i \in Ops : i \notin With("undone")'
    BY <1>3, <1>4, <1>5 DEF With
  <2> QED BY <1>4, <2>1, <2>2, <2>3 DEF Recorded, With
<1>7. \A i \in Recorded : i < n
  <2> SUFFICES ASSUME NEW i \in Recorded PROVE i < n
    OBVIOUS
  <2>1. i \in Int /\ n \in Int /\ i # n
    BY <1>4 DEF Recorded, Ops
  <2>2. ~(n < i)
    BY <1>2, <1>4 DEF CInv, PositionInv
  <2> QED BY <2>1, <2>2
<1>8. PositionInv'
  <2>1. \A j \in Ops : j < n => j \in Recorded
    BY <1>4 DEF Ops
  <2> QED BY <1>2, <1>6, <2>1 DEF CInv, PositionInv
<1>9. \A s \in Samples : s \notin Reach(request[c]) => sample'[s] = sample[s]
  BY <1>1, <1>2, Effect DEF CInv
<1>10. /\ part'.name = IF o.action = "import_batch.update" THEN o.after ELSE part.name
       /\ part'.deleted = IF o.action = "import_batch.delete" THEN TRUE ELSE part.deleted
  BY <1>1, <1>2, PartEffect
<1>11. PartLoadedInv'
  BY <1>1, <1>2, <1>9, <1>10, OthersPartLoaded DEF PartAction
<1>12. PartLoaded(c) /\ PartDeletedInv /\ (inOrder => ExplainedInv)
  BY <1>1, <1>2 DEF CInv, PartLoadedInv
<1>13. PartDeletedInv'
  <2>1. \A i \in Ops : i \in PartDeletions' <=> IF i = n THEN o.action = "import_batch.delete" ELSE i \in PartDeletions
    BY <1>4 DEF PartDeletions
  <2>2. PartDeletions' \in SUBSET Ops /\ PartDeletions \in SUBSET Ops
    BY DEF PartDeletions
  <2> DEFINE Returning == {i \in Ops : \E d \in Clients \ {c} : request[d].pc = "redo" /\ request[d].id = i}
  <2>3. Replayable' \subseteq With("applied") \cup {n} \cup Returning
    BY <1>1, <1>6, NoRequestTyped DEF Replayable, Held, Ends, CInv, HInv, HTypes, TypeOK
  <2>4. CASE o.action = "import_batch.delete"
    <3>1. PartDeletions \cap With("applied") = {}
      BY <1>1, <1>12, <2>4 DEF PartLoaded, PartDeletedInv
    <3>2. ASSUME NEW i \in Returning, i \in PartDeletions PROVE FALSE
      <4>1. PICK d \in Clients \ {c} : request[d].pc = "redo" /\ request[d].id = i
        OBVIOUS
      <4>2. request[d].op.action = "import_batch.delete"
        BY <1>2, <3>2, <4>1 DEF CInv, HInv, Undisturbed, LoadedInv, Was, PartDeletions
      <4>3. ~Conflict(request[c], request[d])
        BY <1>1, <4>1 DEF Ends, Interferes
      <4> QED BY <2>4, <4>2, <4>3 DEF Conflict, PartAction
    <3> HIDE DEF Returning
    <3>3. PartDeletions' \cap Replayable' \subseteq {n}
      BY <2>1, <2>2, <2>3, <3>1, <3>2
    <3>4. n \in PartDeletions' \cap With("applied")'
      BY <1>4, <1>6, <2>1, <2>4
    <3> QED BY <1>10, <2>4, <3>3, <3>4 DEF PartDeletedInv
  <2>5. CASE o.action # "import_batch.delete"
    <3>1. PartDeletions' \cap With("applied")' = PartDeletions \cap With("applied")
      BY <1>4, <1>6, <2>1, <2>2, <2>5
    <3>2. With("applied") \cup Returning \subseteq Replayable
      BY DEF Replayable, Held
    <3> HIDE DEF Returning
    <3>3. PartDeletions' \cap Replayable' \subseteq PartDeletions \cap Replayable
      BY <1>4, <2>1, <2>2, <2>3, <2>5, <3>2
    <3> QED BY <1>10, <1>12, <2>5, <3>1, <3>3 DEF PartDeletedInv
  <2> QED BY <2>4, <2>5
<1> SUFFICES ASSUME inOrder' PROVE ExplainedInv'
  BY <1>8, <1>11, <1>13
<1>14. /\ \A i \in With("applied"), j \in With("undone") : i < j
       /\ \A i \in With("applied") : i < n
       /\ \A i \in With("applied") \cup With("undone") :
            /\ i # n /\ i \in Ops
            /\ op'[i].action = op[i].action /\ op'[i].before = op[i].before
            /\ op'[i].part = op[i].part /\ op'[i].after = op[i].after
       /\ n \in Ops /\ op'[n] = o
  <2>1. With("undone") \subseteq Recorded
    BY DEF With, Recorded
  <2> QED BY <1>1, <1>4, <1>6, <1>7, <1>12, <2>1 DEF ExplainedInv
<1>15. ASSUME NEW s \in Samples
       PROVE  Explained(Edits(s)' \cap With("applied")', Edits(s)' \cap With("undone")', Before(s)', After',
                        Imported, sample'[s].subset)
  <2> DEFINE X == Edits(s) \cap With("applied")
             Y == Edits(s) \cap With("undone")
             X2 == Edits(s)' \cap With("applied")'
             Y2 == Edits(s)' \cap With("undone")'
             old == sample[s].subset
             new == sample'[s].subset
             edited == o.action = "samples.subset_update" /\ s \in Listed(o)
  <2>1. Explained(X, Y, Before(s), After, Imported, old)
    BY <1>1, <1>12 DEF ExplainedInv
  <2>2. /\ \A i \in X \cup Y : Before(s)'[i] = Before(s)[i] /\ After'[i] = After[i]
        /\ Before(s)'[n] = o.before[s] /\ After'[n] = o.after
    BY <1>6, <1>14 DEF Before, After
  <2>3. X2 = (IF edited THEN X \cup {n} ELSE X) /\ Y2 = {}
    BY <1>6, <1>14 DEF Edits, Listed
  <2>4. edited => o.before[s] = old
    BY <1>1, <1>12 DEF PartLoaded
  <2>5. new = IF edited THEN o.after ELSE old
    BY <1>1, <1>2, SubsetEffect DEF CInv
  <2>6. /\ X \in SUBSET Ops /\ Y \in SUBSET Ops
        /\ (\A i \in X, j \in Y : i < j) /\ (\A i \in X : i < n)
    BY <1>6, <1>14
  <2> HIDE DEF X, Y, X2, Y2, old, new, edited
  <2>7. \/ X2 = X /\ Y2 = {} /\ new = old
        \/ X2 = X \cup {n} /\ Y2 = {} /\ Before(s)'[n] = old /\ new = After'[n]
    BY <2>2, <2>3, <2>4, <2>5
  <2>8. Explained(X2, Y2, Before(s)', After', Imported, new)
    BY <1>14, <2>1, <2>2, <2>6, <2>7, ColumnStep
  <2> QED BY <2>8 DEF X2, Y2, new
<1>16. Explained(Renames' \cap With("applied")', Renames' \cap With("undone")', PartBefore', After',
                 FirstName, part'.name)
  <2> DEFINE X == Renames \cap With("applied")
             Y == Renames \cap With("undone")
             X2 == Renames' \cap With("applied")'
             Y2 == Renames' \cap With("undone")'
             old == part.name
             new == part'.name
             renamed == o.action = "import_batch.update"
  <2>1. Explained(X, Y, PartBefore, After, FirstName, old)
    BY <1>1, <1>12 DEF ExplainedInv
  <2>2. /\ \A i \in X \cup Y : PartBefore'[i] = PartBefore[i] /\ After'[i] = After[i]
        /\ PartBefore'[n] = o.part /\ After'[n] = o.after
    BY <1>6, <1>14 DEF PartBefore, After
  <2>3. X2 = (IF renamed THEN X \cup {n} ELSE X) /\ Y2 = {}
    BY <1>6, <1>14 DEF Renames
  <2>4. renamed => o.part = old
    BY <1>1, <1>12 DEF PartLoaded
  <2>5. new = IF renamed THEN o.after ELSE old
    BY <1>10
  <2>6. /\ X \in SUBSET Ops /\ Y \in SUBSET Ops
        /\ (\A i \in X, j \in Y : i < j) /\ (\A i \in X : i < n)
    BY <1>6, <1>14
  <2> HIDE DEF X, Y, X2, Y2, old, new, renamed
  <2>7. \/ X2 = X /\ Y2 = {} /\ new = old
        \/ X2 = X \cup {n} /\ Y2 = {} /\ PartBefore'[n] = old /\ new = After'[n]
    BY <2>2, <2>3, <2>4, <2>5
  <2>8. Explained(X2, Y2, PartBefore', After', FirstName, new)
    BY <1>14, <2>1, <2>2, <2>6, <2>7, ColumnStep
  <2> QED BY <2>8 DEF X2, Y2, new
<1> QED BY <1>6, <1>15, <1>16 DEF ExplainedInv

LEMMA ReplayExplained ==
  ASSUME CInv, HInv', NEW c \in Clients, UndoCommit(c) \/ RedoCommit(c)
  PROVE  CInv'
<1> DEFINE o == request[c].op
           n == request[c].id
           forward == request[c].pc = "redo"
           status == IF forward THEN "applied" ELSE "undone"
<1>1. /\ request[c].pc \in {"undo", "redo"} /\ Replay(request[c], forward)
      /\ SetStatus(n, status) /\ Ends(c)
      /\ inOrder' = (inOrder /\ IF forward THEN op[n].status = "undone" /\ \A j \in With("undone") : n <= j
                                ELSE \A j \in With("applied") : j <= n)
  BY DEF UndoCommit, RedoCommit
<1>2. disjoint' => disjoint
  BY <1>1 DEF Ends, CInv, HInv, HTypes, TypeOK
<1> SUFFICES ASSUME disjoint'
             PROVE  /\ PositionInv' /\ PartLoadedInv' /\ PartDeletedInv'
                    /\ inOrder' => ExplainedInv'
  BY DEF CInv
<1>3. /\ HTypes /\ n \in Ops
      /\ op[n].action = o.action /\ op[n].before = o.before
      /\ op[n].part = o.part /\ op[n].after = o.after
      /\ op[n].status \in IF forward THEN {"undone", "discarded"} ELSE {"applied"}
      /\ forward => Held(n)
  BY <1>1, <1>2 DEF CInv, HInv, HTypes, Undisturbed, LoadedInv, Was, Held
<1>4. /\ \A j \in Ops : j # n => op'[j] = op[j]
      /\ op'[n].status = status /\ op'[n].action = op[n].action /\ op'[n].before = op[n].before
      /\ op'[n].part = op[n].part /\ op'[n].after = op[n].after
  <2>1. status \in {"applied", "undone"}
    OBVIOUS
  <2> HIDE DEF status, n
  <2> QED BY <1>1, <1>3, <2>1, StatusSet
<1>5. forward \in BOOLEAN
  OBVIOUS
<1> HIDE DEF forward, n
<1>6. /\ Recorded' = Recorded
      /\ With("applied")' = IF forward THEN With("applied") \cup {n} ELSE With("applied") \ {n}
      /\ With("undone")' = IF forward THEN With("undone") \ {n} ELSE With("undone") \cup {n}
      /\ With("applied") \in SUBSET Ops /\ With("undone") \in SUBSET Ops
      /\ ~forward => n \in With("applied")
      /\ op[n].status = "undone" => n \in With("undone")
  <2>1. \A i \in Ops : i \in Recorded' <=> i \in Recorded
    BY <1>3, <1>4 DEF Recorded
  <2>2. \A i \in Ops : i \in With("applied")' <=> IF forward THEN i \in With("applied") \/ i = n
                                                  ELSE i \in With("applied") /\ i # n
    BY <1>3, <1>4 DEF With
  <2>3. \A i \in Ops : i \in With("undone")' <=> IF forward THEN i \in With("undone") /\ i # n
                                                 ELSE i \in With("undone") \/ i = n
    BY <1>3, <1>4 DEF With
  <2> QED BY <1>3, <2>1, <2>2, <2>3 DEF Recorded, With
<1>7. PositionInv'
  BY <1>2, <1>6 DEF CInv, PositionInv
<1>8. request[c].pc # "idle" /\ request[c].pc # "record"
  BY <1>1
<1>9. \A s \in Samples : s \notin Reach(request[c]) => sample'[s] = sample[s]
  BY <1>1, <1>2, <1>5, <1>8, Effect DEF CInv
<1>10. /\ part'.name = IF o.action = "import_batch.update" THEN IF forward THEN o.after ELSE o.part
                       ELSE part.name
       /\ part'.deleted = IF o.action = "import_batch.delete" THEN forward ELSE part.deleted
  BY <1>1, <1>2, <1>5, <1>8, PartEffect
<1>11. PartLoadedInv'
  BY <1>1, <1>2, <1>8, <1>9, <1>10, OthersPartLoaded DEF PartAction
<1>12. PartDeletedInv /\ (inOrder => ExplainedInv)
  BY <1>1, <1>2 DEF CInv
<1>13. PartDeletedInv'
  <2>1. PartDeletions' = PartDeletions /\ PartDeletions \in SUBSET Ops
    BY <1>4 DEF PartDeletions
  <2>2. Replayable' \subseteq Replayable /\ n \in Replayable
    <3>1. \A i \in Ops : Held(i)' => Held(i)
      BY <1>1, NoRequestTyped DEF Held, Ends, CInv, HInv, HTypes, TypeOK
    <3> QED BY <1>3, <1>6, <3>1 DEF Replayable
  <2>3. n \in PartDeletions <=> o.action = "import_batch.delete"
    BY <1>3 DEF PartDeletions
  <2>4. CASE n \in PartDeletions
    <3>1. PartDeletions \cap With("applied") \subseteq {n}
      BY <1>12, <2>2, <2>4 DEF PartDeletedInv, Replayable
    <3>2. PartDeletions \cap With("applied")' = IF forward THEN {n} ELSE {}
      BY <1>6, <2>4, <3>1
    <3> QED BY <1>5, <1>10, <1>12, <2>1, <2>2, <2>3, <2>4, <3>2 DEF PartDeletedInv
  <2>5. CASE n \notin PartDeletions
    <3>1. PartDeletions \cap With("applied")' = PartDeletions \cap With("applied")
      BY <1>6, <2>5
    <3> QED BY <1>10, <1>12, <2>1, <2>2, <2>3, <2>5, <3>1 DEF PartDeletedInv
  <2> QED BY <2>4, <2>5
<1> SUFFICES ASSUME inOrder' PROVE ExplainedInv'
  BY <1>7, <1>11, <1>13
<1>14. /\ \A i \in With("applied"), j \in With("undone") : i < j
       /\ IF forward THEN n \in With("undone") /\ \A j \in With("undone") : n <= j
          ELSE n \in With("applied") /\ \A j \in With("applied") : j <= n
       /\ \A i \in Ops : /\ op'[i].action = op[i].action /\ op'[i].before = op[i].before
                         /\ op'[i].part = op[i].part /\ op'[i].after = op[i].after
  BY <1>1, <1>4, <1>6, <1>12 DEF ExplainedInv
<1>15. \A i \in With("applied")', j \in With("undone")' : i < j
  <2>1. \A i \in Ops, j \in Ops : i # j /\ i <= j => i < j
    BY DEF Ops
  <2> QED BY <1>6, <1>14, <2>1
<1>16. ASSUME NEW s \in Samples
       PROVE  Explained(Edits(s)' \cap With("applied")', Edits(s)' \cap With("undone")', Before(s)', After',
                        Imported, sample'[s].subset)
  <2> DEFINE X == Edits(s) \cap With("applied")
             Y == Edits(s) \cap With("undone")
             X2 == Edits(s)' \cap With("applied")'
             Y2 == Edits(s)' \cap With("undone")'
             old == sample[s].subset
             new == sample'[s].subset
             edited == o.action = "samples.subset_update" /\ s \in Listed(o)
  <2>1. Explained(X, Y, Before(s), After, Imported, old)
    BY <1>1, <1>12 DEF ExplainedInv
  <2>2. /\ \A i \in X \cup Y : Before(s)'[i] = Before(s)[i] /\ After'[i] = After[i]
        /\ Before(s)'[n] = o.before[s] /\ After'[n] = o.after
    BY <1>3, <1>6, <1>14 DEF Before, After
  <2>3. /\ Edits(s)' = Edits(s)
        /\ n \in Edits(s) <=> edited
    BY <1>3, <1>14 DEF Edits, Listed
  <2>4. /\ ~edited => X2 = X /\ Y2 = Y
        /\ edited /\ forward => n \in Y /\ X2 = X \cup {n} /\ Y2 = Y \ {n}
        /\ edited /\ ~forward => n \in X /\ X2 = X \ {n} /\ Y2 = Y \cup {n}
    BY <1>6, <1>14, <2>3
  <2>5. new = IF edited THEN IF forward THEN o.after ELSE o.before[s] ELSE old
    BY <1>1, <1>2, <1>5, <1>8, SubsetEffect DEF CInv
  <2>6. /\ X \in SUBSET Ops /\ Y \in SUBSET Ops
        /\ (\A i \in X, j \in Y : i < j) /\ (~forward => \A i \in X : i <= n)
    BY <1>6, <1>14
  <2> HIDE DEF X, Y, X2, Y2, old, new, edited
  <2>7. \/ X2 = X /\ Y2 = Y /\ new = old
        \/ n \in X /\ (\A i \in X : i <= n) /\ X2 = X \ {n} /\ Y2 = Y \cup {n} /\ new = Before(s)'[n]
        \/ n \in Y /\ X2 = X \cup {n} /\ Y2 = Y \ {n} /\ new = After'[n]
    BY <2>2, <2>4, <2>5, <2>6
  <2>8. n \in Ops
    BY <1>3
  <2> DEFINE before == Before(s)
             before2 == Before(s)'
  <2>9. Explained(X2, Y2, before2, After', Imported, new)
    <3> HIDE DEF before, before2
    <3>1. \A i \in X \cup Y : before2[i] = before[i] /\ After'[i] = After[i]
      BY <2>2 DEF before, before2
    <3>2. \/ X2 = X /\ Y2 = Y /\ new = old
          \/ n \in X /\ (\A i \in X : i <= n) /\ X2 = X \ {n} /\ Y2 = Y \cup {n} /\ new = before2[n]
          \/ n \in Y /\ X2 = X \cup {n} /\ Y2 = Y \ {n} /\ new = After'[n]
      BY <2>7 DEF before2
    <3>3. Explained(X, Y, before, After, Imported, old)
      BY <2>1 DEF before
    <3> QED BY <2>6, <2>8, <3>1, <3>2, <3>3, ColumnStep
  <2> QED BY <2>9 DEF X2, Y2, new
<1>17. Explained(Renames' \cap With("applied")', Renames' \cap With("undone")', PartBefore', After',
                 FirstName, part'.name)
  <2> DEFINE X == Renames \cap With("applied")
             Y == Renames \cap With("undone")
             X2 == Renames' \cap With("applied")'
             Y2 == Renames' \cap With("undone")'
             old == part.name
             new == part'.name
             renamed == o.action = "import_batch.update"
  <2>1. Explained(X, Y, PartBefore, After, FirstName, old)
    BY <1>1, <1>12 DEF ExplainedInv
  <2>2. /\ \A i \in X \cup Y : PartBefore'[i] = PartBefore[i] /\ After'[i] = After[i]
        /\ PartBefore'[n] = o.part /\ After'[n] = o.after
    BY <1>3, <1>6, <1>14 DEF PartBefore, After
  <2>3. /\ Renames' = Renames
        /\ n \in Renames <=> renamed
    BY <1>3, <1>14 DEF Renames
  <2>4. /\ ~renamed => X2 = X /\ Y2 = Y
        /\ renamed /\ forward => n \in Y /\ X2 = X \cup {n} /\ Y2 = Y \ {n}
        /\ renamed /\ ~forward => n \in X /\ X2 = X \ {n} /\ Y2 = Y \cup {n}
    BY <1>6, <1>14, <2>3
  <2>5. new = IF renamed THEN IF forward THEN o.after ELSE o.part ELSE old
    BY <1>10
  <2>6. /\ X \in SUBSET Ops /\ Y \in SUBSET Ops
        /\ (\A i \in X, j \in Y : i < j) /\ (~forward => \A i \in X : i <= n)
    BY <1>6, <1>14
  <2> HIDE DEF X, Y, X2, Y2, old, new, renamed
  <2>7. \/ X2 = X /\ Y2 = Y /\ new = old
        \/ n \in X /\ (\A i \in X : i <= n) /\ X2 = X \ {n} /\ Y2 = Y \cup {n} /\ new = PartBefore'[n]
        \/ n \in Y /\ X2 = X \cup {n} /\ Y2 = Y \ {n} /\ new = After'[n]
    BY <2>2, <2>4, <2>5, <2>6
  <2>8. n \in Ops
    BY <1>3
  <2> DEFINE before == PartBefore
             before2 == PartBefore'
  <2>9. Explained(X2, Y2, before2, After', FirstName, new)
    <3> HIDE DEF before, before2
    <3>1. \A i \in X \cup Y : before2[i] = before[i] /\ After'[i] = After[i]
      BY <2>2 DEF before, before2
    <3>2. \/ X2 = X /\ Y2 = Y /\ new = old
          \/ n \in X /\ (\A i \in X : i <= n) /\ X2 = X \ {n} /\ Y2 = Y \cup {n} /\ new = before2[n]
          \/ n \in Y /\ X2 = X \cup {n} /\ Y2 = Y \ {n} /\ new = After'[n]
      BY <2>7 DEF before2
    <3>3. Explained(X, Y, before, After, FirstName, old)
      BY <2>1 DEF before
    <3> QED BY <2>6, <2>8, <3>1, <3>2, <3>3, ColumnStep
  <2> QED BY <2>9 DEF X2, Y2, new
<1> QED BY <1>15, <1>16, <1>17 DEF ExplainedInv

LEMMA CInvStep ==
  ASSUME CInv, [Next]_vars
  PROVE  CInv'
<1>1. HInv'
  BY HInvStep DEF CInv
<1>2. ASSUME NEW c \in Clients, NEW S \in SUBSET Samples,
             DeleteRead(c, S) \/ \E v \in Subsets : SubsetRead(c, S, v)
      PROVE  CInv'
  BY <1>1, <1>2, EditReadsExplained
<1>3. ASSUME NEW c \in Clients, PartDeleteRead(c) \/ \E n \in Names : RenameRead(c, n) PROVE CInv'
  BY <1>1, <1>3, PartReadsExplained
<1>4. ASSUME NEW c \in Clients, NEW i \in Ops, UndoRead(c, i) \/ RedoRead(c, i) PROVE CInv'
  BY <1>1, <1>4, ReplayReadsExplained
<1>5. ASSUME NEW c \in Clients, RecordCommit(c) PROVE CInv'
  BY <1>1, <1>5, RecordExplained
<1>6. ASSUME NEW c \in Clients, UndoCommit(c) \/ RedoCommit(c) PROVE CInv'
  BY <1>1, <1>6, ReplayExplained
<1>7. CASE ImportLoad \/ (\E s \in Samples : ImportSample(s)) \/ ImportFinish \/ ImportFail
  BY <1>1, <1>7, ImportExplained
<1>8. CASE UNCHANGED vars
  BY <1>1, <1>8, ColumnsKept DEF vars, dbVars, Held
<1> QED BY <1>2, <1>3, <1>4, <1>5, <1>6, <1>7, <1>8 DEF Next

\* While conflicting requests have not overlapped, undos are of the newest
\* operation applied and redos of the oldest undone, the subset of each sample,
\* the part's name and its deletion are the outcome of the operations applied.
THEOREM HistoryExplained == Spec => []HistoryExplainsColumns
<1>1. CInv => HistoryExplainsColumns
  <2> SUFFICES ASSUME CInv, disjoint, inOrder PROVE
        /\ \A s \in rows :
             LET i == LastOf(LAMBDA o : o.action = "samples.subset_update" /\ s \in Listed(o)) IN
             sample[s].subset = IF i = 0 THEN Imported ELSE op[i].after
        /\ LET i == LastOf(LAMBDA o : o.action = "import_batch.update") IN
             part.name = IF i = 0 THEN FirstName ELSE op[i].after
        /\ part.deleted <=> LastOf(LAMBDA o : o.action = "import_batch.delete") # 0
    BY DEF HistoryExplainsColumns
  <2>1. ExplainedInv /\ PartDeletedInv /\ rows \subseteq Samples /\ With("applied") \subseteq Ops
    BY DEF CInv, HInv, HTypes, TypeOK, With
  <2>2. ASSUME NEW s \in rows
        PROVE  LET i == LastOf(LAMBDA o : o.action = "samples.subset_update" /\ s \in Listed(o)) IN
               sample[s].subset = IF i = 0 THEN Imported ELSE op[i].after
    <3> DEFINE X == {i \in With("applied") : op[i].action = "samples.subset_update" /\ s \in Listed(op[i])}
    <3>1. X = Edits(s) \cap With("applied") /\ X \in SUBSET Ops
      BY <2>1 DEF Edits
    <3>2. sample[s].subset = Given(X, After, Imported)
      BY <2>1, <3>1 DEF ExplainedInv, Explained
    <3>3. LastOf(LAMBDA o : o.action = "samples.subset_update" /\ s \in Listed(o))
            = IF X = {} THEN 0 ELSE Newest(X)
      BY DEF LastOf, Newest
    <3> HIDE DEF X
    <3>4. X # {} => Newest(X) \in Ops /\ Newest(X) # 0
      BY <3>1, NewestExists DEF Ops
    <3> QED BY <3>2, <3>3, <3>4 DEF Given, After
  <2>3. LET i == LastOf(LAMBDA o : o.action = "import_batch.update") IN
        part.name = IF i = 0 THEN FirstName ELSE op[i].after
    <3> DEFINE X == {i \in With("applied") : op[i].action = "import_batch.update"}
    <3>1. X = Renames \cap With("applied") /\ X \in SUBSET Ops
      BY <2>1 DEF Renames
    <3>2. part.name = Given(X, After, FirstName)
      BY <2>1, <3>1 DEF ExplainedInv, Explained
    <3>3. LastOf(LAMBDA o : o.action = "import_batch.update") = IF X = {} THEN 0 ELSE Newest(X)
      BY DEF LastOf, Newest
    <3> HIDE DEF X
    <3>4. X # {} => Newest(X) \in Ops /\ Newest(X) # 0
      BY <3>1, NewestExists DEF Ops
    <3> QED BY <3>2, <3>3, <3>4 DEF Given, After
  <2>4. part.deleted <=> LastOf(LAMBDA o : o.action = "import_batch.delete") # 0
    <3> DEFINE X == {i \in With("applied") : op[i].action = "import_batch.delete"}
    <3>1. X = PartDeletions \cap With("applied") /\ X \in SUBSET Ops
      BY <2>1 DEF PartDeletions
    <3>2. LastOf(LAMBDA o : o.action = "import_batch.delete") = IF X = {} THEN 0 ELSE Newest(X)
      BY DEF LastOf, Newest
    <3> HIDE DEF X
    <3>3. X # {} => Newest(X) \in Ops /\ Newest(X) # 0
      BY <3>1, NewestExists DEF Ops
    <3> QED BY <2>1, <3>1, <3>2, <3>3 DEF PartDeletedInv
  <2> QED BY <2>2, <2>3, <2>4
<1> QED BY <1>1, CInvInit, CInvStep, PTL DEF Spec

=============================================================================
