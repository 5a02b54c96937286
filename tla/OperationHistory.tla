-------------------------- MODULE OperationHistory --------------------------
(***************************************************************************)
(* Undo and redo: the API handlers that record an undoable operation on    *)
(* the samples of a part (change of subset, deletion) or on the part       *)
(* itself (rename, deletion), the handlers that replay one backward or     *)
(* forward, and the import that may still be adding samples to the part.   *)
(*                                                                         *)
(* As in ImportPipeline a request reads, then commits, and its commit      *)
(* writes a column only when it assigned a value other than the one it     *)
(* loaded.  Two statements update the rows as they are at the commit: the  *)
(* discarding of undone operations and the deletion of a part's samples.   *)
(***************************************************************************)
EXTENDS Integers, FiniteSets

CONSTANTS
  Clients,    \* API requests that may be in progress at the same time
  Samples,    \* the images of the part's archive
  Subsets,    \* subsets a user may assign
  Imported,   \* the subset the archive gives every sample
  Names,      \* names a user may give the part
  FirstName,  \* the name it is created with
  MaxOps      \* bound: operations recorded

Ops == 1..MaxOps

ASSUME HistoryAssumption == /\ MaxOps \in Nat
                            /\ Imported \in Subsets
                            /\ FirstName \in Names

VARIABLES
  rows,     \* samples the import has committed
  sample,   \* their columns: subset, status and whether deleted_at is set
  part,     \* columns of the ImportBatch: name, status, whether deleted
  op,       \* OperationHistory in order of creation
  request,  \* requests in progress and what they have loaded
  import,   \* the import task: its step and the batch status it has loaded
  disjoint, \* so far no commit has fallen between the read and the commit of a
            \* request that conflicts with it
  inOrder   \* so far every undo was of the newest operation still applied and
            \* every redo of the oldest one undone, still undone at the commit

dbVars == <<rows, sample, part, op>>
vars == <<dbVars, request, import, disjoint, inOrder>>

SampleStatus == {"ready", "deleted"}
PartStatus == {"waiting_confirmation", "ready", "import_failed", "deleted"}
Sample == [subset : Subsets, status : SampleStatus, deleted : BOOLEAN]
Part == [name : Names, status : PartStatus, deleted : BOOLEAN]

\* payload_json: `before' gives each sample it lists the value that an undo
\* restores, `part' is the part's value to restore, `after' the value redone.
Operation ==
  [action : {"none", "samples.subset_update", "samples.delete",
             "import_batch.update", "import_batch.delete"},
   status : {"absent", "applied", "undone", "discarded"},
   before : UNION {[S -> Subsets \cup SampleStatus] : S \in SUBSET Samples},
   part : Names \cup PartStatus \cup {"none"},
   after : Subsets \cup Names \cup {"deleted"}]

NoOp == [action |-> "none", status |-> "absent", before |-> [s \in {} |-> Imported],
         part |-> "none", after |-> "deleted"]
Listed(o) == DOMAIN o.before

NewSample == [subset |-> Imported, status |-> "ready", deleted |-> FALSE]
NewPart == [name |-> FirstName, status |-> "waiting_confirmation", deleted |-> FALSE]

\* `id' is 0 until the operation has its row in OperationHistory.
NoRequest == [pc |-> "idle", id |-> 0, op |-> NoOp, part |-> NewPart,
              sample |-> [s \in Samples |-> NewSample]]
Request == [pc : {"idle", "record", "undo", "redo"}, id : Ops \cup {0},
            op : Operation, part : Part, sample : [Samples -> Sample]]

\* Every column and every loaded value has a value its code can give it.
TypeOK ==
  /\ rows \subseteq Samples
  /\ sample \in [Samples -> Sample]
  /\ part \in Part
  /\ op \in [Ops -> Operation]
  /\ request \in [Clients -> Request]
  /\ import \in [pc : {"confirmed", "loop", "over"}, status : PartStatus]
  /\ disjoint \in BOOLEAN /\ inOrder \in BOOLEAN

\* The part has been scanned and its import confirmed.
Init ==
  /\ rows = {}
  /\ sample = [s \in Samples |-> NewSample]
  /\ part = NewPart
  /\ op = [i \in Ops |-> NoOp]
  /\ request = [c \in Clients |-> NoRequest]
  /\ import = [pc |-> "confirmed", status |-> "waiting_confirmation"]
  /\ disjoint = TRUE /\ inOrder = TRUE

-----------------------------------------------------------------------------
Saved(current, seen, new) == IF new = seen THEN current ELSE new

Live == {s \in rows : ~sample[s].deleted}
Recorded == {i \in Ops : op[i].status # "absent"}
With(status) == {i \in Ops : op[i].status = status}

PartAction(o) == o.action \in {"import_batch.update", "import_batch.delete"}
\* A part is being deleted: its bulk update may reach any sample.
DeletesPart(r) == r.pc = "record" /\ r.op.action = "import_batch.delete"
Reach(r) == IF DeletesPart(r) THEN Samples ELSE Listed(r.op)

\* The commit of request r changes what request q has loaded: a sample or the part.
Conflict(r, q) == \/ Reach(r) \cap Reach(q) # {}
                  \/ PartAction(r.op) /\ PartAction(q.op)
Interferes(c) == \E d \in Clients \ {c} :
                   request[d].pc # "idle" /\ Conflict(request[c], request[d])

-----------------------------------------------------------------------------
(* Reading: the rows a request lists, its part and its history record.      *)

Reads(c, pc, id, o) ==
  /\ request[c].pc = "idle"
  /\ request' = [request EXCEPT ![c] =
       [pc |-> pc, id |-> id, op |-> o, part |-> part,
        sample |-> [s \in Samples |-> IF s \in Listed(o) THEN sample[s] ELSE NewSample]]]
  /\ UNCHANGED <<dbVars, import, disjoint, inOrder>>

\* A new operation; at most MaxOps are recorded.
Records(c, action, before, partBefore, after) ==
  /\ Recorded # Ops
  /\ Reads(c, "record", 0, [action |-> action, status |-> "applied", before |-> before,
                            part |-> partBefore, after |-> after])

StatusOf(S) == [s \in S |-> sample[s].status]

\* update_sample_subsets and delete_samples: all samples asked for must be live.
SubsetRead(c, S, v) ==
  /\ S # {} /\ S \subseteq Live
  /\ Records(c, "samples.subset_update", [s \in S |-> sample[s].subset], "none", v)
DeleteRead(c, S) ==
  /\ S # {} /\ S \subseteq Live
  /\ Records(c, "samples.delete", StatusOf(S), "none", "deleted")

\* update_import_batch and delete_import_batch: a part that is not deleted.
RenameRead(c, n) ==
  /\ ~part.deleted
  /\ Records(c, "import_batch.update", [s \in {} |-> "ready"], part.name, n)
PartDeleteRead(c) ==
  /\ ~part.deleted
  /\ Records(c, "import_batch.delete", StatusOf(Live), part.status, "deleted")

UndoRead(c, i) == op[i].status = "applied" /\ Reads(c, "undo", i, op[i])
RedoRead(c, i) == op[i].status = "undone" /\ Reads(c, "redo", i, op[i])

-----------------------------------------------------------------------------
(* Committing.                                                              *)

\* Columns of a sample, loaded as `seen', after apply_operation.  A deletion
\* writes a deleted_at of its own, so it never finds it unchanged.
Replayed(current, seen, o, s, forward) ==
  CASE o.action = "samples.subset_update" ->
         [current EXCEPT !.subset =
            Saved(@, seen.subset, IF forward THEN o.after ELSE o.before[s])]
    [] o.action \in {"samples.delete", "import_batch.delete"} ->
         [current EXCEPT
            !.deleted = IF forward THEN TRUE ELSE Saved(@, seen.deleted, FALSE),
            !.status = Saved(@, seen.status, IF forward THEN "deleted" ELSE o.before[s])]
    [] OTHER -> current

\* Mutant: the undo of a rename restores nothing.
KeepsName(current, seen, o, forward) ==
  CASE o.action = "import_batch.update" /\ forward -> [current EXCEPT !.name = o.after]
    [] o.action = "import_batch.delete" ->
         [current EXCEPT !.deleted = forward, !.status = IF forward THEN "deleted" ELSE o.part]
    [] OTHER -> current
\* Columns of the part, loaded as `seen', after apply_operation.
ReplayedPart(current, seen, o, forward) ==
  CASE o.action = "import_batch.update" ->
         [current EXCEPT !.name = Saved(@, seen.name, IF forward THEN o.after ELSE o.part)]
    [] o.action = "import_batch.delete" ->
         [current EXCEPT
            !.deleted = IF forward THEN TRUE ELSE Saved(@, seen.deleted, FALSE),
            !.status = Saved(@, seen.status, IF forward THEN "deleted" ELSE o.part)]
    [] OTHER -> current

\* What the loaded request assigns to the rows it lists and to its part.
Replay(r, forward) ==
  /\ sample' = [s \in Samples |->
       IF s \in Listed(r.op) THEN Replayed(sample[s], r.sample[s], r.op, s, forward)
       ELSE sample[s]]
  /\ part' = ReplayedPart(part, r.part, r.op, forward)

\* The bulk update of delete_import_batch: whatever is live by now.
DeleteLive(r) ==
  /\ sample' = [s \in Samples |->
       IF s \in Live THEN [sample[s] EXCEPT !.deleted = TRUE, !.status = "deleted"]
       ELSE sample[s]]
  /\ part' = ReplayedPart(part, r.part, r.op, TRUE)

Performs(r) ==
  IF r.op.action = "import_batch.delete" THEN DeleteLive(r) ELSE Replay(r, TRUE)

\* record_operation: the redo branch is discarded, the operation appended.
NextOp == CHOOSE i \in Ops \ Recorded : \A j \in Ops \ Recorded : i <= j
\* Mutant: the redo branch is kept.
AppendOperation(o) == op' = [op EXCEPT ![NextOp] = o]
RecordOperation(o) ==
  op' = [i \in Ops |-> IF i = NextOp THEN o
                       ELSE IF op[i].status = "undone"
                       THEN [op[i] EXCEPT !.status = "discarded"]
                       ELSE op[i]]

Ends(c) == /\ request' = [request EXCEPT ![c] = NoRequest]
           /\ disjoint' = (disjoint /\ ~Interferes(c))
           /\ UNCHANGED <<rows, import>>

RecordCommit(c) ==
  /\ request[c].pc = "record"
  /\ Recorded # Ops
  /\ Performs(request[c])
  /\ RecordOperation(request[c].op)
  /\ UNCHANGED inOrder
  /\ Ends(c)

\* Mutant: an undone operation gets a status that no other code knows.
RevertedStatus(i, s) ==
  op' = [op EXCEPT ![i].status = IF s = "undone" THEN "reverted" ELSE s]
SetStatus(i, s) == op' = [op EXCEPT ![i].status = s]

UndoCommit(c) ==
  LET i == request[c].id IN
  /\ request[c].pc = "undo"
  /\ Replay(request[c], FALSE)
  /\ SetStatus(i, "undone")
  /\ inOrder' = (inOrder /\ \A j \in With("applied") : j <= i)
  /\ Ends(c)

RedoCommit(c) ==
  LET i == request[c].id IN
  /\ request[c].pc = "redo"
  /\ Replay(request[c], TRUE)
  /\ SetStatus(i, "applied")
  /\ inOrder' = (inOrder /\ op[i].status = "undone" /\ \A j \in With("undone") : i <= j)
  /\ Ends(c)

-----------------------------------------------------------------------------
(* confirm_import, as far as it touches the part and its samples.           *)

ImportLoad ==
  /\ import.pc = "confirmed"
  /\ import' = [pc |-> "loop", status |-> part.status]
  /\ UNCHANGED <<dbVars, request, disjoint, inOrder>>

\* A batch boundary: a sample of the part, deleted or not, is committed.
ImportSample(s) ==
  /\ import.pc = "loop" /\ s \notin rows
  /\ rows' = rows \cup {s}
  /\ disjoint' = (disjoint /\ ~\E c \in Clients : DeletesPart(request[c]))
  /\ UNCHANGED <<sample, part, op, request, import, inOrder>>

ImportFinish ==
  /\ import.pc = "loop" /\ rows = Samples
  /\ import' = [import EXCEPT !.pc = "over"]
  /\ part' = [part EXCEPT !.status = Saved(@, import.status, "ready")]
  /\ UNCHANGED <<rows, sample, op, request, disjoint, inOrder>>

ImportFail ==
  /\ import.pc # "over"
  /\ import' = [import EXCEPT !.pc = "over"]
  /\ part' = [part EXCEPT !.status = "import_failed"]
  /\ UNCHANGED <<rows, sample, op, request, disjoint, inOrder>>

-----------------------------------------------------------------------------
Next ==
  \/ \E c \in Clients :
       \/ \E S \in SUBSET Samples : DeleteRead(c, S) \/ \E v \in Subsets : SubsetRead(c, S, v)
       \/ \E n \in Names : RenameRead(c, n)
       \/ PartDeleteRead(c)
       \/ \E i \in Ops : UndoRead(c, i) \/ RedoRead(c, i)
       \/ RecordCommit(c) \/ UndoCommit(c) \/ RedoCommit(c)
  \/ ImportLoad \/ \E s \in Samples : ImportSample(s)
  \/ ImportFinish \/ ImportFail

Spec == Init /\ [][Next]_vars

-----------------------------------------------------------------------------
(* Properties.                                                              *)

Covers(i, s) == /\ op[i].status = "applied"
                /\ op[i].action \in {"samples.delete", "import_batch.delete"}
                /\ s \in Listed(op[i])

\* Unless conflicting requests overlap, a sample is deleted exactly when one applied
\* deletion lists it, whatever was undone and redone in whatever order.
DeletionsAreExplained ==
  disjoint => \A s \in rows :
    /\ sample[s].deleted <=> \E i \in Ops : Covers(i, s)
    /\ \A i, j \in Ops : Covers(i, s) /\ Covers(j, s) => i = j
    /\ sample[s].deleted <=> sample[s].status = "deleted"

\* The last applied operation of an action, among those on a sample.
LastOf(Is(_)) == LET found == {i \in With("applied") : Is(op[i])} IN
  IF found = {} THEN 0 ELSE CHOOSE i \in found : \A j \in found : j <= i

\* Undoing newest first and redoing oldest first, what the users see is the
\* outcome of the operations still applied, in the order they were made.
HistoryExplainsColumns ==
  disjoint /\ inOrder =>
    /\ \A s \in rows :
         LET i == LastOf(LAMBDA o : o.action = "samples.subset_update" /\ s \in Listed(o)) IN
         sample[s].subset = IF i = 0 THEN Imported ELSE op[i].after
    /\ LET i == LastOf(LAMBDA o : o.action = "import_batch.update") IN
         part.name = IF i = 0 THEN FirstName ELSE op[i].after
    /\ part.deleted <=> LastOf(LAMBDA o : o.action = "import_batch.delete") # 0

=============================================================================
