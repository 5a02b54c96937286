---------------------------- MODULE ExportArchive ----------------------------
(***************************************************************************)
(* A dataset grows by Parts, each an archive read by DatasetArchive's      *)
(* parsers into a version of its own with its own labels; users edit its   *)
(* samples and labels; and create_export writes what is left as an archive *)
(* again, which the parsers must be able to read.                          *)
(*                                                                         *)
(* An import is one step here (ImportPipeline has its steps), and so is a  *)
(* request on labels.  The export's job may be cancelled while it runs,    *)
(* and its message is delivered again when a worker crashes or takes too   *)
(* long: create_export takes no lock, so that two executions of it write   *)
(* under one key and into one row.                                         *)
(***************************************************************************)
EXTENDS DatasetArchive

CONSTANTS
  Workers,   \* worker slots
  Archives,  \* the archives users may upload
  Formats,   \* the export formats they may ask for
  Filters,   \* the filters: parts, subsets, classes, unannotated
  NewNames,  \* the names they may give a class
  MaxClass,  \* bound: classes that are named or deleted
  MaxParts,  \* bound: Parts imported
  MaxEdits,  \* bound: edits of samples and labels
  MaxFaults  \* bound: worker crashes and redeliveries

\* `given' tells a name from a deletion.
ASSUME NamesAreNames == "deleted" \notin NewNames

VARIABLES
  versions,   \* DatasetVersion in order of number: archive, samples, labels
  given,      \* what a user made of a class last, until it is imported again
  job,        \* columns of the export's Job, and a cancel in progress
  msgs,       \* messages waiting in the broker
  worker,     \* worker slots: position in create_export, loaded columns and rows
  objects,    \* the file in storage under each of the job's keys, and its origin
  overlap,    \* have two executions been in progress together?
  edits,      \* edits so far, at most MaxEdits
  faults      \* faults so far, at most MaxFaults

vars == <<versions, given, job, msgs, worker, objects, overlap, edits, faults>>

NoLabels == [c \in {} |-> ""]

\* Job.result_json is the request, and later the result, which holds no request:
\* who reads it then finds the defaults.
Everything == [parts |-> {}, subsets |-> {}, classes |-> {}, unannotated |-> TRUE]
Request(format, filter) == [requested |-> format, filter |-> filter, format |-> "none", count |-> 0]
Result(format, count) == [requested |-> "manifest", filter |-> Everything, format |-> format,
                          count |-> count]

\* `asked' is the format in the idempotency key.
NoJob == [status |-> "absent", asked |-> "none", result |-> Request("none", Everything),
          cancelling |-> FALSE]
Columns == [status |-> job.status, result |-> job.result]
Idle == [pc |-> "idle", seen |-> [status |-> "absent", result |-> NoJob.result],
         format |-> "none", todo |-> {}, records |-> << >>, labels |-> NoLabels]

\* A file name, and so a key, for each format.
Keys == Formats \cup {"manifest"}
NoObject == [put |-> FALSE, files |-> << >>, records |-> << >>, labels |-> NoLabels]

Labels == UNION {[C -> NewNames \cup ToSet(ClassNames)] : C \in SUBSET (-1..MaxClass)}

\* An archive is a sequence of files; the bounds cover its classes and names.
ASSUME ArchivesFit ==
  /\ MaxClass \in Nat
  /\ \A archive \in Archives :
       /\ Len(archive) \in Nat /\ DOMAIN archive = 1..Len(archive)
       /\ \A i \in DOMAIN archive :
            /\ archive[i] = [name |-> archive[i].name, data |-> archive[i].data]
            /\ IsName(archive[i].name)
       /\ Manifest(Entries(archive)).labels \in Labels

\* What a parser finds in a file of an archive: sequences, and numbers where it
\* draws.
Drawn(shape) == shape \in {<< >>} \cup [1..4 -> Int]
Outlines == Seq(Int \X Int)
ASSUME ArchivesAreRead ==
  /\ MaxDepth \in Nat \ {0}
  /\ \A archive \in Archives : \A file \in ToSet(archive) :
       LET data == file.data IN
       /\ IsSequence(file.name.dirs)
       /\ data.kind \in KindsOf(file.name.suffix) \cup {"refused"}
       /\ data.kind = "yolo" =>
            IsSequence(data.lines) /\ \A l \in ToSet(data.lines) : l.coords \in Seq(Int)
       /\ data.kind = "labelme" =>
            /\ data.size \in Int \X Int /\ IsSequence(data.shapes)
            /\ \A s \in ToSet(data.shapes) : s.points \in Outlines
       /\ data.kind = "voc" =>
            /\ data.size \in Int \X Int /\ IsSequence(data.objects)
            /\ \A o \in ToSet(data.objects) : Drawn(o.corners)
       /\ data.kind = "coco" =>
            /\ \A image \in ToSet(data.images) : image.size \in Int \X Int
            /\ IsSequence(data.annotations)
            /\ \A a \in ToSet(data.annotations) : Drawn(a.box) /\ a.polygon \in Outlines

\* The formats of the request's schema.
ASSUME FormatsWritten == Formats \subseteq {"manifest", "yolo", "coco", "labelme", "voc"}

\* Versions, jobs and what the workers hold have values their code can give.
TypeOK ==
  /\ \A v \in DOMAIN versions :
       /\ versions[v].archive \in Archives /\ versions[v].labels \in Labels
       /\ \A s \in versions[v].samples : s.subset \in {"none", "train", "val", "test"}
  /\ DOMAIN given \subseteq 0..MaxClass
  /\ job.status \in {"absent", "queued", "succeeded", "cancelled"}
  /\ job.result.format \in Keys \cup {"none"}
  /\ \A w \in Workers :
       /\ worker[w].pc \in {"idle", "begin", "collect", "package", "commit"}
       /\ worker[w].seen.status \in {"absent", "queued", "succeeded"}
       /\ worker[w].pc \in {"collect", "package", "commit"} => worker[w].format \in Keys
       /\ worker[w].labels \in Labels
  /\ overlap \in BOOLEAN

Init ==
  /\ versions = << >>
  /\ given = NoLabels
  /\ job = NoJob
  /\ msgs = 0
  /\ worker = [w \in Workers |-> Idle]
  /\ objects = [key \in Keys |-> NoObject]
  /\ overlap = FALSE
  /\ edits = 0 /\ faults = 0

Export == <<job, msgs, worker, objects, overlap>>

-----------------------------------------------------------------------------
(* Imports and rescans.                                                     *)

Row(s) == [name |-> s.name, subset |-> s.subset, size |-> s.size, annotated |-> s.annotation # NoFile,
           annotations |-> s.annotations, deleted |-> FALSE]

\* _upsert_labels
Upserted(labels, new) ==
  [c \in DOMAIN labels \cup DOMAIN new |-> IF c \in DOMAIN new THEN new[c] ELSE labels[c]]

Forget(classes) == given' = [c \in DOMAIN given \ classes |-> given[c]]

\* What validated_entries refuses is not imported.
ImportPart(archive) ==
  LET manifest == Manifest(Entries(archive)) IN
  /\ Len(versions) < MaxParts /\ Accepted(archive)
  /\ versions' = Append(versions, [archive |-> archive, samples |-> {Row(s) : s \in manifest.samples},
                                   labels |-> Upserted(NoLabels, manifest.labels)])
  /\ Forget(DOMAIN manifest.labels)
  /\ UNCHANGED <<Export, edits, faults>>

Edit == edits < MaxEdits /\ edits' = edits + 1

\* The rows of the first import stay, deleted or not, with the archive's subset.
Rescan(v) ==
  LET manifest == Manifest(Entries(versions[v].archive)) IN
  /\ versions' = [versions EXCEPT ![v] =
       [archive |-> @.archive,
        samples |-> {[s EXCEPT !.subset = SubsetFor(s.name)] : s \in @.samples},
        labels |-> Upserted(@.labels, manifest.labels)]]
  /\ Forget(DOMAIN manifest.labels)
  /\ UNCHANGED <<Export, edits, faults>>

-----------------------------------------------------------------------------
(* Requests on samples (OperationHistory has more of them) and labels.      *)

ReplaceSample(v, s, new) ==
  /\ Edit /\ ~s.deleted
  /\ versions' = [versions EXCEPT ![v].samples = (@ \ {s}) \cup {new}]
  /\ UNCHANGED <<given, Export, faults>>
MoveSample(v, s) == ReplaceSample(v, s, [s EXCEPT !.subset = "test"])
DeleteSample(v, s) == ReplaceSample(v, s, [s EXCEPT !.deleted = TRUE])

Defined(c) == {v \in DOMAIN versions : c \in DOMAIN versions[v].labels}
Classes == UNION {DOMAIN versions[v].labels : v \in DOMAIN versions}

\* Every version that has the class is changed; a new class is the newest's.
UpdateLabel(c, name) ==
  /\ Edit /\ versions # << >>
  /\ LET changed == IF Defined(c) = {} THEN {Len(versions)} ELSE Defined(c) IN
     versions' = [v \in DOMAIN versions |->
       IF v \in changed THEN [versions[v] EXCEPT !.labels = Upserted(@, [d \in {c} |-> name])]
       ELSE versions[v]]
  /\ given' = Upserted(given, [d \in {c} |-> name])
  /\ UNCHANGED <<Export, faults>>

\* Mutant: only the newest version that has the class loses it.
DeleteNewestLabel(c) ==
  /\ Edit /\ Defined(c) # {}
  /\ versions' = [versions EXCEPT ![Max(Defined(c))].labels = [d \in DOMAIN @ \ {c} |-> @[d]]]
  /\ given' = Upserted(given, [d \in {c} |-> "deleted"])
  /\ UNCHANGED <<Export, faults>>
DeleteLabel(c) ==
  /\ Edit /\ Defined(c) # {}
  /\ versions' = [v \in DOMAIN versions |->
       [versions[v] EXCEPT !.labels = [d \in DOMAIN @ \ {c} |-> @[d]]]]
  /\ given' = Upserted(given, [d \in {c} |-> "deleted"])
  /\ UNCHANGED <<Export, faults>>

\* list_labels and the label query of create_export: the newest version counts.
LatestLabels == [c \in Classes |-> versions[CHOOSE v \in Defined(c) :
                                              \A w \in Defined(c) : w <= v].labels[c]]

-----------------------------------------------------------------------------
(* The writers.  A record is a sample with its annotations.                 *)

\* Classes are renumbered from 0 in their order.
Index(labels, c) == Cardinality({d \in DOMAIN labels : d < c})
Renumbered(labels) ==
  [i \in 0..(Cardinality(DOMAIN labels) - 1) |->
     labels[CHOOSE c \in DOMAIN labels : Index(labels, c) = i]]

Scaled(v, limit) == IF limit > 0 THEN v \div limit ELSE v
NormalPoint(p, a, size) ==
  IF a.space = "normalized" THEN <<p[1], p[2]>> ELSE <<Scaled(p[1], size[1]), Scaled(p[2], size[2])>>
\* Mutant: the corner, as in a pixel box.
CornerBox(a, size) ==
  IF a.space = "normalized" THEN a.box
  ELSE NormalPoint(<<a.box[1], a.box[2]>>, a, size)
         \o NormalPoint(<<a.box[3], a.box[4]>>, a, size)
\* The centre, the width and the height.
NormalBox(a, size) ==
  IF a.space = "normalized" THEN a.box
  ELSE NormalPoint(<<a.box[1] + a.box[3] \div 2, a.box[2] + a.box[4] \div 2>>, a, size)
         \o NormalPoint(<<a.box[3], a.box[4]>>, a, size)

Known(size) == size[1] > 0 /\ size[2] > 0
ToPixels(a, size) == a.space = "normalized" /\ Known(size)
PixelPoint(p, a, size) == IF ToPixels(a, size) THEN <<p[1] * size[1], p[2] * size[2]>> ELSE <<p[1], p[2]>>
\* The corner, the width and the height; without a size the numbers stay.
PixelBox(a, size) ==
  LET b == a.box IN
  IF b = << >> \/ ~ToPixels(a, size) THEN b
  ELSE <<(b[1] - b[3] \div 2) * size[1], (b[2] - b[4] \div 2) * size[2],
         b[3] * size[1], b[4] * size[2]>>

Mapped(s, Op(_)) == [i \in DOMAIN s |-> Op(s[i])]

YoloLine(a, labels, size) ==
  LET outline == IF a.polygon # << >> THEN FlattenSeq(Mapped(a.polygon, LAMBDA p : NormalPoint(p, a, size)))
                 ELSE IF a.box # << >> THEN NormalBox(a, size) ELSE << >>
      points == FlattenSeq(Mapped(a.keypoints, LAMBDA p : Append(NormalPoint(p, a, size), p[3])))
  IN [class |-> Index(labels, a.class), coords |-> outline \o points]
YoloLines(r, labels) ==
  LET kept == Only(r.annotations, {a \in ToSet(r.annotations) :
                                     /\ a.class \in DOMAIN labels
                                     /\ a.keypoints = << >> \/ a.box # << >>})
  IN Mapped(kept, LAMBDA a : YoloLine(a, labels, r.size))

\* The label file of an image.
LabelFile(n) ==
  [n EXCEPT !.dirs = [i \in DOMAIN n.dirs |-> IF Lower(n.dirs[i]) = "images" THEN "labels" ELSE n.dirs[i]],
            !.suffix = ".txt"]

Image == [kind |-> "image"]
File(name, data) == [name |-> name, data |-> data]

YoloFiles(records, labels) ==
  << File(Name(<< >>, "data", ".yaml"), [kind |-> "yaml", labels |-> Renumbered(labels), pose |-> FALSE]) >>
  \o FlattenSeq(Mapped(records, LAMBDA r :
       << File(r.name, Image),
          File(LabelFile(r.name), [kind |-> "yolo", lines |-> YoloLines(r, labels)]) >>))

CocoDocument(records, labels) ==
  LET Kept(r) == Only(r.annotations, {a \in ToSet(r.annotations) :
        a.class \in DOMAIN labels /\ (a.box # << >> \/ a.polygon # << >> \/ a.keypoints # << >>)})
      Of(i, a) == LET size == records[i].size IN
        [image |-> i, category |-> Index(labels, a.class), box |-> PixelBox(a, size),
         polygon |-> Mapped(a.polygon, LAMBDA p : PixelPoint(p, a, size)),
         keypoints |-> Mapped(a.keypoints, LAMBDA p : Append(PixelPoint(p, a, size), p[3]))]
  IN [kind |-> "coco", categories |-> Renumbered(labels),
      images |-> [i \in DOMAIN records |->
                    [id |-> i, file |-> records[i].name, size |-> records[i].size]],
      annotations |-> FlattenSeq([i \in DOMAIN records |->
                        Mapped(Kept(records[i]), LAMBDA a : Of(i, a))])]
CocoFiles(records, labels) ==
  Append(Mapped(records, LAMBDA r : File(r.name, Image)),
         File(Name(<< >>, "annotations", ".json"), CocoDocument(records, labels)))

\* A class without a label keeps the name it was imported with.
LabelName(a, labels) == IF a.class \in DOMAIN labels THEN labels[a.class] ELSE a.name

Shape(a, r, labels) ==
  LET b == PixelBox(a, r.size) IN
  IF a.polygon # << >>
  THEN [label |-> LabelName(a, labels), type |-> "polygon",
        points |-> Mapped(a.polygon, LAMBDA p : PixelPoint(p, a, r.size))]
  ELSE [label |-> LabelName(a, labels), type |-> "rectangle",
        points |-> << <<b[1], b[2]>>, <<b[1] + b[3], b[2] + b[4]>> >>]
\* Keypoints have no shape.
LabelmeDocument(r, labels) ==
  LET drawn == SelectSeq(r.annotations, LAMBDA a : a.polygon # << >> \/ a.box # << >>) IN
  [kind |-> "labelme", size |-> r.size, shapes |-> Mapped(drawn, LAMBDA a : Shape(a, r, labels))]
\* The first folder of the path that has a subset's name as it is.
Folder(r) ==
  LET named == {i \in DOMAIN r.name.dirs : r.name.dirs[i] \in {"train", "val", "test"}} IN
  IF r.subset # "none" THEN r.subset
  ELSE IF named # {} THEN r.name.dirs[First(named)] ELSE "unassigned"
LabelmeFiles(records, labels) ==
  FlattenSeq(Mapped(records, LAMBDA r :
    << File([r.name EXCEPT !.dirs = <<"images", Folder(r)>>], Image),
       File([r.name EXCEPT !.dirs = <<"annotations">> \o @, !.suffix = ".json"],
            LabelmeDocument(r, labels)) >>))

\* round() of Python: to the even neighbour from the middle; nothing below 0.
Rounded(v) ==
  LET q == v \div Unit
      up == 2 * (v % Unit) > Unit \/ (2 * (v % Unit) = Unit /\ q % 2 = 1)
  IN IF v < 0 THEN 0 ELSE Unit * (IF up THEN q + 1 ELSE q)
Object(a, r, labels) ==
  LET points == ToSet(Mapped(a.polygon, LAMBDA p : PixelPoint(p, a, r.size)))
      xs == {p[1] : p \in points}
      ys == {p[2] : p \in points}
      b == IF a.box # << >> THEN PixelBox(a, r.size)
           ELSE <<Min(xs), Min(ys), Max(xs) - Min(xs), Max(ys) - Min(ys)>>
  IN [name |-> LabelName(a, labels),
      corners |-> <<Rounded(b[1]), Rounded(b[2]), Rounded(b[1] + b[3]), Rounded(b[2] + b[4])>>]
VocDocument(r, labels) ==
  LET boxed == SelectSeq(r.annotations, LAMBDA a : a.polygon # << >> \/ a.box # << >>) IN
  [kind |-> "voc", size |-> r.size, objects |-> Mapped(boxed, LAMBDA a : Object(a, r, labels))]
VocImage(n) == [n EXCEPT !.dirs = <<"JPEGImages">>]
VocFiles(records, labels) ==
  LET lists == SetToSeq({IF r.subset = "none" THEN "train" ELSE r.subset : r \in ToSet(records)})
  IN FlattenSeq(Mapped(records, LAMBDA r :
       << File(VocImage(r.name), Image),
          File(Name(<<"Annotations">>, r.name.stem, ".xml"), VocDocument(r, labels)) >>))
     \o Mapped(lists, LAMBDA s : File(Name(<<"ImageSets", "Main">>, s, ".txt"), [kind |-> "names"]))

Written(format, records, labels) ==
  CASE format = "manifest" -> << >>
    [] format = "yolo" -> YoloFiles(records, labels)
    [] format = "labelme" -> LabelmeFiles(records, labels)
    [] format = "voc" -> VocFiles(records, labels)
    [] format = "coco" -> CocoFiles(records, labels)

-----------------------------------------------------------------------------
(* The export job.                                                          *)

QueueExport(format, filter) ==
  /\ job.status = "absent" /\ versions # << >>
  /\ job' = [NoJob EXCEPT !.status = "queued", !.asked = format,
                          !.result = Request(format, filter)]
  /\ msgs' = msgs + 1
  /\ UNCHANGED <<versions, given, worker, objects, overlap, edits, faults>>

CancelRead ==
  /\ job.status = "queued" /\ ~job.cancelling
  /\ job' = [job EXCEPT !.cancelling = TRUE]
  /\ UNCHANGED <<versions, given, msgs, worker, objects, overlap, edits, faults>>
\* Mutant: a status no other code knows.
CancelMisspelt ==
  /\ job.cancelling
  /\ job' = [job EXCEPT !.status = "canceled", !.cancelling = FALSE]
  /\ UNCHANGED <<versions, given, msgs, worker, objects, overlap, edits, faults>>
CancelCommit ==
  /\ job.cancelling
  /\ job' = [job EXCEPT !.status = "cancelled", !.cancelling = FALSE]
  /\ UNCHANGED <<versions, given, msgs, worker, objects, overlap, edits, faults>>

ClassIds(s) == {a.class : a \in ToSet(s.annotations)} \cap Nat
Selected(v, filter) ==
  {s \in versions[v].samples :
     /\ ~s.deleted
     /\ filter.parts = {} \/ v \in filter.parts
     /\ filter.subsets = {} \/ s.subset \in filter.subsets
     /\ filter.unannotated \/ s.annotated
     /\ filter.classes = {} \/ ClassIds(s) \cap filter.classes # {}}

Becomes(w, task) == worker' = [worker EXCEPT ![w] = task]
Keeps == UNCHANGED <<versions, given, edits>>

\* A job that has succeeded is not run again.
Take(w) ==
  /\ worker[w].pc = "idle"
  /\ msgs > 0 /\ msgs' = msgs - 1
  /\ IF job.status = "succeeded" THEN UNCHANGED <<worker, overlap>>
     ELSE /\ Becomes(w, [Idle EXCEPT !.pc = "begin"])
          /\ overlap' = (overlap \/ \E v \in Workers \ {w} : worker[v].pc # "idle")
  /\ Keeps /\ UNCHANGED <<job, objects, faults>>

\* The row is loaded again: it may have succeeded since.
Begin(w) ==
  /\ worker[w].pc = "begin"
  /\ Becomes(w, IF job.status = "cancelled" THEN Idle
                ELSE [Idle EXCEPT !.pc = "collect", !.seen = Columns,
                        !.format = job.result.requested, !.labels = LatestLabels,
                        !.todo = UNION {{<<v, s>> : s \in Selected(v, job.result.filter)} :
                                          v \in DOMAIN versions}])
  /\ Keeps /\ UNCHANGED <<job, msgs, objects, overlap, faults>>

\* One sample, in the order of the paths.
Collect(w) ==
  /\ worker[w].pc = "collect" /\ worker[w].todo # {}
  /\ job.status # "cancelled"
  /\ LET next == CHOOSE s \in worker[w].todo : TRUE IN
     Becomes(w, [worker[w] EXCEPT !.todo = @ \ {next}, !.records = Append(@, next[2]),
                                  !.seen = Columns])
  /\ Keeps /\ UNCHANGED <<job, msgs, objects, overlap, faults>>

\* Cancelled: seen before a sample, and before the archive is packed.
ObserveCancel(w) ==
  /\ worker[w].pc = "collect" /\ job.status = "cancelled"
  /\ worker[w].todo # {} \/ worker[w].format # "manifest"
  /\ Becomes(w, Idle)
  /\ Keeps /\ UNCHANGED <<job, msgs, objects, overlap, faults>>
Pack(w) ==
  /\ worker[w].pc = "collect" /\ worker[w].todo = {}
  /\ worker[w].format = "manifest" \/ job.status # "cancelled"
  /\ Becomes(w, [worker[w] EXCEPT !.pc = "package",
                                  !.seen = IF worker[w].format = "manifest" THEN @ ELSE Columns])
  /\ Keeps /\ UNCHANGED <<job, msgs, objects, overlap, faults>>

Packed(task) == [put |-> TRUE, records |-> task.records, labels |-> task.labels,
                 files |-> Written(task.format, task.records, task.labels)]
\* Mutant: an object that is there already is not put again.
PackageOnce(w) ==
  /\ worker[w].pc = "package"
  /\ objects' = [objects EXCEPT ![worker[w].format] = IF @.put THEN @ ELSE Packed(worker[w])]
  /\ Becomes(w, [worker[w] EXCEPT !.pc = "commit"])
  /\ Keeps /\ UNCHANGED <<job, msgs, overlap, faults>>
Package(w) ==
  /\ worker[w].pc = "package"
  /\ objects' = [objects EXCEPT ![worker[w].format] = Packed(worker[w])]
  /\ Becomes(w, [worker[w] EXCEPT !.pc = "commit"])
  /\ Keeps /\ UNCHANGED <<job, msgs, overlap, faults>>

\* A column is written if it differs from what was loaded.
Saved(current, seen, new) == IF new = seen THEN current ELSE new
Commit(w) ==
  /\ worker[w].pc = "commit"
  /\ LET seen == worker[w].seen
         result == Result(worker[w].format, Len(worker[w].records))
     IN job' = [job EXCEPT !.status = Saved(@, seen.status, "succeeded"),
                           !.result = Saved(@, seen.result, result)]
  /\ Becomes(w, Idle)
  /\ Keeps /\ UNCHANGED <<msgs, objects, overlap, faults>>

\* No exception is caught, nor is the soft time limit.
Raise(w) ==
  /\ worker[w].pc # "idle"
  /\ Becomes(w, Idle)
  /\ Keeps /\ UNCHANGED <<job, msgs, objects, overlap, faults>>

WorkerCrash(w) ==
  /\ worker[w].pc # "idle"
  /\ faults < MaxFaults /\ faults' = faults + 1
  /\ msgs' = msgs + 1
  /\ Becomes(w, Idle)
  /\ Keeps /\ UNCHANGED <<job, objects, overlap>>

Redeliver(w) ==
  /\ worker[w].pc # "idle"
  /\ faults < MaxFaults /\ faults' = faults + 1
  /\ msgs' = msgs + 1
  /\ Keeps /\ UNCHANGED <<job, worker, objects, overlap>>

-----------------------------------------------------------------------------
Execution(w) == Take(w) \/ Begin(w) \/ Collect(w) \/ ObserveCancel(w) \/ Pack(w) \/ Package(w)
                \/ Commit(w) \/ Raise(w) \/ WorkerCrash(w) \/ Redeliver(w)

Next ==
  \/ \E archive \in Archives : ImportPart(archive)
  \/ \E v \in DOMAIN versions :
       \/ Rescan(v)
       \/ \E s \in versions[v].samples : MoveSample(v, s) \/ DeleteSample(v, s)
  \/ \E c \in 0..MaxClass : (\E name \in NewNames : UpdateLabel(c, name)) \/ DeleteLabel(c)
  \/ \E format \in Formats, filter \in Filters : QueueExport(format, filter)
  \/ CancelRead \/ CancelCommit
  \/ \E w \in Workers : Execution(w)

Spec == Init /\ [][Next]_vars

-----------------------------------------------------------------------------
(* Properties.                                                              *)

\* What list_labels shows of a class that a user has named or deleted is what
\* the user made of it, in whatever versions it is, until an import or a rescan
\* of an archive that has the class.
LabelsAreAsGiven ==
  \A c \in DOMAIN given :
    IF given[c] = "deleted" THEN c \notin Classes
    ELSE c \in Classes /\ LatestLabels[c] = given[c]

\* Numbers stand for multiples of a step: of what is written as a multiple of a
\* greater one, less than that is lost.
Within(exact, written, step) == written <= exact /\ exact < written + step

\* A pixel box and a normalized one are the same region of an image.
SameBox(pixels, normal, size) ==
  \A k \in {1, 2} :
    /\ Within(2 * pixels[k] + pixels[k + 2], 2 * size[k] * normal[k], 2 * size[k])
    /\ Within(pixels[k + 2], size[k] * normal[k + 2], size[k])
SamePoints(pixels, normal, size) ==
  /\ Len(pixels) = Len(normal)
  /\ \A i \in DOMAIN pixels, k \in {1, 2} : Within(pixels[i][k], size[k] * normal[i][k], size[k])
SamePlace(a, b, size) ==
  IF a.polygon # << >>
  THEN CASE a.space = b.space -> a.polygon = b.polygon
         [] a.space = "pixels" /\ b.space = "normalized" -> SamePoints(a.polygon, b.polygon, size)
         [] a.space = "normalized" /\ b.space = "pixels" -> SamePoints(b.polygon, a.polygon, size)
  ELSE CASE a.space = b.space -> a.box = b.box
         [] a.space = "pixels" /\ b.space = "normalized" -> SameBox(a.box, b.box, size)
         [] a.space = "normalized" /\ b.space = "pixels" -> SameBox(b.box, a.box, size)

\* What a format can hold of an annotation: a class that still has a label, a
\* box or a polygon of three points, no keypoints in YOLO, and the size of the
\* image where coordinates must be converted.
Holdable(a, r, format, labels) ==
  /\ a.class \in DOMAIN labels
  /\ a.polygon = << >> => a.box # << >>
  /\ a.polygon # << >> => Len(a.polygon) >= 3
  /\ format = "yolo" => a.keypoints = << >> /\ (a.space = "normalized" \/ Known(r.size))
  /\ format = "coco" => a.space = "pixels" \/ Known(r.size)

ReadAs(r, s, labels) ==
  /\ Len(s.annotations) = Len(r.annotations)
  /\ \A i \in DOMAIN r.annotations :
       /\ s.annotations[i].name = labels[r.annotations[i].class]
       /\ SamePlace(r.annotations[i], s.annotations[i], r.size)

\* A YOLO or COCO export can be imported again, and gives every sample its
\* annotations, under the labels of the export and in the same place, unless it
\* has too many files, two samples have one key, the path of one begins with a dot
\* (in COCO) or an annotation does not fit the format.
ReadsBack(format, object) ==
  LET records == object.records
      keys == {MatchKey(r.name) : r \in ToSet(records)}
  IN /\ Cardinality(keys) = Len(records) /\ Len(object.files) <= MaxFiles
     /\ format = "coco" => \A r \in ToSet(records) : Stripped(r.name) = r.name
     => /\ Accepted(object.files)
        /\ LET samples == Manifest(Entries(object.files)).samples IN
           \A r \in ToSet(records) :
             (\A a \in ToSet(r.annotations) : Holdable(a, r, format, object.labels))
               => \E s \in samples : s.name = r.name /\ ReadAs(r, s, object.labels)
ExportReadsBack ==
  \A format \in Keys \cap {"yolo", "coco"} :
    objects[format].put => ReadsBack(format, objects[format])

\* The result of a job that has succeeded names an object that is there; and unless
\* two executions overlap it describes that object, which is in the format that was
\* asked for, also when an execution has died after putting an earlier one there.
ResultDescribesObject ==
  job.status = "succeeded" =>
    LET result == job.result
        object == objects[result.format]
    IN /\ result.format \in Keys /\ object.put
       /\ ~overlap =>
            /\ result.format = job.asked
            /\ Len(object.records) = result.count
            /\ result.format # "manifest" =>
                 Cardinality(Positions(object.files, ImageSuffixes)) = result.count

=============================================================================
