--------------------------- MODULE DatasetArchive ---------------------------
(***************************************************************************)
(* dataset_core: which files of an archive are accepted, what the scan     *)
(* reports of them and what the manifest of the import makes of them.      *)
(*                                                                         *)
(* A name has its folders, a stem and a suffix (in lower case).  An        *)
(* archive is a sequence of files, each a raw name and its data, what a    *)
(* parser would find in the bytes; where the code walks a dictionary or a  *)
(* list in order, the last file of a key wins and the first match counts.  *)
(* A coordinate v stands for v / Unit; 0 is also the None of a size.       *)
(***************************************************************************)
EXTENDS Integers, SequencesExt

CONSTANTS
  MaxFiles,   \* policy: files in an archive
  MaxDepth,   \* policy: parts of a name
  ClassNames, \* all class names, in alphabetical order
  Undotted    \* of parts that begin with "." or "/", what is left without those

Unit == 4

IsSequence(s) == s \in Seq(ToSet(s))

-----------------------------------------------------------------------------
(* Names.                                                                   *)

LowerCase == [Images |-> "images", A |-> "a", JPEGImages |-> "jpegimages",
              Annotations |-> "annotations", ImageSets |-> "imagesets", Main |-> "main"]
Lower(n) == IF n \in DOMAIN LowerCase THEN LowerCase[n] ELSE n

Name(dirs, stem, suffix) == [dirs |-> dirs, stem |-> stem, suffix |-> suffix]
IsName(n) == n = Name(n.dirs, n.stem, n.suffix)
NoFile == Name(<< >>, "", "")

ImageSuffixes == {".jpg", ".png"}
AnnotationSuffixes == {".txt", ".json", ".xml"}

\* What the parsers find in a file, by its suffix.
KindsOf(suffix) ==
  CASE suffix \in ImageSuffixes -> {"image"}
    [] suffix = ".txt" -> {"yolo", "names", "broken"}
    [] suffix = ".xml" -> {"voc", "broken"}
    [] suffix = ".json" -> {"coco", "labelme", "other", "broken"}
    [] OTHER -> {"yaml"}

\* A part of a name as match_key and exact-path lookups see it.
Folded(part) == IF Lower(part) \in {"images", "labels", "annotations"}
                THEN "__media__" ELSE Lower(part)
MatchKey(n) == [dirs |-> [i \in DOMAIN n.dirs |-> Folded(n.dirs[i])], stem |-> Folded(n.stem)]

LowerName(n) == [n EXCEPT !.dirs = [i \in DOMAIN n.dirs |-> Lower(n.dirs[i])],
                          !.stem = Lower(n.stem)]

First(I) == CHOOSE i \in I : \A j \in I : i <= j

\* The name without its leading dots and slashes: "./a" and "../a" become "a",
\* but so does the folder ".a" lose its dot.
Strip(part) == IF part \in DOMAIN Undotted THEN Undotted[part] ELSE part
Stripped(n) ==
  LET left == {i \in DOMAIN n.dirs : Strip(n.dirs[i]) # ""} IN
  IF left = {} THEN [n EXCEPT !.dirs = << >>, !.stem = Strip(n.stem)]
  ELSE [n EXCEPT !.dirs = <<Strip(n.dirs[First(left)])>>
                            \o SubSeq(n.dirs, First(left) + 1, Len(n.dirs))]

SubsetFor(n) ==
  LET parts == {Lower(d) : d \in ToSet(n.dirs)} IN
  CASE "train" \in parts -> "train"
    [] "train" \notin parts /\ "val" \in parts -> "val"
    [] parts \cap {"train", "val"} = {} /\ "test" \in parts -> "test"
    [] OTHER -> "none"

\* normpath; what still starts with ".." or "/" is unsafe.
Entered(done, d) ==
  CASE d = "." -> done
    [] d = ".." /\ done # << >> /\ done[Len(done)] # ".." -> Front(done)
    [] OTHER -> Append(done, d)
Normal(dirs) ==
  LET done[i \in 0..Len(dirs)] ==
        IF i = 0 THEN << >> ELSE Entered(done[i - 1], dirs[i])
  IN done[Len(dirs)]
SafeName(n) == [n EXCEPT !.dirs = Normal(n.dirs)]

-----------------------------------------------------------------------------
(* validated_entries and scan_dataset_archive.                              *)

\* `refused': a link, a file whose compression ratio is too high, a name that
\* is too long or that names a device.
Acceptable(file) ==
  /\ file.data.kind # "refused"
  /\ ToSet(SafeName(file.name).dirs) \cap {"..", "/"} = {}
  /\ Len(SafeName(file.name).dirs) < MaxDepth
Accepted(archive) ==
  /\ Len(archive) <= MaxFiles
  /\ \A i \in DOMAIN archive : Acceptable(archive[i])
  /\ \A i, j \in DOMAIN archive :
       SafeName(archive[i].name) = SafeName(archive[j].name) => i = j
Entries(archive) ==
  [i \in DOMAIN archive |-> [archive[i] EXCEPT !.name = SafeName(@)]]

Is(file, suffixes) == file.name.suffix \in suffixes
Positions(files, suffixes) == {i \in DOMAIN files : Is(files[i], suffixes)}
KeyAt(files, i) == MatchKey(files[i].name)
NamesAt(files, I) == {files[i].name : i \in I}

\* The file that a dictionary filled in order has under key k in the end.
LastWith(files, I, k) ==
  LET found == {i \in I : KeyAt(files, i) = k} IN
  IF found = {} THEN NoFile ELSE files[CHOOSE i \in found : \A j \in found : j <= i].name

DetectParser(files) ==
  LET Has(suffix) == \E i \in DOMAIN files : files[i].name.suffix = suffix
      Config(stems, suffixes) == \E i \in DOMAIN files :
        Lower(files[i].name.stem) \in stems /\ files[i].name.suffix \in suffixes
  IN CASE Config({"data"}, {".yaml"}) -> "yolo"
       [] ~Config({"data"}, {".yaml"}) /\ Config({"annotations", "instances"}, {".json"}) -> "coco"
       [] OTHER -> IF Has(".xml") THEN "voc" ELSE IF Has(".json") THEN "labelme"
                   ELSE IF Has(".txt") THEN "yolo" ELSE "none"

Issue(code, name) == [code |-> code, name |-> name]

Scan(files) ==
  LET images == Positions(files, ImageSuffixes)
      annotations == Positions(files, AnnotationSuffixes)
      imageKeys == {KeyAt(files, i) : i \in images}
      annotationKeys == {KeyAt(files, i) : i \in annotations}
      pairs == {<<LastWith(files, images, k), LastWith(files, annotations, k)>> : k \in imageKeys}
  IN [parser |-> DetectParser(files),
      images |-> Cardinality(imageKeys),
      annotations |-> Cardinality(annotationKeys),
      pairs |-> pairs,
      subsets |-> [s \in {"train", "val", "test"} |->
                     Cardinality({i \in images : SubsetFor(files[i].name) = s})],
      issues |->
        {Issue("duplicate_image_stem", files[i].name) :
           i \in {j \in images : \E k \in images : k < j /\ KeyAt(files, k) = KeyAt(files, j)}}
        \cup {Issue("missing_annotation", p[1]) : p \in {q \in pairs : q[2] = NoFile}}
        \cup {Issue("orphan_annotation", LastWith(files, annotations, k)) :
                k \in annotationKeys \ imageKeys}]

-----------------------------------------------------------------------------
(* The parsers.  An annotation's `class' is -1 until a label is found for   *)
(* its name; box, polygon and keypoints are << >> when it has none.         *)

Annotation(class, name, space) ==
  [class |-> class, name |-> name, box |-> << >>, polygon |-> << >>, keypoints |-> << >>,
   space |-> space]

DefaultName(class) == "class_" \o ToString(class)
NameIn(labels, class) == IF class \in DOMAIN labels THEN labels[class] ELSE DefaultName(class)

\* The elements of s that are in S, in their order.  (SelectSeq; provers know
\* nothing of that.)
Only(s, S) ==
  LET kept[i \in 0..Len(s)] ==
        IF i = 0 THEN << >> ELSE IF s[i] \in S THEN Append(kept[i - 1], s[i]) ELSE kept[i - 1]
  IN kept[Len(s)]

Groups(s, k) == [i \in 1..(Len(s) \div k) |-> SubSeq(s, k * (i - 1) + 1, k * i)]

\* A line is [class, coords]; how many numbers it has decides what it is.
FromLine(line, labels, pose) ==
  LET n == Len(line.coords)
      new == Annotation(line.class, NameIn(labels, line.class), "normalized")
      isPose == pose /\ n >= 7 /\ (n - 4) % 3 = 0
  IN CASE isPose -> [new EXCEPT !.box = SubSeq(line.coords, 1, 4),
                                !.keypoints = Groups(SubSeq(line.coords, 5, n), 3)]
       [] ~isPose /\ n > 4 /\ n % 2 = 0 -> [new EXCEPT !.polygon = Groups(line.coords, 2)]
       [] OTHER -> [new EXCEPT !.box = SubSeq(line.coords, 1, 4)]
ParseYolo(data, labels, pose) ==
  LET lines == Only(data.lines, {l \in ToSet(data.lines) : Len(l.coords) >= 4}) IN
  [i \in DOMAIN lines |-> FromLine(lines[i], labels, pose)]

Least(x, y) == IF x < y THEN x ELSE y
Distance(x, y) == IF x < y THEN y - x ELSE x - y

\* A shape is [label, type, points].
FromShape(shape) ==
  LET new == Annotation(-1, shape.label, "pixels")
      p == shape.points
  IN CASE shape.type = "rectangle" /\ Len(p) >= 2 ->
            [new EXCEPT !.box = <<Least(p[1][1], p[2][1]), Least(p[1][2], p[2][2]),
                                  Distance(p[1][1], p[2][1]), Distance(p[1][2], p[2][2])>>]
       [] shape.type = "point" /\ p # << >> ->
            [new EXCEPT !.keypoints = << <<p[1][1], p[1][2], 2 * Unit>> >>]
       [] OTHER -> [new EXCEPT !.polygon = p]
ParseLabelme(data) == [i \in DOMAIN data.shapes |-> FromShape(data.shapes[i])]

\* An object is [name, corners]; one without a bndbox is skipped.
FromObject(object) ==
  LET c == object.corners IN
  [Annotation(-1, object.name, "pixels") EXCEPT
     !.box = <<c[1], c[2], IF c[3] > c[1] THEN c[3] - c[1] ELSE 0,
               IF c[4] > c[2] THEN c[4] - c[2] ELSE 0>>]
ParseVoc(data) ==
  LET boxed == Only(data.objects, {o \in ToSet(data.objects) : o.corners # << >>}) IN
  [i \in DOMAIN boxed |-> FromObject(boxed[i])]

Sample(name, annotation, type, annotations, size) ==
  [name |-> name, annotation |-> annotation, subset |-> SubsetFor(name), type |-> type,
   annotations |-> annotations, size |-> size]

\* Mutant: the entry's name is taken as it is.
UncheckedImage(files, wanted) == wanted
\* Mutant: the first of several files of the base name.
FirstOfBaseName(files, wanted) ==
  LET named == {i \in Positions(files, ImageSuffixes) :
                  Lower(files[i].name.stem) = Lower(wanted.stem)} IN
  IF named = {} THEN NoFile ELSE files[CHOOSE i \in named : \A j \in named : i <= j].name
\* Mutant: paths are not looked up.
OnlyBaseName(files, wanted) ==
  LET named == {n \in NamesAt(files, Positions(files, ImageSuffixes)) :
                  Lower(n.stem) = Lower(wanted.stem)} IN
  IF Cardinality(named) = 1 THEN CHOOSE n \in named : TRUE ELSE NoFile
\* The file that an entry of a COCO document means: that of its stripped path, or
\* else the only one of its base name.
CocoImage(files, wanted) ==
  LET images == NamesAt(files, Positions(files, ImageSuffixes))
      exact == {n \in images : LowerName(n) = LowerName(wanted)}
      last == {i \in DOMAIN files : files[i].name \in exact}
      named == {n \in images : /\ Lower(n.stem) = Lower(wanted.stem)
                               /\ n.suffix = wanted.suffix}
  IN CASE exact # {} -> files[CHOOSE i \in last : \A j \in last : j <= i].name
       [] exact = {} /\ Cardinality(named) = 1 -> CHOOSE n \in named : TRUE
       [] OTHER -> NoFile

\* The document has images [id, file, size], annotations [image, category, box,
\* polygon, keypoints] and categories (names by id).
CocoAnnotations(data, image) ==
  LET own == Only(data.annotations, {a \in ToSet(data.annotations) : a.image = image.id}) IN
  [i \in DOMAIN own |->
     [Annotation(own[i].category, NameIn(data.categories, own[i].category), "pixels") EXCEPT
        !.box = own[i].box, !.polygon = own[i].polygon, !.keypoints = own[i].keypoints]]
ParseCoco(files, document) ==
  LET data == document.data
      listed == ToSet(data.images)
      File(image) == CocoImage(files, Stripped(image.file))
  IN [parser |-> "coco",
      samples |-> {Sample(File(image), document.name, "coco", CocoAnnotations(data, image),
                          image.size) : image \in {m \in listed : File(m) # NoFile}},
      labels |-> data.categories,
      issues |-> {Issue("coco_image_missing", Stripped(image.file)) :
                    image \in {m \in listed : File(m) = NoFile}}]

-----------------------------------------------------------------------------
(* inspect_dataset_reader: the manifest.                                    *)

Kinds(files, kinds) == {i \in DOMAIN files : files[i].data.kind \in kinds}

\* Mutant: JSON files that could not be read are left out.
ReadableFiles(files) ==
  Positions(files, {".txt", ".xml"})
    \cup (Positions(files, {".json"}) \cap Kinds(files, {"labelme"}))
\* Files that may be an image's annotation.  Of the JSON documents those with
\* shapes, and those that could not be read.
AnnotationFiles(files) ==
  Positions(files, {".txt", ".xml"})
    \cup (Positions(files, {".json"}) \cap Kinds(files, {"labelme", "broken"}))

Parsed(file, labels, pose) ==
  CASE file.data.kind = "broken" -> << >>
    [] file.data.kind = "names" -> << >>
    [] file.data.kind = "yolo" -> ParseYolo(file.data, labels, pose)
    [] file.data.kind = "labelme" -> ParseLabelme(file.data)
    [] file.data.kind = "voc" -> ParseVoc(file.data)
SizeOf(file) == IF file.data.kind \in {"labelme", "voc"} THEN file.data.size ELSE <<0, 0>>
TypeOf(file) == CASE Is(file, {".txt"}) -> "yolo" [] Is(file, {".xml"}) -> "voc"
                  [] Is(file, {".json"}) -> "labelme"

AnnotationsOf(samples) == UNION {ToSet(s.annotations) : s \in samples}

\* setdefault: a class that the configuration does not name has the name of
\* its first annotation.
YoloLabels(configured, samples) ==
  LET found == AnnotationsOf(samples)
      more == {a.class : a \in found} \ DOMAIN configured
  IN [c \in DOMAIN configured \cup more |->
        IF c \in DOMAIN configured THEN configured[c]
        ELSE (CHOOSE a \in found : a.class = c).name]
\* The names discovered, numbered in alphabetical order.
NumberedLabels(samples) ==
  LET names == Only(ClassNames, {a.name : a \in AnnotationsOf(samples)})
  IN [c \in 0..(Len(names) - 1) |-> names[c + 1]]

\* Mutant: annotations keep the class -1.
Unresolved(sample, labels) == sample
\* with_resolved_labels: the last class of a name is the class of all of that name.
Resolved(sample, labels) ==
  LET ClassOf(a) == LET classes == {c \in DOMAIN labels : labels[c] = a.name} IN
                    IF classes = {} THEN a.class
                    ELSE CHOOSE c \in classes : \A d \in classes : d <= c
      Resolve(a) == [a EXCEPT !.class = ClassOf(a)]
  IN [sample EXCEPT !.annotations = [i \in DOMAIN @ |-> Resolve(@[i])]]

PairedManifest(files) ==
  LET config == {i \in DOMAIN files : /\ Lower(files[i].name.stem) = "data"
                                      /\ Is(files[i], {".yaml"})}
      labels == IF config = {} THEN [c \in {} |-> ""] ELSE files[First(config)].data.labels
      pose == config # {} /\ files[First(config)].data.pose
      parser == DetectParser(files)
      File(name) == files[CHOOSE i \in DOMAIN files : files[i].name = name]
      Read(image) ==
        LET annotation == LastWith(files, AnnotationFiles(files), MatchKey(image)) IN
        IF annotation = NoFile THEN Sample(image, NoFile, parser, << >>, <<0, 0>>)
        ELSE Sample(image, annotation, TypeOf(File(annotation)),
                    Parsed(File(annotation), labels, pose), SizeOf(File(annotation)))
      samples == {Read(n) : n \in NamesAt(files, Positions(files, ImageSuffixes))}
      all == IF parser = "yolo" THEN YoloLabels(labels, samples) ELSE NumberedLabels(samples)
      broken == NamesAt(files, Kinds(files, {"broken"}))
  IN [parser |-> parser,
      samples |-> {Resolved(s, all) : s \in samples},
      labels |-> all,
      issues |-> {Issue("missing_annotation", s.name) : s \in {t \in samples : t.annotation = NoFile}}
                 \cup {Issue("unreadable", n) :
                         n \in {b \in broken : \/ b.suffix = ".json"
                                               \/ \E t \in samples : t.annotation = b}}]

Manifest(files) ==
  LET coco == Positions(files, {".json"}) \cap Kinds(files, {"coco"}) IN
  IF coco = {} THEN PairedManifest(files) ELSE ParseCoco(files, files[First(coco)])

=============================================================================
