-------------------------- MODULE ArchiveInspection --------------------------
(***************************************************************************)
(* What the scan tells a user before an import, and what the import makes  *)
(* of the same archive: two pieces of code that walk the files on their    *)
(* own.  The archive grows by one file at a time, in any order, so that    *)
(* every state is an archive somebody may upload.                          *)
(***************************************************************************)
EXTENDS DatasetArchive

CONSTANTS
  Files,     \* the files an archive may contain: raw names and data
  MaxPacked  \* bound: files packed into one archive

\* Files have names, and data of a form that their kind says.
ASSUME FilesAreRead ==
  \A f \in Files :
    /\ f = [name |-> f.name, data |-> f.data] /\ IsName(f.name)
    /\ f.data.kind \in KindsOf(f.name.suffix) \cup {"refused"}
    /\ f.data.kind = "yaml" =>
         IsFiniteSet(DOMAIN f.data.labels) /\ DOMAIN f.data.labels \subseteq Nat
    /\ f.data.kind = "yolo" =>
         IsSequence(f.data.lines)
         /\ \A l \in ToSet(f.data.lines) : l.class \in Int /\ IsSequence(l.coords)
    /\ f.data.kind = "labelme" => IsSequence(f.data.shapes)
    /\ f.data.kind = "voc" => IsSequence(f.data.objects)
    /\ f.data.kind = "coco" =>
         IsSequence(f.data.annotations) /\ \A a \in ToSet(f.data.annotations) : a.category \in Int

\* ClassNames has every name that annotations have without a configuration.
ASSUME NamesAreListed ==
  /\ IsSequence(ClassNames)
  /\ \A f \in Files :
       /\ f.data.kind = "yolo" =>
            \A l \in ToSet(f.data.lines) : Len(l.coords) >= 4 => DefaultName(l.class) \in ToSet(ClassNames)
       /\ f.data.kind = "labelme" => \A s \in ToSet(f.data.shapes) : s.label \in ToSet(ClassNames)
       /\ f.data.kind = "voc" => \A o \in ToSet(f.data.objects) : o.name \in ToSet(ClassNames)

VARIABLE archive

Init == archive = << >>

\* Archives that no file can make acceptable again are not extended.
Pack(file) ==
  /\ Accepted(archive)
  /\ Len(archive) < MaxPacked
  /\ archive' = Append(archive, file)

Next == \E file \in Files : Pack(file)

Spec == Init /\ [][Next]_archive

-----------------------------------------------------------------------------
files == Entries(archive)
scan == Scan(files)
manifest == Manifest(files)

Documents(kinds) == Kinds(files, kinds)
Images == NamesAt(files, Positions(files, ImageSuffixes))
Duplicates == {i \in scan.issues : i.code = "duplicate_image_stem"}

\* The scan's pairs and the manifest's samples are of this form.
TypeOK ==
  Accepted(archive) =>
    /\ \A s \in manifest.samples :
         /\ s.name \in Images
         /\ s.annotation \in NamesAt(files, DOMAIN files) \cup {NoFile}
         /\ \A a \in ToSet(s.annotations) : a.class \in Int
    /\ \A p \in scan.pairs : p[1] \in Images

\* Unless the archive has a COCO document, the import creates the samples that
\* the preview counts, those reported as duplicates included, in the subsets of
\* the preview; and unless it has JSON files of another kind it reads every
\* reported image with the annotation the scan paired it with.
ScanPredictsImport ==
  Accepted(archive) /\ Documents({"coco"}) = {} =>
    /\ Cardinality(manifest.samples) = scan.images + Cardinality(Duplicates)
    /\ \A s \in DOMAIN scan.subsets :
         scan.subsets[s] = Cardinality({t \in manifest.samples : t.subset = s})
    /\ Documents({"other"}) = {} =>
         \A t \in manifest.samples :
           \E p \in scan.pairs : MatchKey(p[1]) = MatchKey(t.name) /\ p[2] = t.annotation

\* Unless a YOLO configuration is mixed with annotations of another kind, the
\* class of an annotation is the class of its name, so that the label shown for
\* it, and exported, is the one it was drawn with.  Only a COCO document may use
\* a category that it does not define.
LabelsNameAnnotations ==
  Accepted(archive) /\ ~(manifest.parser = "yolo" /\ Documents({"labelme", "voc"}) # {}) =>
    \A a \in AnnotationsOf(manifest.samples) :
      IF a.class \in DOMAIN manifest.labels THEN manifest.labels[a.class] = a.name
      ELSE manifest.parser = "coco"

\* Two files that the code may confuse: they compete for an image, are both
\* configurations, both COCO documents, or images whose names differ in case.
Compete(f, g) ==
  \/ f.name.suffix \in AnnotationSuffixes /\ g.name.suffix \in AnnotationSuffixes
       /\ MatchKey(f.name) = MatchKey(g.name)
  \/ f.name.suffix = ".yaml" /\ g.name.suffix = ".yaml"
  \/ f.data.kind = "coco" /\ g.data.kind = "coco"
  \/ LowerName(f.name) = LowerName(g.name)
Swapped(s, i) == [s EXCEPT ![i] = s[i + 1], ![i + 1] = s[i]]

\* What is imported does not depend on the order in which a tool has packed
\* the files, unless two neighbours compete.
OrderDoesNotMatter ==
  Accepted(archive) =>
    \A i \in 1..(Len(files) - 1) :
      ~Compete(files[i], files[i + 1]) => Manifest(Swapped(files, i)) = manifest

\* An image that a COCO document names by its path is imported, whatever else
\* has its base name, with the annotations of that entry, unless another name
\* differs from it in case only, or more is stripped of the path than what leads
\* nowhere: that of a folder or file that begins with a dot loses it.
CocoKeepsImages ==
  LET documents == Documents({"coco"}) IN
  Accepted(archive) /\ documents # {} =>
    LET document == files[First(documents)]
        listed == ToSet(document.data.images)
    IN \A image \in listed :
         LET path == SafeName(image.file) IN
         (/\ path \in Images /\ Stripped(image.file) = path
          /\ \A n \in Images : LowerName(n) = LowerName(path) => n = path)
         => \E s \in manifest.samples :
              s.name = path /\ s.annotations = CocoAnnotations(document.data, image)

=============================================================================
