------------------------ MODULE ArchiveInspectionProofs ------------------------
(***************************************************************************)
(* What the scan tells and what the import makes of every archive, for any *)
(* files and bounds.                                                       *)
(*                                                                         *)
(* The archive is a sequence of Files (Packed), which is all that the      *)
(* properties need of the steps; each of them is then a fact about the     *)
(* files of one accepted archive (Sound): positions 1..n, names of their   *)
(* own and data that has the form its suffix says.                         *)
(***************************************************************************)
EXTENDS ArchiveInspection, DatasetArchiveProofs

\* A file has the data of one of Files that has its suffix.
ReadFrom(f) ==
  /\ IsName(f.name)
  /\ \E g \in Files : f.data = g.data /\ f.name.suffix = g.name.suffix /\ g.data.kind # "refused"
\* The files of an archive that is accepted have names of their own.
Sound(s, n) ==
  /\ n \in Nat /\ DOMAIN s = 1..n
  /\ \A i \in 1..n : ReadFrom(s[i])
  /\ \A i, j \in 1..n : s[i].name = s[j].name => i = j

Packed == archive \in Seq(Files)

LEMMA PackedInit == Init => Packed
  BY EmptySeq DEF Init, Packed

LEMMA PackedStep == Packed /\ [Next]_archive => Packed'
<1> SUFFICES ASSUME Packed, [Next]_archive PROVE Packed'
  OBVIOUS
<1>1. ASSUME NEW file \in Files, Pack(file) PROVE Packed'
  BY <1>1, AppendProperties DEF Packed, Pack
<1>2. CASE UNCHANGED archive
  BY <1>2 DEF Packed
<1> QED BY <1>1, <1>2 DEF Next

\* The files of every archive that is accepted, for the properties.
LEMMA AcceptedFiles ==
  ASSUME Packed, Accepted(archive)
  PROVE  Sound(files, Len(archive))
<1>1. /\ Len(archive) \in Nat /\ DOMAIN archive = 1..Len(archive)
      /\ \A i \in 1..Len(archive) : archive[i] \in Files
  BY LenProperties DEF Packed
<1>2. DOMAIN files = DOMAIN archive
  BY DEF files, Entries
<1>3. ASSUME NEW i \in 1..Len(archive)
      PROVE  /\ files[i].name = SafeName(archive[i].name) /\ files[i].data = archive[i].data
             /\ ReadFrom(files[i])
  <2> DEFINE safe == SafeName(archive[i].name)
  <2>1. /\ archive[i] \in Files
        /\ archive[i] = [name |-> archive[i].name, data |-> archive[i].data]
        /\ IsName(archive[i].name)
    BY <1>1, FilesAreRead
  <2>2. files[i] = [name |-> safe, data |-> archive[i].data]
    <3>1. files[i] = [archive[i] EXCEPT !.name = safe]
      BY <1>1 DEF files, Entries
    <3> HIDE DEF safe
    <3> QED BY <2>1, <3>1
  <2>3. IsName(safe) /\ safe.suffix = archive[i].name.suffix
    BY <2>1 DEF SafeName, IsName, Name
  <2>4. archive[i].data.kind # "refused"
    BY <1>1 DEF Accepted, Acceptable
  <2>5. files[i].name = safe /\ files[i].data = archive[i].data
    BY <2>2
  <2> HIDE DEF safe
  <2>6. ReadFrom(files[i])
    BY <2>1, <2>3, <2>4, <2>5 DEF ReadFrom
  <2> QED BY <2>5, <2>6 DEF safe
<1>4. ASSUME NEW i \in 1..Len(archive), NEW j \in 1..Len(archive), files[i].name = files[j].name
      PROVE  i = j
  BY <1>1, <1>3, <1>4 DEF Accepted
<1> QED BY <1>1, <1>2, <1>3, <1>4 DEF Sound

LEMMA ImagesAreFiles ==
  ASSUME NEW s, NEW n, Sound(s, n), NEW m \in NamesAt(s, Positions(s, ImageSuffixes))
  PROVE  /\ \E i \in 1..n : i \in Positions(s, ImageSuffixes) /\ s[i].name = m
         /\ IsName(m) /\ m.suffix \in ImageSuffixes /\ m # NoFile
<1>1. PICK i \in Positions(s, ImageSuffixes) : s[i].name = m
  BY DEF NamesAt
<1>2. i \in 1..n /\ m.suffix \in ImageSuffixes
  BY <1>1 DEF Positions, Is, Sound
<1>3. IsName(m)
  BY <1>1, <1>2 DEF Sound, ReadFrom
<1>4. NoFile.suffix \notin ImageSuffixes
  BY DEF NoFile, Name, ImageSuffixes
<1> QED BY <1>1, <1>2, <1>3, <1>4

\* Files of a kind have its suffix.
LEMMA SuffixOfKind ==
  ASSUME NEW s, NEW n, Sound(s, n), NEW i \in 1..n
  PROVE  s[i].data.kind \in KindsOf(s[i].name.suffix)
  BY FilesAreRead DEF Sound, ReadFrom

LEMMA CocoIsJson ==
  ASSUME NEW s, NEW n, Sound(s, n)
  PROVE  Positions(s, {".json"}) \cap Kinds(s, {"coco"}) = Kinds(s, {"coco"})
<1>1. ASSUME NEW i \in 1..n, s[i].data.kind = "coco" PROVE s[i].name.suffix = ".json"
  BY <1>1, SuffixOfKind DEF KindsOf
<1> QED BY <1>1 DEF Positions, Kinds, Is, Sound

-----------------------------------------------------------------------------
(* COCO documents.                                                         *)

\* An entry means the file of its path, if no other image differs from it in case only.
LEMMA EntryFound ==
  ASSUME NEW s, NEW n, Sound(s, n), NEW wanted \in NamesAt(s, Positions(s, ImageSuffixes)),
         \A m \in NamesAt(s, Positions(s, ImageSuffixes)) : LowerName(m) = LowerName(wanted) => m = wanted
  PROVE  CocoImage(s, wanted) = wanted
<1> DEFINE images == NamesAt(s, Positions(s, ImageSuffixes))
           exact == {m \in images : LowerName(m) = LowerName(wanted)}
           last == {i \in DOMAIN s : s[i].name \in exact}
           Newest(i) == \A j \in last : j <= i
           named == {m \in images : /\ Lower(m.stem) = Lower(wanted.stem)
                                    /\ m.suffix = wanted.suffix}
<1>1. CocoImage(s, wanted) = CASE exact # {} -> s[CHOOSE i \in last : Newest(i)].name
                               [] exact = {} /\ Cardinality(named) = 1 -> CHOOSE m \in named : TRUE
                               [] OTHER -> NoFile
  BY DEF CocoImage
<1>2. exact = {wanted}
  OBVIOUS
<1>3. last # {} /\ n \in Nat /\ last \subseteq 0..n
  BY <1>2, ImagesAreFiles DEF Sound
<1>4. \E i \in last : Newest(i)
  <2> HIDE DEF last
  <2> QED BY <1>3, Greatest
<1>5. (CHOOSE i \in last : Newest(i)) \in last
  <2> HIDE DEF last, Newest
  <2> QED BY <1>4
<1>6. \A i \in last : s[i].name = wanted
  BY <1>2
<1> HIDE DEF exact, last, Newest, named
<1> QED BY <1>1, <1>2, <1>5, <1>6

LEMMA CocoKept == Packed => CocoKeepsImages
<1> DEFINE documents == Documents({"coco"})
           document == files[First(documents)]
<1> SUFFICES ASSUME Packed, Accepted(archive), documents # {},
                    NEW image \in ToSet(document.data.images), SafeName(image.file) \in Images,
                    Stripped(image.file) = SafeName(image.file),
                    \A m \in Images : LowerName(m) = LowerName(SafeName(image.file))
                                     => m = SafeName(image.file)
             PROVE  \E s \in manifest.samples :
                      /\ s.name = SafeName(image.file)
                      /\ s.annotations = CocoAnnotations(document.data, image)
  BY DEF CocoKeepsImages
<1> PICK path : path = SafeName(image.file)
  OBVIOUS
<1>1. Sound(files, Len(archive))
  BY AcceptedFiles
<1>2. manifest = ParseCoco(files, document)
  BY <1>1, CocoIsJson DEF manifest, Manifest, Documents
<1>3. CocoImage(files, Stripped(image.file)) = path /\ path # NoFile
  BY <1>1, EntryFound, ImagesAreFiles DEF Images
<1> DEFINE s == Sample(path, document.name, "coco", CocoAnnotations(document.data, image),
                       image.size)
<1>4. s \in manifest.samples
  <2> HIDE DEF document
  <2> QED BY <1>2, <1>3 DEF ParseCoco
<1>5. s.name = path /\ s.annotations = CocoAnnotations(document.data, image)
  BY DEF Sample
<1> QED BY <1>4, <1>5

\* An image that a COCO document names by its path, of which lstrip takes no dot of
\* a folder, is imported with that entry's annotations (the exact path of
\* _parse_coco comes before its base name).
THEOREM CocoKeeps == Spec => []CocoKeepsImages
<1>1. Init => Packed
  BY PackedInit
<1>2. Packed /\ [Next]_archive => Packed'
  BY PackedStep
<1>3. Packed => CocoKeepsImages
  BY CocoKept
<1> QED BY <1>1, <1>2, <1>3, PTL DEF Spec

-----------------------------------------------------------------------------
(* The manifest and the counts of the scan.                                *)

ImagesOf(s) == NamesAt(s, Positions(s, ImageSuffixes))

\* The parts of the manifest of an archive without a COCO document.
ConfigurationsOf(s) == {i \in DOMAIN s : Lower(s[i].name.stem) = "data" /\ Is(s[i], {".yaml"})}
ConfiguredLabels(s) ==
  IF ConfigurationsOf(s) = {} THEN [c \in {} |-> ""] ELSE s[First(ConfigurationsOf(s))].data.labels
PoseOf(s) == ConfigurationsOf(s) # {} /\ s[First(ConfigurationsOf(s))].data.pose
FileOf(s, name) == s[CHOOSE i \in DOMAIN s : s[i].name = name]
AnnotationOf(s, image) == LastWith(s, AnnotationFiles(s), MatchKey(image))
ReadSample(s, image) ==
  IF AnnotationOf(s, image) = NoFile THEN Sample(image, NoFile, DetectParser(s), << >>, <<0, 0>>)
  ELSE Sample(image, AnnotationOf(s, image), TypeOf(FileOf(s, AnnotationOf(s, image))),
              Parsed(FileOf(s, AnnotationOf(s, image)), ConfiguredLabels(s), PoseOf(s)),
              SizeOf(FileOf(s, AnnotationOf(s, image))))
SamplesRead(s) == {ReadSample(s, m) : m \in ImagesOf(s)}
LabelsFound(s) == IF DetectParser(s) = "yolo" THEN YoloLabels(ConfiguredLabels(s), SamplesRead(s))
                  ELSE NumberedLabels(SamplesRead(s))

LEMMA PairedIs ==
  ASSUME NEW s
  PROVE  /\ PairedManifest(s).parser = DetectParser(s)
         /\ PairedManifest(s).samples = {Resolved(t, LabelsFound(s)) : t \in SamplesRead(s)}
         /\ PairedManifest(s).labels = LabelsFound(s)
<1>1. PairedManifest(s).parser = DetectParser(s)
  BY DEF PairedManifest
<1>2. PairedManifest(s).samples = {Resolved(t, LabelsFound(s)) : t \in SamplesRead(s)}
  BY DEF PairedManifest, LabelsFound, SamplesRead, ReadSample, AnnotationOf, FileOf, PoseOf,
         ConfiguredLabels, ConfigurationsOf, ImagesOf
<1>3. PairedManifest(s).labels = LabelsFound(s)
  BY DEF PairedManifest, LabelsFound, SamplesRead, ReadSample, AnnotationOf, FileOf, PoseOf,
         ConfiguredLabels, ConfigurationsOf, ImagesOf
<1> QED BY <1>1, <1>2, <1>3

LEMMA ManifestIsPaired ==
  ASSUME NEW s, NEW n, Sound(s, n), Kinds(s, {"coco"}) = {}
  PROVE  Manifest(s) = PairedManifest(s)
  BY CocoIsJson DEF Manifest

\* A sample of the manifest is of an image, and an image has one sample.
LEMMA OneSampleEach ==
  ASSUME NEW s, NEW labels
  PROVE  \A m : LET t == Resolved(ReadSample(s, m), labels) IN
           t.name = m /\ t.subset = SubsetFor(m) /\ t.annotation = AnnotationOf(s, m)
<1> SUFFICES ASSUME NEW m
             PROVE  LET t == Resolved(ReadSample(s, m), labels) IN
                      t.name = m /\ t.subset = SubsetFor(m) /\ t.annotation = AnnotationOf(s, m)
  OBVIOUS
<1> DEFINE r == ReadSample(s, m)
<1>1. \E y, a, z : r = Sample(m, AnnotationOf(s, m), y, a, z)
  BY DEF ReadSample
<1>2. PICK y, a, z : r = Sample(m, AnnotationOf(s, m), y, a, z)
  BY <1>1
<1> HIDE DEF r
<1>3. LET t == Resolved(r, labels) IN
        t.name = m /\ t.subset = SubsetFor(m) /\ t.annotation = AnnotationOf(s, m)
  BY <1>2 DEF Resolved, Sample
<1> QED BY <1>3 DEF r

LEMMA SameSize ==
  ASSUME NEW S, NEW T, IsFiniteSet(S), NEW g \in [S -> T],
         \A i, j \in S : g[i] = g[j] => i = j, \A t \in T : \E i \in S : g[i] = t
  PROVE  IsFiniteSet(T) /\ Cardinality(T) = Cardinality(S)
<1>1. g \in Bijection(S, T)
  BY DEF Bijection, Injection, Surjection, IsInjective
<1> QED BY <1>1, FS_Bijection DEF ExistsBijection

LEMMA FinitePositions ==
  ASSUME NEW s, NEW n, Sound(s, n), NEW I \in SUBSET (1..n)
  PROVE  IsFiniteSet(I)
<1>1. IsFiniteSet(1..n)
  BY FS_Interval DEF Sound
<1> QED BY <1>1, FS_Subset

SamplesAt(s, labels, I) == {Resolved(ReadSample(s, s[i].name), labels) : i \in I}

\* As many samples as images that satisfy a condition on the name.
LEMMA SamplesCounted ==
  ASSUME NEW s, NEW n, Sound(s, n), NEW labels, NEW I \in SUBSET Positions(s, ImageSuffixes)
  PROVE  Cardinality(SamplesAt(s, labels, I)) = Cardinality(I)
<1> DEFINE g == [i \in I |-> Resolved(ReadSample(s, s[i].name), labels)]
           T == {Resolved(ReadSample(s, s[i].name), labels) : i \in I}
<1>1. \A i \in I : g[i].name = s[i].name
  BY OneSampleEach
<1>2. I \in SUBSET (1..n)
  BY DEF Sound, Positions
<1>3. \A i, j \in I : g[i] = g[j] => i = j
  <2> HIDE DEF g
  <2> QED BY <1>1, <1>2 DEF Sound
<1>4. g \in [I -> T] /\ \A t \in T : \E i \in I : g[i] = t
  OBVIOUS
<1>5. IsFiniteSet(I)
  BY <1>2, FinitePositions
<1> HIDE DEF g, T
<1>6. Cardinality(T) = Cardinality(I)
  BY <1>3, <1>4, <1>5, SameSize
<1> QED BY <1>6 DEF T, SamplesAt

LEMMA SamplesByPosition ==
  ASSUME NEW s, NEW labels
  PROVE  {Resolved(t, labels) : t \in SamplesRead(s)}
           = SamplesAt(s, labels, Positions(s, ImageSuffixes))
<1>1. SamplesRead(s) = {ReadSample(s, s[i].name) : i \in Positions(s, ImageSuffixes)}
  BY DEF SamplesRead, ImagesOf, NamesAt
<1> QED BY <1>1 DEF SamplesAt

\* The images that the scan counts and those it reports as duplicates are all.
DuplicatePositions(s) ==
  {j \in Positions(s, ImageSuffixes) :
     \E k \in Positions(s, ImageSuffixes) : k < j /\ KeyAt(s, k) = KeyAt(s, j)}

LEMMA FirstOfKeys ==
  ASSUME NEW s, NEW n, Sound(s, n)
  PROVE  Cardinality({KeyAt(s, i) : i \in Positions(s, ImageSuffixes)})
           = Cardinality(Positions(s, ImageSuffixes) \ DuplicatePositions(s))
<1> DEFINE P == Positions(s, ImageSuffixes)
           D == DuplicatePositions(s)
           K == {KeyAt(s, i) : i \in P}
           g == [i \in P \ D |-> KeyAt(s, i)]
<1>1. n \in Nat /\ P \subseteq 1..n
  BY DEF Sound, Positions
<1>2. \A i, j \in P \ D : i < j => KeyAt(s, i) # KeyAt(s, j)
  BY DEF DuplicatePositions
<1>3. \A i, j \in P \ D : g[i] = g[j] => i = j
  <2> SUFFICES ASSUME NEW i \in P \ D, NEW j \in P \ D, g[i] = g[j] PROVE i = j
    OBVIOUS
  <2>1. KeyAt(s, i) = KeyAt(s, j)
    OBVIOUS
  <2>2. i \in Nat /\ j \in Nat
    BY <1>1
  <2> HIDE DEF g, P, D
  <2> QED BY <1>2, <2>1, <2>2
<1>4. ASSUME NEW k \in K PROVE \E i \in P \ D : g[i] = k
  <2> DEFINE I == {i \in P : KeyAt(s, i) = k}
  <2>1. I \in SUBSET Nat /\ I # {}
    BY <1>1
  <2>2. PICK i \in I : \A j \in I : i <= j
    <3> HIDE DEF I
    <3> QED BY <2>1, Smallest
  <2>3. i \notin D
    <3>1. ASSUME NEW j \in P, j < i, KeyAt(s, j) = KeyAt(s, i) PROVE FALSE
      <4>1. j \in I /\ i \in Nat /\ j \in Nat
        BY <1>1, <3>1
      <4> HIDE DEF I
      <4> QED BY <2>2, <3>1, <4>1
    <3> QED BY <3>1 DEF DuplicatePositions
  <2> QED BY <2>3
<1>5. IsFiniteSet(P \ D)
  BY <1>1, FinitePositions
<1>6. g \in [P \ D -> K]
  OBVIOUS
<1> HIDE DEF g, K
<1>7. Cardinality(K) = Cardinality(P \ D)
  BY <1>3, <1>4, <1>5, <1>6, SameSize
<1> QED BY <1>7 DEF K

LEMMA DuplicatesReported ==
  ASSUME NEW s, NEW n, Sound(s, n)
  PROVE  Cardinality({i \in Scan(s).issues : i.code = "duplicate_image_stem"})
           = Cardinality(DuplicatePositions(s))
<1> DEFINE D == DuplicatePositions(s)
           g == [i \in D |-> Issue("duplicate_image_stem", s[i].name)]
           T == {i \in Scan(s).issues : i.code = "duplicate_image_stem"}
           R == {Issue("duplicate_image_stem", s[i].name) : i \in D}
<1>1. D \in SUBSET (1..n)
  BY DEF Sound, DuplicatePositions, Positions
<1>2. \E M, O : /\ Scan(s).issues = R \cup M \cup O
                /\ \A i \in M : i.code = "missing_annotation"
                /\ \A i \in O : i.code = "orphan_annotation"
  <2> DEFINE pairs == Scan(s).pairs
             keys == {KeyAt(s, i) : i \in Positions(s, ImageSuffixes)}
             annotations == Positions(s, AnnotationSuffixes)
             M == {Issue("missing_annotation", p[1]) : p \in {q \in pairs : q[2] = NoFile}}
             O == {Issue("orphan_annotation", LastWith(s, annotations, k)) :
                     k \in {KeyAt(s, i) : i \in annotations} \ keys}
  <2>1. Scan(s).issues = R \cup M \cup O
    BY DEF Scan, DuplicatePositions
  <2>2. \A i \in M : i.code = "missing_annotation"
    BY DEF Issue
  <2>3. \A i \in O : i.code = "orphan_annotation"
    BY DEF Issue
  <2> HIDE DEF M, O, R
  <2> QED BY <2>1, <2>2, <2>3
<1>3. \A i \in R : i.code = "duplicate_image_stem"
  BY DEF Issue
<1>4. T = R
  <2> HIDE DEF R
  <2> QED BY <1>2, <1>3
<1>5. \A i, j \in D : g[i] = g[j] => i = j
  <2> SUFFICES ASSUME NEW i \in D, NEW j \in D, g[i] = g[j] PROVE i = j
    OBVIOUS
  <2>1. Issue("duplicate_image_stem", s[i].name) = Issue("duplicate_image_stem", s[j].name)
    OBVIOUS
  <2>2. s[i].name = s[j].name
    BY <2>1 DEF Issue
  <2> QED BY <1>1, <2>2 DEF Sound
<1>6. g \in [D -> R] /\ \A t \in R : \E i \in D : g[i] = t
  OBVIOUS
<1>7. IsFiniteSet(D)
  BY <1>1, FinitePositions
<1>8. Cardinality(R) = Cardinality(D)
  <2> HIDE DEF g, R
  <2> QED BY <1>5, <1>6, <1>7, SameSize
<1> HIDE DEF T, R
<1>9. Cardinality(T) = Cardinality(D)
  BY <1>4, <1>8
<1> QED BY <1>9 DEF T

LEMMA KeyOfLast ==
  ASSUME NEW s, NEW n, Sound(s, n), NEW I \in SUBSET (1..n), NEW i \in I
  PROVE  MatchKey(LastWith(s, I, KeyAt(s, i))) = KeyAt(s, i)
<1> DEFINE found == {j \in I : KeyAt(s, j) = KeyAt(s, i)}
           Newest(j) == \A k \in found : k <= j
           last == CHOOSE j \in found : Newest(j)
<1>0. n \in Nat
  BY DEF Sound
<1>1. i \in found /\ found \subseteq 0..n
  <2>1. 1..n \subseteq 0..n
    BY <1>0
  <2>2. i \in found /\ found \subseteq I
    OBVIOUS
  <2> HIDE DEF found
  <2> QED BY <2>1, <2>2
<1>2. \E j \in found : Newest(j)
  <2> HIDE DEF found
  <2> QED BY <1>0, <1>1, Greatest
<1>3. last \in found
  <2> HIDE DEF found, Newest
  <2> QED BY <1>2
<1>4. LastWith(s, I, KeyAt(s, i)) = s[last].name
  BY <1>1 DEF LastWith
<1>5. KeyAt(s, last) = KeyAt(s, i)
  BY <1>3
<1> QED BY <1>4, <1>5 DEF KeyAt

\* Without JSON files of another kind both pieces of code look at the same files.
LEMMA SameAnnotationFiles ==
  ASSUME NEW s, NEW n, Sound(s, n), Kinds(s, {"coco"}) = {}, Kinds(s, {"other"}) = {}
  PROVE  AnnotationFiles(s) = Positions(s, AnnotationSuffixes)
<1>1. ASSUME NEW i \in 1..n, s[i].name.suffix = ".json"
      PROVE  s[i].data.kind \in {"labelme", "broken"}
  <2>1. s[i].data.kind \in KindsOf(".json")
    BY <1>1, SuffixOfKind
  <2>2. s[i].data.kind \in {"coco", "labelme", "other", "broken"}
    BY <2>1 DEF KindsOf, ImageSuffixes
  <2> QED BY <2>2 DEF Kinds, Sound
<1>2. ASSUME NEW i \in 1..n
      PROVE  i \in AnnotationFiles(s) <=> i \in Positions(s, AnnotationSuffixes)
  <2>1. i \in AnnotationFiles(s)
          <=> \/ s[i].name.suffix \in {".txt", ".xml"}
              \/ s[i].name.suffix = ".json" /\ s[i].data.kind \in {"labelme", "broken"}
    BY DEF AnnotationFiles, Positions, Kinds, Is, Sound
  <2>2. i \in Positions(s, AnnotationSuffixes) <=> s[i].name.suffix \in {".txt", ".json", ".xml"}
    BY DEF Positions, Is, AnnotationSuffixes, Sound
  <2> QED BY <1>1, <2>1, <2>2
<1>3. AnnotationFiles(s) \subseteq 1..n /\ Positions(s, AnnotationSuffixes) \subseteq 1..n
  BY DEF AnnotationFiles, Positions, Sound
<1> QED BY <1>2, <1>3

LEMMA ScanPredictedOf ==
  ASSUME NEW s, NEW n, Sound(s, n), Kinds(s, {"coco"}) = {}
  PROVE  /\ Cardinality(Manifest(s).samples)
              = Scan(s).images + Cardinality({i \in Scan(s).issues : i.code = "duplicate_image_stem"})
         /\ \A u \in DOMAIN Scan(s).subsets :
              Scan(s).subsets[u] = Cardinality({t \in Manifest(s).samples : t.subset = u})
         /\ Kinds(s, {"other"}) = {} =>
              \A t \in Manifest(s).samples :
                \E p \in Scan(s).pairs : MatchKey(p[1]) = MatchKey(t.name) /\ p[2] = t.annotation
<1> DEFINE P == Positions(s, ImageSuffixes)
           D == DuplicatePositions(s)
<1> PICK labels : labels = LabelsFound(s)
  OBVIOUS
<1>2. Manifest(s).samples = SamplesAt(s, labels, P)
  BY ManifestIsPaired, PairedIs, SamplesByPosition
<1>3. \A i \in P : LET t == Resolved(ReadSample(s, s[i].name), labels) IN
        t.name = s[i].name /\ t.subset = SubsetFor(s[i].name) /\ t.annotation = AnnotationOf(s, s[i].name)
  BY OneSampleEach
<1>4. P \in SUBSET (1..n) /\ D \in SUBSET P
  BY DEF Positions, Sound, DuplicatePositions
<1>5. Cardinality(Manifest(s).samples)
        = Scan(s).images + Cardinality({i \in Scan(s).issues : i.code = "duplicate_image_stem"})
  <2>1. Cardinality(Manifest(s).samples) = Cardinality(P)
    BY <1>2, SamplesCounted
  <2>2. Scan(s).images = Cardinality(P \ D)
    BY FirstOfKeys DEF Scan
  <2>3. Cardinality({i \in Scan(s).issues : i.code = "duplicate_image_stem"}) = Cardinality(D)
    BY DuplicatesReported
  <2>4. IsFiniteSet(P \ D) /\ IsFiniteSet(D)
    <3>1. P \ D \in SUBSET (1..n) /\ D \in SUBSET (1..n)
      BY <1>4
    <3> HIDE DEF P, D
    <3> QED BY <3>1, FinitePositions
  <2>5. Cardinality(P) = Cardinality(P \ D) + Cardinality(D)
    <3> DEFINE Q == P \ D
    <3>1. P = Q \cup D /\ Q \cap D = {}
      BY <1>4
    <3>0. IsFiniteSet(Q) /\ IsFiniteSet(D)
      BY <2>4
    <3> HIDE DEF P, D, Q
    <3>2. Cardinality(Q \cup D) = Cardinality(Q) + Cardinality(D) - Cardinality(Q \cap D)
      BY <3>0, FS_Union, Zenon
    <3>3. Cardinality({}) = 0 /\ Cardinality(Q) \in Nat /\ Cardinality(D) \in Nat
      BY <3>0, FS_EmptySet, FS_CardinalityType
    <3>5. Cardinality(P) = Cardinality(Q) + Cardinality(D) - Cardinality({})
      BY <3>1, <3>2, Zenon
    <3>4. Cardinality(P) = Cardinality(Q) + Cardinality(D)
      BY <3>3, <3>5
    <3> QED BY <3>4 DEF Q
  <2> QED BY <2>1, <2>2, <2>3, <2>5
<1>6. ASSUME NEW u \in DOMAIN Scan(s).subsets
      PROVE  Scan(s).subsets[u] = Cardinality({t \in Manifest(s).samples : t.subset = u})
  <2> DEFINE I == {i \in P : SubsetFor(s[i].name) = u}
  <2>1. Scan(s).subsets[u] = Cardinality(I)
    BY <1>6 DEF Scan
  <2>2. {t \in Manifest(s).samples : t.subset = u} = SamplesAt(s, labels, I)
    <3> HIDE DEF P
    <3> QED BY <1>2, <1>3 DEF SamplesAt
  <2>3. Cardinality(SamplesAt(s, labels, I)) = Cardinality(I)
    <3>1. I \in SUBSET P
      OBVIOUS
    <3> HIDE DEF I
    <3> QED BY <3>1, SamplesCounted
  <2> QED BY <2>1, <2>2, <2>3
<1>7. ASSUME Kinds(s, {"other"}) = {}, NEW t \in Manifest(s).samples
      PROVE  \E p \in Scan(s).pairs : MatchKey(p[1]) = MatchKey(t.name) /\ p[2] = t.annotation
  <2>1. PICK i \in P : t = Resolved(ReadSample(s, s[i].name), labels)
    BY <1>2 DEF SamplesAt
  <2> DEFINE k == KeyAt(s, i)
             p == <<LastWith(s, P, k), LastWith(s, Positions(s, AnnotationSuffixes), k)>>
  <2>2. p \in Scan(s).pairs
    BY DEF Scan
  <2>3. MatchKey(LastWith(s, P, k)) = MatchKey(s[i].name)
    BY <1>4, KeyOfLast DEF KeyAt
  <2>4. t.annotation = LastWith(s, AnnotationFiles(s), k) /\ t.name = s[i].name
    <3> HIDE DEF P
    <3> QED BY <1>3, <2>1 DEF AnnotationOf, KeyAt
  <2>5. AnnotationFiles(s) = Positions(s, AnnotationSuffixes)
    BY <1>7, SameAnnotationFiles
  <2>6. MatchKey(p[1]) = MatchKey(t.name) /\ p[2] = t.annotation
    <3> HIDE DEF P, k
    <3> QED BY <2>3, <2>4, <2>5
  <2> QED BY <2>2, <2>6
<1> QED BY <1>5, <1>6, <1>7

LEMMA ScanPredicted == Packed => ScanPredictsImport
<1> SUFFICES ASSUME Packed, Accepted(archive), Kinds(files, {"coco"}) = {} PROVE ScanPredictsImport
  BY DEF ScanPredictsImport, Documents
<1>1. Sound(files, Len(archive))
  BY AcceptedFiles
<1>2. PICK s, n : s = files /\ n = Len(archive)
  OBVIOUS
<1>3. Sound(s, n) /\ Kinds(s, {"coco"}) = {}
  BY <1>1, <1>2
<1>4. /\ manifest = Manifest(s) /\ scan = Scan(s) /\ Documents({"other"}) = Kinds(s, {"other"})
      /\ Duplicates = {i \in Scan(s).issues : i.code = "duplicate_image_stem"}
  BY <1>2 DEF manifest, scan, Documents, Duplicates
<1> DEFINE Predicted(m, c, d, o) ==
             /\ Cardinality(m.samples) = c.images + Cardinality(d)
             /\ \A u \in DOMAIN c.subsets :
                  c.subsets[u] = Cardinality({t \in m.samples : t.subset = u})
             /\ o = {} =>
                  \A t \in m.samples :
                    \E p \in c.pairs : MatchKey(p[1]) = MatchKey(t.name) /\ p[2] = t.annotation
<1>5. Predicted(Manifest(s), Scan(s), {i \in Scan(s).issues : i.code = "duplicate_image_stem"},
                Kinds(s, {"other"}))
  BY <1>3, ScanPredictedOf
<1>6. Predicted(manifest, scan, Duplicates, Documents({"other"}))
  <2> HIDE DEF Predicted
  <2> QED BY <1>4, <1>5
<1> QED BY <1>6 DEF ScanPredictsImport

\* The preview of the scan counts, per subset too, the samples that the import
\* creates, and pairs them with the annotation files that the import reads.
THEOREM ScanPredicts == Spec => []ScanPredictsImport
<1>1. Init => Packed
  BY PackedInit
<1>2. Packed /\ [Next]_archive => Packed'
  BY PackedStep
<1>3. Packed => ScanPredictsImport
  BY ScanPredicted
<1> QED BY <1>1, <1>2, <1>3, PTL DEF Spec

-----------------------------------------------------------------------------
(* The classes of annotations.                                             *)

IsAnnotation(a) == a = [class |-> a.class, name |-> a.name, box |-> a.box, polygon |-> a.polygon,
                        keypoints |-> a.keypoints, space |-> a.space]

LEMMA ImageFinite ==
  ASSUME NEW S, IsFiniteSet(S), NEW T, NEW g \in [S -> T], \A t \in T : \E i \in S : g[i] = t
  PROVE  IsFiniteSet(T)
<1>1. g \in Surjection(S, T)
  BY DEF Surjection
<1> QED BY <1>1, FS_Surjection

\* with_resolved_labels: what changes is the class.
LEMMA ResolvedIs ==
  ASSUME NEW t, NEW labels, "annotations" \in DOMAIN t, t = [x \in DOMAIN t |-> t[x]],
         DOMAIN labels \in SUBSET Int, IsFiniteSet(DOMAIN labels),
         \A b \in ToSet(t.annotations) : IsAnnotation(b),
         NEW a \in ToSet(Resolved(t, labels).annotations)
  PROVE  \E b \in ToSet(t.annotations) :
           /\ a.name = b.name /\ a.box = b.box /\ a.polygon = b.polygon /\ a.keypoints = b.keypoints
           /\ IF \E c \in DOMAIN labels : labels[c] = b.name
              THEN a.class \in DOMAIN labels /\ labels[a.class] = b.name
              ELSE a.class = b.class
<1> DEFINE Classes(b) == {c \in DOMAIN labels : labels[c] = b.name}
           ClassOf(b) == IF Classes(b) = {} THEN b.class
                         ELSE CHOOSE c \in Classes(b) : \A d \in Classes(b) : d <= c
           Resolve(b) == [b EXCEPT !.class = ClassOf(b)]
           all == [i \in DOMAIN t.annotations |-> Resolve(t.annotations[i])]
<1>1. Resolved(t, labels) = [t EXCEPT !.annotations = all]
  BY DEF Resolved
<1>2. Resolved(t, labels).annotations = all
  <2> HIDE DEF all
  <2> QED BY <1>1
<1>3. PICK b \in ToSet(t.annotations) : a = Resolve(b)
  <2> HIDE DEF Resolve
  <2> QED BY <1>2 DEF ToSet
<1> DEFINE c == ClassOf(b)
<1>4. \/ Classes(b) = {} /\ c = b.class
      \/ Classes(b) # {} /\ c \in Classes(b)
  <2>1. CASE Classes(b) # {}
    <3> DEFINE C == Classes(b)
    <3>1. C \in SUBSET Int /\ IsFiniteSet(C)
      BY FS_Subset
    <3>2. C # {} /\ c = CHOOSE x \in C : \A d \in C : d <= x
      BY <2>1
    <3> HIDE DEF C, c
    <3>3. c \in C
      BY <3>1, <3>2, Highest
    <3> QED BY <2>1, <3>3 DEF C
  <2> QED BY <2>1
<1>5. a = [b EXCEPT !.class = c]
  BY <1>3
<1> HIDE DEF c
<1>6. a.class = c /\ a.name = b.name /\ a.box = b.box /\ a.polygon = b.polygon /\ a.keypoints = b.keypoints
  BY <1>5 DEF IsAnnotation
<1> QED BY <1>4, <1>6

-----------------------------------------------------------------------------
(* What annotations are read from.                                          *)

LEMMA DataIs ==
  ASSUME NEW s, NEW n, Sound(s, n), NEW i \in 1..n
  PROVE  LET d == s[i].data IN
         /\ d.kind = "yaml" => IsFiniteSet(DOMAIN d.labels) /\ DOMAIN d.labels \subseteq Nat
         /\ d.kind = "yolo" => IsSequence(d.lines)
              /\ \A l \in ToSet(d.lines) : /\ l.class \in Int /\ IsSequence(l.coords)
                                           /\ Len(l.coords) >= 4 => DefaultName(l.class) \in ToSet(ClassNames)
         /\ d.kind = "labelme" => IsSequence(d.shapes)
              /\ \A x \in ToSet(d.shapes) : x.label \in ToSet(ClassNames)
         /\ d.kind = "voc" => IsSequence(d.objects)
              /\ \A o \in ToSet(d.objects) : o.name \in ToSet(ClassNames)
         /\ d.kind = "coco" => IsSequence(d.annotations)
<1>1. PICK g \in Files : s[i].data = g.data
  BY DEF Sound, ReadFrom
<1> QED BY <1>1, FilesAreRead, NamesAreListed

DrawnAs(a, class, name, space, box, polygon, keypoints) ==
  a = [Annotation(class, name, space) EXCEPT !.box = box, !.polygon = polygon,
                                             !.keypoints = keypoints]

LEMMA AnnotationIs ==
  ASSUME NEW class, NEW name, NEW space, NEW box, NEW polygon, NEW keypoints,
         NEW a, DrawnAs(a, class, name, space, box, polygon, keypoints)
  PROVE  /\ IsAnnotation(a) /\ a.class = class /\ a.name = name
         /\ a.box = box /\ a.polygon = polygon /\ a.keypoints = keypoints
  BY DEF Annotation, IsAnnotation, DrawnAs

LEMMA LineIs ==
  ASSUME NEW line, NEW labels, NEW pose, IsSequence(line.coords), Len(line.coords) >= 4
  PROVE  LET a == FromLine(line, labels, pose) IN
         /\ IsAnnotation(a) /\ a.class = line.class /\ a.name = NameIn(labels, line.class)
         /\ a.box # << >> \/ a.polygon # << >>
<1> DEFINE n == Len(line.coords)
           new == Annotation(line.class, NameIn(labels, line.class), "normalized")
           isPose == pose /\ n >= 7 /\ (n - 4) % 3 = 0
           four == SubSeq(line.coords, 1, 4)
           points == Groups(SubSeq(line.coords, 5, n), 3)
           outline == Groups(line.coords, 2)
           a == FromLine(line, labels, pose)
<1>1. \/ a = [new EXCEPT !.box = four, !.keypoints = points]
      \/ a = [new EXCEPT !.polygon = outline]
      \/ a = [new EXCEPT !.box = four]
  BY DEF FromLine
<1>2. n \in Nat /\ \A i \in 1..n : line.coords[i] \in ToSet(line.coords)
  BY SequenceIs
<1>3. four # << >>
  <2>1. \A i \in 1..4 : line.coords[i] \in ToSet(line.coords)
    BY <1>2
  <2>2. Len(four) = 4
    BY <2>1, SubSeqProperties
  <2>3. Len(<< >>) = 0
    BY EmptySeq
  <2> HIDE DEF four
  <2> QED BY <2>2, <2>3
<1>4. outline # << >>
  <2> DEFINE half == n \div 2
  <2>0. \A m \in Nat : m >= 4 => m \div 2 \in Nat /\ m \div 2 >= 1
    OBVIOUS
  <2>1. half \in Nat /\ half >= 1
    <3> HIDE DEF n
    <3> QED BY <1>2, <2>0, n >= 4 DEF n
  <2>2. 1 \in DOMAIN outline
    <3>1. DOMAIN outline = 1..half
      BY DEF Groups
    <3> HIDE DEF outline, half
    <3> QED BY <2>1, <3>1
  <2>3. DOMAIN << >> = {}
    OBVIOUS
  <2> HIDE DEF outline
  <2> QED BY <2>2, <2>3
<1>5. new.class = line.class /\ new.name = NameIn(labels, line.class) /\ IsAnnotation(new)
  BY DEF Annotation, IsAnnotation
<1> HIDE DEF new, four, points, outline, a, n
<1>6. ASSUME a = [new EXCEPT !.box = four, !.keypoints = points]
      PROVE  IsAnnotation(a) /\ a.class = new.class /\ a.name = new.name /\ a.box = four
  BY <1>5, <1>6 DEF IsAnnotation
<1>7. ASSUME a = [new EXCEPT !.polygon = outline]
      PROVE  IsAnnotation(a) /\ a.class = new.class /\ a.name = new.name /\ a.polygon = outline
  BY <1>5, <1>7 DEF IsAnnotation
<1>8. ASSUME a = [new EXCEPT !.box = four]
      PROVE  IsAnnotation(a) /\ a.class = new.class /\ a.name = new.name /\ a.box = four
  BY <1>5, <1>8 DEF IsAnnotation
<1>9. IsAnnotation(a) /\ a.class = line.class /\ a.name = NameIn(labels, line.class)
        /\ (a.box # << >> \/ a.polygon # << >>)
  BY <1>1, <1>3, <1>4, <1>5, <1>6, <1>7, <1>8
<1> QED BY <1>9 DEF a

LEMMA ShapeIs ==
  ASSUME NEW shape
  PROVE  LET a == FromShape(shape) IN
         /\ IsAnnotation(a) /\ a.class = -1 /\ a.name = shape.label
         /\ shape.points # << >> => a.box # << >> \/ a.polygon # << >> \/ a.keypoints # << >>
<1> DEFINE new == Annotation(-1, shape.label, "pixels")
           a == FromShape(shape)
<1>1. \/ \E w, x, y, z : a = [new EXCEPT !.box = <<w, x, y, z>>]
      \/ \E x : a = [new EXCEPT !.keypoints = <<x>>]
      \/ a = [new EXCEPT !.polygon = shape.points]
  BY DEF FromShape
<1>2. new.class = -1 /\ new.name = shape.label /\ IsAnnotation(new)
  BY DEF Annotation, IsAnnotation
<1> HIDE DEF new, a
<1>3. ASSUME NEW w, NEW x, NEW y, NEW z, a = [new EXCEPT !.box = <<w, x, y, z>>]
      PROVE  IsAnnotation(a) /\ a.class = -1 /\ a.name = shape.label /\ a.box # << >>
  BY <1>2, <1>3 DEF IsAnnotation
<1>4. ASSUME NEW x, a = [new EXCEPT !.keypoints = <<x>>]
      PROVE  IsAnnotation(a) /\ a.class = -1 /\ a.name = shape.label /\ a.keypoints # << >>
  BY <1>2, <1>4 DEF IsAnnotation
<1>5. ASSUME a = [new EXCEPT !.polygon = shape.points]
      PROVE  IsAnnotation(a) /\ a.class = -1 /\ a.name = shape.label /\ a.polygon = shape.points
  BY <1>2, <1>5 DEF IsAnnotation
<1>6. /\ IsAnnotation(a) /\ a.class = -1 /\ a.name = shape.label
      /\ shape.points # << >> => a.box # << >> \/ a.polygon # << >> \/ a.keypoints # << >>
  BY <1>1, <1>3, <1>4, <1>5
<1> QED BY <1>6 DEF a

LEMMA ObjectIs ==
  ASSUME NEW object
  PROVE  LET a == FromObject(object) IN
         IsAnnotation(a) /\ a.class = -1 /\ a.name = object.name /\ a.box # << >>
<1> DEFINE new == Annotation(-1, object.name, "pixels")
           a == FromObject(object)
<1>1. \E w, x, y, z : a = [new EXCEPT !.box = <<w, x, y, z>>]
  BY DEF FromObject
<1>2. new.class = -1 /\ new.name = object.name /\ IsAnnotation(new)
  BY DEF Annotation, IsAnnotation
<1> HIDE DEF new, a
<1>3. ASSUME NEW w, NEW x, NEW y, NEW z, a = [new EXCEPT !.box = <<w, x, y, z>>]
      PROVE  IsAnnotation(a) /\ a.class = -1 /\ a.name = object.name /\ a.box # << >>
  BY <1>2, <1>3 DEF IsAnnotation
<1>4. IsAnnotation(a) /\ a.class = -1 /\ a.name = object.name /\ a.box # << >>
  BY <1>1, <1>3
<1> QED BY <1>4 DEF a

\* What an annotation is read from.
FromLineOf(d, labels, pose, a) ==
  /\ d.kind = "yolo"
  /\ \E l \in ToSet(d.lines) : Len(l.coords) >= 4 /\ a = FromLine(l, labels, pose)
FromShapeOf(d, a) == d.kind = "labelme" /\ \E x \in ToSet(d.shapes) : a = FromShape(x)
FromObjectOf(d, a) == d.kind = "voc" /\ \E o \in ToSet(d.objects) : a = FromObject(o)
DrawnIn(d, labels, pose, a) ==
  FromLineOf(d, labels, pose, a) \/ FromShapeOf(d, a) \/ FromObjectOf(d, a)
AllDrawn(s, n, labels, pose, as) ==
  /\ IsFiniteSet(DOMAIN as)
  /\ \A a \in ToSet(as) : \E i \in 1..n : DrawnIn(s[i].data, labels, pose, a)

LEMMA SequenceFinite ==
  ASSUME NEW S, NEW s \in Seq(S)
  PROVE  IsFiniteSet(DOMAIN s)
<1>1. Len(s) \in Nat /\ DOMAIN s = 1..Len(s)
  BY LenProperties
<1> QED BY <1>1, FS_Interval

LEMMA YoloParsed ==
  ASSUME NEW d, NEW labels, NEW pose, IsSequence(d.lines)
  PROVE  /\ IsFiniteSet(DOMAIN ParseYolo(d, labels, pose))
         /\ \A a \in ToSet(ParseYolo(d, labels, pose)) :
              \E l \in ToSet(d.lines) : Len(l.coords) >= 4 /\ a = FromLine(l, labels, pose)
<1> DEFINE S == {l \in ToSet(d.lines) : Len(l.coords) >= 4}
           lines == Only(d.lines, S)
           all == [i \in DOMAIN lines |-> FromLine(lines[i], labels, pose)]
<1>1. lines \in Seq(S)
  <2> HIDE DEF S
  <2> QED BY OnlyKeeps
<1>2. DOMAIN lines = 1..Len(lines) /\ \A i \in 1..Len(lines) : lines[i] \in S
  <2> HIDE DEF lines, S
  <2> QED BY <1>1, LenProperties, ElementOfSeq
<1>3. ParseYolo(d, labels, pose) = all
  BY DEF ParseYolo
<1>4. IsFiniteSet(DOMAIN all)
  <2> HIDE DEF lines, S
  <2> QED BY <1>1, SequenceFinite
<1>5. ASSUME NEW a \in ToSet(all)
      PROVE  \E l \in ToSet(d.lines) : Len(l.coords) >= 4 /\ a = FromLine(l, labels, pose)
  <2>1. PICK i \in DOMAIN lines : a = FromLine(lines[i], labels, pose)
    <3> HIDE DEF lines
    <3> QED BY DEF ToSet
  <2>2. lines[i] \in S
    BY <1>2
  <2> QED BY <2>1, <2>2
<1> HIDE DEF all
<1> QED BY <1>3, <1>4, <1>5

LEMMA ShapesParsed ==
  ASSUME NEW d, IsSequence(d.shapes)
  PROVE  /\ IsFiniteSet(DOMAIN ParseLabelme(d))
         /\ \A a \in ToSet(ParseLabelme(d)) : \E x \in ToSet(d.shapes) : a = FromShape(x)
<1>1. IsFiniteSet(DOMAIN d.shapes)
  BY SequenceFinite DEF IsSequence
<1> QED BY <1>1 DEF ParseLabelme, ToSet

LEMMA ObjectsParsed ==
  ASSUME NEW d, IsSequence(d.objects)
  PROVE  /\ IsFiniteSet(DOMAIN ParseVoc(d))
         /\ \A a \in ToSet(ParseVoc(d)) : \E o \in ToSet(d.objects) : a = FromObject(o)
<1> DEFINE S == {o \in ToSet(d.objects) : o.corners # << >>}
           boxed == Only(d.objects, S)
           all == [i \in DOMAIN boxed |-> FromObject(boxed[i])]
<1>1. boxed \in Seq(S)
  <2> HIDE DEF S
  <2> QED BY OnlyKeeps
<1>2. DOMAIN boxed = 1..Len(boxed) /\ \A i \in 1..Len(boxed) : boxed[i] \in S
  <2> HIDE DEF boxed, S
  <2> QED BY <1>1, LenProperties, ElementOfSeq
<1>3. ParseVoc(d) = all
  BY DEF ParseVoc
<1>4. IsFiniteSet(DOMAIN all)
  <2> HIDE DEF boxed, S
  <2> QED BY <1>1, SequenceFinite
<1>5. ASSUME NEW a \in ToSet(all) PROVE \E o \in ToSet(d.objects) : a = FromObject(o)
  <2>1. PICK i \in DOMAIN boxed : a = FromObject(boxed[i])
    <3> HIDE DEF boxed
    <3> QED BY DEF ToSet
  <2>2. boxed[i] \in S
    BY <1>2
  <2> QED BY <2>1, <2>2
<1> HIDE DEF all
<1> QED BY <1>3, <1>4, <1>5

\* Files that may be an annotation are of a kind that the code reads.
LEMMA AnnotationKinds ==
  ASSUME NEW s, NEW n, Sound(s, n), NEW i \in AnnotationFiles(s)
  PROVE  i \in 1..n /\ s[i].data.kind \in {"yolo", "names", "voc", "labelme", "broken"}
<1>1. i \in 1..n
  BY DEF AnnotationFiles, Positions, Sound
<1>2. s[i].data.kind \in KindsOf(s[i].name.suffix)
  BY <1>1, SuffixOfKind
<1>3. \/ s[i].name.suffix \in {".txt", ".xml"}
      \/ s[i].data.kind \in {"labelme", "broken"}
  BY DEF AnnotationFiles, Positions, Kinds, Is
<1>4. CASE s[i].name.suffix = ".txt"
  BY <1>1, <1>2, <1>4 DEF KindsOf, ImageSuffixes
<1>5. CASE s[i].name.suffix = ".xml"
  BY <1>1, <1>2, <1>5 DEF KindsOf, ImageSuffixes
<1> QED BY <1>1, <1>3, <1>4, <1>5

LEMMA ParsedDrawn ==
  ASSUME NEW s, NEW n, Sound(s, n), NEW labels, NEW pose, NEW i \in AnnotationFiles(s)
  PROVE  AllDrawn(s, n, labels, pose, Parsed(s[i], labels, pose))
<1> DEFINE as == Parsed(s[i], labels, pose)
           d == s[i].data
<1>1. i \in 1..n /\ d.kind \in {"yolo", "names", "voc", "labelme", "broken"}
  BY AnnotationKinds
<1>2. CASE d.kind \in {"names", "broken"}
  <2>1. as = << >>
    BY <1>2 DEF Parsed
  <2>2. IsFiniteSet(DOMAIN << >>) /\ ToSet(<< >>) = {}
    BY FS_EmptySet DEF ToSet
  <2> QED BY <2>1, <2>2 DEF AllDrawn
<1>3. CASE d.kind = "yolo"
  <2>1. as = ParseYolo(d, labels, pose)
    BY <1>3 DEF Parsed
  <2>2. IsSequence(d.lines)
    BY <1>1, <1>3, DataIs
  <2>3. /\ IsFiniteSet(DOMAIN as)
        /\ \A a \in ToSet(as) :
              \E l \in ToSet(d.lines) : Len(l.coords) >= 4 /\ a = FromLine(l, labels, pose)
    <3> HIDE DEF d
    <3> QED BY <2>1, <2>2, YoloParsed
  <2> HIDE DEF as
  <2>4. AllDrawn(s, n, labels, pose, as)
    BY <1>1, <1>3, <2>3 DEF AllDrawn, DrawnIn, FromLineOf
  <2> QED BY <2>4 DEF as
<1>4. CASE d.kind = "labelme"
  <2>1. as = ParseLabelme(d)
    BY <1>4 DEF Parsed
  <2>2. IsSequence(d.shapes)
    BY <1>1, <1>4, DataIs
  <2>3. /\ IsFiniteSet(DOMAIN as)
        /\ \A a \in ToSet(as) : \E x \in ToSet(d.shapes) : a = FromShape(x)
    <3> HIDE DEF d
    <3> QED BY <2>1, <2>2, ShapesParsed
  <2> HIDE DEF as
  <2>4. AllDrawn(s, n, labels, pose, as)
    BY <1>1, <1>4, <2>3 DEF AllDrawn, DrawnIn, FromShapeOf
  <2> QED BY <2>4 DEF as
<1>5. CASE d.kind = "voc"
  <2>1. as = ParseVoc(d)
    BY <1>5 DEF Parsed
  <2>2. IsSequence(d.objects)
    BY <1>1, <1>5, DataIs
  <2>3. /\ IsFiniteSet(DOMAIN as)
        /\ \A a \in ToSet(as) : \E o \in ToSet(d.objects) : a = FromObject(o)
    <3> HIDE DEF d
    <3> QED BY <2>1, <2>2, ObjectsParsed
  <2> HIDE DEF as
  <2>4. AllDrawn(s, n, labels, pose, as)
    BY <1>1, <1>5, <2>3 DEF AllDrawn, DrawnIn, FromObjectOf
  <2> QED BY <2>4 DEF as
<1> QED BY <1>1, <1>2, <1>3, <1>4, <1>5

LEMMA LastIsOf ==
  ASSUME NEW s, NEW n, Sound(s, n), NEW I \in SUBSET (1..n), NEW k, LastWith(s, I, k) # NoFile
  PROVE  \E i \in I : LastWith(s, I, k) = s[i].name
<1> DEFINE found == {j \in I : KeyAt(s, j) = k}
           Newest(j) == \A m \in found : m <= j
           last == CHOOSE j \in found : Newest(j)
<1>1. found # {} /\ LastWith(s, I, k) = s[last].name
  BY DEF LastWith
<1>2. n \in Nat /\ found \subseteq 0..n
  <2>1. n \in Nat /\ 1..n \subseteq 0..n
    BY DEF Sound
  <2>2. found \subseteq I
    OBVIOUS
  <2> HIDE DEF found
  <2> QED BY <2>1, <2>2
<1>3. \E j \in found : Newest(j)
  <2> HIDE DEF found
  <2> QED BY <1>1, <1>2, Greatest
<1>4. last \in found
  <2> HIDE DEF found, Newest
  <2> QED BY <1>3
<1> QED BY <1>1, <1>4

LEMMA SampleRead ==
  ASSUME NEW s, NEW n, Sound(s, n), NEW m
  PROVE  LET t == ReadSample(s, m) IN
         /\ \E a, y, as, z : t = Sample(m, a, y, as, z)
         /\ t.annotation \in NamesAt(s, 1..n) \cup {NoFile}
         /\ AllDrawn(s, n, ConfiguredLabels(s), PoseOf(s), t.annotations)
<1> DEFINE name == AnnotationOf(s, m)
           labels == ConfiguredLabels(s)
           pose == PoseOf(s)
           t == ReadSample(s, m)
<1>1. CASE name = NoFile
  <2>1. t = Sample(m, NoFile, DetectParser(s), << >>, <<0, 0>>)
    BY <1>1 DEF ReadSample
  <2>2. AllDrawn(s, n, labels, pose, << >>)
    <3>1. IsFiniteSet(DOMAIN << >>) /\ ToSet(<< >>) = {}
      BY FS_EmptySet DEF ToSet
    <3> QED BY <3>1 DEF AllDrawn
  <2> HIDE DEF t, labels, pose
  <2>3. t.annotation = NoFile /\ t.annotations = << >>
    BY <2>1 DEF Sample
  <2>4. /\ \E a, y, as, z : t = Sample(m, a, y, as, z)
        /\ t.annotation \in NamesAt(s, 1..n) \cup {NoFile}
        /\ AllDrawn(s, n, labels, pose, t.annotations)
    BY <2>1, <2>2, <2>3
  <2> QED BY <2>4 DEF t, labels, pose
<1>2. CASE name # NoFile
  <2>1. AnnotationFiles(s) \in SUBSET (1..n)
    BY AnnotationKinds
  <2>2. PICK i \in AnnotationFiles(s) : name = s[i].name
    BY <1>2, <2>1, LastIsOf DEF AnnotationOf
  <2>3. FileOf(s, name) = s[i]
    BY <2>1, <2>2 DEF FileOf, Sound
  <2>4. t = Sample(m, name, TypeOf(s[i]), Parsed(s[i], labels, pose), SizeOf(s[i]))
    BY <1>2, <2>3 DEF ReadSample
  <2>5. AllDrawn(s, n, labels, pose, Parsed(s[i], labels, pose))
    BY ParsedDrawn
  <2> HIDE DEF t, labels, pose, name
  <2>6. t.annotation = name /\ t.annotations = Parsed(s[i], labels, pose)
    BY <2>4 DEF Sample
  <2>7. name \in NamesAt(s, 1..n)
    BY <2>1, <2>2 DEF NamesAt
  <2>8. /\ \E a, y, as, z : t = Sample(m, a, y, as, z)
        /\ t.annotation \in NamesAt(s, 1..n) \cup {NoFile}
        /\ AllDrawn(s, n, labels, pose, t.annotations)
    BY <2>4, <2>5, <2>6, <2>7
  <2> QED BY <2>8 DEF t, labels, pose
<1> QED BY <1>1, <1>2

-----------------------------------------------------------------------------
(* Labels.                                                                  *)

Found(s) == AnnotationsOf(SamplesRead(s))

LEMMA ConfiguredAre ==
  ASSUME NEW s, NEW n, Sound(s, n)
  PROVE  DOMAIN ConfiguredLabels(s) \in SUBSET Nat /\ IsFiniteSet(DOMAIN ConfiguredLabels(s))
<1> DEFINE I == ConfigurationsOf(s)
<1>1. CASE I = {}
  <2>1. DOMAIN [c \in {} |-> ""] = {}
    OBVIOUS
  <2> QED BY <1>1, <2>1, FS_EmptySet DEF ConfiguredLabels
<1>2. CASE I # {}
  <2>1. I \in SUBSET (1..n) /\ n \in Nat
    BY DEF Sound, ConfigurationsOf
  <2>2. I \in SUBSET Nat
    BY <2>1
  <2>3. First(I) \in I
    <3> HIDE DEF I
    <3>1. \E i \in I : \A j \in I : i <= j
      BY <1>2, <2>2, Smallest
    <3> QED BY <3>1 DEF First
  <2> PICK i : i = First(I)
    OBVIOUS
  <2>4. i \in 1..n /\ s[i].name.suffix = ".yaml"
    BY <2>1, <2>3 DEF ConfigurationsOf, Is
  <2>5. s[i].data.kind \in KindsOf(".yaml")
    BY <2>4, SuffixOfKind
  <2>6. s[i].data.kind = "yaml"
    BY <2>5 DEF KindsOf, ImageSuffixes
  <2>7. IsFiniteSet(DOMAIN s[i].data.labels) /\ DOMAIN s[i].data.labels \subseteq Nat
    BY <2>4, <2>6, DataIs
  <2> QED BY <1>2, <2>7 DEF ConfiguredLabels
<1> QED BY <1>1, <1>2

\* An annotation that was read, with what it was read from.
LEMMA FoundDrawn ==
  ASSUME NEW s, NEW n, Sound(s, n), NEW a \in Found(s)
  PROVE  \E i \in 1..n : DrawnIn(s[i].data, ConfiguredLabels(s), PoseOf(s), a)
<1>1. PICK m \in ImagesOf(s) : a \in ToSet(ReadSample(s, m).annotations)
  BY DEF Found, AnnotationsOf, SamplesRead
<1>2. AllDrawn(s, n, ConfiguredLabels(s), PoseOf(s), ReadSample(s, m).annotations)
  BY SampleRead
<1> QED BY <1>1, <1>2 DEF AllDrawn

LEMMA FoundIs ==
  ASSUME NEW s, NEW n, Sound(s, n), NEW a \in Found(s)
  PROVE  /\ IsAnnotation(a) /\ a.class \in Int
         /\ \/ a.name \in ToSet(ClassNames) /\ Kinds(s, {"labelme", "voc"}) # {}
            \/ /\ a.name = NameIn(ConfiguredLabels(s), a.class)
               /\ DefaultName(a.class) \in ToSet(ClassNames)
<1>1. PICK i \in 1..n : DrawnIn(s[i].data, ConfiguredLabels(s), PoseOf(s), a)
  BY FoundDrawn
<1> DEFINE d == s[i].data
<1>2. CASE FromLineOf(d, ConfiguredLabels(s), PoseOf(s), a)
  <2>1. PICK l \in ToSet(d.lines) : Len(l.coords) >= 4 /\ a = FromLine(l, ConfiguredLabels(s), PoseOf(s))
    BY <1>2 DEF FromLineOf
  <2>2. l.class \in Int /\ IsSequence(l.coords) /\ DefaultName(l.class) \in ToSet(ClassNames)
    BY <1>2, <2>1, DataIs DEF FromLineOf
  <2>3. IsAnnotation(a) /\ a.class = l.class /\ a.name = NameIn(ConfiguredLabels(s), l.class)
    BY <2>1, <2>2, LineIs
  <2> QED BY <2>2, <2>3
<1>3. CASE FromShapeOf(d, a)
  <2>1. PICK x \in ToSet(d.shapes) : a = FromShape(x)
    BY <1>3 DEF FromShapeOf
  <2>2. x.label \in ToSet(ClassNames)
    BY <1>3, <2>1, DataIs DEF FromShapeOf
  <2>3. IsAnnotation(a) /\ a.class = -1 /\ a.name = x.label
    BY <2>1, ShapeIs
  <2>4. i \in Kinds(s, {"labelme", "voc"})
    BY <1>3 DEF FromShapeOf, Kinds, Sound
  <2> QED BY <2>2, <2>3, <2>4
<1>4. CASE FromObjectOf(d, a)
  <2>1. PICK x \in ToSet(d.objects) : a = FromObject(x)
    BY <1>4 DEF FromObjectOf
  <2>2. x.name \in ToSet(ClassNames)
    BY <1>4, <2>1, DataIs DEF FromObjectOf
  <2>3. IsAnnotation(a) /\ a.class = -1 /\ a.name = x.name
    BY <2>1, ObjectIs
  <2>4. i \in Kinds(s, {"labelme", "voc"})
    BY <1>4 DEF FromObjectOf, Kinds, Sound
  <2> QED BY <2>2, <2>3, <2>4
<1> QED BY <1>1, <1>2, <1>3, <1>4 DEF DrawnIn

LEMMA ToSetFinite ==
  ASSUME NEW as, IsFiniteSet(DOMAIN as)
  PROVE  IsFiniteSet(ToSet(as))
<1> DEFINE g == [i \in DOMAIN as |-> as[i]]
<1>1. g \in [DOMAIN as -> ToSet(as)] /\ \A a \in ToSet(as) : \E i \in DOMAIN as : g[i] = a
  BY DEF ToSet
<1> HIDE DEF g
<1> QED BY <1>1, ImageFinite

ClassesOf(A) == {a.class : a \in A}

LEMMA FoundFinite ==
  ASSUME NEW s, NEW n, Sound(s, n)
  PROVE  IsFiniteSet(ClassesOf(Found(s)))
<1> DEFINE P == Positions(s, ImageSuffixes)
           Of(i) == ToSet(ReadSample(s, s[i].name).annotations)
           F == {Of(i) : i \in P}
           g == [i \in P |-> Of(i)]
<1>1. IsFiniteSet(P)
  <2>1. P \in SUBSET (1..n)
    BY DEF Positions, Sound
  <2> HIDE DEF P
  <2> QED BY <2>1, FinitePositions
<1>2. IsFiniteSet(F)
  <2>1. g \in [P -> F] /\ \A f \in F : \E i \in P : g[i] = f
    <3> HIDE DEF Of, P
    <3> QED OBVIOUS
  <2> HIDE DEF g, F, P
  <2> QED BY <1>1, <2>1, ImageFinite
<1>3. \A f \in F : IsFiniteSet(f)
  <2> SUFFICES ASSUME NEW i \in P PROVE IsFiniteSet(Of(i))
    OBVIOUS
  <2>1. IsFiniteSet(DOMAIN ReadSample(s, s[i].name).annotations)
    BY SampleRead DEF AllDrawn
  <2> QED BY <2>1, ToSetFinite
<1>4. Found(s) = UNION F
  <2>1. SamplesRead(s) = {ReadSample(s, s[i].name) : i \in P}
    BY DEF SamplesRead, ImagesOf, NamesAt
  <2> QED BY <2>1 DEF Found, AnnotationsOf
<1>5. IsFiniteSet(Found(s))
  <2> HIDE DEF F
  <2> QED BY <1>2, <1>3, <1>4, FS_UNION
<1> DEFINE h == [a \in Found(s) |-> a.class]
<1>6. /\ h \in [Found(s) -> ClassesOf(Found(s))]
      /\ \A c \in ClassesOf(Found(s)) : \E a \in Found(s) : h[a] = c
  BY DEF ClassesOf
<1> HIDE DEF h
<1> QED BY <1>5, <1>6, ImageFinite

LEMMA NumberedAre ==
  ASSUME NEW s
  PROVE  /\ DOMAIN NumberedLabels(SamplesRead(s)) \in SUBSET Nat
         /\ IsFiniteSet(DOMAIN NumberedLabels(SamplesRead(s)))
         /\ \A a \in Found(s) : a.name \in ToSet(ClassNames) =>
              \E c \in DOMAIN NumberedLabels(SamplesRead(s)) : NumberedLabels(SamplesRead(s))[c] = a.name
<1> DEFINE N == {a.name : a \in Found(s)}
           names == Only(ClassNames, N)
           labels == NumberedLabels(SamplesRead(s))
<1>1. labels = [c \in 0..(Len(names) - 1) |-> names[c + 1]]
  BY DEF NumberedLabels, Found
<1>2. names \in Seq(N) /\ ToSet(names) = ToSet(ClassNames) \cap N
  <2> HIDE DEF N
  <2> QED BY OnlyKeeps, NamesAreListed
<1> HIDE DEF names, labels
<1>3. Len(names) \in Nat /\ DOMAIN names = 1..Len(names)
  <2> HIDE DEF N
  <2> QED BY <1>2, LenProperties
<1>4. DOMAIN labels \in SUBSET Nat /\ IsFiniteSet(DOMAIN labels)
  <2>1. DOMAIN labels = 0..(Len(names) - 1) /\ Len(names) - 1 \in Int
    BY <1>1, <1>3
  <2>2. IsFiniteSet(0..(Len(names) - 1))
    BY <2>1, FS_Interval
  <2> QED BY <2>1, <2>2
<1>5. ASSUME NEW a \in Found(s), a.name \in ToSet(ClassNames)
      PROVE  \E c \in DOMAIN labels : labels[c] = a.name
  <2>1. a.name \in ToSet(names)
    BY <1>2, <1>5
  <2>2. PICK k \in 1..Len(names) : names[k] = a.name
    BY <1>3, <2>1 DEF ToSet
  <2>3. k - 1 \in 0..(Len(names) - 1) /\ (k - 1) + 1 = k
    BY <1>3
  <2> QED BY <1>1, <2>2, <2>3
<1> QED BY <1>4, <1>5 DEF labels

LEMMA YoloLabelsAre ==
  ASSUME NEW s, NEW n, Sound(s, n)
  PROVE  LET labels == YoloLabels(ConfiguredLabels(s), SamplesRead(s)) IN
         /\ DOMAIN labels = DOMAIN ConfiguredLabels(s) \cup ClassesOf(Found(s))
         /\ DOMAIN labels \in SUBSET Int /\ IsFiniteSet(DOMAIN labels)
         /\ \A c \in DOMAIN labels :
              IF c \in DOMAIN ConfiguredLabels(s) THEN labels[c] = ConfiguredLabels(s)[c]
              ELSE \E b \in Found(s) : b.class = c /\ labels[c] = b.name
<1> DEFINE configured == ConfiguredLabels(s)
           Choice(c) == (CHOOSE a \in Found(s) : a.class = c).name
           labels == YoloLabels(configured, SamplesRead(s))
<1>1. labels = [c \in DOMAIN configured \cup (ClassesOf(Found(s)) \ DOMAIN configured) |->
                  IF c \in DOMAIN configured THEN configured[c] ELSE Choice(c)]
  BY DEF YoloLabels, Found, ClassesOf
<1>2. DOMAIN configured \in SUBSET Nat /\ IsFiniteSet(DOMAIN configured)
  BY ConfiguredAre
<1>3. ClassesOf(Found(s)) \in SUBSET Int /\ IsFiniteSet(ClassesOf(Found(s)))
  BY FoundIs, FoundFinite DEF ClassesOf
<1>4. \A c \in ClassesOf(Found(s)) : \E b \in Found(s) : b.class = c /\ Choice(c) = b.name
  BY DEF ClassesOf
<1> DEFINE D == DOMAIN configured
           C == ClassesOf(Found(s))
<1>5. DOMAIN labels = D \cup C
  <2> HIDE DEF configured, C, labels, Choice
  <2>1. DOMAIN labels = D \cup (C \ D)
    BY <1>1 DEF C
  <2> QED BY <2>1
<1>6. IsFiniteSet(D \cup C) /\ D \cup C \in SUBSET Int
  <2> HIDE DEF D, C
  <2>1. IsFiniteSet(D \cup C)
    BY <1>2, <1>3, FS_Union DEF D, C
  <2>2. D \in SUBSET Nat /\ C \in SUBSET Int
    BY <1>2, <1>3 DEF D, C
  <2> QED BY <2>1, <2>2
<1>7. ASSUME NEW c \in DOMAIN labels
      PROVE  IF c \in DOMAIN configured THEN labels[c] = configured[c]
             ELSE \E b \in Found(s) : b.class = c /\ labels[c] = b.name
  <2> HIDE DEF configured, labels, Choice
  <2> QED BY <1>1, <1>4, <1>5, <1>7
<1> QED BY <1>5, <1>6, <1>7

LEMMA LabelsFoundAre ==
  ASSUME NEW s, NEW n, Sound(s, n)
  PROVE  DOMAIN LabelsFound(s) \in SUBSET Int /\ IsFiniteSet(DOMAIN LabelsFound(s))
<1>1. CASE DetectParser(s) = "yolo"
  BY <1>1, YoloLabelsAre DEF LabelsFound
<1>2. CASE DetectParser(s) # "yolo"
  <2>1. DOMAIN LabelsFound(s) \in SUBSET Nat /\ IsFiniteSet(DOMAIN LabelsFound(s))
    BY <1>2, NumberedAre DEF LabelsFound
  <2> QED BY <2>1
<1> QED BY <1>1, <1>2

LEMMA NoConfiguration ==
  ASSUME NEW s, DetectParser(s) # "yolo"
  PROVE  ConfigurationsOf(s) = {}
<1> SUFFICES ASSUME NEW i \in ConfigurationsOf(s) PROVE FALSE
  OBVIOUS
<1> DEFINE Config == \E j \in DOMAIN s : Lower(s[j].name.stem) \in {"data"} /\ s[j].name.suffix \in {".yaml"}
<1>1. Config
  BY DEF ConfigurationsOf, Is
<1>2. Config => DetectParser(s) = "yolo"
  BY DEF DetectParser
<1> QED BY <1>1, <1>2

\* The names of all annotations are among the labels.
LEMMA NamesFound ==
  ASSUME NEW s, NEW n, Sound(s, n), NEW a \in Found(s),
         ~ (DetectParser(s) = "yolo" /\ Kinds(s, {"labelme", "voc"}) # {})
  PROVE  \E c \in DOMAIN LabelsFound(s) : LabelsFound(s)[c] = a.name
<1>1. CASE DetectParser(s) = "yolo"
  <2> DEFINE labels == YoloLabels(ConfiguredLabels(s), SamplesRead(s))
             configured == ConfiguredLabels(s)
  <2>1. LabelsFound(s) = labels
    BY <1>1 DEF LabelsFound
  <2>2. \A b \in Found(s) : b.name = NameIn(configured, b.class)
    BY <1>1, FoundIs
  <2>3. a.class \in DOMAIN labels
    <3>1. a.class \in ClassesOf(Found(s))
      BY DEF ClassesOf
    <3>2. DOMAIN labels = DOMAIN configured \cup ClassesOf(Found(s))
      BY YoloLabelsAre
    <3> HIDE DEF labels, configured
    <3> QED BY <3>1, <3>2
  <2>4. IF a.class \in DOMAIN configured THEN labels[a.class] = configured[a.class]
        ELSE \E b \in Found(s) : b.class = a.class /\ labels[a.class] = b.name
    BY <2>3, YoloLabelsAre
  <2>5. labels[a.class] = NameIn(configured, a.class)
    <3> HIDE DEF labels, configured
    <3> QED BY <2>2, <2>4 DEF NameIn
  <2> QED BY <2>1, <2>2, <2>3, <2>5
<1>2. CASE DetectParser(s) # "yolo"
  <2>1. LabelsFound(s) = NumberedLabels(SamplesRead(s))
    BY <1>2 DEF LabelsFound
  <2>2. DOMAIN ConfiguredLabels(s) = {}
    BY <1>2, NoConfiguration DEF ConfiguredLabels
  <2>3. NameIn(ConfiguredLabels(s), a.class) = DefaultName(a.class)
    BY <2>2 DEF NameIn
  <2>4. a.name \in ToSet(ClassNames)
    BY <2>3, FoundIs
  <2> QED BY <2>1, <2>4, NumberedAre
<1> QED BY <1>1, <1>2

\* The annotations of the manifest, with those they were read as.
LEMMA ManifestAnnotations ==
  ASSUME NEW s, NEW n, Sound(s, n), NEW a \in AnnotationsOf(PairedManifest(s).samples)
  PROVE  \E b \in Found(s) :
           /\ a.name = b.name /\ a.box = b.box /\ a.polygon = b.polygon /\ a.keypoints = b.keypoints
           /\ IF \E c \in DOMAIN LabelsFound(s) : LabelsFound(s)[c] = b.name
              THEN a.class \in DOMAIN LabelsFound(s) /\ LabelsFound(s)[a.class] = b.name
              ELSE a.class = b.class
<1> PICK labels : labels = LabelsFound(s)
  OBVIOUS
<1>1. PICK t \in SamplesRead(s) : a \in ToSet(Resolved(t, labels).annotations)
  BY PairedIs DEF AnnotationsOf
<1>2. \A b \in ToSet(t.annotations) : b \in Found(s)
  BY DEF Found, AnnotationsOf
<1>3. \A b \in ToSet(t.annotations) : IsAnnotation(b)
  BY <1>2, FoundIs
<1>4. "annotations" \in DOMAIN t /\ t = [x \in DOMAIN t |-> t[x]]
  <2>1. PICK m : t = ReadSample(s, m)
    BY DEF SamplesRead
  <2>2. PICK a1, y, as, z : t = Sample(m, a1, y, as, z)
    BY <2>1, SampleRead
  <2> QED BY <2>2 DEF Sample
<1>5. DOMAIN labels \in SUBSET Int /\ IsFiniteSet(DOMAIN labels)
  BY LabelsFoundAre
<1>6. \E b \in ToSet(t.annotations) :
           /\ a.name = b.name /\ a.box = b.box /\ a.polygon = b.polygon /\ a.keypoints = b.keypoints
           /\ IF \E c \in DOMAIN labels : labels[c] = b.name
              THEN a.class \in DOMAIN labels /\ labels[a.class] = b.name
              ELSE a.class = b.class
  BY <1>1, <1>3, <1>4, <1>5, ResolvedIs
<1> QED BY <1>2, <1>6

LEMMA CocoAnnotationIs ==
  ASSUME NEW data, IsSequence(data.annotations), NEW image, NEW a \in ToSet(CocoAnnotations(data, image))
  PROVE  \E x \in ToSet(data.annotations) :
           /\ a.class = x.category /\ a.name = NameIn(data.categories, x.category)
           /\ a.box = x.box /\ a.polygon = x.polygon /\ a.keypoints = x.keypoints
<1> DEFINE S == {x \in ToSet(data.annotations) : x.image = image.id}
           own == Only(data.annotations, S)
           Of(x) == [Annotation(x.category, NameIn(data.categories, x.category), "pixels") EXCEPT
                       !.box = x.box, !.polygon = x.polygon, !.keypoints = x.keypoints]
<1>1. CocoAnnotations(data, image) = [i \in DOMAIN own |-> Of(own[i])]
  BY DEF CocoAnnotations
<1>2. ToSet(own) = ToSet(data.annotations) \cap S
  <2> HIDE DEF S
  <2> QED BY OnlyKeeps
<1> HIDE DEF own
<1>3. PICK i \in DOMAIN own : a = Of(own[i])
  BY <1>1 DEF ToSet
<1>4. own[i] \in ToSet(data.annotations)
  BY <1>2 DEF ToSet
<1> PICK x : x = own[i]
  OBVIOUS
<1> PICK class, name, box, polygon, keypoints :
      /\ class = x.category /\ name = NameIn(data.categories, x.category)
      /\ box = x.box /\ polygon = x.polygon /\ keypoints = x.keypoints
  OBVIOUS
<1>5. DrawnAs(a, class, name, "pixels", box, polygon, keypoints)
  BY <1>3, Zenon DEF DrawnAs
<1>6. a.class = class /\ a.name = name /\ a.box = box /\ a.polygon = polygon /\ a.keypoints = keypoints
  BY <1>5, AnnotationIs
<1> QED BY <1>4, <1>6

\* The document that counts is one of the files.
LEMMA CocoDocument ==
  ASSUME NEW s, NEW n, Sound(s, n), Kinds(s, {"coco"}) # {}
  PROVE  LET i == First(Kinds(s, {"coco"})) IN
         i \in 1..n /\ s[i].data.kind = "coco" /\ IsSequence(s[i].data.annotations)
<1> DEFINE I == Kinds(s, {"coco"})
<1>1. n \in Nat /\ DOMAIN s = 1..n
  BY DEF Sound
<1>2. I \in SUBSET (1..n)
  BY <1>1 DEF Kinds
<1>3. I \in SUBSET Nat
  BY <1>1, <1>2
<1>4. First(I) \in I
  <2> HIDE DEF I
  <2>1. I # {}
    BY DEF I
  <2>2. \E i \in I : \A j \in I : i <= j
    BY <1>3, <2>1, Smallest
  <2> QED BY <2>2 DEF First
<1> PICK i : i = First(I)
  OBVIOUS
<1>5. i \in 1..n /\ s[i].data.kind = "coco"
  BY <1>1, <1>4 DEF Kinds
<1>6. IsSequence(s[i].data.annotations)
  BY <1>5, DataIs
<1> QED BY <1>5, <1>6

LEMMA CocoSamples ==
  ASSUME NEW s, NEW document, NEW a \in AnnotationsOf(ParseCoco(s, document).samples)
  PROVE  \E image \in ToSet(document.data.images) : a \in ToSet(CocoAnnotations(document.data, image))
<1>1. PICK t \in ParseCoco(s, document).samples : a \in ToSet(t.annotations)
  BY DEF AnnotationsOf
<1>2. PICK image \in ToSet(document.data.images) : \E m, d :
        t = Sample(m, d, "coco", CocoAnnotations(document.data, image), image.size)
  BY DEF ParseCoco
<1>3. t.annotations = CocoAnnotations(document.data, image)
  BY <1>2 DEF Sample
<1> QED BY <1>1, <1>3

LEMMA LabelsNamed == Packed => LabelsNameAnnotations
<1> SUFFICES ASSUME Packed, Accepted(archive),
                    ~ (manifest.parser = "yolo" /\ Documents({"labelme", "voc"}) # {}),
                    NEW a \in AnnotationsOf(manifest.samples)
             PROVE  IF a.class \in DOMAIN manifest.labels THEN manifest.labels[a.class] = a.name
                    ELSE manifest.parser = "coco"
  BY DEF LabelsNameAnnotations
<1>1. Sound(files, Len(archive))
  BY AcceptedFiles
<1>2. PICK s, n : s = files /\ n = Len(archive)
  OBVIOUS
<1>3. Sound(s, n) /\ manifest = Manifest(s) /\ Documents({"labelme", "voc"}) = Kinds(s, {"labelme", "voc"})
  BY <1>1, <1>2 DEF manifest, Documents
<1>4. CASE Kinds(s, {"coco"}) = {}
  <2>1. manifest = PairedManifest(s)
    BY <1>3, <1>4, ManifestIsPaired
  <2>2. manifest.parser = DetectParser(s) /\ manifest.labels = LabelsFound(s)
    BY <2>1, PairedIs
  <2>3. PICK b \in Found(s) :
           /\ a.name = b.name
           /\ IF \E c \in DOMAIN LabelsFound(s) : LabelsFound(s)[c] = b.name
              THEN a.class \in DOMAIN LabelsFound(s) /\ LabelsFound(s)[a.class] = b.name
              ELSE a.class = b.class
    BY <1>3, <2>1, ManifestAnnotations
  <2>4. \E c \in DOMAIN LabelsFound(s) : LabelsFound(s)[c] = b.name
    BY <1>3, <2>2, NamesFound
  <2> QED BY <2>2, <2>3, <2>4
<1>5. CASE Kinds(s, {"coco"}) # {}
  <2> PICK document : document = s[First(Kinds(s, {"coco"}))]
    OBVIOUS
  <2>1. manifest = ParseCoco(s, document)
    BY <1>3, <1>5, CocoIsJson DEF Manifest
  <2>2. manifest.parser = "coco" /\ manifest.labels = document.data.categories
    BY <2>1 DEF ParseCoco
  <2>3. PICK image : a \in ToSet(CocoAnnotations(document.data, image))
    BY <2>1, CocoSamples
  <2>4. IsSequence(document.data.annotations)
    BY <1>3, <1>5, CocoDocument
  <2>5. a.name = NameIn(document.data.categories, a.class)
    BY <2>3, <2>4, CocoAnnotationIs
  <2> QED BY <2>2, <2>5 DEF NameIn
<1> QED BY <1>4, <1>5

\* with_resolved_labels: the class an annotation gets is one of its name, in any
\* archive but those that have a YOLO configuration beside LabelMe or VOC files.
THEOREM LabelsNamedAsDrawn == Spec => []LabelsNameAnnotations
<1>1. Init => Packed
  BY PackedInit
<1>2. Packed /\ [Next]_archive => Packed'
  BY PackedStep
<1>3. Packed => LabelsNameAnnotations
  BY LabelsNamed
<1> QED BY <1>1, <1>2, <1>3, PTL DEF Spec

-----------------------------------------------------------------------------
(* The form of samples.                                                     *)

LEMMA FoundNumbered ==
  ASSUME NEW s, NEW n, Sound(s, n), NEW a \in Found(s)
  PROVE  a.class \in Int
<1>1. PICK i \in 1..n : DrawnIn(s[i].data, ConfiguredLabels(s), PoseOf(s), a)
  BY FoundDrawn
<1> PICK d : d = s[i].data
  OBVIOUS
<1>2. d.kind = "yolo" => \A l \in ToSet(d.lines) : l.class \in Int /\ IsSequence(l.coords)
  <2>1. PICK f \in Files : d = f.data
    BY DEF Sound, ReadFrom
  <2> QED BY <2>1, FilesAreRead
<1>3. CASE FromLineOf(d, ConfiguredLabels(s), PoseOf(s), a)
  <2>1. PICK l \in ToSet(d.lines) : Len(l.coords) >= 4 /\ a = FromLine(l, ConfiguredLabels(s), PoseOf(s))
    BY <1>3 DEF FromLineOf
  <2>2. l.class \in Int /\ IsSequence(l.coords)
    BY <1>2, <1>3 DEF FromLineOf
  <2>3. a.class = l.class
    BY <2>1, <2>2, LineIs
  <2> QED BY <2>2, <2>3
<1>4. CASE FromShapeOf(d, a)
  <2>1. PICK x \in ToSet(d.shapes) : a = FromShape(x)
    BY <1>4 DEF FromShapeOf
  <2> QED BY <2>1, ShapeIs
<1>5. CASE FromObjectOf(d, a)
  <2>1. PICK x \in ToSet(d.objects) : a = FromObject(x)
    BY <1>5 DEF FromObjectOf
  <2> QED BY <2>1, ObjectIs
<1> QED BY <1>1, <1>3, <1>4, <1>5 DEF DrawnIn

LEMMA LabelsNumbered ==
  ASSUME NEW s, NEW n, Sound(s, n)
  PROVE  DOMAIN LabelsFound(s) \subseteq Int
<1>1. CASE DetectParser(s) = "yolo"
  <2>1. DOMAIN ConfiguredLabels(s) \subseteq Nat
    BY ConfiguredAre
  <2>2. ClassesOf(Found(s)) \subseteq Int
    BY FoundNumbered DEF ClassesOf
  <2>3. DOMAIN LabelsFound(s) = DOMAIN ConfiguredLabels(s) \cup ClassesOf(Found(s))
    BY <1>1, YoloLabelsAre DEF LabelsFound
  <2> QED BY <2>1, <2>2, <2>3
<1>2. CASE DetectParser(s) # "yolo"
  <2>1. DOMAIN LabelsFound(s) \subseteq Nat
    BY <1>2, NumberedAre DEF LabelsFound
  <2> QED BY <2>1
<1> QED BY <1>1, <1>2

LEMMA PairedTyped ==
  ASSUME NEW s, NEW n, Sound(s, n), NEW a \in AnnotationsOf(PairedManifest(s).samples)
  PROVE  a.class \in Int
<1>1. PICK b \in Found(s) :
           IF \E c \in DOMAIN LabelsFound(s) : LabelsFound(s)[c] = b.name
           THEN a.class \in DOMAIN LabelsFound(s)
           ELSE a.class = b.class
  BY ManifestAnnotations
<1> QED BY <1>1, FoundNumbered, LabelsNumbered

LEMMA CocoTyped ==
  ASSUME NEW s, NEW n, Sound(s, n), Kinds(s, {"coco"}) # {},
         NEW a \in AnnotationsOf(ParseCoco(s, s[First(Kinds(s, {"coco"}))]).samples)
  PROVE  a.class \in Int
<1> PICK i : i = First(Kinds(s, {"coco"}))
  OBVIOUS
<1>1. i \in 1..n /\ s[i].data.kind = "coco" /\ IsSequence(s[i].data.annotations)
  BY CocoDocument
<1> PICK document : document = s[i]
  OBVIOUS
<1>2. PICK f \in Files : document.data = f.data
  BY <1>1 DEF Sound, ReadFrom
<1>3. \A x \in ToSet(document.data.annotations) : x.category \in Int
  BY <1>1, <1>2, FilesAreRead
<1>4. PICK image : a \in ToSet(CocoAnnotations(document.data, image))
  BY CocoSamples
<1>5. PICK x \in ToSet(document.data.annotations) : a.class = x.category
  BY <1>1, <1>4, CocoAnnotationIs
<1> QED BY <1>3, <1>5

LEMMA PairedNames ==
  ASSUME NEW s, NEW n, Sound(s, n), NEW t \in PairedManifest(s).samples
  PROVE  t.name \in ImagesOf(s) /\ t.annotation \in NamesAt(s, DOMAIN s) \cup {NoFile}
<1>1. PICK m \in ImagesOf(s) : t = Resolved(ReadSample(s, m), LabelsFound(s))
  BY PairedIs DEF SamplesRead
<1>2. t.name = m /\ t.annotation = AnnotationOf(s, m)
  BY <1>1, OneSampleEach
<1>3. AnnotationFiles(s) \in SUBSET (1..n)
  BY AnnotationKinds
<1>4. AnnotationOf(s, m) # NoFile => \E i \in 1..n : AnnotationOf(s, m) = s[i].name
  BY <1>3, LastIsOf DEF AnnotationOf
<1>5. DOMAIN s = 1..n
  BY DEF Sound
<1> QED BY <1>1, <1>2, <1>4, <1>5 DEF NamesAt

\* The file that an entry of a COCO document means, if there is one, is an image.
LEMMA EntryIsImage ==
  ASSUME NEW s, NEW n, Sound(s, n), NEW wanted, CocoImage(s, wanted) # NoFile
  PROVE  CocoImage(s, wanted) \in ImagesOf(s)
<1> DEFINE images == NamesAt(s, Positions(s, ImageSuffixes))
           exact == {m \in images : LowerName(m) = LowerName(wanted)}
           last == {i \in DOMAIN s : s[i].name \in exact}
           Newest(i) == \A j \in last : j <= i
           named == {m \in images : /\ Lower(m.stem) = Lower(wanted.stem)
                                    /\ m.suffix = wanted.suffix}
<1>1. CocoImage(s, wanted) = CASE exact # {} -> s[CHOOSE i \in last : Newest(i)].name
                               [] exact = {} /\ Cardinality(named) = 1 -> CHOOSE m \in named : TRUE
                               [] OTHER -> NoFile
  BY DEF CocoImage
<1>2. images = ImagesOf(s)
  BY DEF ImagesOf
<1>3. CASE exact # {}
  <2>1. n \in Nat /\ DOMAIN s = 1..n /\ 1..n \subseteq 0..n
    BY DEF Sound
  <2>2. last # {}
    BY <1>3 DEF NamesAt, Positions
  <2>3. last \subseteq 0..n
    BY <2>1
  <2>4. \E i \in last : Newest(i)
    <3> HIDE DEF last
    <3> QED BY <2>1, <2>2, <2>3, Greatest
  <2>5. (CHOOSE i \in last : Newest(i)) \in last
    <3> HIDE DEF last, Newest
    <3> QED BY <2>4
  <2>6. \A i \in last : s[i].name \in images
    OBVIOUS
  <2> HIDE DEF last, images, exact, Newest
  <2> QED BY <1>1, <1>2, <1>3, <2>5, <2>6
<1>4. CASE exact = {}
  <2>1. Cardinality(named) = 1 /\ CocoImage(s, wanted) = CHOOSE m \in named : TRUE
    <3> HIDE DEF exact, named, last, Newest
    <3> QED BY <1>1, <1>4
  <2>2. named # {}
    BY <2>1, FS_EmptySet
  <2> QED BY <1>2, <2>1, <2>2
<1> QED BY <1>3, <1>4

LEMMA CocoNames ==
  ASSUME NEW s, NEW n, Sound(s, n), NEW i \in 1..n, NEW t \in ParseCoco(s, s[i]).samples
  PROVE  t.name \in ImagesOf(s) /\ t.annotation \in NamesAt(s, DOMAIN s) \cup {NoFile}
<1> PICK document : document = s[i]
  OBVIOUS
<1>1. PICK image : /\ CocoImage(s, Stripped(image.file)) # NoFile
                   /\ t.name = CocoImage(s, Stripped(image.file)) /\ t.annotation = document.name
  BY DEF ParseCoco, Sample
<1>2. t.name \in ImagesOf(s)
  BY <1>1, EntryIsImage
<1>3. DOMAIN s = 1..n
  BY DEF Sound
<1> QED BY <1>1, <1>2, <1>3 DEF NamesAt

LEMMA PairsOfImages ==
  ASSUME NEW s, NEW n, Sound(s, n), NEW p \in Scan(s).pairs
  PROVE  p[1] \in ImagesOf(s)
<1> DEFINE P == Positions(s, ImageSuffixes)
<1>1. PICK i \in P : p[1] = LastWith(s, P, KeyAt(s, i))
  BY DEF Scan
<1>2. n \in Nat /\ P \in SUBSET (1..n)
  BY DEF Sound, Positions
<1> DEFINE k == KeyAt(s, i)
           found == {j \in P : KeyAt(s, j) = k}
           Newest(j) == \A m \in found : m <= j
           last == CHOOSE j \in found : Newest(j)
<1>3. i \in found /\ found \subseteq 0..n
  <2>1. 1..n \subseteq 0..n
    BY <1>2
  <2>2. i \in found /\ found \subseteq P
    OBVIOUS
  <2> HIDE DEF found, P
  <2> QED BY <1>2, <2>1, <2>2
<1>4. \E j \in found : Newest(j)
  <2> HIDE DEF found
  <2> QED BY <1>2, <1>3, Greatest
<1>5. last \in found
  <2> HIDE DEF found, Newest
  <2> QED BY <1>4
<1>6. p[1] = s[last].name
  BY <1>1, <1>3 DEF LastWith
<1>7. last \in P
  BY <1>5
<1> HIDE DEF last
<1> QED BY <1>6, <1>7 DEF ImagesOf, NamesAt

LEMMA TypesKept ==
  ASSUME Packed
  PROVE  TypeOK
<1> SUFFICES ASSUME Accepted(archive) PROVE TypeOK
  BY DEF TypeOK
<1>1. Sound(files, Len(archive))
  BY AcceptedFiles
<1>2. PICK s, n : s = files /\ n = Len(archive)
  OBVIOUS
<1>3. Sound(s, n) /\ manifest = Manifest(s) /\ scan = Scan(s) /\ Images = ImagesOf(s)
  BY <1>1, <1>2 DEF manifest, scan, Images, ImagesOf
<1>4. /\ \A t \in Manifest(s).samples :
            t.name \in ImagesOf(s) /\ t.annotation \in NamesAt(s, DOMAIN s) \cup {NoFile}
      /\ \A a \in AnnotationsOf(Manifest(s).samples) : a.class \in Int
  <2>1. CASE Kinds(s, {"coco"}) = {}
    <3>1. Manifest(s) = PairedManifest(s)
      BY <1>3, <2>1, ManifestIsPaired
    <3> QED BY <1>3, <3>1, PairedNames, PairedTyped
  <2>2. CASE Kinds(s, {"coco"}) # {}
    <3> PICK i : i = First(Kinds(s, {"coco"}))
      OBVIOUS
    <3>1. Manifest(s) = ParseCoco(s, s[i])
      BY <1>3, <2>2, CocoIsJson DEF Manifest
    <3>2. i \in 1..n
      BY <1>3, <2>2, CocoDocument
    <3>3. \A t \in ParseCoco(s, s[i]).samples :
            t.name \in ImagesOf(s) /\ t.annotation \in NamesAt(s, DOMAIN s) \cup {NoFile}
      BY <1>3, <3>2, CocoNames
    <3>4. \A a \in AnnotationsOf(ParseCoco(s, s[i]).samples) : a.class \in Int
      BY <1>3, <2>2, CocoTyped
    <3> QED BY <3>1, <3>3, <3>4
  <2> QED BY <2>1, <2>2
<1>5. \A p \in Scan(s).pairs : p[1] \in ImagesOf(s)
  BY <1>3, PairsOfImages
<1>6. /\ \A t \in manifest.samples :
            t.name \in Images /\ t.annotation \in NamesAt(files, DOMAIN files) \cup {NoFile}
      /\ \A a \in AnnotationsOf(manifest.samples) : a.class \in Int
      /\ \A p \in scan.pairs : p[1] \in Images
  BY <1>2, <1>3, <1>4, <1>5
<1>7. \A t \in manifest.samples : \A a \in ToSet(t.annotations) : a \in AnnotationsOf(manifest.samples)
  BY DEF AnnotationsOf
<1> QED BY <1>6, <1>7 DEF TypeOK

\* Samples are of images of the archive, their annotations from files of it, and
\* the classes that the labels give them are numbers.
THEOREM InspectionTyped == Spec => []TypeOK
<1>1. Init => Packed
  BY PackedInit
<1>2. Packed /\ [Next]_archive => Packed'
  BY PackedStep
<1>3. Packed => TypeOK
  BY TypesKept
<1> QED BY <1>1, <1>2, <1>3, PTL DEF Spec

-----------------------------------------------------------------------------
(* Files in another order.                                                  *)

\* u is s with the files i and i + 1 swapped; w says where a file has gone.
Exchange(s, u, n, i, w) ==
  /\ Sound(s, n) /\ i \in 1..n /\ i + 1 \in 1..n
  /\ ~ Compete(s[i], s[i + 1])
  /\ DOMAIN u = 1..n
  /\ w \in [1..n -> 1..n]
  /\ \A x \in 1..n : /\ w[w[x]] = x /\ u[w[x]] = s[x] /\ u[x] = s[w[x]]
                     /\ \A y \in 1..n : x < y => w[x] < w[y] \/ (x = i /\ y = i + 1)

At(w, I) == {w[x] : x \in I}
LastOf(I) == CHOOSE x \in I : \A y \in I : y <= x

LEMMA SwapExchanges ==
  ASSUME NEW s, NEW n, Sound(s, n), NEW i \in 1..(n - 1), ~ Compete(s[i], s[i + 1])
  PROVE  \E w : Exchange(s, Swapped(s, i), n, i, w)
<1> DEFINE w == [x \in 1..n |-> IF x = i THEN i + 1 ELSE IF x = i + 1 THEN i ELSE x]
           u == Swapped(s, i)
<1>1. n \in Nat /\ DOMAIN s = 1..n
  BY DEF Sound
<1>2. i \in 1..n /\ i + 1 \in 1..n /\ i # i + 1
  BY <1>1
<1>3. \A x \in 1..n : w[x] = IF x = i THEN i + 1 ELSE IF x = i + 1 THEN i ELSE x
  OBVIOUS
<1>4. w \in [1..n -> 1..n]
  BY <1>2
<1>5. DOMAIN u = 1..n
  BY <1>1 DEF Swapped
<1>6. \A x \in 1..n : u[x] = IF x = i THEN s[i + 1] ELSE IF x = i + 1 THEN s[i] ELSE s[x]
  BY <1>1, <1>2 DEF Swapped
<1> HIDE DEF w, u
<1>7. ASSUME NEW x \in 1..n
      PROVE  w[w[x]] = x /\ u[w[x]] = s[x] /\ u[x] = s[w[x]]
  BY <1>2, <1>3, <1>6
<1>8. ASSUME NEW x \in 1..n, NEW y \in 1..n, x < y, ~ (x = i /\ y = i + 1) PROVE w[x] < w[y]
  <2>1. x \in Int /\ y \in Int /\ i \in Int
    OBVIOUS
  <2>2. /\ w[x] = IF x = i THEN i + 1 ELSE IF x = i + 1 THEN i ELSE x
        /\ w[y] = IF y = i THEN i + 1 ELSE IF y = i + 1 THEN i ELSE y
    BY <1>3
  <2> QED BY <1>8, <2>1, <2>2
<1>9. Exchange(s, u, n, i, w)
  BY <1>2, <1>4, <1>5, <1>7, <1>8 DEF Exchange
<1> QED BY <1>9 DEF u

\* The last and the first of positions go with them, unless both files are among them.
LEMMA LastMoved ==
  ASSUME NEW s, NEW u, NEW n, NEW i, NEW w, Exchange(s, u, n, i, w),
         NEW I \in SUBSET (1..n), I # {}, ~ (i \in I /\ i + 1 \in I)
  PROVE  LastOf(I) \in I /\ LastOf(At(w, I)) = w[LastOf(I)]
<1> PICK m : m = LastOf(I)
  OBVIOUS
<1>0. n \in Nat /\ 1..n \subseteq 0..n
  BY DEF Exchange, Sound
<1>1. m \in I /\ \A y \in I : y <= m
  <2>1. \E v \in I : \A y \in I : y <= v
    BY <1>0, Greatest
  <2> QED BY <2>1 DEF LastOf
<1>2. ASSUME NEW z \in At(w, I) PROVE z <= w[m]
  <2>1. PICK x \in I : z = w[x]
    BY DEF At
  <2>2. x <= m /\ x \in 1..n /\ m \in 1..n /\ ~ (x = i /\ m = i + 1)
    BY <1>1
  <2>3. x < m => w[x] < w[m]
    BY <2>2 DEF Exchange
  <2>4. w[x] \in Int /\ w[m] \in Int
    BY <2>2 DEF Exchange
  <2>5. x < m \/ x = m
    BY <2>2
  <2> QED BY <2>1, <2>3, <2>4, <2>5
<1>3. w[m] \in At(w, I)
  BY <1>1 DEF At
<1> PICK l : l = LastOf(At(w, I))
  OBVIOUS
<1>4. l \in At(w, I) /\ \A z \in At(w, I) : z <= l
  BY <1>2, <1>3 DEF LastOf
<1>5. At(w, I) \subseteq Int
  BY DEF At, Exchange
<1>6. l = w[m]
  BY <1>2, <1>3, <1>4, <1>5
<1> QED BY <1>1, <1>6

LEMMA FirstMoved ==
  ASSUME NEW s, NEW u, NEW n, NEW i, NEW w, Exchange(s, u, n, i, w),
         NEW I \in SUBSET (1..n), I # {}, ~ (i \in I /\ i + 1 \in I)
  PROVE  First(I) \in I /\ First(At(w, I)) = w[First(I)]
<1> PICK m : m = First(I)
  OBVIOUS
<1>1. m \in I /\ \A y \in I : m <= y
  <2>1. I \in SUBSET Nat
    OBVIOUS
  <2>2. \E v \in I : \A y \in I : v <= y
    BY <2>1, Smallest
  <2> QED BY <2>2 DEF First
<1>2. ASSUME NEW z \in At(w, I) PROVE w[m] <= z
  <2>1. PICK x \in I : z = w[x]
    BY DEF At
  <2>2. m <= x /\ x \in 1..n /\ m \in 1..n /\ ~ (m = i /\ x = i + 1)
    BY <1>1
  <2>3. m < x => w[m] < w[x]
    BY <2>2 DEF Exchange
  <2>4. w[x] \in Int /\ w[m] \in Int
    BY <2>2 DEF Exchange
  <2>5. m < x \/ x = m
    BY <2>2
  <2> QED BY <2>1, <2>3, <2>4, <2>5
<1>3. w[m] \in At(w, I)
  BY <1>1 DEF At
<1> PICK l : l = First(At(w, I))
  OBVIOUS
<1>4. l \in At(w, I) /\ \A z \in At(w, I) : l <= z
  BY <1>2, <1>3 DEF First
<1>5. At(w, I) \subseteq Int
  BY DEF At, Exchange
<1>6. l = w[m]
  BY <1>2, <1>3, <1>4, <1>5
<1> QED BY <1>1, <1>6

-----------------------------------------------------------------------------
(* What the code looks up in the files.                                     *)

LEMMA PositionsMoved ==
  ASSUME NEW s, NEW u, NEW n, NEW i, NEW w, Exchange(s, u, n, i, w)
  PROVE  /\ \A S : Positions(u, S) = At(w, Positions(s, S)) /\ Positions(s, S) \in SUBSET (1..n)
         /\ \A S : Kinds(u, S) = At(w, Kinds(s, S)) /\ Kinds(s, S) \in SUBSET (1..n)
<1>1. /\ DOMAIN s = 1..n /\ DOMAIN u = 1..n
      /\ \A x \in 1..n : w[x] \in 1..n /\ w[w[x]] = x /\ u[w[x]] = s[x] /\ u[x] = s[w[x]]
  BY DEF Exchange, Sound
<1>2. ASSUME NEW S PROVE Positions(u, S) = At(w, Positions(s, S)) /\ Positions(s, S) \in SUBSET (1..n)
  BY <1>1 DEF Positions, At
<1>3. ASSUME NEW S PROVE Kinds(u, S) = At(w, Kinds(s, S)) /\ Kinds(s, S) \in SUBSET (1..n)
  BY <1>1 DEF Kinds, At
<1> QED BY <1>2, <1>3

LEMMA OthersMoved ==
  ASSUME NEW s, NEW u, NEW n, NEW i, NEW w, Exchange(s, u, n, i, w)
  PROVE  /\ AnnotationFiles(u) = At(w, AnnotationFiles(s)) /\ AnnotationFiles(s) \in SUBSET (1..n)
         /\ ConfigurationsOf(u) = At(w, ConfigurationsOf(s)) /\ ConfigurationsOf(s) \in SUBSET (1..n)
<1>1. /\ DOMAIN s = 1..n /\ DOMAIN u = 1..n
      /\ \A x \in 1..n : w[x] \in 1..n /\ w[w[x]] = x /\ u[w[x]] = s[x] /\ u[x] = s[w[x]]
  BY DEF Exchange, Sound
<1> DEFINE May(f) == \/ f.name.suffix \in {".txt", ".xml"}
                     \/ f.name.suffix \in {".json"} /\ f.data.kind \in {"labelme", "broken"}
<1>2. \A x \in 1..n : (x \in AnnotationFiles(s) <=> May(s[x])) /\ (x \in AnnotationFiles(u) <=> May(u[x]))
  BY <1>1 DEF AnnotationFiles, Positions, Kinds, Is
<1>3. AnnotationFiles(s) \subseteq 1..n /\ AnnotationFiles(u) \subseteq 1..n
  BY <1>1 DEF AnnotationFiles, Positions
<1>4. AnnotationFiles(u) = At(w, AnnotationFiles(s))
  <2> HIDE DEF May
  <2>1. \A x \in AnnotationFiles(u) : w[x] \in AnnotationFiles(s) /\ w[w[x]] = x
    BY <1>1, <1>2, <1>3
  <2>2. \A x \in AnnotationFiles(s) : w[x] \in AnnotationFiles(u)
    BY <1>1, <1>2, <1>3
  <2> QED BY <2>1, <2>2 DEF At
<1>5. ConfigurationsOf(u) = At(w, ConfigurationsOf(s)) /\ ConfigurationsOf(s) \in SUBSET (1..n)
  BY <1>1 DEF ConfigurationsOf, Is, At
<1> QED BY <1>3, <1>4, <1>5

LEMMA NamesMoved ==
  ASSUME NEW s, NEW u, NEW n, NEW i, NEW w, Exchange(s, u, n, i, w), NEW I \in SUBSET (1..n)
  PROVE  NamesAt(u, At(w, I)) = NamesAt(s, I)
<1>1. \A x \in I : u[w[x]] = s[x]
  BY DEF Exchange
<1>2. \A m : m \in NamesAt(u, At(w, I)) <=> \E x \in I : m = u[w[x]].name
  BY DEF NamesAt, At
<1>3. \A m : m \in NamesAt(s, I) <=> \E x \in I : m = s[x].name
  BY DEF NamesAt
<1>4. \A m : m \in NamesAt(u, At(w, I)) <=> m \in NamesAt(s, I)
  BY <1>1, <1>2, <1>3
<1> QED BY <1>4, Zenon DEF NamesAt

LEMMA KeyMoved ==
  ASSUME NEW s, NEW u, NEW n, NEW i, NEW w, Exchange(s, u, n, i, w), NEW I \in SUBSET (1..n), NEW k,
         ~ (i \in I /\ i + 1 \in I /\ KeyAt(s, i) = KeyAt(s, i + 1))
  PROVE  LastWith(u, At(w, I), k) = LastWith(s, I, k)
<1> DEFINE found == {x \in I : KeyAt(s, x) = k}
           there == {x \in At(w, I) : KeyAt(u, x) = k}
<1>1. \A x \in I : u[w[x]] = s[x]
  BY DEF Exchange
<1>2. there = At(w, found)
  BY <1>1 DEF At, KeyAt
<1>3. LastWith(s, I, k) = IF found = {} THEN NoFile ELSE s[LastOf(found)].name
  BY DEF LastWith, LastOf
<1>4. LastWith(u, At(w, I), k) = IF there = {} THEN NoFile ELSE u[LastOf(there)].name
  BY DEF LastWith, LastOf
<1>5. found \in SUBSET (1..n) /\ found \subseteq I /\ ~ (i \in found /\ i + 1 \in found)
  OBVIOUS
<1> HIDE DEF found, there
<1>6. CASE found = {}
  <2>1. there = {}
    BY <1>2, <1>6 DEF At
  <2> QED BY <1>3, <1>4, <1>6, <2>1
<1>7. CASE found # {}
  <2>1. LastOf(found) \in found /\ LastOf(At(w, found)) = w[LastOf(found)]
    BY <1>5, <1>7, LastMoved
  <2>2. there # {}
    BY <1>2, <1>7 DEF At
  <2>3. u[LastOf(there)] = s[LastOf(found)]
    BY <1>1, <1>2, <1>5, <2>1
  <2> QED BY <1>3, <1>4, <1>7, <2>2, <2>3
<1> QED BY <1>6, <1>7

LEMMA AnnotationMoved ==
  ASSUME NEW s, NEW u, NEW n, NEW i, NEW w, Exchange(s, u, n, i, w), NEW m
  PROVE  AnnotationOf(u, m) = AnnotationOf(s, m)
<1>1. AnnotationFiles(u) = At(w, AnnotationFiles(s)) /\ AnnotationFiles(s) \in SUBSET (1..n)
  BY OthersMoved
<1>2. ASSUME i \in AnnotationFiles(s), i + 1 \in AnnotationFiles(s), KeyAt(s, i) = KeyAt(s, i + 1)
      PROVE  FALSE
  <2>1. s[i].name.suffix \in AnnotationSuffixes /\ s[i + 1].name.suffix \in AnnotationSuffixes
    BY <1>2 DEF AnnotationFiles, Positions, Is, AnnotationSuffixes
  <2> QED BY <1>2, <2>1 DEF Exchange, Compete, KeyAt
<1> QED BY <1>1, <1>2, KeyMoved DEF AnnotationOf

LEMMA ConfigurationMoved ==
  ASSUME NEW s, NEW u, NEW n, NEW i, NEW w, Exchange(s, u, n, i, w)
  PROVE  ConfiguredLabels(u) = ConfiguredLabels(s) /\ PoseOf(u) = PoseOf(s)
<1> PICK I, J : I = ConfigurationsOf(s) /\ J = ConfigurationsOf(u)
  OBVIOUS
<1>1. J = At(w, I) /\ I \in SUBSET (1..n)
  BY OthersMoved
<1>2. ~ (i \in I /\ i + 1 \in I)
  BY DEF Exchange, Compete, ConfigurationsOf, Is
<1>3. CASE I = {}
  <2>1. J = {}
    BY <1>1, <1>3 DEF At
  <2> QED BY <1>3, <2>1 DEF ConfiguredLabels, PoseOf
<1>4. CASE I # {}
  <2>1. First(I) \in I /\ First(J) = w[First(I)]
    BY <1>1, <1>2, <1>4, FirstMoved
  <2>2. u[First(J)] = s[First(I)]
    BY <1>1, <2>1 DEF Exchange
  <2>3. J # {}
    BY <1>1, <1>4 DEF At
  <2> QED BY <1>4, <2>2, <2>3 DEF ConfiguredLabels, PoseOf
<1> QED BY <1>3, <1>4

LEMMA ParserMoved ==
  ASSUME NEW s, NEW u, NEW n, NEW i, NEW w, Exchange(s, u, n, i, w)
  PROVE  DetectParser(u) = DetectParser(s)
<1>1. /\ DOMAIN s = 1..n /\ DOMAIN u = 1..n
      /\ \A x \in 1..n : w[x] \in 1..n /\ u[w[x]] = s[x] /\ u[x] = s[w[x]]
  BY DEF Exchange, Sound
<1> DEFINE Has(f, suffix) == \E x \in DOMAIN f : f[x].name.suffix = suffix
           Config(f, stems, suffixes) == \E x \in DOMAIN f :
             Lower(f[x].name.stem) \in stems /\ f[x].name.suffix \in suffixes
           Detected(f) ==
             CASE Config(f, {"data"}, {".yaml"}) -> "yolo"
               [] ~Config(f, {"data"}, {".yaml"}) /\ Config(f, {"annotations", "instances"}, {".json"}) -> "coco"
               [] OTHER -> IF Has(f, ".xml") THEN "voc" ELSE IF Has(f, ".json") THEN "labelme"
                           ELSE IF Has(f, ".txt") THEN "yolo" ELSE "none"
<1>2. \A suffix : Has(u, suffix) <=> Has(s, suffix)
  BY <1>1
<1>3. \A stems, suffixes : Config(u, stems, suffixes) <=> Config(s, stems, suffixes)
  BY <1>1
<1>4. DetectParser(s) = Detected(s) /\ DetectParser(u) = Detected(u)
  BY DEF DetectParser
<1>5. Detected(s) = Detected(u)
  <2> HIDE DEF Has, Config
  <2> QED BY <1>2, <1>3
<1> QED BY <1>4, <1>5

LEMMA FileMoved ==
  ASSUME NEW s, NEW u, NEW n, NEW i, NEW w, Exchange(s, u, n, i, w), NEW x \in 1..n
  PROVE  FileOf(s, s[x].name) = s[x] /\ FileOf(u, s[x].name) = s[x]
<1>1. /\ DOMAIN s = 1..n /\ DOMAIN u = 1..n
      /\ \A y \in 1..n : w[y] \in 1..n /\ w[w[y]] = y /\ u[w[y]] = s[y] /\ u[y] = s[w[y]]
      /\ \A y, z \in 1..n : s[y].name = s[z].name => y = z
  BY DEF Exchange, Sound
<1>2. FileOf(s, s[x].name) = s[x]
  BY <1>1 DEF FileOf
<1>3. u[w[x]].name = s[x].name /\ \A y \in 1..n : u[y].name = s[x].name => y = w[x]
  BY <1>1
<1>4. FileOf(u, s[x].name) = u[w[x]]
  BY <1>1, <1>3 DEF FileOf
<1> QED BY <1>1, <1>2, <1>4

LEMMA SampleMoved ==
  ASSUME NEW s, NEW u, NEW n, NEW i, NEW w, Exchange(s, u, n, i, w), NEW m
  PROVE  ReadSample(u, m) = ReadSample(s, m)
<1> PICK name : name = AnnotationOf(s, m)
  OBVIOUS
<1>1. AnnotationOf(u, m) = name
  BY AnnotationMoved
<1>2. DetectParser(u) = DetectParser(s) /\ ConfiguredLabels(u) = ConfiguredLabels(s) /\ PoseOf(u) = PoseOf(s)
  BY ParserMoved, ConfigurationMoved
<1>3. CASE name = NoFile
  BY <1>1, <1>2, <1>3 DEF ReadSample
<1>4. CASE name # NoFile
  <2>0. Sound(s, n)
    BY DEF Exchange
  <2>1. Sound(s, n) /\ AnnotationFiles(s) \in SUBSET (1..n)
    BY <2>0, OthersMoved
  <2>2. PICK x \in 1..n : name = s[x].name
    BY <1>4, <2>1, LastIsOf DEF AnnotationOf
  <2>3. FileOf(u, name) = FileOf(s, name)
    BY <2>2, FileMoved
  <2> QED BY <1>1, <1>2, <1>4, <2>3 DEF ReadSample
<1> QED BY <1>3, <1>4

-----------------------------------------------------------------------------
IssuesFound(s) ==
  {Issue("missing_annotation", t.name) : t \in {r \in SamplesRead(s) : r.annotation = NoFile}}
    \cup {Issue("unreadable", m) :
            m \in {b \in NamesAt(s, Kinds(s, {"broken"})) :
                     b.suffix = ".json" \/ \E t \in SamplesRead(s) : t.annotation = b}}

LEMMA PairedAll ==
  ASSUME NEW s
  PROVE  PairedManifest(s) = [parser |-> DetectParser(s),
                              samples |-> {Resolved(t, LabelsFound(s)) : t \in SamplesRead(s)},
                              labels |-> LabelsFound(s), issues |-> IssuesFound(s)]
  BY DEF PairedManifest, LabelsFound, SamplesRead, ReadSample, AnnotationOf, FileOf, PoseOf,
         ConfiguredLabels, ConfigurationsOf, ImagesOf, IssuesFound

LEMMA PairedMoved ==
  ASSUME NEW s, NEW u, NEW n, NEW i, NEW w, Exchange(s, u, n, i, w)
  PROVE  PairedManifest(u) = PairedManifest(s)
<1>1. ImagesOf(u) = ImagesOf(s) /\ NamesAt(u, Kinds(u, {"broken"})) = NamesAt(s, Kinds(s, {"broken"}))
  BY PositionsMoved, NamesMoved DEF ImagesOf
<1>2. SamplesRead(u) = SamplesRead(s)
  BY <1>1, SampleMoved DEF SamplesRead
<1>3. DetectParser(u) = DetectParser(s) /\ ConfiguredLabels(u) = ConfiguredLabels(s)
  BY ParserMoved, ConfigurationMoved
<1>4. LabelsFound(u) = LabelsFound(s)
  BY <1>2, <1>3 DEF LabelsFound
<1>5. IssuesFound(u) = IssuesFound(s)
  BY <1>1, <1>2 DEF IssuesFound
<1> QED BY <1>2, <1>3, <1>4, <1>5, PairedAll

LEMMA EntryMoved ==
  ASSUME NEW s, NEW u, NEW n, NEW i, NEW w, Exchange(s, u, n, i, w), NEW wanted
  PROVE  CocoImage(u, wanted) = CocoImage(s, wanted)
<1> DEFINE Exact(f) == {m \in ImagesOf(f) : LowerName(m) = LowerName(wanted)}
           Same(f) == {x \in DOMAIN f : f[x].name \in Exact(f)}
           Named(f) == {m \in ImagesOf(f) : /\ Lower(m.stem) = Lower(wanted.stem)
                                            /\ m.suffix = wanted.suffix}
           Meant(f) == CASE Exact(f) # {} -> f[LastOf(Same(f))].name
                         [] Exact(f) = {} /\ Cardinality(Named(f)) = 1 -> CHOOSE m \in Named(f) : TRUE
                         [] OTHER -> NoFile
<1>1. CocoImage(u, wanted) = Meant(u) /\ CocoImage(s, wanted) = Meant(s)
  BY DEF CocoImage, ImagesOf, LastOf
<1>2. ImagesOf(u) = ImagesOf(s)
  BY PositionsMoved, NamesMoved DEF ImagesOf
<1>3. Exact(u) = Exact(s) /\ Named(u) = Named(s)
  BY <1>2
<1>4. /\ DOMAIN s = 1..n /\ DOMAIN u = 1..n
      /\ \A y \in 1..n : w[y] \in 1..n /\ w[w[y]] = y /\ u[w[y]] = s[y] /\ u[y] = s[w[y]]
  BY DEF Exchange, Sound
<1>5. Same(u) = At(w, Same(s)) /\ Same(s) \in SUBSET (1..n)
  <2> PICK E : E = Exact(s)
    OBVIOUS
  <2>1. {x \in 1..n : u[x].name \in E} = At(w, {x \in 1..n : s[x].name \in E})
    BY <1>4 DEF At
  <2> HIDE DEF Exact
  <2> QED BY <1>3, <1>4, <2>1
<1>6. ~ (i \in Same(s) /\ i + 1 \in Same(s))
  BY DEF Exchange, Compete
<1>7. CASE Exact(s) = {}
  <2> HIDE DEF Exact, Same, Named
  <2> QED BY <1>1, <1>3, <1>7
<1>8. CASE Exact(s) # {}
  <2>1. Same(s) # {}
    <3>1. PICK m \in Exact(s) : TRUE
      BY <1>8
    <3>2. m \in NamesAt(s, Positions(s, ImageSuffixes))
      BY DEF ImagesOf
    <3>3. PICK x \in DOMAIN s : s[x].name = m
      BY <3>2 DEF NamesAt, Positions
    <3> HIDE DEF Exact
    <3> QED BY <3>1, <3>3
  <2>2. LastOf(Same(s)) \in Same(s) /\ LastOf(At(w, Same(s))) = w[LastOf(Same(s))]
    <3> HIDE DEF Same
    <3> QED BY <1>5, <1>6, <2>1, LastMoved
  <2>3. u[LastOf(Same(u))] = s[LastOf(Same(s))]
    <3> HIDE DEF Same
    <3> QED BY <1>4, <1>5, <2>2
  <2> HIDE DEF Exact, Same, Named
  <2> QED BY <1>1, <1>3, <1>8, <2>3
<1> QED BY <1>7, <1>8

LEMMA CocoMoved ==
  ASSUME NEW s, NEW u, NEW n, NEW i, NEW w, Exchange(s, u, n, i, w), NEW document
  PROVE  ParseCoco(u, document) = ParseCoco(s, document)
<1>1. \A wanted : CocoImage(u, wanted) = CocoImage(s, wanted)
  BY EntryMoved
<1> DEFINE listed == ToSet(document.data.images)
           Samples(f) == {Sample(CocoImage(f, Stripped(image.file)), document.name, "coco",
                                 CocoAnnotations(document.data, image), image.size) :
                            image \in {m \in listed : CocoImage(f, Stripped(m.file)) # NoFile}}
           Issues(f) == {Issue("coco_image_missing", Stripped(image.file)) :
                           image \in {m \in listed : CocoImage(f, Stripped(m.file)) = NoFile}}
<1>2. \A f : ParseCoco(f, document)
              = [parser |-> "coco", samples |-> Samples(f), labels |-> document.data.categories,
                 issues |-> Issues(f)]
  BY DEF ParseCoco
<1>3. Samples(u) = Samples(s)
  BY <1>1
<1>4. Issues(u) = Issues(s)
  BY <1>1
<1> HIDE DEF Samples, Issues
<1> QED BY <1>2, <1>3, <1>4

LEMMA ManifestMoved ==
  ASSUME NEW s, NEW u, NEW n, NEW i, NEW w, Exchange(s, u, n, i, w)
  PROVE  Manifest(u) = Manifest(s)
<1> DEFINE Coco(f) == Positions(f, {".json"}) \cap Kinds(f, {"coco"})
<1> PICK I, J : I = Coco(s) /\ J = Coco(u)
  OBVIOUS
<1>1. J = At(w, I) /\ I \in SUBSET (1..n)
  <2>1. /\ DOMAIN s = 1..n /\ DOMAIN u = 1..n
        /\ \A y \in 1..n : w[y] \in 1..n /\ w[w[y]] = y /\ u[w[y]] = s[y] /\ u[y] = s[w[y]]
    BY DEF Exchange, Sound
  <2>2. /\ I = {x \in 1..n : Is(s[x], {".json"}) /\ s[x].data.kind \in {"coco"}}
        /\ J = {x \in 1..n : Is(u[x], {".json"}) /\ u[x].data.kind \in {"coco"}}
    BY <2>1 DEF Positions, Kinds
  <2> QED BY <2>1, <2>2 DEF At
<1>2. ~ (i \in I /\ i + 1 \in I)
  BY DEF Exchange, Compete, Kinds
<1>3. CASE I = {}
  <2>1. J = {}
    BY <1>1, <1>3 DEF At
  <2> QED BY <1>3, <2>1, PairedMoved DEF Manifest
<1>4. CASE I # {}
  <2>1. First(I) \in I /\ First(J) = w[First(I)]
    BY <1>1, <1>2, <1>4, FirstMoved
  <2>2. u[First(J)] = s[First(I)]
    BY <1>1, <2>1 DEF Exchange
  <2>3. J # {}
    BY <1>1, <1>4 DEF At
  <2>4. Manifest(s) = ParseCoco(s, s[First(I)]) /\ Manifest(u) = ParseCoco(u, s[First(I)])
    BY <1>4, <2>2, <2>3 DEF Manifest
  <2> QED BY <2>4, CocoMoved
<1> QED BY <1>3, <1>4

LEMMA OrderKept == Packed => OrderDoesNotMatter
<1> SUFFICES ASSUME Packed, Accepted(archive), NEW i \in 1..(Len(files) - 1),
                    ~ Compete(files[i], files[i + 1])
             PROVE  Manifest(Swapped(files, i)) = manifest
  BY DEF OrderDoesNotMatter
<1>1. Sound(files, Len(archive))
  BY AcceptedFiles
<1>2. Len(files) = Len(archive)
  <2> PICK s : s = files
    OBVIOUS
  <2> DEFINE S == {s[j] : j \in DOMAIN s}
  <2>1. Len(archive) \in Nat /\ DOMAIN s = 1..Len(archive)
    BY <1>1 DEF Sound
  <2>2. s = [j \in DOMAIN s |-> s[j]]
    BY DEF files, Entries
  <2>3. s \in [1..Len(archive) -> S]
    BY <2>1, <2>2
  <2>4. s \in Seq(S)
    <3> HIDE DEF S
    <3> QED BY <2>1, <2>3, SeqDef
  <2>5. Len(s) \in Nat /\ DOMAIN s = 1..Len(s)
    <3> HIDE DEF S
    <3> QED BY <2>4, LenProperties
  <2>6. Len(s) = Len(archive)
    BY <2>1, <2>5
  <2> QED BY <2>6
<1>3. PICK s, n : s = files /\ n = Len(archive)
  OBVIOUS
<1>4. Sound(s, n) /\ i \in 1..(n - 1) /\ ~ Compete(s[i], s[i + 1])
  BY <1>1, <1>2, <1>3
<1>5. \E w : Exchange(s, Swapped(s, i), n, i, w)
  BY <1>4, SwapExchanges
<1>6. Manifest(Swapped(s, i)) = Manifest(s)
  BY <1>5, ManifestMoved
<1> QED BY <1>3, <1>6 DEF manifest

\* The order in which a tool packed the files changes nothing in the manifest,
\* unless it is the order of two files that compete.
THEOREM OrderOfFiles == Spec => []OrderDoesNotMatter
<1>1. Init => Packed
  BY PackedInit
<1>2. Packed /\ [Next]_archive => Packed'
  BY PackedStep
<1>3. Packed => OrderDoesNotMatter
  BY OrderKept
<1> QED BY <1>1, <1>2, <1>3, PTL DEF Spec

=============================================================================
