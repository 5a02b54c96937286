-------------------------- MODULE ExportArchiveProofs --------------------------
(***************************************************************************)
(* What users make of the labels, what an export describes, and that it is *)
(* read again, for any archives, names and bounds.                         *)
(*                                                                         *)
(* LabelsAreAsGiven speaks of the newest version that has a class.  That   *)
(* version may be any of them later on (an older one takes part in a       *)
(* rename, a newer one comes with the next Part), so that the invariant    *)
(* speaks of every version that has the class.                             *)
(*                                                                         *)
(* ResultDescribesObject counts the images of the archive.  A writer's     *)
(* files are a flattened sequence of an image and another file of every    *)
(* row, between others that are no images; the rows are of images, because *)
(* every sample of a manifest is (ManifestRecords), and edits keep that.   *)
(*                                                                         *)
(* ExportReadsBack puts the writers and the parsers together.  Rows are    *)
(* records, whose names are clean and whose annotations are numbers.  The  *)
(* archive that is written of them is accepted as it is, the parser finds  *)
(* the file of every image there (no two have one key), and reads what was *)
(* written of each annotation, under the number its label was given.       *)
(***************************************************************************)
EXTENDS ExportArchive, DatasetArchiveProofs

\* The versions are a sequence of records.
VersionsInv ==
  /\ \E S : versions \in Seq(S)
  /\ \A v \in DOMAIN versions :
       versions[v] = [archive |-> versions[v].archive, samples |-> versions[v].samples,
                      labels |-> versions[v].labels]

\* All versions that have a class agree on what a user made of it.
Agreed(c) ==
  IF given[c] = "deleted" THEN Defined(c) = {}
  ELSE Defined(c) # {} /\ \A v \in Defined(c) : versions[v].labels[c] = given[c]
GivenInv == \A c \in DOMAIN given : Agreed(c)

LInv == VersionsInv /\ GivenInv

LEMMA PositionsOfVersions ==
  ASSUME \E S : versions \in Seq(S)
  PROVE  Len(versions) \in Nat /\ DOMAIN versions = 1..Len(versions)
<1>1. PICK S : versions \in Seq(S)
  OBVIOUS
<1> QED BY <1>1, LenProperties

\* A function on the positions of the versions is a sequence.
LEMMA StillSequence ==
  ASSUME \E S : versions \in Seq(S), NEW f, DOMAIN f = DOMAIN versions,
         f = [v \in DOMAIN f |-> f[v]]
  PROVE  \E S : f \in Seq(S)
<1> DEFINE S == {f[v] : v \in DOMAIN f}
<1>1. Len(versions) \in Nat /\ DOMAIN f = 1..Len(versions)
  BY PositionsOfVersions
<1>2. f \in [1..Len(versions) -> S]
  BY <1>1
<1>3. f \in Seq(S)
  <2> HIDE DEF S
  <2> QED BY <1>1, <1>2, SeqDef
<1> QED BY <1>3

LEMMA UpsertedValues ==
  ASSUME NEW labels, NEW new
  PROVE  /\ DOMAIN Upserted(labels, new) = DOMAIN labels \cup DOMAIN new
         /\ \A c \in DOMAIN new : Upserted(labels, new)[c] = new[c]
         /\ \A c \in DOMAIN labels \ DOMAIN new : Upserted(labels, new)[c] = labels[c]
  BY DEF Upserted

\* The invariant gives the property: the newest version that has a class is one of them.
LEMMA AgreedShown == LInv => LabelsAreAsGiven
<1> SUFFICES ASSUME LInv, NEW c \in DOMAIN given
             PROVE  IF given[c] = "deleted" THEN c \notin Classes
                    ELSE c \in Classes /\ LatestLabels[c] = given[c]
  BY DEF LabelsAreAsGiven
<1>0. Agreed(c)
  BY DEF LInv, GivenInv
<1>1. c \in Classes <=> Defined(c) # {}
  BY DEF Classes, Defined
<1>2. CASE given[c] = "deleted"
  BY <1>0, <1>1, <1>2 DEF Agreed
<1>3. CASE given[c] # "deleted"
  <2> DEFINE Newest(v) == \A w \in Defined(c) : w <= v
             last == CHOOSE v \in Defined(c) : Newest(v)
  <2>1. Defined(c) # {} /\ \A v \in Defined(c) : versions[v].labels[c] = given[c]
    BY <1>0, <1>3 DEF Agreed
  <2>2. Len(versions) \in Nat /\ Defined(c) \subseteq 1..Len(versions)
    BY PositionsOfVersions DEF LInv, VersionsInv, Defined
  <2>3. \E v \in Defined(c) : Newest(v)
    BY <2>1, <2>2, GreatestPosition
  <2>4. last \in Defined(c)
    <3> HIDE DEF Newest
    <3> QED BY <2>3
  <2>5. LatestLabels[c] = versions[last].labels[c]
    BY <1>1, <2>1 DEF LatestLabels
  <2> QED BY <1>1, <1>3, <2>1, <2>4, <2>5
<1> QED BY <1>2, <1>3

LEMMA LInvInit == Init => LInv
<1> SUFFICES ASSUME Init PROVE LInv
  OBVIOUS
<1>1. versions \in Seq({}) /\ DOMAIN versions = {} /\ DOMAIN given = {}
  BY EmptySeq DEF Init, NoLabels
<1> QED BY <1>1 DEF LInv, VersionsInv, GivenInv

-----------------------------------------------------------------------------
(* Steps that change versions or labels.                                    *)

LEMMA ImportPartKeeps ==
  ASSUME LInv, NEW archive \in Archives, ImportPart(archive)
  PROVE  LInv'
<1> DEFINE manifest == Manifest(Entries(archive))
           new == [archive |-> archive, samples |-> {Row(s) : s \in manifest.samples},
                   labels |-> Upserted(NoLabels, manifest.labels)]
           last == Len(versions) + 1
<1>0. /\ versions' = Append(versions, new)
      /\ given' = [c \in DOMAIN given \ DOMAIN manifest.labels |-> given[c]]
  BY DEF ImportPart, Forget
<1>1. PICK S : versions \in Seq(S)
  BY DEF LInv, VersionsInv
<1>2. /\ Len(versions) \in Nat
      /\ DOMAIN versions = 1..Len(versions)
  BY <1>1, LenProperties
<1>3. DOMAIN new.labels = DOMAIN manifest.labels
  <2>1. DOMAIN new.labels = DOMAIN NoLabels \cup DOMAIN manifest.labels
    BY UpsertedValues
  <2> QED BY <2>1 DEF NoLabels
<1>4. /\ versions' \in Seq(S \cup {new})
      /\ DOMAIN versions' = 1..last
      /\ versions'[last] = new
      /\ \A v \in 1..Len(versions) : versions'[v] = versions[v]
  <2> HIDE DEF new
  <2>1. versions \in Seq(S \cup {new})
    BY <1>1, SeqMonotonic
  <2> QED BY <1>0, <1>2, <2>1, AppendProperties, LenProperties
<1>5. VersionsInv'
  <2> SUFFICES ASSUME NEW v \in DOMAIN versions'
               PROVE  versions'[v] = [archive |-> versions'[v].archive, samples |-> versions'[v].samples,
                                      labels |-> versions'[v].labels]
    BY <1>4 DEF VersionsInv
  <2>1. CASE v = last
    BY <2>1, <1>4
  <2>2. CASE v \in DOMAIN versions
    BY <2>2, <1>2, <1>4 DEF LInv, VersionsInv
  <2> QED BY <2>1, <2>2, <1>2, <1>4
<1>6. GivenInv'
  <2> SUFFICES ASSUME NEW c \in DOMAIN given' PROVE Agreed(c)'
    BY DEF GivenInv
  <2>1. c \in DOMAIN given /\ c \notin DOMAIN manifest.labels /\ given'[c] = given[c]
    BY <1>0
  <2>2. Agreed(c)
    BY <2>1 DEF LInv, GivenInv
  <2>3. Defined(c)' = Defined(c)
    <3> HIDE DEF new
    <3> QED BY <1>2, <1>3, <1>4, <2>1 DEF Defined
  <2>4. \A v \in Defined(c) : versions'[v] = versions[v]
    BY <1>2, <1>4 DEF Defined
  <2> QED BY <2>1, <2>2, <2>3, <2>4 DEF Agreed
<1> QED BY <1>5, <1>6 DEF LInv

\* A step that replaces the samples and the labels of versions.
Replaces(f, v) ==
  \E s, l : f[v] = [archive |-> versions[v].archive, samples |-> s, labels |-> l]

LEMMA FieldsReplaced ==
  ASSUME VersionsInv, versions' = [v \in DOMAIN versions |-> versions'[v]],
         \A v \in DOMAIN versions : Replaces(versions', v)
  PROVE  VersionsInv' /\ DOMAIN versions' = DOMAIN versions
<1>1. DOMAIN versions' = DOMAIN versions
  OBVIOUS
<1>2. \E S : versions' \in Seq(S)
  BY <1>1, StillSequence DEF VersionsInv
<1>3. ASSUME NEW v \in DOMAIN versions'
      PROVE  versions'[v] = [archive |-> versions'[v].archive, samples |-> versions'[v].samples,
                             labels |-> versions'[v].labels]
  BY <1>1, <1>3 DEF Replaces
<1> QED BY <1>1, <1>2, <1>3 DEF VersionsInv

LEMMA RecordExcept ==
  ASSUME NEW r, r = [archive |-> r.archive, samples |-> r.samples, labels |-> r.labels],
         NEW new
  PROVE  /\ [r EXCEPT !.samples = new]
              = [archive |-> r.archive, samples |-> new, labels |-> r.labels]
         /\ [r EXCEPT !.labels = new]
              = [archive |-> r.archive, samples |-> r.samples, labels |-> new]
<1>1. [r EXCEPT !.samples = new] = [archive |-> r.archive, samples |-> new, labels |-> r.labels]
  OBVIOUS
<1>2. [r EXCEPT !.labels = new] = [archive |-> r.archive, samples |-> r.samples, labels |-> new]
  OBVIOUS
<1> QED BY <1>1, <1>2

LEMMA Unchanged ==
  ASSUME VersionsInv, NEW v \in DOMAIN versions, versions'[v] = versions[v]
  PROVE  Replaces(versions', v)
  BY DEF VersionsInv, Replaces

\* Only what was made of the class changes, or is forgotten.
LEMMA OthersAgree ==
  ASSUME GivenInv, NEW c \in DOMAIN given, given'[c] = given[c],
         DOMAIN versions' = DOMAIN versions,
         \A v \in DOMAIN versions : c \in DOMAIN versions'[v].labels <=> c \in DOMAIN versions[v].labels,
         \A v \in Defined(c) : versions'[v].labels[c] = versions[v].labels[c]
  PROVE  Agreed(c)'
<1>1. Agreed(c)
  BY DEF GivenInv
<1>2. Defined(c)' = Defined(c)
  BY DEF Defined
<1> QED BY <1>1, <1>2 DEF Agreed

LEMMA RescanKeeps ==
  ASSUME LInv, NEW v \in DOMAIN versions, Rescan(v)
  PROVE  LInv'
<1> DEFINE manifest == Manifest(Entries(versions[v].archive))
           rows == {[s EXCEPT !.subset = SubsetFor(s.name)] : s \in versions[v].samples}
           labels == Upserted(versions[v].labels, manifest.labels)
<1>0. /\ versions' = [versions EXCEPT
                        ![v] = [archive |-> versions[v].archive, samples |-> rows, labels |-> labels]]
      /\ given' = [c \in DOMAIN given \ DOMAIN manifest.labels |-> given[c]]
  BY DEF Rescan, Forget
<1>1. /\ versions' = [w \in DOMAIN versions |-> versions'[w]]
      /\ \A w \in DOMAIN versions : w # v => versions'[w] = versions[w]
      /\ versions'[v] = [archive |-> versions[v].archive, samples |-> rows, labels |-> labels]
  <2> HIDE DEF rows, labels
  <2> QED BY <1>0
<1>2. VersionsInv' /\ DOMAIN versions' = DOMAIN versions
  <2>1. \A w \in DOMAIN versions : Replaces(versions', w)
    <3> SUFFICES ASSUME NEW w \in DOMAIN versions PROVE Replaces(versions', w)
      OBVIOUS
    <3>1. CASE w = v
      <4> HIDE DEF rows, labels
      <4> QED BY <3>1, <1>1 DEF Replaces
    <3>2. CASE w # v
      BY <3>2, <1>1, Unchanged DEF LInv
    <3> QED BY <3>1, <3>2
  <2> QED BY <2>1, <1>1, FieldsReplaced DEF LInv
<1>3. GivenInv'
  <2> SUFFICES ASSUME NEW c \in DOMAIN given' PROVE Agreed(c)'
    BY DEF GivenInv
  <2>1. c \in DOMAIN given /\ c \notin DOMAIN manifest.labels /\ given'[c] = given[c]
    BY <1>0
  <2>0. /\ versions'[v].labels = labels
        /\ DOMAIN labels = DOMAIN versions[v].labels \cup DOMAIN manifest.labels
        /\ \A d \in DOMAIN versions[v].labels \ DOMAIN manifest.labels :
             labels[d] = versions[v].labels[d]
    <3>1. versions'[v].labels = labels
      <4> HIDE DEF rows, labels
      <4> QED BY <1>1
    <3>2. /\ DOMAIN labels = DOMAIN versions[v].labels \cup DOMAIN manifest.labels
          /\ \A d \in DOMAIN versions[v].labels \ DOMAIN manifest.labels :
               labels[d] = versions[v].labels[d]
      <4> HIDE DEF manifest
      <4> QED BY UpsertedValues
    <3> HIDE DEF manifest, rows, labels
    <3> QED BY <3>1, <3>2
  <2> HIDE DEF manifest, rows, labels
  <2>2. c \in DOMAIN versions'[v].labels <=> c \in DOMAIN versions[v].labels
    BY <2>0, <2>1
  <2>3. v \in Defined(c) => versions'[v].labels[c] = versions[v].labels[c]
    BY <2>0, <2>1 DEF Defined
  <2> QED BY <1>1, <1>2, <2>1, <2>2, <2>3, OthersAgree DEF LInv, Defined
<1> QED BY <1>2, <1>3 DEF LInv

LEMMA ReplaceSampleKeeps ==
  ASSUME LInv, NEW v \in DOMAIN versions, NEW s, NEW new, ReplaceSample(v, s, new)
  PROVE  LInv'
<1> DEFINE rows == (versions[v].samples \ {s}) \cup {new}
<1>0. /\ versions' = [versions EXCEPT ![v].samples = rows]
      /\ given' = given
  BY DEF ReplaceSample
<1> HIDE DEF rows
<1>1. /\ versions' = [w \in DOMAIN versions |-> versions'[w]]
      /\ \A w \in DOMAIN versions : w # v => versions'[w] = versions[w]
      /\ versions'[v] = [archive |-> versions[v].archive, samples |-> rows,
                         labels |-> versions[v].labels]
  <2>1. versions' = [versions EXCEPT ![v] = [versions[v] EXCEPT !.samples = rows]]
    BY <1>0
  <2>2. [versions[v] EXCEPT !.samples = rows]
          = [archive |-> versions[v].archive, samples |-> rows, labels |-> versions[v].labels]
    BY RecordExcept DEF LInv, VersionsInv
  <2> QED BY <2>1, <2>2
<1>2. VersionsInv' /\ DOMAIN versions' = DOMAIN versions
  <2>1. \A w \in DOMAIN versions : Replaces(versions', w)
    BY <1>1, Unchanged DEF Replaces, LInv
  <2> QED BY <2>1, <1>1, FieldsReplaced DEF LInv
<1>3. GivenInv'
  <2> SUFFICES ASSUME NEW c \in DOMAIN given PROVE Agreed(c)'
    BY <1>0 DEF GivenInv
  <2>1. \A w \in DOMAIN versions : versions'[w].labels = versions[w].labels
    BY <1>1
  <2> QED BY <1>0, <1>2, <2>1, OthersAgree DEF LInv, Defined
<1> QED BY <1>2, <1>3 DEF LInv

LEMMA UpdateLabelKeeps ==
  ASSUME LInv, NEW c, NEW name \in NewNames, UpdateLabel(c, name)
  PROVE  LInv'
<1> DEFINE changed == IF Defined(c) = {} THEN {Len(versions)} ELSE Defined(c)
           one == [d \in {c} |-> name]
<1>0. /\ versions # << >>
      /\ versions' = [v \in DOMAIN versions |->
                        IF v \in changed
                        THEN [versions[v] EXCEPT !.labels = Upserted(versions[v].labels, one)]
                        ELSE versions[v]]
      /\ given' = Upserted(given, one)
  BY DEF UpdateLabel
<1>1. changed # {} /\ changed \subseteq DOMAIN versions
  <2>1. PICK S : versions \in Seq(S)
    BY DEF LInv, VersionsInv
  <2>2. Len(versions) \in DOMAIN versions
    BY <1>0, <2>1, EmptySeq, LenProperties
  <2> QED BY <2>2 DEF Defined
<1>2. DOMAIN one = {c} /\ one[c] = name
  OBVIOUS
<1> HIDE DEF one, changed
<1>3. /\ DOMAIN given' = DOMAIN given \cup {c}
      /\ given'[c] = name
      /\ \A d \in DOMAIN given \ {c} : given'[d] = given[d]
  <2>1. /\ DOMAIN Upserted(given, one) = DOMAIN given \cup DOMAIN one
        /\ \A d \in DOMAIN one : Upserted(given, one)[d] = one[d]
        /\ \A d \in DOMAIN given \ DOMAIN one : Upserted(given, one)[d] = given[d]
    BY UpsertedValues
  <2> QED BY <1>0, <1>2, <2>1
<1>4. \A v \in DOMAIN versions \ changed : versions'[v] = versions[v]
  BY <1>0
<1>5. \A v \in changed :
        /\ versions'[v] = [archive |-> versions[v].archive, samples |-> versions[v].samples,
                           labels |-> Upserted(versions[v].labels, one)]
        /\ versions'[v].labels = Upserted(versions[v].labels, one)
  <2> SUFFICES ASSUME NEW v \in changed, NEW new, new = Upserted(versions[v].labels, one)
               PROVE  /\ versions'[v] = [archive |-> versions[v].archive,
                                         samples |-> versions[v].samples, labels |-> new]
                      /\ versions'[v].labels = new
    OBVIOUS
  <2>1. versions'[v] = [versions[v] EXCEPT !.labels = new]
    BY <1>0, <1>1
  <2>2. versions'[v] = [archive |-> versions[v].archive, samples |-> versions[v].samples,
                        labels |-> new]
    BY <1>1, <2>1, RecordExcept DEF LInv, VersionsInv
  <2> QED BY <2>2
<1>6. \A v \in changed :
        /\ DOMAIN versions'[v].labels = DOMAIN versions[v].labels \cup {c}
        /\ versions'[v].labels[c] = name
        /\ \A d \in DOMAIN versions[v].labels \ {c} : versions'[v].labels[d] = versions[v].labels[d]
  <2> SUFFICES ASSUME NEW v \in changed
               PROVE  /\ DOMAIN versions'[v].labels = DOMAIN versions[v].labels \cup {c}
                      /\ versions'[v].labels[c] = name
                      /\ \A d \in DOMAIN versions[v].labels \ {c} :
                           versions'[v].labels[d] = versions[v].labels[d]
    OBVIOUS
  <2> DEFINE old == versions[v].labels
  <2>1. versions'[v].labels = Upserted(old, one)
    BY <1>5
  <2> HIDE DEF old
  <2>2. /\ DOMAIN Upserted(old, one) = DOMAIN old \cup DOMAIN one
        /\ \A d \in DOMAIN one : Upserted(old, one)[d] = one[d]
        /\ \A d \in DOMAIN old \ DOMAIN one : Upserted(old, one)[d] = old[d]
    BY UpsertedValues
  <2> QED BY <1>2, <2>1, <2>2 DEF old
<1>7. VersionsInv' /\ DOMAIN versions' = DOMAIN versions
  <2>1. ASSUME NEW v \in DOMAIN versions PROVE Replaces(versions', v)
    <3>1. CASE v \in changed
      BY <1>5, <3>1 DEF Replaces
    <3>2. CASE v \notin changed
      <4>1. versions'[v] = versions[v]
        BY <1>4, <3>2
      <4> QED BY <4>1, Unchanged DEF LInv
    <3> QED BY <3>1, <3>2
  <2>2. versions' = [v \in DOMAIN versions |-> versions'[v]]
    BY <1>0
  <2> QED BY <2>1, <2>2, FieldsReplaced DEF LInv
<1>8. GivenInv'
  <2> SUFFICES ASSUME NEW d \in DOMAIN given' PROVE Agreed(d)'
    BY DEF GivenInv
  <2>1. CASE d = c
    <3>1. Defined(c) \subseteq changed
      BY DEF changed
    <3>2. Defined(c)' = changed
      BY <1>1, <1>4, <1>6, <1>7, <3>1 DEF Defined
    <3>3. given'[c] # "deleted"
      BY <1>3, NamesAreNames DEF NamesAreNames
    <3> QED BY <1>1, <1>3, <1>6, <2>1, <3>2, <3>3 DEF Agreed
  <2>2. CASE d # c
    <3>1. d \in DOMAIN given /\ given'[d] = given[d]
      BY <1>3, <2>2
    <3>2. \A v \in DOMAIN versions :
            /\ d \in DOMAIN versions'[v].labels <=> d \in DOMAIN versions[v].labels
            /\ d \in DOMAIN versions[v].labels => versions'[v].labels[d] = versions[v].labels[d]
      BY <1>4, <1>6, <2>2
    <3> QED BY <1>7, <3>1, <3>2, OthersAgree DEF LInv, Defined
  <2> QED BY <2>1, <2>2
<1> QED BY <1>7, <1>8 DEF LInv

LEMMA DeleteLabelKeeps ==
  ASSUME LInv, NEW c, DeleteLabel(c)
  PROVE  LInv'
<1> DEFINE one == [d \in {c} |-> "deleted"]
           Rest(v) == [d \in DOMAIN versions[v].labels \ {c} |-> versions[v].labels[d]]
<1>0. /\ versions' = [v \in DOMAIN versions |-> [versions[v] EXCEPT !.labels = Rest(v)]]
      /\ given' = Upserted(given, one)
  BY DEF DeleteLabel
<1>1. DOMAIN one = {c} /\ one[c] = "deleted"
  OBVIOUS
<1>2. \A v : /\ DOMAIN Rest(v) = DOMAIN versions[v].labels \ {c}
             /\ \A d \in DOMAIN versions[v].labels \ {c} : Rest(v)[d] = versions[v].labels[d]
  OBVIOUS
<1> HIDE DEF one, Rest
<1>3. /\ DOMAIN given' = DOMAIN given \cup {c}
      /\ given'[c] = "deleted"
      /\ \A d \in DOMAIN given \ {c} : given'[d] = given[d]
  <2>1. /\ DOMAIN Upserted(given, one) = DOMAIN given \cup DOMAIN one
        /\ \A d \in DOMAIN one : Upserted(given, one)[d] = one[d]
        /\ \A d \in DOMAIN given \ DOMAIN one : Upserted(given, one)[d] = given[d]
    BY UpsertedValues
  <2> QED BY <1>0, <1>1, <2>1
<1>4. \A v \in DOMAIN versions :
        /\ versions'[v] = [archive |-> versions[v].archive, samples |-> versions[v].samples,
                           labels |-> Rest(v)]
        /\ versions'[v].labels = Rest(v)
  BY <1>0, RecordExcept DEF LInv, VersionsInv
<1>5. VersionsInv' /\ DOMAIN versions' = DOMAIN versions
  <2>1. \A v \in DOMAIN versions : Replaces(versions', v)
    BY <1>4 DEF Replaces
  <2>2. versions' = [v \in DOMAIN versions |-> versions'[v]]
    BY <1>0
  <2> QED BY <2>1, <2>2, FieldsReplaced DEF LInv
<1>6. GivenInv'
  <2> SUFFICES ASSUME NEW d \in DOMAIN given' PROVE Agreed(d)'
    BY DEF GivenInv
  <2>1. CASE d = c
    <3>1. Defined(c)' = {}
      BY <1>2, <1>4, <1>5 DEF Defined
    <3> QED BY <1>3, <2>1, <3>1 DEF Agreed
  <2>2. CASE d # c
    <3>1. d \in DOMAIN given /\ given'[d] = given[d]
      BY <1>3, <2>2
    <3>2. \A v \in DOMAIN versions :
            /\ d \in DOMAIN versions'[v].labels <=> d \in DOMAIN versions[v].labels
            /\ d \in DOMAIN versions[v].labels => versions'[v].labels[d] = versions[v].labels[d]
      BY <1>2, <1>4, <2>2
    <3> QED BY <1>5, <3>1, <3>2, OthersAgree DEF LInv, Defined
  <2> QED BY <2>1, <2>2
<1> QED BY <1>5, <1>6 DEF LInv

\* The export job reads versions and labels, and changes neither.
LEMMA ExportKeeps ==
  ASSUME LInv, UNCHANGED <<versions, given>>
  PROVE  LInv'
  BY DEF LInv, VersionsInv, GivenInv, Agreed, Defined

LEMMA LInvStep ==
  ASSUME LInv, [Next]_vars
  PROVE  LInv'
<1>1. ASSUME NEW archive \in Archives, ImportPart(archive) PROVE LInv'
  BY <1>1, ImportPartKeeps
<1>2. ASSUME NEW v \in DOMAIN versions, Rescan(v) PROVE LInv'
  BY <1>2, RescanKeeps
<1>3. ASSUME NEW v \in DOMAIN versions, NEW s \in versions[v].samples,
             MoveSample(v, s) \/ DeleteSample(v, s)
      PROVE  LInv'
  BY <1>3, ReplaceSampleKeeps DEF MoveSample, DeleteSample
<1>4. ASSUME NEW c \in 0..MaxClass, NEW name \in NewNames, UpdateLabel(c, name) PROVE LInv'
  BY <1>4, UpdateLabelKeeps
<1>5. ASSUME NEW c \in 0..MaxClass, DeleteLabel(c) PROVE LInv'
  BY <1>5, DeleteLabelKeeps
<1>6. ASSUME NEW format \in Formats, NEW filter \in Filters, QueueExport(format, filter) PROVE LInv'
  BY <1>6, ExportKeeps DEF QueueExport
<1>7. CASE CancelRead \/ CancelCommit
  BY <1>7, ExportKeeps DEF CancelRead, CancelCommit
<1>8. ASSUME NEW w \in Workers, Execution(w) PROVE LInv'
  <2>1. UNCHANGED <<versions, given>>
    BY <1>8 DEF Execution, Take, Begin, Collect, ObserveCancel, Pack, Package, Commit, Raise,
                WorkerCrash, Redeliver, Keeps
  <2> QED BY <2>1, ExportKeeps
<1>9. CASE UNCHANGED vars
  BY <1>9, ExportKeeps DEF vars
<1> QED BY <1>1, <1>2, <1>3, <1>4, <1>5, <1>6, <1>7, <1>8, <1>9 DEF Next

-----------------------------------------------------------------------------
\* What a user has made of a class holds in every version that has it, and is
\* what the newest of them shows, for any archives, names and numbers of Parts.
THEOREM LabelsStayAsGiven == Spec => []LabelsAreAsGiven
<1>1. Spec => []LInv
  BY LInvInit, LInvStep, PTL DEF Spec
<1> QED BY <1>1, AgreedShown, PTL

-----------------------------------------------------------------------------
(* Images and labels.                                                       *)

SubsetNames == {"none", "train", "val", "test"}
LEMMA SubsetNamed == \A n : SubsetFor(n) \in SubsetNames
  BY DEF SubsetFor, SubsetNames

LEMMA LabelsAre ==
  ASSUME NEW f
  PROVE  f \in Labels <=> /\ DOMAIN f \subseteq -1..MaxClass
                          /\ f \in [DOMAIN f -> NewNames \cup ToSet(ClassNames)]
  BY DEF Labels

\* The file that a COCO entry means, if there is one, is an image.
LEMMA CocoImageFound ==
  ASSUME NEW files, NEW n \in Nat, DOMAIN files = 1..n, NEW wanted, CocoImage(files, wanted) # NoFile
  PROVE  CocoImage(files, wanted) \in NamesAt(files, Positions(files, ImageSuffixes))
<1> DEFINE images == NamesAt(files, Positions(files, ImageSuffixes))
           exact == {m \in images : LowerName(m) = LowerName(wanted)}
           last == {i \in DOMAIN files : files[i].name \in exact}
           Newest(i) == \A j \in last : j <= i
           named == {m \in images : /\ Lower(m.stem) = Lower(wanted.stem)
                                    /\ m.suffix = wanted.suffix}
<1>1. CocoImage(files, wanted) = CASE exact # {} -> files[CHOOSE i \in last : Newest(i)].name
                                   [] exact = {} /\ Cardinality(named) = 1 -> CHOOSE m \in named : TRUE
                                   [] OTHER -> NoFile
  BY DEF CocoImage
<1>2. CASE exact # {}
  <2>1. last # {} /\ last \subseteq 1..n
    BY <1>2 DEF NamesAt, Positions
  <2>2. \E i \in last : Newest(i)
    <3> HIDE DEF last
    <3> QED BY <2>1, GreatestPosition
  <2>3. (CHOOSE i \in last : Newest(i)) \in last
    <3> HIDE DEF last, Newest
    <3> QED BY <2>2
  <2>4. \A i \in last : files[i].name \in images
    OBVIOUS
  <2> HIDE DEF last, images, exact, Newest
  <2> QED BY <1>1, <1>2, <2>3, <2>4 DEF images
<1>3. CASE exact = {}
  <2>1. Cardinality(named) = 1 /\ CocoImage(files, wanted) = CHOOSE m \in named : TRUE
    <3> HIDE DEF exact, named, last, Newest
    <3> QED BY <1>1, <1>3
  <2>2. named # {}
    BY <2>1, FS_EmptySet
  <2> QED BY <2>1, <2>2
<1> QED BY <1>2, <1>3

-----------------------------------------------------------------------------
(* What the writers put into the archive.                                   *)

\* The images are counted by their samples.
LEMMA ImagesCounted ==
  ASSUME NEW n \in Nat, NEW files, NEW p \in [1..n -> DOMAIN files],
         \A i, j \in 1..n : p[i] = p[j] => i = j,
         \A i \in 1..n : Is(files[p[i]], ImageSuffixes),
         \A k \in DOMAIN files : Is(files[k], ImageSuffixes) => \E i \in 1..n : k = p[i]
  PROVE  Cardinality(Positions(files, ImageSuffixes)) = n
<1> DEFINE I == Positions(files, ImageSuffixes)
<1>1. p \in [1..n -> I] /\ \A k \in I : \E i \in 1..n : k = p[i]
  BY DEF Positions
<1> HIDE DEF I
<1>2. p \in Bijection(1..n, I)
  BY <1>1 DEF Bijection, Injection, Surjection, IsInjective
<1>3. ExistsBijection(1..n, I)
  BY <1>2 DEF ExistsBijection
<1> QED BY <1>3, FS_CountingElements DEF I

\* The image and one other file of every sample, in this order, after k files
\* and before l files that are no images.
Layout(files, n, k, l) ==
  /\ DOMAIN files = 1..(k + 2 * n + l)
  /\ \A i \in 1..n : /\ Is(files[k + (2 * i - 1)], ImageSuffixes)
                     /\ ~ Is(files[k + 2 * i], ImageSuffixes)
  /\ \A j \in 1..k : ~ Is(files[j], ImageSuffixes)
  /\ \A j \in 1..l : ~ Is(files[k + 2 * n + j], ImageSuffixes)

LEMMA OneImageEach ==
  ASSUME NEW n \in Nat, NEW k \in Nat, NEW l \in Nat, NEW files, Layout(files, n, k, l)
  PROVE  Cardinality(Positions(files, ImageSuffixes)) = n
<1> USE DEF Layout
<1> DEFINE p == [i \in 1..n |-> k + (2 * i - 1)]
<1>1. \A i \in 1..n : p[i] = k + (2 * i - 1)
  OBVIOUS
<1>2. p \in [1..n -> DOMAIN files]
  <2>1. \A i \in 1..n : k + (2 * i - 1) \in 1..(k + 2 * n + l)
    OBVIOUS
  <2> QED BY <2>1
<1> HIDE DEF p
<1>3. \A i, j \in 1..n : p[i] = p[j] => i = j
  BY <1>1
<1>4. \A i \in 1..n : Is(files[p[i]], ImageSuffixes)
  BY <1>1
<1>5. ASSUME NEW m \in DOMAIN files, Is(files[m], ImageSuffixes) PROVE \E i \in 1..n : m = p[i]
  <2>1. ~ (m \in 1..k)
    BY <1>5
  <2>2. ~ (m > k + 2 * n)
    <3> SUFFICES ASSUME m > k + 2 * n PROVE FALSE
      OBVIOUS
    <3> DEFINE j == m - (k + 2 * n)
    <3>1. j \in 1..l /\ m = k + 2 * n + j
      OBVIOUS
    <3> HIDE DEF j
    <3> QED BY <1>5, <3>1
  <2> DEFINE d == m - k
             i == (d + 1) \div 2
  <2>3. d \in 1..(2 * n) /\ m = k + d
    BY <2>1, <2>2
  <2> HIDE DEF d
  <2>4. i \in 1..n /\ (d = 2 * i - 1 \/ d = 2 * i)
    BY <2>3
  <2> HIDE DEF i
  <2>5. d # 2 * i
    BY <1>5, <2>3, <2>4
  <2>6. m = k + (2 * i - 1)
    BY <2>3, <2>4, <2>5
  <2>7. m = p[i] /\ i \in 1..n
    BY <1>1, <2>4, <2>6
  <2> QED BY <2>7
<1> QED BY <1>2, <1>3, <1>4, <1>5, ImagesCounted

\* A writer's files: those of head, an image and another file of every row, those
\* of tail.
NoImage(s) == \A j \in 1..Len(s) : ~ Is(s[j], ImageSuffixes)
InPairs(seqs, a, b, n) ==
  \A i \in 1..n : /\ seqs[i] = <<a[i], b[i]>>
                  /\ Is(a[i], ImageSuffixes) /\ ~ Is(b[i], ImageSuffixes)

Writes(files, head, seqs, tail, a, b, n, Y) ==
  /\ n \in Nat /\ a \in [1..n -> Y] /\ b \in [1..n -> Y] /\ seqs \in [1..n -> Seq(Y)]
  /\ InPairs(seqs, a, b, n)
  /\ head \in Seq(Y) /\ tail \in Seq(Y) /\ NoImage(head) /\ NoImage(tail)
  /\ files = (head \o FlattenSeq(seqs)) \o tail

LEMMA PairsWritten ==
  ASSUME NEW files, NEW head, NEW seqs, NEW tail, NEW a, NEW b, NEW n, NEW Y,
         Writes(files, head, seqs, tail, a, b, n, Y)
  PROVE  /\ Cardinality(Positions(files, ImageSuffixes)) = n
         /\ FlattenSeq(seqs) \in Seq(Y)
<1>0. /\ n \in Nat /\ a \in [1..n -> Y] /\ b \in [1..n -> Y] /\ seqs \in [1..n -> Seq(Y)]
      /\ InPairs(seqs, a, b, n)
      /\ head \in Seq(Y) /\ tail \in Seq(Y) /\ NoImage(head) /\ NoImage(tail)
      /\ files = (head \o FlattenSeq(seqs)) \o tail
  BY DEF Writes
<1>1. PICK flat : flat = FlattenSeq(seqs)
  OBVIOUS
<1>2. flat \in Seq(Y) /\ Len(flat) = 2 * n /\ Alternates(flat, n, a, b)
  <2>1. \A i \in 1..n : seqs[i] = <<a[i], b[i]>>
    BY <1>0 DEF InPairs
  <2> QED BY <1>0, <1>1, <2>1, FlattenPairs
<1>3. PICK k, l : k = Len(head) /\ l = Len(tail)
  OBVIOUS
<1>4. k \in Nat /\ l \in Nat
  BY <1>0, <1>3, LenProperties
<1>5. PICK s : s = head \o flat
  OBVIOUS
<1>6. s \in Seq(Y) /\ Len(s) = k + Len(flat) /\ After(s, 0, head) /\ After(s, k, flat)
  BY <1>0, <1>2, <1>3, <1>5, Joined
<1>7. PICK t : t = s \o tail
  OBVIOUS
<1>8. t \in Seq(Y) /\ Len(t) = Len(s) + l /\ After(t, 0, s) /\ After(t, Len(s), tail)
  BY <1>0, <1>3, <1>6, <1>7, Joined
<1>9. Len(s) = k + 2 * n /\ Len(t) = k + 2 * n + l
  BY <1>2, <1>6, <1>8
<1>10. DOMAIN t = 1..(k + 2 * n + l)
  BY <1>8, <1>9, LenProperties
<1>11. \A x \in 1..(k + 2 * n) : t[x] = s[x]
  <2>1. \A x \in 1..(k + 2 * n) : x \in 1..Len(s) /\ 0 + x = x
    BY <1>0, <1>4, <1>9
  <2> QED BY <1>8, <2>1 DEF After
<1>12. ASSUME NEW i \in 1..n
       PROVE  /\ Is(t[k + (2 * i - 1)], ImageSuffixes)
              /\ ~ Is(t[k + 2 * i], ImageSuffixes)
  <2>1. PICK x, y : x = 2 * i - 1 /\ y = 2 * i
    OBVIOUS
  <2>2. x \in 1..Len(flat) /\ y \in 1..Len(flat) /\ k + x \in 1..(k + 2 * n) /\ k + y \in 1..(k + 2 * n)
    BY <1>0, <1>2, <1>4, <2>1
  <2>3. s[k + x] = flat[x] /\ s[k + y] = flat[y]
    BY <1>6, <2>2 DEF After
  <2>4. flat[x] = a[i] /\ flat[y] = b[i]
    BY <1>2, <2>1 DEF Alternates
  <2>5. t[k + x] = s[k + x] /\ t[k + y] = s[k + y]
    BY <1>11, <2>2
  <2>6. Is(a[i], ImageSuffixes) /\ ~ Is(b[i], ImageSuffixes)
    BY <1>0 DEF InPairs
  <2>7. Is(t[k + x], ImageSuffixes) /\ ~ Is(t[k + y], ImageSuffixes)
    BY <2>3, <2>4, <2>5, <2>6, Zenon
  <2> QED BY <2>1, <2>7
<1>13. ASSUME NEW j \in 1..k PROVE ~ Is(t[j], ImageSuffixes)
  <2>1. j \in 1..(k + 2 * n) /\ j \in 1..Len(head) /\ 0 + j = j
    BY <1>0, <1>3, <1>4
  <2>2. s[j] = head[j]
    BY <1>6, <2>1 DEF After
  <2> QED BY <1>0, <1>11, <2>1, <2>2 DEF NoImage
<1>14. ASSUME NEW j \in 1..l PROVE ~ Is(t[k + 2 * n + j], ImageSuffixes)
  <2>1. t[Len(s) + j] = tail[j]
    BY <1>3, <1>8 DEF After
  <2> QED BY <1>0, <1>3, <1>9, <2>1 DEF NoImage
<1>15. Cardinality(Positions(t, ImageSuffixes)) = n
  <2>1. Layout(t, n, k, l)
    BY <1>0, <1>10, <1>12, <1>13, <1>14 DEF Layout
  <2> QED BY <1>0, <1>4, <2>1, OneImageEach
<1> QED BY <1>0, <1>1, <1>2, <1>5, <1>7, <1>15

\* The rows a writer is given.
OfImages(records, n) ==
  /\ n \in Nat /\ DOMAIN records = 1..n
  /\ \A i \in 1..n : IsName(records[i].name) /\ records[i].name.suffix \in ImageSuffixes

LEMMA SuffixOfLabelFile ==
  ASSUME NEW name, IsName(name)
  PROVE  LabelFile(name).suffix = ".txt"
<1> DEFINE dirs == [i \in DOMAIN name.dirs |-> IF Lower(name.dirs[i]) = "images" THEN "labels" ELSE name.dirs[i]]
<1>1. LabelFile(name) = [name EXCEPT !.dirs = dirs, !.suffix = ".txt"]
  BY DEF LabelFile
<1> HIDE DEF dirs
<1>2. "suffix" \in DOMAIN name
  BY DEF IsName, Name
<1> QED BY <1>1, <1>2

\* The files of rows: an image and another file of each.
OfRows(seqs, n) ==
  /\ n \in Nat /\ seqs = [i \in 1..n |-> <<seqs[i][1], seqs[i][2]>>]
  /\ \A i \in 1..n : Is(seqs[i][1], ImageSuffixes) /\ ~ Is(seqs[i][2], ImageSuffixes)

\* Other files, before or after them.
Others(s) == NoImage(s) /\ \E Z : s \in Seq(Z)

Joining(head, seqs, tail) == (head \o FlattenSeq(seqs)) \o tail

LEMMA RowsWritten ==
  ASSUME NEW n, NEW seqs, NEW head, NEW tail, OfRows(seqs, n), Others(head), Others(tail)
  PROVE  /\ Cardinality(Positions(Joining(head, seqs, tail), ImageSuffixes)) = n
         /\ \E Y : head \in Seq(Y) /\ FlattenSeq(seqs) \in Seq(Y)
<1>1. PICK H, T : head \in Seq(H) /\ tail \in Seq(T)
  BY DEF Others
<1> DEFINE first(i) == seqs[i][1]
           second(i) == seqs[i][2]
           Y == ({first(i) : i \in 1..n} \cup {second(i) : i \in 1..n}) \cup (H \cup T)
           a == [i \in 1..n |-> first(i)]
           b == [i \in 1..n |-> second(i)]
<1>2. n \in Nat /\ seqs = [i \in 1..n |-> <<first(i), second(i)>>]
  BY DEF OfRows
<1>3. \A i \in 1..n : Is(first(i), ImageSuffixes) /\ ~ Is(second(i), ImageSuffixes)
  BY DEF OfRows
<1> HIDE DEF first, second
<1>4. a \in [1..n -> Y] /\ b \in [1..n -> Y]
  OBVIOUS
<1>5. \A i \in 1..n : <<first(i), second(i)>> \in Seq(Y) /\ a[i] = first(i) /\ b[i] = second(i)
  OBVIOUS
<1>6. seqs \in [1..n -> Seq(Y)]
  <2> HIDE DEF Y
  <2> QED BY <1>2, <1>5
<1>7. head \in Seq(Y) /\ tail \in Seq(Y)
  <2>1. H \subseteq Y /\ T \subseteq Y
    OBVIOUS
  <2> HIDE DEF Y
  <2> QED BY <1>1, <2>1, SeqMonotonic
<1> HIDE DEF Y, a, b
<1>8. InPairs(seqs, a, b, n)
  <2>1. \A i \in 1..n : seqs[i] = <<first(i), second(i)>>
    BY <1>2
  <2> QED BY <1>3, <1>5, <2>1 DEF InPairs
<1>9. PICK files : files = (head \o FlattenSeq(seqs)) \o tail
  OBVIOUS
<1>10. Writes(files, head, seqs, tail, a, b, n, Y)
  BY <1>2, <1>4, <1>6, <1>7, <1>8, <1>9 DEF Writes, Others
<1>11. Cardinality(Positions(files, ImageSuffixes)) = n /\ FlattenSeq(seqs) \in Seq(Y)
  BY <1>10, PairsWritten
<1> QED BY <1>7, <1>9, <1>11 DEF Joining

LEMMA YoloImages ==
  ASSUME NEW n, NEW records, OfImages(records, n), NEW labels
  PROVE  Cardinality(Positions(YoloFiles(records, labels), ImageSuffixes)) = n
<1> DEFINE yaml == File(Name(<< >>, "data", ".yaml"), [kind |-> "yaml", labels |-> Renumbered(labels), pose |-> FALSE])
           image(i) == File(records[i].name, Image)
           text(i) == File(LabelFile(records[i].name), [kind |-> "yolo", lines |-> YoloLines(records[i], labels)])
           seqs == [i \in 1..n |-> <<image(i), text(i)>>]
<1>1. n \in Nat /\ DOMAIN records = 1..n
  BY DEF OfImages
<1>2. YoloFiles(records, labels) = <<yaml>> \o FlattenSeq(seqs)
  BY <1>1 DEF YoloFiles, Mapped
<1>3. ASSUME NEW i \in 1..n PROVE Is(image(i), ImageSuffixes) /\ ~ Is(text(i), ImageSuffixes)
  <2>1. IsName(records[i].name) /\ records[i].name.suffix \in ImageSuffixes
    BY DEF OfImages
  <2>2. LabelFile(records[i].name).suffix = ".txt"
    BY <2>1, SuffixOfLabelFile
  <2>3. image(i).name = records[i].name /\ text(i).name = LabelFile(records[i].name)
    BY DEF File
  <2> HIDE DEF image, text
  <2> QED BY <2>1, <2>2, <2>3 DEF Is, ImageSuffixes
<1>4. ~ Is(yaml, ImageSuffixes)
  BY DEF File, Name, Is, ImageSuffixes
<1> HIDE DEF yaml, image, text
<1>5. OfRows(seqs, n)
  <2>1. \A i \in 1..n : seqs[i][1] = image(i) /\ seqs[i][2] = text(i)
    OBVIOUS
  <2>2. seqs = [i \in 1..n |-> <<seqs[i][1], seqs[i][2]>>]
    BY <2>1
  <2> HIDE DEF seqs
  <2> QED BY <1>1, <1>3, <2>1, <2>2 DEF OfRows
<1> HIDE DEF seqs
<1>6. PICK head, tail : head = <<yaml>> /\ tail = << >>
  OBVIOUS
<1>7. Others(head) /\ Others(tail)
  <2>1. head \in Seq({yaml}) /\ Len(head) = 1 /\ head[1] = yaml
    BY <1>6
  <2>2. tail \in Seq({yaml}) /\ Len(tail) = 0
    BY <1>6, EmptySeq
  <2> QED BY <1>4, <2>1, <2>2 DEF Others, NoImage
<1>8. /\ Cardinality(Positions(Joining(head, seqs, tail), ImageSuffixes)) = n
      /\ \E Y : head \in Seq(Y) /\ FlattenSeq(seqs) \in Seq(Y)
  BY <1>5, <1>7, RowsWritten
<1>9. Joining(head, seqs, tail) = head \o FlattenSeq(seqs)
  <2>1. PICK Y : head \in Seq(Y) /\ FlattenSeq(seqs) \in Seq(Y)
    BY <1>8
  <2>2. head \o FlattenSeq(seqs) \in Seq(Y)
    BY <2>1, ConcatProperties
  <2> QED BY <1>6, <2>2, ConcatEmptySeq DEF Joining
<1> QED BY <1>2, <1>6, <1>8, <1>9

LEMMA NoOthers ==
  ASSUME NEW s, s = << >>
  PROVE  Others(s) /\ Len(s) = 0
<1>1. s \in Seq({}) /\ Len(s) = 0
  BY EmptySeq
<1> QED BY <1>1 DEF Others, NoImage

\* Nothing is before or after the files of the rows.
LEMMA RowsOnly ==
  ASSUME NEW n, NEW seqs, OfRows(seqs, n)
  PROVE  Cardinality(Positions(FlattenSeq(seqs), ImageSuffixes)) = n
<1>1. PICK e : e = << >>
  OBVIOUS
<1>2. /\ Cardinality(Positions(Joining(e, seqs, e), ImageSuffixes)) = n
      /\ \E Y : e \in Seq(Y) /\ FlattenSeq(seqs) \in Seq(Y)
  BY <1>1, NoOthers, RowsWritten
<1>3. PICK Y : FlattenSeq(seqs) \in Seq(Y)
  BY <1>2
<1>4. Joining(e, seqs, e) = FlattenSeq(seqs)
  BY <1>1, <1>3, ConcatEmptySeq DEF Joining
<1> QED BY <1>2, <1>4

\* Another folder leaves the rest of a name.
LEMMA NameMoved ==
  ASSUME NEW name, IsName(name), NEW dirs, NEW suffix
  PROVE  /\ [name EXCEPT !.dirs = dirs].suffix = name.suffix
         /\ [name EXCEPT !.dirs = dirs, !.suffix = suffix].suffix = suffix
<1>1. "suffix" \in DOMAIN name /\ "dirs" \in DOMAIN name
  BY DEF IsName, Name
<1> QED BY <1>1

LEMMA LabelmeImages ==
  ASSUME NEW n, NEW records, OfImages(records, n), NEW labels
  PROVE  Cardinality(Positions(LabelmeFiles(records, labels), ImageSuffixes)) = n
<1> DEFINE image(i) == File([records[i].name EXCEPT !.dirs = <<"images", Folder(records[i])>>], Image)
           text(i) == File([records[i].name EXCEPT !.dirs = <<"annotations">> \o @, !.suffix = ".json"],
                           LabelmeDocument(records[i], labels))
           seqs == [i \in 1..n |-> <<image(i), text(i)>>]
<1>1. n \in Nat /\ DOMAIN records = 1..n
  BY DEF OfImages
<1>2. LabelmeFiles(records, labels) = FlattenSeq(seqs)
  BY <1>1 DEF LabelmeFiles, Mapped
<1>3. ASSUME NEW i \in 1..n PROVE Is(image(i), ImageSuffixes) /\ ~ Is(text(i), ImageSuffixes)
  <2>1. PICK name : name = records[i].name
    OBVIOUS
  <2>2. IsName(name) /\ name.suffix \in ImageSuffixes
    BY <2>1 DEF OfImages
  <2> DEFINE there == <<"images", Folder(records[i])>>
             dirs == <<"annotations">> \o name.dirs
  <2>3. /\ image(i).name = [name EXCEPT !.dirs = there]
        /\ text(i).name = [name EXCEPT !.dirs = dirs, !.suffix = ".json"]
    BY <2>1 DEF File
  <2> HIDE DEF image, text, there, dirs
  <2>4. image(i).name.suffix = name.suffix /\ text(i).name.suffix = ".json"
    BY <2>2, <2>3, NameMoved
  <2> QED BY <2>2, <2>4 DEF Is, ImageSuffixes
<1> HIDE DEF image, text
<1>4. OfRows(seqs, n)
  <2>1. \A i \in 1..n : seqs[i][1] = image(i) /\ seqs[i][2] = text(i)
    OBVIOUS
  <2>2. seqs = [i \in 1..n |-> <<seqs[i][1], seqs[i][2]>>]
    BY <2>1
  <2> HIDE DEF seqs
  <2> QED BY <1>1, <1>3, <2>1, <2>2 DEF OfRows
<1> HIDE DEF seqs
<1> QED BY <1>2, <1>4, RowsOnly

\* The members of a finite set can be listed.
LEMMA ListOfSet ==
  ASSUME NEW S, IsFiniteSet(S)
  PROVE  \E m \in Nat : SetToSeq(S) \in [1..m -> S]
<1> DEFINE m == Cardinality(S)
<1>1. m \in Nat /\ \E f : f \in Bijection(1..m, S)
  BY FS_CardinalityType DEF ExistsBijection
<1>2. \E f \in [1..m -> S] : IsInjective(f)
  BY <1>1 DEF Bijection, Injection
<1>3. SetToSeq(S) \in [1..m -> S]
  <2> HIDE DEF m
  <2>1. (CHOOSE f \in [1..m -> S] : IsInjective(f)) \in [1..m -> S]
    BY <1>2
  <2> QED BY <2>1 DEF SetToSeq, m
<1> QED BY <1>1, <1>3

LEMMA VocImages ==
  ASSUME NEW n, NEW records, OfImages(records, n), NEW labels
  PROVE  Cardinality(Positions(VocFiles(records, labels), ImageSuffixes)) = n
<1> DEFINE image(i) == File(VocImage(records[i].name), Image)
           text(i) == File(Name(<<"Annotations">>, records[i].name.stem, ".xml"), VocDocument(records[i], labels))
           seqs == [i \in 1..n |-> <<image(i), text(i)>>]
           subset(r) == IF r.subset = "none" THEN "train" ELSE r.subset
           S == {subset(r) : r \in ToSet(records)}
           lists == SetToSeq(S)
           list(s) == File(Name(<<"ImageSets", "Main">>, s, ".txt"), [kind |-> "names"])
           tail == [i \in DOMAIN lists |-> list(lists[i])]
<1>1. n \in Nat /\ DOMAIN records = 1..n
  BY DEF OfImages
<1>2. VocFiles(records, labels) = FlattenSeq(seqs) \o tail
  BY <1>1 DEF VocFiles, Mapped
<1>3. ASSUME NEW i \in 1..n PROVE Is(image(i), ImageSuffixes) /\ ~ Is(text(i), ImageSuffixes)
  <2>1. PICK name : name = records[i].name
    OBVIOUS
  <2>2. IsName(name) /\ name.suffix \in ImageSuffixes
    BY <2>1 DEF OfImages
  <2> DEFINE there == <<"JPEGImages">>
  <2>3. image(i).name = [name EXCEPT !.dirs = there]
    BY <2>1 DEF File, VocImage
  <2>4. text(i).name.suffix = ".xml"
    BY DEF File, Name
  <2> HIDE DEF image, text, there
  <2>5. image(i).name.suffix = name.suffix
    BY <2>2, <2>3, NameMoved
  <2> QED BY <2>2, <2>4, <2>5 DEF Is, ImageSuffixes
<1>4. \A s : ~ Is(list(s), ImageSuffixes)
  BY DEF File, Name, Is, ImageSuffixes
<1> HIDE DEF image, text, list
<1>5. OfRows(seqs, n)
  <2>1. \A i \in 1..n : seqs[i][1] = image(i) /\ seqs[i][2] = text(i)
    OBVIOUS
  <2>2. seqs = [i \in 1..n |-> <<seqs[i][1], seqs[i][2]>>]
    BY <2>1
  <2> HIDE DEF seqs
  <2> QED BY <1>1, <1>3, <2>1, <2>2 DEF OfRows
<1> HIDE DEF seqs
<1>6. IsFiniteSet(S)
  <2> DEFINE f == [i \in 1..n |-> subset(records[i])]
  <2>1. S = {f[i] : i \in 1..n}
    BY <1>1 DEF ToSet
  <2> HIDE DEF S
  <2>2. f \in [1..n -> S] /\ \A s \in S : \E i \in 1..n : f[i] = s
    <3> HIDE DEF subset
    <3> QED BY <2>1
  <2> HIDE DEF f
  <2>3. f \in Surjection(1..n, S)
    BY <2>2 DEF Surjection
  <2> QED BY <1>1, <2>3, FS_Interval, FS_Surjection
<1>7. PICK m \in Nat : lists \in [1..m -> S]
  <2> HIDE DEF S
  <2> QED BY <1>6, ListOfSet
<1>8. Others(tail)
  <2> DEFINE Z == {list(s) : s \in S}
  <2>1. tail \in [1..m -> Z]
    <3> HIDE DEF S, lists
    <3> QED BY <1>7
  <2>2. \A i \in 1..m : tail[i] = list(lists[i])
    <3> HIDE DEF lists
    <3> QED BY <1>7
  <2> HIDE DEF tail, Z
  <2>3. tail \in Seq(Z) /\ Len(tail) = m
    BY <2>1, IsASeq, LenProperties
  <2> QED BY <1>4, <2>2, <2>3 DEF Others, NoImage
<1>9. PICK e : e = << >>
  OBVIOUS
<1> HIDE DEF tail
<1>10. /\ Cardinality(Positions(Joining(e, seqs, tail), ImageSuffixes)) = n
       /\ \E Y : e \in Seq(Y) /\ FlattenSeq(seqs) \in Seq(Y)
  BY <1>5, <1>8, <1>9, NoOthers, RowsWritten
<1>11. PICK Y : FlattenSeq(seqs) \in Seq(Y)
  BY <1>10
<1>12. e \o FlattenSeq(seqs) = FlattenSeq(seqs)
  BY <1>9, <1>11, ConcatEmptySeq
<1>13. Joining(e, seqs, tail) = FlattenSeq(seqs) \o tail
  BY <1>12 DEF Joining
<1> QED BY <1>2, <1>10, <1>13

LEMMA CocoImages ==
  ASSUME NEW n, NEW records, OfImages(records, n), NEW labels
  PROVE  Cardinality(Positions(CocoFiles(records, labels), ImageSuffixes)) = n
<1> DEFINE json == File(Name(<< >>, "annotations", ".json"), CocoDocument(records, labels))
           image(i) == File(records[i].name, Image)
           images == [i \in 1..n |-> image(i)]
           Y == {image(i) : i \in 1..n} \cup {json}
<1>1. n \in Nat /\ DOMAIN records = 1..n
  BY DEF OfImages
<1>2. CocoFiles(records, labels) = Append(images, json)
  BY <1>1 DEF CocoFiles, Mapped
<1>3. ~ Is(json, ImageSuffixes)
  BY DEF File, Name, Is, ImageSuffixes
<1>4. \A i \in 1..n : Is(image(i), ImageSuffixes)
  BY DEF OfImages, File, Is
<1> HIDE DEF json, image
<1>5. images \in [1..n -> Y] /\ json \in Y /\ \A i \in 1..n : images[i] = image(i)
  OBVIOUS
<1> HIDE DEF images, Y
<1>6. images \in Seq(Y) /\ Len(images) = n
  BY <1>1, <1>5, IsASeq, LenProperties
<1>7. PICK files : files = Append(images, json)
  OBVIOUS
<1>8. /\ files \in Seq(Y) /\ Len(files) = n + 1
      /\ \A i \in 1..n : files[i] = images[i]
      /\ files[n + 1] = json
  BY <1>1, <1>5, <1>6, <1>7, AppendProperties
<1>9. DOMAIN files = 1..(n + 1)
  BY <1>8, LenProperties
<1>10. Positions(files, ImageSuffixes) = 1..n
  <2>1. \A i \in 1..n : Is(files[i], ImageSuffixes) /\ i \in DOMAIN files
    BY <1>1, <1>4, <1>5, <1>8, <1>9
  <2>2. ~ Is(files[n + 1], ImageSuffixes)
    BY <1>3, <1>8
  <2>3. \A i \in DOMAIN files : i \in 1..n \/ i = n + 1
    BY <1>1, <1>9
  <2> QED BY <2>1, <2>2, <2>3 DEF Positions
<1>11. Cardinality(1..n) = n
  BY <1>1, FS_Interval
<1> QED BY <1>2, <1>7, <1>10, <1>11

\* Every archive has one image for every row.
LEMMA WrittenImages ==
  ASSUME NEW n, NEW records, OfImages(records, n), NEW labels,
         NEW format \in {"yolo", "labelme", "voc", "coco"}
  PROVE  Cardinality(Positions(Written(format, records, labels), ImageSuffixes)) = n
<1>1. CASE format = "yolo"
  BY <1>1, YoloImages DEF Written
<1>2. CASE format = "labelme"
  BY <1>2, LabelmeImages DEF Written
<1>3. CASE format = "voc"
  BY <1>3, VocImages DEF Written
<1>4. CASE format = "coco"
  BY <1>4, CocoImages DEF Written
<1> QED BY <1>1, <1>2, <1>3, <1>4

-----------------------------------------------------------------------------
(* Names and keys.                                                          *)

\* A name that safe_relative_path leaves as it is.
CleanDirs(d) == IsSequence(d) /\ ToSet(d) \cap {".", "..", "/"} = {} /\ Len(d) < MaxDepth
CleanName(n) == IsName(n) /\ CleanDirs(n.dirs)

LEMMA CleanIsSafe ==
  ASSUME NEW n, CleanName(n)
  PROVE  SafeName(n) = n
<1>1. n = [dirs |-> n.dirs, stem |-> n.stem, suffix |-> n.suffix]
  BY DEF CleanName, IsName, Name
<1>2. PICK d : d = Normal(n.dirs)
  OBVIOUS
<1>3. d = n.dirs
  BY <1>2, NormalSame DEF CleanName, CleanDirs
<1>4. [n EXCEPT !.dirs = d] = n
  BY <1>1, <1>3
<1> QED BY <1>2, <1>4 DEF SafeName

\* What a parser calls a folder is not one that leaves the archive.
LEMMA LabelFileParts ==
  ASSUME NEW n, CleanName(n)
  PROVE  /\ CleanName(LabelFile(n)) /\ LabelFile(n).suffix = ".txt"
         /\ MatchKey(LabelFile(n)) = MatchKey(n)
<1> DEFINE turned(d) == IF Lower(d) = "images" THEN "labels" ELSE d
<1>0. PICK dirs : dirs = [i \in DOMAIN n.dirs |-> turned(n.dirs[i])]
  OBVIOUS
<1>1. n = [dirs |-> n.dirs, stem |-> n.stem, suffix |-> n.suffix]
  BY DEF CleanName, IsName, Name
<1>2. LabelFile(n) = [n EXCEPT !.dirs = dirs, !.suffix = ".txt"]
  BY <1>0 DEF LabelFile
<1>3. LabelFile(n) = [dirs |-> dirs, stem |-> n.stem, suffix |-> ".txt"]
  BY <1>1, <1>2
<1>4. /\ LabelFile(n).dirs = dirs /\ LabelFile(n).stem = n.stem /\ LabelFile(n).suffix = ".txt"
      /\ IsName(LabelFile(n))
  BY <1>3 DEF IsName, Name
<1>5. PICK m : m = Len(n.dirs) /\ m \in Nat /\ DOMAIN n.dirs = 1..m /\ m < MaxDepth
               /\ \A i \in 1..m : n.dirs[i] \in ToSet(n.dirs)
  BY SequenceIs DEF CleanName, CleanDirs
<1>6. \A d : Folded(turned(d)) = Folded(d)
  BY DEF Folded, Lower, LowerCase
<1>7. \A i \in 1..m : turned(n.dirs[i]) \notin {".", "..", "/"}
  BY <1>5 DEF CleanName, CleanDirs
<1> HIDE DEF turned
<1>8. DOMAIN dirs = 1..m /\ \A i \in 1..m : dirs[i] = turned(n.dirs[i])
  BY <1>0, <1>5
<1>9. CleanDirs(dirs)
  <2>1. dirs \in [1..m -> ToSet(dirs)]
    BY <1>0, <1>8 DEF ToSet
  <2>2. dirs \in Seq(ToSet(dirs))
    BY <1>5, <2>1, SeqDef
  <2>3. Len(dirs) = m
    BY <1>5, <1>8, <2>2, LenProperties
  <2>4. ToSet(dirs) \cap {".", "..", "/"} = {}
    BY <1>7, <1>8 DEF ToSet
  <2> QED BY <1>5, <2>2, <2>3, <2>4 DEF CleanDirs, IsSequence
<1>10. [i \in DOMAIN dirs |-> Folded(dirs[i])] = [i \in DOMAIN n.dirs |-> Folded(n.dirs[i])]
  BY <1>5, <1>6, <1>8
<1>11. MatchKey(LabelFile(n)) = MatchKey(n)
  BY <1>4, <1>10 DEF MatchKey
<1> QED BY <1>4, <1>9, <1>11 DEF CleanName

\* Names that differ in case only have one key.
LEMMA LowerNameKey ==
  ASSUME NEW n, NEW m, IsName(n), IsName(m), LowerName(n) = LowerName(m)
  PROVE  MatchKey(n) = MatchKey(m)
<1> DEFINE low(d) == [i \in DOMAIN d |-> Lower(d[i])]
           key(d) == [i \in DOMAIN d |-> Folded(d[i])]
           fold(x) == IF x \in {"images", "labels", "annotations"} THEN "__media__" ELSE x
<1>1. ASSUME NEW a, IsName(a)
      PROVE  LowerName(a) = [dirs |-> low(a.dirs), stem |-> Lower(a.stem), suffix |-> a.suffix]
  <2>1. a = [dirs |-> a.dirs, stem |-> a.stem, suffix |-> a.suffix]
    BY <1>1 DEF IsName, Name
  <2>2. PICK d, s : d = low(a.dirs) /\ s = Lower(a.stem)
    OBVIOUS
  <2>3. LowerName(a) = [a EXCEPT !.dirs = d, !.stem = s]
    BY <2>2 DEF LowerName
  <2>4. LowerName(a) = [dirs |-> d, stem |-> s, suffix |-> a.suffix]
    BY <2>1, <2>3
  <2> QED BY <2>2, <2>4
<1>2. low(n.dirs) = low(m.dirs) /\ Lower(n.stem) = Lower(m.stem)
  <2> HIDE DEF low
  <2>1. LowerName(n).dirs = low(n.dirs) /\ LowerName(n).stem = Lower(n.stem)
    BY <1>1
  <2>2. LowerName(m).dirs = low(m.dirs) /\ LowerName(m).stem = Lower(m.stem)
    BY <1>1
  <2> QED BY <2>1, <2>2
<1>3. \A x : Folded(x) = fold(Lower(x))
  BY DEF Folded
<1>4. DOMAIN n.dirs = DOMAIN m.dirs /\ \A i \in DOMAIN n.dirs : Lower(n.dirs[i]) = Lower(m.dirs[i])
  <2>1. DOMAIN low(n.dirs) = DOMAIN n.dirs /\ DOMAIN low(m.dirs) = DOMAIN m.dirs
    OBVIOUS
  <2>2. /\ \A i \in DOMAIN n.dirs : low(n.dirs)[i] = Lower(n.dirs[i])
        /\ \A i \in DOMAIN m.dirs : low(m.dirs)[i] = Lower(m.dirs[i])
    OBVIOUS
  <2> HIDE DEF low
  <2> QED BY <1>2, <2>1, <2>2
<1> HIDE DEF fold
<1>5. \A i \in DOMAIN n.dirs : Folded(n.dirs[i]) = Folded(m.dirs[i])
  BY <1>3, <1>4
<1>6. key(n.dirs) = key(m.dirs)
  BY <1>4, <1>5
<1>7. Folded(n.stem) = Folded(m.stem)
  BY <1>2, <1>3
<1> HIDE DEF key
<1>8. MatchKey(n) = [dirs |-> key(n.dirs), stem |-> Folded(n.stem)]
  BY DEF MatchKey, key
<1>9. MatchKey(m) = [dirs |-> key(m.dirs), stem |-> Folded(m.stem)]
  BY DEF MatchKey, key
<1> QED BY <1>6, <1>7, <1>8, <1>9

\* As many keys as records: no two records have one.
OwnKeys(records, n) ==
  \A i, j \in 1..n : MatchKey(records[i].name) = MatchKey(records[j].name) => i = j

LEMMA KeysDiffer ==
  ASSUME NEW records, NEW n \in Nat, DOMAIN records = 1..n,
         Cardinality({MatchKey(r.name) : r \in ToSet(records)}) = n
  PROVE  OwnKeys(records, n)
<1> DEFINE key(i) == MatchKey(records[i].name)
           K == {MatchKey(r.name) : r \in ToSet(records)}
           f == [i \in 1..n |-> key(i)]
<1>1. K = {key(i) : i \in 1..n}
  BY DEF ToSet
<1>2. PICK S : S = K
  OBVIOUS
<1>3. Cardinality(S) = n
  BY <1>2
<1>4. S = {key(i) : i \in 1..n}
  BY <1>1, <1>2
<1> HIDE DEF key, K
<1>5. f \in Surjection(1..n, S)
  BY <1>4 DEF Surjection
<1>6. IsFiniteSet(1..n) /\ Cardinality(1..n) = n
  BY FS_Interval
<1>7. \A i \in 1..n : f[i] = key(i)
  OBVIOUS
<1> HIDE DEF f
<1>8. f \in Injection(1..n, S)
  BY <1>3, <1>5, <1>6, FS_Surjection
<1>9. \A i, j \in 1..n : f[i] = f[j] => i = j
  BY <1>8 DEF Injection, IsInjective
<1> QED BY <1>7, <1>9 DEF OwnKeys, key

-----------------------------------------------------------------------------
(* Labels under their new numbers.                                          *)

LEMMA LabelNumbers ==
  ASSUME NEW labels \in Labels
  PROVE  /\ IsFiniteSet(DOMAIN labels) /\ Cardinality(DOMAIN labels) \in Nat
         /\ DOMAIN labels \subseteq Int
<1>1. DOMAIN labels \subseteq -1..MaxClass /\ MaxClass \in Nat
  BY LabelsAre, ArchivesFit DEF ArchivesFit
<1>2. IsFiniteSet(-1..MaxClass)
  BY <1>1, FS_Interval
<1>3. IsFiniteSet(DOMAIN labels)
  BY <1>1, <1>2, FS_Subset
<1> QED BY <1>1, <1>3, FS_CardinalityType

Below(D, c) == {d \in D : d < c}

LEMMA IndexIs ==
  ASSUME NEW labels \in Labels, NEW c \in DOMAIN labels
  PROVE  /\ Index(labels, c) \in 0..(Cardinality(DOMAIN labels) - 1)
         /\ \A d \in DOMAIN labels : Index(labels, d) = Index(labels, c) => d = c
<1> DEFINE D == DOMAIN labels
<1>0. \A d : Index(labels, d) = Cardinality(Below(D, d))
  BY DEF Index, Below
<1>1. IsFiniteSet(D) /\ Cardinality(D) \in Nat /\ D \subseteq Int /\ c \in D
  BY LabelNumbers
<1> HIDE DEF D
<1>2. ASSUME NEW B \in SUBSET D
      PROVE  IsFiniteSet(B) /\ Cardinality(B) \in Nat
  BY <1>1, FS_Subset, FS_CardinalityType
<1>3. ASSUME NEW B, NEW C, C \in SUBSET D, B \subseteq C, B # C PROVE Cardinality(B) < Cardinality(C)
  <2>1. IsFiniteSet(C) /\ Cardinality(C) \in Nat /\ Cardinality(B) \in Nat
    BY <1>2, <1>3
  <2>2. Cardinality(B) <= Cardinality(C) /\ Cardinality(C) # Cardinality(B)
    BY <1>3, <2>1, FS_Subset
  <2> QED BY <2>1, <2>2
<1>4. \A d \in D : Below(D, d) \in SUBSET D /\ d \notin Below(D, d)
  BY <1>1 DEF Below
<1>5. Cardinality(Below(D, c)) \in Nat /\ Cardinality(Below(D, c)) < Cardinality(D)
  <2>1. Below(D, c) \subseteq D /\ Below(D, c) # D
    BY <1>1, <1>4
  <2> QED BY <1>2, <1>3, <2>1
<1>6. ASSUME NEW d \in D, NEW e \in D, d < e PROVE Cardinality(Below(D, d)) < Cardinality(Below(D, e))
  <2>1. d \in Below(D, e) /\ d \notin Below(D, d)
    BY <1>4, <1>6 DEF Below
  <2>2. Below(D, d) \subseteq Below(D, e)
    <3>1. \A x \in D : x < d => x < e
      BY <1>1, <1>6
    <3> QED BY <3>1 DEF Below
  <2> QED BY <1>3, <1>4, <2>1, <2>2
<1>7. ASSUME NEW d \in D, Cardinality(Below(D, d)) = Cardinality(Below(D, c)) PROVE d = c
  <2>1. PICK k, l : k = Cardinality(Below(D, c)) /\ l = Cardinality(Below(D, d))
    OBVIOUS
  <2>2. k \in Nat /\ l = k /\ ~ (k < k)
    BY <1>5, <1>7, <2>1
  <2>3. ASSUME d < c PROVE FALSE
    <3>1. l < k
      BY <1>1, <1>6, <2>1, <2>3
    <3> QED BY <2>2, <3>1
  <2>4. ASSUME c < d PROVE FALSE
    <3>1. k < l
      BY <1>1, <1>6, <2>1, <2>4
    <3> QED BY <2>2, <3>1
  <2>5. c \in Int /\ d \in Int
    BY <1>1
  <2> QED BY <2>3, <2>4, <2>5
<1>8. Index(labels, c) \in 0..(Cardinality(D) - 1)
  <2>1. PICK k, l : k = Cardinality(Below(D, c)) /\ l = Cardinality(D)
    OBVIOUS
  <2>2. k \in Nat /\ l \in Nat /\ k < l
    BY <1>1, <1>5, <2>1
  <2>3. k \in 0..(l - 1)
    BY <2>2
  <2> QED BY <1>0, <2>1, <2>3
<1> QED BY <1>0, <1>7, <1>8 DEF D

\* The name of a class, looked up under its new number, is that of its label.
LEMMA NameRead ==
  ASSUME NEW labels \in Labels, NEW c \in DOMAIN labels
  PROVE  NameIn(Renumbered(labels), Index(labels, c)) = labels[c]
<1>1. PICK i : i = Index(labels, c)
  OBVIOUS
<1>2. /\ i \in 0..(Cardinality(DOMAIN labels) - 1)
      /\ \A d \in DOMAIN labels : Index(labels, d) = i => d = c
  BY <1>1, IndexIs
<1>3. (CHOOSE d \in DOMAIN labels : Index(labels, d) = i) = c
  BY <1>1, <1>2
<1>4. i \in DOMAIN Renumbered(labels) /\ Renumbered(labels)[i] = labels[c]
  BY <1>2, <1>3 DEF Renumbered
<1> QED BY <1>1, <1>4 DEF NameIn

-----------------------------------------------------------------------------
(* Coordinates.                                                             *)

LEMMA ScaledIs ==
  ASSUME NEW v \in Int, NEW l \in Int, l > 0
  PROVE  Scaled(v, l) \in Int /\ Within(v, l * Scaled(v, l), l)
<1>1. PICK q : q = v \div l
  OBVIOUS
<1>2. q \in Int /\ l * q <= v /\ v < l * q + l
  BY <1>1
<1> QED BY <1>1, <1>2 DEF Scaled, Within

\* A coordinate of a normalized point.
Along(p, a, size, k) == IF a.space = "normalized" THEN p[k] ELSE Scaled(p[k], size[k])

LEMMA NormalPointIs ==
  ASSUME NEW p, NEW a, NEW size
  PROVE  NormalPoint(p, a, size) = <<Along(p, a, size, 1), Along(p, a, size, 2)>>
<1>1. CASE a.space = "normalized"
  BY <1>1 DEF NormalPoint, Along
<1>2. CASE a.space # "normalized"
  BY <1>2 DEF NormalPoint, Along
<1> QED BY <1>1, <1>2

\* What is drawn: numbers, and a space that says what they are multiples of.
IsAnnotation(a) == Drawn(a.box) /\ a.polygon \in Outlines /\ a.space \in {"normalized", "pixels"}
Convertible(a, size) == size \in Int \X Int /\ (a.space = "normalized" \/ Known(size))

LEMMA AlongIs ==
  ASSUME NEW p, NEW a, NEW size, NEW k \in {1, 2}, p[k] \in Int, Convertible(a, size)
  PROVE  Along(p, a, size, k) \in Int
<1>1. CASE a.space = "normalized"
  BY <1>1 DEF Along
<1>2. CASE a.space # "normalized"
  <2>1. size[k] \in Int /\ size[k] > 0
    BY <1>2 DEF Convertible, Known
  <2>2. PICK v, l : v = p[k] /\ l = size[k]
    OBVIOUS
  <2>3. Scaled(v, l) \in Int
    BY <2>1, <2>2, ScaledIs
  <2> QED BY <1>2, <2>2, <2>3 DEF Along
<1> QED BY <1>1, <1>2

LEMMA NothingFlattened ==
  ASSUME NEW f, f = [i \in DOMAIN f |-> f[i]], DOMAIN f = {}
  PROVE  FlattenSeq(f) = << >>
<1>1. f \in [1..0 -> {}]
  OBVIOUS
<1>2. f \in Seq({})
  BY <1>1, SeqDef
<1>3. Len(f) = 0 /\ f = << >>
  <2>1. Len(f) \in Nat /\ DOMAIN f = 1..Len(f)
    BY <1>2, LenProperties
  <2>2. Len(f) = 0
    BY <2>1
  <2> QED BY <1>2, <2>2, EmptySeq
<1> QED BY <1>3 DEF FlattenSeq

\* An annotation as a record of its own.
Full(b) == b = [class |-> b.class, name |-> b.name, box |-> b.box, polygon |-> b.polygon,
                keypoints |-> b.keypoints, space |-> b.space]
ReadsAs(a, b, name, size) == Full(b) /\ b.name = name /\ SamePlace(a, b, size)

\* The numbers of a line.
YoloOutline(a, size) ==
  IF a.polygon # << >> THEN FlattenSeq(Mapped(a.polygon, LAMBDA p : NormalPoint(p, a, size)))
  ELSE IF a.box # << >> THEN NormalBox(a, size) ELSE << >>

LEMMA OutlineLine ==
  ASSUME NEW a, NEW labels, NEW size, a.keypoints = << >>, NEW X, YoloOutline(a, size) \in Seq(X)
  PROVE  YoloLine(a, labels, size) = [class |-> Index(labels, a.class), coords |-> YoloOutline(a, size)]
<1> DEFINE points == [i \in DOMAIN a.keypoints |-> Append(NormalPoint(a.keypoints[i], a, size), a.keypoints[i][3])]
<1>1. YoloLine(a, labels, size) = [class |-> Index(labels, a.class),
                                   coords |-> YoloOutline(a, size) \o FlattenSeq(points)]
  BY DEF YoloLine, YoloOutline, Mapped
<1>2. DOMAIN points = {} /\ points = [i \in DOMAIN points |-> points[i]]
  <2>1. DOMAIN a.keypoints = {}
    OBVIOUS
  <2> QED BY <2>1
<1> HIDE DEF points
<1>3. FlattenSeq(points) = << >>
  BY <1>2, NothingFlattened
<1>4. PICK u : u = YoloOutline(a, size)
  OBVIOUS
<1>5. u \o << >> = u
  BY <1>4, ConcatEmptySeq
<1> QED BY <1>1, <1>3, <1>4, <1>5

\* The polygon that is read is the one that was written, point by point.
LEMMA PolygonWritten ==
  ASSUME NEW a, NEW size, IsAnnotation(a), Convertible(a, size), a.polygon # << >>
  PROVE  /\ YoloOutline(a, size) \in Seq(Int) /\ Len(YoloOutline(a, size)) = 2 * Len(a.polygon)
         /\ Groups(YoloOutline(a, size), 2)
              = [i \in 1..Len(a.polygon) |-> <<Along(a.polygon[i], a, size, 1), Along(a.polygon[i], a, size, 2)>>]
<1>1. PICK P, n : /\ P = a.polygon /\ n = Len(P) /\ n \in Nat /\ DOMAIN P = 1..n
                  /\ \A i \in 1..n : P[i] \in Int \X Int
  <2>1. PICK P, X : P = a.polygon /\ X = Int \X Int
    OBVIOUS
  <2>2. P \in Seq(X)
    BY <2>1 DEF IsAnnotation, Outlines
  <2>3. Len(P) \in Nat /\ DOMAIN P = 1..Len(P) /\ \A i \in 1..Len(P) : P[i] \in X
    BY <2>2, LenProperties, ElementOfSeq
  <2> QED BY <2>1, <2>3
<1> DEFINE x == [i \in 1..n |-> Along(P[i], a, size, 1)]
           y == [i \in 1..n |-> Along(P[i], a, size, 2)]
           seqs == [i \in 1..n |-> NormalPoint(P[i], a, size)]
<1>2. YoloOutline(a, size) = FlattenSeq(seqs)
  BY <1>1 DEF YoloOutline, Mapped
<1>3. \A i \in 1..n : Along(P[i], a, size, 1) \in Int /\ Along(P[i], a, size, 2) \in Int
  <2> SUFFICES ASSUME NEW i \in 1..n PROVE Along(P[i], a, size, 1) \in Int /\ Along(P[i], a, size, 2) \in Int
    OBVIOUS
  <2>1. PICK p : p = P[i] /\ p[1] \in Int /\ p[2] \in Int
    BY <1>1
  <2> QED BY <2>1, AlongIs
<1>4. x \in [1..n -> Int] /\ y \in [1..n -> Int]
  BY <1>3
<1>5. \A i \in 1..n : seqs[i] = <<x[i], y[i]>>
  BY NormalPointIs
<1>5a. \A i \in 1..n : x[i] = Along(P[i], a, size, 1) /\ y[i] = Along(P[i], a, size, 2)
  OBVIOUS
<1>6. DOMAIN seqs = 1..n /\ seqs = [i \in 1..n |-> seqs[i]]
  OBVIOUS
<1> HIDE DEF x, y, seqs
<1>7. seqs \in [1..n -> Seq(Int)]
  <2>1. \A i \in 1..n : x[i] \in Int /\ y[i] \in Int
    BY <1>4
  <2>2. \A i \in 1..n : <<x[i], y[i]>> \in Seq(Int)
    BY <2>1
  <2>3. \A i \in 1..n : seqs[i] \in Seq(Int)
    BY <1>5, <2>2
  <2> QED BY <1>6, <2>3
<1>8. PICK s : s = FlattenSeq(seqs)
  OBVIOUS
<1>9. s \in Seq(Int) /\ Len(s) = 2 * n /\ Alternates(s, n, x, y)
  <2>1. PICK X : X = Int
    OBVIOUS
  <2>2. x \in [1..n -> X] /\ y \in [1..n -> X] /\ seqs \in [1..n -> Seq(X)]
    BY <1>4, <1>7, <2>1
  <2>3. s \in Seq(X) /\ Len(s) = 2 * n /\ Alternates(s, n, x, y)
    <3>1. PICK v, w, f : v = x /\ w = y /\ f = seqs
      OBVIOUS
    <3>2. n \in Nat /\ v \in [1..n -> X] /\ w \in [1..n -> X] /\ f \in [1..n -> Seq(X)]
      BY <1>1, <2>2, <3>1
    <3>3. \A i \in 1..n : f[i] = <<v[i], w[i]>>
      BY <1>5, <3>1
    <3>4. FlattenSeq(f) \in Seq(X) /\ Len(FlattenSeq(f)) = 2 * n /\ Alternates(FlattenSeq(f), n, v, w)
      BY <3>2, <3>3, FlattenPairs
    <3> QED BY <1>8, <3>1, <3>4
  <2> QED BY <2>1, <2>3
<1>10. Groups(s, 2) = [i \in 1..n |-> <<x[i], y[i]>>]
  BY <1>1, <1>9, GroupsOfPairs
<1>11. [i \in 1..n |-> <<x[i], y[i]>>]
         = [i \in 1..n |-> <<Along(P[i], a, size, 1), Along(P[i], a, size, 2)>>]
  BY <1>5a
<1> QED BY <1>1, <1>2, <1>8, <1>9, <1>10, <1>11

LEMMA LineOfPolygon ==
  ASSUME NEW line, NEW ls, NEW m \in Nat, Len(line.coords) = 2 * m, m >= 3
  PROVE  FromLine(line, ls, FALSE)
           = [class |-> line.class, name |-> NameIn(ls, line.class), box |-> << >>,
              polygon |-> Groups(line.coords, 2), keypoints |-> << >>, space |-> "normalized"]
<1>1. PICK n : n = Len(line.coords) /\ n > 4 /\ n % 2 = 0
  OBVIOUS
<1>2. PICK g : g = Groups(line.coords, 2)
  OBVIOUS
<1>3. FromLine(line, ls, FALSE) = [Annotation(line.class, NameIn(ls, line.class), "normalized")
                                     EXCEPT !.polygon = g]
  BY <1>1, <1>2 DEF FromLine
<1> QED BY <1>2, <1>3 DEF Annotation

LEMMA LineOfBox ==
  ASSUME NEW line, NEW ls, line.coords \in [1..4 -> Int]
  PROVE  FromLine(line, ls, FALSE)
           = [class |-> line.class, name |-> NameIn(ls, line.class), box |-> line.coords,
              polygon |-> << >>, keypoints |-> << >>, space |-> "normalized"]
<1>1. PICK c : c = line.coords /\ c \in [1..4 -> Int]
  OBVIOUS
<1>2. Len(c) = 4 /\ SubSeq(c, 1, 4) = c
  BY <1>1, FourNumbers
<1>3. PICK n : n = Len(c) /\ ~ (n > 4)
  BY <1>2
<1>4. FromLine(line, ls, FALSE) = [Annotation(line.class, NameIn(ls, line.class), "normalized")
                                     EXCEPT !.box = c]
  BY <1>1, <1>2, <1>3 DEF FromLine
<1> QED BY <1>1, <1>4 DEF Annotation

\* What YOLO can hold of an annotation.
InYolo(a, size, labels) ==
  /\ IsAnnotation(a) /\ Convertible(a, size) /\ a.keypoints = << >> /\ a.class \in DOMAIN labels
  /\ a.polygon = << >> => a.box # << >>
  /\ a.polygon # << >> => Len(a.polygon) >= 3

LEMMA PolygonRead ==
  ASSUME NEW labels \in Labels, NEW size, NEW a, InYolo(a, size, labels), a.polygon # << >>
  PROVE  LET line == YoloLine(a, labels, size) IN
         /\ Len(line.coords) >= 4
         /\ ReadsAs(a, FromLine(line, Renumbered(labels), FALSE), labels[a.class], size)
<1>1. PICK P, n : /\ P = a.polygon /\ n = Len(P) /\ n \in Nat /\ n >= 3 /\ DOMAIN P = 1..n
                  /\ \A i \in 1..n : P[i] \in Int \X Int
  <2>1. a.polygon \in Seq(Int \X Int) /\ Len(a.polygon) >= 3
    BY DEF InYolo, IsAnnotation, Outlines
  <2>2. PICK P, n, S : P = a.polygon /\ n = Len(P) /\ S = Int \X Int
    OBVIOUS
  <2>3. P \in Seq(S) /\ n >= 3
    BY <2>1, <2>2
  <2>4. n \in Nat /\ DOMAIN P = 1..n
    BY <2>2, <2>3, LenProperties
  <2>5. \A i \in 1..n : P[i] \in S
    BY <2>2, <2>3, ElementOfSeq
  <2> QED BY <2>2, <2>3, <2>4, <2>5
<1>2. PICK g : g = [i \in 1..n |-> <<Along(P[i], a, size, 1), Along(P[i], a, size, 2)>>]
  OBVIOUS
<1>3. PICK u : u = YoloOutline(a, size)
  OBVIOUS
<1>4. u \in Seq(Int) /\ Len(u) = 2 * n /\ Groups(u, 2) = g
  BY <1>1, <1>2, <1>3, PolygonWritten DEF InYolo
<1>5. PICK line : line = YoloLine(a, labels, size)
  OBVIOUS
<1>6. line = [class |-> Index(labels, a.class), coords |-> u]
  BY <1>3, <1>4, <1>5, OutlineLine DEF InYolo
<1>7. line.class = Index(labels, a.class) /\ line.coords = u
  BY <1>6
<1>8. PICK b : b = FromLine(line, Renumbered(labels), FALSE)
  OBVIOUS
<1>9. b = [class |-> line.class, name |-> NameIn(Renumbered(labels), line.class), box |-> << >>,
           polygon |-> g, keypoints |-> << >>, space |-> "normalized"]
  BY <1>1, <1>4, <1>7, <1>8, LineOfPolygon
<1>10. /\ b.class = line.class /\ b.name = NameIn(Renumbered(labels), line.class) /\ b.box = << >>
       /\ b.polygon = g /\ b.keypoints = << >> /\ b.space = "normalized"
  BY <1>9
<1>11. Full(b)
  BY <1>9, <1>10 DEF Full
<1>12. b.name = labels[a.class]
  BY <1>7, <1>10, NameRead DEF InYolo
<1>13. DOMAIN g = 1..n /\ Len(g) = n /\ \A i \in 1..n : g[i] = <<Along(P[i], a, size, 1), Along(P[i], a, size, 2)>>
  <2>1. DOMAIN g = 1..n /\ \A i \in 1..n : g[i] = <<Along(P[i], a, size, 1), Along(P[i], a, size, 2)>>
    BY <1>2
  <2>2. \E S : g \in Seq(S)
    <3>1. \E S : g \in [1..n -> S]
      <4>1. g \in [1..n -> {g[i] : i \in 1..n}]
        BY <1>2
      <4> QED BY <4>1
    <3> QED BY <1>1, <3>1, SeqDef
  <2>3. Len(g) = n
    BY <1>1, <2>1, <2>2, LenProperties
  <2> QED BY <2>1, <2>3
<1>14. SamePlace(a, b, size)
  <2>1. CASE a.space = "normalized"
    <3>1. ASSUME NEW i \in 1..n PROVE g[i] = P[i]
      <4>1. PICK p : p = P[i] /\ p \in Int \X Int
        BY <1>1
      <4>2. Along(p, a, size, 1) = p[1] /\ Along(p, a, size, 2) = p[2]
        BY <2>1 DEF Along
      <4>3. g[i] = <<p[1], p[2]>>
        BY <1>13, <4>1, <4>2
      <4>4. p = <<p[1], p[2]>>
        BY <4>1
      <4> QED BY <4>1, <4>3, <4>4
    <3>2. g = P
      <4>1. P = [i \in 1..n |-> P[i]]
        BY <1>1, LenProperties DEF InYolo, IsAnnotation, Outlines
      <4> QED BY <1>2, <3>1, <4>1, <1>13
    <3> QED BY <1>1, <1>10, <2>1, <3>2 DEF SamePlace
  <2>2. CASE a.space # "normalized"
    <3>1. /\ a.space = "pixels" /\ size[1] \in Int /\ size[1] > 0 /\ size[2] \in Int /\ size[2] > 0
      BY <2>2 DEF InYolo, IsAnnotation, Convertible, Known
    <3>2. ASSUME NEW i \in 1..n, NEW k \in {1, 2} PROVE Within(P[i][k], size[k] * g[i][k], size[k])
      <4>1. PICK v, l : v = P[i][k] /\ l = size[k] /\ v \in Int /\ l \in Int /\ l > 0
        BY <1>1, <3>1
      <4>2. g[i][k] = Scaled(v, l)
        BY <1>13, <2>2, <4>1 DEF Along
      <4>3. Within(v, l * Scaled(v, l), l)
        BY <4>1, ScaledIs
      <4> QED BY <4>1, <4>2, <4>3
    <3>3. SamePoints(P, g, size)
      BY <1>1, <1>13, <3>2 DEF SamePoints
    <3> QED BY <1>1, <1>10, <3>1, <3>3 DEF SamePlace
  <2> QED BY <2>1, <2>2
<1>15. ReadsAs(a, b, labels[a.class], size)
  BY <1>11, <1>12, <1>14 DEF ReadsAs
<1>16. Len(line.coords) >= 4
  BY <1>1, <1>4, <1>7
<1> QED BY <1>5, <1>8, <1>15, <1>16

\* A pixel box and what is written of it.
LEMMA CentreIs ==
  ASSUME NEW p \in Int, NEW w \in Int, NEW s \in Int, s > 0
  PROVE  /\ Scaled(p + w \div 2, s) \in Int
         /\ Within(2 * p + w, 2 * s * Scaled(p + w \div 2, s), 2 * s)
<1>1. PICK h : h = w \div 2 /\ h \in Int /\ 2 * h <= w /\ w <= 2 * h + 1
  OBVIOUS
<1>2. PICK c : c = p + h /\ c \in Int
  BY <1>1
<1>3. Scaled(c, s) \in Int /\ Within(c, s * Scaled(c, s), s)
  BY <1>2, ScaledIs
<1>4. PICK q, t : q = Scaled(c, s) /\ t = s * q /\ q \in Int /\ t \in Int
  BY <1>3
<1>5. t <= c /\ c < t + s
  BY <1>3, <1>4 DEF Within
<1>6. 2 * t <= 2 * p + w /\ 2 * p + w < 2 * t + 2 * s
  BY <1>1, <1>2, <1>4, <1>5
<1>7. 2 * s * q = 2 * t
  BY <1>4
<1> QED BY <1>1, <1>2, <1>4, <1>6, <1>7 DEF Within

LEMMA BoxRead ==
  ASSUME NEW labels \in Labels, NEW size, NEW a, InYolo(a, size, labels), a.polygon = << >>
  PROVE  LET line == YoloLine(a, labels, size) IN
         /\ Len(line.coords) >= 4
         /\ ReadsAs(a, FromLine(line, Renumbered(labels), FALSE), labels[a.class], size)
<1>1. PICK p : p = a.box /\ p # << >> /\ p \in [1..4 -> Int]
  BY DEF InYolo, IsAnnotation, Drawn
<1>2. PICK u : u = NormalBox(a, size)
  OBVIOUS
<1>3. /\ u \in [1..4 -> Int]
      /\ a.space = "normalized" => u = p
      /\ a.space # "normalized" => SameBox(p, u, size)
  <2>1. CASE a.space = "normalized"
    BY <1>1, <1>2, <2>1 DEF NormalBox
  <2>2. CASE a.space # "normalized"
    <3>1. /\ size[1] \in Int /\ size[1] > 0 /\ size[2] \in Int /\ size[2] > 0
      BY <2>2 DEF InYolo, Convertible, Known
    <3>2. /\ p[1] \in Int /\ p[2] \in Int /\ p[3] \in Int /\ p[4] \in Int
      BY <1>1
    <3>3. PICK x, y, w, h : /\ x = Scaled(p[1] + p[3] \div 2, size[1])
                            /\ y = Scaled(p[2] + p[4] \div 2, size[2])
                            /\ w = Scaled(p[3], size[1]) /\ h = Scaled(p[4], size[2])
      OBVIOUS
    <3>4. /\ x \in Int /\ Within(2 * p[1] + p[3], 2 * size[1] * x, 2 * size[1])
          /\ y \in Int /\ Within(2 * p[2] + p[4], 2 * size[2] * y, 2 * size[2])
      BY <3>1, <3>2, <3>3, CentreIs
    <3>5. /\ w \in Int /\ Within(p[3], size[1] * w, size[1])
          /\ h \in Int /\ Within(p[4], size[2] * h, size[2])
      BY <3>1, <3>2, <3>3, ScaledIs
    <3>6. u = <<x, y>> \o <<w, h>>
      BY <1>1, <1>2, <2>2, <3>3 DEF NormalBox, NormalPoint
    <3>7. u = <<x, y, w, h>>
      <4>1. PICK c, d, e : c = <<x, y>> /\ d = <<w, h>> /\ e = <<x, y, w, h>>
        OBVIOUS
      <4>2. /\ c \in Seq(Int) /\ Len(c) = 2 /\ c[1] = x /\ c[2] = y
            /\ d \in Seq(Int) /\ Len(d) = 2 /\ d[1] = w /\ d[2] = h
        BY <3>4, <3>5, <4>1
      <4>3. e \in Seq(Int) /\ Len(e) = 4 /\ e[1] = x /\ e[2] = y /\ e[3] = w /\ e[4] = h
        BY <3>4, <3>5, <4>1
      <4>4. PICK f : f = c \o d
        OBVIOUS
      <4>5. /\ f \in Seq(Int) /\ Len(f) = 4
            /\ f[0 + 1] = c[1] /\ f[0 + 2] = c[2] /\ f[2 + 1] = d[1] /\ f[2 + 2] = d[2]
        <5>0. PICK X : X = Int
          OBVIOUS
        <5>1. c \in Seq(X) /\ d \in Seq(X)
          BY <4>2, <5>0
        <5>2. f \in Seq(X) /\ Len(f) = Len(c) + Len(d) /\ After(f, 0, c) /\ After(f, Len(c), d)
          BY <4>4, <5>1, Joined
        <5>3. Len(f) = 4 /\ After(f, 0, c) /\ After(f, 2, d)
          BY <4>2, <5>2
        <5>4. f[0 + 1] = c[1] /\ f[0 + 2] = c[2] /\ f[2 + 1] = d[1] /\ f[2 + 2] = d[2]
          BY <4>2, <5>3 DEF After
        <5> QED BY <5>0, <5>2, <5>3, <5>4
      <4>6. f[1] = x /\ f[2] = y /\ f[3] = w /\ f[4] = h
        BY <4>2, <4>5
      <4>7. \A i \in 1..4 : f[i] = e[i]
        <5>1. \A i \in 1..4 : i = 1 \/ i = 2 \/ i = 3 \/ i = 4
          OBVIOUS
        <5> QED BY <4>3, <4>6, <5>1
      <4>8. f = e
        BY <4>3, <4>5, <4>7, SeqEqual
      <4> QED BY <3>6, <4>1, <4>4, <4>8
    <3>8. u[1] = x /\ u[2] = y /\ u[3] = w /\ u[4] = h /\ u \in [1..4 -> Int]
      BY <3>4, <3>5, <3>7
    <3>9. ASSUME NEW k \in {1, 2}
          PROVE  /\ Within(2 * p[k] + p[k + 2], 2 * size[k] * u[k], 2 * size[k])
                 /\ Within(p[k + 2], size[k] * u[k + 2], size[k])
      <4>1. CASE k = 1
        BY <3>4, <3>5, <3>8, <4>1
      <4>2. CASE k = 2
        BY <3>4, <3>5, <3>8, <4>2
      <4> QED BY <4>1, <4>2
    <3>10. SameBox(p, u, size)
      BY <3>9 DEF SameBox
    <3> QED BY <2>2, <3>8, <3>10
  <2> QED BY <2>1, <2>2
<1>4. YoloOutline(a, size) = u
  BY <1>1, <1>2 DEF YoloOutline
<1>5. u \in Seq(Int) /\ Len(u) = 4
  BY <1>3, FourNumbers
<1>6. PICK line : line = YoloLine(a, labels, size)
  OBVIOUS
<1>7. line = [class |-> Index(labels, a.class), coords |-> u]
  BY <1>4, <1>5, <1>6, OutlineLine DEF InYolo
<1>8. line.class = Index(labels, a.class) /\ line.coords = u
  BY <1>7
<1>9. PICK b : b = FromLine(line, Renumbered(labels), FALSE)
  OBVIOUS
<1>10. b = [class |-> line.class, name |-> NameIn(Renumbered(labels), line.class), box |-> u,
            polygon |-> << >>, keypoints |-> << >>, space |-> "normalized"]
  BY <1>3, <1>8, <1>9, LineOfBox
<1>11. /\ b.class = line.class /\ b.name = NameIn(Renumbered(labels), line.class) /\ b.box = u
       /\ b.polygon = << >> /\ b.keypoints = << >> /\ b.space = "normalized"
  BY <1>10
<1>12. Full(b)
  BY <1>10, <1>11 DEF Full
<1>13. b.name = labels[a.class]
  BY <1>8, <1>11, NameRead DEF InYolo
<1>14. SamePlace(a, b, size)
  <2>1. a.space \in {"normalized", "pixels"}
    BY DEF InYolo, IsAnnotation
  <2> QED BY <1>1, <1>3, <1>11, <2>1 DEF SamePlace
<1>15. ReadsAs(a, b, labels[a.class], size)
  BY <1>12, <1>13, <1>14 DEF ReadsAs
<1>16. Len(line.coords) >= 4
  <2>1. PICK m : m = Len(u) /\ m = 4
    BY <1>5
  <2>2. m >= 4
    BY <2>1
  <2> QED BY <1>8, <2>1, <2>2
<1> QED BY <1>6, <1>9, <1>15, <1>16

LEMMA FunctionLen ==
  ASSUME NEW m \in Nat, NEW f, f = [i \in 1..m |-> f[i]]
  PROVE  /\ Len(f) = m /\ DOMAIN f = 1..m /\ IsSequence(f)
         /\ \A x : x \in ToSet(f) <=> \E i \in 1..m : x = f[i]
<1>1. DOMAIN f = 1..m
  OBVIOUS
<1>2. \A x : x \in ToSet(f) <=> \E i \in 1..m : x = f[i]
  BY <1>1 DEF ToSet
<1>3. \A i \in 1..m : f[i] \in ToSet(f)
  BY <1>2
<1>4. PICK X : X = ToSet(f)
  OBVIOUS
<1>5. f \in [1..m -> X]
  BY <1>3, <1>4
<1>6. f \in Seq(X)
  BY <1>5, SeqDef
<1>7. Len(f) \in Nat /\ DOMAIN f = 1..Len(f)
  BY <1>6, LenProperties
<1>8. Len(f) = m
  BY <1>1, <1>7
<1> QED BY <1>1, <1>2, <1>4, <1>6, <1>8 DEF IsSequence

\* A record that a format can hold, and that a writer is given.
IsRecord(r) ==
  /\ CleanName(r.name) /\ r.name.suffix \in ImageSuffixes /\ r.size \in Int \X Int
  /\ IsSequence(r.annotations) /\ \A a \in ToSet(r.annotations) : IsAnnotation(a)
Held(r, format, labels) == \A a \in ToSet(r.annotations) : Holdable(a, r, format, labels)

LEMMA HoldableInYolo ==
  ASSUME NEW r, IsRecord(r), NEW labels, Held(r, "yolo", labels), NEW a \in ToSet(r.annotations)
  PROVE  InYolo(a, r.size, labels)
<1>1. IsAnnotation(a) /\ Holdable(a, r, "yolo", labels) /\ r.size \in Int \X Int
  BY DEF IsRecord, Held
<1> QED BY <1>1 DEF Holdable, InYolo, Convertible

\* What is read of a sample's annotations, in their order.
AllRead(r, s, labels) ==
  /\ s = [i \in 1..Len(r.annotations) |-> s[i]]
  /\ \A i \in 1..Len(r.annotations) :
       ReadsAs(r.annotations[i], s[i], labels[r.annotations[i].class], r.size)

LEMMA YoloLinesAre ==
  ASSUME NEW labels \in Labels, NEW r, IsRecord(r), Held(r, "yolo", labels)
  PROVE  YoloLines(r, labels) = [i \in 1..Len(r.annotations) |-> YoloLine(r.annotations[i], labels, r.size)]
<1> DEFINE Fits(a) == a.class \in DOMAIN labels /\ (a.keypoints = << >> \/ a.box # << >>)
           fit == {a \in ToSet(r.annotations) : Fits(a)}
<1>1. \A a \in ToSet(r.annotations) : Fits(a)
  BY HoldableInYolo DEF InYolo
<1>2. fit = ToSet(r.annotations)
  <2> HIDE DEF Fits
  <2> QED BY <1>1
<1>3. PICK s, X : s = r.annotations /\ X = ToSet(r.annotations)
  OBVIOUS
<1>4. s \in Seq(X)
  BY <1>3 DEF IsRecord, IsSequence
<1>5. Only(s, X) = s /\ DOMAIN s = 1..Len(s)
  BY <1>4, OnlyAll, LenProperties
<1>6. YoloLines(r, labels) = Mapped(Only(r.annotations, fit), LAMBDA a : YoloLine(a, labels, r.size))
  BY DEF YoloLines
<1> HIDE DEF fit
<1>7. Only(r.annotations, fit) = s
  BY <1>2, <1>3, <1>5
<1>8. YoloLines(r, labels) = [i \in DOMAIN s |-> YoloLine(s[i], labels, r.size)]
  BY <1>6, <1>7 DEF Mapped
<1> QED BY <1>3, <1>5, <1>8

YoloData(r, labels) == [kind |-> "yolo", lines |-> YoloLines(r, labels)]

\* Every annotation has its line, and every line is read.
LEMMA YoloParsed ==
  ASSUME NEW labels \in Labels, NEW r, IsRecord(r), Held(r, "yolo", labels)
  PROVE  AllRead(r, ParseYolo(YoloData(r, labels), Renumbered(labels), FALSE), labels)
<1>1. PICK s, m : s = r.annotations /\ m = Len(s) /\ m \in Nat /\ \A i \in 1..m : s[i] \in ToSet(s)
  BY SequenceIs DEF IsRecord
<1>2. PICK lines : lines = YoloLines(r, labels)
  OBVIOUS
<1>3. lines = [i \in 1..m |-> YoloLine(s[i], labels, r.size)]
  BY <1>1, <1>2, YoloLinesAre
<1>4. \A i \in 1..m : lines[i] = YoloLine(s[i], labels, r.size)
  BY <1>3
<1>5. lines = [i \in 1..m |-> lines[i]]
  BY <1>3
<1>6. /\ Len(lines) = m /\ DOMAIN lines = 1..m /\ IsSequence(lines)
      /\ \A x : x \in ToSet(lines) <=> \E i \in 1..m : x = lines[i]
  BY <1>1, <1>5, FunctionLen
<1>7. ASSUME NEW i \in 1..m
      PROVE  /\ Len(lines[i].coords) >= 4
             /\ ReadsAs(s[i], FromLine(lines[i], Renumbered(labels), FALSE), labels[s[i].class], r.size)
  <2>1. PICK a : a = s[i]
    OBVIOUS
  <2>2. InYolo(a, r.size, labels)
    BY <1>1, <2>1, HoldableInYolo
  <2>3. PICK z : z = r.size
    OBVIOUS
  <2>4. lines[i] = YoloLine(a, labels, z)
    BY <1>4, <2>1, <2>3
  <2>5. /\ Len(YoloLine(a, labels, z).coords) >= 4
        /\ ReadsAs(a, FromLine(YoloLine(a, labels, z), Renumbered(labels), FALSE), labels[a.class], z)
    <3>1. InYolo(a, z, labels)
      BY <2>2, <2>3
    <3>2. CASE a.polygon # << >>
      BY <3>1, <3>2, PolygonRead
    <3>3. CASE a.polygon = << >>
      BY <3>1, <3>3, BoxRead
    <3> QED BY <3>2, <3>3
  <2> QED BY <2>1, <2>3, <2>4, <2>5
<1> DEFINE long == {l \in ToSet(lines) : Len(l.coords) >= 4}
<1>8. long = ToSet(lines)
  BY <1>6, <1>7
<1>9. Only(lines, long) = lines
  <2>1. PICK X : X = ToSet(lines)
    OBVIOUS
  <2>2. lines \in Seq(X)
    BY <1>6, <2>1 DEF IsSequence
  <2>3. Only(lines, X) = lines
    BY <2>2, OnlyAll
  <2> HIDE DEF long
  <2> QED BY <1>8, <2>1, <2>3
<1>10. PICK p : p = ParseYolo(YoloData(r, labels), Renumbered(labels), FALSE)
  OBVIOUS
<1>11. p = [i \in DOMAIN Only(lines, long) |-> FromLine(Only(lines, long)[i], Renumbered(labels), FALSE)]
  BY <1>2, <1>10 DEF ParseYolo, YoloData
<1> HIDE DEF long
<1>12. p = [i \in 1..m |-> FromLine(lines[i], Renumbered(labels), FALSE)]
  BY <1>6, <1>9, <1>11
<1>13. p = [i \in 1..m |-> p[i]] /\ \A i \in 1..m : p[i] = FromLine(lines[i], Renumbered(labels), FALSE)
  BY <1>12
<1>14. \A i \in 1..m : ReadsAs(s[i], p[i], labels[s[i].class], r.size)
  BY <1>7, <1>13
<1> QED BY <1>1, <1>10, <1>13, <1>14 DEF AllRead

LEMMA ClassLeaves ==
  ASSUME NEW a, NEW b, NEW name, NEW size, ReadsAs(a, b, name, size), NEW class
  PROVE  ReadsAs(a, [b EXCEPT !.class = class], name, size)
<1>1. b = [class |-> b.class, name |-> b.name, box |-> b.box, polygon |-> b.polygon,
           keypoints |-> b.keypoints, space |-> b.space]
  BY DEF ReadsAs, Full
<1>2. PICK c : c = [b EXCEPT !.class = class]
  OBVIOUS
<1>3. c = [class |-> class, name |-> b.name, box |-> b.box, polygon |-> b.polygon,
           keypoints |-> b.keypoints, space |-> b.space]
  BY <1>1, <1>2
<1>4. /\ c.class = class /\ c.name = b.name /\ c.box = b.box /\ c.polygon = b.polygon
      /\ c.keypoints = b.keypoints /\ c.space = b.space
  BY <1>3
<1>5. Full(c)
  BY <1>3, <1>4 DEF Full
<1>6. b.name = name /\ SamePlace(a, b, size)
  BY DEF ReadsAs
<1>7. SamePlace(a, c, size)
  BY <1>4, <1>6 DEF SamePlace
<1> QED BY <1>2, <1>4, <1>5, <1>6, <1>7 DEF ReadsAs

LEMMA SampleIs ==
  ASSUME NEW name, NEW annotation, NEW type, NEW s, NEW size
  PROVE  Sample(name, annotation, type, s, size)
           = [name |-> name, annotation |-> annotation, subset |-> SubsetFor(name), type |-> type,
              annotations |-> s, size |-> size]
  BY DEF Sample

\* with_resolved_labels leaves what is read.
LEMMA ResolvedReads ==
  ASSUME NEW labels, NEW r, IsSequence(r.annotations), NEW s, AllRead(r, s, labels),
         NEW name, NEW annotation, NEW type, NEW size, NEW all
  PROVE  LET t == Resolved(Sample(name, annotation, type, s, size), all) IN
         t.name = name /\ ReadAs(r, t, labels)
<1>1. PICK m : m = Len(r.annotations) /\ m \in Nat /\ DOMAIN r.annotations = 1..m
  BY SequenceIs
<1>2. s = [i \in 1..m |-> s[i]] /\ DOMAIN s = 1..m
  BY <1>1, FunctionLen DEF AllRead
<1> DEFINE ClassOf(a) == LET classes == {c \in DOMAIN all : all[c] = a.name} IN
                         IF classes = {} THEN a.class
                         ELSE CHOOSE c \in classes : \A d \in classes : d <= c
<1>3. PICK z : z = Sample(name, annotation, type, s, size)
  OBVIOUS
<1>4. z = [name |-> name, annotation |-> annotation, subset |-> SubsetFor(name), type |-> type,
           annotations |-> s, size |-> size]
  BY <1>3, SampleIs
<1>5. PICK u : u = [i \in DOMAIN z.annotations |-> [z.annotations[i] EXCEPT !.class = ClassOf(z.annotations[i])]]
  OBVIOUS
<1>6. PICK t : t = Resolved(z, all)
  OBVIOUS
<1>7. t = [z EXCEPT !.annotations = u]
  BY <1>5, <1>6 DEF Resolved
<1> HIDE DEF ClassOf
<1>8. z.annotations = s /\ z.name = name
  BY <1>4
<1>9. t.annotations = u /\ t.name = name
  BY <1>4, <1>7
<1>10. u = [i \in 1..m |-> u[i]] /\ \A i \in 1..m : u[i] = [s[i] EXCEPT !.class = ClassOf(s[i])]
  BY <1>2, <1>5, <1>8
<1>11. Len(u) = m
  BY <1>1, <1>10, FunctionLen
<1>12. ASSUME NEW i \in 1..m
       PROVE  ReadsAs(r.annotations[i], u[i], labels[r.annotations[i].class], r.size)
  <2>1. PICK a, b, n, k, c : /\ a = r.annotations[i] /\ b = s[i] /\ n = labels[r.annotations[i].class]
                             /\ k = r.size /\ c = ClassOf(s[i])
    OBVIOUS
  <2>2. ReadsAs(a, b, n, k)
    BY <1>1, <2>1 DEF AllRead
  <2>3. ReadsAs(a, [b EXCEPT !.class = c], n, k)
    BY <2>2, ClassLeaves
  <2> QED BY <1>10, <2>1, <2>3
<1>13. \A i \in DOMAIN r.annotations : i \in 1..m
  BY <1>1
<1>14. ReadAs(r, t, labels)
  BY <1>1, <1>9, <1>11, <1>12, <1>13 DEF ReadAs, ReadsAs
<1> QED BY <1>3, <1>6, <1>9, <1>14

\* What PairedManifest makes of an image that has an annotation.
Config(files) == {i \in DOMAIN files : Lower(files[i].name.stem) = "data" /\ Is(files[i], {".yaml"})}
Partner(files, image, annotation, file) ==
  /\ image \in NamesAt(files, Positions(files, ImageSuffixes))
  /\ annotation = LastWith(files, AnnotationFiles(files), MatchKey(image)) /\ annotation # NoFile
  /\ file = files[CHOOSE i \in DOMAIN files : files[i].name = annotation]

LEMMA PairIsRead ==
  ASSUME NEW files, NEW labels, NEW image, NEW annotation, NEW file,
         Config(files) = {1}, files[1].data.labels = labels, files[1].data.pose = FALSE,
         Partner(files, image, annotation, file)
  PROVE  \E all : Resolved(Sample(image, annotation, TypeOf(file), Parsed(file, labels, FALSE), SizeOf(file)), all)
                    \in PairedManifest(files).samples
<1> DEFINE config == Config(files)
           ls == IF config = {} THEN [c \in {} |-> ""] ELSE files[First(config)].data.labels
           pose == config # {} /\ files[First(config)].data.pose
           parser == DetectParser(files)
           Of(name) == files[CHOOSE i \in DOMAIN files : files[i].name = name]
           With(n, a) == Sample(n, a, TypeOf(Of(a)), Parsed(Of(a), ls, pose), SizeOf(Of(a)))
           Read(n) == IF LastWith(files, AnnotationFiles(files), MatchKey(n)) = NoFile
                      THEN Sample(n, NoFile, parser, << >>, <<0, 0>>)
                      ELSE With(n, LastWith(files, AnnotationFiles(files), MatchKey(n)))
           samples == {Read(n) : n \in NamesAt(files, Positions(files, ImageSuffixes))}
           all == IF parser = "yolo" THEN YoloLabels(ls, samples) ELSE NumberedLabels(samples)
<1>1. PairedManifest(files).samples = {Resolved(s, all) : s \in samples}
  BY DEF PairedManifest, Config
<1>2. First(config) = 1
  BY DEF First
<1>3. ls = labels /\ pose = FALSE
  <2>1. config # {}
    OBVIOUS
  <2> HIDE DEF config
  <2> QED BY <1>2, <2>1
<1> HIDE DEF config, ls, pose, parser
<1>4. Of(annotation) = file
  BY DEF Partner
<1> HIDE DEF Of
<1>5. With(image, annotation) = Sample(image, annotation, TypeOf(file), Parsed(file, labels, FALSE), SizeOf(file))
  BY <1>3, <1>4
<1> HIDE DEF With
<1>6. Read(image) = With(image, annotation)
  BY DEF Partner
<1> HIDE DEF Read
<1>7. Read(image) \in samples
  BY DEF Partner
<1> HIDE DEF all, samples
<1>8. Resolved(Read(image), all) \in PairedManifest(files).samples
  BY <1>1, <1>7
<1> QED BY <1>5, <1>6, <1>8

LEMMA FileFields ==
  ASSUME NEW name, NEW data
  PROVE  File(name, data).name = name /\ File(name, data).data = data
  BY DEF File

LEMMA RootIsClean ==
  ASSUME NEW stem, NEW suffix
  PROVE  /\ CleanName(Name(<< >>, stem, suffix))
         /\ Name(<< >>, stem, suffix).stem = stem /\ Name(<< >>, stem, suffix).suffix = suffix
<1>1. PICK d : d = << >>
  OBVIOUS
<1>2. PICK X : X = ToSet(d)
  OBVIOUS
<1>3. d \in Seq(X) /\ Len(d) = 0
  BY <1>1, EmptySeq
<1>4. ToSet(d) = {}
  <2>1. DOMAIN d = 1..0
    BY <1>3, LenProperties
  <2> QED BY <2>1 DEF ToSet
<1>5. 0 < MaxDepth
  BY ArchivesAreRead DEF ArchivesAreRead
<1>6. CleanDirs(d)
  BY <1>2, <1>3, <1>4, <1>5 DEF CleanDirs, IsSequence
<1>7. PICK n : n = Name(d, stem, suffix)
  OBVIOUS
<1>8. n = [dirs |-> d, stem |-> stem, suffix |-> suffix]
  BY <1>7 DEF Name
<1>9. n.dirs = d /\ n.stem = stem /\ n.suffix = suffix
  BY <1>8
<1>10. IsName(n)
  BY <1>7, <1>9 DEF IsName
<1> QED BY <1>1, <1>6, <1>7, <1>9, <1>10 DEF CleanName

\* Files of clean names, each its own, are accepted and keep their names.
LEMMA CleanAccepted ==
  ASSUME NEW n \in Nat, NEW files, files = [k \in 1..n |-> files[k]], n <= MaxFiles,
         \A k \in 1..n : /\ files[k] = File(files[k].name, files[k].data)
                         /\ CleanName(files[k].name) /\ files[k].data.kind # "refused",
         \A j, k \in 1..n : files[j].name = files[k].name => j = k
  PROVE  Accepted(files) /\ Entries(files) = files
<1>1. Len(files) = n /\ DOMAIN files = 1..n
  BY FunctionLen
<1>2. \A k \in 1..n : SafeName(files[k].name) = files[k].name
  BY CleanIsSafe
<1>3. \A k \in 1..n : Acceptable(files[k])
  BY <1>2 DEF Acceptable, CleanName, CleanDirs
<1>4. Accepted(files)
  BY <1>1, <1>2, <1>3 DEF Accepted
<1>5. ASSUME NEW k \in 1..n PROVE [files[k] EXCEPT !.name = SafeName(files[k].name)] = files[k]
  <2>1. PICK m, d, f : m = files[k].name /\ d = files[k].data /\ f = files[k]
    OBVIOUS
  <2>2. f = [name |-> m, data |-> d]
    BY <2>1 DEF File
  <2>3. [f EXCEPT !.name = m] = f
    BY <2>2
  <2>4. SafeName(m) = m
    BY <1>2, <2>1
  <2> QED BY <2>1, <2>3, <2>4
<1>6. Entries(files) = files
  <2>1. Entries(files) = [k \in 1..n |-> [files[k] EXCEPT !.name = SafeName(files[k].name)]]
    BY <1>1 DEF Entries
  <2>2. Entries(files) = [k \in 1..n |-> files[k]]
    BY <1>5, <2>1
  <2> QED BY <2>2
<1> QED BY <1>4, <1>6

-----------------------------------------------------------------------------
(* A YOLO export.                                                           *)

YoloConfig(labels) == File(Name(<< >>, "data", ".yaml"), [kind |-> "yaml", labels |-> Renumbered(labels), pose |-> FALSE])
YoloAt(files, records, labels, n) ==
  /\ files = [k \in 1..(2 * n + 1) |-> files[k]]
  /\ files[1] = YoloConfig(labels)
  /\ \A i \in 1..n : /\ files[2 * i] = File(records[i].name, Image)
                     /\ files[2 * i + 1] = File(LabelFile(records[i].name), YoloData(records[i], labels))

LEMMA YoloPlaces ==
  ASSUME NEW n \in Nat, NEW records, DOMAIN records = 1..n, NEW labels
  PROVE  YoloAt(YoloFiles(records, labels), records, labels, n)
<1> DEFINE image(i) == File(records[i].name, Image)
           text(i) == File(LabelFile(records[i].name), YoloData(records[i], labels))
           a == [i \in 1..n |-> image(i)]
           b == [i \in 1..n |-> text(i)]
           seqs == [i \in 1..n |-> <<image(i), text(i)>>]
           X == {image(i) : i \in 1..n} \cup {text(i) : i \in 1..n} \cup {YoloConfig(labels)}
<1>1. YoloFiles(records, labels) = <<YoloConfig(labels)>> \o FlattenSeq(seqs)
  BY DEF YoloFiles, Mapped, YoloConfig, YoloData
<1>2. a \in [1..n -> X] /\ b \in [1..n -> X] /\ YoloConfig(labels) \in X
  <2> HIDE DEF image, text
  <2> QED OBVIOUS
<1>3. \A i \in 1..n : a[i] = image(i) /\ b[i] = text(i) /\ seqs[i] = <<image(i), text(i)>>
  <2> HIDE DEF image, text
  <2> QED OBVIOUS
<1>4. seqs = [i \in 1..n |-> seqs[i]]
  <2> HIDE DEF image, text
  <2> QED OBVIOUS
<1> HIDE DEF image, text, a, b, seqs, X
<1>5. \A i \in 1..n : seqs[i] = <<a[i], b[i]>>
  BY <1>3
<1>6. PICK Y, v, w, f : Y = X /\ v = a /\ w = b /\ f = seqs
  OBVIOUS
<1>7. v \in [1..n -> Y] /\ w \in [1..n -> Y] /\ f \in [1..n -> Seq(Y)] /\ \A i \in 1..n : f[i] = <<v[i], w[i]>>
  <2>1. \A i \in 1..n : v[i] \in Y /\ w[i] \in Y /\ f[i] = <<v[i], w[i]>>
    BY <1>2, <1>5, <1>6
  <2>2. \A i \in 1..n : <<v[i], w[i]>> \in Seq(Y)
    BY <2>1
  <2>3. \A i \in 1..n : f[i] \in Seq(Y)
    BY <2>1, <2>2
  <2>4. v \in [1..n -> Y] /\ w \in [1..n -> Y]
    BY <1>2, <1>6
  <2>5. f = [i \in 1..n |-> f[i]]
    BY <1>4, <1>6
  <2>6. f \in [1..n -> Seq(Y)]
    BY <2>3, <2>5
  <2> QED BY <2>1, <2>4, <2>6
<1>8. PICK flat : flat = FlattenSeq(f)
  OBVIOUS
<1>9. flat \in Seq(Y) /\ Len(flat) = 2 * n /\ Alternates(flat, n, v, w)
  BY <1>7, <1>8, FlattenPairs
<1>10. PICK c, h : c = YoloConfig(labels) /\ h = <<c>>
  OBVIOUS
<1>11. h \in Seq(Y) /\ Len(h) = 1 /\ h[1] = c
  BY <1>2, <1>6, <1>10
<1>12. PICK files : files = h \o flat
  OBVIOUS
<1>13. files \in Seq(Y) /\ Len(files) = Len(h) + Len(flat) /\ After(files, 0, h) /\ After(files, Len(h), flat)
  BY <1>9, <1>11, <1>12, Joined
<1>14. Len(files) = 2 * n + 1 /\ After(files, 0, h) /\ After(files, 1, flat)
  BY <1>9, <1>11, <1>13
<1>15. files = [k \in 1..(2 * n + 1) |-> files[k]]
  BY <1>13, <1>14, LenProperties
<1>16. files[1] = c
  <2>1. files[0 + 1] = h[1]
    BY <1>11, <1>14 DEF After
  <2> QED BY <1>11, <2>1
<1>17. ASSUME NEW i \in 1..n PROVE files[2 * i] = v[i] /\ files[2 * i + 1] = w[i]
  <2>1. PICK k, l : k = 2 * i - 1 /\ l = 2 * i /\ k \in 1..(2 * n) /\ l \in 1..(2 * n) /\ 1 + k = l /\ 1 + l = 2 * i + 1
    OBVIOUS
  <2>2. files[1 + k] = flat[k] /\ files[1 + l] = flat[l]
    BY <1>9, <1>14, <2>1 DEF After
  <2>3. flat[k] = v[i] /\ flat[l] = w[i]
    BY <1>9, <2>1 DEF Alternates
  <2> QED BY <2>1, <2>2, <2>3
<1>18. \A i \in 1..n : v[i] = image(i) /\ w[i] = text(i)
  BY <1>3, <1>6
<1>19. YoloFiles(records, labels) = files
  BY <1>1, <1>6, <1>8, <1>10, <1>12
<1>20. YoloAt(files, records, labels, n)
  BY <1>10, <1>15, <1>16, <1>17, <1>18 DEF YoloAt, image, text
<1> QED BY <1>19, <1>20

LEMMA YoloPosition ==
  ASSUME NEW n \in Nat, NEW k \in 1..(2 * n + 1)
  PROVE  k = 1 \/ \E i \in 1..n : k = 2 * i \/ k = 2 * i + 1
<1> DEFINE i == k \div 2
<1>1. i \in Nat /\ (k = 2 * i \/ k = 2 * i + 1)
  OBVIOUS
<1>2. i = 0 => k = 1
  BY <1>1
<1>3. i # 0 => i \in 1..n
  BY <1>1
<1> HIDE DEF i
<1> QED BY <1>1, <1>2, <1>3

\* What the export of n records may count on.
Exported(records, n) ==
  /\ n \in Nat /\ DOMAIN records = 1..n /\ OwnKeys(records, n)
  /\ \A i \in 1..n : IsRecord(records[i])

\* The names and the kinds of a YOLO export's files.
YoloNames(files, records, n) ==
  /\ files[1].name = Name(<< >>, "data", ".yaml") /\ files[1].data.kind = "yaml"
  /\ files[1] = File(files[1].name, files[1].data)
  /\ \A i \in 1..n :
       /\ files[2 * i].name = records[i].name /\ files[2 * i].data.kind = "image"
       /\ files[2 * i] = File(files[2 * i].name, files[2 * i].data)
       /\ files[2 * i + 1].name = LabelFile(records[i].name) /\ files[2 * i + 1].data.kind = "yolo"
       /\ files[2 * i + 1] = File(files[2 * i + 1].name, files[2 * i + 1].data)

LEMMA YoloNamed ==
  ASSUME NEW files, NEW records, NEW labels, NEW n \in Nat, YoloAt(files, records, labels, n)
  PROVE  YoloNames(files, records, n)
<1>1. /\ files[1].name = Name(<< >>, "data", ".yaml") /\ files[1].data.kind = "yaml"
      /\ files[1] = File(files[1].name, files[1].data)
  <2>1. PICK d : d = [kind |-> "yaml", labels |-> Renumbered(labels), pose |-> FALSE]
    OBVIOUS
  <2>2. d.kind = "yaml" /\ files[1] = File(Name(<< >>, "data", ".yaml"), d)
    BY <2>1 DEF YoloAt, YoloConfig
  <2> QED BY <2>2, FileFields
<1>2. ASSUME NEW i \in 1..n
      PROVE  /\ files[2 * i].name = records[i].name /\ files[2 * i].data.kind = "image"
             /\ files[2 * i] = File(files[2 * i].name, files[2 * i].data)
             /\ files[2 * i + 1].name = LabelFile(records[i].name) /\ files[2 * i + 1].data.kind = "yolo"
             /\ files[2 * i + 1] = File(files[2 * i + 1].name, files[2 * i + 1].data)
  <2>1. PICK e, d : e = Image /\ d = YoloData(records[i], labels)
    OBVIOUS
  <2>2. e.kind = "image" /\ d.kind = "yolo"
    BY <2>1 DEF Image, YoloData
  <2>3. files[2 * i] = File(records[i].name, e) /\ files[2 * i + 1] = File(LabelFile(records[i].name), d)
    BY <2>1 DEF YoloAt
  <2> QED BY <2>2, <2>3, FileFields
<1> QED BY <1>1, <1>2 DEF YoloNames

\* Every file by its suffix, under a name of its own.
YoloSorts(files, records, n, m) ==
  /\ m = 2 * n + 1 /\ m \in Nat /\ files = [k \in 1..m |-> files[k]]
  /\ \A k \in 1..m : /\ files[k] = File(files[k].name, files[k].data)
                     /\ CleanName(files[k].name) /\ files[k].data.kind # "refused"
  /\ \A k \in 1..m : /\ files[k].name.suffix = ".yaml" <=> k = 1
                     /\ files[k].name.suffix = ".txt" <=> \E i \in 1..n : k = 2 * i + 1
                     /\ files[k].name.suffix \in ImageSuffixes <=> \E i \in 1..n : k = 2 * i
  /\ \A k \in 1..m : files[k].name.suffix \in ImageSuffixes \cup {".txt", ".yaml"}
  /\ \A j, k \in 1..m : files[j].name = files[k].name => j = k
  /\ \A i \in 1..n : /\ MatchKey(files[2 * i].name) = MatchKey(records[i].name)
                     /\ MatchKey(files[2 * i + 1].name) = MatchKey(records[i].name)

LEMMA YoloSorted ==
  ASSUME NEW records, NEW n, Exported(records, n), NEW labels,
         NEW files, YoloAt(files, records, labels, n)
  PROVE  YoloSorts(files, records, n, 2 * n + 1)
<1>1. n \in Nat /\ OwnKeys(records, n) /\ \A i \in 1..n : IsRecord(records[i])
  BY DEF Exported
<1>2. YoloNames(files, records, n)
  BY <1>1, YoloNamed
<1>3. PICK m : m = 2 * n + 1 /\ m \in Nat
  BY <1>1
<1>4. files = [k \in 1..m |-> files[k]]
  BY <1>3 DEF YoloAt
<1>5. CleanName(files[1].name) /\ files[1].name.suffix = ".yaml"
  <2>1. PICK s, x : s = "data" /\ x = ".yaml"
    OBVIOUS
  <2>2. CleanName(Name(<< >>, s, x)) /\ Name(<< >>, s, x).suffix = x
    BY RootIsClean
  <2> QED BY <1>2, <2>1, <2>2 DEF YoloNames
<1>6. ASSUME NEW i \in 1..n
      PROVE  /\ CleanName(files[2 * i].name) /\ files[2 * i].name.suffix \in ImageSuffixes
             /\ CleanName(files[2 * i + 1].name) /\ files[2 * i + 1].name.suffix = ".txt"
             /\ MatchKey(files[2 * i].name) = MatchKey(records[i].name)
             /\ MatchKey(files[2 * i + 1].name) = MatchKey(records[i].name)
  <2>1. PICK r : r = records[i].name /\ CleanName(r) /\ r.suffix \in ImageSuffixes
    BY <1>1 DEF IsRecord
  <2>2. CleanName(LabelFile(r)) /\ LabelFile(r).suffix = ".txt" /\ MatchKey(LabelFile(r)) = MatchKey(r)
    BY <2>1, LabelFileParts
  <2>3. files[2 * i].name = r /\ files[2 * i + 1].name = LabelFile(r)
    BY <1>2, <2>1 DEF YoloNames
  <2> QED BY <2>1, <2>2, <2>3
<1>7. ASSUME NEW k \in 1..m
      PROVE  k = 1 \/ \E i \in 1..n : k = 2 * i \/ k = 2 * i + 1
  BY <1>1, <1>3, YoloPosition
<1>8. ASSUME NEW k \in 1..m
      PROVE  /\ files[k] = File(files[k].name, files[k].data)
             /\ CleanName(files[k].name) /\ files[k].data.kind # "refused"
  <2>1. CASE k = 1
    BY <1>2, <1>5, <2>1 DEF YoloNames
  <2>2. ASSUME NEW i \in 1..n, k = 2 * i
        PROVE  /\ files[k] = File(files[k].name, files[k].data)
               /\ CleanName(files[k].name) /\ files[k].data.kind # "refused"
    BY <1>2, <1>6, <2>2 DEF YoloNames
  <2>3. ASSUME NEW i \in 1..n, k = 2 * i + 1
        PROVE  /\ files[k] = File(files[k].name, files[k].data)
               /\ CleanName(files[k].name) /\ files[k].data.kind # "refused"
    BY <1>2, <1>6, <2>3 DEF YoloNames
  <2> QED BY <1>7, <2>1, <2>2, <2>3
<1>9. ASSUME NEW k \in 1..m
      PROVE  /\ files[k].name.suffix = ".yaml" <=> k = 1
             /\ files[k].name.suffix = ".txt" <=> \E i \in 1..n : k = 2 * i + 1
             /\ files[k].name.suffix \in ImageSuffixes <=> \E i \in 1..n : k = 2 * i
  <2>1. ".yaml" \notin ImageSuffixes /\ ".txt" \notin ImageSuffixes
    BY DEF ImageSuffixes
  <2>2. CASE k = 1
    <3>1. \A i \in 1..n : k # 2 * i /\ k # 2 * i + 1
      BY <2>2
    <3> QED BY <1>5, <2>1, <2>2, <3>1
  <2>3. ASSUME NEW i \in 1..n, k = 2 * i
        PROVE  files[k].name.suffix \in ImageSuffixes /\ k # 1 /\ \A j \in 1..n : k # 2 * j + 1
    BY <1>6, <2>3
  <2>4. ASSUME NEW i \in 1..n, k = 2 * i + 1
        PROVE  files[k].name.suffix = ".txt" /\ k # 1 /\ \A j \in 1..n : k # 2 * j
    BY <1>6, <2>4
  <2> QED BY <1>7, <2>1, <2>2, <2>3, <2>4
<1>10. ASSUME NEW j \in 1..m, NEW k \in 1..m, files[j].name = files[k].name PROVE j = k
  <2>1. CASE j = 1
    BY <1>9, <1>10, <2>1
  <2>2. ASSUME NEW a \in 1..n, j = 2 * a PROVE j = k
    <3>1. PICK b \in 1..n : k = 2 * b
      BY <1>9, <1>10, <2>2
    <3>2. MatchKey(records[a].name) = MatchKey(records[b].name)
      BY <1>6, <1>10, <2>2, <3>1
    <3>3. a = b
      BY <1>1, <3>2 DEF OwnKeys
    <3> QED BY <2>2, <3>1, <3>3
  <2>3. ASSUME NEW a \in 1..n, j = 2 * a + 1 PROVE j = k
    <3>1. PICK b \in 1..n : k = 2 * b + 1
      BY <1>9, <1>10, <2>3
    <3>2. MatchKey(records[a].name) = MatchKey(records[b].name)
      BY <1>6, <1>10, <2>3, <3>1
    <3>3. a = b
      BY <1>1, <3>2 DEF OwnKeys
    <3> QED BY <2>3, <3>1, <3>3
  <2> QED BY <1>7, <2>1, <2>2, <2>3
<1>11. ASSUME NEW k \in 1..m PROVE files[k].name.suffix \in ImageSuffixes \cup {".txt", ".yaml"}
  BY <1>7, <1>9
<1>12. YoloSorts(files, records, n, m)
  BY <1>3, <1>4, <1>6, <1>8, <1>9, <1>10, <1>11 DEF YoloSorts
<1> QED BY <1>3, <1>12

LEMMA YoloAccepted ==
  ASSUME NEW files, NEW records, NEW n, NEW m, YoloSorts(files, records, n, m), m <= MaxFiles
  PROVE  Accepted(files) /\ Entries(files) = files
  BY CleanAccepted DEF YoloSorts

\* The label file of an image is found by its key.
LEMMA YoloPartner ==
  ASSUME NEW records, NEW n, Exported(records, n), NEW files, YoloNames(files, records, n),
         NEW m, YoloSorts(files, records, n, m), NEW i \in 1..n
  PROVE  /\ Partner(files, records[i].name, LabelFile(records[i].name), files[2 * i + 1])
         /\ Config(files) = {1}
<1>1. /\ n \in Nat /\ m = 2 * n + 1 /\ m \in Nat /\ DOMAIN files = 1..m
      /\ 2 * i \in 1..m /\ 2 * i + 1 \in 1..m
  BY DEF Exported, YoloSorts
<1>2. PICK r, t : r = records[i].name /\ t = LabelFile(records[i].name)
  OBVIOUS
<1>3. files[2 * i].name = r /\ files[2 * i + 1].name = t
  BY <1>2 DEF YoloNames
<1>4. r \in NamesAt(files, Positions(files, ImageSuffixes))
  <2>1. files[2 * i].name.suffix \in ImageSuffixes
    BY <1>1 DEF YoloSorts
  <2>2. 2 * i \in Positions(files, ImageSuffixes)
    BY <1>1, <2>1 DEF Positions, Is
  <2> QED BY <1>3, <2>2 DEF NamesAt
<1>5. t # NoFile
  <2>1. t.suffix = ".txt"
    BY <1>1, <1>3 DEF YoloSorts
  <2>2. NoFile.suffix = ""
    BY DEF NoFile, Name
  <2> QED BY <2>1, <2>2
<1>6. PICK I : I = AnnotationFiles(files)
  OBVIOUS
<1>7. \A k \in I : k \in 1..m /\ \E j \in 1..n : k = 2 * j + 1
  <2>1. \A k \in I : k \in 1..m /\ files[k].name.suffix \in {".txt", ".xml", ".json"}
    BY <1>1, <1>6 DEF AnnotationFiles, Positions, Is
  <2>2. \A k \in 1..m : files[k].name.suffix \in {".txt", ".xml", ".json"} => files[k].name.suffix = ".txt"
    BY DEF YoloSorts, ImageSuffixes
  <2>3. \A k \in 1..m : files[k].name.suffix = ".txt" => \E j \in 1..n : k = 2 * j + 1
    BY DEF YoloSorts
  <2> QED BY <2>1, <2>2, <2>3
<1>8. 2 * i + 1 \in I
  <2>1. files[2 * i + 1].name.suffix = ".txt"
    BY <1>1 DEF YoloSorts
  <2> QED BY <1>1, <1>6, <2>1 DEF AnnotationFiles, Positions, Is
<1>9. PICK q : q = MatchKey(r)
  OBVIOUS
<1>10. \A j \in 1..n : KeyAt(files, 2 * j + 1) = MatchKey(records[j].name)
  BY DEF KeyAt, YoloSorts
<1>11. {k \in I : KeyAt(files, k) = q} = {2 * i + 1}
  <2>1. KeyAt(files, 2 * i + 1) = q
    BY <1>2, <1>9, <1>10
  <2>2. ASSUME NEW k \in I, KeyAt(files, k) = q PROVE k = 2 * i + 1
    <3>1. PICK j \in 1..n : k = 2 * j + 1
      BY <1>7
    <3>2. MatchKey(records[j].name) = MatchKey(records[i].name)
      BY <1>2, <1>9, <1>10, <2>2, <3>1
    <3>3. j = i
      BY <3>2 DEF Exported, OwnKeys
    <3> QED BY <3>1, <3>3
  <2> QED BY <1>8, <2>1, <2>2
<1>12. LastWith(files, I, q) = t
  <2>1. PICK w : w = 2 * i + 1 /\ w \in Int
    BY <1>1
  <2>2. (CHOOSE k \in {w} : \A j \in {w} : j <= k) = w
    BY <2>1
  <2>3. LastWith(files, I, q) = files[w].name
    BY <1>11, <2>1, <2>2 DEF LastWith
  <2> QED BY <1>3, <2>1, <2>3
<1>13. (CHOOSE k \in DOMAIN files : files[k].name = t) = 2 * i + 1
  <2>1. \A k \in DOMAIN files : files[k].name = t => k = 2 * i + 1
    BY <1>1, <1>3 DEF YoloSorts
  <2> QED BY <1>1, <1>3, <2>1
<1>14. Partner(files, r, t, files[2 * i + 1])
  BY <1>4, <1>5, <1>6, <1>9, <1>12, <1>13 DEF Partner
<1>15. Config(files) = {1}
  <2>1. \A k \in DOMAIN files : Is(files[k], {".yaml"}) => k = 1
    BY <1>1 DEF Is, YoloSorts
  <2>2. PICK s, x : s = "data" /\ x = ".yaml"
    OBVIOUS
  <2>3. files[1].name.stem = s /\ files[1].name.suffix = x
    BY <2>2, RootIsClean DEF YoloNames
  <2>4. Lower("data") = "data"
    BY DEF Lower, LowerCase
  <2>5. 1 \in DOMAIN files
    BY <1>1
  <2> QED BY <2>1, <2>2, <2>3, <2>4, <2>5 DEF Config, Is
<1> QED BY <1>2, <1>14, <1>15

\* What is read again of the records that a format can hold.
ReadAgain(files, records, n, format, labels) ==
  /\ Accepted(files) /\ Entries(files) = files
  /\ \A i \in 1..n : Held(records[i], format, labels) =>
       \E s \in Manifest(files).samples : s.name = records[i].name /\ ReadAs(records[i], s, labels)

LEMMA YoloReadBack ==
  ASSUME NEW records, NEW n, Exported(records, n), NEW labels \in Labels,
         NEW files, YoloAt(files, records, labels, n), Len(files) <= MaxFiles
  PROVE  ReadAgain(files, records, n, "yolo", labels)
<1>1. n \in Nat /\ \A i \in 1..n : IsRecord(records[i])
  BY DEF Exported
<1>2. PICK m : m = 2 * n + 1 /\ m \in Nat
  BY <1>1
<1>3. YoloSorts(files, records, n, m)
  BY <1>1, <1>2, YoloSorted
<1>4. Len(files) = m /\ DOMAIN files = 1..m
  <2>1. files = [k \in 1..m |-> files[k]]
    BY <1>3 DEF YoloSorts
  <2> QED BY <1>2, <2>1, FunctionLen
<1>5. Accepted(files) /\ Entries(files) = files
  <2>1. m <= MaxFiles
    BY <1>4
  <2> QED BY <1>3, <2>1, YoloAccepted
<1>6. Manifest(files) = PairedManifest(files)
  <2>1. ASSUME NEW k \in 1..m PROVE files[k].name.suffix # ".json"
    <3>1. files[k].name.suffix \in ImageSuffixes \cup {".txt", ".yaml"}
      BY <1>3 DEF YoloSorts
    <3> QED BY <3>1 DEF ImageSuffixes
  <2>2. Positions(files, {".json"}) = {}
    BY <1>4, <2>1 DEF Positions, Is
  <2> QED BY <2>2 DEF Manifest
<1>7. YoloNames(files, records, n)
  BY <1>1, YoloNamed
<1>8. PICK ls : ls = Renumbered(labels)
  OBVIOUS
<1>9. files[1].data.labels = ls /\ files[1].data.pose = FALSE
  <2>1. PICK d : d = [kind |-> "yaml", labels |-> ls, pose |-> FALSE]
    OBVIOUS
  <2>2. d.labels = ls /\ d.pose = FALSE
    BY <2>1
  <2>3. files[1] = File(Name(<< >>, "data", ".yaml"), d)
    BY <1>8, <2>1 DEF YoloAt, YoloConfig
  <2>4. files[1].data = d
    BY <2>3, FileFields
  <2> QED BY <2>2, <2>4
<1>10. ASSUME NEW i \in 1..n, Held(records[i], "yolo", labels)
       PROVE  \E s \in Manifest(files).samples : s.name = records[i].name /\ ReadAs(records[i], s, labels)
  <2>1. PICK r, name, text, f : /\ r = records[i] /\ name = records[i].name
                                /\ text = LabelFile(records[i].name) /\ f = files[2 * i + 1]
    OBVIOUS
  <2>2. Partner(files, name, text, f) /\ Config(files) = {1}
    BY <1>3, <1>7, <2>1, YoloPartner
  <2>3. PICK all : Resolved(Sample(name, text, TypeOf(f), Parsed(f, ls, FALSE), SizeOf(f)), all)
                     \in PairedManifest(files).samples
    BY <1>9, <2>2, PairIsRead
  <2>4. PICK data, p : data = YoloData(r, labels) /\ p = ParseYolo(data, ls, FALSE)
    OBVIOUS
  <2>5. AllRead(r, p, labels)
    BY <1>1, <1>8, <1>10, <2>1, <2>4, YoloParsed
  <2>6. f.data = data
    <3>1. f = File(text, data)
      BY <2>1, <2>4 DEF YoloAt
    <3> QED BY <3>1, FileFields
  <2>7. data.kind = "yolo"
    BY <2>4 DEF YoloData
  <2>8. Parsed(f, ls, FALSE) = p
    BY <2>4, <2>6, <2>7 DEF Parsed
  <2>9. PICK type, size : type = TypeOf(f) /\ size = SizeOf(f)
    OBVIOUS
  <2>10. PICK t : t = Resolved(Sample(name, text, type, p, size), all)
    OBVIOUS
  <2>11. t \in PairedManifest(files).samples
    BY <2>3, <2>8, <2>9, <2>10
  <2>12. IsSequence(r.annotations)
    BY <1>1, <2>1 DEF IsRecord
  <2>13. t.name = name /\ ReadAs(r, t, labels)
    BY <2>5, <2>10, <2>12, ResolvedReads
  <2> QED BY <1>6, <2>1, <2>11, <2>13
<1> QED BY <1>5, <1>10 DEF ReadAgain

-----------------------------------------------------------------------------
(* A COCO export.                                                           *)

\* What COCO can hold of an annotation.
InCoco(a, size, labels) ==
  /\ IsAnnotation(a) /\ size \in Int \X Int /\ (a.space = "pixels" \/ Known(size))
  /\ a.class \in DOMAIN labels
  /\ a.polygon = << >> => a.box # << >>

LEMMA HoldableInCoco ==
  ASSUME NEW r, IsRecord(r), NEW labels, Held(r, "coco", labels), NEW a \in ToSet(r.annotations)
  PROVE  InCoco(a, r.size, labels)
<1>1. IsAnnotation(a) /\ Holdable(a, r, "coco", labels) /\ r.size \in Int \X Int
  BY DEF IsRecord, Held
<1> QED BY <1>1 DEF Holdable, InCoco

\* A normalized corner as a centre.
LEMMA CornerIs ==
  ASSUME NEW p \in Int, NEW w \in Int, NEW s \in Int, s > 0
  PROVE  Within(2 * ((p - w \div 2) * s) + w * s, 2 * s * p, 2 * s)
<1>1. PICK h, e : h = w \div 2 /\ h \in Int /\ e = w - 2 * h /\ e \in {0, 1}
  OBVIOUS
<1>2. PICK t, u : t = p * s /\ u = h * s /\ t \in Int /\ u \in Int
  BY <1>1
<1>3. (p - h) * s = t - u
  BY <1>1, <1>2
<1>4. w * s = 2 * u \/ w * s = 2 * u + s
  <2>1. CASE e = 0
    <3>1. w = 2 * h
      BY <1>1, <2>1
    <3> QED BY <1>1, <1>2, <3>1
  <2>2. CASE e = 1
    <3>1. w = 2 * h + 1
      BY <1>1, <2>2
    <3> QED BY <1>1, <1>2, <3>1
  <2> QED BY <1>1, <2>1, <2>2
<1>5. 2 * s * p = 2 * t
  BY <1>2
<1>6. PICK v : v = w * s /\ (v = 2 * u \/ v = 2 * u + s)
  BY <1>4
<1>7. Within(2 * (t - u) + v, 2 * t, 2 * s)
  BY <1>2, <1>6 DEF Within
<1> QED BY <1>1, <1>3, <1>5, <1>6, <1>7

LEMMA PixelBoxIs ==
  ASSUME NEW a, NEW size, IsAnnotation(a), size \in Int \X Int, a.space = "pixels" \/ Known(size),
         a.box # << >>
  PROVE  IF a.space = "pixels" THEN PixelBox(a, size) = a.box ELSE SameBox(PixelBox(a, size), a.box, size)
<1>1. PICK b : b = a.box /\ b \in [1..4 -> Int] /\ b # << >>
  BY DEF IsAnnotation, Drawn
<1>2. PICK u : u = PixelBox(a, size)
  OBVIOUS
<1>3. CASE a.space = "pixels"
  BY <1>3 DEF PixelBox, ToPixels
<1>4. CASE a.space # "pixels"
  <2>1. /\ a.space = "normalized" /\ Known(size)
        /\ size[1] \in Int /\ size[1] > 0 /\ size[2] \in Int /\ size[2] > 0
    BY <1>4 DEF IsAnnotation, Known
  <2>2. b[1] \in Int /\ b[2] \in Int /\ b[3] \in Int /\ b[4] \in Int
    BY <1>1
  <2>3. PICK x, y, w, h : /\ x = (b[1] - b[3] \div 2) * size[1] /\ y = (b[2] - b[4] \div 2) * size[2]
                          /\ w = b[3] * size[1] /\ h = b[4] * size[2]
    OBVIOUS
  <2>4. u = <<x, y, w, h>>
    BY <1>1, <1>2, <2>1, <2>3 DEF PixelBox, ToPixels
  <2>5. u[1] = x /\ u[2] = y /\ u[3] = w /\ u[4] = h
    BY <2>4
  <2>6. /\ Within(2 * x + w, 2 * size[1] * b[1], 2 * size[1])
        /\ Within(2 * y + h, 2 * size[2] * b[2], 2 * size[2])
    BY <2>1, <2>2, <2>3, CornerIs
  <2>7. ASSUME NEW v \in Int, NEW s \in Int, s > 0 PROVE Within(v * s, s * v, s)
    <3>1. PICK t : t = v * s /\ t = s * v /\ t \in Int
      BY <2>7
    <3>2. t <= t /\ t < t + s
      BY <2>7, <3>1
    <3>3. Within(t, t, s)
      BY <3>2 DEF Within
    <3> QED BY <3>1, <3>3
  <2>8. Within(w, size[1] * b[3], size[1]) /\ Within(h, size[2] * b[4], size[2])
    BY <2>1, <2>2, <2>3, <2>7
  <2>9. ASSUME NEW k \in {1, 2}
        PROVE  /\ Within(2 * u[k] + u[k + 2], 2 * size[k] * b[k], 2 * size[k])
               /\ Within(u[k + 2], size[k] * b[k + 2], size[k])
    <3>1. CASE k = 1
      BY <2>5, <2>6, <2>8, <3>1
    <3>2. CASE k = 2
      BY <2>5, <2>6, <2>8, <3>2
    <3> QED BY <3>1, <3>2
  <2>10. SameBox(u, b, size)
    BY <2>9 DEF SameBox
  <2> QED BY <1>1, <1>2, <1>4, <2>10
<1> QED BY <1>3, <1>4

LEMMA PixelPolygonIs ==
  ASSUME NEW a, NEW size, IsAnnotation(a), size \in Int \X Int, a.space = "pixels" \/ Known(size),
         NEW g, g = [i \in DOMAIN a.polygon |-> PixelPoint(a.polygon[i], a, size)]
  PROVE  IF a.space = "pixels" THEN g = a.polygon ELSE SamePoints(g, a.polygon, size)
<1>1. PICK P, n : /\ P = a.polygon /\ n = Len(P) /\ n \in Nat /\ DOMAIN P = 1..n
                  /\ \A i \in 1..n : P[i] \in Int \X Int
  <2>1. a.polygon \in Seq(Int \X Int)
    BY DEF IsAnnotation, Outlines
  <2> QED BY <2>1, LenProperties, ElementOfSeq
<1>2. P = [i \in 1..n |-> P[i]]
  BY <1>1, LenProperties DEF IsAnnotation, Outlines
<1>3. g = [i \in 1..n |-> g[i]] /\ \A i \in 1..n : g[i] = PixelPoint(P[i], a, size)
  BY <1>1
<1>4. CASE a.space = "pixels"
  <2>1. ASSUME NEW i \in 1..n PROVE g[i] = P[i]
    <3>1. PICK p : p = P[i] /\ p \in Int \X Int
      BY <1>1
    <3>2. p = <<p[1], p[2]>>
      BY <3>1
    <3>3. PixelPoint(p, a, size) = <<p[1], p[2]>>
      BY <1>4 DEF PixelPoint, ToPixels
    <3> QED BY <1>3, <3>1, <3>2, <3>3
  <2>2. g = P
    BY <1>2, <1>3, <2>1
  <2> QED BY <1>1, <1>4, <2>2
<1>5. CASE a.space # "pixels"
  <2>1. /\ a.space = "normalized" /\ Known(size)
        /\ size[1] \in Int /\ size[1] > 0 /\ size[2] \in Int /\ size[2] > 0
    BY <1>5 DEF IsAnnotation, Known
  <2>2. ASSUME NEW i \in 1..n, NEW k \in {1, 2} PROVE Within(g[i][k], size[k] * P[i][k], size[k])
    <3>1. PICK p : p = P[i] /\ p[1] \in Int /\ p[2] \in Int
      BY <1>1
    <3>2. PixelPoint(p, a, size) = <<p[1] * size[1], p[2] * size[2]>>
      BY <2>1 DEF PixelPoint, ToPixels
    <3>3. PICK v, s, t : v = p[k] /\ s = size[k] /\ v \in Int /\ s \in Int /\ s > 0 /\ t = v * s
      BY <2>1, <3>1
    <3>4. g[i][k] = t
      <4>1. g[i] = <<p[1] * size[1], p[2] * size[2]>>
        BY <1>3, <3>1, <3>2
      <4>2. PICK x, y : x = p[1] * size[1] /\ y = p[2] * size[2]
        OBVIOUS
      <4>3. g[i][1] = x /\ g[i][2] = y
        BY <4>1, <4>2
      <4>4. t = IF k = 1 THEN x ELSE y
        BY <3>3, <4>2
      <4> QED BY <4>3, <4>4
    <3>5. t = s * v /\ t \in Int
      BY <3>3
    <3>6. t <= t /\ t < t + s
      BY <3>3, <3>5
    <3>7. Within(t, s * v, s)
      BY <3>5, <3>6 DEF Within
    <3> QED BY <3>1, <3>3, <3>4, <3>7
  <2>3. Len(g) = n /\ DOMAIN g = 1..n
    BY <1>1, <1>3, FunctionLen
  <2>4. SamePoints(g, P, size)
    BY <1>1, <2>2, <2>3 DEF SamePoints
  <2> QED BY <1>1, <1>5, <2>4
<1> QED BY <1>4, <1>5

\* An entry of the document.
CocoEntry(i, a, size, labels) ==
  [image |-> i, category |-> Index(labels, a.class), box |-> PixelBox(a, size),
   polygon |-> Mapped(a.polygon, LAMBDA p : PixelPoint(p, a, size)),
   keypoints |-> Mapped(a.keypoints, LAMBDA p : Append(PixelPoint(p, a, size), p[3]))]
FromEntry(e, categories) ==
  [Annotation(e.category, NameIn(categories, e.category), "pixels") EXCEPT
     !.box = e.box, !.polygon = e.polygon, !.keypoints = e.keypoints]

LEMMA EntryRead ==
  ASSUME NEW labels \in Labels, NEW size, NEW a, InCoco(a, size, labels), NEW i
  PROVE  ReadsAs(a, FromEntry(CocoEntry(i, a, size, labels), Renumbered(labels)), labels[a.class], size)
<1>1. PICK g, k, c, p : /\ g = Mapped(a.polygon, LAMBDA q : PixelPoint(q, a, size))
                        /\ k = Mapped(a.keypoints, LAMBDA q : Append(PixelPoint(q, a, size), q[3]))
                        /\ c = Index(labels, a.class) /\ p = PixelBox(a, size)
  OBVIOUS
<1>2. PICK e : e = CocoEntry(i, a, size, labels)
  OBVIOUS
<1>3. e = [image |-> i, category |-> c, box |-> p, polygon |-> g, keypoints |-> k]
  BY <1>1, <1>2 DEF CocoEntry
<1>4. e.category = c /\ e.box = p /\ e.polygon = g /\ e.keypoints = k
  BY <1>3
<1>5. PICK n : n = NameIn(Renumbered(labels), c)
  OBVIOUS
<1>6. n = labels[a.class]
  BY <1>1, <1>5, NameRead DEF InCoco
<1>7. PICK b : b = FromEntry(e, Renumbered(labels))
  OBVIOUS
<1>8. b = [[class |-> c, name |-> n, box |-> << >>, polygon |-> << >>, keypoints |-> << >>,
            space |-> "pixels"] EXCEPT !.box = p, !.polygon = g, !.keypoints = k]
  BY <1>4, <1>5, <1>7 DEF FromEntry, Annotation
<1>9. b = [class |-> c, name |-> n, box |-> p, polygon |-> g, keypoints |-> k, space |-> "pixels"]
  BY <1>8
<1>10. /\ b.class = c /\ b.name = n /\ b.box = p /\ b.polygon = g /\ b.keypoints = k
       /\ b.space = "pixels"
  BY <1>9
<1>11. Full(b)
  BY <1>9, <1>10 DEF Full
<1>12. g = [j \in DOMAIN a.polygon |-> PixelPoint(a.polygon[j], a, size)]
  BY <1>1 DEF Mapped
<1>13. a.space \in {"normalized", "pixels"}
  BY DEF InCoco, IsAnnotation
<1>14. SamePlace(a, b, size)
  <2>1. CASE a.polygon # << >>
    <3>1. IF a.space = "pixels" THEN g = a.polygon ELSE SamePoints(g, a.polygon, size)
      BY <1>12, PixelPolygonIs DEF InCoco
    <3> QED BY <1>10, <1>13, <2>1, <3>1 DEF SamePlace
  <2>2. CASE a.polygon = << >>
    <3>1. IF a.space = "pixels" THEN p = a.box ELSE SameBox(p, a.box, size)
      BY <1>1, <2>2, PixelBoxIs DEF InCoco
    <3> QED BY <1>10, <1>13, <2>2, <3>1 DEF SamePlace
  <2> QED BY <2>1, <2>2
<1> QED BY <1>2, <1>6, <1>7, <1>10, <1>11, <1>14 DEF ReadsAs

\* The entries of a record's annotations, and what the parser finds of them.
CocoKept(r, labels) ==
  Only(r.annotations, {a \in ToSet(r.annotations) :
         a.class \in DOMAIN labels /\ (a.box # << >> \/ a.polygon # << >> \/ a.keypoints # << >>)})
CocoEntries(i, r, labels) ==
  [k \in DOMAIN CocoKept(r, labels) |-> CocoEntry(i, CocoKept(r, labels)[k], r.size, labels)]

LEMMA DocumentIs ==
  ASSUME NEW records, NEW labels
  PROVE  CocoDocument(records, labels)
           = [kind |-> "coco", categories |-> Renumbered(labels),
              images |-> [i \in DOMAIN records |->
                            [id |-> i, file |-> records[i].name, size |-> records[i].size]],
              annotations |-> FlattenSeq([i \in DOMAIN records |-> CocoEntries(i, records[i], labels)])]
  BY DEF CocoDocument, CocoEntries, CocoKept, CocoEntry, Mapped

LEMMA EntryImage ==
  ASSUME NEW i, NEW a, NEW size, NEW labels
  PROVE  CocoEntry(i, a, size, labels).image = i
  BY DEF CocoEntry

LEMMA EntriesAre ==
  ASSUME NEW i, NEW r, IsSequence(r.annotations), NEW labels
  PROVE  \E Y : CocoEntries(i, r, labels) \in Seq(Y) /\ \A e \in Y : e.image = i
<1> DEFINE entry(a) == CocoEntry(i, a, r.size, labels)
           Y == {entry(a) : a \in ToSet(r.annotations)}
<1>1. PICK s : s = CocoKept(r, labels)
  OBVIOUS
<1>2. s \in Seq(ToSet(r.annotations))
  <2> DEFINE S == {a \in ToSet(r.annotations) :
         a.class \in DOMAIN labels /\ (a.box # << >> \/ a.polygon # << >> \/ a.keypoints # << >>)}
  <2>1. S \subseteq ToSet(r.annotations) /\ s = Only(r.annotations, S)
    BY <1>1 DEF CocoKept
  <2> HIDE DEF S
  <2>2. s \in Seq(S)
    BY <2>1, OnlyKeeps
  <2>3. PICK X, T : X = ToSet(r.annotations) /\ T = S /\ T \subseteq X
    BY <2>1
  <2>4. s \in Seq(T)
    BY <2>2, <2>3
  <2>5. s \in Seq(X)
    BY <2>3, <2>4, SeqDef
  <2> QED BY <2>3, <2>5
<1>3. PICK m : m = Len(s) /\ m \in Nat /\ DOMAIN s = 1..m /\ \A k \in 1..m : s[k] \in ToSet(r.annotations)
  BY <1>2, LenProperties, ElementOfSeq
<1>4. CocoEntries(i, r, labels) = [k \in 1..m |-> entry(s[k])]
  BY <1>1, <1>3 DEF CocoEntries
<1>5. \A a : entry(a).image = i
  BY EntryImage
<1> HIDE DEF entry
<1>6. CocoEntries(i, r, labels) \in [1..m -> Y]
  BY <1>3, <1>4
<1>7. CocoEntries(i, r, labels) \in Seq(Y)
  <2>1. PICK Z : Z = Y
    OBVIOUS
  <2>2. CocoEntries(i, r, labels) \in [1..m -> Z]
    BY <1>6, <2>1
  <2> QED BY <1>3, <2>1, <2>2, SeqDef
<1>8. \A e \in Y : e.image = i
  BY <1>5
<1> QED BY <1>7, <1>8

AllEntries(records, n, labels) == FlattenSeq([i \in 1..n |-> CocoEntries(i, records[i], labels)])

\* The parser finds the entries of an image again.
LEMMA OwnEntries ==
  ASSUME NEW records, NEW n \in Nat, DOMAIN records = 1..n,
         \A i \in 1..n : IsSequence(records[i].annotations), NEW labels,
         NEW entries, entries = AllEntries(records, n, labels),
         NEW i \in 1..n
  PROVE  Only(entries, {e \in ToSet(entries) : e.image = i}) = CocoEntries(i, records[i], labels)
<1> DEFINE of(j) == CocoEntries(j, records[j], labels)
           seqs == [j \in 1..n |-> of(j)]
<1>1. \A j \in 1..n : \E Y : of(j) \in Seq(Y) /\ \A e \in Y : e.image = j
  BY EntriesAre
<1> HIDE DEF of
<1>2. \A j \in 1..n : seqs[j] = of(j)
  OBVIOUS
<1>3. entries = FlattenSeq(seqs)
  BY DEF of, AllEntries
<1>4. seqs = [j \in 1..n |-> seqs[j]]
  OBVIOUS
<1> HIDE DEF seqs
<1> DEFINE Own(j) == {e \in ToSet(seqs[j]) : e.image = j}
           X == UNION {Own(j) : j \in 1..n}
           U == {e \in X : e.image = i}
<1>5. ASSUME NEW j \in 1..n PROVE seqs[j] \in Seq(Own(j))
  <2>1. PICK Y : seqs[j] \in Seq(Y) /\ \A e \in Y : e.image = j
    BY <1>1, <1>2
  <2>2. PICK m, t : t = seqs[j] /\ m = Len(t) /\ m \in Nat /\ t \in [1..m -> Y]
    BY <2>1, LenProperties
  <2>3. \A k \in 1..m : t[k] \in Own(j)
    BY <2>1, <2>2 DEF ToSet
  <2>4. PICK Z : Z = Own(j)
    OBVIOUS
  <2>5. t \in [1..m -> Z]
    BY <2>2, <2>3, <2>4
  <2>6. t \in Seq(Z)
    BY <2>2, <2>5, SeqDef
  <2> QED BY <2>2, <2>4, <2>6
<1>6. \A j \in 1..n : \A e \in Own(j) : e.image = j
  OBVIOUS
<1> HIDE DEF Own
<1>7. \A j \in 1..n : seqs[j] \in Seq(X)
  <2> SUFFICES ASSUME NEW j \in 1..n PROVE seqs[j] \in Seq(X)
    OBVIOUS
  <2>1. PICK A, B, t : A = Own(j) /\ B = X /\ t = seqs[j] /\ A \subseteq B
    OBVIOUS
  <2>2. t \in Seq(A)
    BY <1>5, <2>1
  <2>3. t \in Seq(B)
    BY <2>1, <2>2, SeqDef
  <2> QED BY <2>1, <2>3
<1>8. seqs[i] \in Seq(U)
  <2>1. PICK A, B, t : A = Own(i) /\ B = U /\ t = seqs[i]
    OBVIOUS
  <2>2. A \subseteq B
    BY <1>6, <2>1
  <2>3. t \in Seq(A)
    BY <1>5, <2>1
  <2>4. t \in Seq(B)
    BY <2>2, <2>3, SeqDef
  <2> QED BY <2>1, <2>4
<1>9. \A j \in 1..n : j # i => \E Y : seqs[j] \in Seq(Y) /\ Y \cap U = {}
  <2> SUFFICES ASSUME NEW j \in 1..n, j # i PROVE \E Y : seqs[j] \in Seq(Y) /\ Y \cap U = {}
    OBVIOUS
  <2>1. Own(j) \cap U = {}
    BY <1>6
  <2> QED BY <1>5, <2>1
<1>10. PICK f, A, B : f = seqs /\ A = X /\ B = U
  OBVIOUS
<1>11. f \in [1..n -> Seq(A)] /\ OnlyIn(f, n, i, B)
  <2>1. f \in [1..n -> Seq(A)]
    BY <1>4, <1>7, <1>10
  <2> HIDE DEF U, X
  <2>2. f[i] \in Seq(B) /\ \A j \in 1..n : j # i => \E Y : f[j] \in Seq(Y) /\ Y \cap B = {}
    BY <1>8, <1>9, <1>10
  <2>3. OnlyIn(f, n, i, B)
    BY <2>2 DEF OnlyIn
  <2> QED BY <2>1, <2>3
<1>12. FlattenSeq(f) \in Seq(A) /\ Only(FlattenSeq(f), B) = f[i]
  <2> HIDE DEF U, X
  <2> QED BY <1>11, OnlyOfFlattened, Zenon
<1>13. PICK s : s = entries /\ s \in Seq(A) /\ Only(s, B) = f[i]
  BY <1>3, <1>10, <1>12
<1>14. IsSequence(s) /\ ToSet(s) \subseteq A
  <2>1. PICK m : m = Len(s) /\ m \in Nat /\ s \in [1..m -> A] /\ s = [k \in 1..m |-> s[k]]
    BY <1>13, LenProperties
  <2>2. IsSequence(s)
    BY <2>1, FunctionLen
  <2> QED BY <2>1, <2>2 DEF ToSet
<1>15. PICK S : S = {e \in ToSet(s) : e.image = i}
  OBVIOUS
<1>16. \A e \in ToSet(s) : e \in S <=> e \in B
  BY <1>10, <1>14, <1>15
<1>17. Only(s, S) = Only(s, B)
  BY <1>14, <1>16, OnlySame
<1> QED BY <1>2, <1>10, <1>13, <1>15, <1>17 DEF of

\* All annotations that COCO can hold are read.
LEMMA CocoRead ==
  ASSUME NEW records, NEW n \in Nat, DOMAIN records = 1..n, \A i \in 1..n : IsRecord(records[i]),
         NEW labels \in Labels, NEW i \in 1..n, Held(records[i], "coco", labels),
         NEW data, data = CocoDocument(records, labels),
         NEW image, image = [id |-> i, file |-> records[i].name, size |-> records[i].size]
  PROVE  AllRead(records[i], CocoAnnotations(data, image), labels)
<1>1. PICK r : r = records[i] /\ IsRecord(r) /\ Held(r, "coco", labels)
  OBVIOUS
<1>2. PICK s, m : s = r.annotations /\ m = Len(s) /\ m \in Nat /\ \A k \in 1..m : s[k] \in ToSet(s)
  BY <1>1, SequenceIs DEF IsRecord
<1>3. CocoKept(r, labels) = s /\ DOMAIN s = 1..m
  <2> DEFINE fits(a) == a.class \in DOMAIN labels /\ (a.box # << >> \/ a.polygon # << >> \/ a.keypoints # << >>)
             S == {a \in ToSet(r.annotations) : fits(a)}
  <2>1. \A a \in ToSet(r.annotations) : fits(a)
    BY <1>1, HoldableInCoco DEF InCoco
  <2>2. CocoKept(r, labels) = Only(r.annotations, S)
    BY DEF CocoKept
  <2> HIDE DEF fits
  <2>3. S = ToSet(s)
    BY <1>2, <2>1
  <2> HIDE DEF S
  <2>4. PICK X : X = ToSet(s)
    OBVIOUS
  <2>5. s \in Seq(X)
    BY <1>1, <1>2, <2>4 DEF IsRecord, IsSequence
  <2>6. Only(s, X) = s /\ DOMAIN s = 1..m
    BY <1>2, <2>5, OnlyAll, LenProperties
  <2> QED BY <1>2, <2>2, <2>3, <2>4, <2>6
<1>4. CocoEntries(i, r, labels) = [k \in 1..m |-> CocoEntry(i, s[k], r.size, labels)]
  BY <1>3 DEF CocoEntries
<1>5. PICK entries : entries = AllEntries(records, n, labels)
  OBVIOUS
<1>6. PICK ls, pictures : /\ ls = Renumbered(labels)
                          /\ pictures = [j \in DOMAIN records |->
                                           [id |-> j, file |-> records[j].name, size |-> records[j].size]]
  OBVIOUS
<1>7. data = [kind |-> "coco", categories |-> ls, images |-> pictures, annotations |-> entries]
  BY <1>5, <1>6, DocumentIs DEF AllEntries
<1>8. data.categories = ls /\ data.annotations = entries /\ image.id = i
  BY <1>7
<1>9. PICK own : own = Only(entries, {e \in ToSet(entries) : e.image = i})
  OBVIOUS
<1>10. own = CocoEntries(i, r, labels)
  <2>1. \A j \in 1..n : IsSequence(records[j].annotations)
    BY DEF IsRecord
  <2>2. own = CocoEntries(i, records[i], labels)
    BY <1>5, <1>9, <2>1, OwnEntries
  <2> QED BY <1>1, <2>2
<1>11. CocoAnnotations(data, image) = [k \in DOMAIN own |-> FromEntry(own[k], ls)]
  BY <1>8, <1>9 DEF CocoAnnotations, FromEntry
<1>12. PICK p : p = CocoAnnotations(data, image)
  OBVIOUS
<1>13. DOMAIN own = 1..m /\ \A k \in 1..m : own[k] = CocoEntry(i, s[k], r.size, labels)
  BY <1>4, <1>10
<1>14. p = [k \in 1..m |-> p[k]] /\ \A k \in 1..m : p[k] = FromEntry(own[k], ls)
  BY <1>11, <1>12, <1>13
<1>15. ASSUME NEW k \in 1..m PROVE ReadsAs(s[k], p[k], labels[s[k].class], r.size)
  <2>1. PICK a, z : a = s[k] /\ z = r.size /\ InCoco(a, z, labels)
    BY <1>1, <1>2, HoldableInCoco
  <2>2. ReadsAs(a, FromEntry(CocoEntry(i, a, z, labels), Renumbered(labels)), labels[a.class], z)
    BY <2>1, EntryRead
  <2> QED BY <1>6, <1>13, <1>14, <2>1, <2>2
<1> QED BY <1>1, <1>2, <1>12, <1>14, <1>15 DEF AllRead

\* The files of a COCO export, the document last.
CocoJson(records, labels) == File(Name(<< >>, "annotations", ".json"), CocoDocument(records, labels))
CocoAt(files, records, labels, n) ==
  /\ files = [k \in 1..(n + 1) |-> files[k]]
  /\ files[n + 1] = CocoJson(records, labels)
  /\ \A i \in 1..n : files[i] = File(records[i].name, Image)

LEMMA CocoPlaces ==
  ASSUME NEW n \in Nat, NEW records, DOMAIN records = 1..n, NEW labels
  PROVE  CocoAt(CocoFiles(records, labels), records, labels, n)
<1> DEFINE image(i) == File(records[i].name, Image)
           s == [i \in 1..n |-> image(i)]
           X == {image(i) : i \in 1..n} \cup {CocoJson(records, labels)}
<1>1. CocoFiles(records, labels) = Append(s, CocoJson(records, labels))
  BY DEF CocoFiles, Mapped, CocoJson
<1>2. s \in [1..n -> X] /\ CocoJson(records, labels) \in X /\ \A i \in 1..n : s[i] = image(i)
  <2> HIDE DEF image
  <2> QED OBVIOUS
<1> HIDE DEF s, X
<1>3. PICK Y, t, json : Y = X /\ t = s /\ json = CocoJson(records, labels)
  OBVIOUS
<1>4. t \in Seq(Y) /\ Len(t) = n /\ json \in Y
  <2>1. t \in [1..n -> Y] /\ json \in Y
    BY <1>2, <1>3
  <2>2. t \in Seq(Y)
    BY <2>1, SeqDef
  <2>3. Len(t) \in Nat /\ DOMAIN t = 1..Len(t) /\ DOMAIN t = 1..n
    BY <2>1, <2>2, LenProperties
  <2> QED BY <2>1, <2>2, <2>3
<1>5. PICK files : files = Append(t, json)
  OBVIOUS
<1>6. /\ files \in Seq(Y) /\ Len(files) = n + 1 /\ files[n + 1] = json
      /\ \A i \in 1..n : files[i] = t[i]
  BY <1>4, <1>5, AppendProperties
<1>7. files = [k \in 1..(n + 1) |-> files[k]]
  BY <1>6, LenProperties
<1>8. CocoAt(files, records, labels, n)
  BY <1>2, <1>3, <1>6, <1>7 DEF CocoAt
<1> QED BY <1>1, <1>3, <1>5, <1>8

\* Every file by its suffix, under a name of its own.
CocoSorts(files, records, n, m) ==
  /\ m = n + 1 /\ m \in Nat /\ files = [k \in 1..m |-> files[k]]
  /\ \A k \in 1..m : /\ files[k] = File(files[k].name, files[k].data)
                     /\ CleanName(files[k].name) /\ files[k].data.kind # "refused"
  /\ files[m].name.suffix = ".json" /\ files[m].data.kind = "coco"
  /\ \A i \in 1..n : files[i].name = records[i].name /\ files[i].name.suffix \in ImageSuffixes
  /\ \A j, k \in 1..m : files[j].name = files[k].name => j = k

LEMMA CocoSorted ==
  ASSUME NEW records, NEW n, Exported(records, n), NEW labels,
         NEW files, CocoAt(files, records, labels, n)
  PROVE  CocoSorts(files, records, n, n + 1)
<1>1. n \in Nat /\ OwnKeys(records, n) /\ \A i \in 1..n : IsRecord(records[i])
  BY DEF Exported
<1>2. PICK m : m = n + 1 /\ m \in Nat
  BY <1>1
<1>3. files = [k \in 1..m |-> files[k]]
  BY <1>2 DEF CocoAt
<1>4. /\ files[m] = File(files[m].name, files[m].data) /\ CleanName(files[m].name)
      /\ files[m].name.suffix = ".json" /\ files[m].data.kind = "coco"
  <2>1. PICK s, x : s = "annotations" /\ x = ".json"
    OBVIOUS
  <2>2. PICK name, d : name = Name(<< >>, s, x) /\ d = CocoDocument(records, labels)
    OBVIOUS
  <2>3. CleanName(name) /\ name.suffix = x
    BY <2>2, RootIsClean
  <2>4. d.kind = "coco"
    <3>1. PICK c, p, e : d = [kind |-> "coco", categories |-> c, images |-> p, annotations |-> e]
      BY <2>2, DocumentIs
    <3> QED BY <3>1
  <2>5. files[m] = File(name, d)
    BY <1>2, <2>1, <2>2 DEF CocoAt, CocoJson
  <2>6. files[m].name = name /\ files[m].data = d
    BY <2>5, FileFields
  <2> QED BY <2>1, <2>3, <2>4, <2>5, <2>6
<1>5. ASSUME NEW i \in 1..n
      PROVE  /\ files[i] = File(files[i].name, files[i].data) /\ CleanName(files[i].name)
             /\ files[i].name = records[i].name /\ files[i].data.kind = "image"
             /\ files[i].name.suffix \in ImageSuffixes
  <2>1. PICK name, d : name = records[i].name /\ d = Image
    OBVIOUS
  <2>2. files[i] = File(name, d)
    BY <2>1 DEF CocoAt
  <2>3. files[i].name = name /\ files[i].data = d
    BY <2>2, FileFields
  <2>4. CleanName(name) /\ name.suffix \in ImageSuffixes
    BY <1>1, <2>1 DEF IsRecord
  <2>5. d.kind = "image"
    BY <2>1 DEF Image
  <2> QED BY <2>1, <2>2, <2>3, <2>4, <2>5
<1>6. \A k \in 1..m : k = m \/ k \in 1..n
  BY <1>1, <1>2
<1>7. ASSUME NEW k \in 1..m
      PROVE  /\ files[k] = File(files[k].name, files[k].data)
             /\ CleanName(files[k].name) /\ files[k].data.kind # "refused"
  <2>1. CASE k = m
    BY <1>4, <2>1
  <2>2. CASE k \in 1..n
    BY <1>5, <2>2
  <2> QED BY <1>6, <2>1, <2>2
<1>8. ASSUME NEW j \in 1..m, NEW k \in 1..m, files[j].name = files[k].name PROVE j = k
  <2>1. ".json" \notin ImageSuffixes
    BY DEF ImageSuffixes
  <2>2. CASE j \in 1..n /\ k \in 1..n
    <3>1. MatchKey(records[j].name) = MatchKey(records[k].name)
      BY <1>5, <1>8, <2>2
    <3> QED BY <1>1, <2>2, <3>1 DEF OwnKeys
  <2>3. CASE j = m /\ k \in 1..n
    BY <1>4, <1>5, <1>8, <2>1, <2>3
  <2>4. CASE j \in 1..n /\ k = m
    BY <1>4, <1>5, <1>8, <2>1, <2>4
  <2> QED BY <1>6, <2>2, <2>3, <2>4
<1>9. CocoSorts(files, records, n, m)
  BY <1>2, <1>3, <1>4, <1>5, <1>7, <1>8 DEF CocoSorts
<1> QED BY <1>2, <1>9

\* The document is the only one.
LEMMA CocoIsParsed ==
  ASSUME NEW records, NEW n \in Nat, NEW files, NEW m, CocoSorts(files, records, n, m)
  PROVE  Manifest(files) = ParseCoco(files, files[m])
<1>1. m = n + 1 /\ m \in Nat /\ DOMAIN files = 1..m
  BY DEF CocoSorts
<1>2. files[m].name.suffix = ".json" /\ files[m].data.kind = "coco"
  BY DEF CocoSorts
<1>3. ASSUME NEW k \in 1..m, k # m PROVE files[k].name.suffix # ".json"
  <2>1. k \in 1..n
    BY <1>1, <1>3
  <2>2. files[k].name.suffix \in ImageSuffixes
    BY <2>1 DEF CocoSorts
  <2> QED BY <2>2 DEF ImageSuffixes
<1>4. m \in 1..m
  BY <1>1
<1>5. Positions(files, {".json"}) = {m}
  BY <1>1, <1>2, <1>3, <1>4 DEF Positions, Is
<1>6. m \in Kinds(files, {"coco"})
  BY <1>1, <1>2, <1>4 DEF Kinds
<1>7. PICK coco : coco = Positions(files, {".json"}) \cap Kinds(files, {"coco"})
  OBVIOUS
<1>8. coco = {m}
  BY <1>5, <1>6, <1>7
<1>9. First({m}) = m
  <2>1. m <= m
    BY <1>1
  <2> QED BY <2>1 DEF First
<1>10. coco # {} /\ First(coco) = m
  BY <1>8, <1>9
<1> QED BY <1>7, <1>10 DEF Manifest

\* An image is found by its path.
LEMMA CocoFound ==
  ASSUME NEW records, NEW n, Exported(records, n), NEW files, NEW m, CocoSorts(files, records, n, m),
         NEW i \in 1..n
  PROVE  CocoImage(files, records[i].name) = records[i].name
<1>1. /\ n \in Nat /\ m = n + 1 /\ m \in Nat /\ DOMAIN files = 1..m /\ OwnKeys(records, n)
      /\ \A j \in 1..n : IsRecord(records[j])
  BY DEF CocoSorts, Exported
<1>2. \A j \in 1..n : files[j].name = records[j].name /\ files[j].name.suffix \in ImageSuffixes
  BY DEF CocoSorts
<1>3. files[m].name.suffix \notin ImageSuffixes
  <2>1. files[m].name.suffix = ".json"
    BY DEF CocoSorts
  <2> QED BY <2>1 DEF ImageSuffixes
<1>4. Positions(files, ImageSuffixes) = 1..n
  <2>1. \A k \in 1..m : files[k].name.suffix \in ImageSuffixes <=> k \in 1..n
    <3>1. \A k \in 1..m : k = m \/ k \in 1..n
      BY <1>1
    <3>2. m \notin 1..n
      BY <1>1
    <3> QED BY <1>2, <1>3, <3>1, <3>2
  <2>2. \A k \in 1..n : k \in 1..m
    BY <1>1
  <2>3. Positions(files, ImageSuffixes) = {k \in 1..m : files[k].name.suffix \in ImageSuffixes}
    BY <1>1 DEF Positions, Is
  <2> QED BY <2>1, <2>2, <2>3
<1>5. PICK w : w = records[i].name
  OBVIOUS
<1>6. PICK images, exact : /\ images = NamesAt(files, Positions(files, ImageSuffixes))
                           /\ exact = {k \in images : LowerName(k) = LowerName(w)}
  OBVIOUS
<1>7. w \in images /\ \A k \in images : \E j \in 1..n : k = records[j].name
  BY <1>2, <1>4, <1>5, <1>6 DEF NamesAt
<1>8. exact = {w}
  <2>1. ASSUME NEW k \in images, LowerName(k) = LowerName(w) PROVE k = w
    <3>1. PICK j \in 1..n : k = records[j].name
      BY <1>7
    <3>2. IsName(k) /\ IsName(w)
      BY <1>1, <1>5, <3>1 DEF IsRecord, CleanName
    <3>3. MatchKey(k) = MatchKey(w)
      BY <2>1, <3>2, LowerNameKey
    <3>4. j = i
      BY <1>1, <1>5, <3>1, <3>3 DEF OwnKeys
    <3> QED BY <1>5, <3>1, <3>4
  <2> QED BY <1>6, <1>7, <2>1
<1>9. PICK last : last = {k \in DOMAIN files : files[k].name \in exact}
  OBVIOUS
<1>10. last = {i}
  <2>1. i \in 1..m /\ files[i].name = w
    BY <1>1, <1>2, <1>5
  <2>2. \A k \in 1..m : files[k].name = w => k = i
    BY <2>1 DEF CocoSorts
  <2> QED BY <1>1, <1>8, <1>9, <2>1, <2>2
<1>11. (CHOOSE k \in last : \A j \in last : j <= k) = i
  <2>1. PICK v : v = i /\ v \in Int
    BY <1>1
  <2>2. (CHOOSE k \in {v} : \A j \in {v} : j <= k) = v
    BY <2>1
  <2> QED BY <1>10, <2>1, <2>2
<1>12. CocoImage(files, w) = files[CHOOSE k \in last : \A j \in last : j <= k].name
  <2>1. exact # {}
    BY <1>8
  <2> QED BY <1>6, <1>9, <2>1 DEF CocoImage
<1> QED BY <1>2, <1>5, <1>11, <1>12

LEMMA CocoReadBack ==
  ASSUME NEW records, NEW n, Exported(records, n), NEW labels \in Labels,
         NEW files, CocoAt(files, records, labels, n), Len(files) <= MaxFiles,
         \A i \in 1..n : Stripped(records[i].name) = records[i].name
  PROVE  ReadAgain(files, records, n, "coco", labels)
<1>1. n \in Nat /\ DOMAIN records = 1..n /\ \A i \in 1..n : IsRecord(records[i])
  BY DEF Exported
<1>2. PICK m : m = n + 1 /\ m \in Nat
  BY <1>1
<1>3. CocoSorts(files, records, n, m)
  BY <1>2, CocoSorted
<1>4. Len(files) = m
  <2>1. files = [k \in 1..m |-> files[k]]
    BY <1>3 DEF CocoSorts
  <2> QED BY <1>2, <2>1, FunctionLen
<1>5. Accepted(files) /\ Entries(files) = files
  <2>1. m <= MaxFiles
    BY <1>4
  <2> QED BY <1>3, <2>1, CleanAccepted DEF CocoSorts
<1>6. PICK f : f = files[m]
  OBVIOUS
<1>7. Manifest(files) = ParseCoco(files, f)
  BY <1>1, <1>3, <1>6, CocoIsParsed
<1>8. PICK data : data = CocoDocument(records, labels)
  OBVIOUS
<1>9. f.data = data
  <2>1. PICK name : f = File(name, data)
    BY <1>2, <1>6, <1>8 DEF CocoAt, CocoJson
  <2> QED BY <2>1, FileFields
<1>10. PICK p : p = [j \in DOMAIN records |-> [id |-> j, file |-> records[j].name, size |-> records[j].size]]
  OBVIOUS
<1>11. data.images = p
  <2>1. PICK c, e : data = [kind |-> "coco", categories |-> c, images |-> p, annotations |-> e]
    BY <1>8, <1>10, DocumentIs
  <2> QED BY <2>1
<1>12. ASSUME NEW i \in 1..n, Held(records[i], "coco", labels)
       PROVE  \E s \in Manifest(files).samples : s.name = records[i].name /\ ReadAs(records[i], s, labels)
  <2>1. PICK name, size, r : name = records[i].name /\ size = records[i].size /\ r = records[i]
    OBVIOUS
  <2>2. PICK image : image = [id |-> i, file |-> name, size |-> size]
    OBVIOUS
  <2>3. image.file = name /\ image.size = size
    BY <2>2
  <2>4. image \in ToSet(data.images)
    <3>1. i \in DOMAIN p /\ p[i] = image
      BY <1>1, <1>10, <2>1, <2>2
    <3> QED BY <1>11, <3>1 DEF ToSet
  <2>5. Stripped(image.file) = name /\ CocoImage(files, name) = name
    BY <1>3, <2>1, <2>3, CocoFound
  <2>6. name # NoFile
    <3>1. name.suffix \in ImageSuffixes
      BY <1>1, <2>1 DEF IsRecord
    <3>2. NoFile.suffix = "" /\ "" \notin ImageSuffixes
      BY DEF NoFile, Name, ImageSuffixes
    <3> QED BY <3>1, <3>2
  <2>7. PICK q : q = CocoAnnotations(data, image)
    OBVIOUS
  <2>8. AllRead(r, q, labels)
    BY <1>1, <1>8, <1>12, <2>1, <2>2, <2>7, CocoRead
  <2>9. PICK s, type, fname : s = Sample(name, fname, type, q, size) /\ type = "coco" /\ fname = f.name
    OBVIOUS
  <2>10. s \in ParseCoco(files, f).samples
    <3>1. Sample(CocoImage(files, Stripped(image.file)), f.name, "coco", CocoAnnotations(data, image), image.size)
            \in ParseCoco(files, f).samples
      BY <1>9, <2>3, <2>4, <2>5, <2>6 DEF ParseCoco
    <3> QED BY <2>3, <2>5, <2>7, <2>9, <3>1
  <2>11. s.name = name /\ s.annotations = q
    <3>1. s = [name |-> name, annotation |-> fname, subset |-> SubsetFor(name), type |-> type,
               annotations |-> q, size |-> size]
      BY <2>9, SampleIs
    <3> QED BY <3>1
  <2>12. PICK k : k = Len(r.annotations) /\ k \in Nat /\ DOMAIN r.annotations = 1..k
    BY <1>1, <2>1, SequenceIs DEF IsRecord
  <2>13. Len(q) = k
    BY <2>8, <2>12, FunctionLen DEF AllRead
  <2>14. ReadAs(r, s, labels)
    BY <2>8, <2>11, <2>12, <2>13 DEF ReadAs, AllRead, ReadsAs
  <2> QED BY <1>7, <2>1, <2>10, <2>11, <2>14
<1> QED BY <1>5, <1>12 DEF ReadAgain

-----------------------------------------------------------------------------
(* What the parsers make of the files of an archive.                        *)

\* What ArchivesAreRead says of a file.
IsRead(file) ==
  LET data == file.data IN
  /\ data.kind \in KindsOf(file.name.suffix)
  /\ data.kind = "yolo" =>
       IsSequence(data.lines) /\ \A l \in ToSet(data.lines) : l.coords \in Seq(Int)
  /\ data.kind = "labelme" =>
       /\ data.size \in Int \X Int /\ IsSequence(data.shapes)
       /\ \A s \in ToSet(data.shapes) : s.points \in Outlines
  /\ data.kind = "voc" =>
       /\ data.size \in Int \X Int /\ IsSequence(data.objects)
       /\ \A o \in ToSet(data.objects) : Drawn(o.corners)
  /\ data.kind = "coco" =>
       /\ \A image \in ToSet(data.images) : image.size \in Int \X Int
       /\ IsSequence(data.annotations)
       /\ \A a \in ToSet(data.annotations) : Drawn(a.box) /\ a.polygon \in Outlines

\* The entries of an accepted archive: n files that are read, each under a clean
\* name of its own.
AreEntries(files, n) ==
  /\ n \in Nat /\ DOMAIN files = 1..n
  /\ \A i \in 1..n : CleanName(files[i].name) /\ IsRead(files[i])
  /\ \A i, j \in 1..n : files[i].name = files[j].name => i = j

LEMMA SafeIsClean ==
  ASSUME NEW m, IsName(m), IsSequence(m.dirs),
         ToSet(SafeName(m).dirs) \cap {"..", "/"} = {}, Len(SafeName(m).dirs) < MaxDepth
  PROVE  CleanName(SafeName(m)) /\ SafeName(m).suffix = m.suffix
<1>1. m = [dirs |-> m.dirs, stem |-> m.stem, suffix |-> m.suffix]
  BY DEF IsName, Name
<1>2. PICK d : d = Normal(m.dirs)
  OBVIOUS
<1>3. PICK s : s = SafeName(m)
  OBVIOUS
<1>4. s = [dirs |-> d, stem |-> m.stem, suffix |-> m.suffix]
  BY <1>1, <1>2, <1>3 DEF SafeName
<1>5. s.dirs = d /\ s.stem = m.stem /\ s.suffix = m.suffix
  BY <1>4
<1>6. PICK X : X = ToSet(m.dirs) \ {"."}
  OBVIOUS
<1>7. d \in Seq(X)
  BY <1>2, <1>6, NormalParts
<1>8. PICK k : k = Len(d) /\ k \in Nat /\ d \in [1..k -> X]
  BY <1>7, LenProperties
<1>9. IsSequence(d) /\ \A x \in ToSet(d) : x \in X
  <2>1. d = [i \in 1..k |-> d[i]]
    BY <1>8
  <2>2. /\ IsSequence(d) /\ \A x : x \in ToSet(d) <=> \E i \in 1..k : x = d[i]
    BY <1>8, <2>1, FunctionLen
  <2> QED BY <1>8, <2>2
<1>10. ToSet(d) \cap {".", "..", "/"} = {}
  BY <1>3, <1>5, <1>6, <1>9
<1>11. CleanDirs(d)
  BY <1>3, <1>5, <1>9, <1>10 DEF CleanDirs
<1>12. IsName(s)
  BY <1>4, <1>5 DEF IsName, Name
<1> QED BY <1>3, <1>5, <1>11, <1>12 DEF CleanName

LEMMA EntryIs ==
  ASSUME NEW name, NEW data, NEW f, f = [name |-> name, data |-> data]
  PROVE  /\ [f EXCEPT !.name = SafeName(f.name)].name = SafeName(name)
         /\ [f EXCEPT !.name = SafeName(f.name)].data = data
<1>1. f.name = name
  OBVIOUS
<1>2. PICK s : s = SafeName(name)
  OBVIOUS
<1>3. [f EXCEPT !.name = s].name = s /\ [f EXCEPT !.name = s].data = data
  OBVIOUS
<1> QED BY <1>1, <1>2, <1>3

LEMMA AcceptedEntries ==
  ASSUME NEW archive \in Archives, Accepted(archive)
  PROVE  AreEntries(Entries(archive), Len(archive))
<1>1. PICK n : /\ n = Len(archive) /\ n \in Nat /\ DOMAIN archive = 1..n
               /\ \A i \in 1..n : /\ archive[i] = [name |-> archive[i].name, data |-> archive[i].data]
                                  /\ IsName(archive[i].name)
  BY ArchivesFit DEF ArchivesFit
<1>2. PICK files : files = Entries(archive)
  OBVIOUS
<1>3. DOMAIN files = 1..n
  BY <1>1, <1>2 DEF Entries
<1>4. ASSUME NEW i \in 1..n
      PROVE  files[i].name = SafeName(archive[i].name) /\ files[i].data = archive[i].data
  <2>1. PICK f, name, data : f = archive[i] /\ name = archive[i].name /\ data = archive[i].data
                             /\ f = [name |-> name, data |-> data]
    BY <1>1
  <2>2. files[i] = [f EXCEPT !.name = SafeName(f.name)]
    BY <1>1, <1>2, <2>1 DEF Entries
  <2> QED BY <2>1, <2>2, EntryIs
<1>5. ASSUME NEW i \in 1..n PROVE CleanName(files[i].name) /\ IsRead(files[i])
  <2>1. PICK f : f = archive[i] /\ f \in ToSet(archive)
    BY <1>1 DEF ToSet
  <2>2. Acceptable(f)
    BY <1>1, <2>1 DEF Accepted
  <2>3. IsName(f.name) /\ IsSequence(f.name.dirs)
    BY <1>1, <2>1, ArchivesAreRead DEF ArchivesAreRead
  <2>4. CleanName(SafeName(f.name)) /\ SafeName(f.name).suffix = f.name.suffix
    BY <2>2, <2>3, SafeIsClean DEF Acceptable
  <2>5. CleanName(files[i].name) /\ files[i].name.suffix = f.name.suffix /\ files[i].data = f.data
    BY <1>4, <2>1, <2>4
  <2>6. f.data.kind \in KindsOf(f.name.suffix)
    BY <2>1, <2>2, ArchivesAreRead DEF ArchivesAreRead, Acceptable
  <2>7. IsRead(files[i])
    BY <2>1, <2>5, <2>6, ArchivesAreRead DEF ArchivesAreRead, IsRead
  <2> QED BY <2>5, <2>7
<1>6. \A i, j \in 1..n : files[i].name = files[j].name => i = j
  BY <1>1, <1>4 DEF Accepted
<1>7. AreEntries(files, n)
  BY <1>1, <1>3, <1>5, <1>6 DEF AreEntries
<1> QED BY <1>1, <1>2, <1>7

\* A sequence of annotations.
AreAnnotations(s) == IsSequence(s) /\ \A a \in ToSet(s) : Full(a) /\ IsAnnotation(a)

LEMMA MadeAnnotations ==
  ASSUME NEW n \in Nat, NEW f, f = [i \in 1..n |-> f[i]],
         \A i \in 1..n : Full(f[i]) /\ IsAnnotation(f[i])
  PROVE  AreAnnotations(f)
<1>1. IsSequence(f) /\ \A x : x \in ToSet(f) <=> \E i \in 1..n : x = f[i]
  BY FunctionLen
<1> QED BY <1>1 DEF AreAnnotations

LEMMA NoAnnotations ==
  ASSUME NEW s, s = << >>
  PROVE  AreAnnotations(s)
<1>1. s \in Seq({}) /\ Len(s) = 0
  BY EmptySeq
<1>2. DOMAIN s = 1..0
  BY <1>1, LenProperties
<1>3. s = [i \in 1..0 |-> s[i]]
  BY <1>1, <1>2, LenProperties
<1>4. \A i \in 1..0 : Full(s[i]) /\ IsAnnotation(s[i])
  OBVIOUS
<1> QED BY <1>3, <1>4, MadeAnnotations

\* An annotation by its fields.
LEMMA AnnotationIs ==
  ASSUME NEW class, NEW name, NEW box, NEW polygon, NEW keypoints, NEW space,
         Drawn(box), polygon \in Outlines, space \in {"normalized", "pixels"},
         NEW a, a = [class |-> class, name |-> name, box |-> box, polygon |-> polygon,
                     keypoints |-> keypoints, space |-> space]
  PROVE  Full(a) /\ IsAnnotation(a)
<1>1. /\ a.class = class /\ a.name = name /\ a.box = box /\ a.polygon = polygon
      /\ a.keypoints = keypoints /\ a.space = space
  OBVIOUS
<1>2. Full(a)
  BY <1>1 DEF Full
<1>3. IsAnnotation(a)
  BY <1>1 DEF IsAnnotation
<1> QED BY <1>2, <1>3

LEMMA NothingDrawn ==
  ASSUME NEW e, e = << >>
  PROVE  Drawn(e) /\ e \in Outlines
<1>1. e \in Seq(Int \X Int)
  BY EmptySeq
<1> QED BY <1>1 DEF Drawn, Outlines

LEMMA FourOf ==
  ASSUME NEW X, NEW s \in Seq(X), Len(s) >= 4
  PROVE  SubSeq(s, 1, 4) \in [1..4 -> X]
<1>1. PICK n : n = Len(s) /\ n \in Nat /\ n >= 4
  BY LenProperties
<1>2. \A i \in 1..4 : s[i] \in X
  <2>1. \A i \in 1..4 : i \in 1..n
    BY <1>1
  <2> QED BY <1>1, <2>1, ElementOfSeq
<1>3. PICK u : u = SubSeq(s, 1, 4)
  OBVIOUS
<1>4. u \in Seq(X) /\ Len(u) = 4
  BY <1>2, <1>3, SubSeqProperties
<1>5. u \in [1..4 -> X]
  BY <1>4, LenProperties
<1> QED BY <1>3, <1>5

LEMMA PairsOf ==
  ASSUME NEW s \in Seq(Int), Len(s) % 2 = 0
  PROVE  Groups(s, 2) \in Outlines
<1>1. PICK n : n \in Nat /\ Len(s) = 2 * n
  <2>1. PICK l : l = Len(s) /\ l \in Nat /\ l % 2 = 0
    BY LenProperties
  <2>2. l \div 2 \in Nat /\ l = 2 * (l \div 2)
    BY <2>1
  <2> QED BY <2>1, <2>2
<1>2. PICK a : a = [i \in 1..n |-> s[2 * i - 1]]
  OBVIOUS
<1>3. PICK b : b = [i \in 1..n |-> s[2 * i]]
  OBVIOUS
<1>4. ASSUME NEW i \in 1..n PROVE a[i] \in Int /\ b[i] \in Int
  <2>1. PICK k, l : k = 2 * i - 1 /\ l = 2 * i /\ k \in 1..(2 * n) /\ l \in 1..(2 * n)
    BY <1>1
  <2>2. s[k] \in Int /\ s[l] \in Int
    BY <1>1, <2>1, ElementOfSeq
  <2> QED BY <1>2, <1>3, <2>1, <2>2
<1>5. Alternates(s, n, a, b)
  BY <1>2, <1>3 DEF Alternates
<1>6. Groups(s, 2) = [i \in 1..n |-> <<a[i], b[i]>>]
  <2>1. PICK X : X = Int
    OBVIOUS
  <2>2. s \in Seq(X)
    BY <2>1
  <2> QED BY <1>1, <1>5, <2>2, GroupsOfPairs
<1>7. Groups(s, 2) \in [1..n -> Int \X Int]
  BY <1>4, <1>6
<1>8. PICK X : X = Int \X Int
  OBVIOUS
<1>9. Groups(s, 2) \in Seq(X)
  <2>1. Groups(s, 2) \in [1..n -> X]
    BY <1>7, <1>8
  <2> QED BY <1>1, <2>1, SeqDef
<1> QED BY <1>8, <1>9 DEF Outlines

LEMMA LineDrawn ==
  ASSUME NEW line, line.coords \in Seq(Int), Len(line.coords) >= 4, NEW labels, NEW pose
  PROVE  Full(FromLine(line, labels, pose)) /\ IsAnnotation(FromLine(line, labels, pose))
<1>1. PICK c, n : c = line.coords /\ n = Len(c) /\ n \in Nat /\ n >= 4 /\ c \in Seq(Int)
  BY LenProperties
<1>2. PICK p, g, k, e : p = SubSeq(c, 1, 4) /\ g = Groups(c, 2) /\ k = Groups(SubSeq(c, 5, n), 3) /\ e = << >>
  OBVIOUS
<1>3. PICK h, m : h = line.class /\ m = NameIn(labels, line.class)
  OBVIOUS
<1>4. PICK x : x = FromLine(line, labels, pose)
  OBVIOUS
<1>5. PICK new : new = [class |-> h, name |-> m, box |-> e, polygon |-> e, keypoints |-> e, space |-> "normalized"]
  OBVIOUS
<1>6. new = Annotation(line.class, NameIn(labels, line.class), "normalized")
  BY <1>2, <1>3, <1>5 DEF Annotation
<1>7. \/ x = [new EXCEPT !.box = p, !.keypoints = k]
      \/ x = [new EXCEPT !.polygon = g] /\ n % 2 = 0
      \/ x = [new EXCEPT !.box = p]
  BY <1>1, <1>2, <1>4, <1>6 DEF FromLine
<1>8. Drawn(p) /\ Drawn(e) /\ e \in Outlines
  <2>1. p \in [1..4 -> Int]
    <3>1. PICK X : X = Int
      OBVIOUS
    <3>2. p \in [1..4 -> X]
      BY <1>1, <1>2, <3>1, FourOf
    <3> QED BY <3>1, <3>2
  <2> QED BY <1>2, <2>1, NothingDrawn DEF Drawn
<1>9. CASE x = [new EXCEPT !.box = p, !.keypoints = k]
  <2>1. x = [class |-> h, name |-> m, box |-> p, polygon |-> e, keypoints |-> k, space |-> "normalized"]
    BY <1>5, <1>9
  <2>2. PICK space : space = "normalized" /\ space \in {"normalized", "pixels"}
    OBVIOUS
  <2> QED BY <1>4, <1>8, <2>1, <2>2, AnnotationIs
<1>10. CASE x = [new EXCEPT !.polygon = g] /\ n % 2 = 0
  <2>1. x = [class |-> h, name |-> m, box |-> e, polygon |-> g, keypoints |-> e, space |-> "normalized"]
    BY <1>5, <1>10
  <2>2. PICK space : space = "normalized" /\ space \in {"normalized", "pixels"}
    OBVIOUS
  <2>3. g \in Outlines
    BY <1>1, <1>2, <1>10, PairsOf
  <2> QED BY <1>4, <1>8, <2>1, <2>2, <2>3, AnnotationIs
<1>11. CASE x = [new EXCEPT !.box = p]
  <2>1. x = [class |-> h, name |-> m, box |-> p, polygon |-> e, keypoints |-> e, space |-> "normalized"]
    BY <1>5, <1>11
  <2>2. PICK space : space = "normalized" /\ space \in {"normalized", "pixels"}
    OBVIOUS
  <2> QED BY <1>4, <1>8, <2>1, <2>2, AnnotationIs
<1> QED BY <1>7, <1>9, <1>10, <1>11

LEMMA LinesDrawn ==
  ASSUME NEW data, IsSequence(data.lines), \A l \in ToSet(data.lines) : l.coords \in Seq(Int),
         NEW labels, NEW pose
  PROVE  AreAnnotations(ParseYolo(data, labels, pose))
<1> DEFINE long == {l \in ToSet(data.lines) : Len(l.coords) >= 4}
<1>1. PICK s : s = Only(data.lines, long)
  OBVIOUS
<1>2. ParseYolo(data, labels, pose) = [i \in DOMAIN s |-> FromLine(s[i], labels, pose)]
  BY <1>1 DEF ParseYolo
<1>2a. \A l \in long : l.coords \in Seq(Int) /\ Len(l.coords) >= 4
  OBVIOUS
<1> HIDE DEF long
<1>3. PICK X : X = long /\ \A l \in X : l.coords \in Seq(Int) /\ Len(l.coords) >= 4
  BY <1>2a
<1>4. s \in Seq(X)
  BY <1>1, <1>3, OnlyKeeps
<1>5. PICK m : m = Len(s) /\ m \in Nat /\ DOMAIN s = 1..m /\ \A i \in 1..m : s[i] \in X
  BY <1>4, LenProperties, ElementOfSeq
<1>6. \A i \in 1..m : Full(FromLine(s[i], labels, pose)) /\ IsAnnotation(FromLine(s[i], labels, pose))
  <2> SUFFICES ASSUME NEW i \in 1..m
               PROVE  Full(FromLine(s[i], labels, pose)) /\ IsAnnotation(FromLine(s[i], labels, pose))
    OBVIOUS
  <2>1. PICK l : l = s[i] /\ l.coords \in Seq(Int) /\ Len(l.coords) >= 4
    BY <1>3, <1>5
  <2>2. Full(FromLine(l, labels, pose)) /\ IsAnnotation(FromLine(l, labels, pose))
    BY <2>1, LineDrawn
  <2> QED BY <2>1, <2>2
<1>7. PICK f : f = ParseYolo(data, labels, pose)
  OBVIOUS
<1>8. f = [i \in 1..m |-> f[i]] /\ \A i \in 1..m : f[i] = FromLine(s[i], labels, pose)
  BY <1>2, <1>5, <1>7
<1>9. AreAnnotations(f)
  BY <1>5, <1>6, <1>8, MadeAnnotations
<1> QED BY <1>7, <1>9

LEMMA ShapeDrawn ==
  ASSUME NEW shape, shape.points \in Outlines
  PROVE  Full(FromShape(shape)) /\ IsAnnotation(FromShape(shape))
<1>1. PICK p, n : /\ p = shape.points /\ n = Len(p) /\ n \in Nat /\ p \in Outlines
                  /\ \A i \in 1..n : p[i] \in Int \X Int
  BY LenProperties, ElementOfSeq DEF Outlines
<1>2. PICK e, h, m : e = << >> /\ h = -1 /\ m = shape.label
  OBVIOUS
<1>3. PICK b, k : /\ b = <<Least(p[1][1], p[2][1]), Least(p[1][2], p[2][2]),
                           Distance(p[1][1], p[2][1]), Distance(p[1][2], p[2][2])>>
                  /\ k = << <<p[1][1], p[1][2], 2 * Unit>> >>
  OBVIOUS
<1>4. PICK new : new = [class |-> h, name |-> m, box |-> e, polygon |-> e, keypoints |-> e, space |-> "pixels"]
  OBVIOUS
<1>5. new = Annotation(-1, shape.label, "pixels")
  BY <1>2, <1>4 DEF Annotation
<1>6. PICK x : x = FromShape(shape)
  OBVIOUS
<1>7. \/ x = [new EXCEPT !.box = b] /\ n >= 2
      \/ x = [new EXCEPT !.keypoints = k]
      \/ x = [new EXCEPT !.polygon = p]
  BY <1>1, <1>3, <1>5, <1>6 DEF FromShape
<1>8. PICK space : space = "pixels" /\ space \in {"normalized", "pixels"}
  OBVIOUS
<1>9. Drawn(e) /\ e \in Outlines
  BY <1>2, NothingDrawn
<1>10. CASE x = [new EXCEPT !.box = b] /\ n >= 2
  <2>1. x = [class |-> h, name |-> m, box |-> b, polygon |-> e, keypoints |-> e, space |-> "pixels"]
    BY <1>4, <1>10
  <2>2. p[1] \in Int \X Int /\ p[2] \in Int \X Int
    BY <1>1, <1>10
  <2>3. \A u, v \in Int : Least(u, v) \in Int /\ Distance(u, v) \in Int
    BY DEF Least, Distance
  <2>4. b \in [1..4 -> Int]
    <3>1. p[1][1] \in Int /\ p[1][2] \in Int /\ p[2][1] \in Int /\ p[2][2] \in Int
      BY <2>2
    <3>2. PICK c, d, w, t : /\ c = Least(p[1][1], p[2][1]) /\ d = Least(p[1][2], p[2][2])
                            /\ w = Distance(p[1][1], p[2][1]) /\ t = Distance(p[1][2], p[2][2])
      OBVIOUS
    <3>3. c \in Int /\ d \in Int /\ w \in Int /\ t \in Int
      BY <2>3, <3>1, <3>2
    <3>4. b = <<c, d, w, t>>
      BY <1>3, <3>2
    <3> QED BY <3>3, <3>4
  <2>5. Drawn(b)
    BY <2>4 DEF Drawn
  <2> QED BY <1>6, <1>8, <1>9, <2>1, <2>5, AnnotationIs
<1>11. CASE x = [new EXCEPT !.keypoints = k]
  <2>1. x = [class |-> h, name |-> m, box |-> e, polygon |-> e, keypoints |-> k, space |-> "pixels"]
    BY <1>4, <1>11
  <2> QED BY <1>6, <1>8, <1>9, <2>1, AnnotationIs
<1>12. CASE x = [new EXCEPT !.polygon = p]
  <2>1. x = [class |-> h, name |-> m, box |-> e, polygon |-> p, keypoints |-> e, space |-> "pixels"]
    BY <1>4, <1>12
  <2> QED BY <1>1, <1>6, <1>8, <1>9, <2>1, AnnotationIs
<1> QED BY <1>7, <1>10, <1>11, <1>12

LEMMA ShapesDrawn ==
  ASSUME NEW data, IsSequence(data.shapes), \A s \in ToSet(data.shapes) : s.points \in Outlines
  PROVE  AreAnnotations(ParseLabelme(data))
<1>1. PICK s, m : /\ s = data.shapes /\ m = Len(s) /\ m \in Nat /\ DOMAIN s = 1..m
                  /\ \A i \in 1..m : s[i].points \in Outlines
  BY SequenceIs
<1>2. \A i \in 1..m : Full(FromShape(s[i])) /\ IsAnnotation(FromShape(s[i]))
  BY <1>1, ShapeDrawn
<1>3. PICK f : f = ParseLabelme(data)
  OBVIOUS
<1>4. f = [i \in 1..m |-> f[i]] /\ \A i \in 1..m : f[i] = FromShape(s[i])
  <2>1. f = [i \in DOMAIN s |-> FromShape(s[i])]
    BY <1>1, <1>3, Zenon DEF ParseLabelme
  <2>2. f = [i \in 1..m |-> FromShape(s[i])]
    BY <1>1, <2>1
  <2> QED BY <2>2
<1>5. AreAnnotations(f)
  BY <1>1, <1>2, <1>4, MadeAnnotations
<1> QED BY <1>3, <1>5

LEMMA ObjectDrawn ==
  ASSUME NEW o, o.corners \in [1..4 -> Int]
  PROVE  Full(FromObject(o)) /\ IsAnnotation(FromObject(o))
<1>1. PICK c : c = o.corners /\ c[1] \in Int /\ c[2] \in Int /\ c[3] \in Int /\ c[4] \in Int
  OBVIOUS
<1>2. PICK e, h, m, space : e = << >> /\ h = -1 /\ m = o.name /\ space = "pixels"
  OBVIOUS
<1>3. PICK w, t : /\ w = IF c[3] > c[1] THEN c[3] - c[1] ELSE 0
                  /\ t = IF c[4] > c[2] THEN c[4] - c[2] ELSE 0
  OBVIOUS
<1>4. PICK b : b = <<c[1], c[2], w, t>>
  OBVIOUS
<1>5. PICK x : x = FromObject(o)
  OBVIOUS
<1>6. x = [[class |-> h, name |-> m, box |-> e, polygon |-> e, keypoints |-> e, space |-> space]
             EXCEPT !.box = b]
  BY <1>1, <1>2, <1>3, <1>4, <1>5 DEF FromObject, Annotation
<1>7. x = [class |-> h, name |-> m, box |-> b, polygon |-> e, keypoints |-> e, space |-> space]
  BY <1>6
<1>8. b \in [1..4 -> Int]
  <2>1. w \in Int /\ t \in Int
    BY <1>1, <1>3
  <2> QED BY <1>1, <1>4, <2>1
<1>9. Drawn(b) /\ e \in Outlines /\ space \in {"normalized", "pixels"}
  BY <1>2, <1>8, NothingDrawn DEF Drawn
<1> QED BY <1>5, <1>7, <1>9, AnnotationIs

LEMMA ObjectsDrawn ==
  ASSUME NEW data, IsSequence(data.objects), \A o \in ToSet(data.objects) : Drawn(o.corners)
  PROVE  AreAnnotations(ParseVoc(data))
<1> DEFINE boxed == {o \in ToSet(data.objects) : o.corners # << >>}
<1>1. PICK s : s = Only(data.objects, boxed)
  OBVIOUS
<1>2. ParseVoc(data) = [i \in DOMAIN s |-> FromObject(s[i])]
  BY <1>1 DEF ParseVoc
<1>2a. \A o \in boxed : o.corners \in [1..4 -> Int]
  BY DEF Drawn
<1> HIDE DEF boxed
<1>3. PICK X : X = boxed /\ \A o \in X : o.corners \in [1..4 -> Int]
  BY <1>2a
<1>4. s \in Seq(X)
  BY <1>1, <1>3, OnlyKeeps
<1>5. PICK m : m = Len(s) /\ m \in Nat /\ DOMAIN s = 1..m /\ \A i \in 1..m : s[i] \in X
  BY <1>4, LenProperties, ElementOfSeq
<1>6. \A i \in 1..m : Full(FromObject(s[i])) /\ IsAnnotation(FromObject(s[i]))
  BY <1>3, <1>5, ObjectDrawn
<1>7. PICK f : f = ParseVoc(data)
  OBVIOUS
<1>8. f = [i \in 1..m |-> f[i]] /\ \A i \in 1..m : f[i] = FromObject(s[i])
  BY <1>2, <1>5, <1>7
<1>9. AreAnnotations(f)
  BY <1>5, <1>6, <1>8, MadeAnnotations
<1> QED BY <1>7, <1>9

LEMMA EntryDrawn ==
  ASSUME NEW e, Drawn(e.box), e.polygon \in Outlines, NEW categories
  PROVE  Full(FromEntry(e, categories)) /\ IsAnnotation(FromEntry(e, categories))
<1>1. PICK n, b, p, k, h, g, space : /\ n = << >> /\ b = e.box /\ p = e.polygon /\ k = e.keypoints /\ h = e.category
                                     /\ g = NameIn(categories, e.category) /\ space = "pixels"
  OBVIOUS
<1>2. PICK x : x = FromEntry(e, categories)
  OBVIOUS
<1>3. x = [[class |-> h, name |-> g, box |-> n, polygon |-> n, keypoints |-> n, space |-> space]
             EXCEPT !.box = b, !.polygon = p, !.keypoints = k]
  BY <1>1, <1>2 DEF FromEntry, Annotation
<1>4. x = [class |-> h, name |-> g, box |-> b, polygon |-> p, keypoints |-> k, space |-> space]
  BY <1>3
<1>5. space \in {"normalized", "pixels"}
  BY <1>1
<1> QED BY <1>1, <1>2, <1>4, <1>5, AnnotationIs

LEMMA EntriesDrawn ==
  ASSUME NEW data, IsSequence(data.annotations),
         \A a \in ToSet(data.annotations) : Drawn(a.box) /\ a.polygon \in Outlines, NEW image
  PROVE  AreAnnotations(CocoAnnotations(data, image))
<1> DEFINE own == {a \in ToSet(data.annotations) : a.image = image.id}
<1>1. PICK s : s = Only(data.annotations, own)
  OBVIOUS
<1>2. CocoAnnotations(data, image) = [i \in DOMAIN s |-> FromEntry(s[i], data.categories)]
  BY <1>1 DEF CocoAnnotations, FromEntry
<1>2a. \A a \in own : Drawn(a.box) /\ a.polygon \in Outlines
  OBVIOUS
<1> HIDE DEF own
<1>3. PICK X : X = own /\ \A a \in X : Drawn(a.box) /\ a.polygon \in Outlines
  BY <1>2a
<1>4. s \in Seq(X)
  BY <1>1, <1>3, OnlyKeeps
<1>5. PICK m : m = Len(s) /\ m \in Nat /\ DOMAIN s = 1..m /\ \A i \in 1..m : s[i] \in X
  BY <1>4, LenProperties, ElementOfSeq
<1>6. \A i \in 1..m : /\ Full(FromEntry(s[i], data.categories))
                      /\ IsAnnotation(FromEntry(s[i], data.categories))
  BY <1>3, <1>5, EntryDrawn
<1>7. PICK f : f = CocoAnnotations(data, image)
  OBVIOUS
<1>8. f = [i \in 1..m |-> f[i]] /\ \A i \in 1..m : f[i] = FromEntry(s[i], data.categories)
  BY <1>2, <1>5, <1>7
<1>9. AreAnnotations(f)
  BY <1>5, <1>6, <1>8, MadeAnnotations
<1> QED BY <1>7, <1>9

LEMMA ClassDrawn ==
  ASSUME NEW b, Full(b), IsAnnotation(b), NEW class
  PROVE  Full([b EXCEPT !.class = class]) /\ IsAnnotation([b EXCEPT !.class = class])
<1>1. PICK m, x, p, k, z : m = b.name /\ x = b.box /\ p = b.polygon /\ k = b.keypoints /\ z = b.space
  OBVIOUS
<1>2. PICK c : c = [b EXCEPT !.class = class]
  OBVIOUS
<1>3. c = [class |-> class, name |-> m, box |-> x, polygon |-> p, keypoints |-> k, space |-> z]
  BY <1>1, <1>2 DEF Full
<1>4. Drawn(x) /\ p \in Outlines /\ z \in {"normalized", "pixels"}
  BY <1>1 DEF IsAnnotation
<1>5. Full(c) /\ IsAnnotation(c)
  <2> HIDE <1>2
  <2> QED BY <1>3, <1>4, AnnotationIs
<1> QED BY <1>2, <1>5

\* A sample with such annotations is a record, before and after its labels are
\* resolved.
LEMMA SampleIsRecord ==
  ASSUME NEW name, CleanName(name), name.suffix \in ImageSuffixes, NEW annotation, NEW type,
         NEW s, AreAnnotations(s), NEW size \in Int \X Int, NEW t, t = Sample(name, annotation, type, s, size)
  PROVE  /\ IsRecord(t) /\ t.subset = SubsetFor(name)
         /\ t = [name |-> name, annotation |-> annotation, subset |-> t.subset, type |-> type,
                 annotations |-> s, size |-> size]
<1>1. t = [name |-> name, annotation |-> annotation, subset |-> SubsetFor(name), type |-> type,
           annotations |-> s, size |-> size]
  BY SampleIs
<1>2. t.name = name /\ t.subset = SubsetFor(name) /\ t.annotations = s /\ t.size = size
  BY <1>1
<1> QED BY <1>1, <1>2 DEF IsRecord, AreAnnotations

LEMMA ResolvedIsRecord ==
  ASSUME NEW name, CleanName(name), name.suffix \in ImageSuffixes, NEW annotation, NEW type,
         NEW s, AreAnnotations(s), NEW size \in Int \X Int, NEW t, t = Sample(name, annotation, type, s, size),
         NEW all
  PROVE  IsRecord(Resolved(t, all)) /\ Resolved(t, all).subset = SubsetFor(name)
<1>1. PICK x : x = t.subset
  OBVIOUS
<1>2. /\ x = SubsetFor(name)
      /\ t = [name |-> name, annotation |-> annotation, subset |-> x, type |-> type,
              annotations |-> s, size |-> size]
  BY <1>1, SampleIsRecord
<1>3. t.annotations = s
  BY <1>2
<1> DEFINE ClassOf(a) == LET classes == {c \in DOMAIN all : all[c] = a.name} IN
                         IF classes = {} THEN a.class
                         ELSE CHOOSE c \in classes : \A d \in classes : d <= c
<1>4. PICK u : u = [i \in DOMAIN t.annotations |-> [t.annotations[i] EXCEPT !.class = ClassOf(t.annotations[i])]]
  OBVIOUS
<1>5. PICK r : r = Resolved(t, all)
  OBVIOUS
<1>6. r = [t EXCEPT !.annotations = u]
  BY <1>4, <1>5 DEF Resolved
<1> HIDE DEF ClassOf
<1>7. r = [name |-> name, annotation |-> annotation, subset |-> x, type |-> type,
           annotations |-> u, size |-> size]
  BY <1>2, <1>6
<1>8. r.name = name /\ r.subset = x /\ r.annotations = u /\ r.size = size
  BY <1>7
<1>9. AreAnnotations(u)
  <2>1. PICK m : m = Len(s) /\ m \in Nat /\ DOMAIN s = 1..m /\ \A i \in 1..m : s[i] \in ToSet(s)
    BY SequenceIs DEF AreAnnotations
  <2>2. u = [i \in 1..m |-> u[i]] /\ \A i \in 1..m : u[i] = [s[i] EXCEPT !.class = ClassOf(s[i])]
    BY <1>3, <1>4, <2>1
  <2>3. \A i \in 1..m : Full(u[i]) /\ IsAnnotation(u[i])
    <3> SUFFICES ASSUME NEW i \in 1..m PROVE Full(u[i]) /\ IsAnnotation(u[i])
      OBVIOUS
    <3>1. PICK b, c : b = s[i] /\ c = ClassOf(s[i]) /\ Full(b) /\ IsAnnotation(b)
      BY <2>1 DEF AreAnnotations
    <3>2. Full([b EXCEPT !.class = c]) /\ IsAnnotation([b EXCEPT !.class = c])
      BY <3>1, ClassDrawn
    <3> QED BY <2>2, <3>1, <3>2
  <2> QED BY <2>1, <2>2, <2>3, MadeAnnotations
<1>10. IsRecord(r)
  BY <1>8, <1>9 DEF IsRecord, AreAnnotations
<1> QED BY <1>2, <1>5, <1>8, <1>10

\* What Parsed is applied to.
LEMMA FileDrawn ==
  ASSUME NEW f, IsRead(f), f.data.kind \in {"broken", "names", "yolo", "labelme", "voc"},
         NEW labels, NEW pose
  PROVE  AreAnnotations(Parsed(f, labels, pose)) /\ SizeOf(f) \in Int \X Int
<1>1. CASE f.data.kind \in {"broken", "names"}
  <2>1. Parsed(f, labels, pose) = << >> /\ SizeOf(f) = <<0, 0>>
    BY <1>1 DEF Parsed, SizeOf
  <2>2. <<0, 0>> \in Int \X Int
    OBVIOUS
  <2> QED BY <2>1, <2>2, NoAnnotations
<1>2. CASE f.data.kind = "yolo"
  <2>1. PICK data : data = f.data
    OBVIOUS
  <2>2. Parsed(f, labels, pose) = ParseYolo(data, labels, pose) /\ SizeOf(f) = <<0, 0>>
    BY <1>2, <2>1 DEF Parsed, SizeOf
  <2>3. AreAnnotations(ParseYolo(data, labels, pose))
    BY <1>2, <2>1, LinesDrawn DEF IsRead
  <2>4. <<0, 0>> \in Int \X Int
    OBVIOUS
  <2> QED BY <2>2, <2>3, <2>4
<1>3. CASE f.data.kind = "labelme"
  <2>1. PICK data : data = f.data
    OBVIOUS
  <2>2. Parsed(f, labels, pose) = ParseLabelme(data) /\ SizeOf(f) = data.size
    BY <1>3, <2>1 DEF Parsed, SizeOf
  <2>3. AreAnnotations(ParseLabelme(data)) /\ data.size \in Int \X Int
    BY <1>3, <2>1, ShapesDrawn DEF IsRead
  <2> QED BY <2>2, <2>3
<1>4. CASE f.data.kind = "voc"
  <2>1. PICK data : data = f.data
    OBVIOUS
  <2>2. Parsed(f, labels, pose) = ParseVoc(data) /\ SizeOf(f) = data.size
    BY <1>4, <2>1 DEF Parsed, SizeOf
  <2>3. AreAnnotations(ParseVoc(data)) /\ data.size \in Int \X Int
    BY <1>4, <2>1, ObjectsDrawn DEF IsRead
  <2> QED BY <2>2, <2>3
<1> QED BY <1>1, <1>2, <1>3, <1>4

LEMMA AnnotationFilesRead ==
  ASSUME NEW files, NEW n, AreEntries(files, n), NEW i \in AnnotationFiles(files)
  PROVE  i \in 1..n /\ files[i].data.kind \in {"broken", "names", "yolo", "labelme", "voc"}
<1>1. i \in 1..n /\ files[i].data.kind \in KindsOf(files[i].name.suffix)
  BY DEF AreEntries, IsRead, AnnotationFiles, Positions, Kinds
<1>2. \/ files[i].name.suffix \in {".txt", ".xml"}
      \/ files[i].data.kind \in {"labelme", "broken"}
  BY DEF AnnotationFiles, Positions, Kinds, Is
<1>3. KindsOf(".txt") = {"yolo", "names", "broken"} /\ KindsOf(".xml") = {"voc", "broken"}
  BY DEF KindsOf, ImageSuffixes
<1> QED BY <1>1, <1>2, <1>3

\* The annotation of an image is that of one of those files.
LEMMA LastIsOf ==
  ASSUME NEW files, NEW n, AreEntries(files, n), NEW key, LastWith(files, AnnotationFiles(files), key) # NoFile,
         NEW a, a = LastWith(files, AnnotationFiles(files), key)
  PROVE  (CHOOSE i \in DOMAIN files : files[i].name = a) \in AnnotationFiles(files)
<1> DEFINE found == {j \in AnnotationFiles(files) : KeyAt(files, j) = key}
           Newest(j) == \A k \in found : k <= j
           last == CHOOSE j \in found : Newest(j)
<1>1. found # {} /\ a = files[last].name
  BY DEF LastWith
<1>2. \A i \in AnnotationFiles(files) : i \in 1..n
  BY AnnotationFilesRead
<1>3. n \in Nat /\ found \subseteq 1..n
  BY <1>2 DEF AreEntries
<1>4. \E j \in found : Newest(j)
  <2> HIDE DEF found
  <2> QED BY <1>1, <1>3, GreatestPosition
<1>5. last \in found
  <2> HIDE DEF found, Newest
  <2> QED BY <1>4
<1>6. last \in AnnotationFiles(files) /\ last \in 1..n
  BY <1>2, <1>5
<1> HIDE DEF last, found, Newest
<1>7. DOMAIN files = 1..n /\ \A i \in 1..n : files[i].name = a => i = last
  BY <1>1, <1>6 DEF AreEntries
<1>8. (CHOOSE i \in DOMAIN files : files[i].name = a) = last
  BY <1>1, <1>6, <1>7
<1> QED BY <1>6, <1>8

\* What PairedManifest reads for an image.
FromFile(files, m, x, z) ==
  LET a == LastWith(files, AnnotationFiles(files), MatchKey(m))
      f == files[CHOOSE i \in DOMAIN files : files[i].name = a]
  IN a # NoFile /\ z = SizeOf(f) /\ \E labels, pose : x = Parsed(f, labels, pose)

LEMMA PairedReading ==
  ASSUME NEW files, NEW s \in PairedManifest(files).samples
  PROVE  \E m \in NamesAt(files, Positions(files, ImageSuffixes)) : \E a, t, x, z, all :
           /\ s = Resolved(Sample(m, a, t, x, z), all)
           /\ (x = << >> /\ z = <<0, 0>>) \/ FromFile(files, m, x, z)
<1> DEFINE config == Config(files)
           labels == IF config = {} THEN [c \in {} |-> ""] ELSE files[First(config)].data.labels
           pose == config # {} /\ files[First(config)].data.pose
           parser == DetectParser(files)
           Of(name) == files[CHOOSE i \in DOMAIN files : files[i].name = name]
           Newest(n) == LastWith(files, AnnotationFiles(files), MatchKey(n))
           Read(n) == IF Newest(n) = NoFile
                      THEN Sample(n, NoFile, parser, << >>, <<0, 0>>)
                      ELSE Sample(n, Newest(n), TypeOf(Of(Newest(n))), Parsed(Of(Newest(n)), labels, pose),
                                  SizeOf(Of(Newest(n))))
           samples == {Read(n) : n \in NamesAt(files, Positions(files, ImageSuffixes))}
           all == IF parser = "yolo" THEN YoloLabels(labels, samples) ELSE NumberedLabels(samples)
<1>1. PairedManifest(files).samples = {Resolved(x, all) : x \in samples}
  BY DEF PairedManifest, Config
<1> HIDE DEF config, labels, pose, parser, all
<1>2. PICK m \in NamesAt(files, Positions(files, ImageSuffixes)) : s = Resolved(Read(m), all)
  BY <1>1
<1> HIDE DEF samples
<1>3. CASE Newest(m) = NoFile
  <2>1. Read(m) = Sample(m, NoFile, parser, << >>, <<0, 0>>)
    BY <1>3
  <2> HIDE DEF Read
  <2> QED BY <1>2, <2>1
<1>4. CASE Newest(m) # NoFile
  <2>1. PICK a, f, x, z, t : /\ a = Newest(m) /\ f = Of(Newest(m)) /\ x = Parsed(f, labels, pose) /\ z = SizeOf(f)
                             /\ t = TypeOf(f)
    OBVIOUS
  <2>2. Read(m) = Sample(m, a, t, x, z)
    BY <1>4, <2>1
  <2> HIDE DEF Read
  <2>3. FromFile(files, m, x, z)
    BY <1>4, <2>1 DEF FromFile
  <2> QED BY <1>2, <2>2, <2>3
<1> QED BY <1>3, <1>4

LEMMA PairedRecord ==
  ASSUME NEW files, NEW n, AreEntries(files, n), NEW s \in PairedManifest(files).samples
  PROVE  IsRecord(s) /\ s.subset \in SubsetNames
<1>1. PICK m \in NamesAt(files, Positions(files, ImageSuffixes)) : \E a, t, x, z, all :
           /\ s = Resolved(Sample(m, a, t, x, z), all)
           /\ (x = << >> /\ z = <<0, 0>>) \/ FromFile(files, m, x, z)
  BY PairedReading
<1>2. PICK a, t, x, z, all : /\ s = Resolved(Sample(m, a, t, x, z), all)
                             /\ (x = << >> /\ z = <<0, 0>>) \/ FromFile(files, m, x, z)
  BY <1>1
<1>3. CleanName(m) /\ m.suffix \in ImageSuffixes
  BY DEF NamesAt, Positions, Is, AreEntries
<1>4. AreAnnotations(x) /\ z \in Int \X Int
  <2>1. CASE x = << >> /\ z = <<0, 0>>
    <3>1. z \in Int \X Int
      BY <2>1
    <3> QED BY <2>1, <3>1, NoAnnotations
  <2>2. CASE FromFile(files, m, x, z)
    <3>1. PICK l, i, f : /\ l = LastWith(files, AnnotationFiles(files), MatchKey(m)) /\ l # NoFile
                         /\ i = (CHOOSE j \in DOMAIN files : files[j].name = l) /\ f = files[i]
                         /\ z = SizeOf(f) /\ \E labels, pose : x = Parsed(f, labels, pose)
      BY <2>2 DEF FromFile
    <3>2. PICK key : key = MatchKey(m)
      OBVIOUS
    <3>3. i \in AnnotationFiles(files)
      BY <3>1, <3>2, LastIsOf
    <3>4. i \in 1..n /\ f.data.kind \in {"broken", "names", "yolo", "labelme", "voc"}
      BY <3>1, <3>3, AnnotationFilesRead
    <3>5. IsRead(f)
      BY <3>1, <3>4 DEF AreEntries
    <3>6. PICK labels, pose : x = Parsed(f, labels, pose)
      BY <3>1
    <3> QED BY <3>1, <3>4, <3>5, <3>6, FileDrawn
  <2> QED BY <1>2, <2>1, <2>2
<1>5. PICK u : u = Sample(m, a, t, x, z)
  OBVIOUS
<1>6. IsRecord(Resolved(u, all)) /\ Resolved(u, all).subset = SubsetFor(m)
  BY <1>3, <1>4, <1>5, ResolvedIsRecord
<1> QED BY <1>2, <1>5, <1>6, SubsetNamed

LEMMA CocoRecord ==
  ASSUME NEW files, NEW n, AreEntries(files, n), NEW i \in 1..n, files[i].data.kind = "coco",
         NEW s \in ParseCoco(files, files[i]).samples
  PROVE  IsRecord(s) /\ s.subset \in SubsetNames
<1>1. PICK f, data, d : f = files[i] /\ data = f.data /\ d = f.name
  OBVIOUS
<1>2. PICK image \in ToSet(data.images) :
         /\ CocoImage(files, Stripped(image.file)) # NoFile
         /\ s = Sample(CocoImage(files, Stripped(image.file)), d, "coco", CocoAnnotations(data, image), image.size)
  BY <1>1 DEF ParseCoco
<1>3. IsRead(f) /\ data.kind = "coco"
  BY <1>1 DEF AreEntries
<1>4. /\ image.size \in Int \X Int /\ IsSequence(data.annotations)
      /\ \A a \in ToSet(data.annotations) : Drawn(a.box) /\ a.polygon \in Outlines
  BY <1>1, <1>3 DEF IsRead
<1>5. PICK w, m, x, z, type : /\ w = Stripped(image.file) /\ m = CocoImage(files, w) /\ x = CocoAnnotations(data, image)
                              /\ z = image.size /\ type = "coco"
  OBVIOUS
<1>6. AreAnnotations(x)
  BY <1>4, <1>5, EntriesDrawn
<1>7. n \in Nat /\ DOMAIN files = 1..n
  BY DEF AreEntries
<1>8. m \in NamesAt(files, Positions(files, ImageSuffixes))
  BY <1>2, <1>5, <1>7, CocoImageFound
<1>9. CleanName(m) /\ m.suffix \in ImageSuffixes
  BY <1>8 DEF NamesAt, Positions, Is, AreEntries
<1>10. s = Sample(m, d, type, x, z) /\ z \in Int \X Int
  BY <1>2, <1>4, <1>5
<1>11. IsRecord(s) /\ s.subset = SubsetFor(m)
  BY <1>6, <1>9, <1>10, SampleIsRecord
<1> QED BY <1>11, SubsetNamed

LEMMA ManifestRecords ==
  ASSUME NEW archive \in Archives, Accepted(archive), NEW s \in Manifest(Entries(archive)).samples
  PROVE  IsRecord(s) /\ s.subset \in SubsetNames
<1>1. PICK files, n : files = Entries(archive) /\ n = Len(archive) /\ AreEntries(files, n)
  BY AcceptedEntries
<1> DEFINE coco == Positions(files, {".json"}) \cap Kinds(files, {"coco"})
<1>2. CASE coco = {}
  <2>1. s \in PairedManifest(files).samples
    BY <1>1, <1>2 DEF Manifest
  <2> QED BY <1>1, <2>1, PairedRecord
<1>3. CASE coco # {}
  <2>1. s \in ParseCoco(files, files[First(coco)]).samples
    BY <1>1, <1>3 DEF Manifest
  <2>2. \A j \in coco : j \in 1..n /\ files[j].data.kind = "coco"
    BY <1>1 DEF Positions, Kinds, AreEntries
  <2>3. n \in Nat
    BY <1>1 DEF AreEntries
  <2>4. PICK i : i = First(coco)
    OBVIOUS
  <2>5. coco \in SUBSET Nat
    BY <2>2, <2>3
  <2> HIDE DEF coco
  <2>6. \E j \in coco : \A k \in coco : j <= k
    BY <1>3, <2>5, Smallest
  <2>7. i \in coco
    BY <2>4, <2>6 DEF First
  <2> QED BY <1>1, <2>1, <2>2, <2>4, <2>7, CocoRecord
<1> QED BY <1>2, <1>3

-----------------------------------------------------------------------------
(* Rows, versions and the export's job.                                     *)

\* A sample's row: its image, annotations and subset, whatever edits have made of
\* it.
OfImage(s) == IsRecord(s) /\ s.subset \in SubsetNames
IsRow(s) == {"name", "subset", "size", "annotations"} \subseteq DOMAIN s /\ OfImage(s)
Rows(records) == \E S : records \in Seq(S) /\ \A s \in S : IsRow(s)

IsVersion(r) == r.archive \in Archives /\ r.labels \in Labels /\ \A s \in r.samples : IsRow(s)
VersionsTyped == \A v \in DOMAIN versions : IsVersion(versions[v])
GivenTyped == DOMAIN given \subseteq 0..MaxClass
\* What an execution holds, and knows only while it holds it.
Running == {"collect", "package", "commit"}
IsTask(t) ==
  /\ t = [pc |-> t.pc, seen |-> t.seen, format |-> t.format, todo |-> t.todo, records |-> t.records,
          labels |-> t.labels]
  /\ t.pc \in {"idle", "begin"} \cup Running
  /\ t.seen.status \in {"absent", "queued", "succeeded"}
  /\ t.pc \in Running => t.format \in Keys
  /\ t.pc \notin Running => t.seen.result.format = "none"
  /\ t.labels \in Labels
  /\ \A x \in t.todo : IsRow(x[2])
  /\ Rows(t.records)
\* A result is not taken away, and an object is put before the commit.
Behind(t) ==
  /\ t.seen.result.format # "none" => job.result.format # "none"
  /\ t.pc = "commit" => objects[t.format].put
\* Until two executions overlap, the one that runs has the request of the job before
\* it, and the commit finds the object of its own rows.
Sole(t) ==
  ~ overlap =>
    /\ t.pc # "idle" => job.status # "succeeded"
    /\ t.pc \in Running =>
         t.format = job.asked /\ t.seen.status # "succeeded" /\ t.seen.result.format = "none"
    /\ t.pc = "commit" => objects[t.format] = Packed(t)
WorkersInv ==
  /\ DOMAIN worker = Workers
  /\ \A w \in Workers : IsTask(worker[w])
  /\ \A w \in Workers : Behind(worker[w]) /\ Sole(worker[w])
OneRuns == ~ overlap => \A v, w \in Workers : v # w => worker[v].pc = "idle" \/ worker[w].pc = "idle"

JobTyped ==
  /\ job = [status |-> job.status, asked |-> job.asked, result |-> job.result, cancelling |-> job.cancelling]
  /\ job.status \in {"absent", "queued", "succeeded", "cancelled"}
  /\ job.status # "absent" => job.result.requested \in Keys
  /\ job.result.format \in Keys \cup {"none"}
  /\ msgs \in Nat /\ overlap \in BOOLEAN
\* Nothing has begun.
Nothing == job.status = "absent" => /\ msgs = 0 /\ job.cancelling = FALSE
                                    /\ \A w \in Workers : worker[w].pc = "idle"
\* The request is there until a result takes its place, whose object is there.
ResultInv ==
  /\ job.status = "succeeded" => job.result.format # "none"
  /\ job.result.format # "none" => objects[job.result.format].put
  /\ ~ overlap /\ job.status = "queued" =>
       job.result.format = "none" /\ job.result.requested = job.asked
\* Whoever put an object there, it was written from its rows and labels.
WrittenAs(f, o) ==
  o.put => o.files = Written(f, o.records, o.labels) /\ Rows(o.records) /\ o.labels \in Labels
ObjectsWritten == DOMAIN objects = Keys /\ \A f \in Keys : WrittenAs(f, objects[f])

JobInv == /\ JobTyped /\ Nothing /\ WorkersInv /\ OneRuns /\ ResultInv /\ ObjectsWritten
          /\ ResultDescribesObject

EInv == LInv /\ VersionsTyped /\ GivenTyped /\ JobInv

-----------------------------------------------------------------------------

LEMMA NoLabelsAre == NoLabels \in Labels
  BY LabelsAre DEF NoLabels

LEMMA UpsertedAre ==
  ASSUME NEW l \in Labels, NEW m \in Labels
  PROVE  Upserted(l, m) \in Labels
<1>1. /\ DOMAIN l \subseteq -1..MaxClass /\ l \in [DOMAIN l -> NewNames \cup ToSet(ClassNames)]
      /\ DOMAIN m \subseteq -1..MaxClass /\ m \in [DOMAIN m -> NewNames \cup ToSet(ClassNames)]
  BY LabelsAre
<1> DEFINE u == Upserted(l, m)
<1>2. /\ DOMAIN u = DOMAIN l \cup DOMAIN m
      /\ u \in [DOMAIN l \cup DOMAIN m -> NewNames \cup ToSet(ClassNames)]
  BY <1>1 DEF Upserted
<1> HIDE DEF u
<1>3. u \in Labels
  BY <1>1, <1>2, LabelsAre
<1> QED BY <1>3 DEF u

LEMMA NamedAre ==
  ASSUME NEW c \in 0..MaxClass, NEW name \in NewNames
  PROVE  [d \in {c} |-> name] \in Labels
<1> DEFINE one == [d \in {c} |-> name]
<1>1. c \in -1..MaxClass
  BY ArchivesFit DEF ArchivesFit
<1>2. DOMAIN one = {c} /\ one \in [{c} -> NewNames \cup ToSet(ClassNames)]
  OBVIOUS
<1> HIDE DEF one
<1>3. one \in Labels
  BY <1>1, <1>2, LabelsAre
<1> QED BY <1>3 DEF one

LEMMA RestAre ==
  ASSUME NEW l \in Labels, NEW c
  PROVE  [d \in DOMAIN l \ {c} |-> l[d]] \in Labels
<1> DEFINE rest == [d \in DOMAIN l \ {c} |-> l[d]]
<1>1. DOMAIN l \subseteq -1..MaxClass /\ l \in [DOMAIN l -> NewNames \cup ToSet(ClassNames)]
  BY LabelsAre
<1>2. DOMAIN rest = DOMAIN l \ {c} /\ rest \in [DOMAIN l \ {c} -> NewNames \cup ToSet(ClassNames)]
  BY <1>1
<1> HIDE DEF rest
<1>3. rest \in Labels
  BY <1>1, <1>2, LabelsAre
<1> QED BY <1>3 DEF rest

LEMMA LatestAre ==
  ASSUME VersionsInv, VersionsTyped
  PROVE  LatestLabels \in Labels
<1> DEFINE Newest(c, v) == \A w \in Defined(c) : w <= v
           last(c) == CHOOSE v \in Defined(c) : Newest(c, v)
           latest == [c \in Classes |-> versions[last(c)].labels[c]]
<1>1. LatestLabels = latest
  BY DEF LatestLabels
<1>2. ASSUME NEW c \in Classes
      PROVE  /\ c \in -1..MaxClass
             /\ versions[last(c)].labels[c] \in NewNames \cup ToSet(ClassNames)
  <2>1. Defined(c) # {} /\ Defined(c) \subseteq DOMAIN versions
    BY DEF Classes, Defined
  <2>2. \E v \in Defined(c) : Newest(c, v)
    BY <2>1, PositionsOfVersions, GreatestPosition DEF VersionsInv
  <2>3. last(c) \in Defined(c)
    <3> HIDE DEF Newest
    <3> QED BY <2>2
  <2>4. PICK v : v = last(c)
    OBVIOUS
  <2> HIDE DEF last
  <2>5. v \in DOMAIN versions /\ c \in DOMAIN versions[v].labels
    BY <2>3, <2>4 DEF Defined
  <2>6. PICK l : l = versions[v].labels
    OBVIOUS
  <2>7. l \in Labels /\ c \in DOMAIN l
    BY <2>5, <2>6 DEF VersionsTyped, IsVersion
  <2>8. c \in -1..MaxClass /\ l[c] \in NewNames \cup ToSet(ClassNames)
    BY <2>7, LabelsAre
  <2> QED BY <2>4, <2>6, <2>8
<1> HIDE DEF last
<1>3. DOMAIN latest = Classes /\ latest \in [Classes -> NewNames \cup ToSet(ClassNames)]
  BY <1>2
<1>4. Classes \subseteq -1..MaxClass
  BY <1>2
<1> HIDE DEF latest
<1> QED BY <1>1, <1>3, <1>4, LabelsAre

-----------------------------------------------------------------------------
(* Imports and edits keep the versions typed.                               *)

LEMMA VersionMade ==
  ASSUME NEW archive \in Archives, NEW samples, \A s \in samples : IsRow(s), NEW labels \in Labels
  PROVE  IsVersion([archive |-> archive, samples |-> samples, labels |-> labels])
  BY DEF IsVersion

LEMMA ManifestLabels ==
  ASSUME NEW archive \in Archives
  PROVE  Manifest(Entries(archive)).labels \in Labels
  BY ArchivesFit DEF ArchivesFit

\* Edits of a row.
LEMMA SameImage ==
  ASSUME NEW s, OfImage(s), NEW r, {"name", "subset", "size", "annotations"} \subseteq DOMAIN r,
         r.name = s.name, r.size = s.size, r.annotations = s.annotations, r.subset \in SubsetNames
  PROVE  IsRow(r)
  BY DEF IsRow, OfImage, IsRecord

LEMMA RowEdited ==
  ASSUME NEW s, IsRow(s)
  PROVE  /\ \A n \in SubsetNames : IsRow([s EXCEPT !.subset = n])
         /\ IsRow([s EXCEPT !.deleted = TRUE])
<1>1. OfImage(s) /\ {"name", "subset", "size", "annotations"} \subseteq DOMAIN s
  BY DEF IsRow
<1>2. ASSUME NEW n \in SubsetNames PROVE IsRow([s EXCEPT !.subset = n])
  <2>1. PICK r : r = [s EXCEPT !.subset = n]
    OBVIOUS
  <2>2. /\ r.name = s.name /\ r.size = s.size /\ r.annotations = s.annotations /\ r.subset = n
        /\ DOMAIN r = DOMAIN s
    BY <1>1, <2>1
  <2>3. IsRow(r)
    BY <1>1, <2>2, SameImage
  <2> QED BY <2>1, <2>3
<1>3. IsRow([s EXCEPT !.deleted = TRUE])
  <2>1. PICK r : r = [s EXCEPT !.deleted = TRUE]
    OBVIOUS
  <2>2. /\ r.name = s.name /\ r.size = s.size /\ r.annotations = s.annotations /\ r.subset = s.subset
        /\ DOMAIN r = DOMAIN s
    BY <1>1, <2>1
  <2>3. s.subset \in SubsetNames
    BY <1>1 DEF OfImage
  <2>4. IsRow(r)
    BY <1>1, <2>2, <2>3, SameImage
  <2> QED BY <2>1, <2>4
<1> QED BY <1>2, <1>3

LEMMA ImportTyped ==
  ASSUME LInv, VersionsTyped, NEW archive \in Archives, ImportPart(archive)
  PROVE  VersionsTyped'
<1> DEFINE manifest == Manifest(Entries(archive))
           rows == {Row(s) : s \in manifest.samples}
           labels == Upserted(NoLabels, manifest.labels)
           new == [archive |-> archive, samples |-> rows, labels |-> labels]
           last == Len(versions) + 1
<1>1. versions' = Append(versions, new)
  BY DEF ImportPart
<1>2. \A s \in rows : IsRow(s)
  <2>1. ASSUME NEW s \in manifest.samples PROVE IsRow(Row(s))
    <3>1. Accepted(archive)
      BY DEF ImportPart
    <3>2. OfImage(s)
      BY <3>1, ManifestRecords DEF OfImage
    <3>3. PICK r : r = Row(s)
      OBVIOUS
    <3>4. /\ r.name = s.name /\ r.size = s.size /\ r.annotations = s.annotations /\ r.subset = s.subset
          /\ {"name", "subset", "size", "annotations"} \subseteq DOMAIN r
      BY <3>3 DEF Row
    <3>5. s.subset \in SubsetNames
      BY <3>2 DEF OfImage
    <3>6. IsRow(r)
      BY <3>2, <3>4, <3>5, SameImage
    <3> QED BY <3>3, <3>6
  <2> HIDE DEF manifest
  <2> QED BY <2>1
<1>3. labels \in Labels
  BY ManifestLabels, NoLabelsAre, UpsertedAre
<1> HIDE DEF manifest, rows, labels
<1>4. IsVersion(new)
  BY <1>2, <1>3, VersionMade
<1>5. PICK S : versions \in Seq(S)
  BY DEF LInv, VersionsInv
<1>6. Len(versions) \in Nat /\ DOMAIN versions = 1..Len(versions)
  BY <1>5, LenProperties
<1>7. /\ DOMAIN versions' = 1..last
      /\ versions'[last] = new
      /\ \A v \in 1..Len(versions) : versions'[v] = versions[v]
  <2> HIDE DEF new
  <2>1. versions \in Seq(S \cup {new})
    BY <1>5, SeqMonotonic
  <2> QED BY <1>1, <1>6, <2>1, AppendProperties, LenProperties
<1> HIDE DEF new
<1>8. \A v \in DOMAIN versions' : v = last \/ v \in DOMAIN versions
  BY <1>6, <1>7
<1> QED BY <1>4, <1>6, <1>7, <1>8 DEF VersionsTyped

\* A step that makes one version anew.
LEMMA OneVersionTyped ==
  ASSUME VersionsTyped, NEW v \in DOMAIN versions, NEW new, IsVersion(new),
         versions' = [versions EXCEPT ![v] = new]
  PROVE  VersionsTyped'
<1>1. \A w \in DOMAIN versions' : w \in DOMAIN versions /\ versions'[w] = IF w = v THEN new ELSE versions[w]
  OBVIOUS
<1> QED BY <1>1 DEF VersionsTyped

LEMMA RescanTyped ==
  ASSUME LInv, VersionsTyped, NEW v \in DOMAIN versions, Rescan(v)
  PROVE  VersionsTyped'
<1> DEFINE archive == versions[v].archive
           manifest == Manifest(Entries(archive))
           rows == {[s EXCEPT !.subset = SubsetFor(s.name)] : s \in versions[v].samples}
           labels == Upserted(versions[v].labels, manifest.labels)
           new == [archive |-> archive, samples |-> rows, labels |-> labels]
<1>1. versions' = [versions EXCEPT ![v] = new]
  BY DEF Rescan
<1>2. archive \in Archives /\ versions[v].labels \in Labels
  BY DEF VersionsTyped, IsVersion
<1>3. \A s \in rows : IsRow(s)
  <2>1. ASSUME NEW t \in versions[v].samples PROVE IsRow([t EXCEPT !.subset = SubsetFor(t.name)])
    <3>1. PICK n : n = SubsetFor(t.name)
      OBVIOUS
    <3>2. n \in SubsetNames
      BY <3>1, SubsetNamed
    <3>3. IsRow(t)
      BY DEF VersionsTyped, IsVersion
    <3>4. IsRow([t EXCEPT !.subset = n])
      BY <3>2, <3>3, RowEdited
    <3> QED BY <3>1, <3>4
  <2> QED BY <2>1
<1>4. labels \in Labels
  BY <1>2, ManifestLabels, UpsertedAre
<1> HIDE DEF archive, rows, labels
<1>5. IsVersion(new)
  BY <1>2, <1>3, <1>4, VersionMade
<1> HIDE DEF new
<1> QED BY <1>1, <1>5, OneVersionTyped

LEMMA ReplaceSampleTyped ==
  ASSUME LInv, VersionsTyped, NEW v \in DOMAIN versions, NEW s, NEW new, IsRow(new), ReplaceSample(v, s, new)
  PROVE  VersionsTyped'
<1> DEFINE rows == (versions[v].samples \ {s}) \cup {new}
           r == [archive |-> versions[v].archive, samples |-> rows, labels |-> versions[v].labels]
<1>1. versions' = [versions EXCEPT ![v] = [versions[v] EXCEPT !.samples = rows]]
  BY DEF ReplaceSample
<1>2. \A t \in rows : IsRow(t)
  BY DEF VersionsTyped, IsVersion
<1> HIDE DEF rows
<1>3. [versions[v] EXCEPT !.samples = rows] = r
  BY RecordExcept DEF LInv, VersionsInv
<1>4. IsVersion(r)
  BY <1>2, VersionMade DEF VersionsTyped, IsVersion
<1> HIDE DEF r
<1>5. versions' = [versions EXCEPT ![v] = r]
  BY <1>1, <1>3
<1> QED BY <1>4, <1>5, OneVersionTyped

\* A step that gives versions other labels.
LEMMA LabelsTyped ==
  ASSUME VersionsTyped, DOMAIN versions' = DOMAIN versions,
         \A v \in DOMAIN versions :
           versions'[v] = versions[v]
           \/ \E l \in Labels : versions'[v] = [archive |-> versions[v].archive,
                                                samples |-> versions[v].samples, labels |-> l]
  PROVE  VersionsTyped'
<1> SUFFICES ASSUME NEW v \in DOMAIN versions PROVE IsVersion(versions'[v])
  BY DEF VersionsTyped
<1>1. IsVersion(versions[v])
  BY DEF VersionsTyped
<1>2. CASE versions'[v] = versions[v]
  BY <1>1, <1>2
<1>3. ASSUME NEW l \in Labels,
             versions'[v] = [archive |-> versions[v].archive, samples |-> versions[v].samples, labels |-> l]
      PROVE  IsVersion(versions'[v])
  BY <1>1, <1>3 DEF IsVersion
<1> QED BY <1>2, <1>3

LEMMA UpdateLabelTyped ==
  ASSUME LInv, VersionsTyped, NEW c \in 0..MaxClass, NEW name \in NewNames, UpdateLabel(c, name)
  PROVE  VersionsTyped'
<1> DEFINE changed == IF Defined(c) = {} THEN {Len(versions)} ELSE Defined(c)
           one == [d \in {c} |-> name]
<1>1. versions' = [v \in DOMAIN versions |->
                     IF v \in changed
                     THEN [versions[v] EXCEPT !.labels = Upserted(versions[v].labels, one)]
                     ELSE versions[v]]
  BY DEF UpdateLabel
<1>2. one \in Labels
  BY NamedAre
<1> HIDE DEF changed, one
<1>3. ASSUME NEW v \in DOMAIN versions, versions'[v] # versions[v]
      PROVE  \E l \in Labels : versions'[v] = [archive |-> versions[v].archive,
                                               samples |-> versions[v].samples, labels |-> l]
  <2>1. PICK l : l = Upserted(versions[v].labels, one)
    OBVIOUS
  <2>2. l \in Labels
    BY <1>2, <2>1, UpsertedAre DEF VersionsTyped, IsVersion
  <2>3. versions'[v] = [versions[v] EXCEPT !.labels = l]
    BY <1>1, <1>3, <2>1
  <2>4. [versions[v] EXCEPT !.labels = l]
          = [archive |-> versions[v].archive, samples |-> versions[v].samples, labels |-> l]
    BY RecordExcept DEF LInv, VersionsInv
  <2> QED BY <2>2, <2>3, <2>4
<1>4. DOMAIN versions' = DOMAIN versions
  BY <1>1
<1> QED BY <1>3, <1>4, LabelsTyped

LEMMA DeleteLabelTyped ==
  ASSUME LInv, VersionsTyped, NEW c, DeleteLabel(c)
  PROVE  VersionsTyped'
<1> DEFINE Rest(v) == [d \in DOMAIN versions[v].labels \ {c} |-> versions[v].labels[d]]
<1>1. versions' = [v \in DOMAIN versions |-> [versions[v] EXCEPT !.labels = Rest(v)]]
  BY DEF DeleteLabel
<1>2. ASSUME NEW v \in DOMAIN versions PROVE Rest(v) \in Labels
  BY RestAre DEF VersionsTyped, IsVersion
<1> HIDE DEF Rest
<1>3. ASSUME NEW v \in DOMAIN versions
      PROVE  \E l \in Labels : versions'[v] = [archive |-> versions[v].archive,
                                               samples |-> versions[v].samples, labels |-> l]
  <2>1. versions'[v] = [archive |-> versions[v].archive, samples |-> versions[v].samples, labels |-> Rest(v)]
    BY <1>1, RecordExcept DEF LInv, VersionsInv
  <2> QED BY <1>2, <2>1
<1>4. DOMAIN versions' = DOMAIN versions
  BY <1>1
<1> QED BY <1>3, <1>4, LabelsTyped

-----------------------------------------------------------------------------
(* The export job.                                                          *)

LEMMA NoRows == Rows(<< >>)
<1>1. PICK e, S : e = << >> /\ S = {}
  OBVIOUS
<1>2. e \in Seq(S) /\ \A s \in S : IsRow(s)
  BY <1>1, EmptySeq
<1> QED BY <1>1, <1>2 DEF Rows

LEMMA RowAdded ==
  ASSUME NEW records, Rows(records), NEW s, IsRow(s)
  PROVE  Rows(Append(records, s))
<1>1. PICK S : records \in Seq(S) /\ \A t \in S : IsRow(t)
  BY DEF Rows
<1> DEFINE T == S \cup {s}
<1>2. \A t \in T : IsRow(t)
  BY <1>1
<1>3. S \subseteq T /\ s \in T
  OBVIOUS
<1> HIDE DEF T
<1>4. Append(records, s) \in Seq(T)
  BY <1>1, <1>3, SeqMonotonic, AppendProperties
<1> QED BY <1>2, <1>4 DEF Rows

LEMMA RowsAreOfImages ==
  ASSUME NEW records, Rows(records)
  PROVE  OfImages(records, Len(records))
<1>1. PICK S : records \in Seq(S) /\ \A t \in S : IsRow(t)
  BY DEF Rows
<1>2. Len(records) \in Nat /\ DOMAIN records = 1..Len(records) /\ \A i \in 1..Len(records) : records[i] \in S
  BY <1>1, LenProperties, ElementOfSeq
<1> QED BY <1>1, <1>2 DEF OfImages, IsRow, OfImage, IsRecord, CleanName

LEMMA NoneIsNoKey == "none" \notin Keys
  BY FormatsWritten DEF FormatsWritten, Keys

LEMMA JobQuiet ==
  ASSUME JobInv, UNCHANGED Export
  PROVE  JobInv'
<1>1. JobTyped' /\ Nothing' /\ OneRuns'
  BY DEF JobInv, Export, JobTyped, Nothing, OneRuns
<1>2. WorkersInv'
  BY DEF JobInv, Export, WorkersInv, Behind, Sole
<1>3. ResultInv' /\ ObjectsWritten' /\ ResultDescribesObject'
  BY DEF JobInv, Export, ResultInv, ObjectsWritten, ResultDescribesObject
<1> QED BY <1>1, <1>2, <1>3 DEF JobInv

LEMMA IdleIs ==
  /\ Idle.pc = "idle" /\ Idle.seen.result.format = "none" /\ IsTask(Idle)
  /\ [Idle EXCEPT !.pc = "begin"].pc = "begin" /\ IsTask([Idle EXCEPT !.pc = "begin"])
  /\ [Idle EXCEPT !.pc = "begin"].seen.result.format = "none"
<1>1. PICK seen : seen = [status |-> "absent", result |-> NoJob.result]
  OBVIOUS
<1>2. seen.status = "absent" /\ seen.result.format = "none"
  BY <1>1 DEF NoJob, Request
<1>3. ASSUME NEW pc \in {"idle", "begin"}, NEW t,
             t = [pc |-> pc, seen |-> seen, format |-> "none", todo |-> {}, records |-> << >>, labels |-> NoLabels]
      PROVE  IsTask(t) /\ t.pc = pc /\ t.seen.result.format = "none"
  <2>1. /\ t.pc = pc /\ t.seen = seen /\ t.format = "none" /\ t.todo = {} /\ t.records = << >>
        /\ t.labels = NoLabels
    BY <1>3
  <2>2. t = [pc |-> t.pc, seen |-> t.seen, format |-> t.format, todo |-> t.todo, records |-> t.records,
             labels |-> t.labels]
    BY <1>3, <2>1
  <2> QED BY <1>2, <2>1, <2>2, NoRows, NoLabelsAre DEF IsTask, Running
<1>4. Idle = [pc |-> "idle", seen |-> seen, format |-> "none", todo |-> {}, records |-> << >>, labels |-> NoLabels]
  BY <1>1 DEF Idle
<1>5. [Idle EXCEPT !.pc = "begin"]
        = [pc |-> "begin", seen |-> seen, format |-> "none", todo |-> {}, records |-> << >>, labels |-> NoLabels]
  <2>1. \A none, noLabels :
          [[pc |-> "idle", seen |-> seen, format |-> none, todo |-> {}, records |-> << >>,
            labels |-> noLabels] EXCEPT !.pc = "begin"]
            = [pc |-> "begin", seen |-> seen, format |-> none, todo |-> {}, records |-> << >>,
               labels |-> noLabels]
    OBVIOUS
  <2> QED BY <1>4, <2>1
<1>6. PICK idle, begun : idle = Idle /\ begun = [Idle EXCEPT !.pc = "begin"]
  OBVIOUS
<1>7. IsTask(idle) /\ idle.pc = "idle" /\ idle.seen.result.format = "none"
  BY <1>3, <1>4, <1>6
<1>8. IsTask(begun) /\ begun.pc = "begin" /\ begun.seen.result.format = "none"
  BY <1>3, <1>5, <1>6
<1> QED BY <1>6, <1>7, <1>8

LEMMA IdleSettles == Behind(Idle) /\ Sole(Idle)
  BY IdleIs DEF Behind, Sole, Running

\* One execution moves on.
LEMMA OneMoves ==
  ASSUME WorkersInv, NEW w \in Workers, NEW t, Becomes(w, t)
  PROVE  DOMAIN worker' = Workers /\ worker'[w] = t /\ \A v \in Workers \ {w} : worker'[v] = worker[v]
  BY DEF WorkersInv, Becomes

\* A step of one execution that touches nothing else.
LEMMA TaskMoves ==
  ASSUME JobInv, NEW w \in Workers, NEW t, Becomes(w, t), IsTask(t), Behind(t), Sole(t),
         worker[w].pc # "idle", msgs' \in Nat, UNCHANGED <<job, objects, overlap>>
  PROVE  JobInv'
<1>1. DOMAIN worker' = Workers /\ worker'[w] = t /\ \A v \in Workers \ {w} : worker'[v] = worker[v]
  BY OneMoves DEF JobInv
<1>2. job.status # "absent"
  BY DEF JobInv, Nothing
<1>3. JobTyped' /\ Nothing'
  BY <1>2 DEF JobInv, JobTyped, Nothing
<1>4. WorkersInv'
  <2>1. \A v \in Workers : IsTask(worker'[v]) /\ Behind(worker'[v]) /\ Sole(worker'[v])
    BY <1>1 DEF JobInv, WorkersInv
  <2>2. \A v \in Workers : Behind(worker[v])' /\ Sole(worker[v])'
    BY <2>1 DEF Behind, Sole
  <2> QED BY <1>1, <2>1, <2>2 DEF WorkersInv
<1>5. OneRuns'
  BY <1>1 DEF JobInv, OneRuns
<1>6. ResultInv' /\ ObjectsWritten' /\ ResultDescribesObject'
  BY DEF JobInv, ResultInv, ObjectsWritten, ResultDescribesObject
<1> QED BY <1>3, <1>4, <1>5, <1>6 DEF JobInv

LEMMA QueueExportTyped ==
  ASSUME JobInv, NEW format \in Formats, NEW filter, QueueExport(format, filter)
  PROVE  JobInv'
<1>1. PICK result : result = Request(format, filter)
  OBVIOUS
<1>2. result.requested = format /\ result.format = "none"
  BY <1>1 DEF Request
<1>3. /\ job.status = "absent" /\ UNCHANGED <<worker, objects, overlap>> /\ msgs' = msgs + 1
      /\ job' = [status |-> "queued", asked |-> format, result |-> result, cancelling |-> FALSE]
  BY <1>1 DEF QueueExport, NoJob
<1>4. /\ job'.status = "queued" /\ job'.asked = format /\ job'.result = result
  BY <1>3
<1>5. \A w \in Workers : worker[w].pc = "idle"
  BY <1>3 DEF JobInv, Nothing
<1>6. JobTyped'
  BY <1>2, <1>3, <1>4 DEF JobInv, JobTyped, Keys
<1>7. Nothing'
  BY <1>4 DEF Nothing
<1>8. WorkersInv'
  <2>1. \A w \in Workers : worker[w].seen.result.format = "none"
    BY <1>5 DEF JobInv, WorkersInv, IsTask, Running
  <2> QED BY <1>3, <1>5, <2>1 DEF JobInv, WorkersInv, Behind, Sole, Running
<1>9. OneRuns' /\ ResultInv' /\ ObjectsWritten' /\ ResultDescribesObject'
  BY <1>2, <1>3, <1>4 DEF JobInv, OneRuns, ResultInv, ObjectsWritten, ResultDescribesObject
<1> QED BY <1>6, <1>7, <1>8, <1>9 DEF JobInv

LEMMA CancelTyped ==
  ASSUME JobInv, CancelRead \/ CancelCommit
  PROVE  JobInv'
<1>1. job.status # "absent" /\ UNCHANGED <<msgs, worker, objects, overlap>>
  BY DEF CancelRead, CancelCommit, JobInv, Nothing
<1>2. PICK status \in {job.status, "cancelled"}, cancelling \in BOOLEAN :
         job' = [status |-> status, asked |-> job.asked, result |-> job.result, cancelling |-> cancelling]
  <2>1. job = [status |-> job.status, asked |-> job.asked, result |-> job.result, cancelling |-> job.cancelling]
    BY DEF JobInv, JobTyped
  <2>2. CASE CancelRead
    <3>1. job' = [job EXCEPT !.cancelling = TRUE]
      BY <2>2 DEF CancelRead
    <3>2. job' = [status |-> job.status, asked |-> job.asked, result |-> job.result, cancelling |-> TRUE]
      BY <2>1, <3>1
    <3> QED BY <3>2
  <2>3. CASE CancelCommit
    <3>1. job' = [job EXCEPT !.status = "cancelled", !.cancelling = FALSE]
      BY <2>3 DEF CancelCommit
    <3>2. job' = [status |-> "cancelled", asked |-> job.asked, result |-> job.result, cancelling |-> FALSE]
      BY <2>1, <3>1
    <3> QED BY <3>2
  <2> QED BY <2>2, <2>3
<1>3. /\ job'.status = status /\ job'.asked = job.asked /\ job'.result = job.result
      /\ job'.cancelling = cancelling
  BY <1>2
<1>4. JobTyped' /\ Nothing'
  BY <1>1, <1>2, <1>3 DEF JobInv, JobTyped, Nothing
<1>5. WorkersInv' /\ OneRuns'
  BY <1>1, <1>3 DEF JobInv, WorkersInv, Behind, Sole, OneRuns
<1>6. ResultInv' /\ ObjectsWritten' /\ ResultDescribesObject'
  BY <1>1, <1>3 DEF JobInv, ResultInv, ObjectsWritten, ResultDescribesObject
<1> QED BY <1>4, <1>5, <1>6 DEF JobInv

LEMMA TakeTyped ==
  ASSUME JobInv, NEW w \in Workers, Take(w)
  PROVE  JobInv'
<1>1. msgs > 0 /\ msgs' = msgs - 1 /\ UNCHANGED <<job, objects>> /\ worker[w].pc = "idle"
  BY DEF Take
<1>2. msgs' \in Nat /\ job.status # "absent"
  BY <1>1 DEF JobInv, JobTyped, Nothing
<1>3. CASE job.status = "succeeded"
  <2>1. UNCHANGED <<worker, overlap>>
    BY <1>3 DEF Take
  <2>2. JobTyped' /\ Nothing' /\ OneRuns'
    BY <1>1, <1>2, <2>1 DEF JobInv, JobTyped, Nothing, OneRuns
  <2>3. WorkersInv'
    BY <1>1, <2>1 DEF JobInv, WorkersInv, Behind, Sole
  <2>4. ResultInv' /\ ObjectsWritten' /\ ResultDescribesObject'
    BY <1>1, <2>1 DEF JobInv, ResultInv, ObjectsWritten, ResultDescribesObject
  <2> QED BY <2>2, <2>3, <2>4 DEF JobInv
<1>4. CASE job.status # "succeeded"
  <2>1. PICK t : t = [Idle EXCEPT !.pc = "begin"]
    OBVIOUS
  <2>2. /\ IsTask(t) /\ t.pc = "begin" /\ t.seen.result.format = "none"
    BY <2>1, IdleIs
  <2>3. /\ Becomes(w, t)
        /\ overlap' = (overlap \/ \E v \in Workers \ {w} : worker[v].pc # "idle")
    BY <1>4, <2>1 DEF Take
  <2>4. DOMAIN worker' = Workers /\ worker'[w] = t /\ \A v \in Workers \ {w} : worker'[v] = worker[v]
    BY <2>3, OneMoves DEF JobInv
  <2>5. overlap' \in BOOLEAN /\ (~ overlap' => ~ overlap /\ \A v \in Workers \ {w} : worker[v].pc = "idle")
    BY <2>3 DEF JobInv, JobTyped
  <2>6. JobTyped' /\ Nothing'
    BY <1>1, <1>2, <2>5 DEF JobInv, JobTyped, Nothing
  <2>7. WorkersInv'
    <3>1. \A v \in Workers : IsTask(worker'[v])
      BY <2>2, <2>4 DEF JobInv, WorkersInv
    <3>2. \A v \in Workers : Behind(worker[v])'
      BY <1>1, <2>2, <2>4 DEF JobInv, WorkersInv, Behind
    <3>3. Sole(worker[w])'
      BY <1>1, <1>4, <2>2, <2>4 DEF Sole, Running
    <3>4. \A v \in Workers \ {w} : Sole(worker[v])'
      BY <1>1, <2>4, <2>5 DEF JobInv, WorkersInv, Sole
    <3> QED BY <2>4, <3>1, <3>2, <3>3, <3>4 DEF WorkersInv
  <2>8. OneRuns'
    BY <2>4, <2>5 DEF OneRuns
  <2>9. ResultInv' /\ ObjectsWritten' /\ ResultDescribesObject'
    BY <1>1, <1>4, <2>5 DEF JobInv, ResultInv, ObjectsWritten, ResultDescribesObject
  <2> QED BY <2>6, <2>7, <2>8, <2>9 DEF JobInv
<1> QED BY <1>3, <1>4

LEMMA BeginTyped ==
  ASSUME LInv, VersionsTyped, JobInv, NEW w \in Workers, Begin(w)
  PROVE  JobInv'
<1>1. worker[w].pc = "begin" /\ UNCHANGED <<job, msgs, objects, overlap>> /\ msgs' \in Nat
  BY DEF Begin, JobInv, JobTyped
<1>2. CASE job.status = "cancelled"
  <2>1. Becomes(w, Idle)
    BY <1>2 DEF Begin
  <2> QED BY <1>1, <2>1, IdleIs, IdleSettles, TaskMoves
<1>3. CASE job.status # "cancelled"
  <2> DEFINE todo == UNION {{<<v, s>> : s \in Selected(v, job.result.filter)} : v \in DOMAIN versions}
  <2>1. PICK seen, format : seen = Columns /\ format = job.result.requested
    OBVIOUS
  <2>2. seen.status = job.status /\ seen.result = job.result
    BY <2>1 DEF Columns
  <2>3. \A x \in todo : IsRow(x[2])
    BY DEF VersionsTyped, IsVersion, Selected
  <2>4. PICK rest, labels : rest = todo /\ labels = LatestLabels
    OBVIOUS
  <2>5. labels \in Labels
    BY <2>4, LatestAre DEF LInv
  <2>6. PICK t : t = [Idle EXCEPT !.pc = "collect", !.seen = seen, !.format = format, !.labels = labels,
                                  !.todo = rest]
    OBVIOUS
  <2>7. Becomes(w, t)
    BY <1>3, <2>1, <2>4, <2>6 DEF Begin
  <2> HIDE DEF todo
  <2>8. t = [pc |-> "collect", seen |-> seen, format |-> format, todo |-> rest, records |-> << >>, labels |-> labels]
    BY <2>6 DEF Idle
  <2>9. /\ t.pc = "collect" /\ t.seen = seen /\ t.format = format /\ t.todo = rest /\ t.records = << >>
        /\ t.labels = labels
    BY <2>8
  <2>10. job.status \in {"queued", "succeeded"} /\ format \in Keys
    BY <1>1, <1>3, <2>1 DEF JobInv, JobTyped, Nothing
  <2>11. IsTask(t)
    <3>1. t = [pc |-> t.pc, seen |-> t.seen, format |-> t.format, todo |-> t.todo, records |-> t.records,
               labels |-> t.labels]
      BY <2>8, <2>9
    <3>2. Rows(t.records)
      BY <2>9, NoRows
    <3> QED BY <2>2, <2>3, <2>4, <2>5, <2>9, <2>10, <3>1, <3>2 DEF IsTask, Running
  <2>12. Behind(t)
    BY <2>2, <2>9 DEF Behind
  <2>13. Sole(t)
    <3>1. ~ overlap => job.status = "queued"
      BY <1>1, <2>10 DEF JobInv, WorkersInv, Sole
    <3> QED BY <2>1, <2>2, <2>9, <3>1 DEF JobInv, ResultInv, Sole, Running
  <2> QED BY <1>1, <2>7, <2>11, <2>12, <2>13, TaskMoves
<1> QED BY <1>2, <1>3

\* What an execution loads of a job that is not cancelled.
LEMMA LoadedAgain ==
  ASSUME JobInv, NEW w \in Workers, worker[w].pc = "collect", job.status # "cancelled", NEW seen, seen = Columns
  PROVE  /\ seen.status \in {"queued", "succeeded"}
         /\ seen.result.format # "none" => job.result.format # "none"
         /\ ~ overlap => seen.status # "succeeded" /\ seen.result.format = "none"
<1>1. seen.status = job.status /\ seen.result = job.result
  BY DEF Columns
<1>2. job.status \in {"queued", "succeeded"}
  BY DEF JobInv, JobTyped, Nothing
<1>3. ~ overlap => job.status # "succeeded"
  BY DEF JobInv, WorkersInv, Sole
<1> QED BY <1>1, <1>2, <1>3 DEF JobInv, ResultInv

LEMMA CollectTyped ==
  ASSUME JobInv, NEW w \in Workers, Collect(w)
  PROVE  JobInv'
<1> DEFINE next == CHOOSE s \in worker[w].todo : TRUE
<1>1. /\ worker[w].pc = "collect" /\ UNCHANGED <<job, msgs, objects, overlap>> /\ msgs' \in Nat
      /\ next \in worker[w].todo /\ job.status # "cancelled"
  BY DEF Collect, JobInv, JobTyped
<1>2. PICK task, rest, records, seen :
        /\ task = worker[w] /\ rest = task.todo \ {next} /\ records = Append(task.records, next[2])
        /\ seen = Columns
  OBVIOUS
<1>3. Becomes(w, [task EXCEPT !.todo = rest, !.records = records, !.seen = seen])
  BY <1>2 DEF Collect
<1>4. IsTask(task) /\ Sole(task)
  BY <1>2 DEF JobInv, WorkersInv
<1>5. (\A x \in rest : IsRow(x[2])) /\ IsRow(next[2])
  BY <1>1, <1>2, <1>4 DEF IsTask
<1>6. Rows(records)
  BY <1>2, <1>4, <1>5, RowAdded DEF IsTask
<1> HIDE DEF next
<1>7. PICK t : t = [task EXCEPT !.todo = rest, !.records = records, !.seen = seen]
  OBVIOUS
<1>8. t = [pc |-> "collect", seen |-> seen, format |-> task.format, todo |-> rest, records |-> records,
           labels |-> task.labels]
  <2>1. task = [pc |-> task.pc, seen |-> task.seen, format |-> task.format, todo |-> task.todo,
                records |-> task.records, labels |-> task.labels]
    BY <1>4 DEF IsTask
  <2> QED BY <1>1, <1>2, <1>7, <2>1
<1>9. /\ t.pc = "collect" /\ t.seen = seen /\ t.format = task.format /\ t.todo = rest /\ t.records = records
      /\ t.labels = task.labels
  BY <1>8
<1>10. /\ seen.status \in {"queued", "succeeded"}
       /\ seen.result.format # "none" => job.result.format # "none"
       /\ ~ overlap => seen.status # "succeeded" /\ seen.result.format = "none"
  BY <1>1, <1>2, LoadedAgain
<1>11. IsTask(t)
  <2>1. t = [pc |-> t.pc, seen |-> t.seen, format |-> t.format, todo |-> t.todo, records |-> t.records,
             labels |-> t.labels]
    BY <1>8, <1>9
  <2>2. task.format \in Keys /\ task.labels \in Labels
    BY <1>1, <1>2, <1>4 DEF IsTask, Running
  <2> QED BY <1>5, <1>6, <1>9, <1>10, <2>1, <2>2 DEF IsTask, Running
<1>12. Behind(t) /\ Sole(t)
  BY <1>1, <1>2, <1>4, <1>9, <1>10 DEF Behind, Sole, Running
<1>13. Becomes(w, t)
  BY <1>3, <1>7
<1> QED BY <1>1, <1>11, <1>12, <1>13, TaskMoves

LEMMA PackTyped ==
  ASSUME JobInv, NEW w \in Workers, Pack(w)
  PROVE  JobInv'
<1>1. /\ worker[w].pc = "collect" /\ UNCHANGED <<job, msgs, objects, overlap>> /\ msgs' \in Nat
      /\ worker[w].format = "manifest" \/ job.status # "cancelled"
  BY DEF Pack, JobInv, JobTyped
<1>2. PICK task, seen :
        task = worker[w] /\ seen = IF task.format = "manifest" THEN task.seen ELSE Columns
  OBVIOUS
<1>3. PICK t : t = [task EXCEPT !.pc = "package", !.seen = seen]
  OBVIOUS
<1>4. Becomes(w, t)
  BY <1>2, <1>3 DEF Pack
<1>5. IsTask(task) /\ Behind(task) /\ Sole(task)
  BY <1>2 DEF JobInv, WorkersInv
<1>6. t = [pc |-> "package", seen |-> seen, format |-> task.format, todo |-> task.todo, records |-> task.records,
           labels |-> task.labels]
  <2>1. task = [pc |-> task.pc, seen |-> task.seen, format |-> task.format, todo |-> task.todo,
                records |-> task.records, labels |-> task.labels]
    BY <1>5 DEF IsTask
  <2> QED BY <1>3, <2>1
<1>7. /\ t.pc = "package" /\ t.seen = seen /\ t.format = task.format /\ t.todo = task.todo
      /\ t.records = task.records /\ t.labels = task.labels
  BY <1>6
<1>8. /\ seen.status \in {"absent", "queued", "succeeded"}
      /\ seen.result.format # "none" => job.result.format # "none"
      /\ ~ overlap => seen.status # "succeeded" /\ seen.result.format = "none"
  <2>1. CASE task.format = "manifest"
    BY <1>1, <1>2, <1>5, <2>1 DEF IsTask, Behind, Sole, Running
  <2>2. CASE task.format # "manifest"
    BY <1>1, <1>2, <2>2, LoadedAgain
  <2> QED BY <2>1, <2>2
<1>9. IsTask(t)
  <2>1. t = [pc |-> t.pc, seen |-> t.seen, format |-> t.format, todo |-> t.todo, records |-> t.records,
             labels |-> t.labels]
    BY <1>6, <1>7
  <2>2. /\ task.format \in Keys /\ task.labels \in Labels /\ (\A x \in task.todo : IsRow(x[2]))
        /\ Rows(task.records)
    BY <1>1, <1>2, <1>5 DEF IsTask, Running
  <2> QED BY <1>7, <1>8, <2>1, <2>2 DEF IsTask, Running
<1>10. Behind(t) /\ Sole(t)
  BY <1>1, <1>2, <1>5, <1>7, <1>8 DEF Behind, Sole, Running
<1> QED BY <1>1, <1>4, <1>9, <1>10, TaskMoves

LEMMA PackageTyped ==
  ASSUME JobInv, NEW w \in Workers, Package(w)
  PROVE  JobInv'
<1>1. PICK task, t, packed :
        task = worker[w] /\ t = [task EXCEPT !.pc = "commit"] /\ packed = Packed(task)
  OBVIOUS
<1>2. /\ task.pc = "package" /\ UNCHANGED <<job, msgs, overlap>> /\ Becomes(w, t)
      /\ objects' = [objects EXCEPT ![task.format] = packed]
  BY <1>1 DEF Package
<1>3. IsTask(task) /\ Behind(task) /\ Sole(task)
  BY <1>1 DEF JobInv, WorkersInv
<1>4. task.format \in Keys /\ Rows(task.records) /\ task.labels \in Labels
  BY <1>2, <1>3 DEF IsTask, Running
<1>5. t = [pc |-> "commit", seen |-> task.seen, format |-> task.format, todo |-> task.todo,
           records |-> task.records, labels |-> task.labels]
  <2>1. task = [pc |-> task.pc, seen |-> task.seen, format |-> task.format, todo |-> task.todo,
                records |-> task.records, labels |-> task.labels]
    BY <1>3 DEF IsTask
  <2> QED BY <1>1, <2>1
<1>6. /\ t.pc = "commit" /\ t.seen = task.seen /\ t.format = task.format /\ t.todo = task.todo
      /\ t.records = task.records /\ t.labels = task.labels
  BY <1>5
<1>7. /\ packed.put = TRUE /\ packed.records = task.records /\ packed.labels = task.labels
      /\ packed.files = Written(task.format, task.records, task.labels) /\ packed = Packed(t)
  BY <1>1, <1>6 DEF Packed
<1>8. /\ DOMAIN objects' = Keys /\ objects'[task.format] = packed
      /\ \A f \in Keys \ {task.format} : objects'[f] = objects[f]
  BY <1>2, <1>4 DEF JobInv, ObjectsWritten
<1>9. \A f \in Keys : objects[f].put => objects'[f].put
  BY <1>7, <1>8
<1>10. DOMAIN worker' = Workers /\ worker'[w] = t /\ \A v \in Workers \ {w} : worker'[v] = worker[v]
  BY <1>2, OneMoves DEF JobInv
<1>11. job.status # "absent"
  BY <1>1, <1>2 DEF JobInv, Nothing
<1>12. JobTyped' /\ Nothing'
  BY <1>2, <1>11 DEF JobInv, JobTyped, Nothing
<1>13. WorkersInv'
  <2>1. IsTask(t)
    <3>1. t = [pc |-> t.pc, seen |-> t.seen, format |-> t.format, todo |-> t.todo, records |-> t.records,
               labels |-> t.labels]
      BY <1>5, <1>6
    <3> QED BY <1>2, <1>3, <1>6, <3>1 DEF IsTask, Running
  <2>2. Behind(worker[w])'
    BY <1>2, <1>3, <1>6, <1>7, <1>8, <1>10 DEF Behind
  <2>3. Sole(worker[w])'
    BY <1>2, <1>3, <1>6, <1>7, <1>8, <1>10 DEF Sole, Running
  <2>4. ASSUME NEW v \in Workers \ {w} PROVE Behind(worker[v])' /\ Sole(worker[v])'
    <3>1. IsTask(worker[v]) /\ Behind(worker[v]) /\ Sole(worker[v])
      BY <2>4 DEF JobInv, WorkersInv
    <3>2. worker[v].pc = "commit" => worker[v].format \in Keys
      BY <3>1 DEF IsTask, Running
    <3>3. ~ overlap => worker[v].pc = "idle"
      BY <1>1, <1>2, <2>4 DEF JobInv, OneRuns
    <3>4. Behind(worker[v])'
      BY <1>2, <1>9, <1>10, <3>1, <3>2 DEF Behind
    <3>5. Sole(worker[v])'
      BY <1>2, <1>10, <3>3 DEF Sole, Running
    <3> QED BY <3>4, <3>5
  <2> QED BY <1>10, <2>1, <2>2, <2>3, <2>4 DEF JobInv, WorkersInv
<1>14. OneRuns'
  BY <1>1, <1>2, <1>6, <1>10 DEF JobInv, OneRuns
<1>15. ObjectsWritten'
  <2>1. WrittenAs(task.format, packed)
    BY <1>4, <1>7 DEF WrittenAs
  <2>2. \A f \in Keys : WrittenAs(f, objects'[f])
    BY <1>8, <2>1 DEF JobInv, ObjectsWritten
  <2> QED BY <1>8, <2>2 DEF ObjectsWritten
<1>16. ResultInv' /\ (job.result.format # "none" => job.result.format \in Keys)
  BY <1>2, <1>9 DEF JobInv, JobTyped, ResultInv
<1>17. ResultDescribesObject'
  <2>1. ~ overlap => job.status # "succeeded"
    BY <1>2, <1>3 DEF Sole
  <2>2. job.status = "succeeded" => job.result.format \in Keys /\ objects'[job.result.format].put
    BY <1>2, <1>16 DEF ResultInv
  <2> QED BY <1>2, <2>1, <2>2 DEF ResultDescribesObject
<1> QED BY <1>12, <1>13, <1>14, <1>15, <1>16, <1>17 DEF JobInv

LEMMA CommitTyped ==
  ASSUME JobInv, NEW w \in Workers, Commit(w)
  PROVE  JobInv'
<1>1. PICK task, count, new :
        task = worker[w] /\ count = Len(task.records) /\ new = Result(task.format, count)
  OBVIOUS
<1>2. new.requested = "manifest" /\ new.format = task.format /\ new.count = count
  BY <1>1 DEF Result
<1>3. PICK status, result : /\ status = Saved(job.status, task.seen.status, "succeeded")
                            /\ result = Saved(job.result, task.seen.result, new)
  OBVIOUS
<1>4. /\ task.pc = "commit" /\ UNCHANGED <<msgs, objects, overlap>> /\ Becomes(w, Idle)
      /\ job' = [job EXCEPT !.status = status, !.result = result]
  BY <1>1, <1>3 DEF Commit
<1>5. IsTask(task) /\ Behind(task) /\ Sole(task)
  BY <1>1 DEF JobInv, WorkersInv
<1>6. task.format \in Keys /\ Rows(task.records) /\ objects[task.format].put
  BY <1>4, <1>5 DEF IsTask, Behind, Running
<1>7. job' = [status |-> status, asked |-> job.asked, result |-> result, cancelling |-> job.cancelling]
  <2>1. job = [status |-> job.status, asked |-> job.asked, result |-> job.result, cancelling |-> job.cancelling]
    BY DEF JobInv, JobTyped
  <2> QED BY <1>4, <2>1
<1>8. /\ job'.status = status /\ job'.asked = job.asked /\ job'.result = result
      /\ job'.cancelling = job.cancelling
  BY <1>7
<1>9. job.status # "absent" /\ status \in {job.status, "succeeded"}
  BY <1>1, <1>3, <1>4 DEF JobInv, Nothing, Saved
<1>10. /\ result.format \in Keys /\ result.requested \in Keys /\ objects[result.format].put
       /\ result.format # "none"
  <2>1. CASE result = new
    BY <1>2, <1>6, <2>1, NoneIsNoKey DEF Keys
  <2>2. CASE result = job.result /\ new = task.seen.result
    <3>1. job.result.format # "none"
      BY <1>2, <1>5, <1>6, <2>2, NoneIsNoKey DEF Behind
    <3> QED BY <1>9, <2>2, <3>1 DEF JobInv, JobTyped, ResultInv
  <2> QED BY <1>3, <2>1, <2>2 DEF Saved
<1>11. ~ overlap => status = "succeeded" /\ result = new /\ task.format = job.asked
  <2>1. ~ overlap => /\ task.format = job.asked /\ task.seen.status # "succeeded"
                     /\ task.seen.result.format = "none"
    BY <1>4, <1>5 DEF Sole, Running
  <2> QED BY <1>2, <1>3, <1>6, <2>1, NoneIsNoKey DEF Saved
<1>12. DOMAIN worker' = Workers /\ worker'[w] = Idle /\ \A v \in Workers \ {w} : worker'[v] = worker[v]
  BY <1>4, OneMoves DEF JobInv
<1>13. JobTyped' /\ Nothing'
  BY <1>4, <1>7, <1>8, <1>9, <1>10 DEF JobInv, JobTyped, Nothing
<1>14. WorkersInv'
  <2>1. \A v \in Workers : IsTask(worker'[v])
    BY <1>12, IdleIs DEF JobInv, WorkersInv
  <2>2. \A v \in Workers : Behind(worker[v])'
    BY <1>4, <1>8, <1>10, <1>12, IdleIs DEF JobInv, WorkersInv, Behind
  <2>3. \A v \in Workers : ~ overlap => worker'[v].pc = "idle"
    BY <1>1, <1>4, <1>12, IdleIs DEF JobInv, OneRuns
  <2>4. \A v \in Workers : Sole(worker[v])'
    BY <1>4, <2>3 DEF Sole, Running
  <2> QED BY <1>12, <2>1, <2>2, <2>4 DEF WorkersInv
<1>15. OneRuns'
  BY <1>4, <1>12, IdleIs DEF JobInv, OneRuns
<1>16. ResultInv'
  BY <1>4, <1>8, <1>10, <1>11 DEF ResultInv
<1>17. ObjectsWritten'
  BY <1>4 DEF JobInv, ObjectsWritten
<1>18. ResultDescribesObject'
  <2>1. ~ overlap => /\ objects[task.format].records = task.records
                     /\ objects[task.format].files = Written(task.format, task.records, task.labels)
    BY <1>4, <1>5 DEF Sole, Packed
  <2>2. task.format # "manifest" =>
          Cardinality(Positions(Written(task.format, task.records, task.labels), ImageSuffixes)) = count
    <3> SUFFICES ASSUME task.format # "manifest"
                 PROVE  Cardinality(Positions(Written(task.format, task.records, task.labels), ImageSuffixes)) = count
      OBVIOUS
    <3>1. task.format \in {"yolo", "labelme", "voc", "coco"}
      BY <1>6, FormatsWritten DEF FormatsWritten, Keys
    <3>2. OfImages(task.records, count)
      BY <1>1, <1>6, RowsAreOfImages
    <3>3. PICK format, records, labels :
             format = task.format /\ records = task.records /\ labels = task.labels
      OBVIOUS
    <3>4. Cardinality(Positions(Written(format, records, labels), ImageSuffixes)) = count
      BY <3>1, <3>2, <3>3, WrittenImages
    <3> QED BY <3>3, <3>4
  <2>3. job'.result.format \in Keys /\ objects'[job'.result.format].put
    BY <1>4, <1>8, <1>10
  <2>4. ~ overlap =>
          /\ job'.result.format = job'.asked
          /\ Len(objects'[job'.result.format].records) = job'.result.count
          /\ job'.result.format # "manifest" =>
               Cardinality(Positions(objects'[job'.result.format].files, ImageSuffixes)) = job'.result.count
    BY <1>1, <1>2, <1>4, <1>8, <1>11, <2>1, <2>2
  <2> QED BY <1>4, <2>3, <2>4 DEF ResultDescribesObject
<1> QED BY <1>13, <1>14, <1>15, <1>16, <1>17, <1>18 DEF JobInv

\* An execution ends, or its message is delivered again.
LEMMA StopsTyped ==
  ASSUME JobInv, NEW w \in Workers, ObserveCancel(w) \/ Raise(w) \/ WorkerCrash(w)
  PROVE  JobInv'
<1>1. /\ worker[w].pc # "idle" /\ msgs' \in Nat /\ Becomes(w, Idle) /\ UNCHANGED <<job, objects, overlap>>
  BY DEF ObserveCancel, Raise, WorkerCrash, JobInv, JobTyped
<1> QED BY <1>1, IdleIs, IdleSettles, TaskMoves

LEMMA RedeliverTyped ==
  ASSUME JobInv, NEW w \in Workers, Redeliver(w)
  PROVE  JobInv'
<1>1. /\ worker[w].pc # "idle" /\ msgs' \in Nat /\ UNCHANGED <<job, worker, objects, overlap>>
  BY DEF Redeliver, JobInv, JobTyped
<1>2. JobTyped' /\ Nothing' /\ OneRuns'
  BY <1>1 DEF JobInv, JobTyped, Nothing, OneRuns
<1>3. WorkersInv'
  BY <1>1 DEF JobInv, WorkersInv, Behind, Sole
<1>4. ResultInv' /\ ObjectsWritten' /\ ResultDescribesObject'
  BY <1>1 DEF JobInv, ResultInv, ObjectsWritten, ResultDescribesObject
<1> QED BY <1>2, <1>3, <1>4 DEF JobInv

LEMMA ExecutionTyped ==
  ASSUME LInv, VersionsTyped, JobInv, NEW w \in Workers, Execution(w)
  PROVE  JobInv' /\ UNCHANGED <<versions, given>>
<1>1. UNCHANGED <<versions, given>>
  BY DEF Execution, Take, Begin, Collect, ObserveCancel, Pack, Package, Commit, Raise, WorkerCrash,
         Redeliver, Keeps
<1>2. JobInv'
  BY TakeTyped, BeginTyped, CollectTyped, PackTyped, PackageTyped, CommitTyped, StopsTyped, RedeliverTyped
     DEF Execution
<1> QED BY <1>1, <1>2

-----------------------------------------------------------------------------
(* All steps.                                                               *)

LEMMA EInvInit == Init => EInv
<1> SUFFICES ASSUME Init PROVE EInv
  OBVIOUS
<1>1. DOMAIN versions = {} /\ DOMAIN given = {}
  <2>1. versions \in Seq({}) /\ DOMAIN versions = {}
    BY EmptySeq DEF Init
  <2> QED BY <2>1 DEF Init, NoLabels
<1>2. LInv /\ VersionsTyped /\ GivenTyped
  BY <1>1, LInvInit DEF VersionsTyped, GivenTyped
<1>3. PICK result : result = NoJob.result
  OBVIOUS
<1>4. /\ job = [status |-> "absent", asked |-> "none", result |-> result, cancelling |-> FALSE]
      /\ result.format = "none"
  BY <1>3 DEF Init, NoJob, Request
<1>5. job.status = "absent" /\ job.asked = "none" /\ job.result = result /\ job.cancelling = FALSE
  BY <1>4
<1>6. JobTyped
  BY <1>4, <1>5 DEF Init, JobTyped
<1>7. DOMAIN worker = Workers /\ \A w \in Workers : worker[w] = Idle
  BY DEF Init
<1>8. Nothing /\ OneRuns
  BY <1>5, <1>7, IdleIs DEF Init, Nothing, OneRuns
<1>9. WorkersInv
  BY <1>7, IdleIs, IdleSettles DEF WorkersInv
<1>10. ResultInv /\ ResultDescribesObject
  BY <1>4, <1>5 DEF ResultInv, ResultDescribesObject
<1>11. ObjectsWritten
  BY DEF Init, ObjectsWritten, WrittenAs, NoObject
<1> QED BY <1>2, <1>6, <1>8, <1>9, <1>10, <1>11 DEF EInv, JobInv

\* What a user made of a class is known only of classes within the bound.
LEMMA GivenStays ==
  ASSUME GivenTyped, [Next]_vars
  PROVE  GivenTyped'
<1>1. ASSUME NEW archive \in Archives, ImportPart(archive) PROVE GivenTyped'
  BY <1>1 DEF ImportPart, Forget, GivenTyped
<1>2. ASSUME NEW v \in DOMAIN versions, Rescan(v) PROVE GivenTyped'
  BY <1>2 DEF Rescan, Forget, GivenTyped
<1>3. ASSUME NEW v \in DOMAIN versions, NEW s \in versions[v].samples,
             MoveSample(v, s) \/ DeleteSample(v, s)
      PROVE  GivenTyped'
  BY <1>3 DEF MoveSample, DeleteSample, ReplaceSample, GivenTyped
<1>4. ASSUME NEW c \in 0..MaxClass, NEW name, given' = Upserted(given, [d \in {c} |-> name])
      PROVE  GivenTyped'
  <2> DEFINE one == [d \in {c} |-> name]
  <2>1. DOMAIN one = {c}
    OBVIOUS
  <2> HIDE DEF one
  <2>2. DOMAIN Upserted(given, one) = DOMAIN given \cup {c}
    BY <2>1, UpsertedValues
  <2> QED BY <1>4, <2>2 DEF GivenTyped, one
<1>5. ASSUME NEW c \in 0..MaxClass, NEW name \in NewNames, UpdateLabel(c, name) PROVE GivenTyped'
  BY <1>4, <1>5 DEF UpdateLabel
<1>6. ASSUME NEW c \in 0..MaxClass, DeleteLabel(c) PROVE GivenTyped'
  BY <1>4, <1>6 DEF DeleteLabel
<1>7. ASSUME NEW format \in Formats, NEW filter \in Filters, QueueExport(format, filter)
      PROVE  GivenTyped'
  BY <1>7 DEF QueueExport, GivenTyped
<1>8. CASE CancelRead \/ CancelCommit
  BY <1>8 DEF CancelRead, CancelCommit, GivenTyped
<1>9. ASSUME NEW w \in Workers, Execution(w) PROVE GivenTyped'
  BY <1>9 DEF Execution, Take, Begin, Collect, ObserveCancel, Pack, Package, Commit, Raise,
              WorkerCrash, Redeliver, Keeps, GivenTyped
<1>10. CASE UNCHANGED vars
  BY <1>10 DEF vars, GivenTyped
<1> QED BY <1>1, <1>2, <1>3, <1>5, <1>6, <1>7, <1>8, <1>9, <1>10 DEF Next

LEMMA EInvStep ==
  ASSUME EInv, [Next]_vars
  PROVE  EInv'
<1>1. LInv /\ VersionsTyped /\ GivenTyped /\ JobInv
  BY DEF EInv
<1>2. LInv' /\ GivenTyped'
  BY <1>1, LInvStep, GivenStays
<1>3. VersionsTyped' /\ JobInv'
  <2>1. ASSUME UNCHANGED versions PROVE VersionsTyped'
    BY <1>1, <2>1 DEF VersionsTyped
  <2>2. ASSUME NEW archive \in Archives, ImportPart(archive) PROVE VersionsTyped' /\ JobInv'
    <3>1. UNCHANGED Export
      BY <2>2 DEF ImportPart, Export
    <3> QED BY <1>1, <2>2, <3>1, ImportTyped, JobQuiet
  <2>3. ASSUME NEW v \in DOMAIN versions, Rescan(v) PROVE VersionsTyped' /\ JobInv'
    <3>1. UNCHANGED Export
      BY <2>3 DEF Rescan, Export
    <3> QED BY <1>1, <2>3, <3>1, RescanTyped, JobQuiet
  <2>4. ASSUME NEW v \in DOMAIN versions, NEW s \in versions[v].samples,
               NEW new, IsRow(new), ReplaceSample(v, s, new)
        PROVE  VersionsTyped' /\ JobInv'
    <3>1. UNCHANGED Export
      BY <2>4 DEF ReplaceSample, Export
    <3> QED BY <1>1, <2>4, <3>1, ReplaceSampleTyped, JobQuiet
  <2>5. ASSUME NEW v \in DOMAIN versions, NEW s \in versions[v].samples,
               MoveSample(v, s) \/ DeleteSample(v, s)
        PROVE  VersionsTyped' /\ JobInv'
    <3>1. IsRow(s)
      BY <1>1 DEF VersionsTyped, IsVersion
    <3>2. PICK test : test = "test"
      OBVIOUS
    <3>3. test \in SubsetNames
      BY <3>2 DEF SubsetNames
    <3>4. IsRow([s EXCEPT !.subset = test]) /\ IsRow([s EXCEPT !.deleted = TRUE])
      BY <3>1, <3>3, RowEdited
    <3>5. PICK moved, deleted : moved = [s EXCEPT !.subset = "test"] /\ deleted = [s EXCEPT !.deleted = TRUE]
      OBVIOUS
    <3>6. IsRow(moved) /\ IsRow(deleted)
      BY <3>2, <3>4, <3>5
    <3>7. ReplaceSample(v, s, moved) \/ ReplaceSample(v, s, deleted)
      BY <2>5, <3>5 DEF MoveSample, DeleteSample
    <3> QED BY <2>4, <3>6, <3>7
  <2>6. ASSUME NEW c \in 0..MaxClass, NEW name \in NewNames, UpdateLabel(c, name)
        PROVE  VersionsTyped' /\ JobInv'
    <3>1. UNCHANGED Export
      BY <2>6 DEF UpdateLabel, Export
    <3> QED BY <1>1, <2>6, <3>1, UpdateLabelTyped, JobQuiet
  <2>7. ASSUME NEW c \in 0..MaxClass, DeleteLabel(c) PROVE VersionsTyped' /\ JobInv'
    <3>1. UNCHANGED Export
      BY <2>7 DEF DeleteLabel, Export
    <3> QED BY <1>1, <2>7, <3>1, DeleteLabelTyped, JobQuiet
  <2>8. ASSUME NEW format \in Formats, NEW filter \in Filters, QueueExport(format, filter)
        PROVE  VersionsTyped' /\ JobInv'
    <3>1. UNCHANGED versions
      BY <2>8 DEF QueueExport
    <3> QED BY <1>1, <2>1, <2>8, <3>1, QueueExportTyped
  <2>9. CASE CancelRead \/ CancelCommit
    <3>1. UNCHANGED versions
      BY <2>9 DEF CancelRead, CancelCommit
    <3> QED BY <1>1, <2>1, <2>9, <3>1, CancelTyped
  <2>10. ASSUME NEW w \in Workers, Execution(w) PROVE VersionsTyped' /\ JobInv'
    BY <1>1, <2>1, <2>10, ExecutionTyped
  <2>11. CASE UNCHANGED vars
    <3>1. UNCHANGED versions /\ UNCHANGED Export
      BY <2>11 DEF vars, Export
    <3> QED BY <1>1, <2>1, <3>1, JobQuiet
  <2> DEFINE Kept == VersionsTyped' /\ JobInv'
  <2>12. CASE Next
    <3>1. ASSUME NEW v \in DOMAIN versions,
                 Rescan(v) \/ \E s \in versions[v].samples : MoveSample(v, s) \/ DeleteSample(v, s)
          PROVE  Kept
      BY <2>3, <2>5, <3>1
    <3>2. ASSUME NEW c \in 0..MaxClass, (\E name \in NewNames : UpdateLabel(c, name)) \/ DeleteLabel(c)
          PROVE  Kept
      BY <2>6, <2>7, <3>2
    <3> HIDE DEF Kept
    <3>3. ASSUME NEW archive \in Archives, ImportPart(archive) PROVE Kept
      BY <2>2, <3>3 DEF Kept
    <3>4. ASSUME NEW format \in Formats, NEW filter \in Filters, QueueExport(format, filter) PROVE Kept
      BY <2>8, <3>4 DEF Kept
    <3>5. ASSUME CancelRead \/ CancelCommit \/ \E w \in Workers : Execution(w) PROVE Kept
      BY <2>9, <2>10, <3>5 DEF Kept
    <3>6. Kept
      BY <2>12, <3>1, <3>2, <3>3, <3>4, <3>5 DEF Next
    <3> QED BY <3>6 DEF Kept
  <2>13. Next \/ UNCHANGED vars
    OBVIOUS
  <2> HIDE DEF Kept
  <2>14. Kept
    BY <2>11, <2>12, <2>13 DEF Kept
  <2> QED BY <2>14 DEF Kept
<1> QED BY <1>2, <1>3 DEF EInv

\* Whatever was written of rows is read again.
LEMMA WrittenReadsBack ==
  ASSUME NEW records, Rows(records), NEW labels \in Labels, NEW format \in {"yolo", "coco"},
         NEW files, files = Written(format, records, labels), Len(files) <= MaxFiles,
         Cardinality({MatchKey(r.name) : r \in ToSet(records)}) = Len(records),
         format = "coco" => \A r \in ToSet(records) : Stripped(r.name) = r.name
  PROVE  ReadAgain(files, records, Len(records), format, labels)
<1>1. PICK n : /\ n = Len(records) /\ n \in Nat /\ DOMAIN records = 1..n
               /\ \A i \in 1..n : IsRecord(records[i])
  <2>1. PICK S : records \in Seq(S) /\ \A s \in S : IsRow(s)
    BY DEF Rows
  <2>2. Len(records) \in Nat /\ DOMAIN records = 1..Len(records) /\ \A i \in 1..Len(records) : records[i] \in S
    BY <2>1, LenProperties, ElementOfSeq
  <2> QED BY <2>1, <2>2 DEF IsRow, OfImage
<1>2. OwnKeys(records, n)
  BY <1>1, KeysDiffer
<1>3. Exported(records, n)
  BY <1>1, <1>2 DEF Exported
<1>4. CASE format = "yolo"
  <2>1. files = YoloFiles(records, labels)
    BY <1>4 DEF Written
  <2>2. YoloAt(files, records, labels, n)
    BY <1>1, <2>1, YoloPlaces
  <2>3. ReadAgain(files, records, n, "yolo", labels)
    BY <1>3, <2>2, YoloReadBack
  <2> QED BY <1>1, <1>4, <2>3
<1>5. CASE format = "coco"
  <2>1. files = CocoFiles(records, labels)
    BY <1>5 DEF Written
  <2>2. CocoAt(files, records, labels, n)
    BY <1>1, <2>1, CocoPlaces
  <2>3. \A i \in 1..n : Stripped(records[i].name) = records[i].name
    <3>1. \A i \in 1..n : records[i] \in ToSet(records)
      BY <1>1 DEF ToSet
    <3> QED BY <1>5, <3>1
  <2>4. ReadAgain(files, records, n, "coco", labels)
    BY <1>3, <2>2, <2>3, CocoReadBack
  <2> QED BY <1>1, <1>5, <2>4
<1> QED BY <1>4, <1>5

LEMMA EInvReadsBack == EInv => ExportReadsBack
<1> SUFFICES ASSUME EInv, NEW format \in {"yolo", "coco"}, format \in Keys, objects[format].put
             PROVE  ReadsBack(format, objects[format])
  BY DEF ExportReadsBack
<1>1. PICK object : object = objects[format]
  OBVIOUS
<1>2. PICK files, records, labels :
        files = object.files /\ records = object.records /\ labels = object.labels
  OBVIOUS
<1>3. files = Written(format, records, labels) /\ Rows(records) /\ labels \in Labels
  BY <1>1, <1>2 DEF EInv, JobInv, ObjectsWritten, WrittenAs
<1>4. ASSUME Cardinality({MatchKey(r.name) : r \in ToSet(records)}) = Len(records), Len(files) <= MaxFiles,
             format = "coco" => \A r \in ToSet(records) : Stripped(r.name) = r.name
      PROVE  /\ Accepted(files)
             /\ \A r \in ToSet(records) :
                  (\A a \in ToSet(r.annotations) : Holdable(a, r, format, labels))
                    => \E s \in Manifest(Entries(files)).samples : s.name = r.name /\ ReadAs(r, s, labels)
  <2>1. ReadAgain(files, records, Len(records), format, labels)
    BY <1>3, <1>4, WrittenReadsBack
  <2>2. Accepted(files) /\ Entries(files) = files
    BY <2>1 DEF ReadAgain
  <2>3. ASSUME NEW r \in ToSet(records), Held(r, format, labels)
        PROVE  \E s \in Manifest(files).samples : s.name = r.name /\ ReadAs(r, s, labels)
    <3>1. PICK S : records \in Seq(S)
      BY <1>3 DEF Rows
    <3>2. DOMAIN records = 1..Len(records)
      BY <3>1, LenProperties
    <3>3. PICK i \in 1..Len(records) : r = records[i]
      BY <3>2 DEF ToSet
    <3> QED BY <2>1, <2>3, <3>3 DEF ReadAgain
  <2> QED BY <2>2, <2>3 DEF Held
<1> QED BY <1>1, <1>2, <1>4 DEF ReadsBack

LEMMA EInvTyped == EInv => TypeOK
<1> SUFFICES ASSUME EInv PROVE TypeOK
  OBVIOUS
<1>1. ASSUME NEW v \in DOMAIN versions
      PROVE  /\ versions[v].archive \in Archives /\ versions[v].labels \in Labels
             /\ \A s \in versions[v].samples : s.subset \in {"none", "train", "val", "test"}
  BY DEF EInv, VersionsTyped, IsVersion, IsRow, OfImage, SubsetNames
<1>2. /\ DOMAIN given \subseteq 0..MaxClass /\ overlap \in BOOLEAN
      /\ job.status \in {"absent", "queued", "succeeded", "cancelled"}
      /\ job.result.format \in Keys \cup {"none"}
  BY DEF EInv, GivenTyped, JobInv, JobTyped
<1>3. ASSUME NEW w \in Workers
      PROVE  /\ worker[w].pc \in {"idle", "begin", "collect", "package", "commit"}
             /\ worker[w].seen.status \in {"absent", "queued", "succeeded"}
             /\ worker[w].pc \in {"collect", "package", "commit"} => worker[w].format \in Keys
             /\ worker[w].labels \in Labels
  BY DEF EInv, JobInv, WorkersInv, IsTask, Running
<1> QED BY <1>1, <1>2, <1>3 DEF TypeOK

-----------------------------------------------------------------------------
\* Every version is of an archive that was uploaded, with labels and subsets of
\* the kinds that exist, and an execution writes a format that exists.
THEOREM ExportTyped == Spec => []TypeOK
<1>1. Spec => []EInv
  BY EInvInit, EInvStep, PTL DEF Spec
<1> QED BY <1>1, EInvTyped, PTL

\* The result of an export that has succeeded names an object that is there, however
\* many executions have overlapped; and unless two did, it describes that object,
\* whatever crashed, was edited or was cancelled meanwhile, and every format's archive
\* has one image for every sample counted.
THEOREM ResultDescribes == Spec => []ResultDescribesObject
<1>1. Spec => []EInv
  BY EInvInit, EInvStep, PTL DEF Spec
<1>2. EInv => ResultDescribesObject
  BY DEF EInv, JobInv
<1> QED BY <1>1, <1>2, PTL

\* A YOLO or COCO export is an archive that can be imported again, and gives every
\* sample its annotations in the same place and under the labels of the export,
\* whatever archives the Parts came from and whatever users edited, unless it has too
\* many files or two samples of one key, or names a path that begins with a dot in a
\* COCO document.
THEOREM ExportsReadBack == Spec => []ExportReadsBack
<1>1. Spec => []EInv
  BY EInvInit, EInvStep, PTL DEF Spec
<1> QED BY <1>1, EInvReadsBack, PTL

=============================================================================
