------------------------------ MODULE MCImport ------------------------------
(* Instances of ImportPipeline for TLC.                                     *)
EXTENDS ImportPipeline, TLC

CONSTANTS a, b, c

\* Three images, of which the first is listed again at the end.  With a commit
\* after every second one the batch of the third never ends.
RepeatedImage == <<a, b, c, a>>
TwoImages == <<a, b>>

\* One object per image, and one annotation file shared by all (COCO).
SharedAnnotation == [s \in {a, b, c} |-> {<<"image", s>>, <<"annotation">>}]

Symmetry == Permutations(Workers) \cup Permutations(Clients)
            \cup Permutations(ImportJobs)

=============================================================================
