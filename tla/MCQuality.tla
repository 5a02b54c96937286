------------------------------ MODULE MCQuality ------------------------------
(* QualityCheck for TLC.                                                    *)
EXTENDS QualityCheck, TLC

CONSTANT Lasting  \* samples that are never deleted

Symmetry == Permutations(Workers) \cup Permutations(Checks)
LastingStay == Lasting \subseteq live

=============================================================================
