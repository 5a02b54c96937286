------------------------------ MODULE MCUploads ------------------------------
(* DatasetUploads for TLC.                                                  *)
EXTENDS DatasetUploads, TLC

Symmetry == Permutations(Clients) \cup Permutations(Workers) \cup Permutations(Uploads)

\* One upload is completed; the others compete for its number and its key.
Bounded == Cardinality({u \in Uploads : upload[u].status \notin {"absent", "created"}}) <= 1

=============================================================================
