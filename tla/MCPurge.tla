------------------------------- MODULE MCPurge -------------------------------
(* DatasetPurge with small sets of model values.                            *)
EXTENDS DatasetPurge, TLC

\* Nothing but their identity distinguishes slots, requests, purges or objects.
Symmetry == Permutations(Workers) \cup Permutations(Clients)
              \cup Permutations(Purges) \cup Permutations(Stored)

=============================================================================
