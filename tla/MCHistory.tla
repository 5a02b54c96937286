------------------------------ MODULE MCHistory ------------------------------
(* OperationHistory with small sets for TLC.                                *)
EXTENDS OperationHistory, TLC

Symmetry == Permutations(Clients) \cup Permutations(Samples)

\* The properties speak of the time before the first conflict only, and once
\* the last operation is recorded requests come one at a time.
Bounded ==
  /\ disjoint
  /\ Recorded = Ops =>
       \A c, d \in Clients : request[c].pc # "idle" /\ request[d].pc # "idle" => c = d

=============================================================================
