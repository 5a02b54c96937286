---------------------------- MODULE BatchedImport ----------------------------
(***************************************************************************)
(* What an import promises to those who look at a dataset version while    *)
(* it runs and after: the samples of the manifest appear in order and      *)
(* never disappear, those that are counted together with their index rows, *)
(* and the version is published once, when all of them are there.  Jobs,   *)
(* deliveries, crashes and competing attempts do not show.                 *)
(***************************************************************************)
EXTENDS Integers, Sequences

CONSTANTS
  Manifest,  \* the samples of the archive, in parser order
  Counted    \* the samples that get index rows

VARIABLES
  stored,     \* samples that are committed
  indexed,    \* samples that statistics, filters and exports count
  published   \* is the version ready?

view == <<stored, indexed, published>>

\* The first k samples of the manifest.
Leading(k) == {Manifest[i] : i \in 1..k}

Init == stored = {} /\ indexed = {} /\ published = FALSE

\* The next samples become visible, with their index rows.
Commit == /\ \E k, m \in 0..Len(Manifest) : /\ k < m
                                            /\ stored = Leading(k)
                                            /\ stored' = Leading(m)
          /\ indexed' = stored' \cap Counted
          /\ UNCHANGED published

\* All samples that count are there; the others may only appear now.
Publish == /\ ~published
           /\ stored' = Leading(Len(Manifest))
           /\ stored' \cap Counted \subseteq stored
           /\ published' = TRUE
           /\ UNCHANGED indexed

Next == Commit \/ Publish

Spec == Init /\ [][Next]_view

=============================================================================
