-------------------------- MODULE SnapshotRegistry --------------------------
(***************************************************************************)
(* What the hub's fleet tables promise: for every source what is shown is  *)
(* one snapshot that this very source took, whole -- never a mixture of    *)
(* two, never part of one, never another source's -- and a source that was *)
(* withdrawn is heard no more.                                             *)
(***************************************************************************)
CONSTANTS
  Source,   \* who takes snapshots
  Nothing   \* what is shown of a source before its first snapshot

VARIABLES
  taken,     \* taken[s]: the snapshot s has last taken
  shown,     \* shown[s]: what is shown of s
  withdrawn  \* the sources that are to be heard no more

Init ==
  /\ shown = [s \in Source |-> Nothing]
  /\ withdrawn = {}

\* One source's snapshot replaces the one before it, or nothing is shown anew;
\* a source may look again, and be withdrawn, at any time.
Next ==
  /\ \/ UNCHANGED shown
     \/ \E s \in Source \ withdrawn: shown' = [shown EXCEPT ![s] = taken[s]]
  /\ withdrawn \subseteq withdrawn'

Spec == Init /\ [][Next]_<<taken, shown, withdrawn>>
=============================================================================
