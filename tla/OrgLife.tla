------------------------------- MODULE OrgLife -------------------------------
(***************************************************************************)
(* What hosted requests see of the orgs that have one slug, one after the  *)
(* other: the row, and the dictionary entry of each pod, which may be of   *)
(* any org of that slug there is or was, for a pod only learns of what it  *)
(* does itself.  OrgRegistry implements it for every slug.                 *)
(*                                                                         *)
(* An org stands for its API key, of which no two are equal.               *)
(***************************************************************************)
CONSTANTS
  Pods,
  Orgs,   \* the orgs that may be created
  NoOrg   \* none of them, not in Orgs

VARIABLES
  row,     \* the org in the orgs row of the slug
  served,  \* per pod, the org in its dictionary
  gone     \* the orgs that were deleted

vars == <<row, served, gone>>

Init ==
  /\ row = NoOrg
  /\ served = [q \in Pods |-> NoOrg]
  /\ gone = {}

\* The row of an org that never had one is inserted.
Appear(k) ==
  /\ row = NoOrg
  /\ k \notin gone
  /\ row' = k
  /\ UNCHANGED <<served, gone>>

Disappear ==
  /\ row # NoOrg
  /\ row' = NoOrg
  /\ gone' = gone \cup {row}
  /\ UNCHANGED served

\* A pod puts an org into its dictionary, perhaps a deleted one.
Take(q, k) ==
  /\ k \in gone \cup {row}
  /\ served' = [served EXCEPT ![q] = k]
  /\ UNCHANGED <<row, gone>>

\* A pod drops the org of the slug: it has deleted one, or it ends.
Drop(q) ==
  /\ served' = [served EXCEPT ![q] = NoOrg]
  /\ UNCHANGED <<row, gone>>

Next ==
  \/ \E k \in Orgs : Appear(k)
  \/ Disappear
  \/ \E q \in Pods : Drop(q) \/ \E k \in Orgs : Take(q, k)

Spec == Init /\ [][Next]_vars
=============================================================================
