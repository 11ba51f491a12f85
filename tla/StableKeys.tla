----------------------------- MODULE StableKeys -----------------------------
(***************************************************************************)
(* What hosted mode promises about the keys of one org and issuer: clients *)
(* only ever see one key set, whichever pod answers and whatever restarts, *)
(* unless two requests once created keys at the same time.                 *)
(***************************************************************************)
CONSTANT KeySets

VARIABLES
  shown,     \* the key sets behind the tokens and JWKS responses so far
  contested  \* whether two requests have created keys at the same time

vars == <<shown, contested>>

Init ==
  /\ shown = {}
  /\ contested = FALSE

Show(k) ==
  /\ shown \subseteq {k} \/ contested
  /\ shown' = shown \cup {k}
  /\ UNCHANGED contested

Contest ==
  /\ contested' = TRUE
  /\ UNCHANGED shown

Next == Contest \/ \E k \in KeySets : Show(k)

Spec == Init /\ [][Next]_vars
=============================================================================
