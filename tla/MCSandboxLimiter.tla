-------------------------- MODULE MCSandboxLimiter --------------------------
(***************************************************************************)
(* Two addresses, and a clock that runs for more than two windows.         *)
(***************************************************************************)
EXTENDS SandboxLimiter, TLC

CONSTANTS a1, a2

MCAddresses == {a1, a2}

Sym == Permutations(MCAddresses)
=============================================================================
