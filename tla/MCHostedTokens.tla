--------------------------- MODULE MCHostedTokens ---------------------------
(***************************************************************************)
(* One slug that two orgs have one after the other, and two client         *)
(* requests at a time.                                                     *)
(***************************************************************************)
EXTENDS HostedTokens, TLC

CONSTANTS p1, r1, r2, a1, a2

MCPods == {p1}

MCOrgs == {a1, a2}

MCRequests == {r1, r2}

Sym == Permutations(MCOrgs) \cup Permutations(MCRequests)
=============================================================================
