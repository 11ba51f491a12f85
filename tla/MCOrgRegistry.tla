---------------------------- MODULE MCOrgRegistry ----------------------------
(***************************************************************************)
(* Two pods, and three admin requests in progress at a time.               *)
(***************************************************************************)
EXTENDS OrgRegistry, TLC

CONSTANTS p1, p2, o1, o2, o3

MCPods == {p1, p2}

MCOps == {o1, o2, o3}

Sym == Permutations(MCPods) \cup Permutations(MCOps)
=============================================================================
