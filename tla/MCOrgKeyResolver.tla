-------------------------- MODULE MCOrgKeyResolver --------------------------
(***************************************************************************)
(* Two pods, with two requests each: those of a pod share its cache, all   *)
(* share the row.                                                          *)
(***************************************************************************)
EXTENDS OrgKeyResolver, TLC

CONSTANTS p1, p2, t1, t2, t3, t4

MCPods == {p1, p2}

MCTasks == {t1, t2, t3, t4}

MCPodOf == (t1 :> p1) @@ (t2 :> p1) @@ (t3 :> p2) @@ (t4 :> p2)
=============================================================================
