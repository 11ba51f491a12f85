-------------------------- MODULE MCIdentityTables --------------------------
(***************************************************************************)
(* Two tenants, three names, and up to three rows of one store.            *)
(***************************************************************************)
EXTENDS IdentityTables, TLC

CONSTANTS n1, n2, n3

MCNames == {n1, n2, n3}

Sym == Permutations(MCNames)
=============================================================================
