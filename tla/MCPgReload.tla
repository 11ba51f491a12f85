----------------------------- MODULE MCPgReload -----------------------------
(***************************************************************************)
(* Two reloads that can overlap.                                           *)
(***************************************************************************)
EXTENDS PgReload
CONSTANTS r1, r2
MCReloads == {r1, r2}
=============================================================================
