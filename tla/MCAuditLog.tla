----------------------------- MODULE MCAuditLog -----------------------------
(***************************************************************************)
(* Pages of two events, five ids: a full page, a page that is just filled, *)
(* and a last one with a single event.                                     *)
(***************************************************************************)
EXTENDS AuditLog

MCLimit == 2

MCMaxEvents == 5
=============================================================================
