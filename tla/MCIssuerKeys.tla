---------------------------- MODULE MCIssuerKeys ----------------------------
(***************************************************************************)
(* Two issuer paths whose names differ by the suffix "-ec", the only pair  *)
(* of names whose kids can meet.                                           *)
(***************************************************************************)
EXTENDS IssuerKeys

MCIssuers == {"x", "x-ec"}

MCNames == {"x", "x-ec", "x-ec-ec"}

MCEcName == [i \in MCIssuers |-> IF i = "x" THEN "x-ec" ELSE "x-ec-ec"]
=============================================================================
