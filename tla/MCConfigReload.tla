--------------------------- MODULE MCConfigReload ---------------------------
(***************************************************************************)
(* Contents of every kind, two of those that are plain.                    *)
(***************************************************************************)
EXTENDS ConfigReload

MCPlain == {"a", "b"}

MCSecretful == {"s"}

MCInvalid == {"typo"}

MCUnparsable == {"garbage"}

MCMisshapen == {"list"}

MCSecrets == {"old", "new"}
=============================================================================
