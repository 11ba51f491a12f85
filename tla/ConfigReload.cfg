SPECIFICATION CRFairSpec
CONSTANTS
  Plain <- MCPlain
  Secretful <- MCSecretful
  Invalid <- MCInvalid
  Unparsable <- MCUnparsable
  Misshapen <- MCMisshapen
  Secrets <- MCSecrets
INVARIANTS
  SettledServesTheFile
PROPERTIES
  WatchedEditsAreServed
  WatcherOutlivesBadConfigs
