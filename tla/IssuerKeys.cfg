SPECIFICATION Spec
CONSTANTS
  Issuers <- MCIssuers
  Names <- MCNames
  EcName <- MCEcName
  MaxMinted = 15
  MaxTokens = 1
  MaxReplies = 2
  MaxEpoch = 1
INVARIANTS
  TypeOK
  AcceptedIffCurrent
  GatewayTrustsOnlyItsIssuer
  GatewayMissOrCorrect
  DebugDecodeIsExact
PROPERTIES
  OnlyOwnRotationRevokes
CHECK_DEADLOCK FALSE
