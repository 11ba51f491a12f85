SPECIFICATION FairSpec
CONSTANTS
  Issuers <- MCIssuers
  Names <- MCNames
  EcName <- MCEcName
  Users <- MCUsers
  ServicePrincipals <- MCServicePrincipals
  Tenants <- MCTenants
  Auds <- MCAuds
  Absent = "absent"
  Issuer = "i"
  Requests = {"r1"}
  Hooks = {"h1", "h2"}
  Configs <- StrictConfigs
  Jobs <- RequestJobs
  Faults <- MCFaults
  Start = 1
  MaxTime = 1
  MaxTokens = 2
  MaxRotations = 0
  MaxEpoch = 0
INVARIANTS
  CorruptionMatchesFaults
  ModePartsWereInForce
  LateFailuresAreOfTwoKinds
PROPERTIES
  HangsOnlyOutside
CHECK_DEADLOCK FALSE
