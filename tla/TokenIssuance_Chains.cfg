SPECIFICATION Spec
CONSTANTS
  Issuers <- MCIssuers
  Names <- MCNames
  EcName <- MCEcName
  Users <- MCUsers
  ServicePrincipals <- MCServicePrincipals
  Tenants <- MCTenants
  Auds <- MCAuds
  Absent = "absent"
  Issuer = "i"
  Requests = {"r1"}
  Hooks = {}
  Configs <- PlainConfigs
  Jobs <- ChainJobs
  Faults = {}
  Start = 1
  MaxTime = 3
  MaxTokens = 3
  MaxRotations = 1
  MaxEpoch = 1
INVARIANTS
  TypeOK
  NoLaundering
  SubjectsAreEarned
PROPERTIES
  DeadStaysDead
CHECK_DEADLOCK FALSE
