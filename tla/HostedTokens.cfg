SPECIFICATION Spec
CONSTANTS
  p1 = p1
  r1 = r1
  r2 = r2
  a1 = a1
  a2 = a2
  Pods <- MCPods
  Orgs <- MCOrgs
  NoOrg = NoOrg
  Requests <- MCRequests
  MaxSets = 3
  MaxTokens = 2
SYMMETRY Sym
INVARIANTS
  TypeOK
  TokensEndWithTheirOrg
  IdentitiesStayInTheirOrg
CHECK_DEADLOCK FALSE
