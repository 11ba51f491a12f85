SPECIFICATION Spec
CONSTANTS
  p1 = p1
  p2 = p2
  o1 = o1
  o2 = o2
  o3 = o3
  Pods <- MCPods
  Slugs = {"acme"}
  Ops <- MCOps
  MaxKeys = 2
SYMMETRY Sym
INVARIANTS
  ToldKeysStayGood
  ToldKeysWork
  DeletedOrgsAreGone
PROPERTIES
  ImplementsOrgLife
