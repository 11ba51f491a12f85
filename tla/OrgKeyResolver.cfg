SPECIFICATION Spec
CONSTANTS
  p1 = p1
  p2 = p2
  t1 = t1
  t2 = t2
  t3 = t3
  t4 = t4
  Pods <- MCPods
  Tasks <- MCTasks
  PodOf <- MCPodOf
  MaxMinted = 3
INVARIANTS
  TypeOK
  ShownWasStored
PROPERTIES
  SettledStays
  KeepsPromise
