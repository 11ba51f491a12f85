SPECIFICATION Spec
CONSTANTS
  a1 = a1
  a2 = a2
  Addresses <- MCAddresses
  Window = 3
  RateLimit = 2
  MaxTime = 6
  MaxAccepts = 4
SYMMETRY Sym
INVARIANTS
  TypeOK
  AtMostTheLimit
  RefusedExactlyWhenFull
