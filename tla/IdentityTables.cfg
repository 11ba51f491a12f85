SPECIFICATION ITSpec
CONSTANTS
  n1 = n1
  n2 = n2
  n3 = n3
  Names <- MCNames
  Tids = {"t1", "t2"}
  Listing = {"t1"}
  Overriding = {"t2"}
  NoName = NoName
  Nobody = Nobody
  NoApp = NoApp
  MaxRows = 3
SYMMETRY Sym
INVARIANTS
  TablesAreExact
  NamesAreWorthTheSame
