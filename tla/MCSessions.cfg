SPECIFICATION Spec
CHECK_DEADLOCK FALSE
CONSTANTS
  c1 = c1
  c2 = c2
  client = client
  exact = exact
  wild = wild
  None = None
  Conns = {c1, c2}
  Ids = {client}
  ClientOf <- MCClientOf
  Clean = {c2}
  Filters <- MCFilters
  Wants <- MCWants
  Wild = {wild}
INVARIANTS
  GrantedIsReachable
  ReturnsWithAll
  GrantedIsStored
  TablesAgree
