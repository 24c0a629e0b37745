SPECIFICATION Spec
CHECK_DEADLOCK FALSE
CONSTANTS
  a = a
  b = b
  exact = exact
  wild = wild
  topic = topic
  s1 = s1
  s2 = s2
  u1 = u1
  p1 = p1
  None = None
  Reader = Reader
  Conns <- MCConns
  Persistent <- MCPersistent
  WillTopic <- MCWillTopic
  Topics = {topic}
  Filters <- MCFilters
  Wild = {wild}
  Matches <- MCMatches
  Confirmed = {wild}
  Tasks <- MCTasks
  TaskKind <- MCTaskKind
  TaskConn <- MCTaskConn
  TaskFilter <- MCTaskFilter
  PubTopic <- MCPubTopic
  Pubs = {p1}
INVARIANTS
  NoFreedConn
