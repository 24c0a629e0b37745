SPECIFICATION BrokerSpec
CHECK_DEADLOCK FALSE
CONSTANTS
  Radix = 2
  PacketSizes = {0, 5}
  MaxPackets = 2
  MaxNoData = 1
  Letters = {"a"}
  MaxTopic = 4
  MaxFilter = 4
  RetainTasks = {"r1", "r2"}
  RTopics = {"a", "b"}
  MaxStored = 2
  MaxTaken = 1
  MaxKills = 1
  Handlers = {"h1"}
  ReconnectEvents = {"e1", "e2"}
  MaxBreaks = 2
  MaxListed = 2
  DomainNames = {"d1", "d2"}
  Databases = {"u1", "u2"}
  Clients = {"c1", "c2"}
  Claims <- MCClaims
  Accepts <- MCAccepts
  MaxReloads = 1
  NoDomain = "none"
  NoDatabase = "nodb"
  Dangling = "freed"
  Peers = {"p1", "p2"}
  ClientIds = {"i"}
  ClientOf <- MCClientOf
  Retries = 1
  ConnLimit = 2
  NoPeer = "none"
  Messages = {"m1", "m2", "m3"}
  SizeOf <- MCSizeOf
  Offline = {"m3"}
  Quota = 3
  Arrivals = {"a1", "a2"}
  Stoppers = {"s1", "s2"}
  Unlockers = {"v1", "v2"}
  NoAccept = "none"
INVARIANTS
  BrokerTypeOK
  PacketsReadWhole
  FiltersAgree
  RetainedIsLast
  RefsAreHeld
  HandlersAreCalled
  HandedToItsOwn
  EntryIsAlive
  CounterFollowsDisk
  ListenerIsAlive
  ShutdownReachesAll
  WaiterIsWoken
