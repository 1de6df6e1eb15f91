SPECIFICATION FairSpec
CONSTANTS
  Root = root
  Services = {orders, billing}
  Microservices = {orders, billing}
  Gradle = {orders}
  Dbs = {root, orders}
  Openers = {cli, server}
  Server = server
  NoOpener = nobody
  orders = orders
  billing = billing
  Rows <- MCRows
  Initial <- MCInitial
  MaxOpens = 2
  Order <- MCOrder
  MaxName <- MCMaxName
  MaxCalls = 1
INVARIANTS
  AcceptedMeansComplete
  OnlyALockFailsACall
  FederationTellsTheTruth
  NamesAsRecentAsReindex
PROPERTIES
  EverybodyEnds
  
CHECK_DEADLOCK FALSE
