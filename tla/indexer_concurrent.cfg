SPECIFICATION FairSpec
CONSTANTS
  f1 = f1
  f2 = f2
  cli = cli
  mcp = mcp
  NoProc = NoProc
  Files = {f1, f2}
  JoinFiles = {f1}
  Procs = {cli, mcp}
  Servers = {mcp}
  CliOptions <- MixedOptions
  Publishes <- PomNamesOthers
  Unlisted = {f2}
  MaxRev = 2
  MaxConf = 1
  MaxRules = 1
INVARIANTS
  HashMeansIndexed
  NoGhostRows
PROPERTIES
  OnlyCompletedRunsPublish
  ImplementsIndexSpec
  RunTerminates
  EventuallyFresh
