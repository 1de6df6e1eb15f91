SPECIFICATION Spec
CONSTANTS
  f1 = f1
  f2 = f2
  cli = cli
  mcp = mcp
  NoProc = NoProc
  Files = {f1, f2}
  JoinFiles = {f2}
  Procs = {cli}
  Servers = {}
  CliOptions <- FindingsOptions
  Publishes <- PomNamesOthers
  Unlisted = {}
  MaxRev = 3
  MaxConf = 1
  MaxRules = 2
INVARIANTS
  TypeOK
  FindingsMatchHash
  ContractsMatchHash
  RulesSound
  StrategyUniform
  JoinSound
PROPERTY
  CommitPublishesListing
