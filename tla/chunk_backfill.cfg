SPECIFICATION Spec
CONSTANTS
  f1 = f1
  f2 = f2
  cli = cli
  mcp = mcp
  NoProc = NoProc
  Files = {f1, f2}
  JoinFiles = {}
  Procs = {cli}
  Servers = {}
  CliOptions <- EitherEngine
  Publishes <- NoContracts
  Unlisted = {}
  MaxRev = 3
  MaxConf = 1
  MaxRules = 1
PROPERTY
  CocoindexIndexesEveryFile
