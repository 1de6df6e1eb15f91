SPECIFICATION Spec
CONSTANTS
  f1 = f1
  f2 = f2
  cli = cli
  mcp = mcp
  NoProc = NoProc
  Files = {f1, f2}
  JoinFiles = {}
  Procs = {cli}
  Servers = {}
  CliOptions <- CocoindexOptions
  Publishes <- NoContracts
  Unlisted = {}
  MaxRev = 3
  MaxConf = 2
  MaxRules = 1
INVARIANTS
  ChunksMatchHash
  NoGhostChunks
