SPECIFICATION Spec
CONSTANTS
  f1 = f1
  f2 = f2
  cli = cli
  mcp = mcp
  NoProc = NoProc
  Files = {f1}
  JoinFiles = {}
  Procs = {cli, mcp}
  Servers = {mcp}
  CliOptions <- InventoryOptions
  Publishes <- NoContracts
  Unlisted = {}
  MaxRev = 2
  MaxConf = 1
  MaxRules = 1
PROPERTY
  ReindexRefreshesFindings
