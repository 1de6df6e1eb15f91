SPECIFICATION Spec
CONSTANTS
  f1 = f1
  f2 = f2
  cli = cli
  mcp = mcp
  NoProc = NoProc
  Files = {f1, f2}
  JoinFiles = {f1}
  Procs = {cli}
  Servers = {}
  CliOptions <- ManualOptions
  Publishes <- PomNamesOthers
  Unlisted = {f2}
  MaxRev = 2
  MaxConf = 1
  MaxRules = 1
PROPERTY
  DeletedFilesArePurged
