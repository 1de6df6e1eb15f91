SPECIFICATION Exploration
CONSTANTS
  MaxDepth = 3
  PathLimit = 2
  FlowDepth = 3
  FlowLimit = 4
  HintMatches <- MCHintMatches
  Routes <- MCRoutes
  Workspaces <- MCWorkspaces
  Inventories <- MCInventories
  Journeys <- MCJourneys
  Triggers <- MCTriggers
  Exported <- MCExported
  MaxModuleDepth = 2
  TestNames = {"test", "tests"}
  MockNames = {"mocks"}
  ArchetypeNames = {"archteype"}
  MaxRootDepth = 2
  Names <- MCNames
  Trees <- MCTrees
  Words <- MCWords
  MaxSegments = 3
  Values <- MCValues
  Configurations <- MCConfigurations
  GatewayRoutes <- MCGatewayRoutes
  Callers <- MCCallers
  Queries <- MCQueries
  Drawings <- MCDrawings
  Margin = 1
  MaxPasses = 1000
  MinRefined = 2
  DrawnNodes <- MCDrawnNodes
  DrawnLinks <- MCDrawnLinks
  DrawnKind <- MCDrawnKind
  DrawnKey <- MCDrawnKey
  DrawnRank <- MCDrawnRank
  DrawnResources <- MCDrawnResources
  Texts <- MCTexts
  Searches <- MCSearches
  Fragments <- MCFragments
  Layouts = {"forceatlas2", "noverlap", "forceatlas2-noverlap"}
  FirstLayout = "forceatlas2-noverlap"
  MaxSimplePathDepth = 4
  MaxSimplePaths = 2
  MaxExplorations = 12
  Filters = {"rest"}
  ChosenPresets = {"all", "kafka", "selection"}
  MaxHistory = 1
  MaxRequests = 3
  MaxExploredRequests = 1
INVARIANTS
  RequestsAreRouted
  GraphIsMeant
  AuditIsMeant
  ViewsAgree
  CyclesAreMutual
  TruncationIsTold
  FilesAreAttributed
  ConfigurationIsUnderstood
  ExportsAgree
  BoxesAreApart
  SearchIsHonest
  RefreshRestores
  PageTellsTheTruth
CHECK_DEADLOCK FALSE
