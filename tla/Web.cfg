\* One browser with a shared cache before a file that is deployed twice; every input
\* declaration; two visitors with two requests; two logins; paths of five characters;
\* headers of two members; values for a few schemas; schema definitions of two fields;
\* scripts of three calls, edited to scripts of two; graphs of four tables.
CONSTANTS
  Browsers = {b1}
  Offered <- MCOffered
  Sidecars = {"br"}
  Lens = {1, 2}
  CompressOn = TRUE
  MinSize = 2
  CorsOrigins = {"shop"}
  MaxDeploys = 2
  MaxSecond = 1
  MaxRequests = 2
  Visitors = {v1, v2}
  Exchanges = {e1, e2}
  LuaStates = {l1}
  MaxAge = 1
  CallerOpts <- MCOpts
  SecureDefault = TRUE
  MaxKeys = 1
  TrustRequestId = TRUE
  MaxClockS = 1
  MaxSent = 2
  MaxSaves = 1
  Logins = {g1, g2}
  MaxClockC = 3
  ClaimDates = {0, 1}
  Leeways = {0, 1}
  MaxAges = {1}
  ContentLists <- MCContentLists
  MaxText = 4
  MaxSegments = 3
  FileNames <- MCFileNames
  Root <- MCRoot
  Dirs <- MCDirs
  Files <- MCFiles
  Links <- MCLinks
  Compressed <- MCCompressed
  MaxLen = 3
  MaxMembers = 2
  TagNames <- MCTags
  Weightings <- MCWeightings
  MediaTypes <- MCMediaTypes
  MediaRanges <- MCMediaRanges
  Cases <- MCCases
  NestedCases <- MCNested
  SchemaNamed <- MCSchemas
  MaxNesting = 3
  MaxRuns = 2
  FieldOrder <- MCOrder
  FieldTables <- MCTables
  OptionTables <- MCOptions
  Extensions <- MCExtensions
  MaxDepth = 1
  MaxSchemas = 3
  IncludeUndocumented = FALSE
  Shapes <- MCShapes
  MaxRoutes = 2
  Endpoints <- MCEndpoints
  GroupPrefixes <- MCPrefixes
  Mounts <- MCMounts
  BaseMounts <- MCBase
  DocPaths <- MCDocPaths
  WebRequests <- MCRequests
  Numerals <- MCNumerals
  MaxCalls = 3
  MaxLater = 2
  MaxEdits = 1
  MaxAsks = 1
  Graphs <- MCGraphs
  MaxJsonDepth = 3
  MaxJsonNodes = 8
SPECIFICATION WebSpec
CONSTRAINT AnswersEndIt
CHECK_DEADLOCK FALSE
INVARIANTS
  CopiesAreOneFile
  CachesTellTheTruth
  DeclaredInputIsServed
  VisitorsAreKeptApart
  CredentialsHold
  PathsStayInside
  HeadersKeepTheirLaws
  ValidationHolds
  SchemasHold
  AppsServeTheirRoutes
  ValuesTravel
