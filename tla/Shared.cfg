\* Two callers and three keys at a cache of two entries; three clients at a limiter that
\* tracks two; calls of up to three requests, two at a time, two attempts and two
\* redirects each;
\* two processes that start two bundles three times, one of them with an entry that is refused;
\* 10227 deployments, each setting from any layer that can give it;
\* three test files whose scripts do two things each; three saves while a session reruns.
CONSTANTS
  Callers = {a, b}
  Keys = {k1, k2, k3}
  Costs = {1, 2}
  Ttls = {0, 1}
  MaxEntries = 2
  MaxBytes = 3
  MaxTicks = 4
  MaxTime = 1
  Clients = {c1, c2, c3}
  Budget = 1
  Window = 3
  MaxBuckets = 2
  PurgeThreshold = 1
  PurgeInterval = 1
  MaxRefusals = 1
  MaxClock = 6
  Home = Home
  Away = Away
  Inside = Inside
  LocalLiteral = LocalLiteral
  OtherScheme = OtherScheme
  Unlisted = Unlisted
  MaxHandles = 3
  MaxConcurrent = 2
  MaxPerRequest = 3
  MaxRetries = 2
  MaxRedirects = 2
  MaxCalls = 2
  Starts = {p1, p2}
  Builds = {"good", "odd"}
  ArchiveOf <- MCArchiveOf
  MaxLaunches = 3
  Deployments <- MCDeployments
  Folders <- MCFolders
  Files <- MCFiles
  Links <- MCLinks
  Cwd <- MCCwd
  BundleRoot <- MCBundleRoot
  Readable <- MCOpenFolders
  Writable <- MCOpenFolders
  BuiltWith = {"tls", "openapi", "swagger"}
  MaxWorkers = 4
  MaxConnections = 4
  Unparseable = Unparseable
  TestFiles <- MCTestFiles
  MaxDeeds = 2
  Setups <- MCSetups
  Existing <- MCExisting
  Savable <- MCSavable
  MaxSaves = 3
  MaxReruns = 4
SPECIFICATION SharedSpec
SYMMETRY Symmetry
CHECK_DEADLOCK FALSE
INVARIANTS
  CacheSound
  LimitsHold
  CallsStayInBounds
  BundlesAreWhole
  DeploymentsHold
  TestsStandAlone
  SavesAreRun
PROPERTIES
  ExpiredGoFirst
