CONSTANTS
  Schedules = {s1, s2}
  Intervals = {1, 2}
  Configurations = {c1, c2}
  MaxChunks = 2
  MaxChanges = 2
  MaxSeconds = 1
  MaxRunning = 1
  MaxFailures = 1
  NoSchedule = NoSchedule
  AccessTokens = {t1}
  AuthRequests = {q1, q2}
  TokenTTL = 2
  MaxQuery = 1
  MaxTicks = 5
  MaxRevisions = 2
  NoVerdict = NoVerdict
  Ranges = {1, 2}
  RangeIps <- MCRangeIps
  Devices = {1, 2}
  DeviceIps <- MCDeviceIps
  Homes <- MCHomes
  Countries = {"X", "Y"}
  MaxEdits = 3
  MaxClock = 3
  NoOverride = NoOverride
  Selectable = {1, 2, 3, 4}
  NetworkOf <- MCNetworkOf
  CityOf <- MCCityOf
  WithIPv6 = {2, 3}
  IndexOf <- MCIndexOf
  UserTagsOf <- MCUserTagsOf
  AddressesOf <- MCAddressesOf
  FixedWords <- MCFixedWords
  GatheredFrom = {1}
  Containing <- MCContaining
  Places = {1, 2, 3, 4, 5, 6}
  PlainMatch <- MCPlainMatch
  Magic <- MCMagic
  AsIndexed = {4}
  Continents = {1, 2}
  WeightOf <- MCWeightOf
  EarlierIPs <- MCEarlierIPs
  MaxTests = 3
  MaxPlaces = 2
  Limits = {1, 2, 3}
  ReadyLists <- MCReadyLists
  Unready = {1}
  Providers <- MCProviders
  Fastly = "fastly"
  Reports <- MCReports
  Cities = {1, 2}
  NameOf <- MCNameOf
  CountryOf <- MCCountryOf
  Normal <- MCNormal
  BlockedAsns = {2}
  GeoNodes = {"n1"}
  MaxMishaps = 1
  Unknown = Unknown
  WorkerCount = 2
  MaxForks = 4
  ClusterProbes = {p1}
  SigtermDelay = 5
  DrainLead = 2
  MaxHandshake = 3
  MaxBefore = 2
  NoTime = NoTime
  Nodes = {"n1", "n2"}
  Probes = {1, 2, 3}
  Home <- MCHome
  Ip <- MCIp
  Group <- MCGroup
  AltIps <- MCAltIps
  Key <- MCKey
  IpRanges = {"r"}
  GroupLimit = 1
  MaxUpdates = 1
  Nothing = Nothing
  CreationTimes = {0, 11}
  TestTimeout = 6
  StableAge = 36
  Minute = 12
  MaxReports = 1
  MaxCleanupFailures = 2
  EndOfTime = 36
  NoReply = NoReply
  Relays = {4}
  Clouds = {"aws", "gcp"}
  CloudRanges <- MCCloudRanges
  BucketOf <- MCBucketOf
  Starters = {1, 2}
  Machines = {1, 2}
  OwnAddress <- MCOwnAddress
  Claims <- MCClaims
  MaxDeaths = 1
SPECIFICATION ProcessFairSpec
INVARIANTS
  NoTimerIsLost
  CacheFollowsTheTable
  LimitIsMet
  ProbesAreSpread
  PlacesAreRight
  SurplusIsRight
  EarlierProbesAreSeen
  OneWorkerSyncs
  ImmutableAnswersAreFinal
  TagsFollowTheAddresses
PROPERTIES
  TimersFollowTheTable
  AnswersAreRecent
  LimitsHoldInTheEnd
  ProbesLeaveInTime
CHECK_DEADLOCK FALSE
