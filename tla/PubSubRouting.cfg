SPECIFICATION ServicesSpec
CONSTANTS
  Parts = {"pubsub"}
  c1 = c1
  c2 = c2
  m1 = m1
  m2 = m2
  m3 = m3
  None = None
  Channels = {c1, c2}
  Messages = {m1, m2, m3}
  ChannelOf <- MCChannelOf
  Raises = {TRUE, FALSE}
  MaxSubscribes = 3
  Deployments <- MCDeployments
  BatchSize = 2
  MaxBuffer = 2
  Requests <- MCRequests
  PageSize = 2
  MaxOffset = 4
  Symbols = {"a", "b"}
  Callbacks <- MCCallbacks
  MaxSequence = 3
  MaxArrivals = 3
  MaxSequenceGap = 0
  Order <- MCOrder
  MaxRestarts = 1
  MaxFaults = 1
  Sockets = {"binance", "bybit"}
  MaxReconnects = 2
  Breaks = 4
  Sources = {"a", "b", "c"}
  Quotes = {100, 104, 125}
  SourceWeights = {1, 3}
  OutlierBps = 10
  WindowSize = 4
  MinPoints = 2
  GapLimit = 2
  Rate = 12
  Burst = 4
  MaxSeconds = 2
  MaxResponses = 7
  MaxRequests = 1
  Readings <- MCReadings
  SyncSamples = 2
  MaxDrift = 1000
  MaxReadings = 6
  AlertLimit = 3
  AlertSlots = 4
  AlertKeys = {"k1"}
  Cooldown = 2
  Minute = 2
  Monitored = {"feed"}
  FailureThreshold = 2
  RecoveryTimeout = 1
  SurvivalWindow = 4
  MinSurvival = 3
  Drawdowns = {3, 12, 20}
  Paces = {5, 10}
  Strategies = {"s1", "s2", "s3", "s4"}
  Scores = {1, 5}
  PortfolioValues = {10, 1000}
  MaxWatchTime = 5
  MaxAlerts = 7
  MaxChecks = 6
  MaxAssessed = 3
  MaxAllocated = 2
INVARIANTS RoutedByChannel
CHECK_DEADLOCK FALSE
