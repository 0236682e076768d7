SPECIFICATION DecisionsSpec
CONSTANTS
  Parts = {"phases", "rates", "resolver", "limits", "sizes", "checks", "learner", "drift", "data",
           "models", "signals", "pipeline", "truth", "regimes", "drawdowns", "quality"}
  ClockLimit = 4
  LookBack = 3
  Floors <- MCFloors
  RateLimits <- MCRateLimits
  Decisions = 4
  HistoryCap = 2
  Drawdowns = {0, 9, 12}
  DailyPnls <- MCDailyPnls
  Leverages = {1, 11}
  MaxDrawdown = 10
  MaxDaily = 3
  MaxLeverage = 10
  MaxPosition = 20
  LossWarning = 3
  LossLimit = 5
  Sizes = {10, 40}
  Stakes = {1, 5, 20, 50}
  Vols = {10, 40, 80}
  Liquidity = {0, 5, 10}
  Regimes = {0, 10}
  MultiplierSteps = 12
  MinSamples = 3
  LearnLimit = 5
  Performances <- MCPerformances
  DriftLimit = 11
  DriftWindow = 4
  CusumLimit = 500
  DataLimit = 14
  LearningWindow = 5
  ValidationWindow = 4
  OosWindow = 2
  Registries <- MCRegistries
  MaxVersions = 3
  UpdatesPerCandidate = 2
  MinTrades = 2
  ValidationTrades = 3
  ReturnRows = 4
  Proposals <- MCProposals
  FeeRate = 4
  MinEdge = 1
  MinConfidence = 50
  MaxTurnover = 3
  TurnoverWindow = 1
  TurnoverCooldown = 1
  Errors <- MCErrors
  MinStable = 2
  VarianceWindow = 2
  Profits <- MCProfits
  MinReturns = 2
  MinKill = 2
  SharpeTrades = 2
  MaxTrades = 2
  MaxDip = 1
  MaxMissed = 3
  MaxAge = 1
  Factories <- MCFactories
  Books <- MCBooks
  MinHistory = 2
  CacheTtl = 2
  MaxBooks = 2
  MaxHeard = 4
  MaxPipelineTime = 3
  Edges <- MCEdges
  Pnls <- MCPnls
  MinFills = 1
  MinTruths = 1
  GapWindow = 2
  ScoreWindow = 2
  MaxFills = 2
  MaxReconciled = 2
  Ticks <- MCTicks
  Answers = {"normal", "high_volatility"}
  Volatilities = {3, 30, 50}
  DepthWindow = 3
  DepthReady = 2
  PressureReady = 2
  BaselineAt = 3
  ResilienceWindow = 3
  VolatilityReady = 2
  RegimeReady = 3
  Ttl = 2
  Day = 5
  Gaps = {1, 5}
  MaxTicks = 4
  Capital = 100
  Equities = {75, 89, 104}
  Changes <- MCChanges
  AccelerationWindow = 3
  SpikeWindow = 4
  SpikeSquare = 3
  DrawdownLimit = 2
  MaxUpdates = 4
  MaxReturns = 5
  Slippages = {0, 8, 30}
  Latencies = {1, 20}
  QualityHalf = 2
  MaxQuality = 6
INVARIANTS RiskIsGoverned LearningIsSound DecisionsAreDerived AssessmentsAreSound
PROPERTIES NothingIsUndone
CHECK_DEADLOCK FALSE
