SPECIFICATION DeskSpec
CONSTANTS
  Parts = {"portfolio", "engine", "processors", "routing", "bridge", "validator"}
  s1 = s1
  s2 = s2
  Symbols = {s1}
  Prices = {40, 48}
  Quantities = {1, 2}
  InitialCapital = 30
  MaxLots = 2
  MaxFills = 4
  MaxDays = 2
  Engines <- MCEngines
  Markets = {s1, s2}
  Depths = {0, 1, 5}
  Days <- MCDays
  Intents <- MCIntents
  MaxOrderSize = 4
  RatePart = 5
  RecursionLimit = 3
  Exchanges <- MCExchanges
  MaxRoutes = 2
  MostRouted = 3
  HistoryLimit = 2
  MaxChanges = 2
  Bridges <- MCBridges
  Requests = {"r1", "r2"}
  Lots <- MCLots
  PositionLimit = 3
  AuditLimit = 2
  OrderSizes = {1, 2, 3}
  LeastSize = 2
  MostSize = 4
  HoldingLimit = 5
  PerSecond = 2
  PerMinute = 3
  SecondTicks = 2
  MinuteTicks = 4
  MaxValidated = 4
  MaxValidatorTime = 5
INVARIANTS AccountsBalance FillsAreHeld OrdersAreSentOnce
PROPERTIES DeskProgress
CHECK_DEADLOCK FALSE
