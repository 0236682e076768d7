SPECIFICATION BusySpec
CONSTANTS
  Symbols = {s1, s2}
  Idle = Idle
  Modes = {"TESTNET", "LIVE"}
  Drawdowns = {0, 1, 2, 3}
  Dailies <- AnyResult
  Results = {"fill", "pending", "refuse"}
  MinTicks = 2
  MaxFailures = 2
  WarmupMax = 3
  Reliable = 2
  MaxOrders = 5
INVARIANTS OneLateFill
PROPERTIES BreachHalts WarmupEnds
CHECK_DEADLOCK FALSE
