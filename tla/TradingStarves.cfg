SPECIFICATION BusySpec
CONSTANTS
  Symbols = {s1, s2}
  Idle = Idle
  Modes = {"TESTNET"}
  Drawdowns = {0}
  Dailies <- NoResult
  Results = {"fill", "pending"}
  MinTicks = 2
  MaxFailures = 2
  WarmupMax = 1
  Reliable = 3
  MaxOrders = 5
PROPERTIES WarmupEnds
CHECK_DEADLOCK FALSE
