SPECIFICATION FairSpec
CONSTANTS
  o1 = o1
  o2 = o2
  Orders = {o1, o2}
  Side <- MCSide
  Kind <- MCKind
  Lots = 2
  Polls = 2
  Online = {TRUE, FALSE}
  MaxLinks = 2
INVARIANTS NeverAhead OneVerdict PositionIsReported
PROPERTIES SubmitReturns
CHECK_DEADLOCK FALSE
