\* The scheduled job alone: max_instances=1 keeps its runs apart.
CONSTANTS
  o1 = o1
  Orders = {o1, o2}
  Jobs = {job}
  Triggers = {}
  ProductRuns = {}
  NoOne = NoOne
  MaxTime = 2
  MaxFaults = 1
  FirstWindow = 0
  Unsound <- FirstUnsound
  TotalAt <- Alternating
  FeeTimes <- EvenTimes
SPECIFICATION FairSpec
INVARIANTS OnlyUnfetchedIsLost OneRowPerOrder LedgerExact
PROPERTIES NoRegress EventuallySynced
