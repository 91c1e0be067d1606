\* A POST /sync/trigger for the store overlaps with the scheduled job.
CONSTANTS
  o1 = o1
  Orders = {o1}
  Jobs = {job}
  Triggers = {trigger}
  ProductRuns = {}
  NoOne = NoOne
  MaxTime = 2
  MaxFaults = 0
  FirstWindow = 0
  Unsound = {}
  TotalAt <- Alternating
  FeeTimes <- EvenTimes
SPECIFICATION Spec
INVARIANTS LedgerFollowsOrder DuplicatesBoundedByRuns
