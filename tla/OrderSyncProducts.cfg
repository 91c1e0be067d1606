\* A product sync of the same store overlaps with the order sync of POST /sync/trigger.
CONSTANTS
  o1 = o1
  Orders = {o1}
  Jobs = {}
  Triggers = {trigger}
  ProductRuns = {product}
  NoOne = NoOne
  MaxTime = 1
  MaxFaults = 0
  FirstWindow = 0
  Unsound = {}
  TotalAt <- Alternating
  FeeTimes <- EvenTimes
SPECIFICATION Spec
INVARIANTS StateHasLog
