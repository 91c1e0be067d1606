\* No scan, one at a time, or two that overlap; a third follows.
CONSTANTS
  MaxRules = 2
  Scans = {s1, s2}
  Handlers = {h1}
  MaxScans = 3
  MaxHandled = 1
  Nobody = Nobody
SPECIFICATION Spec
INVARIANTS DuplicatesBoundedByScans LaterAlertsAreNew
PROPERTIES ScanAlertsAll
SYMMETRY Interchangeable
