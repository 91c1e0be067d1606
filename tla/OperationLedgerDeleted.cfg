\* Two updates give a record its first amount, and it is deleted later.
CONSTANTS
  Requests = {r1, r2}
  Types <- TwoTypes
  EntryType <- TwoEntryTypes
  NotPosted = NotPosted
  Amounts = {0, 1, 2}
  MaxBegun = 4
SPECIFICATION Spec
INVARIANTS DeletedLeavesNothing
SYMMETRY Interchangeable
