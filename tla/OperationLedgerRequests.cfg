\* Four requests: one after the other, or two overlap on whatever copies.
CONSTANTS
  Requests = {r1, r2}
  Types <- SomeTypes
  EntryType <- SomeEntryTypes
  NotPosted = NotPosted
  Amounts = {0, 1, 2}
  MaxBegun = 4
SPECIFICATION Spec
INVARIANTS PostedOnce EntryOfRecord
PROPERTIES KeepsBooks
SYMMETRY Interchangeable
