\* Two requests and four runs or user operations: enough for a product to be synchronised,
\* deleted, created anew and refused.
CONSTANTS
  Requests = {r1, r2}
  a = a
  b = b
  c = c
  alice = alice
  bob = bob
  x = x
  y = y
  sku = sku
  v = v
  w = w
  Owner <- OwnerOf
  Ids = {x, y}
  Skus = {sku}
  NoSku = NoSku
  Values = {v, w}
  Refused = Refused
  Feeds <- SomeFeeds
  MaxBegun = 4
SYMMETRY Interchangeable
SPECIFICATION Spec
INVARIANTS CopiesBoundedByOverlap SharedMaster ClashOnlyBy
PROPERTIES SuccessHoldsAll
