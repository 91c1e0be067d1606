\* Two pages of two, four orders: the last page is full, partial or missing.
CONSTANTS
  Ids = {a, b, c, d}
  PageSize = 2
  MaxPages = 2
SPECIFICATION PagesSpec
INVARIANTS NoOrderTwice AllListedReturned
PROPERTIES FetchEnds
