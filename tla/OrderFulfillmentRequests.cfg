\* Three requests of two users on two orders: one after the other, or two overlap.
CONSTANTS
  Orders = {o1, o2}
  Shipments = {s1, s2}
  Users = {u1, u2}
  Requests = {r1, r2}
  Statuses <- TestStatuses
  AllowedNext <- TestNext
  Moves <- TestMoves
  Costs = {low, high}
  NoCost = NoCost
  NoShipment = NoShipment
  MaxBegun = 3
SPECIFICATION Spec
INVARIANTS FreightBooked MirrorsShipment ContextOfOrder OneFreightPerUser
PROPERTIES TerminalKeptInTurn
SYMMETRY Interchangeable
