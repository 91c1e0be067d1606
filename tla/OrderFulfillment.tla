--------------------------- MODULE OrderFulfillment ---------------------------
(***************************************************************************)
(* Who moves the status of an order: PUT /orders/{id}/status through the   *)
(* status dictionary (order_service.update_order_status), the shipments of *)
(* the order (shipment_service: create, batch create, update) and the      *)
(* platform sync, with the freight each shipment books in the ledger.      *)
(*                                                                         *)
(* A request reads rows into its session, awaits, and writes later.  From  *)
(* its first flush to its commit it holds the database's write lock, so    *)
(* what follows the flush is one step; what it read before may be stale.   *)
(* UPDATE names only the attributes whose value differs from the one       *)
(* loaded; platform_data is one attribute, written as a whole.             *)
(***************************************************************************)
EXTENDS Integers, Sequences, FiniteSets

CONSTANTS Orders, Shipments, Users,
          Requests,     \* requests that may be served at the same time
          Statuses,     \* order statuses of the dictionary or of the platform
          AllowedNext,  \* allowed_next of each status in the dictionary
          Moves,        \* shipment statuses in use
          Costs,        \* shipping costs in use
          NoCost,       \* shipping_cost is None
          NoShipment,   \* platform_data has no local_shipment_context
          MaxBegun      \* bound on the requests of a behaviour

ASSUME FulfillmentAssumption ==
  /\ "pending" \in Statuses /\ "draft" \in Moves
  /\ DOMAIN AllowedNext \subseteq Statuses
  /\ NoCost \notin Costs /\ NoShipment \notin Shipments
  /\ {"shipped", "delivered", "completed"} \subseteq Statuses
  /\ MaxBegun \in Nat

VARIABLES orders,     \* committed Order rows
          shipments,  \* committed Shipment rows, by id
          ledger,     \* shipping_cost entries of each user for each shipment
          req,        \* the requests: handler and what its session has read
          begun

vars == <<orders, shipments, ledger, req, begun>>

Terminal == {"completed", "cancelled", "refunded", "closed"}
BeforeShipping == {"pending", "processing", "ready_to_ship", "paid", "purchasing"}
OnTheWay == {"shipped", "in_transit", "out_for_delivery"}
Moving == OnTheWay \cup {"delivered", "completed"}

Order == [status : Statuses,
          fulfillment : Moves \cup {"none"},
          context : [shipment : Shipments \cup {NoShipment}, status : Moves \cup {"none"}],
          history : Seq([from : Statuses, to : Statuses])]
Shipment == [order : Orders, status : Moves, cost : Costs \cup {NoCost}]

Request == [pc : {"idle"}]
      \cup [pc : {"status", "create", "sync"}, user : Users, order : Orders, row : Order]
      \cup [pc : {"update"}, user : Users, shipment : Shipments, copy : Shipment]
      \cup [pc : {"resend"}, user : Users, shipment : Shipments, copy : Shipment, row : Order]

\* The requests of this behaviour: with one, users wait for each other.
Served == DOMAIN req

TypeOK ==
  /\ Served \subseteq Requests
  /\ orders \in [Orders -> Order]
  /\ DOMAIN shipments \subseteq Shipments
  /\ shipments \in [DOMAIN shipments -> Shipment]
  /\ ledger \in [Users \X Shipments -> Seq(Costs)]
  /\ \A r \in Served :
       \/ req[r] \in Request
       \/ /\ req[r].pc = "batch" /\ req[r].user \in Users
          /\ req[r].rows \in [DOMAIN req[r].rows -> Order]
          /\ DOMAIN req[r].rows \in (SUBSET Orders) \ {{}}
  /\ begun \in 0 .. MaxBegun

NewOrder == [status |-> "pending", fulfillment |-> "none",
             context |-> [shipment |-> NoShipment, status |-> "none"], history |-> <<>>]

Init ==
  /\ orders = [o \in Orders |-> NewOrder]
  /\ shipments = <<>>
  /\ ledger = [k \in Users \X Shipments |-> <<>>]
  /\ \E S \in (SUBSET Requests) \ {{}} : req = [r \in S |-> [pc |-> "idle"]]
  /\ begun = 0

-----------------------------------------------------------------------------
(* What the handlers compute.                                              *)

\* Mutant: only a closed order is kept.
AdvancedUnlessClosed(old, move) ==
  CASE move \in OnTheWay /\ old # "closed" -> "shipped"
    [] move = "delivered" /\ old # "closed" -> "delivered"
    [] OTHER -> old

\* _advance_order_status_from_shipment
Advanced(old, move) ==
  CASE move \in OnTheWay /\ old \in BeforeShipping -> "shipped"
    [] move = "delivered" /\ old \in BeforeShipping \cup {"shipped", "in_transit"} -> "delivered"
    [] move = "completed" /\ old \in BeforeShipping \cup {"shipped", "in_transit", "delivered"}
         -> "completed"
    [] OTHER -> old

\* Mutant: the context follows the shipment only while it moves.
MirroredWhenMoving(row, s, move) ==
  IF move \in Moving THEN [row EXCEPT !.context = [shipment |-> s, status |-> move],
                                      !.fulfillment = move, !.status = Advanced(@, move)]
                     ELSE row

\* _sync_order_local_shipment_context
Mirrored(row, s, move) ==
  [row EXCEPT !.context = [shipment |-> s, status |-> move],
              !.fulfillment = IF move \in Moving THEN move ELSE @,
              !.status = IF move \in Moving THEN Advanced(@, move) ELSE @]

\* UPDATE orders: status and fulfillment_status only if the session changed them.
Flushed(current, loaded, new) ==
  [new EXCEPT !.status = IF @ = loaded.status THEN current.status ELSE @,
              !.fulfillment = IF @ = loaded.fulfillment THEN current.fulfillment ELSE @]

\* Mutant: the entry that exists is not looked for.
BookedAgain(u, s, cost) ==
  [ledger EXCEPT ![<<u, s>>] = IF cost = NoCost THEN @ ELSE Append(@, cost)]

\* _sync_shipping_cost_ledger: the acting user's entry for this shipment.
Booked(u, s, cost) ==
  [ledger EXCEPT ![<<u, s>>] = IF cost = NoCost THEN @
                               ELSE IF @ = <<>> THEN <<cost>>
                               ELSE [@ EXCEPT ![1] = cost]]

Unused == Shipments \ DOMAIN shipments

\* INSERT INTO shipments
Inserted(rows) ==
  [s \in DOMAIN shipments \cup DOMAIN rows |->
     IF s \in DOMAIN shipments THEN shipments[s] ELSE rows[s]]

\* _validate_order_status_transition: manual_override comes with its reason.
Accepts(from, to, override) ==
  /\ to \in DOMAIN AllowedNext
  /\ \/ to = from
     \/ override
     \/ from \in DOMAIN AllowedNext /\ to \in AllowedNext[from]

-----------------------------------------------------------------------------
(* The handlers.                                                           *)

Begin(r, read) == /\ req[r].pc = "idle" /\ begun < MaxBegun
                  /\ req' = [req EXCEPT ![r] = read]
                  /\ begun' = begun + 1
                  /\ UNCHANGED <<orders, shipments, ledger>>

End(r) == req' = [req EXCEPT ![r] = [pc |-> "idle"]] /\ UNCHANGED begun

\* The handlers that start from the order's row.
ReadOrder(r) ==
  \E u \in Users, o \in Orders, h \in {"status", "create", "sync"} :
    Begin(r, [pc |-> h, user |-> u, order |-> o, row |-> orders[o]])

ReadOrders(r) ==
  \E u \in Users, os \in (SUBSET Orders) \ {{}} :
    Begin(r, [pc |-> "batch", user |-> u, rows |-> [o \in os |-> orders[o]]])

\* get_shipment
ReadShipment(r) ==
  \E u \in Users, s \in DOMAIN shipments :
    Begin(r, [pc |-> "update", user |-> u, shipment |-> s, copy |-> shipments[s]])

\* update_order_status
ChangeStatus(r) ==
  /\ req[r].pc = "status"
  /\ \E to \in Statuses, override \in BOOLEAN :
       LET row == req[r].row IN
         /\ Accepts(row.status, to, override)
         /\ orders' = [orders EXCEPT ![req[r].order] =
              Flushed(@, row, [row EXCEPT !.status = to,
                                          !.history = Append(@, [from |-> row.status, to |-> to])])]
  /\ End(r)
  /\ UNCHANGED <<shipments, ledger>>

\* sync_orders_for_account sets the status the platform reports.
SyncStatus(r) ==
  /\ req[r].pc = "sync"
  /\ \E to \in Statuses :
       orders' = [orders EXCEPT ![req[r].order].status = IF to = req[r].row.status THEN @ ELSE to]
  /\ End(r)
  /\ UNCHANGED <<shipments, ledger>>

\* create_shipment: the row was read before the INSERT took the lock.
CreateShipment(r) ==
  /\ req[r].pc = "create"
  /\ \E s \in Unused, move \in Moves, cost \in Costs \cup {NoCost} :
       LET o == req[r].order  row == req[r].row IN
         /\ shipments' = Inserted([new \in {s} |-> [order |-> o, status |-> move, cost |-> cost]])
         /\ orders' = [orders EXCEPT ![o] = Flushed(@, row, Mirrored(row, s, move))]
         /\ ledger' = Booked(req[r].user, s, cost)
  /\ End(r)

\* Mutant: the rows are mirrored in the order of the query, not of the request.
BatchCreateCrossed(r) ==
  /\ req[r].pc = "batch"
  /\ LET rows == req[r].rows IN
       \E new \in SUBSET Unused : \E of \in [new -> DOMAIN rows], last \in [DOMAIN rows -> new] :
         /\ shipments' = Inserted([s \in new |-> [order |-> of[s], status |-> "draft",
                                                  cost |-> NoCost]])
         /\ orders' = [o \in Orders |-> IF o \in DOMAIN rows
                         THEN Flushed(orders[o], rows[o], Mirrored(rows[o], last[o], "draft"))
                         ELSE orders[o]]
  /\ End(r)
  /\ UNCHANGED ledger

\* batch_create_shipments: drafts without a cost; an order listed twice gets two,
\* and its context is that of the last one.
BatchCreate(r) ==
  /\ req[r].pc = "batch"
  /\ LET rows == req[r].rows IN
       \E new \in SUBSET Unused : \E of \in [new -> DOMAIN rows], last \in [DOMAIN rows -> new] :
         /\ \A o \in DOMAIN rows : of[last[o]] = o
         /\ shipments' = Inserted([s \in new |-> [order |-> of[s], status |-> "draft",
                                                  cost |-> NoCost]])
         /\ orders' = [o \in Orders |-> IF o \in DOMAIN rows
                         THEN Flushed(orders[o], rows[o], Mirrored(rows[o], last[o], "draft"))
                         ELSE orders[o]]
  /\ End(r)
  /\ UNCHANGED ledger

\* update_shipment with a value that differs from the copy (a status, a cost, or one
\* not modelled such as the tracking number): UPDATE shipments takes the lock before
\* the order is read.
UpdateShipment(r) ==
  /\ req[r].pc = "update"
  /\ \E move \in Moves, cost \in Costs \cup {NoCost}, givesCost \in BOOLEAN :
       LET s == req[r].shipment  copy == req[r].copy  o == copy.order IN
         /\ cost # copy.cost => givesCost
         /\ shipments' = [shipments EXCEPT ![s].status = IF move = copy.status THEN @ ELSE move,
                                           ![s].cost = IF cost = copy.cost THEN @ ELSE cost]
         /\ orders' = [orders EXCEPT ![o] = Mirrored(@, s, move)]
         /\ ledger' = IF givesCost THEN Booked(req[r].user, s, cost) ELSE ledger
  /\ End(r)

\* The same values again: nothing to flush, so the order is read without the lock.
ReadForResend(r) ==
  /\ req[r].pc = "update"
  /\ req' = [req EXCEPT ![r] = [pc |-> "resend", user |-> @.user, shipment |-> @.shipment,
                                copy |-> @.copy, row |-> orders[@.copy.order]]]
  /\ UNCHANGED <<orders, shipments, ledger, begun>>

Resend(r) ==
  /\ req[r].pc = "resend"
  /\ \E givesCost \in BOOLEAN :
       LET s == req[r].shipment  copy == req[r].copy  row == req[r].row IN
         /\ orders' = [orders EXCEPT ![copy.order] =
                         Flushed(@, row, Mirrored(row, s, copy.status))]
         /\ ledger' = IF givesCost THEN Booked(req[r].user, s, copy.cost) ELSE ledger
  /\ End(r)
  /\ UNCHANGED shipments

\* Refused (400, 404), timed out on the lock, or dropped by a crash.
Abandon(r) == req[r].pc # "idle" /\ End(r) /\ UNCHANGED <<orders, shipments, ledger>>

ShipmentStep == \E r \in Served :
  CreateShipment(r) \/ BatchCreate(r) \/ UpdateShipment(r) \/ Resend(r)

\* MaxBegun requests have been served.
Quiet == begun = MaxBegun /\ (\A r \in Served : req[r].pc = "idle") /\ UNCHANGED vars

Next ==
  \/ ShipmentStep
  \/ \E r \in Served :
       \/ ReadOrder(r) \/ ReadOrders(r) \/ ReadShipment(r) \/ ReadForResend(r)
       \/ ChangeStatus(r) \/ SyncStatus(r) \/ Abandon(r)
  \/ Quiet

Spec == Init /\ [][Next]_vars

-----------------------------------------------------------------------------

OneAtATime == \A r, s \in Served : r = s

\* One request at a time: the freight of a shipment is in the ledger, once for a
\* user who entered it, with the amount the shipment has now.
FreightBooked ==
  OneAtATime => \A s \in DOMAIN shipments :
    shipments[s].cost # NoCost => \E u \in Users : ledger[<<u, s>>] = <<shipments[s].cost>>

\* Even when requests overlap one user never books the freight of a shipment twice:
\* the flush that takes the write lock precedes the look-up of the entry.
OneFreightPerUser == \A k \in Users \X Shipments : Len(ledger[k]) <= 1

\* The shipment an order's platform_data names exists and is one of that order, even
\* when stale copies of platform_data are written over each other.
ContextOfOrder ==
  \A o \in Orders : LET s == orders[o].context.shipment IN
    s # NoShipment => s \in DOMAIN shipments /\ shipments[s].order = o

\* One request at a time: "Mirror the real local shipment record into order fulfillment
\* context": the status shown with the order is the one the shipment has.
MirrorsShipment ==
  OneAtATime => \A o \in Orders : LET c == orders[o].context IN
    c.shipment # NoShipment => c.status = shipments[c.shipment].status

\* True of one request at a time.
TerminalKeptInTurn ==
  [][ShipmentStep /\ OneAtATime => \A o \in Orders :
       orders[o].status \in Terminal => orders'[o].status = orders[o].status]_vars

\* One request at a time: status_history is only ever extended, although every
\* handler writes platform_data as a whole.
HistoryOnlyGrows ==
  [][OneAtATime => \A o \in Orders : LET old == orders[o].history IN
       /\ Len(orders'[o].history) >= Len(old)
       /\ SubSeq(orders'[o].history, 1, Len(old)) = old]_vars

===============================================================================
