------------------------ MODULE OrderFulfillment_proofs ------------------------
(***************************************************************************)
(* Proofs about OrderFulfillment for any orders, shipments, users and      *)
(* dictionary, and any number of requests.  However requests overlap, the  *)
(* shipment an order names is one of its own and a user books its freight  *)
(* once; served one at a time, orders mirror their shipments, the freight  *)
(* is booked at its current amount, and statuses and history survive.      *)
(***************************************************************************)
EXTENDS OrderFulfillment, SequenceTheorems, TLAPS

USE FulfillmentAssumption

-----------------------------------------------------------------------------
(* What the handlers compute.                                              *)

\* A shipment never moves an order out of a terminal status.
LEMMA AdvancedType ==
  ASSUME NEW old \in Statuses, NEW move
  PROVE  /\ Advanced(old, move) \in Statuses
         /\ old \in Terminal => Advanced(old, move) = old
  BY DEF Advanced, Terminal, OnTheWay, BeforeShipping

LEMMA MirroredType ==
  ASSUME NEW row \in Order, NEW s \in Shipments, NEW move \in Moves
  PROVE  /\ Mirrored(row, s, move) \in Order
         /\ Mirrored(row, s, move).context = [shipment |-> s, status |-> move]
         /\ Mirrored(row, s, move).history = row.history
         /\ row.status \in Terminal => Mirrored(row, s, move).status = row.status
<1>1. Advanced(row.status, move) \in Statuses
  BY AdvancedType DEF Order
<1>2. Mirrored(row, s, move) \in Order
  BY <1>1 DEF Mirrored, Order
<1>3. Mirrored(row, s, move).history = row.history
  BY DEF Mirrored, Order
<1>4. Mirrored(row, s, move).context = [shipment |-> s, status |-> move]
  BY DEF Mirrored, Order
<1>5. row.status \in Terminal => Mirrored(row, s, move).status = row.status
  BY AdvancedType DEF Mirrored, Order
<1>6. QED
  BY <1>2, <1>3, <1>4, <1>5

\* An UPDATE writes platform_data as the session has it, and is exactly what the
\* session has if the row it loaded is still the current one.
LEMMA FlushedType ==
  ASSUME NEW current \in Order, NEW loaded \in Order, NEW new \in Order
  PROVE  /\ Flushed(current, loaded, new) \in Order
         /\ Flushed(current, loaded, new).context = new.context
         /\ Flushed(current, loaded, new).history = new.history
         /\ current = loaded => Flushed(current, loaded, new) = new
<1>1. Flushed(current, loaded, new) \in Order
  BY DEF Flushed, Order
<1>2. /\ Flushed(current, loaded, new).context = new.context
      /\ Flushed(current, loaded, new).history = new.history
  BY DEF Flushed, Order
<1>3. current = loaded => Flushed(current, loaded, new) = new
  BY DEF Flushed, Order
<1>4. QED
  BY <1>1, <1>2, <1>3

\* Booking a cost leaves one entry, with that cost, and the other entries alone.
LEMMA BookedType ==
  ASSUME TypeOK, NEW u \in Users, NEW s \in Shipments, NEW cost \in Costs \cup {NoCost}
  PROVE  /\ Booked(u, s, cost) \in [Users \X Shipments -> Seq(Costs)]
         /\ \A k \in Users \X Shipments : k # <<u, s>> => Booked(u, s, cost)[k] = ledger[k]
         /\ cost = NoCost => Booked(u, s, cost) = ledger
         /\ cost # NoCost /\ Len(ledger[<<u, s>>]) <= 1 => Booked(u, s, cost)[<<u, s>>] = <<cost>>
<1> DEFINE k == <<u, s>>
           new == IF cost = NoCost THEN ledger[k] ELSE IF ledger[k] = <<>> THEN <<cost>>
                  ELSE [ledger[k] EXCEPT ![1] = cost]
<1>1. /\ k \in Users \X Shipments /\ ledger[k] \in Seq(Costs)
      /\ ledger \in [Users \X Shipments -> Seq(Costs)]
  BY DEF TypeOK
<1>2. Booked(u, s, cost) = [ledger EXCEPT ![k] = new]
  BY DEF Booked
<1>3. ledger[k] # <<>> => 1 \in 1 .. Len(ledger[k])
  BY <1>1, EmptySeq
<1>4. new \in Seq(Costs) /\ (cost # NoCost /\ Len(ledger[k]) <= 1 => new = <<cost>>)
  <2>1. CASE cost = NoCost
    BY <2>1, <1>1
  <2>2. CASE cost # NoCost /\ ledger[k] = <<>>
    BY <2>2, <1>1
  <2>3. CASE cost # NoCost /\ ledger[k] # <<>>
    <3> HIDE DEF k
    <3>1. new = [ledger[k] EXCEPT ![1] = cost] /\ cost \in Costs
      BY <2>3
    <3>2. new \in Seq(Costs) /\ Len(new) = Len(ledger[k]) /\ new[1] = cost
      BY <1>1, <1>3, <2>3, <3>1, ExceptSeq
    <3>3. Len(ledger[k]) \in Nat /\ 1 <= Len(ledger[k])
      BY <1>1, <1>3, <2>3
    <3>4. ASSUME Len(ledger[k]) <= 1 PROVE new = <<cost>>
      <4> HIDE DEF new
      <4>1. \A n \in Nat : 1 <= n /\ n <= 1 => n = 1
        OBVIOUS
      <4>2. Len(ledger[k]) = 1
        BY <3>3, <3>4, <4>1
      <4>3. <<cost>> \in Seq(Costs) /\ Len(<<cost>>) = 1 /\ <<cost>>[1] = cost
        BY <3>1
      <4>4. Len(new) = Len(<<cost>>) /\ \A i \in 1 .. Len(new) : new[i] = <<cost>>[i]
        BY <3>2, <4>2, <4>3
      <4>5. QED
        BY <3>2, <4>3, <4>4, SeqEqual
    <3>5. QED
      BY <3>2, <3>4
  <2>4. QED
    BY <2>1, <2>2, <2>3
<1> HIDE DEF new
<1>5. cost = NoCost => Booked(u, s, cost) = ledger
  BY <1>1, <1>2 DEF new
<1>6. /\ Booked(u, s, cost) \in [Users \X Shipments -> Seq(Costs)]
      /\ Booked(u, s, cost)[k] = new
  BY <1>1, <1>2, <1>4
<1>7. \A j \in Users \X Shipments : j # k => Booked(u, s, cost)[j] = ledger[j]
  BY <1>1, <1>2
<1>8. QED
  BY <1>4, <1>5, <1>6, <1>7

\* INSERT adds rows and leaves the others.
LEMMA InsertedType ==
  ASSUME TypeOK, NEW rows, DOMAIN rows \subseteq Unused, \A s \in DOMAIN rows : rows[s] \in Shipment,
         shipments' = Inserted(rows)
  PROVE  /\ DOMAIN shipments' = DOMAIN shipments \cup DOMAIN rows
         /\ DOMAIN shipments' \subseteq Shipments /\ shipments' \in [DOMAIN shipments' -> Shipment]
         /\ \A s \in DOMAIN shipments : shipments'[s] = shipments[s]
         /\ \A s \in DOMAIN rows : shipments'[s] = rows[s]
<1>1. DOMAIN shipments' = DOMAIN shipments \cup DOMAIN rows
  BY DEF Inserted
<1>2. \A s \in DOMAIN shipments : shipments'[s] = shipments[s]
  BY DEF Inserted
<1>3. \A s \in DOMAIN rows : shipments'[s] = rows[s]
  BY DEF Inserted, Unused
<1>4. \A s \in DOMAIN shipments : shipments[s] \in Shipment
  BY DEF TypeOK
<1>5. shipments' = [s \in DOMAIN shipments' |-> shipments'[s]]
  BY <1>1 DEF Inserted
<1>6. QED
  BY <1>1, <1>2, <1>3, <1>4, <1>5 DEF Unused, TypeOK

-----------------------------------------------------------------------------
(* Type correctness.                                                       *)

\* What a request carries between its steps.
LEMMA RequestKinds ==
  ASSUME TypeOK, NEW r \in Served
  PROVE  /\ req[r].pc \in {"status", "create", "sync"} =>
              req[r].user \in Users /\ req[r].order \in Orders /\ req[r].row \in Order
         /\ req[r].pc = "batch" =>
              /\ DOMAIN req[r].rows \subseteq Orders
              /\ \A o \in DOMAIN req[r].rows : req[r].rows[o] \in Order
         /\ req[r].pc \in {"update", "resend"} =>
              req[r].user \in Users /\ req[r].shipment \in Shipments /\ req[r].copy \in Shipment
         /\ req[r].pc = "resend" => req[r].row \in Order
<1>1. CASE req[r] \in Request
  BY <1>1 DEF Request
<1>2. CASE req[r] \notin Request
  BY <1>2 DEF TypeOK
<1>3. QED
  BY <1>1, <1>2

\* A well-typed request is what the types ask of one.
RequestOK(q) ==
  \/ q \in Request
  \/ /\ q.pc = "batch" /\ q.user \in Users
     /\ q.rows \in [DOMAIN q.rows -> Order]
     /\ DOMAIN q.rows \in (SUBSET Orders) \ {{}}

LEMMA RequestsKeep ==
  ASSUME TypeOK, NEW r \in Served, NEW q, RequestOK(q), req' = [req EXCEPT ![r] = q]
  PROVE  /\ Served' = Served /\ Served' \subseteq Requests
         /\ \A i \in Served' : RequestOK(req'[i])
<1>1. Served' = Served /\ req'[r] = q
  BY DEF Served
<1>2. \A i \in Served \ {r} : req'[i] = req[i]
  BY DEF Served
<1>3. \A i \in Served : RequestOK(req[i])
  BY DEF TypeOK, RequestOK
<1>4. QED
  BY <1>1, <1>2, <1>3 DEF TypeOK

LEMMA EndType ==
  ASSUME TypeOK, NEW r \in Served, End(r)
  PROVE  /\ Served' = Served /\ Served' \subseteq Requests /\ begun' \in 0 .. MaxBegun
         /\ \A i \in Served' : RequestOK(req'[i])
<1>1. RequestOK([pc |-> "idle"])
  BY DEF RequestOK, Request
<1>2. QED
  BY <1>1, RequestsKeep DEF End, TypeOK

LEMMA BeginType ==
  ASSUME TypeOK, NEW r \in Served, NEW q, RequestOK(q), Begin(r, q)
  PROVE  TypeOK'
<1>1. Served' \subseteq Requests /\ \A i \in Served' : RequestOK(req'[i])
  BY RequestsKeep DEF Begin
<1>2. begun' \in 0 .. MaxBegun
  BY DEF Begin, TypeOK
<1>3. QED
  BY <1>1, <1>2 DEF Begin, TypeOK, RequestOK

LEMMA NewOrderType == NewOrder \in Order
  BY DEF NewOrder, Order

LEMMA InitType == Init => TypeOK
<1> SUFFICES ASSUME Init PROVE TypeOK
  OBVIOUS
<1>1. orders \in [Orders -> Order]
  BY NewOrderType DEF Init
<1>2. DOMAIN shipments \subseteq Shipments /\ shipments \in [DOMAIN shipments -> Shipment]
  BY DEF Init
<1>3. ledger \in [Users \X Shipments -> Seq(Costs)] /\ begun \in 0 .. MaxBegun
  BY DEF Init
<1>4. Served \subseteq Requests /\ \A r \in Served : req[r] \in Request
  BY DEF Init, Served, Request
<1>5. QED
  BY <1>1, <1>2, <1>3, <1>4 DEF TypeOK

\* One order written by a session.
LEMMA OrderWritten ==
  ASSUME TypeOK, NEW o \in Orders, NEW row \in Order, orders' = [orders EXCEPT ![o] = row]
  PROVE  /\ orders' \in [Orders -> Order] /\ orders'[o] = row
         /\ \A p \in Orders \ {o} : orders'[p] = orders[p]
  BY DEF TypeOK

\* The orders of a batch, each written as the session has it.
BatchEffect(rows, new, of, last) ==
  /\ \A o \in DOMAIN rows : of[last[o]] = o
  /\ shipments' = Inserted([s \in new |-> [order |-> of[s], status |-> "draft", cost |-> NoCost]])
  /\ \A o \in DOMAIN rows :
       /\ Mirrored(rows[o], last[o], "draft") \in Order
       /\ orders'[o] = Flushed(orders[o], rows[o], Mirrored(rows[o], last[o], "draft"))
  /\ \A o \in Orders \ DOMAIN rows : orders'[o] = orders[o]
  /\ orders' \in [Orders -> Order]
  /\ \A s \in new : [order |-> of[s], status |-> "draft", cost |-> NoCost] \in Shipment

LEMMA BatchWritten ==
  ASSUME TypeOK, NEW r \in Served, BatchCreate(r)
  PROVE  \E new \in SUBSET Unused : \E of \in [new -> DOMAIN req[r].rows],
                                      last \in [DOMAIN req[r].rows -> new] :
           BatchEffect(req[r].rows, new, of, last)
<1> DEFINE rows == req[r].rows
<1>1. req[r].pc = "batch"
  BY DEF BatchCreate
<1>2. DOMAIN rows \subseteq Orders /\ \A o \in DOMAIN rows : rows[o] \in Order
  BY <1>1, RequestKinds
<1> HIDE DEF rows
<1>3. PICK new \in SUBSET Unused : \E of \in [new -> DOMAIN rows], last \in [DOMAIN rows -> new] :
         /\ \A o \in DOMAIN rows : of[last[o]] = o
         /\ shipments' = Inserted([s \in new |-> [order |-> of[s], status |-> "draft",
                                                  cost |-> NoCost]])
         /\ orders' = [o \in Orders |-> IF o \in DOMAIN rows
                         THEN Flushed(orders[o], rows[o], Mirrored(rows[o], last[o], "draft"))
                         ELSE orders[o]]
  BY DEF BatchCreate, rows
<1>4. PICK of \in [new -> DOMAIN rows], last \in [DOMAIN rows -> new] :
         /\ \A o \in DOMAIN rows : of[last[o]] = o
         /\ shipments' = Inserted([s \in new |-> [order |-> of[s], status |-> "draft",
                                                  cost |-> NoCost]])
         /\ orders' = [o \in Orders |-> IF o \in DOMAIN rows
                         THEN Flushed(orders[o], rows[o], Mirrored(rows[o], last[o], "draft"))
                         ELSE orders[o]]
  BY <1>3
<1>5. \A o \in DOMAIN rows : last[o] \in Shipments /\ rows[o] \in Order /\ o \in Orders
  BY <1>2, <1>4 DEF Unused
<1>6. \A o \in DOMAIN rows : Mirrored(rows[o], last[o], "draft") \in Order
  BY <1>5, MirroredType
<1>7. \A o \in DOMAIN rows : orders'[o] = Flushed(orders[o], rows[o], Mirrored(rows[o], last[o], "draft"))
  BY <1>4, <1>5
<1>8. \A o \in Orders \ DOMAIN rows : orders'[o] = orders[o]
  BY <1>4
<1>9. \A o \in Orders : orders[o] \in Order
  BY DEF TypeOK
<1>10. \A o \in Orders : orders'[o] \in Order
  BY <1>5, <1>6, <1>7, <1>8, <1>9, FlushedType
<1>11. orders' \in [Orders -> Order]
  BY <1>4, <1>10
<1>12. \A s \in new : [order |-> of[s], status |-> "draft", cost |-> NoCost] \in Shipment
  BY <1>2, <1>4 DEF Shipment
<1>13. BatchEffect(rows, new, of, last)
  BY <1>4, <1>6, <1>7, <1>8, <1>11, <1>12 DEF BatchEffect
<1>14. QED
  BY <1>4, <1>13 DEF rows

\* What a shipment request that has one order in hand writes.
LEMMA CreateWritten ==
  ASSUME TypeOK, NEW r \in Served, CreateShipment(r)
  PROVE  LET o == req[r].order  row == req[r].row IN
         \E s \in Unused, move \in Moves, cost \in Costs \cup {NoCost} :
           /\ shipments' = Inserted([new \in {s} |-> [order |-> o, status |-> move, cost |-> cost]])
           /\ [order |-> o, status |-> move, cost |-> cost] \in Shipment
           /\ Mirrored(row, s, move) \in Order
           /\ orders' \in [Orders -> Order]
           /\ orders'[o] = Flushed(orders[o], row, Mirrored(row, s, move))
           /\ \A p \in Orders \ {o} : orders'[p] = orders[p]
           /\ ledger' = Booked(req[r].user, s, cost)
           /\ ledger' \in [Users \X Shipments -> Seq(Costs)]
<1> DEFINE o == req[r].order  row == req[r].row
<1>1. o \in Orders /\ row \in Order /\ orders[o] \in Order /\ req[r].user \in Users
  <2>1. o \in Orders /\ row \in Order /\ req[r].user \in Users
    BY RequestKinds DEF CreateShipment
  <2>2. QED
    BY <2>1 DEF TypeOK
<1> HIDE DEF o, row
<1>2. PICK s \in Unused, move \in Moves, cost \in Costs \cup {NoCost} :
         /\ shipments' = Inserted([new \in {s} |-> [order |-> o, status |-> move, cost |-> cost]])
         /\ orders' = [orders EXCEPT ![o] = Flushed(@, row, Mirrored(row, s, move))]
         /\ ledger' = Booked(req[r].user, s, cost)
  BY DEF CreateShipment, o, row
<1>3. s \in Shipments /\ Mirrored(row, s, move) \in Order
  BY <1>1, MirroredType DEF Unused
<1>4. Flushed(orders[o], row, Mirrored(row, s, move)) \in Order
  BY <1>1, <1>3, FlushedType
<1>5. /\ orders' \in [Orders -> Order]
      /\ orders'[o] = Flushed(orders[o], row, Mirrored(row, s, move))
      /\ \A p \in Orders \ {o} : orders'[p] = orders[p]
  BY <1>1, <1>2, <1>4, OrderWritten
<1>6. ledger' \in [Users \X Shipments -> Seq(Costs)]
  BY <1>1, <1>2, <1>3, BookedType
<1>7. [order |-> o, status |-> move, cost |-> cost] \in Shipment
  BY <1>1 DEF Shipment
<1>8. QED
  BY <1>2, <1>3, <1>5, <1>6, <1>7 DEF o, row

LEMMA UpdateWritten ==
  ASSUME TypeOK, NEW r \in Served, UpdateShipment(r)
  PROVE  LET s == req[r].shipment  copy == req[r].copy  o == copy.order IN
         \E move \in Moves, cost \in Costs \cup {NoCost}, givesCost \in BOOLEAN :
           /\ cost # copy.cost => givesCost
           /\ DOMAIN shipments' = DOMAIN shipments
           /\ shipments' \in [DOMAIN shipments' -> Shipment]
           /\ \A t \in DOMAIN shipments : shipments'[t].order = shipments[t].order
           /\ s \in DOMAIN shipments =>
                /\ shipments'[s].status = IF move = copy.status THEN shipments[s].status ELSE move
                /\ shipments'[s].cost = IF cost = copy.cost THEN shipments[s].cost ELSE cost
           /\ \A t \in DOMAIN shipments : t # s => shipments'[t] = shipments[t]
           /\ orders' \in [Orders -> Order]
           /\ orders'[o] = Mirrored(orders[o], s, move)
           /\ \A p \in Orders \ {o} : orders'[p] = orders[p]
           /\ ledger' = IF givesCost THEN Booked(req[r].user, s, cost) ELSE ledger
           /\ ledger' \in [Users \X Shipments -> Seq(Costs)]
<1> DEFINE s == req[r].shipment  copy == req[r].copy  o == copy.order
<1>1. /\ s \in Shipments /\ copy \in Shipment /\ o \in Orders
      /\ orders[o] \in Order /\ req[r].user \in Users
  <2>1. s \in Shipments /\ copy \in Shipment /\ req[r].user \in Users
    BY RequestKinds DEF UpdateShipment
  <2>2. QED
    BY <2>1 DEF TypeOK, Shipment
<1> HIDE DEF s, copy, o
<1>2. PICK move \in Moves, cost \in Costs \cup {NoCost}, givesCost \in BOOLEAN :
         /\ cost # copy.cost => givesCost
         /\ shipments' = [shipments EXCEPT ![s].status = IF move = copy.status THEN @ ELSE move,
                                           ![s].cost = IF cost = copy.cost THEN @ ELSE cost]
         /\ orders' = [orders EXCEPT ![o] = Mirrored(@, s, move)]
         /\ ledger' = IF givesCost THEN Booked(req[r].user, s, cost) ELSE ledger
  BY DEF UpdateShipment, s, copy, o
<1>3. Mirrored(orders[o], s, move) \in Order
  BY <1>1, MirroredType
<1>4. /\ orders' \in [Orders -> Order] /\ orders'[o] = Mirrored(orders[o], s, move)
      /\ \A p \in Orders \ {o} : orders'[p] = orders[p]
  BY <1>1, <1>2, <1>3, OrderWritten
<1>5. ledger' \in [Users \X Shipments -> Seq(Costs)]
  <2>1. Booked(req[r].user, s, cost) \in [Users \X Shipments -> Seq(Costs)]
    BY <1>1, BookedType
  <2>2. ledger \in [Users \X Shipments -> Seq(Costs)]
    BY DEF TypeOK
  <2>3. QED
    BY <1>2, <2>1, <2>2
<1>6. DOMAIN shipments' = DOMAIN shipments /\ shipments' = [t \in DOMAIN shipments |-> shipments'[t]]
  BY <1>2
<1>7. \A t \in DOMAIN shipments : t # s => shipments'[t] = shipments[t]
  BY <1>2
<1>8. \A t \in DOMAIN shipments : shipments[t] \in Shipment
  BY DEF TypeOK
<1>9. ASSUME s \in DOMAIN shipments
      PROVE  /\ shipments'[s] \in Shipment /\ shipments'[s].order = shipments[s].order
             /\ shipments'[s].status = IF move = copy.status THEN shipments[s].status ELSE move
             /\ shipments'[s].cost = IF cost = copy.cost THEN shipments[s].cost ELSE cost
  <2>1. shipments'[s] = [shipments[s] EXCEPT
           !.status = IF move = copy.status THEN shipments[s].status ELSE move,
           !.cost = IF cost = copy.cost THEN shipments[s].cost ELSE cost]
    BY <1>2, <1>9
  <2>2. shipments[s] \in Shipment
    BY <1>8, <1>9
  <2>3. QED
    BY <2>1, <2>2 DEF Shipment
<1>10. shipments' \in [DOMAIN shipments' -> Shipment]
  BY <1>6, <1>7, <1>8, <1>9
<1>11. \A t \in DOMAIN shipments : shipments'[t].order = shipments[t].order
  BY <1>7, <1>9
<1>12. QED
  BY <1>2, <1>4, <1>5, <1>6, <1>7, <1>9, <1>10, <1>11 DEF s, copy, o

LEMMA ResendWritten ==
  ASSUME TypeOK, NEW r \in Served, Resend(r)
  PROVE  LET s == req[r].shipment  copy == req[r].copy  row == req[r].row  o == copy.order IN
         \E givesCost \in BOOLEAN :
           /\ Mirrored(row, s, copy.status) \in Order
           /\ orders' \in [Orders -> Order]
           /\ orders'[o] = Flushed(orders[o], row, Mirrored(row, s, copy.status))
           /\ \A p \in Orders \ {o} : orders'[p] = orders[p]
           /\ ledger' = IF givesCost THEN Booked(req[r].user, s, copy.cost) ELSE ledger
           /\ ledger' \in [Users \X Shipments -> Seq(Costs)]
<1> DEFINE s == req[r].shipment  copy == req[r].copy  o == copy.order  row == req[r].row
<1>1. /\ s \in Shipments /\ copy \in Shipment /\ o \in Orders /\ row \in Order
      /\ orders[o] \in Order /\ req[r].user \in Users
  <2>1. s \in Shipments /\ copy \in Shipment /\ req[r].user \in Users /\ row \in Order
    BY RequestKinds DEF Resend
  <2>2. QED
    BY <2>1 DEF TypeOK, Shipment
<1> HIDE DEF s, copy, o, row
<1>2. PICK givesCost \in BOOLEAN :
         /\ orders' = [orders EXCEPT ![o] = Flushed(@, row, Mirrored(row, s, copy.status))]
         /\ ledger' = IF givesCost THEN Booked(req[r].user, s, copy.cost) ELSE ledger
  BY DEF Resend, s, copy, o, row
<1>3. copy.status \in Moves /\ copy.cost \in Costs \cup {NoCost}
  BY <1>1 DEF Shipment
<1>4. Mirrored(row, s, copy.status) \in Order
  BY <1>1, <1>3, MirroredType
<1>5. Flushed(orders[o], row, Mirrored(row, s, copy.status)) \in Order
  BY <1>1, <1>4, FlushedType
<1>6. /\ orders' \in [Orders -> Order]
      /\ orders'[o] = Flushed(orders[o], row, Mirrored(row, s, copy.status))
      /\ \A p \in Orders \ {o} : orders'[p] = orders[p]
  BY <1>1, <1>2, <1>5, OrderWritten
<1>7. ledger' \in [Users \X Shipments -> Seq(Costs)]
  <2>1. Booked(req[r].user, s, copy.cost) \in [Users \X Shipments -> Seq(Costs)]
    BY <1>1, <1>3, BookedType
  <2>2. ledger \in [Users \X Shipments -> Seq(Costs)]
    BY DEF TypeOK
  <2>3. QED
    BY <1>2, <2>1, <2>2
<1>8. QED
  BY <1>2, <1>4, <1>6, <1>7 DEF s, copy, o, row

LEMMA ChangeWritten ==
  ASSUME TypeOK, NEW r \in Served, ChangeStatus(r)
  PROVE  LET o == req[r].order  row == req[r].row IN
         \E new \in Order, moved \in [from : Statuses, to : Statuses] :
           /\ new.context = row.context /\ new.history = Append(row.history, moved)
           /\ orders' \in [Orders -> Order]
           /\ orders'[o] = Flushed(orders[o], row, new)
           /\ \A p \in Orders \ {o} : orders'[p] = orders[p]
<1> DEFINE o == req[r].order  row == req[r].row
<1>1. o \in Orders /\ row \in Order /\ orders[o] \in Order
  <2>1. o \in Orders /\ row \in Order
    BY RequestKinds DEF ChangeStatus
  <2>2. QED
    BY <2>1 DEF TypeOK
<1> HIDE DEF o, row
<1>2. PICK to \in Statuses :
         orders' = [orders EXCEPT ![o] =
           Flushed(@, row, [row EXCEPT !.status = to,
                                       !.history = Append(@, [from |-> row.status, to |-> to])])]
  BY DEF ChangeStatus, o, row
<1> DEFINE moved == [from |-> row.status, to |-> to]
           new == [row EXCEPT !.status = to, !.history = Append(row.history, moved)]
<1>3. row.status \in Statuses /\ moved \in [from : Statuses, to : Statuses]
  BY <1>1 DEF Order
<1> HIDE DEF moved
<1>4. Append(row.history, moved) \in Seq([from : Statuses, to : Statuses])
  BY <1>1, <1>3 DEF Order
<1>5. new \in Order /\ new.context = row.context /\ new.history = Append(row.history, moved)
  BY <1>1, <1>4 DEF Order
<1>6. orders' = [orders EXCEPT ![o] = Flushed(orders[o], row, new)]
  BY <1>2 DEF moved
<1> HIDE DEF new
<1>7. Flushed(orders[o], row, new) \in Order
  BY <1>1, <1>5, FlushedType
<1>8. /\ orders' \in [Orders -> Order] /\ orders'[o] = Flushed(orders[o], row, new)
      /\ \A p \in Orders \ {o} : orders'[p] = orders[p]
  BY <1>1, <1>6, <1>7, OrderWritten
<1>9. QED
  BY <1>3, <1>5, <1>8 DEF o, row

\* A sync writes the status and nothing else.
LEMMA SyncWritten ==
  ASSUME TypeOK, NEW r \in Served, SyncStatus(r)
  PROVE  /\ orders' \in [Orders -> Order]
         /\ \A p \in Orders : /\ orders'[p].context = orders[p].context
                              /\ orders'[p].history = orders[p].history
         /\ \A p \in Orders \ {req[r].order} : orders'[p] = orders[p]
<1> DEFINE o == req[r].order
<1>1. o \in Orders /\ \A p \in Orders : orders[p] \in Order
  <2>1. o \in Orders
    BY RequestKinds DEF SyncStatus
  <2>2. QED
    BY <2>1 DEF TypeOK
<1> HIDE DEF o
<1>2. PICK to \in Statuses :
         orders' = [orders EXCEPT ![o].status = IF to = req[r].row.status THEN @ ELSE to]
  BY DEF SyncStatus, o
<1> DEFINE new == [orders[o] EXCEPT !.status =
                     IF to = req[r].row.status THEN orders[o].status ELSE to]
<1>3. new \in Order /\ new.context = orders[o].context /\ new.history = orders[o].history
  <2>1. orders[o] \in Order
    BY <1>1
  <2>2. QED
    BY <2>1 DEF Order
<1>4. orders' = [orders EXCEPT ![o] = new]
  BY <1>2
<1> HIDE DEF new
<1>5. /\ orders' \in [Orders -> Order] /\ orders'[o] = new
      /\ \A p \in Orders \ {o} : orders'[p] = orders[p]
  BY <1>1, <1>3, <1>4, OrderWritten
<1>6. QED
  BY <1>3, <1>5 DEF o

\* The steps that read into a session and write nothing.
LEMMA ReadType ==
  ASSUME TypeOK, NEW r \in Served,
         ReadOrder(r) \/ ReadOrders(r) \/ ReadShipment(r) \/ ReadForResend(r)
  PROVE  TypeOK'
<1>1. \A o \in Orders : orders[o] \in Order
  BY DEF TypeOK
<1>2. CASE ReadOrder(r)
  <2>1. PICK u \in Users, o \in Orders, h \in {"status", "create", "sync"} :
          Begin(r, [pc |-> h, user |-> u, order |-> o, row |-> orders[o]])
    BY <1>2 DEF ReadOrder
  <2>2. RequestOK([pc |-> h, user |-> u, order |-> o, row |-> orders[o]])
    BY <1>1 DEF RequestOK, Request
  <2>3. QED
    BY <2>1, <2>2, BeginType
<1>3. CASE ReadOrders(r)
  <2>1. PICK u \in Users, os \in (SUBSET Orders) \ {{}} :
          Begin(r, [pc |-> "batch", user |-> u, rows |-> [o \in os |-> orders[o]]])
    BY <1>3 DEF ReadOrders
  <2>2. RequestOK([pc |-> "batch", user |-> u, rows |-> [o \in os |-> orders[o]]])
    BY <1>1 DEF RequestOK
  <2>3. QED
    BY <2>1, <2>2, BeginType
<1>4. CASE ReadShipment(r)
  <2>1. PICK u \in Users, s \in DOMAIN shipments :
          Begin(r, [pc |-> "update", user |-> u, shipment |-> s, copy |-> shipments[s]])
    BY <1>4 DEF ReadShipment
  <2>2. s \in Shipments /\ shipments[s] \in Shipment
    BY DEF TypeOK
  <2>3. RequestOK([pc |-> "update", user |-> u, shipment |-> s, copy |-> shipments[s]])
    BY <2>2 DEF RequestOK, Request
  <2>4. QED
    BY <2>1, <2>3, BeginType
<1>5. CASE ReadForResend(r)
  <2> DEFINE q == [pc |-> "resend", user |-> req[r].user, shipment |-> req[r].shipment,
                   copy |-> req[r].copy, row |-> orders[req[r].copy.order]]
  <2>1. req[r].user \in Users /\ req[r].shipment \in Shipments /\ req[r].copy \in Shipment
    BY <1>5, RequestKinds DEF ReadForResend
  <2>2. orders[req[r].copy.order] \in Order
    BY <1>1, <2>1 DEF Shipment
  <2>3. RequestOK(q)
    BY <2>1, <2>2 DEF RequestOK, Request
  <2>4. req' = [req EXCEPT ![r] = q]
    BY <1>5 DEF ReadForResend
  <2> HIDE DEF q
  <2>5. Served' \subseteq Requests /\ \A i \in Served' : RequestOK(req'[i])
    BY <2>3, <2>4, RequestsKeep
  <2>6. QED
    BY <1>5, <2>5 DEF ReadForResend, TypeOK, RequestOK
<1>6. QED
  BY <1>2, <1>3, <1>4, <1>5

LEMMA CreateType ==
  ASSUME TypeOK, NEW r \in Served, CreateShipment(r)
  PROVE  TypeOK'
<1>1. PICK s \in Unused, move \in Moves, cost \in Costs \cup {NoCost} :
        /\ shipments' = Inserted([new \in {s} |-> [order |-> req[r].order, status |-> move,
                                                   cost |-> cost]])
        /\ [order |-> req[r].order, status |-> move, cost |-> cost] \in Shipment
        /\ orders' \in [Orders -> Order]
        /\ ledger' \in [Users \X Shipments -> Seq(Costs)]
  BY CreateWritten
<1> DEFINE rows == [new \in {s} |-> [order |-> req[r].order, status |-> move, cost |-> cost]]
<1>2. DOMAIN rows \subseteq Unused /\ \A t \in DOMAIN rows : rows[t] \in Shipment
  BY <1>1
<1>3. DOMAIN shipments' \subseteq Shipments /\ shipments' \in [DOMAIN shipments' -> Shipment]
  <2> HIDE DEF rows
  <2>1. shipments' = Inserted(rows)
    BY <1>1 DEF rows
  <2>2. QED
    BY <1>2, <2>1, InsertedType
<1>4. /\ Served' \subseteq Requests /\ begun' \in 0 .. MaxBegun
      /\ \A i \in Served' : RequestOK(req'[i])
  BY EndType DEF CreateShipment
<1>5. QED
  BY <1>1, <1>3, <1>4 DEF TypeOK, RequestOK

LEMMA BatchType ==
  ASSUME TypeOK, NEW r \in Served, BatchCreate(r)
  PROVE  TypeOK'
<1>1. PICK new \in SUBSET Unused : \E of \in [new -> DOMAIN req[r].rows],
                                     last \in [DOMAIN req[r].rows -> new] :
        BatchEffect(req[r].rows, new, of, last)
  BY BatchWritten
<1>2. PICK of \in [new -> DOMAIN req[r].rows], last \in [DOMAIN req[r].rows -> new] :
        BatchEffect(req[r].rows, new, of, last)
  BY <1>1
<1> DEFINE rows == [s \in new |-> [order |-> of[s], status |-> "draft", cost |-> NoCost]]
<1>3. DOMAIN rows \subseteq Unused /\ \A t \in DOMAIN rows : rows[t] \in Shipment
  BY <1>2 DEF BatchEffect
<1>4. DOMAIN shipments' \subseteq Shipments /\ shipments' \in [DOMAIN shipments' -> Shipment]
  <2> HIDE DEF rows
  <2>1. shipments' = Inserted(rows)
    BY <1>2 DEF rows, BatchEffect
  <2>2. QED
    BY <1>3, <2>1, InsertedType
<1>5. /\ Served' \subseteq Requests /\ begun' \in 0 .. MaxBegun
      /\ \A i \in Served' : RequestOK(req'[i])
  BY EndType DEF BatchCreate
<1>6. QED
  BY <1>2, <1>4, <1>5 DEF TypeOK, RequestOK, BatchCreate, BatchEffect

LEMMA NextType == TypeOK /\ [Next]_vars => TypeOK'
<1> SUFFICES ASSUME TypeOK, [Next]_vars PROVE TypeOK'
  OBVIOUS
<1>1. ASSUME NEW r \in Served, ReadOrder(r) \/ ReadOrders(r) \/ ReadShipment(r) \/ ReadForResend(r)
      PROVE  TypeOK'
  BY <1>1, ReadType
<1>2. ASSUME NEW r \in Served, CreateShipment(r) PROVE TypeOK'
  BY <1>2, CreateType
<1>3. ASSUME NEW r \in Served, BatchCreate(r) PROVE TypeOK'
  BY <1>3, BatchType
<1>4. ASSUME NEW r \in Served, UpdateShipment(r) PROVE TypeOK'
  <2>1. /\ DOMAIN shipments' = DOMAIN shipments /\ shipments' \in [DOMAIN shipments' -> Shipment]
        /\ orders' \in [Orders -> Order] /\ ledger' \in [Users \X Shipments -> Seq(Costs)]
    BY <1>4, UpdateWritten
  <2>2. /\ Served' \subseteq Requests /\ begun' \in 0 .. MaxBegun
        /\ \A i \in Served' : RequestOK(req'[i])
    BY <1>4, EndType DEF UpdateShipment
  <2>3. QED
    BY <2>1, <2>2 DEF TypeOK, RequestOK
<1>5. ASSUME NEW r \in Served, Resend(r) PROVE TypeOK'
  <2>1. orders' \in [Orders -> Order] /\ ledger' \in [Users \X Shipments -> Seq(Costs)]
    BY <1>5, ResendWritten
  <2>2. /\ Served' \subseteq Requests /\ begun' \in 0 .. MaxBegun
        /\ \A i \in Served' : RequestOK(req'[i])
    BY <1>5, EndType DEF Resend
  <2>3. QED
    BY <1>5, <2>1, <2>2 DEF TypeOK, RequestOK, Resend
<1>6. ASSUME NEW r \in Served, ChangeStatus(r) \/ SyncStatus(r) PROVE TypeOK'
  <2>1. orders' \in [Orders -> Order]
    BY <1>6, ChangeWritten, SyncWritten
  <2>2. /\ Served' \subseteq Requests /\ begun' \in 0 .. MaxBegun
        /\ \A i \in Served' : RequestOK(req'[i])
    BY <1>6, EndType DEF ChangeStatus, SyncStatus
  <2>3. QED
    BY <1>6, <2>1, <2>2 DEF TypeOK, RequestOK, ChangeStatus, SyncStatus
<1>7. ASSUME NEW r \in Served, Abandon(r) PROVE TypeOK'
  <2>1. /\ Served' \subseteq Requests /\ begun' \in 0 .. MaxBegun
        /\ \A i \in Served' : RequestOK(req'[i])
    BY <1>7, EndType DEF Abandon
  <2>2. QED
    BY <1>7, <2>1 DEF TypeOK, RequestOK, Abandon
<1>8. CASE UNCHANGED vars
  BY <1>8 DEF vars, TypeOK, Served
<1>9. QED
  BY <1>1, <1>2, <1>3, <1>4, <1>5, <1>6, <1>7, <1>8 DEF Next, ShipmentStep, Quiet

\* Every variable keeps its type in every behaviour of any number of requests
\* (OrderFulfillment.TypeOK).
THEOREM TypeCorrect == Spec => []TypeOK
  BY InitType, NextType, PTL DEF Spec

-----------------------------------------------------------------------------
(* Requests that overlap.                                                  *)

\* Every write of the ledger is a booking.
LEMMA LedgerWritten ==
  ASSUME TypeOK, [Next]_vars
  PROVE  \/ ledger' = ledger
         \/ \E u \in Users, s \in Shipments, cost \in Costs \cup {NoCost} :
              ledger' = Booked(u, s, cost)
<1>1. ASSUME NEW r \in Served, CreateShipment(r)
      PROVE  \E u \in Users, s \in Shipments, cost \in Costs \cup {NoCost} :
               ledger' = Booked(u, s, cost)
  <2>1. req[r].user \in Users
    BY <1>1, RequestKinds DEF CreateShipment
  <2>2. QED
    BY <1>1, <2>1, CreateWritten DEF Unused
<1>2. ASSUME NEW r \in Served, UpdateShipment(r) \/ Resend(r)
      PROVE  \/ ledger' = ledger
             \/ \E u \in Users, s \in Shipments, cost \in Costs \cup {NoCost} :
                  ledger' = Booked(u, s, cost)
  <2>1. /\ req[r].user \in Users /\ req[r].shipment \in Shipments
        /\ req[r].copy.cost \in Costs \cup {NoCost}
    BY <1>2, RequestKinds DEF UpdateShipment, Resend, Shipment
  <2>2. CASE UpdateShipment(r)
    BY <2>1, <2>2, UpdateWritten
  <2>3. CASE Resend(r)
    BY <2>1, <2>3, ResendWritten
  <2>4. QED
    BY <1>2, <2>2, <2>3
<1>3. QED
  BY <1>1, <1>2 DEF Next, ShipmentStep, Quiet, vars, ReadOrder, ReadOrders, ReadShipment,
                    ReadForResend, ChangeStatus, SyncStatus, BatchCreate, Abandon, Begin

LEMMA BooksOnce ==
  ASSUME TypeOK, OneFreightPerUser, [Next]_vars
  PROVE  OneFreightPerUser'
<1>1. CASE ledger' = ledger
  BY <1>1 DEF OneFreightPerUser
<1>2. ASSUME NEW u \in Users, NEW s \in Shipments, NEW cost \in Costs \cup {NoCost},
             ledger' = Booked(u, s, cost)
      PROVE  OneFreightPerUser'
  <2>1. \A k \in Users \X Shipments : k # <<u, s>> => ledger'[k] = ledger[k]
    <3>1. \A k \in Users \X Shipments : k # <<u, s>> => Booked(u, s, cost)[k] = ledger[k]
      BY BookedType
    <3>2. QED
      BY <1>2, <3>1
  <2>2. CASE cost = NoCost
    <3>1. Booked(u, s, cost) = ledger
      BY <2>2, BookedType, Zenon
    <3>2. QED
      BY <1>1, <1>2, <3>1
  <2>3. CASE cost # NoCost
    <3>1. ledger'[<<u, s>>] = <<cost>>
      BY <1>2, <2>3, BookedType DEF OneFreightPerUser
    <3>2. Len(<<cost>>) <= 1
      OBVIOUS
    <3>3. Len(ledger'[<<u, s>>]) <= 1
      BY <3>1, <3>2, Zenon
    <3>4. QED
      BY <2>1, <3>3 DEF OneFreightPerUser
  <2>4. QED
    BY <2>2, <2>3
<1>3. QED
  BY <1>1, <1>2, LedgerWritten

\* However requests overlap a user books the freight of a shipment once, since the
\* entry is looked up under the write lock (OrderFulfillment.OneFreightPerUser).
THEOREM FreightIsBookedOnce == Spec => []OneFreightPerUser
<1>1. Init => OneFreightPerUser
  BY DEF Init, OneFreightPerUser
<1>2. QED
  BY <1>1, BooksOnce, TypeCorrect, PTL DEF Spec

\* The shipment the platform_data of a row names exists and is one of its order.
Names(ships, row, o) ==
  row.context.shipment # NoShipment =>
    row.context.shipment \in DOMAIN ships /\ ships[row.context.shipment].order = o

\* What a session has read is true of its rows too, however old they are.
CopyNames(ships, q) ==
  /\ q.pc \in {"status", "create", "sync"} => Names(ships, q.row, q.order)
  /\ q.pc = "batch" => \A o \in DOMAIN q.rows : Names(ships, q.rows[o], o)
  /\ q.pc \in {"update", "resend"} =>
       q.shipment \in DOMAIN ships /\ ships[q.shipment].order = q.copy.order
  /\ q.pc = "resend" => Names(ships, q.row, q.copy.order)

ContextInv ==
  /\ TypeOK
  /\ \A o \in Orders : Names(shipments, orders[o], o)
  /\ \A r \in Served : CopyNames(shipments, req[r])

\* Shipments are never deleted and never change their order.
LEMMA NamesStay ==
  ASSUME NEW a, NEW b, DOMAIN a \subseteq DOMAIN b, \A s \in DOMAIN a : b[s].order = a[s].order
  PROVE  /\ \A row, o : Names(a, row, o) => Names(b, row, o)
         /\ \A q : CopyNames(a, q) => CopyNames(b, q)
<1>1. \A row, o : Names(a, row, o) => Names(b, row, o)
  BY DEF Names
<1>2. \A q : CopyNames(a, q) => CopyNames(b, q)
  BY <1>1 DEF CopyNames
<1>3. QED
  BY <1>1, <1>2

\* What the orders hold, and the other sessions, after a step of one request.
LEMMA ContextStep ==
  ASSUME ContextInv, TypeOK', NEW r \in Served,
         DOMAIN shipments \subseteq DOMAIN shipments',
         \A s \in DOMAIN shipments : shipments'[s].order = shipments[s].order,
         \A o \in Orders : orders'[o].context = orders[o].context \/ Names(shipments', orders'[o], o),
         Served' = Served, \A i \in Served \ {r} : req'[i] = req[i],
         CopyNames(shipments', req'[r])
  PROVE  ContextInv'
<1>1. /\ \A row, o : Names(shipments, row, o) => Names(shipments', row, o)
      /\ \A q : CopyNames(shipments, q) => CopyNames(shipments', q)
  BY NamesStay
<1>2. \A o \in Orders : Names(shipments', orders'[o], o)
  <2>1. ASSUME NEW o \in Orders, orders'[o].context = orders[o].context
        PROVE  Names(shipments', orders'[o], o)
    <3>1. Names(shipments', orders[o], o)
      BY <1>1 DEF ContextInv
    <3>2. QED
      BY <2>1, <3>1 DEF Names
  <2>2. QED
    BY <2>1
<1>3. \A i \in Served' : CopyNames(shipments', req'[i])
  BY <1>1 DEF ContextInv
<1>4. QED
  BY <1>2, <1>3 DEF ContextInv

\* The end of a request leaves it idle.
LEMMA EndEffect ==
  ASSUME TypeOK, NEW r \in Served, End(r)
  PROVE  /\ Served' = Served /\ \A i \in Served \ {r} : req'[i] = req[i]
         /\ req'[r] = [pc |-> "idle"]
         /\ \A ships : CopyNames(ships, req'[r])
<1>1. /\ Served' = Served /\ \A i \in Served \ {r} : req'[i] = req[i]
      /\ req'[r] = [pc |-> "idle"]
  BY DEF End, Served
<1>2. QED
  BY <1>1 DEF CopyNames

LEMMA ContextInit == Init => ContextInv
<1> SUFFICES ASSUME Init PROVE ContextInv
  OBVIOUS
<1>1. \A o \in Orders : Names(shipments, orders[o], o)
  BY DEF Init, NewOrder, Names
<1>2. \A r \in Served : CopyNames(shipments, req[r])
  BY DEF Init, Served, CopyNames
<1>3. QED
  BY <1>1, <1>2, InitType DEF ContextInv

\* Reading gives a request what the tables hold.
LEMMA ContextRead ==
  ASSUME ContextInv, NEW r \in Served,
         ReadOrder(r) \/ ReadOrders(r) \/ ReadShipment(r) \/ ReadForResend(r)
  PROVE  ContextInv'
<1>1. TypeOK' /\ orders' = orders /\ shipments' = shipments
  BY ReadType DEF ContextInv, ReadOrder, ReadOrders, ReadShipment, ReadForResend, Begin
<1>2. Served' = Served /\ \A i \in Served \ {r} : req'[i] = req[i]
  BY DEF ReadOrder, ReadOrders, ReadShipment, ReadForResend, Begin, Served
<1>3. CopyNames(shipments, req'[r])
  <2>1. CASE ReadOrder(r)
    <3>1. PICK u \in Users, o \in Orders, h \in {"status", "create", "sync"} :
            Begin(r, [pc |-> h, user |-> u, order |-> o, row |-> orders[o]])
      BY <2>1 DEF ReadOrder
    <3>2. req'[r] = [pc |-> h, user |-> u, order |-> o, row |-> orders[o]]
      BY <3>1 DEF Begin, Served
    <3>3. QED
      BY <3>2 DEF ContextInv, CopyNames
  <2>2. CASE ReadOrders(r)
    <3>1. PICK u \in Users, os \in (SUBSET Orders) \ {{}} :
            Begin(r, [pc |-> "batch", user |-> u, rows |-> [o \in os |-> orders[o]]])
      BY <2>2 DEF ReadOrders
    <3>2. req'[r] = [pc |-> "batch", user |-> u, rows |-> [o \in os |-> orders[o]]]
      BY <3>1 DEF Begin, Served
    <3>3. req'[r].pc = "batch" /\ req'[r].rows = [o \in os |-> orders[o]]
      BY <3>2
    <3>4. \A o \in os : Names(shipments, orders[o], o)
      BY DEF ContextInv
    <3>5. QED
      BY <3>3, <3>4 DEF CopyNames
  <2>3. CASE ReadShipment(r)
    <3>1. PICK u \in Users, s \in DOMAIN shipments :
            Begin(r, [pc |-> "update", user |-> u, shipment |-> s, copy |-> shipments[s]])
      BY <2>3 DEF ReadShipment
    <3>2. req'[r] = [pc |-> "update", user |-> u, shipment |-> s, copy |-> shipments[s]]
      BY <3>1 DEF Begin, Served
    <3>3. QED
      BY <3>2 DEF CopyNames
  <2>4. CASE ReadForResend(r)
    <3>1. req'[r] = [pc |-> "resend", user |-> req[r].user, shipment |-> req[r].shipment,
                     copy |-> req[r].copy, row |-> orders[req[r].copy.order]]
      BY <2>4 DEF ReadForResend, Served
    <3>2. req[r].copy.order \in Orders /\ req[r].pc = "update"
      BY <2>4, RequestKinds DEF ReadForResend, ContextInv, Shipment
    <3>3. /\ req[r].shipment \in DOMAIN shipments
          /\ shipments[req[r].shipment].order = req[r].copy.order
          /\ Names(shipments, orders[req[r].copy.order], req[r].copy.order)
      BY <3>2 DEF ContextInv, CopyNames
    <3>4. QED
      BY <3>1, <3>3 DEF CopyNames
  <2>5. QED
    BY <2>1, <2>2, <2>3, <2>4
<1>4. QED
  BY <1>1, <1>2, <1>3, ContextStep

\* A row mirrored from shipment s of the order names s.
LEMMA MirroredNames ==
  ASSUME NEW row \in Order, NEW s \in Shipments, NEW move \in Moves, NEW current \in Order,
         NEW o, NEW ships, s \in DOMAIN ships, ships[s].order = o
  PROVE  /\ Names(ships, Mirrored(row, s, move), o)
         /\ Names(ships, Flushed(current, row, Mirrored(row, s, move)), o)
<1>1. /\ Mirrored(row, s, move) \in Order
      /\ Mirrored(row, s, move).context = [shipment |-> s, status |-> move]
  BY MirroredType
<1>2. Flushed(current, row, Mirrored(row, s, move)).context = [shipment |-> s, status |-> move]
  BY <1>1, FlushedType
<1>3. QED
  BY <1>1, <1>2 DEF Names

LEMMA ContextCreate ==
  ASSUME ContextInv, NEW r \in Served, CreateShipment(r)
  PROVE  ContextInv'
<1> USE DEF ContextInv
<1> DEFINE o == req[r].order  row == req[r].row
<1>1. o \in Orders /\ row \in Order /\ orders[o] \in Order
  <2>1. o \in Orders /\ row \in Order
    BY RequestKinds DEF CreateShipment
  <2>2. QED
    BY <2>1 DEF TypeOK
<1>2. PICK s \in Unused, move \in Moves, cost \in Costs \cup {NoCost} :
        /\ shipments' = Inserted([new \in {s} |-> [order |-> o, status |-> move, cost |-> cost]])
        /\ [order |-> o, status |-> move, cost |-> cost] \in Shipment
        /\ orders'[o] = Flushed(orders[o], row, Mirrored(row, s, move))
        /\ \A p \in Orders \ {o} : orders'[p] = orders[p]
  BY CreateWritten
<1> HIDE DEF o, row
<1> DEFINE rows == [new \in {s} |-> [order |-> o, status |-> move, cost |-> cost]]
<1>3. /\ DOMAIN shipments \subseteq DOMAIN shipments' /\ s \in DOMAIN shipments'
      /\ \A t \in DOMAIN shipments : shipments'[t].order = shipments[t].order
      /\ shipments'[s].order = o
  <2>1. /\ DOMAIN rows = {s} /\ rows[s].order = o /\ DOMAIN rows \subseteq Unused
        /\ \A t \in DOMAIN rows : rows[t] \in Shipment
    BY <1>2
  <2> HIDE DEF rows
  <2>2. shipments' = Inserted(rows)
    BY <1>2 DEF rows
  <2>3. /\ DOMAIN shipments' = DOMAIN shipments \cup DOMAIN rows
        /\ \A t \in DOMAIN shipments : shipments'[t] = shipments[t]
        /\ \A t \in DOMAIN rows : shipments'[t] = rows[t]
    BY <2>1, <2>2, InsertedType
  <2>4. QED
    BY <2>1, <2>3
<1>4. Names(shipments', orders'[o], o)
  BY <1>1, <1>2, <1>3, MirroredNames DEF Unused
<1>5. \A p \in Orders : orders'[p].context = orders[p].context \/ Names(shipments', orders'[p], p)
  BY <1>2, <1>4
<1>6. /\ Served' = Served /\ \A i \in Served \ {r} : req'[i] = req[i]
      /\ CopyNames(shipments', req'[r])
  BY EndEffect DEF CreateShipment
<1>7. QED
  BY <1>3, <1>5, <1>6, CreateType, ContextStep

LEMMA ContextBatch ==
  ASSUME ContextInv, NEW r \in Served, BatchCreate(r)
  PROVE  ContextInv'
<1> USE DEF ContextInv
<1> DEFINE rows == req[r].rows
<1>1. \A o \in DOMAIN rows : o \in Orders /\ rows[o] \in Order /\ orders[o] \in Order
  <2>1. DOMAIN rows \subseteq Orders /\ \A o \in DOMAIN rows : rows[o] \in Order
    BY RequestKinds DEF BatchCreate
  <2>2. QED
    BY <2>1 DEF TypeOK
<1>2. PICK new \in SUBSET Unused : \E of \in [new -> DOMAIN rows], last \in [DOMAIN rows -> new] :
        BatchEffect(rows, new, of, last)
  BY BatchWritten
<1> HIDE DEF rows
<1>3. PICK of \in [new -> DOMAIN rows], last \in [DOMAIN rows -> new] :
        BatchEffect(rows, new, of, last)
  BY <1>2
<1> DEFINE drafts == [s \in new |-> [order |-> of[s], status |-> "draft", cost |-> NoCost]]
<1>4. /\ DOMAIN shipments \subseteq DOMAIN shipments' /\ new \subseteq DOMAIN shipments'
      /\ \A t \in DOMAIN shipments : shipments'[t].order = shipments[t].order
      /\ \A s \in new : shipments'[s].order = of[s]
  <2>1. /\ DOMAIN drafts = new /\ \A s \in new : drafts[s].order = of[s]
        /\ \A t \in DOMAIN drafts : drafts[t] \in Shipment
    BY <1>3 DEF BatchEffect
  <2> HIDE DEF drafts
  <2>2. shipments' = Inserted(drafts)
    BY <1>3 DEF drafts, BatchEffect
  <2>3. /\ DOMAIN shipments' = DOMAIN shipments \cup DOMAIN drafts
        /\ \A t \in DOMAIN shipments : shipments'[t] = shipments[t]
        /\ \A t \in DOMAIN drafts : shipments'[t] = drafts[t]
    BY <2>1, <2>2, InsertedType
  <2>4. QED
    BY <2>1, <2>3
<1>5. \A o \in DOMAIN rows : Names(shipments', orders'[o], o)
  <2> SUFFICES ASSUME NEW o \in DOMAIN rows PROVE Names(shipments', orders'[o], o)
    OBVIOUS
  <2>1. last[o] \in new /\ last[o] \in Shipments /\ of[last[o]] = o
    BY <1>3 DEF Unused, BatchEffect
  <2>2. last[o] \in DOMAIN shipments' /\ shipments'[last[o]].order = o
    BY <1>4, <2>1
  <2>3. QED
    BY <1>1, <1>3, <2>1, <2>2, MirroredNames DEF BatchEffect
<1>6. \A p \in Orders : orders'[p].context = orders[p].context \/ Names(shipments', orders'[p], p)
  BY <1>3, <1>5 DEF BatchEffect
<1>7. /\ Served' = Served /\ \A i \in Served \ {r} : req'[i] = req[i]
      /\ CopyNames(shipments', req'[r])
  BY EndEffect DEF BatchCreate
<1>8. QED
  BY <1>4, <1>6, <1>7, BatchType, ContextStep

\* An update mirrors the shipment into the order its copy names.
LEMMA ContextUpdate ==
  ASSUME ContextInv, NEW r \in Served, UpdateShipment(r) \/ Resend(r), TypeOK'
  PROVE  ContextInv'
<1> USE DEF ContextInv
<1> DEFINE s == req[r].shipment  copy == req[r].copy  o == copy.order
<1>1. /\ s \in Shipments /\ copy \in Shipment /\ o \in Orders /\ orders[o] \in Order
      /\ copy.status \in Moves
  <2>1. s \in Shipments /\ copy \in Shipment
    BY RequestKinds DEF UpdateShipment, Resend
  <2>2. QED
    BY <2>1 DEF TypeOK, Shipment
<1>2. s \in DOMAIN shipments /\ shipments[s].order = o
  BY DEF CopyNames, UpdateShipment, Resend
<1>3. /\ DOMAIN shipments' = DOMAIN shipments
      /\ \A t \in DOMAIN shipments : shipments'[t].order = shipments[t].order
  <2>1. CASE UpdateShipment(r)
    BY <2>1, UpdateWritten
  <2>2. CASE Resend(r)
    BY <2>2 DEF Resend
  <2>3. QED
    BY <2>1, <2>2
<1>4. Names(shipments', orders'[o], o) /\ \A p \in Orders \ {o} : orders'[p] = orders[p]
  <2>1. CASE UpdateShipment(r)
    <3>1. PICK move \in Moves :
            /\ orders'[o] = Mirrored(orders[o], s, move)
            /\ \A p \in Orders \ {o} : orders'[p] = orders[p]
      BY <2>1, UpdateWritten
    <3> HIDE DEF s, copy, o
    <3>2. QED
      BY <1>1, <1>2, <1>3, <3>1, MirroredNames
  <2>2. CASE Resend(r)
    <3>1. req[r].row \in Order
      BY <2>2, RequestKinds DEF Resend
    <3>2. /\ orders'[o] = Flushed(orders[o], req[r].row, Mirrored(req[r].row, s, copy.status))
          /\ \A p \in Orders \ {o} : orders'[p] = orders[p]
      BY <2>2, ResendWritten
    <3> HIDE DEF s, copy, o
    <3>3. QED
      BY <1>1, <1>2, <1>3, <3>1, <3>2, MirroredNames
  <2>3. QED
    BY <2>1, <2>2
<1> HIDE DEF s, copy, o
<1>5. \A p \in Orders : orders'[p].context = orders[p].context \/ Names(shipments', orders'[p], p)
  BY <1>4
<1>6. /\ Served' = Served /\ \A i \in Served \ {r} : req'[i] = req[i]
      /\ CopyNames(shipments', req'[r])
  BY EndEffect DEF UpdateShipment, Resend
<1>7. QED
  BY <1>3, <1>5, <1>6, ContextStep

LEMMA ContextStatus ==
  ASSUME ContextInv, NEW r \in Served, ChangeStatus(r) \/ SyncStatus(r) \/ Abandon(r), TypeOK'
  PROVE  ContextInv'
<1> USE DEF ContextInv
<1>1. shipments' = shipments
  BY DEF ChangeStatus, SyncStatus, Abandon
<1>2. \A p \in Orders : orders'[p].context = orders[p].context \/ Names(shipments', orders'[p], p)
  <2>1. CASE ChangeStatus(r)
    <3> DEFINE o == req[r].order  row == req[r].row
    <3>1. /\ o \in Orders /\ row \in Order /\ orders[o] \in Order
          /\ Names(shipments, row, o)
      <4>1. o \in Orders /\ row \in Order /\ req[r].pc = "status"
        BY <2>1, RequestKinds DEF ChangeStatus
      <4>2. QED
        BY <4>1 DEF TypeOK, CopyNames
    <3>2. PICK new \in Order :
            /\ new.context = row.context
            /\ orders'[o] = Flushed(orders[o], row, new)
            /\ \A p \in Orders \ {o} : orders'[p] = orders[p]
      BY <2>1, ChangeWritten
    <3> HIDE DEF o, row
    <3>3. orders'[o].context = row.context
      BY <3>1, <3>2, FlushedType
    <3>4. Names(shipments', orders'[o], o)
      BY <1>1, <3>1, <3>3 DEF Names
    <3>5. QED
      BY <3>2, <3>4
  <2>2. CASE SyncStatus(r)
    BY <2>2, SyncWritten
  <2>3. CASE Abandon(r)
    BY <2>3 DEF Abandon
  <2>4. QED
    BY <2>1, <2>2, <2>3
<1>3. /\ Served' = Served /\ \A i \in Served \ {r} : req'[i] = req[i]
      /\ CopyNames(shipments', req'[r])
  BY EndEffect DEF ChangeStatus, SyncStatus, Abandon
<1>4. QED
  BY <1>1, <1>2, <1>3, ContextStep

LEMMA ContextNext == ContextInv /\ [Next]_vars => ContextInv'
<1> SUFFICES ASSUME ContextInv, [Next]_vars PROVE ContextInv'
  OBVIOUS
<1>1. TypeOK'
  BY NextType DEF ContextInv
<1>2. CASE UNCHANGED vars
  BY <1>1, <1>2 DEF vars, ContextInv, Served
<1>3. QED
  BY <1>1, <1>2, ContextRead, ContextCreate, ContextBatch, ContextUpdate, ContextStatus
     DEF Next, ShipmentStep, Quiet

\* The shipment an order's platform_data names exists and is one of that order, however
\* stale the copies of platform_data are that requests write over each other
\* (OrderFulfillment.ContextOfOrder).
THEOREM ContextIsOfItsOrder == Spec => []ContextOfOrder
<1>1. ContextInv => ContextOfOrder
  BY DEF ContextInv, ContextOfOrder, Names
<1>2. QED
  BY <1>1, ContextInit, ContextNext, PTL DEF Spec

-----------------------------------------------------------------------------
(* One request at a time.                                                  *)

\* What a session has read is what the tables still hold.
Current(q) ==
  /\ q.pc \in {"status", "create", "sync"} => q.row = orders[q.order]
  /\ q.pc = "batch" => \A o \in DOMAIN q.rows : q.rows[o] = orders[o]
  /\ q.pc \in {"update", "resend"} => q.copy = shipments[q.shipment]
  /\ q.pc = "resend" => q.row = orders[q.copy.order]

Mirrors ==
  \A o \in Orders : orders[o].context.shipment # NoShipment =>
    orders[o].context.status = shipments[orders[o].context.shipment].status

Booking ==
  \A s \in DOMAIN shipments : shipments[s].cost # NoCost =>
    \E u \in Users : ledger[<<u, s>>] = <<shipments[s].cost>>

SerialInv ==
  /\ ContextInv /\ OneFreightPerUser
  /\ OneAtATime => Mirrors /\ Booking /\ \A r \in Served : Current(req[r])

\* The requests of a behaviour are fixed.
LEMMA ServedStays ==
  ASSUME TypeOK, [Next]_vars
  PROVE  Served' = Served
<1>1. ASSUME NEW r \in Served, End(r) PROVE Served' = Served
  BY <1>1, EndType
<1>2. ASSUME NEW r \in Served, ReadOrder(r) \/ ReadOrders(r) \/ ReadShipment(r) \/ ReadForResend(r)
      PROVE  Served' = Served
  BY <1>2 DEF ReadOrder, ReadOrders, ReadShipment, ReadForResend, Begin, Served
<1>3. CASE UNCHANGED vars
  BY <1>3 DEF vars, Served
<1>4. QED
  BY <1>1, <1>2, <1>3 DEF Next, ShipmentStep, Quiet, CreateShipment, BatchCreate, UpdateShipment,
                         Resend, ChangeStatus, SyncStatus, Abandon

LEMMA SerialInit == Init => SerialInv
<1> SUFFICES ASSUME Init PROVE SerialInv
  OBVIOUS
<1>1. Mirrors /\ Booking
  BY DEF Init, NewOrder, Mirrors, Booking
<1>2. \A r \in Served : Current(req[r])
  BY DEF Init, Served, Current
<1>3. OneFreightPerUser
  BY DEF Init, OneFreightPerUser
<1>4. QED
  BY <1>1, <1>2, <1>3, ContextInit DEF SerialInv

\* In turn a request holds what is there: whatever wrote before has ended.
LEMMA CopiesInTurn ==
  ASSUME SerialInv, OneAtATime, NEW r \in Served,
         \/ ReadOrder(r) \/ ReadOrders(r) \/ ReadShipment(r) \/ ReadForResend(r)
         \/ End(r)
  PROVE  \A i \in Served' : Current(req[i])'
<1> USE DEF SerialInv, ContextInv
<1>1. Served' = Served /\ \A i \in Served : i = r
  BY ServedStays, EndType DEF OneAtATime, ReadOrder, ReadOrders, ReadShipment, ReadForResend,
                              Begin, Served
<1>2. CASE End(r)
  <2>1. req'[r] = [pc |-> "idle"]
    BY <1>2, EndEffect
  <2>2. QED
    BY <1>1, <2>1 DEF Current
<1>3. CASE ReadOrder(r)
  <2>1. PICK u \in Users, o \in Orders, h \in {"status", "create", "sync"} :
          Begin(r, [pc |-> h, user |-> u, order |-> o, row |-> orders[o]])
    BY <1>3 DEF ReadOrder
  <2>2. req'[r] = [pc |-> h, user |-> u, order |-> o, row |-> orders[o]] /\ orders' = orders
    BY <2>1 DEF Begin, Served
  <2>3. QED
    BY <1>1, <2>2 DEF Current
<1>4. CASE ReadOrders(r)
  <2>1. PICK u \in Users, os \in (SUBSET Orders) \ {{}} :
          Begin(r, [pc |-> "batch", user |-> u, rows |-> [o \in os |-> orders[o]]])
    BY <1>4 DEF ReadOrders
  <2>2. req'[r] = [pc |-> "batch", user |-> u, rows |-> [o \in os |-> orders[o]]] /\ orders' = orders
    BY <2>1 DEF Begin, Served
  <2>3. req'[r].pc = "batch" /\ req'[r].rows = [o \in os |-> orders[o]]
    BY <2>2
  <2>4. QED
    BY <1>1, <2>2, <2>3 DEF Current
<1>5. CASE ReadShipment(r)
  <2>1. PICK u \in Users, s \in DOMAIN shipments :
          Begin(r, [pc |-> "update", user |-> u, shipment |-> s, copy |-> shipments[s]])
    BY <1>5 DEF ReadShipment
  <2>2. /\ req'[r] = [pc |-> "update", user |-> u, shipment |-> s, copy |-> shipments[s]]
        /\ shipments' = shipments
    BY <2>1 DEF Begin, Served
  <2>3. QED
    BY <1>1, <2>2 DEF Current
<1>6. CASE ReadForResend(r)
  <2>1. req'[r] = [pc |-> "resend", user |-> req[r].user, shipment |-> req[r].shipment,
                   copy |-> req[r].copy, row |-> orders[req[r].copy.order]]
    BY <1>6 DEF ReadForResend, Served
  <2>2. req[r].copy = shipments[req[r].shipment] /\ orders' = orders /\ shipments' = shipments
    BY <1>6 DEF ReadForResend, Current
  <2>3. QED
    BY <1>1, <2>1, <2>2 DEF Current
<1>7. QED
  BY <1>2, <1>3, <1>4, <1>5, <1>6

LEMMA OtherEntries ==
  ASSUME TypeOK, NEW u \in Users, NEW s \in Shipments, NEW cost \in Costs \cup {NoCost}
  PROVE  \A k \in Users \X Shipments : k # <<u, s>> => Booked(u, s, cost)[k] = ledger[k]
  BY BookedType

\* A booking of one shipment leaves the freight of the others booked.
LEMMA OthersBooked ==
  ASSUME TypeOK, Booking, NEW u \in Users, NEW s \in Shipments, NEW cost \in Costs \cup {NoCost},
         NEW t \in DOMAIN shipments, t # s, shipments[t].cost # NoCost
  PROVE  \E v \in Users : Booked(u, s, cost)[<<v, t>>] = <<shipments[t].cost>>
<1>1. PICK v \in Users : ledger[<<v, t>>] = <<shipments[t].cost>>
  BY DEF Booking
<1> DEFINE k == <<v, t>>
<1>2. k \in Users \X Shipments /\ k # <<u, s>> /\ ledger[k] = <<shipments[t].cost>>
  BY <1>1 DEF TypeOK
<1> HIDE DEF k
<1>3. Booked(u, s, cost)[k] = ledger[k]
  BY <1>2, OtherEntries, Zenon
<1>4. QED
  BY <1>2, <1>3 DEF k

\* What a row may lose in turn: nothing of its history; its status only if that is
\* not terminal.
Extends(old, new) ==
  /\ Len(new.history) >= Len(old.history)
  /\ SubSeq(new.history, 1, Len(old.history)) = old.history

Keeps(old, new) == new.history = old.history /\ (old.status \in Terminal => new.status = old.status)

\* In turn a shipment step mirrors into the current row.
LEMMA MirroredInTurn ==
  ASSUME NEW row \in Order, NEW s \in Shipments, NEW move \in Moves
  PROVE  /\ Flushed(row, row, Mirrored(row, s, move)) = Mirrored(row, s, move)
         /\ Mirrored(row, s, move).context = [shipment |-> s, status |-> move]
         /\ Keeps(row, Mirrored(row, s, move))
<1>1. Mirrored(row, s, move) \in Order
  BY MirroredType
<1>2. Flushed(row, row, Mirrored(row, s, move)) = Mirrored(row, s, move)
  BY <1>1, FlushedType
<1>3. QED
  BY <1>2, MirroredType DEF Keeps

LEMMA SerialCreate ==
  ASSUME SerialInv, OneAtATime, NEW r \in Served, CreateShipment(r)
  PROVE  Mirrors' /\ Booking' /\ \A p \in Orders : Keeps(orders[p], orders'[p])
<1> USE DEF SerialInv, ContextInv
<1> DEFINE o == req[r].order  row == req[r].row
<1>1. /\ o \in Orders /\ row \in Order /\ row = orders[o] /\ req[r].user \in Users
      /\ \A p \in Orders : orders[p] \in Order
  <2>1. o \in Orders /\ row \in Order /\ req[r].user \in Users
    BY RequestKinds DEF CreateShipment
  <2>2. QED
    BY <2>1 DEF TypeOK, Current, CreateShipment
<1>2. PICK s \in Unused, move \in Moves, cost \in Costs \cup {NoCost} :
        /\ shipments' = Inserted([new \in {s} |-> [order |-> o, status |-> move, cost |-> cost]])
        /\ [order |-> o, status |-> move, cost |-> cost] \in Shipment
        /\ orders'[o] = Flushed(orders[o], row, Mirrored(row, s, move))
        /\ \A p \in Orders \ {o} : orders'[p] = orders[p]
        /\ ledger' = Booked(req[r].user, s, cost)
  BY CreateWritten
<1> HIDE DEF o, row
<1> DEFINE rows == [new \in {s} |-> [order |-> o, status |-> move, cost |-> cost]]
<1>3. /\ DOMAIN shipments' = DOMAIN shipments \cup {s} /\ s \notin DOMAIN shipments
      /\ \A t \in DOMAIN shipments : shipments'[t] = shipments[t]
      /\ shipments'[s].status = move /\ shipments'[s].cost = cost
  <2>1. /\ DOMAIN rows = {s} /\ rows[s].status = move /\ rows[s].cost = cost
        /\ DOMAIN rows \subseteq Unused /\ \A t \in DOMAIN rows : rows[t] \in Shipment
    BY <1>2
  <2> HIDE DEF rows
  <2>2. shipments' = Inserted(rows)
    BY <1>2 DEF rows
  <2>3. /\ DOMAIN shipments' = DOMAIN shipments \cup DOMAIN rows
        /\ \A t \in DOMAIN shipments : shipments'[t] = shipments[t]
        /\ \A t \in DOMAIN rows : shipments'[t] = rows[t]
    BY <2>1, <2>2, InsertedType
  <2>4. QED
    BY <1>2, <2>1, <2>3 DEF Unused
<1>4. /\ orders'[o] = Mirrored(orders[o], s, move)
      /\ orders'[o].context = [shipment |-> s, status |-> move]
      /\ Keeps(orders[o], orders'[o])
  BY <1>1, <1>2, MirroredInTurn DEF Unused
<1>5. Mirrors'
  <2> SUFFICES ASSUME NEW p \in Orders, orders'[p].context.shipment # NoShipment
               PROVE  orders'[p].context.status = shipments'[orders'[p].context.shipment].status
    BY DEF Mirrors
  <2>1. CASE p = o
    BY <1>3, <1>4, <2>1
  <2>2. CASE p # o
    <3>1. orders'[p] = orders[p]
      BY <1>2, <2>2
    <3>2. orders[p].context.shipment \in DOMAIN shipments
      BY <3>1 DEF Names
    <3>3. QED
      BY <1>3, <3>1, <3>2 DEF Mirrors
  <2>3. QED
    BY <2>1, <2>2
<1>6. Booking'
  <2> SUFFICES ASSUME NEW t \in DOMAIN shipments', shipments'[t].cost # NoCost
               PROVE  \E u \in Users : ledger'[<<u, t>>] = <<shipments'[t].cost>>
    BY DEF Booking
  <2>1. CASE t = s
    <3>1. Booked(req[r].user, s, cost)[<<req[r].user, s>>] = <<cost>>
      <4>1. Len(ledger[<<req[r].user, s>>]) <= 1
        BY <1>1 DEF OneFreightPerUser, Unused
      <4>2. QED
        BY <1>1, <1>3, <2>1, <4>1, BookedType DEF Unused
    <3>2. QED
      BY <1>1, <1>2, <1>3, <2>1, <3>1
  <2>2. CASE t # s
    <3>1. t \in DOMAIN shipments /\ shipments'[t] = shipments[t]
      BY <1>3, <2>2
    <3>2. QED
      BY <1>1, <1>2, <2>2, <3>1, OthersBooked DEF Unused
  <2>3. QED
    BY <2>1, <2>2
<1>7. \A p \in Orders : Keeps(orders[p], orders'[p])
  BY <1>2, <1>4 DEF Keeps
<1>8. QED
  BY <1>5, <1>6, <1>7

LEMMA SerialBatch ==
  ASSUME SerialInv, OneAtATime, NEW r \in Served, BatchCreate(r)
  PROVE  Mirrors' /\ Booking' /\ \A p \in Orders : Keeps(orders[p], orders'[p])
<1> USE DEF SerialInv, ContextInv
<1> DEFINE rows == req[r].rows
<1>1. \A o \in DOMAIN rows : o \in Orders /\ rows[o] \in Order /\ rows[o] = orders[o]
  BY RequestKinds DEF BatchCreate, Current
<1>2. PICK new \in SUBSET Unused : \E of \in [new -> DOMAIN rows], last \in [DOMAIN rows -> new] :
        BatchEffect(rows, new, of, last)
  BY BatchWritten
<1> HIDE DEF rows
<1>3. PICK of \in [new -> DOMAIN rows], last \in [DOMAIN rows -> new] :
        BatchEffect(rows, new, of, last)
  BY <1>2
<1> DEFINE drafts == [s \in new |-> [order |-> of[s], status |-> "draft", cost |-> NoCost]]
<1>4. /\ DOMAIN shipments' = DOMAIN shipments \cup new
      /\ \A t \in DOMAIN shipments : shipments'[t] = shipments[t]
      /\ \A s \in new : shipments'[s].status = "draft" /\ shipments'[s].cost = NoCost
  <2>1. /\ DOMAIN drafts = new
        /\ \A s \in new : drafts[s].status = "draft" /\ drafts[s].cost = NoCost
        /\ \A t \in DOMAIN drafts : drafts[t] \in Shipment
    BY <1>3 DEF BatchEffect
  <2> HIDE DEF drafts
  <2>2. shipments' = Inserted(drafts)
    BY <1>3 DEF drafts, BatchEffect
  <2>3. /\ DOMAIN shipments' = DOMAIN shipments \cup DOMAIN drafts
        /\ \A t \in DOMAIN shipments : shipments'[t] = shipments[t]
        /\ \A t \in DOMAIN drafts : shipments'[t] = drafts[t]
    BY <2>1, <2>2, InsertedType
  <2>4. QED
    BY <2>1, <2>3
<1> HIDE DEF drafts
<1>5. \A o \in DOMAIN rows :
        /\ orders'[o].context = [shipment |-> last[o], status |-> "draft"]
        /\ last[o] \in new /\ Keeps(orders[o], orders'[o])
  <2> SUFFICES ASSUME NEW o \in DOMAIN rows
               PROVE  /\ orders'[o].context = [shipment |-> last[o], status |-> "draft"]
                      /\ last[o] \in new /\ Keeps(orders[o], orders'[o])
    OBVIOUS
  <2>1. last[o] \in new /\ last[o] \in Shipments
    BY <1>3 DEF Unused
  <2>2. orders'[o] = Flushed(orders[o], orders[o], Mirrored(orders[o], last[o], "draft"))
    BY <1>1, <1>3 DEF BatchEffect
  <2>3. QED
    BY <1>1, <2>1, <2>2, MirroredInTurn
<1>6. \A o \in Orders \ DOMAIN rows : orders'[o] = orders[o]
  BY <1>3 DEF BatchEffect
<1>7. Mirrors'
  <2> SUFFICES ASSUME NEW p \in Orders, orders'[p].context.shipment # NoShipment
               PROVE  orders'[p].context.status = shipments'[orders'[p].context.shipment].status
    BY DEF Mirrors
  <2>1. CASE p \in DOMAIN rows
    <3>1. orders'[p].context = [shipment |-> last[p], status |-> "draft"]
      BY <1>5, <2>1
    <3>2. shipments'[last[p]].status = "draft"
      BY <1>4, <1>5, <2>1
    <3>3. QED
      BY <3>1, <3>2
  <2>2. CASE p \notin DOMAIN rows
    <3>1. orders'[p] = orders[p]
      BY <1>6, <2>2
    <3>2. orders[p].context.shipment \in DOMAIN shipments
      BY <3>1 DEF Names
    <3>3. QED
      BY <1>4, <3>1, <3>2 DEF Mirrors
  <2>3. QED
    BY <2>1, <2>2
<1>8. Booking'
  BY <1>4 DEF Booking, BatchCreate
<1>9. \A p \in Orders : Keeps(orders[p], orders'[p])
  BY <1>5, <1>6 DEF Keeps
<1>10. QED
  BY <1>7, <1>8, <1>9

\* An update of shipment s in turn: its order mirrors the values it has now, and a
\* cost that changed, or was sent again, is booked.
LEMMA SerialWritten ==
  ASSUME SerialInv, OneAtATime, NEW r \in Served, UpdateShipment(r) \/ Resend(r)
  PROVE  LET s == req[r].shipment  o == req[r].copy.order IN
         /\ s \in DOMAIN shipments /\ shipments[s].order = o /\ o \in Orders
         /\ req[r].user \in Users
         /\ \E move \in Moves, cost \in Costs \cup {NoCost} :
              /\ orders'[o] = Mirrored(orders[o], s, move)
              /\ shipments'[s].status = move /\ shipments'[s].cost = cost
              /\ \/ ledger' = Booked(req[r].user, s, cost)
                 \/ ledger' = ledger /\ cost = shipments[s].cost
         /\ DOMAIN shipments' = DOMAIN shipments
         /\ \A t \in DOMAIN shipments : t # s => shipments'[t] = shipments[t]
         /\ \A p \in Orders \ {o} : orders'[p] = orders[p]
<1> USE DEF SerialInv, ContextInv
<1> DEFINE s == req[r].shipment  copy == req[r].copy  o == copy.order
<1>1. /\ s \in DOMAIN shipments /\ shipments[s].order = o /\ copy = shipments[s]
      /\ req[r].user \in Users /\ copy \in Shipment
  BY RequestKinds DEF CopyNames, Current, UpdateShipment, Resend
<1>2. /\ o \in Orders /\ orders[o] \in Order /\ copy.status \in Moves
      /\ copy.cost \in Costs \cup {NoCost} /\ s \in Shipments
  BY <1>1 DEF Shipment, TypeOK
<1>3. CASE UpdateShipment(r)
  <2>1. PICK move \in Moves, cost \in Costs \cup {NoCost}, givesCost \in BOOLEAN :
          /\ cost # copy.cost => givesCost
          /\ DOMAIN shipments' = DOMAIN shipments
          /\ s \in DOMAIN shipments =>
               /\ shipments'[s].status = IF move = copy.status THEN shipments[s].status ELSE move
               /\ shipments'[s].cost = IF cost = copy.cost THEN shipments[s].cost ELSE cost
          /\ \A t \in DOMAIN shipments : t # s => shipments'[t] = shipments[t]
          /\ orders'[o] = Mirrored(orders[o], s, move)
          /\ \A p \in Orders \ {o} : orders'[p] = orders[p]
          /\ ledger' = IF givesCost THEN Booked(req[r].user, s, cost) ELSE ledger
    BY <1>3, UpdateWritten
  <2> HIDE DEF s, copy, o
  <2>2. shipments'[s].status = move /\ shipments'[s].cost = cost
    BY <1>1, <2>1
  <2>3. ledger' = Booked(req[r].user, s, cost) \/ (ledger' = ledger /\ cost = shipments[s].cost)
    BY <1>1, <2>1
  <2>4. QED
    BY <1>1, <1>2, <2>1, <2>2, <2>3 DEF s, copy, o
<1>4. CASE Resend(r)
  <2>1. req[r].row = orders[o]
    BY <1>4 DEF Resend, Current
  <2>2. PICK givesCost \in BOOLEAN :
          /\ orders'[o] = Flushed(orders[o], req[r].row, Mirrored(req[r].row, s, copy.status))
          /\ \A p \in Orders \ {o} : orders'[p] = orders[p]
          /\ ledger' = IF givesCost THEN Booked(req[r].user, s, copy.cost) ELSE ledger
    BY <1>4, ResendWritten
  <2>3. shipments' = shipments
    BY <1>4 DEF Resend
  <2> HIDE DEF s, copy, o
  <2>4. orders'[o] = Mirrored(orders[o], s, copy.status)
    <3>1. Flushed(orders[o], orders[o], Mirrored(orders[o], s, copy.status))
            = Mirrored(orders[o], s, copy.status)
      BY <1>2, MirroredInTurn, Zenon
    <3>2. QED
      BY <2>1, <2>2, <3>1, Zenon
  <2>5. \/ ledger' = Booked(req[r].user, s, copy.cost)
        \/ ledger' = ledger /\ copy.cost = shipments[s].cost
    BY <1>1, <2>2
  <2>6. QED
    BY <1>1, <1>2, <2>2, <2>3, <2>4, <2>5 DEF s, copy, o
<1>5. QED
  BY <1>3, <1>4

LEMMA SerialUpdate ==
  ASSUME SerialInv, OneAtATime, NEW r \in Served, UpdateShipment(r) \/ Resend(r)
  PROVE  Mirrors' /\ Booking' /\ \A p \in Orders : Keeps(orders[p], orders'[p])
<1> USE DEF SerialInv, ContextInv
<1> DEFINE s == req[r].shipment  o == req[r].copy.order
<1>1. /\ s \in DOMAIN shipments /\ shipments[s].order = o /\ o \in Orders
      /\ req[r].user \in Users
      /\ DOMAIN shipments' = DOMAIN shipments
      /\ \A t \in DOMAIN shipments : t # s => shipments'[t] = shipments[t]
      /\ \A p \in Orders \ {o} : orders'[p] = orders[p]
  BY SerialWritten
<1>2. PICK move \in Moves, cost \in Costs \cup {NoCost} :
        /\ orders'[o] = Mirrored(orders[o], s, move)
        /\ shipments'[s].status = move /\ shipments'[s].cost = cost
        /\ \/ ledger' = Booked(req[r].user, s, cost)
           \/ ledger' = ledger /\ cost = shipments[s].cost
  BY SerialWritten
<1> HIDE DEF s, o
<1>3. s \in Shipments /\ orders[o] \in Order
  BY <1>1 DEF TypeOK
<1>4. /\ orders'[o].context = [shipment |-> s, status |-> move]
      /\ Keeps(orders[o], orders'[o])
  BY <1>2, <1>3, MirroredInTurn
<1>5. Mirrors'
  <2> SUFFICES ASSUME NEW p \in Orders, orders'[p].context.shipment # NoShipment
               PROVE  orders'[p].context.status = shipments'[orders'[p].context.shipment].status
    BY DEF Mirrors
  <2>1. CASE p = o
    BY <1>2, <1>4, <2>1
  <2>2. CASE p # o
    <3>1. orders'[p] = orders[p]
      BY <1>1, <2>2
    <3>2. /\ orders[p].context.shipment \in DOMAIN shipments
          /\ shipments[orders[p].context.shipment].order = p
      BY <3>1 DEF Names
    <3>3. orders[p].context.shipment # s
      BY <1>1, <2>2, <3>2
    <3>4. QED
      BY <1>1, <3>1, <3>2, <3>3 DEF Mirrors
  <2>3. QED
    BY <2>1, <2>2
<1>6. Booking'
  <2> SUFFICES ASSUME NEW t \in DOMAIN shipments', shipments'[t].cost # NoCost
               PROVE  \E u \in Users : ledger'[<<u, t>>] = <<shipments'[t].cost>>
    BY DEF Booking
  <2>1. CASE ledger' = ledger /\ cost = shipments[s].cost
    <3>1. t \in DOMAIN shipments /\ shipments'[t].cost = shipments[t].cost
      BY <1>1, <1>2, <2>1
    <3>2. QED
      BY <2>1, <3>1 DEF Booking
  <2>2. CASE ledger' = Booked(req[r].user, s, cost) /\ t = s
    <3>1. Len(ledger[<<req[r].user, s>>]) <= 1
      BY <1>1, <1>3 DEF OneFreightPerUser
    <3>2. cost # NoCost
      BY <1>2, <2>2
    <3>3. Booked(req[r].user, s, cost)[<<req[r].user, s>>] = <<cost>>
      BY <1>1, <1>3, <3>1, <3>2, BookedType
    <3>4. QED
      BY <1>1, <1>2, <2>2, <3>3
  <2>3. CASE ledger' = Booked(req[r].user, s, cost) /\ t # s
    <3>1. t \in DOMAIN shipments /\ shipments'[t] = shipments[t]
      BY <1>1, <2>3
    <3>2. QED
      BY <1>1, <1>3, <2>3, <3>1, OthersBooked
  <2>4. QED
    BY <1>2, <2>1, <2>2, <2>3
<1>7. \A p \in Orders : Keeps(orders[p], orders'[p])
  BY <1>1, <1>4 DEF Keeps
<1>8. QED
  BY <1>5, <1>6, <1>7

\* A status change or a sync touches neither the context nor the shipments.
LEMMA SerialStatus ==
  ASSUME SerialInv, OneAtATime, NEW r \in Served, ChangeStatus(r) \/ SyncStatus(r) \/ Abandon(r)
  PROVE  Mirrors' /\ Booking'
<1> USE DEF SerialInv, ContextInv
<1>1. shipments' = shipments /\ ledger' = ledger
  BY DEF ChangeStatus, SyncStatus, Abandon
<1>2. \A p \in Orders : orders'[p].context = orders[p].context
  <2>1. CASE ChangeStatus(r)
    <3> DEFINE o == req[r].order  row == req[r].row
    <3>1. o \in Orders /\ row \in Order /\ row = orders[o]
      BY <2>1, RequestKinds DEF ChangeStatus, Current
    <3>2. PICK new \in Order :
            /\ new.context = row.context
            /\ orders'[o] = Flushed(orders[o], row, new)
            /\ \A p \in Orders \ {o} : orders'[p] = orders[p]
      BY <2>1, ChangeWritten
    <3> HIDE DEF o, row
    <3>3. QED
      BY <3>1, <3>2, FlushedType
  <2>2. CASE SyncStatus(r)
    BY <2>2, SyncWritten
  <2>3. CASE Abandon(r)
    BY <2>3 DEF Abandon
  <2>4. QED
    BY <2>1, <2>2, <2>3
<1>3. QED
  BY <1>1, <1>2 DEF Mirrors, Booking

LEMMA SerialNext == SerialInv /\ [Next]_vars => SerialInv'
<1> SUFFICES ASSUME SerialInv, [Next]_vars PROVE SerialInv'
  OBVIOUS
<1>1. ContextInv' /\ OneFreightPerUser' /\ Served' = Served
  BY ContextNext, BooksOnce, ServedStays DEF SerialInv, ContextInv
<1>2. OneAtATime' <=> OneAtATime
  BY <1>1 DEF OneAtATime
<1>3. CASE UNCHANGED vars
  BY <1>1, <1>2, <1>3 DEF vars, SerialInv, Mirrors, Booking, Current, Served
<1>4. ASSUME OneAtATime, NEW r \in Served,
             ReadOrder(r) \/ ReadOrders(r) \/ ReadShipment(r) \/ ReadForResend(r)
      PROVE  SerialInv'
  <2>1. \A i \in Served' : Current(req[i])'
    BY <1>4, CopiesInTurn DEF SerialInv
  <2>2. Mirrors' /\ Booking'
    BY <1>4 DEF SerialInv, Mirrors, Booking, ReadOrder, ReadOrders, ReadShipment, ReadForResend,
                Begin
  <2>3. QED
    BY <1>1, <2>1, <2>2 DEF SerialInv
<1>5. ASSUME OneAtATime, NEW r \in Served,
             \/ CreateShipment(r) \/ BatchCreate(r) \/ UpdateShipment(r) \/ Resend(r)
             \/ ChangeStatus(r) \/ SyncStatus(r) \/ Abandon(r)
      PROVE  SerialInv'
  <2>1. End(r)
    BY <1>5 DEF CreateShipment, BatchCreate, UpdateShipment, Resend, ChangeStatus, SyncStatus,
                Abandon
  <2>2. \A i \in Served' : Current(req[i])'
    BY <1>5, <2>1, CopiesInTurn DEF SerialInv
  <2>3. Mirrors' /\ Booking'
    BY <1>5, SerialCreate, SerialBatch, SerialUpdate, SerialStatus
  <2>4. QED
    BY <1>1, <2>2, <2>3 DEF SerialInv
<1>6. CASE ~OneAtATime
  BY <1>1, <1>2, <1>6 DEF SerialInv
<1>7. QED
  BY <1>3, <1>4, <1>5, <1>6 DEF Next, ShipmentStep, Quiet

\* One request at a time: the freight of every shipment is in the ledger, once for a
\* user who entered it, with the amount the shipment has now (_sync_shipping_cost_ledger).
THEOREM FreightIsBooked == Spec => []FreightBooked
<1>1. SerialInv => FreightBooked
  BY DEF SerialInv, Booking, FreightBooked
<1>2. QED
  BY <1>1, SerialInit, SerialNext, PTL DEF Spec

\* One request at a time: the shipment status shown with an order is the one the
\* shipment has, whatever order the creations, updates, resends, status changes and
\* syncs come in (_sync_order_local_shipment_context).
THEOREM ContextMirrorsItsShipment == Spec => []MirrorsShipment
<1>1. SerialInv => MirrorsShipment
  BY DEF SerialInv, Mirrors, MirrorsShipment
<1>2. QED
  BY <1>1, SerialInit, SerialNext, PTL DEF Spec

\* In turn the shipment steps keep histories and terminal statuses.
LEMMA ShipmentKeeps ==
  ASSUME SerialInv, OneAtATime, ShipmentStep
  PROVE  \A p \in Orders : Keeps(orders[p], orders'[p])
BY SerialCreate, SerialBatch, SerialUpdate DEF ShipmentStep

\* In turn a status change extends the history of its order by one entry.
LEMMA ChangeExtends ==
  ASSUME SerialInv, OneAtATime, NEW r \in Served, ChangeStatus(r)
  PROVE  \A p \in Orders : \/ orders'[p].history = orders[p].history
                           \/ \E moved \in [from : Statuses, to : Statuses] :
                                orders'[p].history = Append(orders[p].history, moved)
<1> USE DEF SerialInv, ContextInv
<1> DEFINE o == req[r].order  row == req[r].row
<1>1. o \in Orders /\ row \in Order /\ row = orders[o]
  BY RequestKinds DEF ChangeStatus, Current
<1>2. PICK new \in Order, moved \in [from : Statuses, to : Statuses] :
        /\ new.history = Append(row.history, moved)
        /\ orders'[o] = Flushed(orders[o], row, new)
        /\ \A p \in Orders \ {o} : orders'[p] = orders[p]
  BY ChangeWritten
<1> HIDE DEF o, row
<1>3. orders'[o].history = Append(orders[o].history, moved)
  BY <1>1, <1>2, FlushedType
<1>4. QED
  BY <1>2, <1>3

\* A history that is the same, or has one entry more, has lost nothing.
LEMMA Extended ==
  ASSUME NEW S, NEW old \in Seq(S), NEW moved \in S, NEW new,
         new = old \/ new = Append(old, moved)
  PROVE  Len(new) >= Len(old) /\ SubSeq(new, 1, Len(old)) = old
<1>1. CASE new = old
  <2>1. SubSeq(old, 1, Len(old)) = old
    OBVIOUS
  <2>2. QED
    BY <1>1, <2>1
<1>2. CASE new = Append(old, moved)
  <2>1. SubSeq(Append(old, moved), 1, Len(old)) = old
    OBVIOUS
  <2>2. Len(Append(old, moved)) >= Len(old)
    OBVIOUS
  <2>3. QED
    BY <1>2, <2>1, <2>2
<1>3. QED
  BY <1>1, <1>2

\* One request at a time: no shipment moves an order out of a terminal status
\* (_advance_order_status_from_shipment, with the flush of the row it was read into).
THEOREM TerminalIsKeptInTurn == Spec => TerminalKeptInTurn
<1>1. SerialInv /\ [Next]_vars =>
        [ShipmentStep /\ OneAtATime => \A o \in Orders :
           orders[o].status \in Terminal => orders'[o].status = orders[o].status]_vars
  BY ShipmentKeeps DEF Keeps
<1>2. QED
  BY <1>1, SerialInit, SerialNext, PTL DEF Spec, TerminalKeptInTurn

\* One request at a time: no step of any handler loses an entry of status_history,
\* although each writes platform_data as a whole.
THEOREM HistoryIsOnlyExtended == Spec => HistoryOnlyGrows
<1> DEFINE Grows == OneAtATime => \A o \in Orders : LET old == orders[o].history IN
                      /\ Len(orders'[o].history) >= Len(old)
                      /\ SubSeq(orders'[o].history, 1, Len(old)) = old
<1>1. SerialInv /\ [Next]_vars => [Grows]_vars
  <2> SUFFICES ASSUME SerialInv, Next, OneAtATime, NEW o \in Orders
               PROVE  /\ Len(orders'[o].history) >= Len(orders[o].history)
                      /\ SubSeq(orders'[o].history, 1, Len(orders[o].history)) = orders[o].history
    OBVIOUS
  <2>1. orders[o].history \in Seq([from : Statuses, to : Statuses])
    BY DEF SerialInv, ContextInv, TypeOK, Order
  <2>2. \/ orders'[o].history = orders[o].history
        \/ \E moved \in [from : Statuses, to : Statuses] :
             orders'[o].history = Append(orders[o].history, moved)
    <3>1. CASE ShipmentStep
      BY <3>1, ShipmentKeeps DEF Keeps
    <3>2. ASSUME NEW r \in Served, ChangeStatus(r)
          PROVE  \/ orders'[o].history = orders[o].history
                 \/ \E moved \in [from : Statuses, to : Statuses] :
                      orders'[o].history = Append(orders[o].history, moved)
      BY <3>2, ChangeExtends
    <3>3. ASSUME NEW r \in Served, SyncStatus(r)
          PROVE  orders'[o].history = orders[o].history
      BY <3>3, SyncWritten DEF SerialInv, ContextInv
    <3>4. ASSUME NEW r \in Served,
                 \/ ReadOrder(r) \/ ReadOrders(r) \/ ReadShipment(r) \/ ReadForResend(r)
                 \/ Abandon(r)
          PROVE  orders' = orders
      BY <3>4 DEF ReadOrder, ReadOrders, ReadShipment, ReadForResend, Begin, Abandon
    <3>5. CASE Quiet
      BY <3>5 DEF Quiet, vars
    <3>6. QED
      BY <3>1, <3>2, <3>3, <3>4, <3>5 DEF Next
  <2>3. [from |-> "pending", to |-> "pending"] \in [from : Statuses, to : Statuses]
    BY FulfillmentAssumption
  <2> DEFINE old == orders[o].history  new == orders'[o].history
  <2> HIDE DEF old, new
  <2>4. Len(new) >= Len(old) /\ SubSeq(new, 1, Len(old)) = old
    <3>1. old \in Seq([from : Statuses, to : Statuses])
      BY <2>1 DEF old
    <3>2. \E moved \in [from : Statuses, to : Statuses] : new = old \/ new = Append(old, moved)
      BY <2>2, <2>3 DEF old, new
    <3>3. QED
      BY <3>1, <3>2, Extended
  <2>5. QED
    BY <2>4 DEF old, new
<1>2. QED
  BY <1>1, SerialInit, SerialNext, PTL DEF Spec, HistoryOnlyGrows

=============================================================================
