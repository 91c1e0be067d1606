--------------------------- MODULE InventoryAlerts ---------------------------
(***************************************************************************)
(* inventory_alert_service for one user: the scan POST /inventory-alerts/  *)
(* check starts, the alerts it leaves and the handlers that acknowledge or *)
(* clear them.                                                             *)
(*                                                                         *)
(* A scan awaits twice for each rule: it reads the stock of the listing,   *)
(* then looks for an open alert.  Its inserts wait in the session; the     *)
(* next SELECT flushes them, and from then to its commit the scan holds    *)
(* the write lock.  So the look-up that precedes its first insert is the   *)
(* one another scan can make stale.                                        *)
(***************************************************************************)
EXTENDS Integers, Sequences, FiniteSets

CONSTANTS MaxRules,   \* rules are numbered as they are created, 1 .. MaxRules
          Scans,      \* scans that may run at the same time
          Handlers,   \* acknowledge and clear requests served at the same time
          MaxScans,   \* bound on the scans of a behaviour
          MaxHandled, \* bound on the handler requests of a behaviour
          Nobody      \* no scan holds the write lock

ASSUME AlertsAssumption ==
  /\ MaxRules \in Nat /\ MaxScans \in Nat /\ MaxHandled \in Nat
  /\ Nobody \notin Scans /\ IsFiniteSet(Scans)

Rules == 1 .. MaxRules

VARIABLES rules,    \* "none" (not created), "on", "off" or "deleted"
          stock,    \* of the rule's listing: "low", "enough" or "unknown"
          alerts,   \* the committed alert logs, in the order of their inserts
          scan,     \* the scans
          lock,     \* the scan between its first flush and its commit
          handler,  \* the handlers, with the alert each has read
          scans, handled

vars == <<rules, stock, alerts, scan, lock, handler, scans, handled>>

Statuses == {"open", "acknowledged", "cleared"}
Alert == [rule : Rules, status : Statuses]

\* todo: rules still to be checked, newest first; pending: alerts added to the session.
\* History, due: the rules that were low, and whose alerts no handler touched, since
\* the scan began.
Scan == [pc : {"idle", "stock", "open"}, todo : SUBSET Rules,
         pending : Seq(Rules), due : SUBSET Rules]

Handler == [pc : {"idle"}]
      \cup [pc : {"acknowledge", "clear"}, alert : Nat \ {0}, copy : Statuses]

\* The scans of this behaviour: with one, the user waits for every answer.
Running == DOMAIN scan

TypeOK ==
  /\ rules \in [Rules -> {"none", "on", "off", "deleted"}]
  /\ stock \in [Rules -> {"low", "enough", "unknown"}]
  /\ alerts \in Seq(Alert)
  /\ Running \subseteq Scans /\ scan \in [Running -> Scan]
  /\ lock \in Running \cup {Nobody}
  /\ handler \in [Handlers -> Handler]
  /\ scans \in 0 .. MaxScans /\ handled \in 0 .. MaxHandled

NoScan == [pc |-> "idle", todo |-> {}, pending |-> <<>>, due |-> {}]

Init ==
  /\ rules = [r \in Rules |-> "none"]
  /\ stock \in [Rules -> {"low", "enough", "unknown"}]
  /\ alerts = <<>>
  /\ \E S \in SUBSET Scans : scan = [s \in S |-> NoScan]
  /\ lock = Nobody
  /\ handler = [h \in Handlers |-> [pc |-> "idle"]]
  /\ scans = 0 /\ handled = 0

-----------------------------------------------------------------------------
(* Rules and stock, written by requests and by the product sync while no   *)
(* scan holds the write lock.                                              *)

CreateRule ==
  /\ lock = Nobody
  /\ \E r \in Rules : /\ rules[r] = "none" /\ \A q \in 1 .. r - 1 : rules[q] # "none"
                      /\ rules' = [rules EXCEPT ![r] = "on"]
  /\ UNCHANGED <<stock, alerts, scan, lock, handler, scans, handled>>

UpdateRule ==
  /\ lock = Nobody
  /\ \E r \in Rules : /\ rules[r] \in {"on", "off"}
                      /\ rules' = [rules EXCEPT ![r] = IF @ = "on" THEN "off" ELSE "on"]
  /\ UNCHANGED <<stock, alerts, scan, lock, handler, scans, handled>>

\* The alerts of a deleted rule stay.
DeleteRule ==
  /\ lock = Nobody
  /\ \E r \in Rules : /\ rules[r] \in {"on", "off"}
                      /\ rules' = [rules EXCEPT ![r] = "deleted"]
  /\ UNCHANGED <<stock, alerts, scan, lock, handler, scans, handled>>

Undue(r) == [s \in Running |-> [scan[s] EXCEPT !.due = @ \ {r}]]

\* The product sync stores another stock, or puts the listing on or takes it off sale.
StockChange ==
  /\ lock = Nobody
  /\ \E r \in Rules, n \in {"low", "enough", "unknown"} :
       /\ n # stock[r]
       /\ stock' = [stock EXCEPT ![r] = n]
       /\ scan' = Undue(r)
  /\ UNCHANGED <<rules, alerts, lock, handler, scans, handled>>

-----------------------------------------------------------------------------
(* check_inventory.                                                        *)

\* list_rules(enabled=True)
StartScan(s) ==
  /\ scan[s].pc = "idle" /\ scans < MaxScans
  /\ LET on == {r \in Rules : rules[r] = "on"} IN
       scan' = [scan EXCEPT ![s] = [pc |-> "stock", todo |-> on, pending |-> <<>>,
                                    due |-> {r \in on : stock[r] = "low"}]]
  /\ scans' = scans + 1
  /\ UNCHANGED <<rules, stock, alerts, lock, handler, handled>>

\* Mutant: the SELECT does not flush what is pending.
FlushLater(s) == UNCHANGED lock

\* What the session has pending is written, under the write lock.
Flush(s) ==
  IF scan[s].pending = <<>> THEN UNCHANGED lock
                            ELSE lock \in {Nobody, s} /\ lock' = s

\* order_by(desc(created_at))
Newest(s, r) == r \in scan[s].todo /\ \A q \in scan[s].todo : q <= r

\* The scan has something else to do, to check, or to write.
Scanned(s, pc, todo, pending) ==
  [scan EXCEPT ![s] = [pc |-> pc, todo |-> todo, pending |-> pending, due |-> scan[s].due]]

\* Mutant: a rule without confirmed stock ends the scan.
ReadStockBreaking(s, r) ==
  /\ scan[s].pc = "stock" /\ Newest(s, r)
  /\ Flush(s)
  /\ \/ stock[r] = "low" /\ scan' = Scanned(s, "open", scan[s].todo, scan[s].pending)
     \/ stock[r] = "enough" /\ scan' = Scanned(s, "stock", scan[s].todo \ {r}, scan[s].pending)
     \/ stock[r] = "unknown" /\ scan' = Scanned(s, "stock", {}, scan[s].pending)
  /\ UNCHANGED <<rules, stock, alerts, handler, scans, handled>>

ReadStock(s, r) ==
  /\ scan[s].pc = "stock" /\ Newest(s, r)
  /\ Flush(s)
  /\ \/ stock[r] = "low" /\ scan' = Scanned(s, "open", scan[s].todo, scan[s].pending)
     \/ stock[r] # "low" /\ scan' = Scanned(s, "stock", scan[s].todo \ {r}, scan[s].pending)
  /\ UNCHANGED <<rules, stock, alerts, handler, scans, handled>>

Open(r) == {i \in DOMAIN alerts : alerts[i].rule = r /\ alerts[i].status = "open"}

\* Mutant: the open alert is not looked for.
AddAlertUnchecked(s, r) ==
  /\ scan[s].pc = "open" /\ Newest(s, r)
  /\ scan' = Scanned(s, "stock", scan[s].todo \ {r}, Append(scan[s].pending, r))
  /\ UNCHANGED <<rules, stock, alerts, lock, handler, scans, handled>>

\* No open alert: one is added to the session.
AddAlert(s, r) ==
  /\ scan[s].pc = "open" /\ Newest(s, r) /\ Open(r) = {}
  /\ scan' = Scanned(s, "stock", scan[s].todo \ {r}, Append(scan[s].pending, r))
  /\ UNCHANGED <<rules, stock, alerts, lock, handler, scans, handled>>

AlreadyAlerted(s, r) ==
  /\ scan[s].pc = "open" /\ Newest(s, r)
  /\ \E i \in DOMAIN alerts : Open(r) = {i}
  /\ scan' = Scanned(s, "stock", scan[s].todo \ {r}, scan[s].pending)
  /\ UNCHANGED <<rules, stock, alerts, lock, handler, scans, handled>>

\* The session is closed: what was not committed is gone.
Abort(s) ==
  /\ scan' = [scan EXCEPT ![s] = NoScan]
  /\ lock' = IF lock = s THEN Nobody ELSE lock
  /\ UNCHANGED <<rules, stock, alerts, handler, scans, handled>>

\* scalar_one_or_none finds two open alerts: MultipleResultsFound.
FindTwo(s, r) ==
  /\ scan[s].pc = "open" /\ Newest(s, r)
  /\ \E i, j \in Open(r) : i # j
  /\ Abort(s)

\* Five seconds without the write lock.
LockTimeout(s) ==
  /\ scan[s].pc = "stock" /\ scan[s].pending # <<>> /\ lock \notin {Nobody, s}
  /\ Abort(s)

Opened(pending) == [i \in DOMAIN pending |-> [rule |-> pending[i], status |-> "open"]]

\* Every rule has been checked: commit, if there is anything to.
EndScan(s) ==
  /\ scan[s].pc = "stock" /\ scan[s].todo = {}
  /\ scan[s].pending # <<>> => lock \in {Nobody, s}
  /\ alerts' = alerts \o Opened(scan[s].pending)
  /\ scan' = [scan EXCEPT ![s] = NoScan]
  /\ lock' = IF lock = s THEN Nobody ELSE lock
  /\ UNCHANGED <<rules, stock, handler, scans, handled>>

-----------------------------------------------------------------------------
(* acknowledge_alert and clear_alert.                                      *)

ReadAlert(h) ==
  /\ handler[h].pc = "idle" /\ handled < MaxHandled
  /\ \E i \in DOMAIN alerts, what \in {"acknowledge", "clear"} :
       handler' = [handler EXCEPT ![h] = [pc |-> what, alert |-> i, copy |-> alerts[i].status]]
  /\ handled' = handled + 1
  /\ UNCHANGED <<rules, stock, alerts, scan, lock, scans>>

\* Written only if the copy allows; the lock must be free.
WriteAlert(h, to) ==
  /\ lock = Nobody
  /\ alerts' = [alerts EXCEPT ![handler[h].alert].status = to]
  /\ scan' = Undue(alerts[handler[h].alert].rule)
  /\ handler' = [handler EXCEPT ![h] = [pc |-> "idle"]]
  /\ UNCHANGED <<rules, stock, lock, scans, handled>>

Acknowledge(h) ==
  handler[h].pc = "acknowledge" /\ handler[h].copy = "open" /\ WriteAlert(h, "acknowledged")

Clear(h) ==
  handler[h].pc = "clear" /\ handler[h].copy # "cleared" /\ WriteAlert(h, "cleared")

\* 404: handled already; or timed out on the lock.
Refuse(h) ==
  /\ handler[h].pc # "idle"
  /\ handler' = [handler EXCEPT ![h] = [pc |-> "idle"]]
  /\ UNCHANGED <<rules, stock, alerts, scan, lock, scans, handled>>

-----------------------------------------------------------------------------

Crash ==
  /\ scan' = [s \in Running |-> NoScan] /\ lock' = Nobody
  /\ handler' = [h \in Handlers |-> [pc |-> "idle"]]
  /\ UNCHANGED <<rules, stock, alerts, scans, handled>>

Next ==
  \/ CreateRule \/ UpdateRule \/ DeleteRule \/ StockChange
  \/ \E s \in Running :
       \/ StartScan(s) \/ LockTimeout(s) \/ EndScan(s)
       \/ \E r \in Rules :
            ReadStock(s, r) \/ AddAlert(s, r) \/ AlreadyAlerted(s, r) \/ FindTwo(s, r)
  \/ \E h \in Handlers : ReadAlert(h) \/ Acknowledge(h) \/ Clear(h) \/ Refuse(h)
  \/ Crash

Spec == Init /\ [][Next]_vars

-----------------------------------------------------------------------------

\* "Check if there's already an open alert for this rule": a rule has one open alert.
OneOpenAlert == \A r \in Rules : \A i, j \in Open(r) : i = j

OneAtATime == \A s, t \in Running : s = t

\* True of one scan at a time.
OneScanOneAlert == OneAtATime => OneOpenAlert

\* Scans that overlap may open an alert twice, but no more often than there are scans
\* at a time, however many follow.
DuplicatesBoundedByScans ==
  \A r \in Rules : Cardinality(Open(r)) <= Cardinality(Running)

\* Only the first alert of a scan can be a duplicate: the later ones were looked for
\* under the write lock, and no other scan has opened one since.
LaterAlertsAreNew ==
  \A s \in Running : \A i \in DOMAIN scan[s].pending : i >= 2 => Open(scan[s].pending[i]) = {}

\* A scan that ends leaves an open alert for every enabled rule that was low, and whose
\* alerts nobody handled, since it began, whatever it met on the way.
ScanAlertsAll ==
  [][\A s \in Running : EndScan(s) =>
       \A r \in scan[s].due : \E i \in DOMAIN alerts' : alerts'[i] = [rule |-> r, status |-> "open"]]_vars

===============================================================================
