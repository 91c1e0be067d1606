------------------------ MODULE InventoryAlerts_proofs ------------------------
(***************************************************************************)
(* Proofs about InventoryAlerts for any number of rules, scans and         *)
(* handlers: what the write lock gives overlapping scans                   *)
(* (LaterAlertsAreNew), that a rule never has more open alerts than scans  *)
(* run at a time, so that one scan at a time opens no alert twice, and     *)
(* that a scan skips no rule.                                              *)
(***************************************************************************)
EXTENDS InventoryAlerts, SequenceTheorems, FiniteSetTheorems, TLAPS

USE AlertsAssumption

-----------------------------------------------------------------------------
(* Operators.                                                              *)

\* The alerts a scan commits are open alerts of the rules it had pending.
LEMMA OpenedType ==
  ASSUME NEW pending \in Seq(Rules)
  PROVE  /\ Opened(pending) \in Seq(Alert) /\ Len(Opened(pending)) = Len(pending)
         /\ \A i \in 1 .. Len(pending) :
              Opened(pending)[i] = [rule |-> pending[i], status |-> "open"]
<1>1. Len(pending) \in Nat /\ DOMAIN pending = 1 .. Len(pending)
  OBVIOUS
<1>2. \A i \in 1 .. Len(pending) : [rule |-> pending[i], status |-> "open"] \in Alert
  BY <1>1 DEF Alert, Statuses
<1>3. Opened(pending) = [i \in 1 .. Len(pending) |-> [rule |-> pending[i], status |-> "open"]]
  BY <1>1 DEF Opened
<1>4. Opened(pending) \in Seq(Alert)
  BY <1>1, <1>2, <1>3
<1>5. QED
  BY <1>1, <1>3, <1>4

\* Every alert after the commit of a scan is an old one or one of a pending rule.
LEMMA CommittedAlerts ==
  ASSUME TypeOK, NEW pending \in Seq(Rules), NEW new, new = alerts \o Opened(pending)
  PROVE  /\ new \in Seq(Alert) /\ Len(new) = Len(alerts) + Len(pending)
         /\ \A i \in 1 .. Len(alerts) : new[i] = alerts[i]
         /\ \A i \in 1 .. Len(pending) :
              new[Len(alerts) + i] = [rule |-> pending[i], status |-> "open"]
<1>1. alerts \in Seq(Alert) /\ Len(alerts) \in Nat
  BY DEF TypeOK
<1>2. Opened(pending) \in Seq(Alert) /\ Len(Opened(pending)) = Len(pending)
  BY OpenedType
<1>3. new \in Seq(Alert) /\ Len(new) = Len(alerts) + Len(pending)
  BY <1>1, <1>2
<1>4. \A i \in 1 .. Len(alerts) : new[i] = alerts[i]
  BY <1>1, <1>2
<1>5. \A i \in 1 .. Len(pending) : new[Len(alerts) + i] = Opened(pending)[i]
  BY <1>1, <1>2
<1>6. QED
  BY <1>3, <1>4, <1>5, OpenedType

\* What a handler's write does to the alerts.
LEMMA AlertWritten ==
  ASSUME TypeOK, NEW i, NEW to \in Statuses, alerts' = [alerts EXCEPT ![i].status = to]
  PROVE  /\ alerts' \in Seq(Alert) /\ Len(alerts') = Len(alerts)
         /\ \A j \in 1 .. Len(alerts) :
              /\ alerts'[j].rule = alerts[j].rule
              /\ alerts'[j].status = IF j = i THEN to ELSE alerts[j].status
<1>1. /\ alerts \in [1 .. Len(alerts) -> Alert] /\ Len(alerts) \in Nat
      /\ DOMAIN alerts = 1 .. Len(alerts)
  BY DEF TypeOK
<1>2. alerts' = [j \in 1 .. Len(alerts) |->
                   IF j = i THEN [alerts[i] EXCEPT !.status = to] ELSE alerts[j]]
  BY <1>1
<1>3. \A j \in 1 .. Len(alerts) :
        /\ alerts[j] \in Alert /\ [alerts[j] EXCEPT !.status = to] \in Alert
        /\ [alerts[j] EXCEPT !.status = to].rule = alerts[j].rule
        /\ [alerts[j] EXCEPT !.status = to].status = to
  BY <1>1 DEF Alert
<1>4. alerts' \in [1 .. Len(alerts) -> Alert]
  BY <1>2, <1>3
<1>5. alerts' \in Seq(Alert) /\ Len(alerts') = Len(alerts)
  BY <1>1, <1>4
<1>6. QED
  BY <1>2, <1>3, <1>5

-----------------------------------------------------------------------------
(* Type correctness.                                                       *)

LEMMA ScanType ==
  ASSUME TypeOK, NEW s \in Running
  PROVE  /\ scan[s].pc \in {"idle", "stock", "open"} /\ scan[s].todo \subseteq Rules
         /\ scan[s].pending \in Seq(Rules) /\ scan[s].due \subseteq Rules
         /\ NoScan \in Scan
  BY DEF TypeOK, Scan, NoScan

\* A scan changed into a well-typed one.
LEMMA ScannedType ==
  ASSUME TypeOK, NEW s \in Running,
         NEW pc \in {"idle", "stock", "open"}, NEW todo \in SUBSET Rules,
         NEW pending \in Seq(Rules)
  PROVE  Scanned(s, pc, todo, pending) \in [Running -> Scan]
<1>1. [pc |-> pc, todo |-> todo, pending |-> pending, due |-> scan[s].due] \in Scan
  BY ScanType DEF Scan
<1>2. QED
  BY <1>1 DEF TypeOK, Scanned

LEMMA UndueType == ASSUME TypeOK, NEW r PROVE Undue(r) \in [Running -> Scan]
<1>1. ASSUME NEW s \in Running PROVE [scan[s] EXCEPT !.due = @ \ {r}] \in Scan
  <2>1. scan[s] \in Scan /\ scan[s].due \ {r} \in SUBSET Rules
    BY ScanType DEF TypeOK
  <2>2. QED
    BY <2>1 DEF Scan
<1>2. QED
  BY <1>1 DEF Undue

LEMMA InitType == Init => TypeOK
<1> SUFFICES ASSUME Init PROVE TypeOK
  OBVIOUS
<1>1. NoScan \in Scan /\ [pc |-> "idle"] \in Handler
  BY DEF NoScan, Scan, Handler
<1>2. QED
  BY <1>1 DEF Init, TypeOK, Running

\* The scans of a behaviour stay the same.
LEMMA RunningStays == [Next]_vars => Running' = Running
<1> SUFFICES ASSUME [Next]_vars PROVE Running' = Running
  OBVIOUS
<1>1. CASE CreateRule \/ UpdateRule \/ DeleteRule \/ StockChange \/ Crash
  BY <1>1 DEF CreateRule, UpdateRule, DeleteRule, StockChange, Crash, Undue, Running
<1>2. ASSUME NEW s, StartScan(s) \/ EndScan(s) \/ Abort(s) PROVE Running' = Running
  BY <1>2 DEF StartScan, EndScan, Abort, Running
<1>3. ASSUME NEW s, NEW r, ReadStock(s, r) \/ AddAlert(s, r) \/ AlreadyAlerted(s, r)
      PROVE  Running' = Running
  BY <1>3 DEF ReadStock, AddAlert, AlreadyAlerted, Scanned, Running
<1>4. ASSUME NEW h, NEW to, WriteAlert(h, to) PROVE Running' = Running
  BY <1>4 DEF WriteAlert, Undue, Running
<1>5. ASSUME NEW h, ReadAlert(h) \/ Acknowledge(h) \/ Clear(h) \/ Refuse(h)
      PROVE  Running' = Running
  BY <1>4, <1>5 DEF ReadAlert, Acknowledge, Clear, Refuse, Running
<1>6. CASE UNCHANGED vars
  BY <1>6 DEF vars, Running
<1>7. QED
  BY <1>1, <1>2, <1>3, <1>5, <1>6 DEF Next, FindTwo, LockTimeout

LEMMA NextType == TypeOK /\ [Next]_vars => TypeOK'
<1> SUFFICES ASSUME TypeOK, [Next]_vars PROVE TypeOK'
  OBVIOUS
<1> USE RunningStays
<1>1. CASE CreateRule \/ UpdateRule \/ DeleteRule
  BY <1>1 DEF TypeOK, CreateRule, UpdateRule, DeleteRule
<1>3. CASE StockChange
  BY <1>3, UndueType DEF TypeOK, StockChange
<1>4. ASSUME NEW s \in Running, StartScan(s) PROVE TypeOK'
  <2> DEFINE on == {r \in Rules : rules[r] = "on"}
             due == {r \in on : stock[r] = "low"}
  <2>1. [pc |-> "stock", todo |-> on, pending |-> <<>>, due |-> due] \in Scan
    BY DEF Scan
  <2>2. scan' \in [Running -> Scan]
    BY <1>4, <2>1 DEF TypeOK, StartScan
  <2>3. QED
    BY <1>4, <2>2 DEF TypeOK, StartScan
<1>5. ASSUME NEW s \in Running, NEW r \in Rules, ReadStock(s, r) PROVE TypeOK'
  <2>1. lock' \in Running \cup {Nobody}
    BY <1>5 DEF TypeOK, ReadStock, Flush
  <2>2. scan[s].todo \in SUBSET Rules /\ scan[s].todo \ {r} \in SUBSET Rules
    BY ScanType
  <2>3. /\ Scanned(s, "open", scan[s].todo, scan[s].pending) \in [Running -> Scan]
        /\ Scanned(s, "stock", scan[s].todo \ {r}, scan[s].pending) \in [Running -> Scan]
    BY <2>2, ScanType, ScannedType
  <2>4. scan' \in [Running -> Scan]
    BY <1>5, <2>3 DEF ReadStock
  <2>5. QED
    BY <1>5, <2>1, <2>4 DEF TypeOK, ReadStock
<1>6. ASSUME NEW s \in Running, NEW r \in Rules, AddAlert(s, r) PROVE TypeOK'
  <2>1. Append(scan[s].pending, r) \in Seq(Rules) /\ scan[s].todo \ {r} \in SUBSET Rules
    BY ScanType
  <2>2. scan' \in [Running -> Scan]
    BY <1>6, <2>1, ScannedType DEF AddAlert
  <2>3. QED
    BY <1>6, <2>2 DEF TypeOK, AddAlert
<1>7. ASSUME NEW s \in Running, NEW r \in Rules, AlreadyAlerted(s, r) PROVE TypeOK'
  <2>1. scan[s].todo \ {r} \in SUBSET Rules
    BY ScanType
  <2>2. scan' \in [Running -> Scan]
    BY <1>7, <2>1, ScanType, ScannedType DEF AlreadyAlerted
  <2>3. QED
    BY <1>7, <2>2 DEF TypeOK, AlreadyAlerted
<1>8. ASSUME NEW s \in Running, Abort(s) PROVE TypeOK'
  BY <1>8, ScanType DEF TypeOK, Abort
<1>9. ASSUME NEW s \in Running, EndScan(s) PROVE TypeOK'
  <2>1. alerts' \in Seq(Alert)
    BY <1>9, ScanType, CommittedAlerts DEF EndScan
  <2>2. QED
    BY <1>9, <2>1, ScanType DEF TypeOK, EndScan
<1>10. [pc |-> "idle"] \in Handler
  BY DEF Handler
<1>11. ASSUME NEW h \in Handlers, ReadAlert(h) PROVE TypeOK'
  <2>1. PICK i \in DOMAIN alerts, what \in {"acknowledge", "clear"} :
          handler' = [handler EXCEPT ![h] = [pc |-> what, alert |-> i, copy |-> alerts[i].status]]
    BY <1>11 DEF ReadAlert
  <2>2. i \in Nat \ {0} /\ alerts[i] \in Alert
    BY DEF TypeOK
  <2>3. [pc |-> what, alert |-> i, copy |-> alerts[i].status] \in Handler
    BY <2>2 DEF Handler, Alert
  <2>4. QED
    BY <1>11, <2>1, <2>3 DEF TypeOK, ReadAlert
<1>12. ASSUME NEW h \in Handlers, NEW to \in Statuses, WriteAlert(h, to) PROVE TypeOK'
  <2> DEFINE i == handler[h].alert
  <2>1. alerts' = [alerts EXCEPT ![i].status = to] /\ lock = Nobody
    BY <1>12 DEF WriteAlert
  <2>2. /\ alerts' \in Seq(Alert) /\ Len(alerts') = Len(alerts)
    BY <2>1, AlertWritten
  <2>3. alerts' \in Seq(Alert)
    BY <2>2
  <2>4. scan' \in [Running -> Scan]
    BY <1>12, UndueType DEF WriteAlert
  <2>5. QED
    BY <1>10, <1>12, <2>3, <2>4 DEF TypeOK, WriteAlert
<1>13. ASSUME NEW h \in Handlers, Acknowledge(h) \/ Clear(h) \/ Refuse(h) PROVE TypeOK'
  BY <1>10, <1>12, <1>13 DEF TypeOK, Acknowledge, Clear, Refuse, Statuses
<1>14. CASE Crash
  BY <1>10, <1>14, ScanType DEF TypeOK, Crash, NoScan, Scan
<1>15. CASE UNCHANGED vars
  BY <1>15 DEF TypeOK, vars
<1>16. QED
  BY <1>1, <1>3, <1>4, <1>5, <1>6, <1>7, <1>8, <1>9, <1>11, <1>13, <1>14, <1>15
     DEF Next, FindTwo, LockTimeout

\* Every variable keeps its type, however scans, handlers and rule changes interleave.
THEOREM TypeCorrect == Spec => []TypeOK
<1>1. QED
  BY InitType, NextType, PTL DEF Spec

-----------------------------------------------------------------------------
(* What is open.                                                           *)

\* The alerts that are open after a handler has written were open before.
LEMMA HandledOpen ==
  ASSUME TypeOK, NEW h \in Handlers, Acknowledge(h) \/ Clear(h), NEW q
  PROVE  /\ Open(q)' \subseteq Open(q)
         /\ lock = Nobody /\ lock' = lock
         /\ \A s \in Running : scan'[s] = [scan[s] EXCEPT
                               !.due = @ \ {alerts[handler[h].alert].rule}]
<1>1. PICK to \in {"acknowledged", "cleared"} : WriteAlert(h, to)
  BY DEF Acknowledge, Clear
<1> DEFINE i == handler[h].alert
<1>2. alerts' = [alerts EXCEPT ![i].status = to]
  BY <1>1 DEF WriteAlert
<1>3. alerts' \in Seq(Alert) /\ Len(alerts') = Len(alerts) /\ to \in Statuses
  BY <1>2, AlertWritten DEF Statuses
<1>4. \A j \in 1 .. Len(alerts) :
        /\ alerts'[j].rule = alerts[j].rule
        /\ alerts'[j].status = IF j = i THEN to ELSE alerts[j].status
  BY <1>2, <1>3, AlertWritten
<1>5. DOMAIN alerts = 1 .. Len(alerts) /\ DOMAIN alerts' = 1 .. Len(alerts)
  BY <1>3 DEF TypeOK
<1>6. Open(q)' \subseteq Open(q)
  BY <1>4, <1>5 DEF Open
<1>7. QED
  BY <1>1, <1>6 DEF WriteAlert, Undue, Running

\* The alerts that are open after a commit were open before, or are those committed.
LEMMA CommittedOpen ==
  ASSUME TypeOK, NEW s \in Running, EndScan(s), NEW q, NEW k \in Open(q)'
  PROVE  \/ k \in Open(q)
         \/ \E i \in 1 .. Len(scan[s].pending) :
              k = Len(alerts) + i /\ scan[s].pending[i] = q
<1> DEFINE pending == scan[s].pending
<1>1. pending \in Seq(Rules) /\ alerts' = alerts \o Opened(pending)
  BY ScanType DEF EndScan
<1>2. /\ alerts' \in Seq(Alert) /\ Len(alerts') = Len(alerts) + Len(pending)
      /\ \A i \in 1 .. Len(alerts) : alerts'[i] = alerts[i]
      /\ \A i \in 1 .. Len(pending) :
           alerts'[Len(alerts) + i] = [rule |-> pending[i], status |-> "open"]
  BY <1>1, CommittedAlerts
<1>3. /\ Len(alerts) \in Nat /\ Len(pending) \in Nat
      /\ DOMAIN alerts = 1 .. Len(alerts) /\ k \in 1 .. Len(alerts) + Len(pending)
      /\ alerts'[k].rule = q /\ alerts'[k].status = "open"
  BY <1>1, <1>2 DEF TypeOK, Open
<1>4. CASE k <= Len(alerts)
  BY <1>2, <1>3, <1>4 DEF Open
<1>5. CASE k > Len(alerts)
  <2> DEFINE i == k - Len(alerts)
  <2>1. i \in 1 .. Len(pending) /\ k = Len(alerts) + i
    BY <1>3, <1>5
  <2>2. alerts'[Len(alerts) + i] = [rule |-> pending[i], status |-> "open"]
    BY <1>2, <2>1
  <2>3. alerts'[k] = [rule |-> pending[i], status |-> "open"]
    BY <2>1, <2>2
  <2>4. pending[i] = q
    BY <1>3, <2>3
  <2>5. QED
    BY <2>1, <2>4
<1>6. QED
  BY <1>3, <1>4, <1>5

-----------------------------------------------------------------------------
(* What the write lock gives.                                              *)

\* A scan that looks for the alert of a second rule to alert holds the write lock.
LooksLocked ==
  \A s \in Running :
    /\ Len(scan[s].pending) >= 2 => lock = s
    /\ scan[s].pc = "open" /\ scan[s].pending # <<>> => lock = s

LockInv == TypeOK /\ LooksLocked /\ LaterAlertsAreNew

LEMMA LockInvInit == Init => LockInv
<1> SUFFICES ASSUME Init PROVE LockInv
  OBVIOUS
<1>1. \A s \in Running : scan[s] = NoScan
  BY DEF Init, Running
<1>2. LooksLocked /\ LaterAlertsAreNew
  BY <1>1 DEF LooksLocked, LaterAlertsAreNew, NoScan
<1>3. QED
  BY <1>2, InitType DEF LockInv

\* Of one scan: what LockInv says of it.
Locked(s) ==
  /\ Len(scan[s].pending) >= 2 => lock = s
  /\ scan[s].pc = "open" /\ scan[s].pending # <<>> => lock = s
  /\ \A i \in DOMAIN scan[s].pending : i >= 2 => Open(scan[s].pending[i]) = {}

\* An empty scan satisfies it.
LEMMA NoScanLocked == ASSUME NEW s, scan'[s] = NoScan PROVE Locked(s)'
  BY DEF Locked, NoScan

\* A step that changes neither the scan (its history aside), nor the lock it holds,
\* and opens no alert if it holds one, preserves it.
LEMMA UntouchedLocked ==
  ASSUME TypeOK, NEW s \in Running, Locked(s),
         scan'[s].pc = scan[s].pc, scan'[s].pending = scan[s].pending,
         lock = s => lock' = s /\ \A q : Open(q)' \subseteq Open(q)
  PROVE  Locked(s)'
<1>1. scan[s].pending \in Seq(Rules)
  BY ScanType
<1>2. \A i \in DOMAIN scan[s].pending : i >= 2 => Len(scan[s].pending) >= 2
  BY <1>1
<1>3. \A i \in DOMAIN scan[s].pending : i >= 2 => Open(scan[s].pending[i])' = {}
  BY <1>2 DEF Locked
<1>4. QED
  BY <1>3 DEF Locked

LEMMA LockInvNext == LockInv /\ [Next]_vars => LockInv'
<1> SUFFICES ASSUME LockInv, [Next]_vars, NEW s \in Running PROVE Locked(s)'
  BY NextType, RunningStays DEF LockInv, LooksLocked, LaterAlertsAreNew, Locked
<1>0. /\ TypeOK /\ Locked(s) /\ scan[s].pending \in Seq(Rules)
      /\ scan \in [Running -> Scan] /\ scan[s] \in Scan /\ s # Nobody
  BY ScanType, AlertsAssumption DEF LockInv, LooksLocked, LaterAlertsAreNew, Locked, TypeOK
<1> USE <1>0
<1>1. CASE UNCHANGED <<alerts, scan, lock>>
  <2>1. \A q : Open(q)' = Open(q)
    BY <1>1 DEF Open
  <2>2. QED
    BY <1>1, <2>1, UntouchedLocked
<1>2. CASE StockChange
  <2>1. /\ \A q : Open(q)' = Open(q)
        /\ scan'[s].pc = scan[s].pc /\ scan'[s].pending = scan[s].pending /\ lock' = lock
    BY <1>2 DEF StockChange, Undue, Open, Scan
  <2>2. QED
    BY <2>1, UntouchedLocked
<1>3. ASSUME NEW h \in Handlers, Acknowledge(h) \/ Clear(h) PROVE Locked(s)'
  <2>1. lock = Nobody /\ lock # s
    BY <1>3, HandledOpen, AlertsAssumption
  <2>2. scan'[s].pc = scan[s].pc /\ scan'[s].pending = scan[s].pending
    BY <1>3, HandledOpen DEF Scan
  <2>3. QED
    BY <2>1, <2>2, UntouchedLocked
<1>4. ASSUME NEW t \in Running, t # s,
             \/ StartScan(t) \/ EndScan(t) \/ Abort(t)
             \/ \E r \in Rules : ReadStock(t, r) \/ AddAlert(t, r) \/ AlreadyAlerted(t, r)
      PROVE  Locked(s)'
  <2>1. scan'[s] = scan[s]
    BY <1>4 DEF StartScan, EndScan, Abort, ReadStock, AddAlert, AlreadyAlerted, Scanned
  <2>2. lock = s => lock' = s
    BY <1>4 DEF StartScan, EndScan, Abort, ReadStock, AddAlert, AlreadyAlerted, Flush
  <2>3. CASE EndScan(t) /\ lock = s
    <3>1. scan[t].pending = <<>>
      BY <1>4, <2>3, AlertsAssumption DEF EndScan
    <3>2. \A q : Open(q)' \subseteq Open(q)
      BY <2>3, <3>1, CommittedOpen
    <3>3. QED
      BY <2>1, <2>2, <3>2, UntouchedLocked
  <2>4. CASE ~EndScan(t)
    <3>1. alerts' = alerts
      BY <1>4, <2>4 DEF StartScan, Abort, ReadStock, AddAlert, AlreadyAlerted
    <3>2. QED
      BY <2>1, <2>2, <3>1, UntouchedLocked DEF Open
  <2>5. CASE lock # s
    BY <2>1, <2>5, UntouchedLocked
  <2>6. QED
    BY <2>3, <2>4, <2>5
<1>5. CASE StartScan(s)
  BY <1>5 DEF StartScan, Locked
<1>6. CASE EndScan(s) \/ Abort(s)
  BY <1>6, NoScanLocked DEF EndScan, Abort
<1>7. ASSUME NEW r \in Rules, ReadStock(s, r) PROVE Locked(s)'
  <2>1. /\ scan'[s].pending = scan[s].pending /\ alerts' = alerts
        /\ scan[s].pending # <<>> => lock' = s
    BY <1>7 DEF ReadStock, Scanned, Flush
  <2>2. Len(scan[s].pending) >= 2 => scan[s].pending # <<>>
    OBVIOUS
  <2>3. QED
    BY <2>1, <2>2 DEF Locked, Open
<1>8. ASSUME NEW r \in Rules, AddAlert(s, r) PROVE Locked(s)'
  <2> DEFINE pending == scan[s].pending
  <2>1. /\ scan'[s].pending = Append(pending, r) /\ scan'[s].pc = "stock"
        /\ lock' = lock /\ alerts' = alerts /\ Open(r) = {} /\ scan[s].pc = "open"
    BY <1>8 DEF AddAlert, Scanned
  <2>2. Len(Append(pending, r)) >= 2 => pending # <<>>
    OBVIOUS
  <2>3. \A i \in DOMAIN Append(pending, r) :
          \/ i \in DOMAIN pending /\ Append(pending, r)[i] = pending[i]
          \/ Append(pending, r)[i] = r
    OBVIOUS
  <2>4. \A i \in DOMAIN Append(pending, r) : i >= 2 => Open(Append(pending, r)[i]) = {}
    BY <2>1, <2>3 DEF Locked
  <2>5. QED
    BY <2>1, <2>2, <2>4 DEF Locked, Open
<1>9. ASSUME NEW r \in Rules, AlreadyAlerted(s, r) PROVE Locked(s)'
  <2>1. /\ scan'[s].pending = scan[s].pending /\ scan'[s].pc = "stock"
        /\ lock' = lock /\ alerts' = alerts
    BY <1>9 DEF AlreadyAlerted, Scanned
  <2>2. QED
    BY <2>1 DEF Locked, Open
<1>10. CASE Crash
  BY <1>10, NoScanLocked DEF Crash
<1>11. CASE CreateRule \/ UpdateRule \/ DeleteRule \/ UNCHANGED vars
  BY <1>1, <1>11 DEF CreateRule, UpdateRule, DeleteRule, vars
<1>12. ASSUME NEW h \in Handlers, ReadAlert(h) \/ Refuse(h) PROVE Locked(s)'
  BY <1>1, <1>12 DEF ReadAlert, Refuse
<1>13. QED
  BY <1>2, <1>3, <1>4, <1>5, <1>6, <1>7, <1>8, <1>9, <1>10, <1>11, <1>12
     DEF Next, FindTwo, LockTimeout

\* Of the alerts a scan is about to open, only the first can be a duplicate, however many
\* scans overlap: the others were looked for under the write lock.
THEOREM LockedScansAddNew == Spec => []LaterAlertsAreNew
<1>1. LockInv => LaterAlertsAreNew
  BY DEF LockInv
<1>2. QED
  BY <1>1, LockInvInit, LockInvNext, PTL DEF Spec

-----------------------------------------------------------------------------
(* No more open alerts for a rule than scans at a time.                    *)

\* A scan looks for the alert of a rule once.
Once(pending, todo) ==
  /\ \A i, j \in DOMAIN pending : pending[i] = pending[j] => i = j
  /\ \A i \in DOMAIN pending : pending[i] \notin todo

LooksOnce == \A s \in Running : Once(scan[s].pending, scan[s].todo)

\* The scans that will open an alert for rule q when they commit.
Adding(q) == {s \in Running : \E i \in DOMAIN scan[s].pending : scan[s].pending[i] = q}

\* A scan joins them only while no alert is open: so each alert that is open took the
\* place of one of them, or was open when the others had already joined.
Bounded(q) == Cardinality(Open(q)) + Cardinality(Adding(q)) <= Cardinality(Running)

BoundInv == TypeOK /\ LooksOnce /\ \A q \in Rules : Bounded(q)

LEMMA Finite ==
  ASSUME TypeOK, NEW q
  PROVE  /\ IsFiniteSet(Running) /\ IsFiniteSet(Open(q)) /\ IsFiniteSet(Adding(q))
         /\ Cardinality(Running) \in Nat /\ Cardinality(Open(q)) \in Nat
         /\ Cardinality(Adding(q)) \in Nat /\ Cardinality(Adding(q)) <= Cardinality(Running)
<1>1. IsFiniteSet(Running)
  BY FS_Subset DEF TypeOK
<1>2. IsFiniteSet(Adding(q)) /\ Cardinality(Adding(q)) <= Cardinality(Running)
  <2>1. Adding(q) \in SUBSET Running
    BY DEF Adding
  <2>2. QED
    BY <1>1, <2>1, FS_Subset
<1>3. IsFiniteSet(Open(q))
  <2>1. Len(alerts) \in Nat /\ Open(q) \in SUBSET (1 .. Len(alerts))
    BY DEF TypeOK, Open
  <2>2. IsFiniteSet(1 .. Len(alerts))
    BY <2>1, FS_Interval
  <2>3. QED
    BY <2>1, <2>2, FS_Subset
<1>4. QED
  BY <1>1, <1>2, <1>3, FS_CardinalityType

\* A step that opens no alert for a rule, and adds none to a session, preserves its bound.
LEMMA Fewer ==
  ASSUME TypeOK, NEW q, Bounded(q), Running' = Running,
         Open(q)' \subseteq Open(q), Adding(q)' \subseteq Adding(q)
  PROVE  Bounded(q)'
<1>1. /\ IsFiniteSet(Open(q)') /\ Cardinality(Open(q)') <= Cardinality(Open(q))
      /\ IsFiniteSet(Adding(q)') /\ Cardinality(Adding(q)') <= Cardinality(Adding(q))
  BY Finite, FS_Subset
<1>2. Cardinality(Open(q)') \in Nat /\ Cardinality(Adding(q)') \in Nat
  BY <1>1, FS_CardinalityType
<1>3. QED
  BY <1>1, <1>2, Finite DEF Bounded

LEMMA OnceAppend ==
  ASSUME NEW pending \in Seq(Rules), NEW todo, NEW r \in todo, r \in Rules, Once(pending, todo)
  PROVE  Once(Append(pending, r), todo \ {r})
<1>1. /\ DOMAIN pending = 1 .. Len(pending) /\ Len(pending) \in Nat
      /\ DOMAIN Append(pending, r) = 1 .. Len(pending) + 1
      /\ \A i \in 1 .. Len(pending) : Append(pending, r)[i] = pending[i]
      /\ Append(pending, r)[Len(pending) + 1] = r
  OBVIOUS
<1>2. \A i \in 1 .. Len(pending) : pending[i] # r /\ pending[i] \notin todo
  BY <1>1 DEF Once
<1>3. ASSUME NEW i \in 1 .. Len(pending) + 1, NEW j \in 1 .. Len(pending) + 1,
             Append(pending, r)[i] = Append(pending, r)[j]
      PROVE  i = j
  <2>1. CASE i \in 1 .. Len(pending) /\ j \in 1 .. Len(pending)
    BY <1>1, <1>3, <2>1 DEF Once
  <2>2. CASE i = Len(pending) + 1 \/ j = Len(pending) + 1
    BY <1>1, <1>2, <1>3, <2>2
  <2>3. QED
    BY <1>1, <2>1, <2>2
<1>4. \A i \in 1 .. Len(pending) + 1 : Append(pending, r)[i] \notin todo \ {r}
  BY <1>1, <1>2
<1>5. QED
  BY <1>1, <1>3, <1>4 DEF Once

LEMMA BoundInvInit == Init => BoundInv
<1> SUFFICES ASSUME Init PROVE BoundInv
  OBVIOUS
<1>1. \A s \in Running : scan[s] = NoScan
  BY DEF Init, Running
<1>2. LooksOnce
  BY <1>1 DEF LooksOnce, Once, NoScan
<1>3. ASSUME NEW q \in Rules PROVE Bounded(q)
  <2>1. Open(q) = {}
    BY DEF Init, Open
  <2>2. Adding(q) = {}
    BY <1>1 DEF Adding, NoScan
  <2>3. Cardinality(Running) \in Nat
    BY InitType, Finite
  <2>4. QED
    BY <2>1, <2>2, <2>3, FS_EmptySet DEF Bounded
<1>4. QED
  BY <1>2, <1>3, InitType DEF BoundInv

\* The commit of a scan that adds an alert for a rule opens that one.
LEMMA CommitBounded ==
  ASSUME BoundInv, NEW s \in Running, EndScan(s), Running' = Running, NEW q \in Rules
  PROVE  Bounded(q)'
<1> DEFINE pending == scan[s].pending
<1>1. TypeOK /\ Bounded(q) /\ Once(pending, scan[s].todo) /\ DOMAIN pending = 1 .. Len(pending)
  BY ScanType DEF BoundInv, LooksOnce
<1>2. scan'[s].pending = <<>> /\ \A t \in Running \ {s} : scan'[t] = scan[t]
  BY <1>1 DEF EndScan, NoScan, TypeOK
<1>3. Adding(q)' = Adding(q) \ {s}
  BY <1>2 DEF Adding
<1>4. \A k \in Open(q)' : \/ k \in Open(q)
                          \/ \E i \in 1 .. Len(pending) : k = Len(alerts) + i /\ pending[i] = q
  BY <1>1, CommittedOpen
<1>5. CASE s \in Adding(q)
  <2>1. PICK i \in 1 .. Len(pending) : pending[i] = q
    BY <1>1, <1>5 DEF Adding
  <2>2. \A j \in 1 .. Len(pending) : pending[j] = q => j = i
    BY <1>1, <2>1 DEF Once
  <2> DEFINE new == Open(q) \cup {Len(alerts) + i}
  <2>3. Open(q)' \in SUBSET new
    BY <1>4, <2>2
  <2>4. IsFiniteSet(new) /\ Cardinality(new) <= Cardinality(Open(q)) + 1
    <3>1. IsFiniteSet(Open(q)) /\ Cardinality(Open(q)) \in Nat
      BY <1>1, Finite
    <3>2. /\ IsFiniteSet(new)
          /\ Cardinality(new) = IF Len(alerts) + i \in Open(q) THEN Cardinality(Open(q))
                                                             ELSE Cardinality(Open(q)) + 1
      BY <3>1, FS_AddElement
    <3>3. QED
      BY <3>1, <3>2
  <2> HIDE DEF new
  <2>5. Cardinality(Open(q)') \in Nat /\ Cardinality(Open(q)') <= Cardinality(new)
    BY <2>3, <2>4, FS_Subset, FS_CardinalityType
  <2>6. Cardinality(Adding(q)') = Cardinality(Adding(q)) - 1
    BY <1>1, <1>3, <1>5, Finite, FS_RemoveElement
  <2>7. Cardinality(new) \in Nat
    BY <2>4, FS_CardinalityType
  <2>8. QED
    BY <1>1, <2>4, <2>5, <2>6, <2>7, Finite DEF Bounded
<1>6. CASE s \notin Adding(q)
  <2>1. Open(q)' \subseteq Open(q)
    BY <1>1, <1>4, <1>6 DEF Adding
  <2>2. QED
    BY <1>1, <1>3, <2>1, Fewer
<1>7. QED
  BY <1>5, <1>6

\* A step that changes nothing the invariant speaks of, or only takes from it.
LEMMA BoundKept ==
  ASSUME BoundInv, TypeOK', Running' = Running, \A q : Open(q)' \subseteq Open(q),
         \A s \in Running : \/ scan'[s].todo \subseteq scan[s].todo /\ scan'[s].pending = scan[s].pending
                            \/ scan'[s].pending = <<>>
  PROVE  BoundInv'
<1>1. LooksOnce'
  BY DEF BoundInv, LooksOnce, Once
<1>2. ASSUME NEW q \in Rules PROVE Bounded(q)'
  <2>1. Adding(q)' \subseteq Adding(q)
    BY DEF Adding
  <2>2. QED
    BY <2>1, Fewer DEF BoundInv
<1>3. QED
  BY <1>1, <1>2 DEF BoundInv

LEMMA BoundInvNext == BoundInv /\ [Next]_vars => BoundInv'
<1> SUFFICES ASSUME BoundInv, [Next]_vars PROVE BoundInv'
  OBVIOUS
<1>0. TypeOK /\ TypeOK' /\ Running' = Running
  BY NextType, RunningStays DEF BoundInv
<1> USE <1>0
<1>1. ASSUME UNCHANGED <<alerts, scan>> PROVE BoundInv'
  BY <1>1, BoundKept DEF Open
<1>2. CASE StockChange
  <2>1. /\ \A q : Open(q)' = Open(q)
        /\ \A s \in Running : scan'[s].todo = scan[s].todo /\ scan'[s].pending = scan[s].pending
    BY <1>2 DEF StockChange, Undue, Open, TypeOK, Scan
  <2>2. QED
    BY <2>1, BoundKept
<1>3. ASSUME NEW h \in Handlers, Acknowledge(h) \/ Clear(h) PROVE BoundInv'
  <2>1. \A q : Open(q)' \subseteq Open(q)
    BY <1>3, HandledOpen
  <2>2. ASSUME NEW s \in Running
        PROVE  scan'[s].todo = scan[s].todo /\ scan'[s].pending = scan[s].pending
    <3>1. scan'[s] = [scan[s] EXCEPT !.due = @ \ {alerts[handler[h].alert].rule}]
      BY <1>3, HandledOpen
    <3>2. scan[s] \in Scan
      BY DEF TypeOK
    <3>3. QED
      BY <3>1, <3>2 DEF Scan
  <2>3. QED
    BY <2>1, <2>2, BoundKept
<1>4. ASSUME NEW s \in Running, StartScan(s) \/ Abort(s) PROVE BoundInv'
  <2>1. \A q : Open(q)' = Open(q)
    BY <1>4 DEF StartScan, Abort, Open
  <2>2. scan'[s].pending = <<>> /\ \A t \in Running \ {s} : scan'[t] = scan[t]
    BY <1>4 DEF StartScan, Abort, NoScan, TypeOK
  <2>3. QED
    BY <2>1, <2>2, BoundKept
<1>5. ASSUME NEW s \in Running, EndScan(s) PROVE BoundInv'
  <2>1. scan'[s].pending = <<>> /\ \A t \in Running \ {s} : scan'[t] = scan[t]
    BY <1>5 DEF EndScan, NoScan, TypeOK
  <2>2. LooksOnce'
    BY <2>1 DEF BoundInv, LooksOnce, Once
  <2>3. QED
    BY <1>5, <2>2, CommitBounded DEF BoundInv
<1>6. ASSUME NEW s \in Running, NEW r \in Rules, ReadStock(s, r) \/ AlreadyAlerted(s, r)
      PROVE  BoundInv'
  <2>1. \A q : Open(q)' = Open(q)
    BY <1>6 DEF ReadStock, AlreadyAlerted, Open
  <2>2. /\ scan'[s].pending = scan[s].pending /\ scan'[s].todo \subseteq scan[s].todo
        /\ \A t \in Running \ {s} : scan'[t] = scan[t]
    BY <1>6 DEF ReadStock, AlreadyAlerted, Scanned, TypeOK
  <2>3. QED
    BY <2>1, <2>2, BoundKept
<1>7. ASSUME NEW s \in Running, NEW r \in Rules, AddAlert(s, r) PROVE BoundInv'
  <2> DEFINE pending == scan[s].pending
             longer == Append(pending, r)
  <2>1. (\A q : Open(q)' = Open(q)) /\ Open(r) = {} /\ r \in scan[s].todo
    BY <1>7 DEF AddAlert, Newest, Open
  <2>2. /\ scan'[s].pending = longer /\ scan'[s].todo = scan[s].todo \ {r}
        /\ \A t \in Running \ {s} : scan'[t] = scan[t]
    BY <1>7 DEF AddAlert, Scanned, TypeOK
  <2>3. pending \in Seq(Rules) /\ Once(pending, scan[s].todo)
    BY ScanType DEF BoundInv, LooksOnce
  <2>4. Once(longer, scan[s].todo \ {r})
    BY <2>1, <2>3, OnceAppend
  <2>5. \A i \in DOMAIN longer : longer[i] = r \/ (i \in DOMAIN pending /\ longer[i] = pending[i])
    BY <2>3
  <2> HIDE DEF longer, pending
  <2>6. LooksOnce'
    BY <2>2, <2>4 DEF BoundInv, LooksOnce
  <2>7. ASSUME NEW q \in Rules, q # r PROVE Bounded(q)'
    <3>1. Adding(q)' \subseteq Adding(q)
      BY <2>2, <2>5, <2>7 DEF Adding, pending
    <3>2. QED
      BY <2>1, <3>1, Fewer DEF BoundInv
  <2>8. Bounded(r)'
    <3>1. IsFiniteSet(Running) /\ Adding(r)' \in SUBSET Running /\ Open(r)' = {}
      BY <2>1, Finite DEF Adding
    <3>2. /\ Cardinality(Adding(r)') <= Cardinality(Running) /\ Cardinality(Open(r)') = 0
          /\ Cardinality(Adding(r)') \in Nat
      BY <3>1, FS_Subset, FS_EmptySet, FS_CardinalityType
    <3>3. QED
      BY <3>2, Finite DEF Bounded
  <2>9. QED
    BY <2>6, <2>7, <2>8 DEF BoundInv
<1>8. CASE Crash
  BY <1>8, BoundKept DEF Crash, NoScan, Open
<1>9. CASE CreateRule \/ UpdateRule \/ DeleteRule \/ UNCHANGED vars
  BY <1>1, <1>9 DEF CreateRule, UpdateRule, DeleteRule, vars
<1>10. ASSUME NEW h \in Handlers, ReadAlert(h) \/ Refuse(h) PROVE BoundInv'
  BY <1>1, <1>10 DEF ReadAlert, Refuse
<1>11. QED
  BY <1>2, <1>3, <1>4, <1>5, <1>6, <1>7, <1>8, <1>9, <1>10
     DEF Next, FindTwo, LockTimeout

\* However many scans overlap and follow one another, and whatever the rules, the stock
\* and the handlers do meanwhile, a rule never has more open alerts than scans may run at
\* a time.
THEOREM ScansBoundDuplicates == Spec => []DuplicatesBoundedByScans
<1>1. BoundInv => DuplicatesBoundedByScans
  BY Finite DEF BoundInv, Bounded, DuplicatesBoundedByScans
<1>2. QED
  BY <1>1, BoundInvInit, BoundInvNext, PTL DEF Spec

\* So one scan at a time opens no second alert for a rule.
THEOREM SerialScansAlertOnce == Spec => []OneScanOneAlert
<1>1. ASSUME BoundInv, OneAtATime, NEW r \in Rules, NEW i \in Open(r), NEW j \in Open(r)
      PROVE  i = j
  <2>1. Cardinality(Open(r)) <= Cardinality(Running)
    BY <1>1, Finite DEF BoundInv, Bounded
  <2>2. Cardinality(Running) <= 1
    <3>1. CASE Running = {}
      BY <3>1, FS_EmptySet
    <3>2. ASSUME NEW s \in Running PROVE Cardinality(Running) <= 1
      <4>1. Running = {s}
        BY <1>1 DEF OneAtATime
      <4>2. QED
        <5>1. Cardinality({s}) = 1
          BY FS_Singleton
        <5>2. QED
          BY <4>1, <5>1
    <3>3. QED
      BY <3>1, <3>2
  <2>3. {i, j} \in SUBSET Open(r) /\ IsFiniteSet(Open(r))
    BY <1>1, Finite DEF BoundInv
  <2>4. Cardinality({i, j}) <= 1 /\ IsFiniteSet({i, j}) /\ Cardinality({i, j}) \in Nat
    BY <1>1, <2>1, <2>2, <2>3, FS_Subset, FS_CardinalityType, Finite DEF BoundInv
  <2>5. \E x : {i, j} = {x}
    <3>1. Cardinality({i, j}) # 0
      BY <2>4, FS_EmptySet
    <3>2. Cardinality({i, j}) = 1
      BY <2>4, <3>1
    <3>3. QED
      BY <2>4, <3>2, FS_Singleton
  <2>6. QED
    BY <2>5
<1>2. BoundInv => OneScanOneAlert
  BY <1>1 DEF OneScanOneAlert, OneOpenAlert
<1>3. QED
  BY <1>2, BoundInvInit, BoundInvNext, PTL DEF Spec

-----------------------------------------------------------------------------
(* No rule is skipped.                                                     *)

\* A rule that is due is still low, and is to be checked, has its alert added, or has one.
Attended(s, q) ==
  /\ stock[q] = "low"
  /\ \/ q \in scan[s].todo
     \/ \E i \in DOMAIN scan[s].pending : scan[s].pending[i] = q
     \/ Open(q) # {}

DueInv == TypeOK /\ \A s \in Running : \A q \in scan[s].due : Attended(s, q)

\* A step that takes no rule from the scan and closes none of the rule's alerts.
LEMMA AttendedStays ==
  ASSUME NEW s \in Running, NEW q, Attended(s, q), stock'[q] = stock[q],
         scan'[s].todo = scan[s].todo, scan'[s].pending = scan[s].pending,
         Open(q) \subseteq Open(q)'
  PROVE  Attended(s, q)'
  BY DEF Attended

\* An alert of another rule stays as it is when a handler writes.
LEMMA OtherRuleOpen ==
  ASSUME TypeOK, NEW h \in Handlers, Acknowledge(h) \/ Clear(h),
         NEW q, q # alerts[handler[h].alert].rule
  PROVE  Open(q) \subseteq Open(q)'
<1>1. PICK to \in {"acknowledged", "cleared"} : WriteAlert(h, to)
  BY DEF Acknowledge, Clear
<1> DEFINE i == handler[h].alert
<1>2. alerts' = [alerts EXCEPT ![i].status = to] /\ to \in Statuses
  BY <1>1 DEF WriteAlert, Statuses
<1>3. alerts' \in Seq(Alert) /\ Len(alerts') = Len(alerts)
      /\ \A j \in 1 .. Len(alerts) :
           /\ alerts'[j].rule = alerts[j].rule
           /\ alerts'[j].status = IF j = i THEN to ELSE alerts[j].status
  BY <1>2, AlertWritten
<1>4. DOMAIN alerts = 1 .. Len(alerts) /\ DOMAIN alerts' = 1 .. Len(alerts)
  BY <1>3 DEF TypeOK
<1>5. \A j \in Open(q) : j # i
  BY DEF Open
<1>6. QED
  BY <1>3, <1>4, <1>5 DEF Open

\* A commit closes no alert, and opens one for every rule that was pending.
LEMMA CommitOpens ==
  ASSUME TypeOK, NEW s \in Running, EndScan(s)
  PROVE  /\ alerts' \in Seq(Alert)
         /\ \A q : Open(q) \subseteq Open(q)'
         /\ \A i \in DOMAIN scan[s].pending :
              \E k \in DOMAIN alerts' : alerts'[k] = [rule |-> scan[s].pending[i], status |-> "open"]
<1> DEFINE pending == scan[s].pending
<1>1. pending \in Seq(Rules) /\ alerts' = alerts \o Opened(pending)
  BY ScanType DEF EndScan
<1>2. /\ alerts' \in Seq(Alert) /\ Len(alerts') = Len(alerts) + Len(pending)
      /\ \A i \in 1 .. Len(alerts) : alerts'[i] = alerts[i]
      /\ \A i \in 1 .. Len(pending) :
           alerts'[Len(alerts) + i] = [rule |-> pending[i], status |-> "open"]
  BY <1>1, CommittedAlerts
<1>3. /\ Len(alerts) \in Nat /\ Len(pending) \in Nat /\ DOMAIN pending = 1 .. Len(pending)
      /\ DOMAIN alerts = 1 .. Len(alerts) /\ DOMAIN alerts' = 1 .. Len(alerts) + Len(pending)
  BY <1>1, <1>2 DEF TypeOK
<1>4. \A q : Open(q) \subseteq Open(q)'
  BY <1>2, <1>3 DEF Open
<1> HIDE DEF pending
<1>5. \A i \in DOMAIN pending : Len(alerts) + i \in DOMAIN alerts'
  BY <1>3
<1>6. \A i \in DOMAIN pending :
        \E k \in DOMAIN alerts' : alerts'[k] = [rule |-> pending[i], status |-> "open"]
  BY <1>2, <1>3, <1>5
<1>7. QED
  BY <1>2, <1>4, <1>6 DEF pending

\* What the scan does next says nothing of the rules that are due.
LEMMA ScannedAt ==
  ASSUME TypeOK, NEW s \in Running, NEW pc, NEW todo, NEW pending,
         scan' = Scanned(s, pc, todo, pending)
  PROVE  /\ scan'[s].todo = todo /\ scan'[s].pending = pending
         /\ scan'[s].due = scan[s].due
<1>1. scan'[s] = [pc |-> pc, todo |-> todo, pending |-> pending, due |-> scan[s].due]
  BY DEF Scanned, TypeOK
<1>2. QED
  BY <1>1

LEMMA DueInit == Init => DueInv
<1> SUFFICES ASSUME Init PROVE DueInv
  OBVIOUS
<1>1. \A s \in Running : scan[s].due = {}
  BY DEF Init, Running, NoScan
<1>2. QED
  BY <1>1, InitType DEF DueInv

LEMMA DueNext == DueInv /\ [Next]_vars => DueInv'
<1> SUFFICES ASSUME DueInv, [Next]_vars PROVE DueInv'
  OBVIOUS
<1>1. TypeOK /\ TypeOK' /\ Running' = Running
  BY NextType, RunningStays DEF DueInv
<1>2. \A s \in Running : \A q \in scan[s].due : Attended(s, q) /\ stock[q] = "low"
  BY DEF DueInv, Attended
<1> SUFFICES ASSUME NEW s \in Running, NEW q \in scan'[s].due PROVE Attended(s, q)'
  BY <1>1 DEF DueInv
<1>3. ASSUME q \in scan[s].due, stock' = stock, scan'[s] = scan[s], Open(q) \subseteq Open(q)'
      PROVE  Attended(s, q)'
  BY <1>2, <1>3, AttendedStays
<1>4. CASE CreateRule \/ UpdateRule \/ DeleteRule
  BY <1>3, <1>4 DEF CreateRule, UpdateRule, DeleteRule, Open
<1>5. CASE StockChange
  <2>1. PICK r \in Rules, n \in {"low", "enough", "unknown"} :
          stock' = [stock EXCEPT ![r] = n] /\ scan' = Undue(r)
    BY <1>5 DEF StockChange
  <2>2. scan'[s] = [scan[s] EXCEPT !.due = @ \ {r}] /\ scan[s] \in Scan
    BY <1>1, <2>1 DEF Undue, TypeOK
  <2>3. /\ q \in scan[s].due /\ q # r
        /\ scan'[s].todo = scan[s].todo /\ scan'[s].pending = scan[s].pending
    BY <2>2 DEF Scan
  <2>4. stock'[q] = stock[q] /\ Open(q)' = Open(q)
    BY <1>1, <1>5, <2>1, <2>3 DEF TypeOK, StockChange, Open
  <2>5. QED
    BY <1>2, <2>3, <2>4, AttendedStays
<1>6. ASSUME NEW t \in Running, StartScan(t) PROVE Attended(s, q)'
  <2>1. stock' = stock /\ Open(q)' = Open(q)
    BY <1>6 DEF StartScan, Open
  <2>2. CASE s = t
    <3> DEFINE on == {r \in Rules : rules[r] = "on"}
               due == {r \in on : stock[r] = "low"}
    <3>1. scan'[s] = [pc |-> "stock", todo |-> on, pending |-> <<>>, due |-> due]
      BY <1>1, <1>6, <2>2 DEF TypeOK, StartScan
    <3>2. q \in scan'[s].todo /\ stock[q] = "low"
      BY <3>1
    <3>3. QED
      BY <2>1, <3>2 DEF Attended
  <2>3. CASE s # t
    BY <1>1, <1>3, <1>6, <2>1, <2>3 DEF TypeOK, StartScan
  <2>4. QED
    BY <2>2, <2>3
<1>7. ASSUME NEW t \in Running, NEW r \in Rules,
             ReadStock(t, r) \/ AddAlert(t, r) \/ AlreadyAlerted(t, r)
      PROVE  Attended(s, q)'
  <2>1. stock' = stock /\ Open(q)' = Open(q)
    BY <1>7 DEF ReadStock, AddAlert, AlreadyAlerted, Open
  <2>2. CASE s # t
    <3>1. scan'[s] = scan[s]
      BY <1>1, <1>7, <2>2 DEF TypeOK, ReadStock, AddAlert, AlreadyAlerted, Scanned
    <3>2. QED
      BY <1>3, <2>1, <3>1
  <2>3. CASE s = t
    <3>2. CASE ReadStock(s, r)
      <4>1. CASE scan' = Scanned(s, "open", scan[s].todo, scan[s].pending)
        <5>1. scan'[s].todo = scan[s].todo /\ scan'[s].pending = scan[s].pending
              /\ scan'[s].due = scan[s].due
          BY <1>1, <4>1, ScannedAt
        <5>2. QED
          BY <1>2, <2>1, <2>3, <5>1, AttendedStays
      <4>2. CASE /\ stock[r] # "low"
                 /\ scan' = Scanned(s, "stock", scan[s].todo \ {r}, scan[s].pending)
        <5>1. scan'[s].todo = scan[s].todo \ {r} /\ scan'[s].pending = scan[s].pending
              /\ scan'[s].due = scan[s].due
          BY <1>1, <4>2, ScannedAt
        <5>2. Attended(s, q) /\ q # r
          BY <1>2, <4>2, <5>1
        <5>3. QED
          BY <2>1, <5>1, <5>2 DEF Attended
      <4>3. QED
        BY <3>2, <4>1, <4>2 DEF ReadStock
    <3>3. CASE AddAlert(s, r)
      <4>1. scan[s].pending \in Seq(Rules)
        BY <1>1, ScanType
      <4>2. scan'[s].todo = scan[s].todo \ {r} /\ scan'[s].due = scan[s].due
            /\ scan'[s].pending = Append(scan[s].pending, r)
        <5>1. PICK later : later = Append(scan[s].pending, r)
          OBVIOUS
        <5>2. scan' = Scanned(s, "stock", scan[s].todo \ {r}, later)
          BY <3>3, <5>1 DEF AddAlert
        <5>3. scan'[s].todo = scan[s].todo \ {r} /\ scan'[s].due = scan[s].due
              /\ scan'[s].pending = later
          BY <1>1, <5>2, ScannedAt
        <5>4. QED
          BY <5>1, <5>3
      <4>3. PICK p \in Seq(Rules) : p = scan[s].pending
        BY <4>1
      <4>4. /\ Len(p) + 1 \in DOMAIN Append(p, r) /\ Append(p, r)[Len(p) + 1] = r
            /\ \A i \in DOMAIN p : i \in DOMAIN Append(p, r) /\ Append(p, r)[i] = p[i]
        OBVIOUS
      <4>5. Attended(s, q)
        BY <1>2, <4>2
      <4>6. QED
        BY <2>1, <4>2, <4>3, <4>4, <4>5 DEF Attended
    <3>4. CASE AlreadyAlerted(s, r)
      <4>1. scan'[s].todo = scan[s].todo \ {r} /\ scan'[s].due = scan[s].due
            /\ scan'[s].pending = scan[s].pending
        BY <1>1, <3>4, ScannedAt DEF AlreadyAlerted
      <4>2. Open(r) # {}
        BY <3>4 DEF AlreadyAlerted
      <4>3. Attended(s, q)
        BY <1>2, <4>1
      <4>4. QED
        BY <2>1, <4>1, <4>2, <4>3 DEF Attended
    <3>5. QED
      BY <1>7, <2>3, <3>2, <3>3, <3>4
  <2>4. QED
    BY <2>2, <2>3
<1>8. NoScan.due = {}
  BY DEF NoScan
<1>9. ASSUME NEW t \in Running, Abort(t) PROVE Attended(s, q)'
  <2>1. stock' = stock /\ Open(q)' = Open(q) /\ s # t /\ scan'[s] = scan[s]
    BY <1>1, <1>8, <1>9 DEF TypeOK, Abort, Open
  <2>2. QED
    BY <1>3, <2>1
<1>10. ASSUME NEW t \in Running, EndScan(t) PROVE Attended(s, q)'
  <2>1. stock' = stock /\ s # t /\ scan'[s] = scan[s]
    BY <1>1, <1>8, <1>10 DEF TypeOK, EndScan
  <2>2. Open(q) \subseteq Open(q)'
    BY <1>1, <1>10, CommitOpens
  <2>3. QED
    BY <1>3, <2>1, <2>2
<1>11. ASSUME NEW h \in Handlers, ReadAlert(h) \/ Refuse(h) PROVE Attended(s, q)'
  BY <1>3, <1>11 DEF ReadAlert, Refuse, Open
<1>12. ASSUME NEW h \in Handlers, Acknowledge(h) \/ Clear(h) PROVE Attended(s, q)'
  <2>1. scan'[s] = [scan[s] EXCEPT !.due = @ \ {alerts[handler[h].alert].rule}]
        /\ scan[s] \in Scan /\ stock' = stock
    BY <1>1, <1>12, HandledOpen DEF TypeOK, Acknowledge, Clear, WriteAlert
  <2>2. /\ q \in scan[s].due /\ q # alerts[handler[h].alert].rule
        /\ scan'[s].todo = scan[s].todo /\ scan'[s].pending = scan[s].pending
    BY <2>1 DEF Scan
  <2>3. Open(q) \subseteq Open(q)'
    BY <1>1, <1>12, <2>2, OtherRuleOpen
  <2>4. QED
    BY <1>2, <2>1, <2>2, <2>3, AttendedStays
<1>13. CASE Crash
  BY <1>8, <1>13 DEF Crash, Running
<1>14. CASE UNCHANGED vars
  BY <1>3, <1>14 DEF vars, Open
<1>15. QED
  BY <1>4, <1>5, <1>6, <1>7, <1>9, <1>10, <1>11, <1>12, <1>13, <1>14
     DEF Next, FindTwo, LockTimeout

\* Whatever other scans, handlers and stock changes come between, a scan that ends leaves an
\* open alert for each enabled rule that was low and untouched since it began
\* (check_inventory with scalar_one_or_none, and the one commit at its end).
THEOREM ScanSkipsNoRule == Spec => ScanAlertsAll
<1>1. DueInv /\ [Next]_vars =>
        \A s \in Running : EndScan(s) =>
          \A r \in scan[s].due :
            \E i \in DOMAIN alerts' : alerts'[i] = [rule |-> r, status |-> "open"]
  <2> SUFFICES ASSUME DueInv, NEW s \in Running, EndScan(s), NEW r \in scan[s].due
               PROVE  \E i \in DOMAIN alerts' : alerts'[i] = [rule |-> r, status |-> "open"]
    OBVIOUS
  <2>1. TypeOK /\ Attended(s, r) /\ scan[s].todo = {}
    BY DEF DueInv, EndScan
  <2>2. CASE \E i \in DOMAIN scan[s].pending : scan[s].pending[i] = r
    BY <2>1, <2>2, CommitOpens
  <2>3. CASE Open(r) # {}
    <3>1. PICK k : k \in Open(r)'
      BY <2>1, <2>3, CommitOpens
    <3>2. alerts' \in Seq(Alert)
      BY <2>1, CommitOpens
    <3>3. k \in DOMAIN alerts' /\ alerts'[k].rule = r /\ alerts'[k].status = "open"
      BY <3>1 DEF Open
    <3>4. alerts'[k] \in Alert
      BY <3>2, <3>3
    <3>5. QED
      BY <3>3, <3>4 DEF Alert
  <2>4. QED
    BY <2>1, <2>2, <2>3 DEF Attended
<1>2. QED
  BY DueInit, DueNext, <1>1, PTL DEF Spec, ScanAlertsAll

===============================================================================
