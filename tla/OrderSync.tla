------------------------------ MODULE OrderSync ------------------------------
(***************************************************************************)
(* Incremental synchronisation of one store (PlatformAccount) with its     *)
(* platform: SyncService.sync_orders_for_account and                       *)
(* sync_products_for_account, reached from the 15 minute scheduler job,    *)
(* from POST /settings/tasks/{id}/run (which calls the same job function)  *)
(* and from POST /sync/trigger and /sync/products/trigger.                 *)
(*                                                                         *)
(* All of them run as coroutines of one process and interleave at every    *)
(* await.  Each has a session of its own: it works on the copy of the      *)
(* account row it loaded (expire_on_commit=False), SELECT takes no lock,   *)
(* and from its first flush to its commit it holds the one write lock of   *)
(* the SQLite database.                                                    *)
(***************************************************************************)
EXTENDS Integers, Sequences, FiniteSets

CONSTANTS Orders,       \* platform order ids of the store
          Jobs,         \* executions of sync_all_platforms_job
          Triggers,     \* single-store requests POST /sync/trigger
          ProductRuns,  \* requests POST /sync/products/trigger
          NoOne,        \* the write lock is free
          MaxTime,      \* bound on the clock
          MaxFaults,    \* bound on crashes, platform failures and short page lists
          FirstWindow,  \* how far back a store without last_sync_at is read (30 days)
          Unsound,      \* versions of orders without total or currency
          TotalAt,      \* the total of an order in the version of that time
          FeeTimes      \* an order changed at one of these times has a fee > 0

OrderWorkers == Jobs \cup Triggers
Workers == OrderWorkers \cup ProductRuns
Times == 0 .. MaxTime
Version == Orders \X Times

ASSUME WorkersAssumption ==
  /\ Jobs \cap Triggers = {}
  /\ OrderWorkers \cap ProductRuns = {}
  /\ NoOne \notin Workers
  /\ IsFiniteSet(OrderWorkers)
ASSUME BoundsAssumption ==
  /\ MaxTime \in Nat \ {0} /\ MaxFaults \in Nat /\ FirstWindow \in Nat
ASSUME VersionsAssumption ==
  /\ Unsound \subseteq Version
  /\ TotalAt \in [Times -> Nat \ {0}]

VARIABLES
  clock, faults,
  remote,     \* the platform's orders: time and soundness of the last change
  connected,  \* the connector of the store reports sync_ready
  rateKnown,  \* an exchange rate for the order currency is stored
  orders,     \* committed Order rows of each platform order id, with their ledger
  draft,      \* the same table as the transaction holding the lock sees it
  lock,       \* holder of the database write lock
  unfetched,  \* history: changes last_sync_at was moved past and no page brought
  account,    \* committed last_sync_at and settings.sync_state
  logs,       \* SyncLog rows that are closed or were left behind by a dead run
  task,       \* status of the last TaskRun of each job
  run         \* the coroutines: stage and local variables

world == <<clock, faults, remote, connected, rateKnown>>
table == <<orders, draft, lock, unfetched>>
vars == <<world, table, account, logs, task, run>>

Closed == {"success", "partial_failed", "failed"}
Change == [order : Orders, at : Times, ok : BOOLEAN]
\* The columns that differ in every version, and those two versions may share.
Columns == [at : Times, total : Nat]
Row == [at : Times, total : Nat,
        income : Nat,      \* amount of the income entry, 0 without one
        fee : Times,       \* version the fee entry stems from, 0 without one
        stale : BOOLEAN]   \* history: last written from a copy no longer true
SyncLog == [type : {"orders", "products"}, status : Closed \cup {"running"},
            failed : SUBSET Version]
SyncState == [orders : Closed \cup {"none", "running"},
              products : Closed \cup {"none", "running"}]
Account == [cursor : Times, state : SyncState]
Stages == {"idle", "tasked", "loaded", "opened", "stamped", "paging", "fetched",
           "write", "stored", "closing"}
RunState == [pc : Stages,
             ready : BOOLEAN,          \* the connector, when the account was loaded
             copy : Account,           \* the session's copy of the account row
             now : Times,
             listed : SUBSET Change,   \* the platform's list at the first page request
             batch : SUBSET Change,    \* fetched and not yet handled
             out : SUBSET Version,     \* history: what no page brought
             hand : SUBSET Change,     \* looked up and not yet written
             seen : Seq(Columns),      \* the row the look-up found, as it was then
             failed : SUBSET Version,
             kept : BOOLEAN]           \* some order was written

TypeOK ==
  /\ clock \in Times /\ faults \in 0 .. MaxFaults
  /\ remote \in [Orders -> [at : Times, ok : BOOLEAN]]
  /\ connected \in BOOLEAN /\ rateKnown \in BOOLEAN
  /\ orders \in [Orders -> Seq(Row)] /\ draft \in [Orders -> Seq(Row)]
  /\ lock \in Workers \cup {NoOne} /\ unfetched \subseteq Version
  /\ account \in Account /\ logs \subseteq SyncLog
  /\ task \in [Jobs -> Closed \cup {"none", "running", "skipped"}]
  /\ run \in [Workers -> RunState]

\* Cursor 0: last_sync_at is NULL; the clock starts at 1.
NewAccount == [cursor |-> 0, state |-> [orders |-> "none", products |-> "none"]]
NoRun == [pc |-> "idle", ready |-> FALSE, copy |-> NewAccount, now |-> 0,
          listed |-> {}, batch |-> {}, out |-> {}, hand |-> {}, seen |-> <<>>,
          failed |-> {}, kept |-> FALSE]

Init ==
  /\ clock = 1 /\ faults = 0
  /\ remote = [o \in Orders |-> [at |-> 0, ok |-> TRUE]]
  /\ connected \in BOOLEAN /\ rateKnown = FALSE
  /\ orders = [o \in Orders |-> <<>>] /\ draft = orders
  /\ lock = NoOne /\ unfetched = {}
  /\ account = NewAccount
  /\ logs = {}
  /\ task = [p \in Jobs |-> "none"]
  /\ run = [p \in Workers |-> NoRun]

-----------------------------------------------------------------------------
(* The database as a session sees it.                                      *)

Type(p) == IF p \in ProductRuns THEN "products" ELSE "orders"

\* A statement that writes waits until no other transaction holds the lock.
CanWrite(p) == lock \in {NoOne, p}

Seen(p) == IF lock = p THEN draft ELSE orders

\* Mutant: what the run did not write is dropped (a full refresh of the table).
CommitWritten(p) ==
  /\ orders' = [o \in Orders |-> IF Seen(p)[o] = orders[o] THEN <<>> ELSE Seen(p)[o]]
  /\ draft' = orders' /\ lock' = NoOne
  /\ unfetched' = unfetched \cup run[p].out

\* COMMIT of a session: the table becomes what its transaction saw.
Commit(p) ==
  /\ orders' = Seen(p) /\ draft' = Seen(p) /\ lock' = NoOne
  /\ unfetched' = unfetched \cup run[p].out

\* _write_sync_state: the session's own copy of settings, one entry replaced.
WithState(p, s) == [run[p].copy EXCEPT !.state[Type(p)] = s]

Move(p, stage) == run' = [run EXCEPT ![p].pc = stage]

\* A finished job still has its TaskRun to close; a request just returns.
Finish(p, s) ==
  run' = [run EXCEPT ![p] = IF p \in Jobs
                              THEN [NoRun EXCEPT !.pc = "closing", !.copy = WithState(p, s)]
                              ELSE NoRun]

Log(p, s, f) == [type |-> Type(p), status |-> s, failed |-> f]

\* What a run leaves in sync_logs if it dies now: nothing, or a running row.
Orphan(p) ==
  IF run[p].pc \in {"opened", "stamped", "paging", "fetched", "write", "stored"}
    THEN {Log(p, "running", IF run[p].pc = "stored" THEN run[p].failed ELSE {})}
    ELSE {}

-----------------------------------------------------------------------------
(* One run.                                                                *)

\* _start_task_run
StartTask(p) ==
  /\ p \in Jobs /\ run[p].pc = "idle" /\ CanWrite(p)
  /\ task' = [task EXCEPT ![p] = "running"]
  /\ Move(p, "tasked")
  /\ UNCHANGED <<world, table, account, logs>>

\* select(PlatformAccount): the copy this run works on from here to its end.
LoadAccount(p) ==
  /\ run[p].pc = IF p \in Jobs THEN "tasked" ELSE "idle"
  /\ run' = [run EXCEPT ![p] = [NoRun EXCEPT !.pc = "loaded", !.ready = connected,
                                             !.copy = account]]
  /\ UNCHANGED <<world, table, account, logs, task>>

\* sync_all_platforms skips a store whose connector is not ready.
SkipStore(p) ==
  /\ p \in Jobs /\ run[p].pc = "loaded" /\ ~run[p].ready /\ CanWrite(p)
  /\ task' = [task EXCEPT ![p] = "skipped"]
  /\ run' = [run EXCEPT ![p] = NoRun]
  /\ UNCHANGED <<world, table, account, logs>>

\* The trigger endpoints record a blocked sync and answer 409.
RecordBlockedSync(p) ==
  /\ p \notin Jobs /\ run[p].pc = "loaded" /\ ~run[p].ready /\ CanWrite(p)
  /\ logs' = logs \cup {Log(p, "failed", {})}
  /\ account' = [account EXCEPT !.state = WithState(p, "failed").state]
  /\ run' = [run EXCEPT ![p] = NoRun]
  /\ UNCHANGED <<world, table, task>>

\* The SyncLog row is committed as running before the platform is called.
OpenLog(p) ==
  /\ run[p].pc = "loaded" /\ run[p].ready /\ CanWrite(p)
  /\ Move(p, "opened")
  /\ UNCHANGED <<world, table, account, logs, task>>

\* authenticate succeeded; now is taken before the pages are fetched.
StampNow(p) ==
  /\ run[p].pc = "opened"
  /\ run' = [run EXCEPT ![p].pc = "stamped", ![p].now = clock]
  /\ UNCHANGED <<world, table, account, logs, task>>

\* Mutant: a half-open window (start, end].
ChangedAfter(start, end) ==
  {[order |-> o, at |-> remote[o].at, ok |-> remote[o].ok] :
     o \in {x \in Orders : remote[x].at \in (start + 1) .. end}}

\* The orders whose last change lies in [start, end], as the platform has them.
ChangedWithin(start, end) ==
  {[order |-> o, at |-> remote[o].at, ok |-> remote[o].ok] :
     o \in {x \in Orders : remote[x].at > 0 /\ remote[x].at \in start .. end}}

\* last_sync_at or now - 30 days.
WindowStart(p) ==
  IF run[p].copy.cursor = 0 THEN run[p].now - FirstWindow ELSE run[p].copy.cursor

\* What the platform lists at this moment for the window of the run.
Window(p) ==
  IF p \in OrderWorkers THEN ChangedWithin(WindowStart(p), run[p].now) ELSE {}

\* The first page: some of the list, nothing only if nothing is listed.
FirstPage(p) ==
  /\ run[p].pc = "stamped"
  /\ \E items \in SUBSET Window(p) :
       /\ items = {} => Window(p) = {}
       /\ run' = [run EXCEPT ![p].pc = "paging", ![p].listed = Window(p), ![p].batch = items]
  /\ UNCHANGED <<world, table, account, logs, task>>

\* A further page of the list as it is by now; items with an id already seen are dropped.
NextPage(p) ==
  /\ run[p].pc = "paging" /\ run[p].batch # {}
  /\ \E items \in SUBSET {c \in Window(p) : \A b \in run[p].batch : b.order # c.order} :
       /\ items # {}
       /\ run' = [run EXCEPT ![p].batch = @ \cup items]
  /\ UNCHANGED <<world, table, account, logs, task>>

\* Of the window, what no page brought; without last_sync_at also what is older than it.
NotBrought(p) ==
  {<<c.order, c.at>> : c \in Window(p) \ run[p].batch} \cup
  {<<o, remote[o].at>> :
     o \in {x \in Orders : run[p].copy.cursor = 0 /\ 0 < remote[x].at
                            /\ remote[x].at < WindowStart(p)}}

\* The loop ends and its list is taken for complete.  It is, if the list stayed as it
\* was (OrderPages): it is short after a change of the list, which moves the pages, and
\* after an empty page, a total that is too small, or the limit of 1000 pages.
FetchPages(p) ==
  /\ \/ /\ run[p].pc = "paging" /\ UNCHANGED faults
        /\ run[p].listed \subseteq run[p].batch \/ ~(run[p].listed \subseteq Window(p))
     \/ /\ run[p].pc \in {"stamped", "paging"}
        /\ faults < MaxFaults /\ faults' = faults + 1
  /\ run' = [run EXCEPT ![p].pc = "fetched", ![p].listed = {}, ![p].out = NotBrought(p)]
  /\ UNCHANGED <<clock, remote, connected, rateKnown, table, account, logs, task>>

\* Mutant: the failed run moves last_sync_at as well.
PlatformFailsMovingCursor(p) ==
  /\ run[p].pc \in {"opened", "stamped", "paging"} /\ faults < MaxFaults /\ CanWrite(p)
  /\ faults' = faults + 1
  /\ logs' = logs \cup {Log(p, "failed", {})}
  /\ account' = [cursor |-> clock, state |-> WithState(p, "failed").state]
  /\ Finish(p, "failed")
  /\ UNCHANGED <<clock, remote, connected, rateKnown, table, task>>

\* authenticate or a page request raises: the outer except closes the log.
PlatformFails(p) ==
  /\ run[p].pc \in {"opened", "stamped", "paging"} /\ faults < MaxFaults /\ CanWrite(p)
  /\ faults' = faults + 1
  /\ logs' = logs \cup {Log(p, "failed", {})}
  /\ account' = [account EXCEPT !.state = WithState(p, "failed").state]
  /\ Finish(p, "failed")
  /\ UNCHANGED <<clock, remote, connected, rateKnown, table, task>>

\* An order without total or currency, or with two local rows, is counted as failed.
RefuseOrder(p) ==
  /\ run[p].pc = "fetched"
  /\ \E h \in run[p].batch :
       /\ ~h.ok \/ Len(Seen(p)[h.order]) > 1
       /\ run' = [run EXCEPT ![p].batch = @ \ {h},
                             ![p].failed = @ \cup {<<h.order, h.at>>}]
  /\ UNCHANGED <<world, table, account, logs, task>>

Held(row) == [at |-> row.at, total |-> row.total]

\* The session's copy of the row found, if one was.
Loaded(rows) == [i \in DOMAIN rows |-> Held(rows[i])]

\* The existing row is looked up before anything is written.
ReadOrder(p) ==
  /\ run[p].pc = "fetched"
  /\ \E h \in run[p].batch :
       /\ h.ok /\ Len(Seen(p)[h.order]) <= 1
       /\ run' = [run EXCEPT ![p].pc = "write", ![p].batch = @ \ {h}, ![p].hand = {h},
                             ![p].seen = Loaded(Seen(p)[h.order])]
  /\ UNCHANGED <<world, table, account, logs, task>>

\* Mutant: an income entry that exists is left as it is.
WithFirstIncome(row, at) ==
  [row EXCEPT !.income = IF rateKnown /\ @ = 0 THEN TotalAt[at] ELSE @,
              !.fee = IF rateKnown /\ at \in FeeTimes THEN at ELSE @]

\* _sync_order_finance_entries: no rate, no entry; the fee entry only if fee > 0.
\* The entries are looked up under the lock and get the amounts of the version written.
WithLedger(row, at) ==
  [row EXCEPT !.income = IF rateKnown THEN TotalAt[at] ELSE @,
              !.fee = IF rateKnown /\ at \in FeeTimes THEN at ELSE @]

NewRow(at) ==
  WithLedger([at |-> at, total |-> TotalAt[at], income |-> 0, fee |-> 0, stale |-> FALSE], at)

\* The UPDATE names the columns that differ from the session's copy, and leaves the
\* others as whoever wrote the row since then has left them.
Updated(row, copy, at) ==
  WithLedger([row EXCEPT !.at = IF at # copy.at THEN at ELSE @,
                         !.total = IF TotalAt[at] # copy.total THEN TotalAt[at] ELSE @,
                         !.stale = copy # Held(row)], at)

\* Mutant: the row found is not used.
Appended(rows, seen, at) == Append(rows, NewRow(at))

Upserted(rows, seen, at) ==
  IF seen = <<>> THEN Append(rows, NewRow(at))
                 ELSE [rows EXCEPT ![1] = Updated(@, seen[1], at)]

\* The flush takes the lock; the ledger is looked up after it (autoflush).
WriteOrder(p) ==
  /\ run[p].pc = "write" /\ CanWrite(p)
  /\ \E h \in run[p].hand :
       draft' = [draft EXCEPT ![h.order] = Upserted(@, run[p].seen, h.at)]
  /\ lock' = p
  /\ run' = [run EXCEPT ![p].pc = "fetched", ![p].hand = {}, ![p].kept = TRUE,
                        ![p].seen = <<>>]
  /\ UNCHANGED <<world, orders, unfetched, account, logs, task>>

Verdict(p) == IF run[p].failed = {} THEN "success"
              ELSE IF run[p].kept THEN "partial_failed" ELSE "failed"

\* Mutant: the first commit publishes the final status.
StoreOrdersEarlyStatus(p) ==
  /\ p \in OrderWorkers /\ run[p].pc = "fetched" /\ run[p].batch = {} /\ CanWrite(p)
  /\ account' = [WithState(p, Verdict(p)) EXCEPT !.cursor = run[p].now]
  /\ run' = [run EXCEPT ![p].pc = "stored", ![p].copy = account']
  /\ Commit(p)
  /\ UNCHANGED <<world, logs, task>>

\* First commit: the orders, last_sync_at and a sync_state that still says running.
StoreOrders(p) ==
  /\ p \in OrderWorkers /\ run[p].pc = "fetched" /\ run[p].batch = {} /\ CanWrite(p)
  /\ account' = [WithState(p, "running") EXCEPT !.cursor = run[p].now]
  /\ run' = [run EXCEPT ![p].pc = "stored", ![p].copy = account']
  /\ Commit(p)
  /\ UNCHANGED <<world, logs, task>>

\* Second commit: the log and sync_state get their final status.
CloseLog(p) ==
  /\ run[p].pc = "stored" /\ CanWrite(p)
  /\ logs' = logs \cup {Log(p, Verdict(p), run[p].failed)}
  /\ account' = [account EXCEPT !.state = WithState(p, Verdict(p)).state]
  /\ Finish(p, Verdict(p))
  /\ UNCHANGED <<world, table, task>>

\* The product sync has one commit, and it moves the same last_sync_at.
StoreProducts(p) ==
  /\ p \in ProductRuns /\ run[p].pc = "fetched" /\ CanWrite(p)
  /\ \E s \in Closed :
       /\ logs' = logs \cup {Log(p, s, {})}
       /\ account' = [WithState(p, s) EXCEPT !.cursor = run[p].now]
       /\ Finish(p, s)
  /\ UNCHANGED <<world, table, task>>

\* _finish_task_run
FinishTask(p) ==
  /\ p \in Jobs /\ run[p].pc = "closing" /\ CanWrite(p)
  /\ task' = [task EXCEPT ![p] = IF run[p].copy.state.orders = "success"
                                   THEN "success" ELSE "partial_failed"]
  /\ run' = [run EXCEPT ![p] = NoRun]
  /\ UNCHANGED <<world, table, account, logs>>

\* "database is locked": the session is unusable, the exception leaves the run,
\* neither its SyncLog nor its TaskRun is closed.
LockTimeout(p) ==
  /\ ~CanWrite(p)
  /\ \/ run[p].pc \in {"loaded", "write", "stored", "closing"}
     \/ run[p].pc = "fetched" /\ run[p].batch = {}
  /\ logs' = logs \cup Orphan(p)
  /\ run' = [run EXCEPT ![p] = NoRun]
  /\ UNCHANGED <<world, table, account, task>>

Run(p) ==
  \/ StartTask(p) \/ LoadAccount(p) \/ SkipStore(p) \/ RecordBlockedSync(p)
  \/ OpenLog(p) \/ StampNow(p)
  \/ FirstPage(p) \/ NextPage(p) \/ FetchPages(p)
  \/ RefuseOrder(p) \/ ReadOrder(p) \/ WriteOrder(p)
  \/ StoreOrders(p) \/ CloseLog(p) \/ StoreProducts(p) \/ FinishTask(p)

-----------------------------------------------------------------------------
(* The platform, the connector, the exchange rate source, the process.     *)

Tick == /\ clock < MaxTime
        /\ clock' = clock + 1
        /\ UNCHANGED <<faults, remote, connected, rateKnown, table, account, logs, task, run>>

RemoteChange ==
  /\ \E o \in Orders :
       /\ remote[o].at < clock
       /\ remote' = [remote EXCEPT ![o] = [at |-> clock, ok |-> <<o, clock>> \notin Unsound]]
  /\ UNCHANGED <<clock, faults, connected, rateKnown, table, account, logs, task, run>>

\* An authorisation expires, or the owner renews it.
ConnectorChange ==
  /\ connected => faults < MaxFaults
  /\ connected' = ~connected
  /\ faults' = IF connected THEN faults + 1 ELSE faults
  /\ UNCHANGED <<clock, remote, rateKnown, table, account, logs, task, run>>

RateStored ==
  /\ ~rateKnown /\ rateKnown' = TRUE
  /\ UNCHANGED <<clock, faults, remote, connected, table, account, logs, task, run>>

\* The process dies: every transaction is rolled back, every coroutine is gone,
\* the rows already committed as running stay.
Crash ==
  /\ faults < MaxFaults
  /\ faults' = faults + 1
  /\ logs' = logs \cup UNION {Orphan(p) : p \in Workers}
  /\ draft' = orders /\ lock' = NoOne
  /\ run' = [p \in Workers |-> NoRun]
  /\ UNCHANGED <<clock, remote, connected, rateKnown, orders, unfetched, account, task>>

Environment == Tick \/ RemoteChange \/ ConnectorChange \/ RateStored \/ Crash

Next == Environment \/ \E p \in Workers : Run(p) \/ PlatformFails(p) \/ LockTimeout(p)

Spec == Init /\ [][Next]_vars

\* The scheduler starts the job every 15 minutes and the event loop resumes every
\* coroutine; nothing obliges the platform, the clock or an operator to act.
FairSpec == Spec /\ \A p \in Jobs : WF_vars(Run(p))

-----------------------------------------------------------------------------
(* Properties.                                                             *)

Applied(o) == /\ orders[o] # <<>>
              /\ orders[o][1].at = remote[o].at

\* A log row that does not say success names the change among its failures.
Reported(o) ==
  \/ \E l \in logs : l.status # "success" /\ <<o, remote[o].at>> \in l.failed
  \/ \E p \in OrderWorkers : run[p].pc = "stored" /\ <<o, remote[o].at>> \in run[p].failed

\* What a page brought is never lost: a platform order whose last change is older than
\* last_sync_at is held in that version, or a log that is not "success" counted it as
\* failed (sync_orders_for_account moves last_sync_at past orders it could not process),
\* or no page of the run that moved last_sync_at brought it: it was older than the first
\* window, or the list of pages was short.  Nothing falls between two windows.
OnlyUnfetchedIsLost ==
  \A o \in Orders :
    remote[o].at > 0 /\ remote[o].at < account.cursor =>
      Applied(o) \/ Reported(o) \/ <<o, remote[o].at>> \in unfetched

\* A platform order has one local Order row, although no unique key says so.
OneRowPerOrder == \A o \in Orders : Len(orders[o]) <= 1

\* A sync never overwrites a row with an older version of the platform order.
NoRegress ==
  [][\A o \in Orders :
       orders[o] # <<>> => orders'[o] # <<>> /\ orders'[o][1].at >= orders[o][1].at]_vars

\* The ledger follows the row it belongs to, whatever runs overlap: an income entry has
\* the total of its row, unless the row was last written from a copy another run had
\* changed in the meantime (then UPDATE may leave the other's total beside the amount
\* written last), and a fee entry is of a version with a fee and never without an
\* income entry.
LedgerFollowsOrder ==
  \A o \in Orders : \A i \in 1 .. Len(orders[o]) :
    LET r == orders[o][i] IN
      /\ r.income # 0 /\ ~r.stale => r.income = r.total
      /\ r.fee # 0 => r.fee \in FeeTimes /\ r.income # 0

\* With one run at a time no copy is stale: a row has the columns of one version, and
\* its income entry has that version's total.
LedgerExact ==
  \A o \in Orders : \A i \in 1 .. Len(orders[o]) :
    LET r == orders[o][i] IN
      /\ r.total = TotalAt[r.at]
      /\ r.income # 0 => r.income = r.total

\* Overlapping runs can insert one order several times, but never more often than
\* there are overlapping runs: a run that looks later finds a row.
DuplicatesBoundedByRuns ==
  \A o \in Orders : Len(orders[o]) <= Cardinality(OrderWorkers)

\* What the account shows for an operation was the status of a log of it: no
\* overlap of stale copies makes sync_state claim a success that no log records.
StateHasLog ==
  \A t \in {"orders", "products"} :
    account.state[t] \in Closed =>
      \E l \in logs : l.type = t /\ l.status = account.state[t]

\* With the job alone and a bounded number of faults every sound platform order
\* ends up held in its latest version while the store stays connected, unless
\* last_sync_at was moved past that version before a page brought it.
EventuallySynced ==
  \A o \in Orders :
    <>[](\/ remote[o].at = 0 \/ ~remote[o].ok \/ ~connected \/ Applied(o)
         \/ <<o, remote[o].at>> \in unfetched)

-----------------------------------------------------------------------------
(* Why it works with one run at a time: the inductive invariant behind     *)
(* OnlyUnfetchedIsLost, OneRowPerOrder, NoRegress and LedgerExact          *)
(* (OrderSync_proofs).                                                     *)

OneRunAtATime == ProductRuns = {} /\ \A p, q \in Workers : p = q

InLoop(p) == run[p].pc \in {"fetched", "write"}

\* Uncommitted rows belong to the run that holds the lock.
LockInv ==
  /\ lock = NoOne => draft = orders
  /\ \A p \in Workers : lock = p => InLoop(p)

\* The copy a run works on has the committed cursor, and its window ends later.
WindowInv ==
  /\ account.cursor <= clock
  /\ \A o \in Orders : remote[o].at <= clock
  /\ \A p \in Workers :
       /\ run[p].pc \notin {"idle", "tasked"} => run[p].copy.cursor = account.cursor
       /\ run[p].pc \in {"stamped", "paging"} \/ InLoop(p) =>
            account.cursor <= run[p].now /\ run[p].now <= clock

\* What a run still has to write lies in its window, and is either the current
\* version of the order or one that changed again after the window's end.
BatchInv ==
  \A p \in Workers :
    /\ run[p].pc # "write" => run[p].hand = {}
    /\ run[p].pc # "paging" /\ ~InLoop(p) => run[p].batch = {}
    /\ \A x, y \in run[p].hand : x = y
    /\ \A h \in run[p].batch \cup run[p].hand :
         /\ account.cursor <= h.at /\ h.at <= run[p].now
         /\ h.at = remote[h.order].at \/ run[p].now <= remote[h.order].at
    /\ \A h \in run[p].hand : run[p].seen = Loaded(Seen(p)[h.order])

RowInv ==
  \A o \in Orders :
    /\ Len(orders[o]) <= 1 /\ Len(draft[o]) <= 1
    /\ orders[o] # <<>> => /\ orders[o][1].at <= account.cursor
                           /\ draft[o] # <<>> /\ orders[o][1].at <= draft[o][1].at
    /\ \A p \in Workers : lock = p /\ draft[o] # <<>> => draft[o][1].at <= run[p].now
    /\ remote[o].at < account.cursor => draft[o] = orders[o]

\* A row is of one version, and was written from a copy that was still true.
Whole(row) == row.total = TotalAt[row.at] /\ ~row.stale

WholeInv ==
  \A o \in Orders :
    /\ orders[o] # <<>> => Whole(orders[o][1])
    /\ draft[o] # <<>> => Whole(draft[o][1])

\* Each change in the window of a run is pending, refused, written, or not brought.
CoverInv ==
  \A o \in Orders, p \in Workers :
    InLoop(p) /\ 0 < remote[o].at /\ account.cursor <= remote[o].at
              /\ remote[o].at < run[p].now =>
      \/ \E h \in run[p].batch \cup run[p].hand : h.order = o /\ h.at = remote[o].at
      \/ <<o, remote[o].at>> \in run[p].failed \cup run[p].out
      \/ Seen(p)[o] # <<>> /\ Seen(p)[o][1].at = remote[o].at

SerialInv ==
  /\ TypeOK /\ LockInv /\ WindowInv /\ BatchInv /\ RowInv /\ WholeInv /\ CoverInv
  /\ OnlyUnfetchedIsLost

=============================================================================
