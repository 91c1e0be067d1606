# CBHunter: a TLA+ verification of its stateful core

CBHunter is a workbench for cross-border e-commerce sellers: a FastAPI backend
(`src/backend/app`) over one SQLite database, a React web client (`src/frontend`) and a browser
extension (`src/extension`). Most of the backend is CRUD and read-only projection, and most of the
client is layout. This project models what is *not*: on the server, the places where several coroutines
read rows, await, and write them back, where a scheduler, a manual trigger and a platform race, and where
the code relies on "look up, then insert" with no constraint behind it; in the client, what a screen does
with requests that overlap, fail or are answered out of order; and between the two, how a notification
reaches the pages that are open.

| module | what it models | checked | proved |
|---|---|---|---|
| `OrderSync` | incremental sync of a store with its platform: job, trigger, product sync, cursor, log, rows, ledger | `sync_serial`, `sync_overlap`, `sync_products` | `OrderSync_proofs` |
| `ProductSync` | what a product sync does to the product master and the listings of the stores | `products_runs` | `ProductSync_proofs` |
| `OrderPages` | the page loop behind one sync (`_fetch_order_pages`) | `pages` | `OrderSync_proofs` |
| `OrderFulfillment` | order status × shipments × freight ledger × sync | `fulfil_requests` | `OrderFulfillment_proofs` |
| `AiQuota` | monthly AI quota: check, task, count, audit | `quota_requests` | `AiQuota_proofs` |
| `InventoryAlerts` | stock scans, their alerts, acknowledge/clear | `alerts_scans` | `InventoryAlerts_proofs` |
| `Bookkeeping` | abstract: what the ledger owes to the operating records | as `KeepsBooks` of `ledger_requests` | – |
| `OperationLedger` | operating records and their ledger entries; implements `Bookkeeping` | `ledger_requests`, `ledger_deleted` | `OperationLedger_proofs` |
| `Realtime` | tickets, sockets, pushes and the list of notifications, between server and open pages | `realtime` | `Realtime_proofs` |
| `ScreenVocabulary` | the words a screen is described in | – | – |
| `OrderScreens`, `ProductScreens`, `SettingsScreens`, `MonitorScreens`, `FinanceScreens`, `FlowScreens`, `TrendScreens`, `ContentScreens`, `PublishScreens`, `ShellScreens` | the screens of the web client, the extension's popup and its context menus, component by component | – | – |
| `Screens` | how a screen runs: clicks, requests on their way, answers, failures, refetches | `screens` | `Screens_proofs` |
| `ScreenShapes` | the shapes of a description from which a screen's promises follow | – | used by `Screens_proofs` |

Run a check with `tlc -config <cfg> <module>` (the pairs are in `PROJECT.json`), a proof with
`tlapm <module>_proofs.tla`. `PROJECT.json` also maps every definition to the lines it stands for.

## 1. How the program executes, and how the modules say so

The server's modules follow from a handful of facts about its runtime:

1. **One asyncio process.** Handlers and APScheduler jobs are coroutines of one event loop. A
   coroutine is only interrupted at an `await`; there every other one may run. An action of a
   module is therefore *the code between two awaits that matter*, and a request is a record with a
   program counter and its local variables.
2. **A session of its own.** `get_db` (`database.py:23-28`) opens an `AsyncSession` for each
   request, with `expire_on_commit=False` (`database.py:16`). A row once loaded stays as it was
   loaded: a later SELECT of the same row *does not refresh* it. The modules keep a `copy` (or
   `row`, `seen`) in the request and never re-read it unless the code loads it in a new session.
3. **SQLite locking.** A SELECT takes no lock. The first flush of a transaction takes the
   database's one write lock, held to COMMIT or ROLLBACK. What a handler does between its first
   flush and its commit is therefore atomic as far as *other writers* go and is one action, unless
   readers can see it half done or it awaits the platform; `OrderSync` and `InventoryAlerts`, whose
   transactions are long, model the lock as a variable.
4. **A lock not had within five seconds** raises "database is locked"; the session is then
   unusable and the exception leaves the handler (`LockTimeout`, `Abandon`).
5. **UPDATE names only the changed attributes** — changed with respect to the *copy*. Two stale
   writers lose each other's update of the same column, but not of different ones (`Flushed` of
   `OperationLedger`, `Updated` of `OrderSync`). A JSON column is one attribute, written whole (`platform_data`, `settings`).
6. **UPDATE of a row that is gone** raises `StaleDataError`; DELETE of one only warns.
7. **Unique constraints** exist on `products.sku`, `quota_usage(…period)`, `plan_entitlements`,
   `business_flow_tasks(user, item_type, item_id)`, `risk_event_states`, `memberships`, `users`.
   Everything else that is "unique" is so by a look-up. Foreign keys are not enforced.
8. **A crash** loses coroutines and uncommitted transactions and keeps committed rows.

Facts 2–6 are properties of SQLAlchemy and SQLite, not of files under `src/`; the definitions that
stand for them (`Flushed` of `OperationLedger`) are marked external or mapped to the statements
that rely on them.

**In turn or overlapping.** Most modules have a set of request slots. Which of them a behaviour
serves is chosen in `Init`; with one slot a client waits for each answer (`OneAtATime`), with two,
two requests overlap at every await. One run thus covers both, and the properties say which of the
two they are about: `OneAtATime => ...` for what needs turn-taking, unconditionally for what holds
under every overlap. (`OrderSync` fixes the set of runs in the cfg instead.)

The client's modules follow from as many:

1. **A handler runs to its first `await`**, and goes on when that is answered, whatever the screen has
   become meanwhile. It still sees the state of the render it was made in (`was`): `load()` called
   after an await asks for the filter of *then*.
2. **Answers come in any order**, each with the data of when the server read it: a request that left before a
   write was answered may or may not have seen it (`miss`).
3. **A flag is only what the code sets.** `disabled={isPending}` stops a second click as long as the same
   hook's flag is on; a flag of a dialog that is closed and opened again starts off anew (`home`).
4. **react-query** (version 5, by how the hooks use it) keys what it shows: an answer of another key is not
   shown. An invalidation gives up a refetch on its way for a new one, but *joins* the first request, which
   may have been read before the write (`joins`). It repeats reads on focus, reconnect and interval.
5. **`useEffect` + `useState`** do none of this unless the component does it itself: no key, no
   cancelling, the last answer to arrive is shown.

## 2. Inventory

Status is that of `PROJECT.json` (M modelled, P partly, – not modelled).

| component (main source) | state it keeps | operations | hard behaviour | what makes it correct |
|---|---|---|---|---|
| P order and product sync (`services/sync_service.py`, `api/v1/sync.py`, `tasks/scheduler.py`) | `platform_accounts.last_sync_at`, `settings.sync_state`; `sync_logs`; `orders`; order entries of `finance_ledger_entries`; `task_runs` | job, trigger, product trigger, blocked sync | job vs. trigger vs. product sync; two commits; crash between them; failed orders; short page lists; first window of 30 days | only what no page brought is lost unseen; one row for an order; no regress; ledger follows the row; eventually in sync |
| P product master and listings (`sync_service._upsert_platform_product`, `services/product_service.py`) | `products`, `platform_listings` | product sync of a store, create/delete product | look-up before the lock; SKU unique over all users, searched per user; one transaction for all products | a listing once; one master for a seller SKU; success means everything is held; a whole run dies only for known reasons |
| M paging of remote orders (`sync_service._fetch_order_pages`) | page, ids seen | fetch a page | list moves between pages; totals lie; repeated page | no duplicates; complete if undisturbed; ends |
| P order fulfilment (`services/shipment_service.py`, `services/order_service.py`) | `orders.status`, `fulfillment_status`, `platform_data`; `shipments`; freight entries | status change, create/batch/update shipment, sync | rows read before the lock; JSON written whole; two users | terminal states kept; order mirrors shipment; freight booked once; history only grows |
| P AI quota and audit (`services/entitlement_service.py`, `services/ai_usage_audit_service.py`) | `quota_usage`, audit log | require, execute, consume, record | check-then-act; literal counter; month turns; unique insert | exact in turn; never overcharged; bounded overrun |
| P inventory alerts (`services/inventory_alert_service.py`) | rules, alert logs | rule CRUD, scan, acknowledge, clear | two scans; look-up before the flush; `scalar_one_or_none` | one open alert for a rule; no rule skipped |
| P operating records (`services/operation_service.py`) | `operation_records`, their ledger entries | create, update, delete | entry id from a stale copy; no foreign key enforced | book = postings of the records; no dangling entry |
| – platform bills, finance (`services/finance_service.py`) | `finance_ledger_entries` | import a bill, summaries | `import_ref` looked up, no constraint | each bill line once |
| – content versions, image exports (`services/content_workbench_service.py`, …) | versions in one JSON column | draft, confirm, export | JSON written whole, length as version number | no version lost |
| M realtime tickets and connections (`services/realtime_service.py`, `api/v1/realtime.py`, `hooks/useRealtimeNotifications.ts`) | in-memory tickets, register of sockets; the page's socket, retry timer, effect | issue, take, register, push, hang up; dial, retry, clean up | restart; an effect cleaned up during its await; a push between accept and registration, or during a request | one attempt or one retry a page; no socket left registered; a push is shown by the next list; a page catches up |
| P report subscriptions and notifications (`services/notification_service.py`, `services/report_delivery_service.py`, job) | notifications, period marks | notify (in `Realtime`), list, dispatch | title looked up for a day; commit before the mark | once a day; once a period |
| – manual orders (`services/order_manual_service.py`) | `orders` | create, import | count then insert | unique number |
| – AI providers (`services/ai_providers.py`, …) | none beyond the request | execute with fallback | provider order | first usable answer |
| – business flow tasks (`services/business_flow_task_service.py`) | `business_flow_tasks` | bulk claim, progress, done | snapshot, then unique insert | one row an item |
| – batch publishing (`services/batch_publish_service.py`, …) | templates, listings | publish to stores | partial failure | one listing for a store and template |
| – trends/discovery; sourcing; products; promotions; risk/cockpit; auth and permissions; plans; rate limit; connectors; configuration; MCP server; scripts | | | | mostly projections, CRUD and I/O: reasons in section 9 |
| P frontend: ten groups of screens (`pages/`, `features/`, `hooks/`), popup and context menus of the extension (`src/extension`) | what is shown, forms, selections, flags, requests on their way | click, load, answer, failure, refetch | answers out of order, dialogs closed under a call, refetch under a form, stale closures, several calls in a row | nothing sent twice; no flag stuck; typing kept; what is shown is of what is selected and has the screen's own writes |
| – extension: page parsers; frontend: session and API client | token | parse a page; add headers, leave on 401 | | section 9 |

**How they interact.** The server's components share one database and, except for the push of a
notification, nothing else: no component calls back into another while it holds locals the other
changes. The client talks to them through REST calls (its screens share only the query cache) and the
socket of notifications. The shared tables are where they meet:
`orders` (sync, fulfilment, manual orders), `finance_ledger_entries` (sync, fulfilment, operating
records, bills), `platform_accounts` (order sync, product sync), `task_runs` and `sync_logs` (jobs,
triggers). Entries of the finance ledger are told apart by `order_id`, `entry_type` and keys in
`extra`; the entries of operating records are only ever written by `operation_service`, those of a
shipment only by `shipment_service`, those of a sync only by `sync_service`, so each module keeps its
own part of the table. The sync's write of `orders.status` is an action of `OrderFulfillment`
(`SyncStatus`), the remaining columns it writes are `OrderSync`'s.

`PROJECT.json` lists the hazards line by line, with the properties that would notice each.

## 3. The modules

### 3.1 `OrderSync`

A *run* (`run[p]`) is one coroutine executing `sync_orders_for_account` — from the job
(`Jobs`), from `POST /sync/trigger` (`Triggers`) — or `sync_products_for_account`
(`ProductRuns`). Its locals are the connector's readiness, the session's copy of the account
row, `now`, the fetched batch, the order in hand and the copy of the row found for it (`seen`), and what
failed.

| stage → action | code |
|---|---|
| `StartTask`, `FinishTask` | `_start_task_run`, `_finish_task_run` around the job |
| `LoadAccount`, `SkipStore`, `RecordBlockedSync` | select of the account; not ready: the job skips, the trigger logs and answers 409 |
| `OpenLog` | the SyncLog row, committed as `running` |
| `StampNow` | `now` is taken before the pages are fetched |
| `FirstPage`, `NextPage` | a page of the orders changed in `[last_sync_at or now - 30 days, now]` (`WindowStart`), as the platform has them at that moment |
| `FetchPages` | the loop ends, and what it has is taken for complete: it is if the list stayed as it was, otherwise, and after an early empty page, a total too small or 1000 pages, it may be short |
| `RefuseOrder` | no total or currency, or two local rows (`scalar_one_or_none` raises): counted as failed |
| `ReadOrder`, `WriteOrder` | look-up of the row; flush (takes the lock): INSERT, or UPDATE of the columns that differ from `seen` (`Updated`); then the ledger entries, looked up under the lock |
| `StoreOrders` | first commit: rows, `last_sync_at = now`, a state that still says running |
| `CloseLog` | second commit: final status of log and state |
| `StoreProducts` | the one commit of a product sync; moves the *same* `last_sync_at` |
| `PlatformFails`, `LockTimeout`, `Crash` | an exception of the platform; five seconds without the lock; process death |

Data kept: an order's row is the *time of the version* it holds, its *total*, the amount of its income
entry and the version its fee entry stems from (0: no entry). The time stands for the columns that differ in
every version; two versions may have the same total, which an UPDATE then leaves alone. A platform order is the
time of its last change and whether that version is sound. The clock starts at 1, and cursor 0 is a
`last_sync_at` that is NULL. `unfetched` and `stale` are history variables: the changes `last_sync_at` was moved
past and no page brought (`out` of the run that moved it), and whether a row was last written from a copy that
another run had made untrue. The environment may change orders (`RemoteChange`), let time pass (`Tick`;
several changes and runs may share one time), lose and regain the authorisation, and store the
missing exchange rate (`RateStored`).

`draft` is the orders table as the transaction holding the lock sees it; `orders` is what others see.

### 3.2 `OrderPages`

The loop of `_fetch_order_pages` against a list that grows at its end and loses members anywhere
between two requests. A page is the one asked for, empty, or the first page again. `disturbed`
records whether anything but growth happened, so completeness can be claimed of an undisturbed list.
`MaxPages` is the code's limit of 1000.

### 3.3 `AiQuota`

One user, one monthly feature. `Check` (`require_entitlement`), `Execute` (the AI call; any
result, billable or not), `ReadUsage` → `Increase` / `OpenMonth` / `Collide` (`consume_quota`: UPDATE
with the literal copy + 1, INSERT of the month's first row, INSERT that violates the unique
constraint), `Audit`. `NextMonth` may happen anywhere. `earned` and `unrecorded` are history
variables: billable results counted in a month, and tasks that ran without leaving an audit entry.

### 3.4 `InventoryAlerts`

Rules are numbered in creation order, since a scan goes through them newest first. A scan awaits
twice for each rule: `ReadStock` (which first *flushes* what is pending, hence the lock),
`AddAlert` / `AlreadyAlerted` / `FindTwo` (the look-up of an open alert: none, one, more). `EndScan` commits.
`FindTwo` is `MultipleResultsFound`, which aborts the scan. Stock is `low`, `enough` or `unknown`
(no confirmed listing); a change of a rule's threshold acts like a change of stock. `due` is a history variable: rules that were low, and whose alerts nobody
handled, since the scan began.

### 3.5 `OrderFulfillment`

Requests read an order or a shipment (`ReadOrder`, `ReadOrders`, `ReadShipment`, `ReadForResend`) and
write later (`ChangeStatus`, `SyncStatus`, `CreateShipment`, `BatchCreate`, `UpdateShipment`,
`Resend`), or are dropped (`Abandon`). `update_shipment` comes in two forms because of fact 3: with a changed value,
the UPDATE of the shipment takes the lock *before* the order is selected, so the order is
read fresh; with nothing changed, nothing is flushed and the order is read without the lock. The
status dictionary (`AllowedNext`) is a constant, given by the MC module as the tests have it, plus a
platform status the dictionary does not know.

### 3.6 `Bookkeeping` and `OperationLedger`

`Bookkeeping` is the promise, with no identifier and no session in sight: an operation concerns one
record and leaves the postings of the *others* alone, and if operations do not overlap (`exact`) the
book is, after each of them, exactly the set of postings of the records that are there.
`OperationLedger` is the code: ids, `ledger_entry_id`, stale copies, the entry found or not found,
created, overwritten or dropped. `RecordsShown`, `BookShown` and `OneAtATime` are the refinement
mapping (they drop the ids and the dead rows), `KeepsBooks == Books!Spec` the refinement.
`update_record` appears as `UpdateRecord` (something changed: the flush takes the lock before the
entry is looked up) and as `ReadForResend`, then `ResendEntry` or `ResendRecord` (nothing changed: the
entry is looked up without the lock). 0 stands for a `None` amount (the code treats them alike); ids
are never reused; deleted rows stay in the sequences with `live = FALSE`. Under overlap entries may be
orphaned and amounts may differ from the record's; what still holds is `EntryOfRecord` and the first
half of the promise.

### 3.7 `ProductSync`

A request is a run of `sync_products_for_account` for one store; `sync_all_products` is a sequence
of them. `Fetch` stands for `_fetch_product_pages` (any feed of the constant `Feeds`, no id twice: that is
`NoOrderTwice` for the same loop). The first product a run can store is looked up without a lock, in
two steps (`LookUp`: the listing; `FindMaster`: its product, or the master of the seller SKU). Its flush
takes the lock, so the rest of the run is one step on the tables of the transaction: `Outcome` folds
`Upserted` over the rest of the feed, and ends in `Write` (commit) or `Clash` (an INSERT refused by
`products.sku`: nothing is kept, the handler dies, the log stays at `running`). `Skip` is the
per-product `except` before any flush: validation refused, or `scalar_one_or_none` met two listings.
`known` is a history variable, the number of products at the look-up; `sku` of a listing is the seller SKU it
was *inserted* under, and is not changed by later runs. Users create and delete products meanwhile (`CreateProduct`, `DeleteProduct`); listings
made by publishing or pricing are left out.

### 3.8 `Realtime`

A *line* is one attempt of a page to be connected: its call for a ticket, the ticket, the socket. The page
(`Mount`, `Unmount`, `Dial`, `Retry`, `AskFails`, `Dropped`) is the effect of
`useRealtimeNotifications`: its `closed` flag is `stopped`, looked at after the ticket has come. The
server (`IssueTicket`, `Expire`, `ConsumeTicket`, `Accept`, `Register`, `HangUp`) is
`realtime_service` and its route; `Accept` and `Register` are two steps, since `connect` awaits a lock
between them. A job is one `create_notification`: `Check` (was the title notified today), `Commit`, `Broadcast`
(a copy of the register), `Push` and `Disconnect` line by line. `Restart` empties the server's memory and
leaves rows; the pages learn of it when their sockets drop. `Receive` is the invalidation in
`onmessage`; `Poll`, `Serve`, `Arrive`, `FetchFails` the list of `useNotifications`, with the time the server
reads it apart from the time the page gets it. `told` is a history variable.

### 3.9 `ScreenVocabulary`, `…Screens`, `Screens`, `ScreenShapes`

78 screens follow one pattern, so the pattern is one machine and a screen is a *description*: a record
of the reads that fill it (`loads`), the handlers behind its buttons (`acts`), its forms (`drafts`) and
its selections (`axes`). The vocabulary lists each field with its default; a description names only what differs.
An act says what disables it or makes it return, what it sets before the call, what the call sends and
changes on the server, what is requested afterwards and whether that is awaited, and what answer and failure
set. The definitions of the `…Screens` modules are named after the components, hooks and handlers they describe,
and nest as these do: `OrderListPage` is made of `ManualOrderModal`, `OrderImportPanel`, `useOrders`, ….

`Screens` runs a description. `Click` checks the guard, sets flags and forms and sends the call; `Background`
is a refetch on focus or interval; `Loaded`, `NotLoaded`, `Done`, `NotDone` are answers and failures
of reads and calls, of any request on its way. `Settle` is what React does after each: selections
that moved or flags that opened a query send the reads that depend on them, and the older ones of a keyed
read are given up. What a read returns is not a value but what may be wrong with it: the object it was
asked for (`key`) and the write it misses (`miss`). `slips` records what a step did that the user did not
ask for: a form emptied under his hands (`lost`), a draft carried over to another object (`stray`).

The machine is not translated from a file of this repository: it is React, react-query and the browser as the
components use them, and marked external. The descriptions are translated from the components. `ScreenShapes` says
of a *description* what keeps its screen safe (a flag that disables whatever sets it, a keyed read, a form filled
once); `Screens_proofs` derives the promises from these shapes for any table of descriptions. The run checks
the promises themselves on the 78 screens; the shapes are not a property of any run. `MCKnown` names the loads and
handlers for which a promise does *not* hold today; the properties exempt exactly these, and each is needed
(section 6).

### 3.10 Composition

`OrderSync` takes `_fetch_order_pages` page by page but without page numbers; `OrderPages` has these, and
justifies what `OrderSync` assumes of the loop: an id is not returned twice (`NoOrderTwice`), and a list that was
not disturbed is returned whole (`AllListedReturned`). Any other list may come out short in both. `OrderSync` has the log, cursor and `sync_state` of a product sync,
`ProductSync` its rows. `OperationLedger` implements `Bookkeeping`. `OrderFulfillment` includes the sync as a
writer of status. `Realtime` composes the page, the server's register, the notification's row and the list:
its properties are about all four. The bell and the page that show the list are screens of
`MonitorScreens`. The remaining modules do not share state.

## 4. Runs and bounds

Every run is exhaustive; none has a state constraint, and the bounds are guards of the modules
(`MaxTime`, `MaxFaults`, `MaxBegun`, `MaxServed`, `MaxScans`, `MaxHandled`, `MaxPages`, …). Where a bound
ends a behaviour the module has an action `Quiet` (or keeps enabled actions), so that deadlock is checked
everywhere but in `screens`: a screen on which nothing is left to click rests.

| run | instance | distinct states | question |
|---|---|---|---|
| `sync_serial` | 2 orders, the job, times 0–2, first window 0, one version unsound, 1 fault, fair | 0.65 M | Is anything lost, doubled or taken back by the scheduled job, and does everything arrive? |
| `sync_overlap` | 1 order, job + trigger, times 0–2, two totals | 3.1 M | What survives a trigger next to the job? |
| `sync_products` | 1 order, trigger + product sync, clock at 1 | 0.65 M | Can stale copies of `settings` show a status no run had? |
| `products_runs` | 3 stores of 2 users, 2 platform ids, 1 seller SKU, 2 requests, 4 runs or user operations | 0.6 M | How many listings, which product, and why is a run refused? |
| `pages` | 4 orders, pages of 2, limit 2 | 1.1 M | Is the returned list complete and free of duplicates; does the loop end? |
| `fulfil_requests` | 2 orders, 2 shipments, 2 users, 2 requests, 3 served | 47 k | Status, mirror, history and freight, in turn and overlapping |
| `quota_requests` | 2 requests, limit 2, 2 months, 8 tasks, 1 fault | 16 k | What is the counter worth? |
| `alerts_scans` | 2 rules, 2 scans at a time, 3 in all, 1 handler | 0.6 M | How many alerts for a rule, and no rule without one |
| `ledger_requests` | 3 types, 3 amounts, 2 requests, 4 served | 72 k | Does the ledger keep the books? |
| `ledger_deleted` | 2 types, 2 requests | violated | Does a deleted record leave nothing? |
| `realtime` | 1 page, 2 attempts under way, 2 requests to notify one title | 0.5 M | Does a page stay connected, or catch up, whatever fails? |
| `screens` | 78 screens, 2 objects, 2 requests on their way | 0.2 M | What do overlapping requests do to what is shown and typed? |

Why these bounds are enough:

- **Two of a kind.** The hazards need a second request, a second order (so that one can fail and
  another succeed in a run), a second record; the runs have them. Three requests at a time matter in one
  place, named in section 6 (the quota).
- **Times.** An order's version is the time it has; the clock goes from 1 to `MaxTime`. With times 1 and 2 an
  order can be stored, change, and be stored again, and the cursor can pass it at and after its change; several
  changes and runs may share a time. A first window of length 0 leaves out an order changed at 1 and synchronised
  first at 2. `Alternating` gives versions 1 and 2 different totals; a row is then UPDATEd with its total and,
  by a run that fetched the version again, without. The theorems of section 7 are for every number of times.
- **Faults.** One crash, one failure of the platform, one expiry or one list that is short without having
  changed in each behaviour, at every point. What a
  second would do is covered by the theorems, which bound nothing. `sync_overlap` and
  `sync_products` have no faults: their properties are about overlap, and a crash only removes
  writers.
- **Served.** Four operations: create or sync, change, delete, and one more that meets what is left.
- **Feeds.** One seller SKU shared by stores and users, a product without one, a changed value, a
  refused product next to a good one, an empty answer; two ids, so that a run looks up one
  product before and another after it has the lock.
- **Objects and requests of a screen.** Every hazard of a screen is between *two*: an answer and the one that
  overtakes it, a call and a selection moved since, a read and a write. More requests are on their way where a screen
  loads more than two things at first; only the user waits when there are two. Each screen is a behaviour of
  its own.
- **Attempts.** A line is used again once nothing holds it. Two are under way when an effect is cleaned up
  during its await and the page opened again. `Realtime_proofs` is about any number of pages, lines and jobs.
- **Statuses** of orders are those of the tests' dictionary plus one that only the platform reports.

Symmetry is used where the elements are told apart by nothing: requests, orders, shipments, users,
scans, handlers, and the two stores of one user. Only in runs without a liveness property
(`sync_serial` and `pages` have none).

Each property has a mutant in `PROJECT.json`: a form of one definition that a plausible slip in
the code would give (an unchecked look-up, an early status, a month read again, an id read before its
flush). The mutated forms stand next to the definitions, marked `Mutant`, and are not used by any
specification.

## 5. Fairness

- `OrderSync!FairSpec`: weak fairness of `Run(p)` for the *jobs* only. The scheduler starts
  `sync_orders` every 15 minutes (`scheduler.py:63-76`), `max_instances=1` keeps a second
  instance from starting, and the event loop resumes every coroutine whose await completes. A
  platform that fails, a lock not had, an authorisation that expires and a crash are *not* fair and may
  happen instead of the next step, up to `MaxFaults`. Nothing obliges the platform to change an
  order, the clock to tick, an operator to store a rate or to renew an authorisation: `EventuallySynced`
  therefore asks only for orders that are sound, of a store that is connected.
- `Realtime!Fairness`: weak fairness of `Poll` (`refetchInterval` of a page on the screen), strong fairness of
  `Serve` and `Arrive`: a request repeated again and again is answered in the end. Strong, because a push or a failure
  may each time come between. Nothing is assumed of sockets, tickets and the server's process: `CatchesUp` is what the poll gives
  when the push gives nothing.
- `PagesSpec` of `OrderPages`: weak fairness of `FetchPage \/ PageLimit`: each request of the loop is answered
  or raises. `FetchEnds` needs no fairness of the platform's list.

The remaining properties are safety properties and need none.

## 6. What the checks found

**Contradicted by the code** (`expect: violation`): `ledger_deleted` — the audit detail of a DELETE says
the entry goes with the record (`api/v1/operations.py:172`); the entry that is deleted is the one a copy
loaded before the lock names (`operation_service.py:91`), and an entry posted meanwhile stays in the ledger.

**Shown by the models of the server:**

- *A short list of orders.* `_fetch_order_pages` says it is "rejecting ambiguous empty-page totals"
  (`sync_service.py:329`), but an empty page ends the loop before the reported total is looked at (336): the
  short list is taken as complete and `last_sync_at` moves past what is missing, with the log at `success`; so
  it does past an order that slid to an earlier page while the loop ran. No later window has it unless
  it changes again. `AllListedReturned` is therefore about a list that is not disturbed, and `OnlyUnfetchedIsLost`
  and `EventuallySynced` except what no page brought (`unfetched`).
- *The first window slides.* Without `last_sync_at` a run asks for the last 30 days (`sync_service.py:158`) and then
  moves the cursor to `now`: what changed before is never fetched. A first run that *fails* leaves no cursor, so an
  order may also leave the window between it and the next run.
- *Row and income entry of different versions.* The UPDATE of an order names what differs from the copy that the
  run looked up (197), the income entry is looked up after the flush and set to the fetched total (755). If another run
  stored a new total between look-up and flush, and the total fetched is the one in the copy, the row keeps the
  other's total and the entry gets this run's. `LedgerFollowsOrder` excepts the rows last written so (`stale`);
  `LedgerExact` says it of one run at a time.
- *A terminal status under overlap.* "without overriding platform terminal states"
  (`shipment_service.py:259`): the status is computed from an order read before the INSERT took the lock
  (114), so an order cancelled in between is shipped after all. `TerminalKeptInTurn` holds.
- *Overlapping order syncs.* `NoRegress` and `OneRowPerOrder` are promises of one run at a time. A
  trigger next to the job may insert an order twice, and `scalar_one_or_none` then refuses that order in
  every later run; with three runs an older version can also replace a newer one.
- *Product sync moves the order sync's cursor* (`sync_service.py:108`): an order that changed before it
  and was not fetched yet is outside the next window. `OnlyUnfetchedIsLost` is therefore checked and
  proved where no product sync runs.
- *A product sync that can never succeed again.* A product created under its platform SKU
  is deleted by its user; the next sync creates it anew and leaves the listing on the deleted one; every later
  sync of the store inserts the SKU again, and the whole run dies with its log at `running`, every
  other product of the store included. Likewise when another user holds the seller SKU:
  `products.sku` is unique over all users, while "Find an existing product master by seller/internal
  SKU" (460) searches the user's own, by seller SKU only. `ClashOnlyBy` says these two, and a race, are
  the only reasons; dropping any one of the three from it makes the run fail.
- *Two overlapping product syncs of a store* insert its first product twice; from then on that
  product fails in every run (`partial_failed`). `CopiesBoundedByOverlap` bounds the copies.
- *Mirror of a stale shipment* (`shipment_service.py:139`): overlapping updates leave the order showing
  a status its shipment no longer has; `MirrorsShipment` is a promise of requests in turn.
- *Freight by user* (192): a second user who edits the cost books it again under his own name;
  `OneFreightPerUser` is what holds.
- *First task of a month* (`entitlement_service.py:176`): two overlapping tasks collide on the unique key;
  the AI task of the second ran and leaves no audit entry. In turn `EveryRunRecorded` holds.
- *Quota under overlap*: the counter loses increments, so more tasks run than it shows. With two
  requests at a time it shows at most `Limit + 1`; with three it can show
  `Limit + 2` (all admitted at `Limit - 1`, and counted one after the other).
- *Two open alerts of one rule*, left by overlapping scans, make `scalar_one_or_none`
  (`inventory_alert_service.py:142`) raise in every later scan of the user, which then alerts for nothing
  until one of them is handled.
- *A title notified twice.* Two requests that pass the look-up together both insert the notification; for the rest of
  the day `scalar_one_or_none` raises for every further one of that title.
- *A push during the first load*, or between `accept()` and the registration of the socket, is not shown before
  the next poll: the invalidation joins the request on its way, and the register does not know the socket yet. `PushShowsIt` is
  about a page that shows a list.
- `models/sync_log.py:14` lists the statuses as "running, success, failed, partial"; the code writes
  `partial_failed`.

**Shown by the models of the client.** `MCKnown` (`MCScreens`) is the list, by property; every entry was
found by the run and is needed for it to pass. In short:

- *Sent twice* (15 handlers). The pending flag lives in a dialog or holds one row's id: closing and reopening the dialog
  (`CompetitorMonitorPage`, `RulesTab`, `UploadTab`), or starting a second task (`SystemTasksSettings`, whose
  `running` is one id), frees the button while the call is out. Besides, about sixty handlers have no
  pending flag at all, so that two clicks are two calls: among them delete, import and the bulk actions of `ProductListPage`,
  `setStatus` of `OrderDetailPage`, `submitPurchase` of `PipelineCostPanel`, `create` of `ProfileSettings`, `save` and `delete` of
  `WarehousePage`, `add` of `CompetitorsTab`. `SentOnce` is about the handlers that mean to be guarded.
- *Typing lost*. A form filled by an effect is refilled when its query is refetched (`OrderDetailPage`, `ShipmentDetailPage`,
  `ProductEditPage`, `ContentImageEditor`), and a form that is cleared by its answer takes along what was typed meanwhile.
- *Drafts astray*. A note, comment or decision is sent to the object open *now*, or a result is written to the row
  whose index was taken before the await (`BatchPublishPreviewStep.tsx:103`).
- *Late answers*. `load()` functions without key or cancel flag show whichever answer comes last: the rows of
  the filter left behind, or a list from before the write (`FinanceLedgerPanel.tsx:51`).
- *Failures that keep the old rows* under the new selection.
- *Own writes not shown*. A mutation that invalidates the list's key but not the detail's (`useOrders.ts:34`), or a reload
  that is not asked for.
- Outside the machine: the popup of the extension sorts the chosen pictures with `[...selectedIdx].sort()`, as strings, so that the
  tenth may come before the second; its grid drops doubles by prefix (`popup.js:98-101`) and may show a picture twice;
  polling pauses while a tab is hidden.

## 7. What is proved, and along which argument

`tlapm` proves the theorems of eight modules (the 56 worth knowing are in `PROJECT.json`), with no obligation
left out. They hold for every value of the constants that satisfies the modules' assumptions (`…Assumption`):
the names that stand for "none" are not those of anything, the bounds are natural numbers, and what is counted
is finite (order runs, requests of product syncs, scans, jobs, the platform's ids behind a page loop). So for
any number of orders, stores, requests, months, scans, rules, records and products, and for any bounds. A
theorem that needs one request at a time has it in the property (`OneAtATime => ...`), where runs with one and
with two requests meet it alike, or as the hypothesis `OneRunAtATime` in `OrderSync_proofs`, whose runs are a
constant. Two theorems have a hypothesis of their own, `TwoOverrunByOne` and `ClashOnlyByOthers`; it is given
with them below.

**Computations that loop.** The model's loops over a feed or a page are recursive functions (`Outcome` of
`ProductSync`, `Unseen` of `OrderPages`). The library's induction theorems take an operator, which the provers
cannot instantiate, but induction over a *set* of naturals needs no operator: `LeastNat` follows from `WFMin`
and the well-foundedness of `<` (`LessWellFounded`), and `TurnByTurn` (`SetInduction` in `OrderSync_proofs`)
from `LeastNat`. The proofs then define the set of the lengths up to which a loop has kept what they claim.

**`OrderSync_proofs`.** `TypeCorrect`, for any runs of every kind. With `OneRunAtATime` (one worker, no product
sync, which is what `max_instances=1` gives): `SyncLosesOnlyUnfetched`, `SyncKeepsOneRow`, `SyncNeverRegresses`, `LedgerExactInTurn`. None
of the first three is inductive alone. `SerialInv` adds: the draft differs from the table only under the lock of a run
in its loop (`LockInv`); the copy a run works on has the committed cursor, and its window ends between that and
the clock (`WindowInv`); what is still to be written lies in that window, and is the current version or one that
changed again after its end (`BatchInv`); rows are not newer than the cursor, and the draft is not older than
the table (`RowInv`); the copy of the row found is still the row, so what is written is of one version
(`WholeInv`); and each change between the cursor and the end of the window is pending, refused, written, or brought
by no page (`CoverInv`). `StoreOrders` moves the cursor to the end of the window when nothing is pending, so
`CoverInv` becomes `OnlyUnfetchedIsLost`: the order the code moves the cursor in, `now` taken *before* the fetch, is what the proof
turns on. `SerialInv` is preserved by one lemma for each group of steps (`PageStep`, `FetchStep`, `RefuseStep`, `ReadStep`,
`WriteStep`, `StoreStep`, `RemoteStep`, `CrashStep`, `OutsideSteps`).

Three more hold under every overlap. `StateIsLogged`: a copy of `settings` may be written back long after it was
read, so `LogsInv` asks of every *copy* what `StateHasLog` asks of the row; logs are never deleted, which keeps
it true of stale copies. `LedgerCorrect`: `LedgerInv` says of each row, committed or in the draft, that its
income entry has the row's total unless the row was last written from a stale copy, that a fee entry is of a
version with a fee and has an income entry beside it, and that no entry exists before a rate is known. The heart of
it is `UpdatedLedger`: a copy that is still true leaves the row, after the UPDATE, at the total that the entry gets.
`LedgerExactInTurn` adds from `WholeInv` that with one run at a time no copy is stale. `DuplicatesAreBounded`: `DuplicateInv` counts the rows of an order *plus the runs that
looked and found none* (`Holders`); a run joins that count only where it found the committed table empty, and
leaves it when it inserts. The draft is at most one row ahead of the table, and then by the lock holder, who no
longer counts.

**`ProductSync_proofs`.** `TypeCorrect` with `TablesOK`: every listing names a product row that exists.
`MasterIsShared`: live products differ in SKU and a listing that was inserted under a SKU names a product that
has it (`OneLive`, `Linked`), and a run knows of its first product what is still true whoever wrote since
(`RunOK`). `CopiesBounded` counts copies and `Holders` as above. That one transaction stores a whole feed
without inserting a listing twice is where the loop's induction comes in, together with the assumption that a
feed has no id twice (`NoOrderTwice` of the paging loop). `SuccessHolds`: each turn either stores its product or
counts it as failed, and no later turn of the feed undoes it (`ItemStored`); without overlap the copy of the
listing in hand is the listing (`SeenInv`), which gives the values as well. `ClashOnlyByOthers`: an INSERT into
`products` is refused only for the reasons `ClashOnlyBy` names; a product under a platform SKU has a listing of
that platform product (`PlatformListed`), so a look-up that found none means a race. Its hypothesis is that no
seller uses a SKU of the form `_platform_product_sku` generates (`SkusApart`). The code does not enforce that,
and a seller's own product under such a SKU would be a fourth reason.

*The paging loop*, in the same module: `PagesTypeCorrect`; `ReturnsNoOrderTwice` whatever the platform answers, since what a page
adds has neither what was collected nor a double of itself (`Taken`); `ReturnsAllListed`: as long as the
platform is undisturbed the list extends the one of the first request, and every order on the pages behind is
collected (`Undisturbed`). If an early total ends the loop, what is collected has as many members as the list
and is a part of it, hence all of it.

**`OrderFulfillment_proofs`.** For any number of overlapping requests: `TypeCorrect`; `FreightIsBookedOnce`; and
`ContextIsOfItsOrder`, where `CopyNames` asks the same of every order row a session still holds, since
`platform_data` is written back whole from it, and shipments never change their order. In turn: `SerialInv` says
that what a session read is what the tables hold (`Current`), that orders mirror their shipments (`Mirrors`) and
that the freight is booked at its present amount (`Booking`); from it follow `FreightIsBooked`,
`ContextMirrorsItsShipment`, and the action properties `TerminalIsKeptInTurn` and `HistoryIsOnlyExtended`. A
batch writes its orders one after another from rows the session has itself changed; `BatchEffect` says what it
leaves. The dictionary may be any: `TerminalKeptInTurn` is about the steps of shipments, which do not consult
it.

**`AiQuota_proofs`.** `ChargesWhatWasEarned` needs no turn-taking: a copy of the counter is never more than what
was earned in its month (`OverlapInv`), since `earned` only grows. `SerialQuotaExact` and
`SerialQuotaWithinLimit` come from `SerialInv`: the counter is exact, the copy in hand is the counter, and a
task that has been admitted finds room in its month or, no row lying in the future, in a later, empty one
(`Roomy`, `FutureUnused`; `ServedInv` is the invariant of all behaviours). `TwoOverrunByOne` has the hypothesis
that a behaviour has at most two requests, and is false of three (section 6). `OverrunInv`: while both may still
count in a month, there is room in it (`RoomForBoth`), so the first leaves at most `Limit`; the last either
reads the counter then, or holds a copy, which is at most `Limit` and equal to it only where the counter has
reached it (`CountsUpTo`). `EveryRunLeavesARecord`: alone, a request that found no row of the month still finds
none when it inserts it (`RecordInv`).

**`InventoryAlerts_proofs`.** `TypeCorrect`. `LockedScansAddNew` for any number of scans: `LockInv` says that a
scan that looks for a second alert holds the lock, and that what it adds after its first is open nowhere.
`ScansBoundDuplicates`, that a rule never has more open alerts than scans run at a time, is not inductive: a
scan that found none may commit later. `BoundInv` counts it in: open alerts of a rule plus the scans that are
about to add one, or have it pending, are at most the scans. Only the lock holder has anything pending, and a
scan joins the count only where it found no open alert, when the others in it are all there is.
`SerialScansAlertOnce` is the case of one scan. `ScanSkipsNoRule` is an action property for any overlap:
`DueInv` says that a rule that is due is still low and is on the scan's list, among what the scan has added, or
has an open alert (`Attended`); only a handler closes an alert, and then the rule is due no more.

**`OperationLedger_proofs`.** `TypeCorrect`. `NoDanglingEntry` under every overlap: `Own` says that an entry
named by a row *or by a copy* exists and was posted for that record; ids are never given away, so a copy cannot
name another's entry. `SerialPostsOnce` and half of the refinement rest on `Balanced` (each live record names
its posting or nothing, each live entry is named by its record, each copy is what is there). `LedgerKeepsBooks
== Spec => KeepsBooks` is the refinement: `InitIdle` for the initial state, `ShownStep` for the steps (each one
maps to `Create`, `Change`, `Remove`, `Repost` or a stutter, and `OthersStay` shows that the postings of the
other records stay), `Shown` for exactness in turn.

**`Realtime_proofs`.** `TypeCorrect`. `SocketsAreServed`: only the handler that waits for a socket's end is
registered. `PagesKeepOneLine`: `OneLineEach` is inductive as stated, with its second part (what an effect
leaves behind never dials) needed where the page is opened again during the await. `PushesAreShown`: `PushInv`
says that what is on its way to a line or was pushed to a page is committed *for its user*, lines being handed
on only when nothing is on its way, and that an answer read after the first list has all that was pushed.

**`Screens_proofs`.** Nothing here is about the 78 screens: `Descriptions` is any table of descriptions that
`WellFormed` admits, and each theorem says which shape of a description yields which promise, whatever the number
of objects and of requests. `LocksHold`: a `Lock` disables every handler that sets it, is cleared only by the end
of such a handler, and no dialog closes under it; the invariant is that one call at most holds it, or one handler
that waits for its loads, and that it is on as long as it is held. From it `NoneTwice`, with the shape `OneAtATime`:
no handler has two calls for one object out. `FlagsAreHeld`, the other way round: a flag only requests turn on
(`Pending`) is on only while a request is out that will turn it off; the work is in the requests that are
*forgotten* (a keyed load whose axis moved, a second request that joins a first), where another must take their
place. From it `NoneStuck`, with the shape `Turning`. `RequestsFounded` says what a request on its way may assume of the description it
was sent from. `SteadyStays`, `CertainStays`, `AloneStays` are the three ways a load stays of the object
selected: its axis never moves; answers of another key are dropped; or its own flag keeps the user from moving
the axis, so that it is out once at most. `NoneOfAnother` joins them, with the shape `Selected`. `OnceStays`: a load
sent only as its dialog opens is out once at most, and the form it opens is clean until it answers; `NoneWiped`
follows with the shape `Keeping`, which says which loads and handlers may touch a form the user types into.

*Own writes* (`NoneStale`, with the shape `Rereading`). A write the screen has seen acknowledged may be missing from
what is shown for two reasons. An answer *older than the write* is shown: that is not so once the calls are answered,
but it may be before, so `OwedInv` says what is owed instead. If an old copy is shown, a request that brings it up to
date is out (`Clears`); if a request is out that may bring an old one (`Taints`), one that clears it was sent after it.
When the later of two is answered first, the earlier is late from then on, and no longer taints. The shape provides
the request: each load a followed write changes is asked for again with its answer, or is one sent as its dialog
opens, which the write waits for and then changes in place (`AllOnce`). The other reason is an answer that *came
late*: `Timely` says that a load in turn (`InTurn`) never shows one, because it drops it (keyed), because it is out
once at most (`AloneStays`), or because only the holder of a lock asks for it (`OwnedStays`).

*Drafts* (`NoneStray`, with the shape `Carrying`). A draft stays with its object for half a dozen unlike reasons: a
key on the form, a refill as the axis moves, a dialog that covers the list, a button that is off as long as a call is
out. They have in common that something the screen *shows* says whether the tie holds: flags that are on, flags that
are off, loads that are shown. `Tied(d, on, off, seen)` says of a description that whatever ends the tie also turns
one of the flags, takes away one of the loads, or empties the draft. `AllTied` is the invariant: where all of these are
as they should be, the draft is about nothing or about the object selected, and, as long as the flags of `off` are
off, so is each answer that will be written into it (`Pinned`: its axis cannot move then). It is proved one kind of
step at a time, backwards: what shows the tie after a step showed it before (`UnsetBefore`, `FreeSettle`, `SeenSettle`),
or the step filled the draft with an answer to the object selected (`Answers`; `AheadStays` where the load is sent once
and must be shown before the axis moves). `Carrying` then asks that each handler that sends a draft is enabled only where
such a tie is shown.

## 8. Only model-checked

- **Liveness** (`EventuallySynced`, `FetchEnds`, `CatchesUp`): fairness and ENABLED are beyond the prover.
- **That the 78 screens have the shapes** of `ScreenShapes`, on which the theorems of `Screens_proofs` are
  conditional. A shape is a fact about a constant description that no step can change, so it is not a property of
  a run either; the run `screens` checks the promises that the theorems draw from it. To see that a screen has a
  shape, add it to the invariants of `Screens.cfg`.

Every other property of a passing run is stated by a theorem. `DeletedLeavesNothing` is violated and has none.

The other way round, `HistoryOnlyGrows`, `OneScanOneAlert`, `UsedIsEarned` and the type invariants of the eight
modules with proofs are proved and not run again.

## 9. Not modelled, and why

- **One store at a time in `OrderSync`.** `sync_all_platforms` runs over all stores in one session, one
  after the other; stores share no row. A lock time-out of one ends the job for those after it, which the
  model sees as a job that ends early.
- **Fees, currencies, items, raw data** of an order: the version stands for them; the properties need to tell
  versions apart, not what is in them. Its total and the amount of the income entry are kept. Of currencies the missing rate is kept (`RateStored`).
- **Field validation and write-back** of a synchronised product (`sync_service.py:508-690` and the
  `platform_product_*` services): functions of one product; what they refuse is `Refused`.
- **Read-only projections**: summaries, cockpits, profit and risk figures, reports, product diagnostics.
- **CRUD of single rows**: suppliers, sourcing items, templates, promotions, configuration, dictionaries.
- **External**: platform connectors, AI providers, e-mail, crawlers; the models take any answer they may give.
- **Authentication and permissions** are every handler's preamble; the models start after it. **Rate limiting**
  refuses requests before a handler starts.
- **Plans and subscriptions** are seeded and changed by no code; a plan's limit is a constant.
- **Screens, what is left out of them**: layout, columns, figures, charts, validation of fields and messages; the
  dictionary and label lookups every page makes. Components that no page mounts (`ContentTaskMatrix`,
  `ListingUnifiedEditorSections`, `ContentTitleGenerator`, `ListingSpecificationEditor`, `ListingStoreOverrideEditor`,
  `ListingObjectScopeMap`) have no behaviour.
- **Session and API client** (`api/client.ts`): every request goes through it; on a 401 it drops the token and leaves for
  the sign-in page. That a late 401 may drop the token of a newer sign-in, and that the query cache outlives a sign-out, is noted
  here and not modelled.
- **Page parsers of the extension** (`content/platforms.js`, …): functions of a page, no state.
- **MCP server, scripts**: façades and tools.
- **Planned, not there yet**: section 10.

## 10. Plan

Done: `OrderSync`, `ProductSync`, `OrderPages`, `OrderFulfillment`, `AiQuota`, `InventoryAlerts`,
`Bookkeeping`, `OperationLedger`, in the order of what the seller would miss most if it were wrong; then
`Realtime`, and the client's `Screens`.

Extensions, in order:

1. `BillImport` — `finance_service.import_platform_bill_records`: `import_ref` looked up and inserted with no
   constraint, the sync log around it; each bill line once, in turn; bounded copies under overlap.
2. `ContentVersions` — drafts, confirmations and exports in one JSON attribute: no version lost in turn,
   numbers unique, the confirmed version exists; an abstract version history it implements.
3. `ReportDispatch` — the job, the period marks, the notification committed before the mark: at least once in each
   period, at most once without a crash; liveness under the scheduler's fairness.
4. `ManualOrders`, `BusinessFlowTasks`, `BatchPublish`, `ProviderFallback`.

Where a module's questions can be asked of one instance they become one run (in turn and overlapping
together, as in `ledger_requests`).

Proofs: of the modules above everything but liveness is done. What is
left to prove comes with the modules to be written.
