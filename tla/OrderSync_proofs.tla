--------------------------- MODULE OrderSync_proofs ---------------------------
(***************************************************************************)
(* Proofs about OrderSync for any set of orders, any set of workers and    *)
(* any bounds.  However the runs overlap, the types, the status an account *)
(* shows, the ledger and the bound on duplicate rows hold; that nothing is *)
(* lost silently, that an order has one row and that a row never regresses *)
(* need what max_instances=1 gives: one order run at a time, and no        *)
(* product sync moving the same cursor.  Last come the proofs about the    *)
(* page loop of OrderPages.                                                *)
(***************************************************************************)
EXTENDS OrderSync, OrderPages, FiniteSetTheorems, SequenceTheorems, WellFoundedInduction, TLAPS

USE BoundsAssumption

-----------------------------------------------------------------------------
(* Operators.                                                              *)

\* _sync_order_finance_entries leaves the columns of the order alone.
LEMMA WithLedgerType ==
  ASSUME NEW row \in Row, NEW at \in Times
  PROVE  /\ WithLedger(row, at) \in Row
         /\ WithLedger(row, at).at = row.at
         /\ WithLedger(row, at).total = row.total
         /\ WithLedger(row, at).stale = row.stale
<1>1. TotalAt[at] \in Nat
  BY VersionsAssumption
<1>2. QED
  BY <1>1 DEF WithLedger, Row

LEMMA NewRowType ==
  ASSUME NEW at \in Times
  PROVE  NewRow(at) \in Row /\ NewRow(at).at = at /\ Whole(NewRow(at))
<1> DEFINE r == [at |-> at, total |-> TotalAt[at], income |-> 0, fee |-> 0, stale |-> FALSE]
<1>1. r \in Row /\ r.at = at /\ r.total = TotalAt[at] /\ r.stale = FALSE
  BY VersionsAssumption DEF Row, Times
<1> HIDE DEF r
<1>2. NewRow(at) = WithLedger(r, at)
  BY DEF NewRow, r
<1>3. QED
  BY <1>1, <1>2, WithLedgerType DEF Whole

\* An UPDATE from any copy keeps the type; one from a copy still true leaves the row
\* with the columns of the version written.
LEMMA UpdatedType ==
  ASSUME NEW row \in Row, NEW copy, NEW at \in Times
  PROVE  /\ Updated(row, copy, at) \in Row
         /\ copy = Held(row) => Updated(row, copy, at).at = at /\ Whole(Updated(row, copy, at))
<1> DEFINE r == [row EXCEPT !.at = IF at # copy.at THEN at ELSE @,
                            !.total = IF TotalAt[at] # copy.total THEN TotalAt[at] ELSE @,
                            !.stale = copy # Held(row)]
<1>1. r \in Row
  BY VersionsAssumption DEF Row
<1>2. /\ r.at = IF at # copy.at THEN at ELSE row.at
      /\ r.total = IF TotalAt[at] # copy.total THEN TotalAt[at] ELSE row.total
      /\ r.stale = (copy # Held(row))
  BY DEF Row
<1>3. Updated(row, copy, at) = WithLedger(r, at)
  BY DEF Updated
<1>4. ASSUME copy = Held(row)
      PROVE  r.at = at /\ r.total = TotalAt[at] /\ r.stale = FALSE
  BY <1>2, <1>4 DEF Held
<1> HIDE DEF r
<1>5. Updated(row, copy, at) \in Row
  BY <1>1, <1>3, WithLedgerType
<1>6. ASSUME copy = Held(row)
      PROVE  Updated(row, copy, at).at = at /\ Whole(Updated(row, copy, at))
  <2>1. /\ Updated(row, copy, at).at = r.at
        /\ Updated(row, copy, at).total = r.total
        /\ Updated(row, copy, at).stale = r.stale
    BY <1>1, <1>3, WithLedgerType
  <2>2. QED
    BY <1>4, <1>6, <2>1 DEF Whole
<1>7. QED
  BY <1>5, <1>6

LEMMA LoadedType ==
  ASSUME NEW rows \in Seq(Row)
  PROVE  /\ Loaded(rows) \in Seq(Columns)
         /\ Loaded(rows) = <<>> <=> rows = <<>>
         /\ \A i \in 1 .. Len(rows) : Loaded(rows)[i] = Held(rows[i])
<1>1. \A i \in 1 .. Len(rows) : Held(rows[i]) \in Columns
  <2>1. \A i \in 1 .. Len(rows) : rows[i] \in Row
    OBVIOUS
  <2>2. \A r \in Row : Held(r) \in Columns
    BY DEF Held, Row, Columns
  <2>3. QED
    BY <2>1, <2>2
<1>2. DOMAIN rows = 1 .. Len(rows) /\ Len(rows) \in Nat
  OBVIOUS
<1>3. Loaded(rows) = [i \in 1 .. Len(rows) |-> Held(rows[i])]
  BY <1>2 DEF Loaded
<1>4. Loaded(rows) \in Seq(Columns) /\ Len(Loaded(rows)) = Len(rows)
  BY <1>1, <1>2, <1>3
<1>5. Loaded(rows) = <<>> <=> rows = <<>>
  BY <1>4, EmptySeq
<1>6. QED
  BY <1>3, <1>4, <1>5

\* What the upsert of an order does to its rows: the type, the length, and that
\* the first row holds the version written unless a row appeared unseen.
LEMMA UpsertedType ==
  ASSUME NEW rows \in Seq(Row), NEW seen, NEW at \in Times
  PROVE  Upserted(rows, seen, at) \in Seq(Row)
<1>1. CASE seen = <<>>
  BY <1>1, NewRowType DEF Upserted
<1>2. CASE seen # <<>>
  <2>1. Upserted(rows, seen, at) = [rows EXCEPT ![1] = Updated(rows[1], seen[1], at)]
    BY <1>2 DEF Upserted
  <2>2. CASE rows = <<>>
    <3> DEFINE f == [rows EXCEPT ![1] = Updated(rows[1], seen[1], at)]
    <3>1. DOMAIN f = 1 .. 0
      BY <2>2
    <3>2. f = [i \in 1 .. 0 |-> f[i]]
      BY <3>1
    <3>3. [i \in 1 .. 0 |-> f[i]] \in Seq(Row)
      OBVIOUS
    <3>4. QED
      BY <2>1, <3>2, <3>3
  <2>3. CASE rows # <<>>
    <3>1. rows[1] \in Row /\ 1 \in 1 .. Len(rows)
      BY <2>3
    <3>2. Updated(rows[1], seen[1], at) \in Row
      BY <3>1, UpdatedType
    <3>3. QED
      BY <2>1, <3>1, <3>2, ExceptSeq
  <2>4. QED
    BY <2>2, <2>3
<1>3. QED
  BY <1>1, <1>2

LEMMA SingleRow ==
  ASSUME NEW rows \in Seq(Row), Len(rows) <= 1, rows # <<>>
  PROVE  Len(rows) = 1 /\ 1 \in 1 .. Len(rows) /\ rows[1] \in Row
<1>1. Len(rows) \in Nat \ {0}
  BY EmptySeq
<1>2. \A n \in Nat \ {0} : n <= 1 => n = 1
  OBVIOUS
<1>3. Len(rows) = 1
  BY <1>1, <1>2
<1>4. QED
  BY <1>3, ElementOfSeq

LEMMA UpsertedFirst ==
  ASSUME NEW rows \in Seq(Row), NEW at \in Times, Len(rows) <= 1
  PROVE  /\ Len(Upserted(rows, Loaded(rows), at)) = 1
         /\ Upserted(rows, Loaded(rows), at) # <<>>
         /\ Upserted(rows, Loaded(rows), at)[1].at = at
         /\ Whole(Upserted(rows, Loaded(rows), at)[1])
<1> DEFINE seen == Loaded(rows)
<1>1. seen = <<>> <=> rows = <<>>
  BY LoadedType
<1>2. \A i \in 1 .. Len(rows) : seen[i] = Held(rows[i])
  BY LoadedType
<1> HIDE DEF seen
<1>3. CASE rows = <<>>
  <2>1. Upserted(rows, seen, at) = Append(<<>>, NewRow(at))
    BY <1>1, <1>3 DEF Upserted
  <2>2. QED
    BY <2>1, NewRowType DEF seen
<1>4. CASE rows # <<>>
  <2>1. Upserted(rows, seen, at) = [rows EXCEPT ![1] = Updated(rows[1], seen[1], at)]
    BY <1>1, <1>4 DEF Upserted
  <2>2. rows[1] \in Row /\ 1 \in 1 .. Len(rows) /\ Len(rows) = 1
    BY <1>4, SingleRow
  <2> DEFINE u == Updated(rows[1], seen[1], at)
  <2>3. u \in Row /\ u.at = at /\ Whole(u)
    BY <1>2, <2>2, UpdatedType
  <2> HIDE DEF u
  <2>4. Upserted(rows, seen, at) = [rows EXCEPT ![1] = u]
    BY <2>1 DEF u
  <2>9. 1 \in DOMAIN rows
    BY <2>2
  <2>10. [rows EXCEPT ![1] = u][1] = u
    BY <2>9
  <2>11. Len([rows EXCEPT ![1] = u]) = Len(rows)
    BY <2>2, <2>3, ExceptSeq
  <2>5. Len(Upserted(rows, seen, at)) = 1 /\ Upserted(rows, seen, at)[1] = u
    BY <2>2, <2>4, <2>10, <2>11
  <2>6. Upserted(rows, seen, at) \in Seq(Row)
    BY UpsertedType
  <2>7. Upserted(rows, seen, at) # <<>>
    BY <2>5, <2>6, EmptySeq
  <2>8. QED
    BY <2>3, <2>5, <2>7 DEF seen
<1>5. QED
  BY <1>3, <1>4

-----------------------------------------------------------------------------
(* Type correctness.                                                       *)

LEMMA NoRunType == NoRun \in RunState /\ NewAccount \in Account
  BY DEF NoRun, NewAccount, RunState, Account, SyncState, Stages, Times, Closed, Columns

LEMMA InitType == Init => TypeOK
<1> SUFFICES ASSUME Init PROVE TypeOK
  OBVIOUS
<1>1. clock \in Times /\ faults \in 0 .. MaxFaults /\ unfetched \subseteq Version
  BY DEF Init, Times
<1>2. remote \in [Orders -> [at : Times, ok : BOOLEAN]]
  BY DEF Init, Times
<1>3. orders \in [Orders -> Seq(Row)] /\ draft \in [Orders -> Seq(Row)]
  BY DEF Init
<1>4. run \in [Workers -> RunState] /\ account \in Account
  BY NoRunType DEF Init
<1>5. task \in [Jobs -> Closed \cup {"none", "running", "skipped"}]
  BY DEF Init
<1>6. QED
  BY <1>1, <1>2, <1>3, <1>4, <1>5 DEF Init, TypeOK


LEMMA SeenType ==
  ASSUME TypeOK, NEW p \in Workers
  PROVE  Seen(p) \in [Orders -> Seq(Row)]
  BY DEF TypeOK, Seen

LEMMA WithStateType ==
  ASSUME TypeOK, NEW p \in Workers, NEW s \in Closed \cup {"running"}
  PROVE  /\ WithState(p, s) \in Account
         /\ WithState(p, s).cursor = run[p].copy.cursor
  BY DEF TypeOK, WithState, RunState, Account, SyncState, Type

LEMMA LogType ==
  ASSUME TypeOK, NEW p \in Workers
  PROVE  /\ Orphan(p) \subseteq SyncLog
         /\ Verdict(p) \in Closed
         /\ \A s \in Closed : \A f \in SUBSET Version : Log(p, s, f) \in SyncLog
<1>1. run[p].failed \in SUBSET Version /\ {} \in SUBSET Version
  BY DEF TypeOK, RunState
<1>2. \A s \in Closed \cup {"running"}, f \in SUBSET Version : Log(p, s, f) \in SyncLog
  BY DEF Log, SyncLog, Type
<1>3. Orphan(p) \subseteq SyncLog
  BY <1>1, <1>2 DEF Orphan
<1>4. QED
  BY <1>2, <1>3 DEF Verdict, Closed

\* The end of a run leaves its coroutine idle or about to close its TaskRun.
LEMMA FinishType ==
  ASSUME TypeOK, NEW p \in Workers, NEW s \in Closed, Finish(p, s)
  PROVE  run' \in [Workers -> RunState]
<1>1. [NoRun EXCEPT !.pc = "closing", !.copy = WithState(p, s)] \in RunState
  BY NoRunType, WithStateType DEF NoRun, RunState, Stages
<1>2. QED
  BY <1>1, NoRunType DEF Finish, TypeOK

LEMMA RunUpdate ==
  ASSUME TypeOK, NEW p \in Workers, NEW r \in RunState, run' = [run EXCEPT ![p] = r]
  PROVE  run' \in [Workers -> RunState]
  BY DEF TypeOK

LEMMA MoveType ==
  ASSUME TypeOK, NEW p \in Workers, NEW stage \in Stages, Move(p, stage)
  PROVE  run' \in [Workers -> RunState]
<1>1. [run[p] EXCEPT !.pc = stage] \in RunState
  BY DEF TypeOK, RunState
<1>2. run' = [run EXCEPT ![p] = [run[p] EXCEPT !.pc = stage]]
  BY DEF Move
<1>3. QED
  BY <1>1, <1>2, RunUpdate

LEMMA ChangedWithinType ==
  ASSUME TypeOK, NEW start, NEW end
  PROVE  ChangedWithin(start, end) \in SUBSET Change
  BY DEF ChangedWithin, Change, TypeOK

LEMMA WindowType ==
  ASSUME TypeOK, NEW p \in Workers
  PROVE  Window(p) \in SUBSET Change
  BY ChangedWithinType DEF Window

LEMMA NotBroughtType ==
  ASSUME TypeOK, NEW p \in Workers
  PROVE  NotBrought(p) \in SUBSET Version
<1>1. \A c \in Window(p) : <<c.order, c.at>> \in Version
  BY WindowType DEF Change, Version
<1>2. \A o \in Orders : <<o, remote[o].at>> \in Version
  BY DEF TypeOK, Version
<1>3. QED
  BY <1>1, <1>2 DEF NotBrought

LEMMA ChangedWithinBounds ==
  ASSUME TypeOK, NEW start \in Int, NEW end \in Times, NEW h \in ChangedWithin(start, end)
  PROVE  h.at = remote[h.order].at /\ start <= h.at /\ h.at <= end /\ h.at > 0
<1>1. PICK o \in Orders : /\ h = [order |-> o, at |-> remote[o].at, ok |-> remote[o].ok]
                          /\ remote[o].at > 0 /\ remote[o].at \in start .. end
  BY DEF ChangedWithin
<1>2. QED
  BY <1>1 DEF Times

\* Any interleaving of any number of runs keeps the types.
LEMMA NextType == TypeOK /\ [Next]_vars => TypeOK'
<1> SUFFICES ASSUME TypeOK, [Next]_vars PROVE TypeOK'
  OBVIOUS
<1>1. ASSUME NEW p \in Workers, StartTask(p) PROVE TypeOK'
  <2>1. run' \in [Workers -> RunState]
    BY <1>1, MoveType DEF StartTask, Stages
  <2>2. QED
    BY <1>1, <2>1 DEF StartTask, TypeOK, world, table
<1>2. ASSUME NEW p \in Workers, LoadAccount(p) PROVE TypeOK'
  <2>1. run' \in [Workers -> RunState]
    BY <1>2, NoRunType DEF LoadAccount, TypeOK, NoRun, RunState, Stages
  <2>2. QED
    BY <1>2, <2>1 DEF LoadAccount, TypeOK, world, table
<1>3. ASSUME NEW p \in Workers, SkipStore(p) PROVE TypeOK'
  BY <1>3, NoRunType DEF SkipStore, TypeOK, world, table
<1>4. ASSUME NEW p \in Workers, RecordBlockedSync(p) PROVE TypeOK'
  <2>1. "failed" \in Closed
    BY DEF Closed
  <2>2. account' \in Account
    BY <1>4, <2>1, WithStateType DEF RecordBlockedSync, TypeOK, Account
  <2>3. logs' \subseteq SyncLog
    BY <1>4, <2>1, LogType DEF RecordBlockedSync, TypeOK
  <2>4. QED
    BY <1>4, <2>2, <2>3, NoRunType DEF RecordBlockedSync, TypeOK, world, table
<1>5. ASSUME NEW p \in Workers, OpenLog(p) PROVE TypeOK'
  <2>1. run' \in [Workers -> RunState]
    BY <1>5, MoveType DEF OpenLog, Stages
  <2>2. QED
    BY <1>5, <2>1 DEF OpenLog, TypeOK, world, table
<1>6. ASSUME NEW p \in Workers, StampNow(p) PROVE TypeOK'
  <2>1. [run[p] EXCEPT !.pc = "stamped", !.now = clock] \in RunState
    <3>1. run[p] \in RunState /\ "stamped" \in Stages /\ clock \in Times
      BY DEF TypeOK, Stages
    <3>2. QED
      BY <3>1 DEF RunState
  <2>2. run' = [run EXCEPT ![p] = [run[p] EXCEPT !.pc = "stamped", !.now = clock]]
    BY <1>6 DEF StampNow
  <2>3. run' \in [Workers -> RunState]
    BY <2>1, <2>2, RunUpdate
  <2>4. QED
    BY <1>6, <2>3 DEF StampNow, TypeOK, world, table
<1>6a. ASSUME NEW p \in Workers, FirstPage(p) PROVE TypeOK'
  <2>1. PICK items \in SUBSET Window(p) :
          run' = [run EXCEPT ![p].pc = "paging", ![p].listed = Window(p), ![p].batch = items]
    BY <1>6a DEF FirstPage
  <2>2. run' = [run EXCEPT ![p] = [run[p] EXCEPT !.pc = "paging", !.listed = Window(p),
                                                 !.batch = items]]
    BY <2>1
  <2>3. [run[p] EXCEPT !.pc = "paging", !.listed = Window(p), !.batch = items] \in RunState
    <3>1. run[p] \in RunState /\ "paging" \in Stages
      BY DEF TypeOK, Stages
    <3>2. Window(p) \in SUBSET Change /\ items \in SUBSET Change
      BY WindowType
    <3>3. QED
      BY <3>1, <3>2 DEF RunState
  <2>4. run' \in [Workers -> RunState]
    BY <2>2, <2>3, RunUpdate
  <2>5. QED
    BY <1>6a, <2>4 DEF FirstPage, TypeOK, world, table
<1>6b. ASSUME NEW p \in Workers, NextPage(p) PROVE TypeOK'
  <2>1. PICK items \in SUBSET Window(p) : run' = [run EXCEPT ![p].batch = @ \cup items]
    BY <1>6b DEF NextPage
  <2>2. run' = [run EXCEPT ![p] = [run[p] EXCEPT !.batch = @ \cup items]]
    BY <2>1
  <2>3. [run[p] EXCEPT !.batch = @ \cup items] \in RunState
    <3>1. run[p] \in RunState /\ items \in SUBSET Change
      BY WindowType DEF TypeOK
    <3>2. QED
      BY <3>1 DEF RunState
  <2>4. run' \in [Workers -> RunState]
    BY <2>2, <2>3, RunUpdate
  <2>5. QED
    BY <1>6b, <2>4 DEF NextPage, TypeOK, world, table
<1>7. ASSUME NEW p \in Workers, FetchPages(p) PROVE TypeOK'
  <2>1. run' = [run EXCEPT ![p] = [run[p] EXCEPT !.pc = "fetched", !.listed = {},
                                                 !.out = NotBrought(p)]]
    BY <1>7 DEF FetchPages
  <2>2. [run[p] EXCEPT !.pc = "fetched", !.listed = {}, !.out = NotBrought(p)] \in RunState
    <3>1. run[p] \in RunState /\ "fetched" \in Stages /\ NotBrought(p) \in SUBSET Version
      BY NotBroughtType DEF TypeOK, Stages
    <3>2. QED
      BY <3>1 DEF RunState
  <2>3. run' \in [Workers -> RunState]
    BY <2>1, <2>2, RunUpdate
  <2>4. faults' \in 0 .. MaxFaults
    BY <1>7 DEF FetchPages, TypeOK
  <2>5. QED
    BY <1>7, <2>3, <2>4 DEF FetchPages, TypeOK, table
<1>8. ASSUME NEW p \in Workers, PlatformFails(p) PROVE TypeOK'
  <2>1. "failed" \in Closed
    BY DEF Closed
  <2>2. account' \in Account
    BY <1>8, <2>1, WithStateType DEF PlatformFails, TypeOK, Account
  <2>3. logs' \subseteq SyncLog
    BY <1>8, <2>1, LogType DEF PlatformFails, TypeOK
  <2>4. run' \in [Workers -> RunState]
    BY <1>8, <2>1, FinishType DEF PlatformFails
  <2>5. faults' \in 0 .. MaxFaults
    BY <1>8 DEF PlatformFails, TypeOK
  <2>6. QED
    BY <1>8, <2>2, <2>3, <2>4, <2>5 DEF PlatformFails, TypeOK, table
<1>9. ASSUME NEW p \in Workers, RefuseOrder(p) PROVE TypeOK'
  <2>1. PICK h \in run[p].batch :
          run' = [run EXCEPT ![p].batch = @ \ {h},
                             ![p].failed = @ \cup {<<h.order, h.at>>}]
    BY <1>9 DEF RefuseOrder
  <2>2. h \in Change
    BY DEF TypeOK, RunState
  <2>a. [run[p] EXCEPT !.batch = @ \ {h}, !.failed = @ \cup {<<h.order, h.at>>}] \in RunState
    <3>1. run[p] \in RunState /\ <<h.order, h.at>> \in Version
      BY <2>2 DEF TypeOK, Change, Version
    <3>2. QED
      BY <3>1 DEF RunState
  <2>b. run' = [run EXCEPT ![p] = [run[p] EXCEPT !.batch = @ \ {h},
                                                 !.failed = @ \cup {<<h.order, h.at>>}]]
    BY <2>1
  <2>3. run' \in [Workers -> RunState]
    BY <2>a, <2>b, RunUpdate
  <2>4. QED
    BY <1>9, <2>3 DEF RefuseOrder, TypeOK, world, table
<1>10. ASSUME NEW p \in Workers, ReadOrder(p) PROVE TypeOK'
  <2>1. PICK h \in run[p].batch :
          run' = [run EXCEPT ![p].pc = "write", ![p].batch = @ \ {h}, ![p].hand = {h},
                             ![p].seen = Loaded(Seen(p)[h.order])]
    BY <1>10 DEF ReadOrder
  <2>2. h \in Change /\ Loaded(Seen(p)[h.order]) \in Seq(Columns)
    <3>1. h \in Change
      BY DEF TypeOK, RunState
    <3>2. Seen(p)[h.order] \in Seq(Row)
      BY <3>1, SeenType DEF Change
    <3>3. QED
      BY <3>1, <3>2, LoadedType
  <2> DEFINE seen == Loaded(Seen(p)[h.order])
  <2>3. run' = [run EXCEPT ![p] = [run[p] EXCEPT !.pc = "write", !.batch = @ \ {h},
                                                 !.hand = {h}, !.seen = seen]]
    BY <2>1
  <2> HIDE DEF seen
  <2>4. [run[p] EXCEPT !.pc = "write", !.batch = @ \ {h}, !.hand = {h}, !.seen = seen]
          \in RunState
    <3>1. run[p] \in RunState /\ "write" \in Stages /\ seen \in Seq(Columns)
      BY <2>2 DEF TypeOK, Stages, seen
    <3>2. QED
      BY <2>2, <3>1 DEF RunState
  <2>5. run' \in [Workers -> RunState]
    BY <2>3, <2>4, RunUpdate
  <2>6. QED
    BY <1>10, <2>5 DEF ReadOrder, TypeOK, world, table
<1>11. ASSUME NEW p \in Workers, WriteOrder(p) PROVE TypeOK'
  <2>1. PICK h \in run[p].hand :
          draft' = [draft EXCEPT ![h.order] = Upserted(@, run[p].seen, h.at)]
    BY <1>11 DEF WriteOrder
  <2>2. h \in Change
    BY DEF TypeOK, RunState
  <2>3. Upserted(draft[h.order], run[p].seen, h.at) \in Seq(Row)
    BY <2>2, UpsertedType DEF TypeOK, Change
  <2>4. draft' \in [Orders -> Seq(Row)]
    BY <2>1, <2>3 DEF TypeOK
  <2>a. [run[p] EXCEPT !.pc = "fetched", !.hand = {}, !.kept = TRUE, !.seen = <<>>] \in RunState
    <3>1. run[p] \in RunState /\ "fetched" \in Stages /\ <<>> \in Seq(Columns)
      BY DEF TypeOK, Stages
    <3>2. QED
      BY <3>1 DEF RunState
  <2>b. run' = [run EXCEPT ![p] = [run[p] EXCEPT !.pc = "fetched", !.hand = {}, !.kept = TRUE,
                                                 !.seen = <<>>]]
    BY <1>11 DEF WriteOrder
  <2>5. run' \in [Workers -> RunState]
    BY <2>a, <2>b, RunUpdate
  <2>6. QED
    BY <1>11, <2>4, <2>5 DEF WriteOrder, TypeOK, world
<1>12. ASSUME NEW p \in Workers, StoreOrders(p) PROVE TypeOK'
  <2>1. account' \in Account
    BY <1>12, WithStateType DEF StoreOrders, TypeOK, Account, RunState
  <2>a. [run[p] EXCEPT !.pc = "stored", !.copy = account'] \in RunState
    <3>1. run[p] \in RunState /\ "stored" \in Stages
      BY DEF TypeOK, Stages
    <3>2. QED
      BY <2>1, <3>1 DEF RunState
  <2>b. run' = [run EXCEPT ![p] = [run[p] EXCEPT !.pc = "stored", !.copy = account']]
    BY <1>12 DEF StoreOrders
  <2>2. run' \in [Workers -> RunState]
    BY <2>a, <2>b, RunUpdate
  <2>3. orders' \in [Orders -> Seq(Row)] /\ draft' \in [Orders -> Seq(Row)] /\ lock' = NoOne
    BY <1>12, SeenType DEF StoreOrders, Commit
  <2>c. unfetched' \subseteq Version
    BY <1>12 DEF StoreOrders, Commit, TypeOK, RunState
  <2>4. QED
    BY <1>12, <2>1, <2>2, <2>3, <2>c DEF StoreOrders, TypeOK, world
<1>13. ASSUME NEW p \in Workers, CloseLog(p) PROVE TypeOK'
  <2>1. Verdict(p) \in Closed /\ run[p].failed \in SUBSET Version
    BY LogType DEF TypeOK, RunState
  <2>2. account' \in Account
    BY <1>13, <2>1, WithStateType DEF CloseLog, TypeOK, Account
  <2>3. Log(p, Verdict(p), run[p].failed) \in SyncLog
    BY <2>1, LogType
  <2>4. run' \in [Workers -> RunState]
    BY <1>13, <2>1, FinishType DEF CloseLog
  <2>5. QED
    BY <1>13, <2>2, <2>3, <2>4 DEF CloseLog, TypeOK, world, table
<1>14. ASSUME NEW p \in Workers, StoreProducts(p) PROVE TypeOK'
  <2>1. PICK s \in Closed :
          /\ logs' = logs \cup {Log(p, s, {})}
          /\ account' = [WithState(p, s) EXCEPT !.cursor = run[p].now]
          /\ Finish(p, s)
    BY <1>14 DEF StoreProducts
  <2>2. account' \in Account
    BY <2>1, WithStateType DEF TypeOK, Account, RunState
  <2>3. logs' \subseteq SyncLog
    BY <2>1, LogType DEF TypeOK
  <2>4. run' \in [Workers -> RunState]
    BY <2>1, FinishType
  <2>5. QED
    BY <1>14, <2>2, <2>3, <2>4 DEF StoreProducts, TypeOK, world, table
<1>15. ASSUME NEW p \in Workers, FinishTask(p) PROVE TypeOK'
  BY <1>15, NoRunType DEF FinishTask, TypeOK, world, table, Closed
<1>16. ASSUME NEW p \in Workers, LockTimeout(p) PROVE TypeOK'
  <2>1. logs' \subseteq SyncLog
    BY <1>16, LogType DEF LockTimeout, TypeOK
  <2>2. QED
    BY <1>16, <2>1, NoRunType DEF LockTimeout, TypeOK, world, table
<1>17. CASE Tick \/ RateStored
  <2>1. clock' \in Times
    BY <1>17 DEF Tick, RateStored, TypeOK, Times
  <2>2. QED
    BY <1>17, <2>1 DEF Tick, RateStored, TypeOK, table
<1>18. CASE RemoteChange
  <2>1. \A o \in Orders : [at |-> clock, ok |-> <<o, clock>> \notin Unsound]
                            \in [at : Times, ok : BOOLEAN]
    BY DEF TypeOK
  <2>2. remote' \in [Orders -> [at : Times, ok : BOOLEAN]]
    BY <1>18, <2>1 DEF RemoteChange, TypeOK
  <2>3. QED
    BY <1>18, <2>2 DEF RemoteChange, TypeOK, table
<1>19. CASE ConnectorChange
  BY <1>19 DEF ConnectorChange, TypeOK, table
<1>20. CASE Crash
  <2>1. logs' \subseteq SyncLog
    BY <1>20, LogType DEF Crash, TypeOK
  <2>2. faults' \in 0 .. MaxFaults
    BY <1>20 DEF Crash, TypeOK
  <2>3. QED
    BY <1>20, <2>1, <2>2, NoRunType DEF Crash, TypeOK
<1>21. CASE UNCHANGED vars
  BY <1>21 DEF vars, world, table, TypeOK
<1>22. QED
  BY <1>1, <1>2, <1>3, <1>4, <1>5, <1>6, <1>6a, <1>6b, <1>7, <1>8, <1>9, <1>10, <1>11, <1>12,
     <1>13, <1>14, <1>15, <1>16, <1>17, <1>18, <1>19, <1>20, <1>21
     DEF Next, Environment, Run

\* Every variable keeps its type in every behaviour of any number of scheduled,
\* triggered and product runs (OrderSync.TypeOK).
THEOREM TypeCorrect == Spec => []TypeOK
  BY InitType, NextType, PTL DEF Spec

-----------------------------------------------------------------------------
(* One run at a time.                                                      *)

LEMMA SerialInit == Init => SerialInv
<1> SUFFICES ASSUME Init PROVE SerialInv
  OBVIOUS
<1>1. TypeOK
  BY InitType
<1>2. LockInv /\ WindowInv /\ BatchInv
  BY WorkersAssumption DEF Init, LockInv, WindowInv, BatchInv, InLoop, NoRun, NewAccount
<1>3. RowInv /\ WholeInv /\ CoverInv /\ OnlyUnfetchedIsLost
  BY WorkersAssumption, EmptySeq
     DEF Init, RowInv, WholeInv, CoverInv, OnlyUnfetchedIsLost, InLoop, NoRun, NewAccount
<1>4. QED
  BY <1>1, <1>2, <1>3 DEF SerialInv

\* Only order runs exist and at most one of them holds the lock, so it can write.
LEMMA Alone ==
  ASSUME OneRunAtATime, SerialInv, NEW p \in Workers
  PROVE  /\ p \in OrderWorkers /\ p \notin ProductRuns
         /\ \A q \in Workers : q = p
         /\ CanWrite(p)
         /\ lock # p => draft = orders
         /\ Seen(p) = draft
  BY DEF OneRunAtATime, SerialInv, TypeOK, LockInv, CanWrite, Seen, Workers

\* A step of the run outside its order loop that keeps the table and the cursor.
LEMMA OutsideLoop ==
  ASSUME OneRunAtATime, SerialInv, TypeOK', NEW p \in Workers,
         UNCHANGED <<clock, remote, orders, draft, lock, unfetched>>,
         account'.cursor = account.cursor, logs \subseteq logs',
         ~InLoop(p), ~InLoop(p)', run'[p].hand = {},
         run'[p].pc # "paging" => run'[p].batch = {},
         \A h \in run'[p].batch :
           /\ account.cursor <= h.at /\ h.at <= run'[p].now
           /\ h.at = remote[h.order].at \/ run'[p].now <= remote[h.order].at,
         run'[p].pc \notin {"idle", "tasked"} => run'[p].copy.cursor = account.cursor,
         run'[p].pc \in {"stamped", "paging"} =>
           account.cursor <= run'[p].now /\ run'[p].now <= clock,
         run[p].pc = "stored" =>
           \A f \in run[p].failed : \E l \in logs' : l.status # "success" /\ f \in l.failed
  PROVE  SerialInv'
<1>1. \A q \in Workers : q = p
  BY Alone
<1>2. LockInv'
  BY <1>1 DEF SerialInv, LockInv, InLoop
<1>3. WindowInv'
  BY <1>1 DEF SerialInv, WindowInv, InLoop
<1>4. BatchInv'
  BY <1>1 DEF SerialInv, BatchInv, InLoop
<1>5. lock # p
  BY DEF SerialInv, LockInv
<1>6. RowInv' /\ WholeInv'
  BY <1>1, <1>5 DEF SerialInv, RowInv, WholeInv
<1>7. CoverInv'
  BY <1>1 DEF CoverInv
<1>8. OnlyUnfetchedIsLost'
  <2>1. \A o \in Orders : Reported(o) => Reported(o)'
    <3>1. \A q \in OrderWorkers : q = p
      BY <1>1 DEF Workers
    <3>2. p \in OrderWorkers
      BY Alone
    <3>3. QED
      BY <3>1, <3>2 DEF Reported
  <2>2. \A o \in Orders : Applied(o) => Applied(o)'
    BY DEF Applied
  <2>3. QED
    BY <2>1, <2>2 DEF SerialInv, OnlyUnfetchedIsLost
<1>9. QED
  BY <1>2, <1>3, <1>4, <1>6, <1>7, <1>8 DEF SerialInv

LEMMA OutsideSteps ==
  ASSUME OneRunAtATime, SerialInv, TypeOK', NEW p \in Workers,
         \/ StartTask(p) \/ LoadAccount(p) \/ SkipStore(p) \/ RecordBlockedSync(p)
         \/ OpenLog(p) \/ StampNow(p) \/ PlatformFails(p) \/ CloseLog(p) \/ FinishTask(p)
  PROVE  SerialInv'
<1> USE DEF world, table
<1>1. TypeOK /\ run[p] \in RunState /\ run \in [Workers -> RunState]
  BY DEF SerialInv, TypeOK
<1>2. /\ ~InLoop(p) => run[p].hand = {}
      /\ run[p].pc # "paging" /\ ~InLoop(p) => run[p].batch = {}
  BY DEF SerialInv, BatchInv, InLoop
<1>3. run[p].pc \notin {"idle", "tasked"} => run[p].copy.cursor = account.cursor
  BY DEF SerialInv, WindowInv
<1>4. \A s \in Closed \cup {"running"} :
        WithState(p, s) \in Account /\ WithState(p, s).cursor = run[p].copy.cursor
  BY <1>1, WithStateType
<1>5. ASSUME NEW s \in Closed, Finish(p, s), run[p].pc \notin {"idle", "tasked"}
      PROVE  /\ run'[p].pc \in {"idle", "closing"}
             /\ run'[p].batch = {} /\ run'[p].hand = {}
             /\ run'[p].pc = "closing" => run'[p].copy.cursor = account.cursor
  BY <1>1, <1>3, <1>4, <1>5 DEF Finish, NoRun
<1>a. CASE StartTask(p)
  <2>1. run'[p] = [run[p] EXCEPT !.pc = "tasked"] /\ run[p].pc = "idle"
    BY <1>a, <1>1 DEF StartTask, Move
  <2>2. QED
    BY <1>a, <1>1, <1>2, <2>1, OutsideLoop DEF StartTask, InLoop, RunState
<1>b. CASE LoadAccount(p)
  <2>1. /\ run'[p] = [NoRun EXCEPT !.pc = "loaded", !.ready = connected, !.copy = account]
        /\ run[p].pc \in {"idle", "tasked"}
    BY <1>b, <1>1 DEF LoadAccount
  <2>2. /\ run'[p].pc = "loaded" /\ run'[p].copy = account
        /\ run'[p].batch = {} /\ run'[p].hand = {}
    BY <2>1 DEF NoRun
  <2>3. QED
    BY <1>b, <2>1, <2>2, OutsideLoop DEF LoadAccount, InLoop
<1>c. CASE SkipStore(p)
  BY <1>c, <1>1, OutsideLoop DEF SkipStore, InLoop, NoRun
<1>d. CASE RecordBlockedSync(p)
  <2>1. account'.cursor = account.cursor
    BY <1>d, <1>1 DEF RecordBlockedSync, TypeOK, Account
  <2>2. QED
    BY <1>d, <1>1, <2>1, OutsideLoop DEF RecordBlockedSync, InLoop, NoRun
<1>e. CASE OpenLog(p)
  <2>1. run'[p] = [run[p] EXCEPT !.pc = "opened"] /\ run[p].pc = "loaded"
    BY <1>e, <1>1 DEF OpenLog, Move
  <2>2. QED
    BY <1>e, <1>1, <1>2, <1>3, <2>1, OutsideLoop DEF OpenLog, InLoop, RunState
<1>f. CASE StampNow(p)
  <2>1. run'[p] = [run[p] EXCEPT !.pc = "stamped", !.now = clock] /\ run[p].pc = "opened"
    BY <1>f, <1>1 DEF StampNow
  <2>2. account.cursor <= clock /\ clock <= clock
    BY <1>1 DEF SerialInv, WindowInv, TypeOK, Times
  <2>3. QED
    BY <1>f, <1>1, <1>2, <1>3, <2>1, <2>2, OutsideLoop DEF StampNow, InLoop, RunState
<1>g. CASE PlatformFails(p)
  <2>1. account'.cursor = account.cursor
    BY <1>g, <1>1 DEF PlatformFails, TypeOK, Account
  <2>2. Finish(p, "failed") /\ "failed" \in Closed /\ run[p].pc \in {"opened", "stamped", "paging"}
    BY <1>g DEF PlatformFails, Closed
  <2>3. QED
    BY <1>g, <1>5, <2>1, <2>2, OutsideLoop DEF PlatformFails, InLoop
<1>h. CASE CloseLog(p)
  <2>1. account'.cursor = account.cursor
    BY <1>h, <1>1 DEF CloseLog, TypeOK, Account
  <2>2. Finish(p, Verdict(p)) /\ Verdict(p) \in Closed /\ run[p].pc = "stored"
    BY <1>h, <1>1, LogType DEF CloseLog
  <2>3. \A f \in run[p].failed : \E l \in logs' : l.status # "success" /\ f \in l.failed
    <3>1. run[p].failed # {} => Verdict(p) # "success"
      BY DEF Verdict
    <3>2. Log(p, Verdict(p), run[p].failed) \in logs'
      BY <1>h DEF CloseLog
    <3>3. QED
      BY <3>1, <3>2 DEF Log
  <2>4. QED
    BY <1>h, <1>5, <2>1, <2>2, <2>3, OutsideLoop DEF CloseLog, InLoop
<1>i. CASE FinishTask(p)
  BY <1>i, <1>1, OutsideLoop DEF FinishTask, InLoop, NoRun
<1>z. QED
  BY <1>a, <1>b, <1>c, <1>d, <1>e, <1>f, <1>g, <1>h, <1>i

\* A step inside the loop that writes nothing: the run's unhandled changes only
\* shrink, and what leaves them is refused or taken in hand.
LEMMA InsideLoop ==
  ASSUME OneRunAtATime, SerialInv, TypeOK', NEW p \in Workers,
         UNCHANGED <<clock, remote, orders, draft, lock, unfetched, account, logs>>,
         InLoop(p), InLoop(p)',
         run'[p].copy = run[p].copy, run'[p].now = run[p].now, run'[p].out = run[p].out,
         run'[p].batch \cup run'[p].hand \subseteq run[p].batch \cup run[p].hand,
         run[p].failed \subseteq run'[p].failed,
         \A h \in (run[p].batch \cup run[p].hand) \ (run'[p].batch \cup run'[p].hand) :
            <<h.order, h.at>> \in run'[p].failed,
         run'[p].pc # "write" => run'[p].hand = {},
         \A x, y \in run'[p].hand : x = y,
         \A h \in run'[p].hand : run'[p].seen = Loaded(Seen(p)[h.order])
  PROVE  SerialInv'
<1>1. \A q \in Workers : q = p
  BY Alone
<1>2. LockInv'
  BY <1>1 DEF SerialInv, LockInv
<1>3. WindowInv'
  <2>1. run'[p].copy.cursor = account.cursor
    BY DEF SerialInv, WindowInv, InLoop
  <2>2. account.cursor <= run'[p].now /\ run'[p].now <= clock
    BY DEF SerialInv, WindowInv
  <2>3. QED
    BY <1>1, <2>1, <2>2 DEF SerialInv, WindowInv
<1>4. BatchInv'
  <2>1. Seen(p)' = Seen(p)
    BY DEF Seen
  <2>2. QED
    BY <1>1, <2>1 DEF SerialInv, BatchInv
<1>5. RowInv' /\ WholeInv'
  BY <1>1 DEF SerialInv, RowInv, WholeInv
<1>6. CoverInv'
  <2>1. Seen(p)' = Seen(p)
    BY DEF Seen
  <2> SUFFICES ASSUME NEW o \in Orders, 0 < remote[o].at, account.cursor <= remote[o].at,
                      remote[o].at < run[p].now
               PROVE  \/ \E h \in run'[p].batch \cup run'[p].hand :
                            h.order = o /\ h.at = remote[o].at
                      \/ <<o, remote[o].at>> \in run'[p].failed \cup run'[p].out
                      \/ Seen(p)[o] # <<>> /\ Seen(p)[o][1].at = remote[o].at
    BY <1>1, <2>1 DEF CoverInv
  <2>2. \/ \E h \in run[p].batch \cup run[p].hand : h.order = o /\ h.at = remote[o].at
        \/ <<o, remote[o].at>> \in run[p].failed \cup run[p].out
        \/ Seen(p)[o] # <<>> /\ Seen(p)[o][1].at = remote[o].at
    BY DEF SerialInv, CoverInv
  <2>3. CASE \E h \in run[p].batch \cup run[p].hand : h.order = o /\ h.at = remote[o].at
    BY <2>3
  <2>4. QED
    BY <2>2, <2>3
<1>7. OnlyUnfetchedIsLost'
  <2>1. run[p].pc # "stored" /\ run'[p].pc # "stored"
    BY DEF InLoop
  <2>2. \A o \in Orders : Reported(o) => Reported(o)'
    BY <1>1, <2>1 DEF Reported, Workers
  <2>3. \A o \in Orders : Applied(o) => Applied(o)'
    BY DEF Applied
  <2>4. QED
    BY <2>2, <2>3 DEF SerialInv, OnlyUnfetchedIsLost
<1>8. QED
  BY <1>2, <1>3, <1>4, <1>5, <1>6, <1>7 DEF SerialInv

LEMMA RefuseStep ==
  ASSUME OneRunAtATime, SerialInv, TypeOK', NEW p \in Workers, RefuseOrder(p)
  PROVE  SerialInv'
<1>1. TypeOK /\ run[p] \in RunState /\ run \in [Workers -> RunState]
  BY DEF SerialInv, TypeOK
<1>2. run[p].pc = "fetched" /\ run[p].hand = {}
  BY DEF RefuseOrder, SerialInv, BatchInv
<1>3. PICK h \in run[p].batch :
        run' = [run EXCEPT ![p].batch = @ \ {h},
                           ![p].failed = @ \cup {<<h.order, h.at>>}]
  BY DEF RefuseOrder
<1>4. /\ run'[p].pc = "fetched" /\ run'[p].hand = {}
      /\ run'[p].copy = run[p].copy /\ run'[p].now = run[p].now /\ run'[p].out = run[p].out
      /\ run'[p].batch = run[p].batch \ {h}
      /\ run'[p].failed = run[p].failed \cup {<<h.order, h.at>>}
  BY <1>1, <1>2, <1>3 DEF RunState
<1>5. UNCHANGED <<clock, remote, orders, draft, lock, unfetched, account, logs>>
  BY DEF RefuseOrder, world, table
<1>6. InLoop(p) /\ InLoop(p)'
  BY <1>2, <1>4 DEF InLoop
<1>7. QED
  BY <1>2, <1>4, <1>5, <1>6, InsideLoop

LEMMA ReadStep ==
  ASSUME OneRunAtATime, SerialInv, TypeOK', NEW p \in Workers, ReadOrder(p)
  PROVE  SerialInv'
<1>1. TypeOK /\ run[p] \in RunState /\ run \in [Workers -> RunState]
  BY DEF SerialInv, TypeOK
<1>2. run[p].pc = "fetched" /\ run[p].hand = {}
  BY DEF ReadOrder, SerialInv, BatchInv
<1>3. PICK h \in run[p].batch :
        run' = [run EXCEPT ![p].pc = "write", ![p].batch = @ \ {h}, ![p].hand = {h},
                           ![p].seen = Loaded(Seen(p)[h.order])]
  BY DEF ReadOrder
<1>4. /\ run'[p].pc = "write" /\ run'[p].hand = {h}
      /\ run'[p].copy = run[p].copy /\ run'[p].now = run[p].now /\ run'[p].out = run[p].out
      /\ run'[p].batch = run[p].batch \ {h}
      /\ run'[p].failed = run[p].failed
      /\ run'[p].seen = Loaded(Seen(p)[h.order])
  BY <1>1, <1>3 DEF RunState
<1>5. UNCHANGED <<clock, remote, orders, draft, lock, unfetched, account, logs>>
  BY DEF ReadOrder, world, table
<1>6. InLoop(p) /\ InLoop(p)'
  BY <1>2, <1>4 DEF InLoop
<1>7. run'[p].batch \cup run'[p].hand = run[p].batch \cup run[p].hand
  BY <1>2, <1>4
<1>8. QED
  BY <1>4, <1>5, <1>6, <1>7, InsideLoop

\* A page brings changes of the window in the version they have by then.
LEMMA WindowBounds ==
  ASSUME OneRunAtATime, SerialInv, NEW p \in Workers,
         run[p].pc \in {"stamped", "paging"}, NEW c \in Window(p)
  PROVE  /\ c.at = remote[c.order].at
         /\ account.cursor <= c.at /\ c.at <= run[p].now
<1>1. TypeOK
  BY DEF SerialInv
<1>2. run[p].copy.cursor = account.cursor
  BY DEF SerialInv, WindowInv
<1>3. run[p].now \in Times /\ account.cursor \in Times
  BY <1>1 DEF TypeOK, RunState, Account
<1>4. WindowStart(p) \in Int /\ (account.cursor # 0 => WindowStart(p) = account.cursor)
  BY <1>2, <1>3 DEF WindowStart, Times
<1>5. c \in ChangedWithin(WindowStart(p), run[p].now)
  BY Alone DEF Window
<1>6. /\ c.at = remote[c.order].at /\ WindowStart(p) <= c.at
      /\ c.at <= run[p].now /\ c.at > 0
  BY <1>1, <1>3, <1>4, <1>5, ChangedWithinBounds
<1>7. c.at \in Int
  BY <1>1, WindowType DEF Change, Times
<1>8. QED
  BY <1>3, <1>4, <1>6, <1>7 DEF Times

LEMMA PageStep ==
  ASSUME OneRunAtATime, SerialInv, TypeOK', NEW p \in Workers, FirstPage(p) \/ NextPage(p)
  PROVE  SerialInv'
<1>1. TypeOK /\ run[p] \in RunState /\ run \in [Workers -> RunState]
  BY DEF SerialInv, TypeOK
<1>2. /\ run[p].pc \in {"stamped", "paging"} /\ run[p].hand = {}
      /\ run[p].copy.cursor = account.cursor
      /\ account.cursor <= run[p].now /\ run[p].now <= clock
      /\ run[p].pc = "stamped" => run[p].batch = {}
  BY DEF FirstPage, NextPage, SerialInv, BatchInv, WindowInv, InLoop
<1>3. PICK items \in SUBSET Window(p) :
        /\ run'[p].pc = "paging" /\ run'[p].hand = {}
        /\ run'[p].copy = run[p].copy /\ run'[p].now = run[p].now
        /\ run'[p].batch = run[p].batch \cup items
  <2>1. CASE FirstPage(p)
    <3>1. PICK items \in SUBSET Window(p) :
            run' = [run EXCEPT ![p].pc = "paging", ![p].listed = Window(p), ![p].batch = items]
      BY <2>1 DEF FirstPage
    <3>2. run[p].pc = "stamped"
      BY <2>1 DEF FirstPage
    <3>3. /\ run'[p].pc = "paging" /\ run'[p].hand = run[p].hand
          /\ run'[p].copy = run[p].copy /\ run'[p].now = run[p].now
          /\ run'[p].batch = items
      BY <1>1, <3>1 DEF RunState
    <3>4. run'[p].batch = run[p].batch \cup items
      BY <1>2, <3>2, <3>3
    <3>5. QED
      BY <1>2, <3>3, <3>4
  <2>2. CASE NextPage(p)
    <3>1. PICK items \in SUBSET Window(p) : run' = [run EXCEPT ![p].batch = @ \cup items]
      BY <2>2 DEF NextPage
    <3>2. run[p].pc = "paging"
      BY <2>2 DEF NextPage
    <3>3. /\ run'[p].pc = run[p].pc /\ run'[p].hand = run[p].hand
          /\ run'[p].copy = run[p].copy /\ run'[p].now = run[p].now
          /\ run'[p].batch = run[p].batch \cup items
      BY <1>1, <3>1 DEF RunState
    <3>4. QED
      BY <1>2, <3>2, <3>3
  <2>3. QED
    BY <2>1, <2>2
<1>4. \A h \in run'[p].batch :
        /\ account.cursor <= h.at /\ h.at <= run'[p].now
        /\ h.at = remote[h.order].at \/ run'[p].now <= remote[h.order].at
  <2>1. \A h \in run[p].batch :
          /\ account.cursor <= h.at /\ h.at <= run[p].now
          /\ h.at = remote[h.order].at \/ run[p].now <= remote[h.order].at
    BY DEF SerialInv, BatchInv
  <2>2. \A h \in items : /\ h.at = remote[h.order].at
                         /\ account.cursor <= h.at /\ h.at <= run[p].now
    BY <1>2, <1>3, WindowBounds
  <2>3. QED
    BY <1>3, <2>1, <2>2
<1>5. UNCHANGED <<clock, remote, orders, draft, lock, unfetched, account, logs>>
  BY DEF FirstPage, NextPage, world, table
<1>6. ~InLoop(p) /\ ~InLoop(p)' /\ run[p].pc # "stored"
  BY <1>2, <1>3 DEF InLoop
<1>7. /\ run'[p].copy.cursor = account.cursor
      /\ account.cursor <= run'[p].now /\ run'[p].now <= clock
  BY <1>2, <1>3
<1>8. QED
  BY <1>3, <1>4, <1>5, <1>6, <1>7, OutsideLoop

\* As the loop ends, each change of its window is in what the pages brought, or is noted
\* as not brought.
LEMMA FetchStep ==
  ASSUME OneRunAtATime, SerialInv, TypeOK', NEW p \in Workers, FetchPages(p)
  PROVE  SerialInv'
<1>1. TypeOK /\ run[p] \in RunState /\ run \in [Workers -> RunState]
  BY DEF SerialInv, TypeOK
<1>2. /\ run[p].pc \in {"stamped", "paging"} /\ run[p].hand = {}
      /\ run[p].copy.cursor = account.cursor
      /\ account.cursor <= run[p].now /\ run[p].now <= clock
  BY DEF FetchPages, SerialInv, BatchInv, WindowInv
<1>3. /\ run'[p].pc = "fetched" /\ run'[p].hand = {}
      /\ run'[p].copy = run[p].copy /\ run'[p].now = run[p].now
      /\ run'[p].failed = run[p].failed /\ run'[p].batch = run[p].batch
      /\ run'[p].out = NotBrought(p)
  BY <1>1, <1>2 DEF FetchPages, RunState
<1>4. UNCHANGED <<clock, remote, orders, draft, lock, unfetched, account, logs>>
  BY DEF FetchPages, table
<1>5. \A q \in Workers : q = p
  BY Alone
<1>6. lock # p /\ draft = orders
  BY <1>2, Alone DEF SerialInv, LockInv, InLoop
<1>7. LockInv'
  BY <1>4, <1>5, <1>6 DEF LockInv
<1>8. WindowInv'
  BY <1>2, <1>3, <1>4, <1>5 DEF SerialInv, WindowInv
<1>9. BatchInv'
  <2>1. \A h \in run[p].batch :
          /\ account.cursor <= h.at /\ h.at <= run[p].now
          /\ h.at = remote[h.order].at \/ run[p].now <= remote[h.order].at
    BY DEF SerialInv, BatchInv
  <2>2. QED
    BY <1>3, <1>4, <1>5, <2>1 DEF BatchInv, InLoop
<1>10. RowInv' /\ WholeInv'
  BY <1>4, <1>5, <1>6 DEF SerialInv, RowInv, WholeInv
<1>11. CoverInv'
  <2> SUFFICES ASSUME NEW o \in Orders, 0 < remote[o].at, account.cursor <= remote[o].at,
                      remote[o].at < run[p].now
               PROVE  \/ \E h \in run[p].batch : h.order = o /\ h.at = remote[o].at
                      \/ <<o, remote[o].at>> \in NotBrought(p)
    BY <1>3, <1>4, <1>5 DEF CoverInv
  <2>1. /\ run[p].now \in Times /\ account.cursor \in Times /\ remote[o].at \in Times
        /\ WindowStart(p) \in Int
        /\ account.cursor # 0 => WindowStart(p) = account.cursor
    <3>1. run[p].now \in Times /\ account.cursor \in Times /\ remote[o].at \in Times
      BY <1>1 DEF TypeOK, RunState, Account
    <3>2. WindowStart(p) = IF account.cursor = 0 THEN run[p].now - FirstWindow
                                                 ELSE account.cursor
      BY <1>2 DEF WindowStart
    <3>3. QED
      BY <3>1, <3>2 DEF Times
  <2>2. CASE remote[o].at < WindowStart(p)
    <3>1. run[p].copy.cursor = 0
      BY <1>2, <2>1, <2>2 DEF Times
    <3>2. QED
      BY <2>2, <3>1 DEF NotBrought
  <2>3. CASE WindowStart(p) <= remote[o].at
    <3> DEFINE c == [order |-> o, at |-> remote[o].at, ok |-> remote[o].ok]
    <3>1. remote[o].at > 0 /\ remote[o].at \in WindowStart(p) .. run[p].now
      BY <2>1, <2>3 DEF Times
    <3>2. c \in Window(p)
      BY <3>1, Alone DEF Window, ChangedWithin
    <3>3. c.order = o /\ c.at = remote[o].at
      OBVIOUS
    <3> HIDE DEF c
    <3>4. CASE c \in run[p].batch
      BY <3>3, <3>4
    <3>5. CASE c \notin run[p].batch
      BY <3>2, <3>3, <3>5 DEF NotBrought
    <3>6. QED
      BY <3>4, <3>5
  <2>4. QED
    BY <2>1, <2>2, <2>3 DEF Times
<1>12. OnlyUnfetchedIsLost'
  <2>1. \A o \in Orders : Reported(o) => Reported(o)'
    BY <1>2, <1>3, <1>4, <1>5 DEF Reported, Workers
  <2>2. QED
    BY <1>4, <2>1 DEF SerialInv, OnlyUnfetchedIsLost, Applied
<1>13. QED
  BY <1>7, <1>8, <1>9, <1>10, <1>11, <1>12 DEF SerialInv

\* The row written holds the version in hand; a hand that is out of date was
\* overtaken after the window's end, and the next window begins there.
LEMMA WriteStep ==
  ASSUME OneRunAtATime, SerialInv, TypeOK', NEW p \in Workers, WriteOrder(p)
  PROVE  SerialInv'
<1>1. TypeOK /\ run[p] \in RunState /\ run \in [Workers -> RunState]
  BY DEF SerialInv, TypeOK
<1>2. PICK h \in run[p].hand :
        draft' = [draft EXCEPT ![h.order] = Upserted(@, run[p].seen, h.at)]
  BY DEF WriteOrder
<1>3. /\ h \in Change /\ h.order \in Orders /\ h.at \in Times
      /\ run[p].seen = Loaded(draft[h.order])
      /\ account.cursor <= h.at /\ h.at <= run[p].now
      /\ h.at = remote[h.order].at \/ run[p].now <= remote[h.order].at
      /\ Len(draft[h.order]) <= 1
  BY <1>1, <1>2, Alone DEF SerialInv, BatchInv, RowInv, RunState, Change
<1>4. /\ run[p].pc = "write"
      /\ run'[p].pc = "fetched" /\ run'[p].hand = {}
      /\ run'[p].copy = run[p].copy /\ run'[p].now = run[p].now
      /\ run'[p].failed = run[p].failed /\ run'[p].batch = run[p].batch
      /\ run'[p].out = run[p].out
  BY <1>1 DEF WriteOrder, RunState
<1>5. UNCHANGED <<clock, remote, orders, unfetched, account, logs>> /\ lock' = p
  BY DEF WriteOrder, world
<1>6. \A q \in Workers : q = p
  BY Alone
<1>7. /\ Len(draft'[h.order]) = 1 /\ draft'[h.order] # <<>>
      /\ draft'[h.order][1].at = h.at /\ Whole(draft'[h.order][1])
      /\ \A o \in Orders : o # h.order => draft'[o] = draft[o]
  <2>1. draft[h.order] \in Seq(Row)
    BY <1>1, <1>3 DEF TypeOK
  <2> DEFINE u == Upserted(draft[h.order], Loaded(draft[h.order]), h.at)
  <2>2. draft'[h.order] = u
    BY <1>1, <1>2, <1>3 DEF TypeOK
  <2>3. \A o \in Orders : o # h.order => draft'[o] = draft[o]
    BY <1>1, <1>2 DEF TypeOK
  <2>4. Len(u) = 1 /\ u # <<>> /\ u[1].at = h.at /\ Whole(u[1])
    <3> HIDE DEF u
    <3>1. Len(draft[h.order]) <= 1 /\ h.at \in Times
      BY <1>3
    <3>2. QED
      BY <2>1, <3>1, UpsertedFirst DEF u
  <2> HIDE DEF u
  <2>5. QED
    BY <2>2, <2>3, <2>4
<1>8. Seen(p)' = draft' /\ Seen(p) = draft
  BY <1>5, Alone DEF Seen
<1>9. LockInv'
  BY <1>4, <1>5, <1>6, WorkersAssumption DEF LockInv, InLoop
<1>10. WindowInv'
  BY <1>4, <1>5, <1>6 DEF SerialInv, WindowInv, InLoop
<1>11. BatchInv'
  BY <1>4, <1>5, <1>6 DEF SerialInv, BatchInv, InLoop
<1>12. RowInv'
  <2> SUFFICES ASSUME NEW o \in Orders
               PROVE  /\ Len(orders[o]) <= 1 /\ Len(draft'[o]) <= 1
                      /\ orders[o] # <<>> =>
                           /\ orders[o][1].at <= account.cursor
                           /\ draft'[o] # <<>> /\ orders[o][1].at <= draft'[o][1].at
                      /\ draft'[o] # <<>> => draft'[o][1].at <= run[p].now
                      /\ remote[o].at < account.cursor => draft'[o] = orders[o]
    BY <1>4, <1>5, <1>6 DEF RowInv
  <2>1. CASE o = h.order
    <3>1. orders[o] # <<>> => orders[o][1].at \in Times
      <4>1. orders[o] \in Seq(Row)
        BY <1>1 DEF TypeOK
      <4>2. orders[o] # <<>> => orders[o][1] \in Row
        BY <4>1, SingleRow DEF SerialInv, RowInv
      <4>3. QED
        BY <4>2 DEF Row
    <3>2. account.cursor \in Times /\ remote[o].at \in Times /\ run[p].now \in Times
      BY <1>1 DEF TypeOK, Account, RunState
    <3>3. ~(remote[o].at < account.cursor)
      BY <1>3, <2>1, <3>2 DEF Times
    <3>4. orders[o] # <<>> => orders[o][1].at <= account.cursor /\ orders[o][1].at <= h.at
      BY <1>3, <3>1, <3>2 DEF SerialInv, RowInv, Times
    <3>5. Len(orders[o]) <= 1
      BY DEF SerialInv, RowInv
    <3>6. Len(draft'[o]) = 1 /\ draft'[o] # <<>> /\ draft'[o][1].at = h.at
      BY <1>7, <2>1
    <3>7. QED
      BY <1>3, <3>3, <3>4, <3>5, <3>6
  <2>2. CASE o # h.order
    <3>1. draft'[o] = draft[o]
      BY <1>7, <2>2
    <3>2. CASE lock = p
      BY <3>1, <3>2 DEF SerialInv, RowInv
    <3>3. CASE lock # p
      <4>1. draft = orders
        BY <3>3, Alone
      <4>2. orders[o] # <<>> => orders[o][1] \in Row
        BY <1>1, SingleRow DEF TypeOK, SerialInv, RowInv
      <4>3. account.cursor <= run[p].now
        BY <1>4 DEF SerialInv, WindowInv, InLoop
      <4>4. orders[o] # <<>> => orders[o][1].at <= run[p].now
        <5>1. account.cursor \in Times /\ run[p].now \in Times
          BY <1>1 DEF TypeOK, Account, RunState
        <5>2. orders[o] # <<>> => orders[o][1].at \in Times
          BY <4>2 DEF Row
        <5>3. orders[o] # <<>> => orders[o][1].at <= account.cursor
          BY DEF SerialInv, RowInv
        <5>4. QED
          BY <4>3, <5>1, <5>2, <5>3 DEF Times
      <4>5. QED
        BY <3>1, <4>1, <4>4 DEF SerialInv, RowInv
    <3>4. QED
      BY <3>2, <3>3
  <2>3. QED
    BY <2>1, <2>2
<1>a. WholeInv'
  <2> SUFFICES ASSUME NEW o \in Orders
               PROVE  /\ orders[o] # <<>> => Whole(orders[o][1])
                      /\ draft'[o] # <<>> => Whole(draft'[o][1])
    BY <1>5 DEF WholeInv, Whole
  <2>1. orders[o] # <<>> => Whole(orders[o][1])
    BY DEF SerialInv, WholeInv
  <2>2. draft[o] # <<>> => Whole(draft[o][1])
    BY DEF SerialInv, WholeInv
  <2>3. QED
    BY <1>7, <2>1, <2>2
<1>13. CoverInv'
  <2> SUFFICES ASSUME NEW o \in Orders, 0 < remote[o].at, account.cursor <= remote[o].at,
                      remote[o].at < run[p].now
               PROVE  \/ \E x \in run[p].batch : x.order = o /\ x.at = remote[o].at
                      \/ <<o, remote[o].at>> \in run[p].failed \cup run[p].out
                      \/ draft'[o] # <<>> /\ draft'[o][1].at = remote[o].at
    BY <1>4, <1>5, <1>6, <1>8 DEF CoverInv
  <2>1. \/ \E x \in run[p].batch \cup run[p].hand : x.order = o /\ x.at = remote[o].at
        \/ <<o, remote[o].at>> \in run[p].failed \cup run[p].out
        \/ draft[o] # <<>> /\ draft[o][1].at = remote[o].at
    BY <1>4, <1>8 DEF SerialInv, CoverInv, InLoop
  <2>2. CASE o = h.order
    <3>1. run[p].now \in Times /\ remote[o].at \in Times
      BY <1>1 DEF TypeOK, RunState
    <3>2. h.at = remote[o].at
      BY <1>3, <2>2, <3>1 DEF Times
    <3>3. QED
      BY <1>7, <2>2, <3>2
  <2>3. CASE o # h.order
    <3>1. \A x \in run[p].hand : x = h
      BY DEF SerialInv, BatchInv
    <3>2. QED
      BY <1>7, <2>1, <2>3, <3>1
  <2>4. QED
    BY <2>2, <2>3
<1>14. OnlyUnfetchedIsLost'
  <2>1. \A o \in Orders : Reported(o) => Reported(o)'
    BY <1>4, <1>5, <1>6 DEF Reported, Workers
  <2>2. QED
    BY <1>5, <2>1 DEF SerialInv, OnlyUnfetchedIsLost, Applied
<1>15. QED
  BY <1>9, <1>10, <1>11, <1>12, <1>a, <1>13, <1>14 DEF SerialInv

\* The first commit publishes what the loop wrote and moves the cursor to the end
\* of the window: every change before it is held, or among the failures in hand.
LEMMA StoreStep ==
  ASSUME OneRunAtATime, SerialInv, TypeOK', NEW p \in Workers, StoreOrders(p)
  PROVE  SerialInv'
<1>1. TypeOK /\ run[p] \in RunState /\ run \in [Workers -> RunState]
  BY DEF SerialInv, TypeOK
<1>2. /\ run[p].pc = "fetched" /\ run[p].batch = {} /\ run[p].hand = {}
      /\ run[p].now \in Times /\ account.cursor \in Times
      /\ account.cursor <= run[p].now /\ run[p].now <= clock
  BY <1>1 DEF StoreOrders, SerialInv, BatchInv, WindowInv, InLoop, TypeOK, RunState, Account
<1>3. account'.cursor = run[p].now
  BY <1>1, WithStateType DEF StoreOrders, Account
<1>4. /\ run'[p].pc = "stored" /\ run'[p].copy.cursor = run[p].now
      /\ run'[p].batch = {} /\ run'[p].hand = {}
      /\ run'[p].failed = run[p].failed
  BY <1>1, <1>2, <1>3 DEF StoreOrders, RunState
<1>5. /\ UNCHANGED <<clock, remote, logs>>
      /\ orders' = draft /\ draft' = draft /\ lock' = NoOne
      /\ unfetched' = unfetched \cup run[p].out
  BY Alone DEF StoreOrders, Commit, world
<1>6. (\A q \in Workers : q = p) /\ p \in OrderWorkers /\ NoOne \notin Workers
  BY Alone, WorkersAssumption
<1>7. LockInv'
  BY <1>5, <1>6 DEF LockInv
<1>8. WindowInv'
  BY <1>2, <1>3, <1>4, <1>5, <1>6 DEF SerialInv, WindowInv, InLoop
<1>9. BatchInv'
  BY <1>4, <1>6 DEF BatchInv
<1>10. RowInv'
  <2> SUFFICES ASSUME NEW o \in Orders
               PROVE  /\ Len(draft[o]) <= 1
                      /\ draft[o] # <<>> => /\ draft[o][1].at <= run[p].now
                                            /\ draft[o][1].at <= draft[o][1].at
    BY <1>3, <1>5, <1>6 DEF RowInv
  <2>1. Len(draft[o]) <= 1 /\ draft[o] \in Seq(Row)
    BY <1>1 DEF SerialInv, RowInv, TypeOK
  <2>2. draft[o] # <<>> => draft[o][1].at \in Times
    <3>1. draft[o] # <<>> => draft[o][1] \in Row
      BY <2>1, SingleRow
    <3>2. QED
      BY <3>1 DEF Row
  <2>3. draft[o] # <<>> => draft[o][1].at <= run[p].now
    <3>1. CASE lock = p
      BY <3>1 DEF SerialInv, RowInv
    <3>2. CASE lock # p
      <4>1. draft[o] # <<>> => draft[o][1].at <= account.cursor
        BY <3>2, Alone DEF SerialInv, RowInv
      <4>2. QED
        BY <1>2, <2>2, <4>1 DEF Times
    <3>3. QED
      BY <3>1, <3>2
  <2>4. QED
    BY <2>1, <2>2, <2>3 DEF Times
<1>a. WholeInv'
  BY <1>5 DEF SerialInv, WholeInv, Whole
<1>11. CoverInv'
  BY <1>4, <1>6 DEF CoverInv, InLoop
<1>12. OnlyUnfetchedIsLost'
  <2> SUFFICES ASSUME NEW o \in Orders, remote[o].at > 0, remote[o].at < run[p].now
               PROVE  \/ Applied(o)' \/ Reported(o)'
                      \/ <<o, remote[o].at>> \in unfetched \cup run[p].out
    BY <1>3, <1>5 DEF OnlyUnfetchedIsLost
  <2>1. remote[o].at \in Times
    BY <1>1 DEF TypeOK
  <2>2. CASE remote[o].at < account.cursor
    <3>1. Applied(o) \/ Reported(o) \/ <<o, remote[o].at>> \in unfetched
      BY <2>2 DEF SerialInv, OnlyUnfetchedIsLost
    <3>2. Reported(o) => Reported(o)'
      BY <1>2, <1>5, <1>6 DEF Reported, Workers
    <3>3. Applied(o) => Applied(o)'
      BY <2>2, <1>5 DEF Applied, SerialInv, RowInv
    <3>4. QED
      BY <3>1, <3>2, <3>3
  <2>3. CASE account.cursor <= remote[o].at
    <3>1. \/ <<o, remote[o].at>> \in run[p].failed \cup run[p].out
          \/ draft[o] # <<>> /\ draft[o][1].at = remote[o].at
      BY <1>2, <2>3, Alone DEF SerialInv, CoverInv, InLoop, Times
    <3>2. QED
      BY <1>4, <1>5, <1>6, <3>1 DEF Applied, Reported
  <2>4. QED
    BY <1>2, <2>1, <2>2, <2>3 DEF Times
<1>13. QED
  BY <1>7, <1>8, <1>9, <1>10, <1>a, <1>11, <1>12 DEF SerialInv

\* An order that changes during a run changes after the run's window has ended.
LEMMA RemoteStep ==
  ASSUME OneRunAtATime, SerialInv, TypeOK', RemoteChange
  PROVE  SerialInv'
<1>1. TypeOK
  BY DEF SerialInv
<1>2. PICK o \in Orders :
        /\ remote[o].at < clock
        /\ remote' = [remote EXCEPT ![o] = [at |-> clock, ok |-> <<o, clock>> \notin Unsound]]
  BY DEF RemoteChange
<1>3. /\ remote'[o].at = clock
      /\ \A x \in Orders : x # o => remote'[x] = remote[x]
  BY <1>1, <1>2 DEF TypeOK
<1>4. UNCHANGED <<clock, orders, draft, lock, unfetched, account, logs, run>>
  BY DEF RemoteChange, table
<1>5. LockInv'
  BY <1>4 DEF SerialInv, LockInv, InLoop
<1>6. WindowInv'
  <2>1. ASSUME NEW x \in Orders PROVE remote'[x].at <= clock
    <3>1. CASE x = o
      BY <1>1, <1>3, <3>1 DEF TypeOK, Times
    <3>2. CASE x # o
      BY <1>3, <3>2 DEF SerialInv, WindowInv
    <3>3. QED
      BY <3>1, <3>2
  <2>2. QED
    BY <1>4, <2>1 DEF SerialInv, WindowInv, InLoop
<1>7. \A p \in Workers : run[p].pc = "paging" \/ InLoop(p) => run[p].now <= clock
  BY DEF SerialInv, WindowInv
<1>8. BatchInv'
  <2>1. ASSUME NEW p \in Workers, NEW h \in run[p].batch \cup run[p].hand
        PROVE  h.at = remote'[h.order].at \/ run[p].now <= remote'[h.order].at
    <3>1. (run[p].pc = "paging" \/ InLoop(p)) /\ h.order \in Orders
      BY <1>1 DEF SerialInv, BatchInv, InLoop, TypeOK, RunState, Change
    <3>2. CASE h.order = o
      BY <1>3, <1>7, <3>1, <3>2
    <3>3. CASE h.order # o
      BY <1>3, <3>1, <3>3 DEF SerialInv, BatchInv
    <3>4. QED
      BY <3>2, <3>3
  <2>2. QED
    BY <1>4, <2>1 DEF SerialInv, BatchInv, InLoop, Seen
<1>9. account.cursor <= clock /\ clock \in Times /\ account.cursor \in Times
  BY <1>1 DEF SerialInv, WindowInv, TypeOK, Account
<1>a. WholeInv'
  BY <1>4 DEF SerialInv, WholeInv
<1>10. RowInv'
  <2>1. \A x \in Orders : remote'[x].at < account.cursor => remote[x].at < account.cursor
    BY <1>3, <1>9 DEF Times
  <2>2. QED
    BY <1>4, <2>1 DEF SerialInv, RowInv
<1>11. CoverInv'
  <2>1. ASSUME NEW p \in Workers, InLoop(p)
        PROVE  ~(remote'[o].at < run[p].now)
    BY <1>1, <1>3, <1>7, <1>9, <2>1 DEF TypeOK, RunState, Times
  <2>2. QED
    BY <1>3, <1>4, <2>1 DEF SerialInv, CoverInv, InLoop, Seen
<1>12. OnlyUnfetchedIsLost'
  <2>1. ~(remote'[o].at < account.cursor)
    BY <1>3, <1>9 DEF Times
  <2>2. QED
    BY <1>3, <1>4, <2>1 DEF SerialInv, OnlyUnfetchedIsLost, Applied, Reported
<1>13. QED
  BY <1>5, <1>6, <1>8, <1>a, <1>10, <1>11, <1>12 DEF SerialInv

\* The failures a dying run had in hand are in the log row it leaves behind.
LEMMA CrashStep ==
  ASSUME OneRunAtATime, SerialInv, TypeOK', Crash
  PROVE  SerialInv'
<1>1. TypeOK
  BY DEF SerialInv
<1>2. /\ UNCHANGED <<clock, remote, orders, unfetched, account>> /\ draft' = orders /\ lock' = NoOne
      /\ \A p \in Workers : run'[p] = NoRun
      /\ logs' = logs \cup UNION {Orphan(p) : p \in Workers}
  BY DEF Crash
<1>3. LockInv'
  BY <1>2, WorkersAssumption DEF LockInv
<1>4. WindowInv'
  BY <1>2 DEF SerialInv, WindowInv, InLoop, NoRun
<1>5. BatchInv' /\ CoverInv' /\ WholeInv'
  BY <1>2 DEF BatchInv, CoverInv, InLoop, NoRun, SerialInv, WholeInv
<1>6. RowInv'
  <2>1. \A o \in Orders : orders[o] # <<>> => orders[o][1].at \in Times
    <3>1. \A o \in Orders : orders[o] # <<>> => orders[o][1] \in Row
      BY <1>1, SingleRow DEF TypeOK, SerialInv, RowInv
    <3>2. QED
      BY <3>1 DEF Row
  <2>2. \A o \in Orders : orders[o] # <<>> => orders[o][1].at <= orders[o][1].at
    BY <2>1 DEF Times
  <2>3. QED
    BY <1>2, <2>2, WorkersAssumption DEF SerialInv, RowInv
<1>7. OnlyUnfetchedIsLost'
  <2>1. ASSUME NEW o \in Orders, Reported(o)
        PROVE  Reported(o)'
    <3>1. CASE \E l \in logs : l.status # "success" /\ <<o, remote[o].at>> \in l.failed
      BY <1>2, <3>1 DEF Reported
    <3>2. CASE \E p \in OrderWorkers :
                 run[p].pc = "stored" /\ <<o, remote[o].at>> \in run[p].failed
      <4>1. PICK p \in Workers :
              run[p].pc = "stored" /\ <<o, remote[o].at>> \in run[p].failed
        BY <3>2 DEF Workers
      <4>2. Log(p, "running", run[p].failed) \in logs'
        BY <1>2, <4>1 DEF Orphan
      <4>3. QED
        BY <1>2, <4>1, <4>2 DEF Reported, Log
    <3>3. QED
      BY <2>1, <3>1, <3>2 DEF Reported
  <2>2. QED
    BY <1>2, <2>1 DEF SerialInv, OnlyUnfetchedIsLost, Applied
<1>8. QED
  BY <1>2, <1>3, <1>4, <1>5, <1>6, <1>7 DEF SerialInv

\* With one order run at a time no step of the runs or of their environment
\* leaves the invariant; the lock is never contended.
LEMMA SerialNext ==
  ASSUME OneRunAtATime
  PROVE  SerialInv /\ [Next]_vars => SerialInv'
<1> SUFFICES ASSUME SerialInv, [Next]_vars PROVE SerialInv'
  OBVIOUS
<1>1. TypeOK'
  BY NextType DEF SerialInv
<1>2. ASSUME NEW p \in Workers, Run(p) PROVE SerialInv'
  BY <1>1, <1>2, OutsideSteps, PageStep, FetchStep, RefuseStep, ReadStep, WriteStep, StoreStep, Alone
     DEF Run, StoreProducts
<1>3. ASSUME NEW p \in Workers, PlatformFails(p) PROVE SerialInv'
  BY <1>1, <1>3, OutsideSteps
<1>4. ASSUME NEW p \in Workers, LockTimeout(p) PROVE SerialInv'
  BY <1>4, Alone DEF LockTimeout
<1>5. CASE Tick \/ ConnectorChange \/ RateStored \/ UNCHANGED vars
  <2>1. UNCHANGED <<remote, orders, draft, lock, unfetched, account, logs, run>>
    BY <1>5 DEF Tick, ConnectorChange, RateStored, vars, world, table
  <2>2. clock \in Int /\ (clock' = clock \/ clock' = clock + 1)
    BY <1>5 DEF Tick, ConnectorChange, RateStored, vars, world, SerialInv, TypeOK, Times
  <2>3. \A t \in Int : t <= clock => t <= clock'
    BY <2>2
  <2>4. WindowInv'
    <3>1. /\ account.cursor \in Int
          /\ \A o \in Orders : remote[o].at \in Int
          /\ \A p \in Workers : run[p].now \in Int
      BY DEF SerialInv, TypeOK, Account, RunState, Times
    <3>2. QED
      BY <2>1, <2>3, <3>1 DEF SerialInv, WindowInv, InLoop
  <2>5. LockInv' /\ BatchInv' /\ RowInv' /\ WholeInv' /\ CoverInv'
    BY <2>1 DEF SerialInv, LockInv, BatchInv, RowInv, WholeInv, CoverInv, InLoop, Seen
  <2>6. OnlyUnfetchedIsLost'
    BY <2>1 DEF SerialInv, OnlyUnfetchedIsLost, Applied, Reported
  <2>7. QED
    BY <1>1, <2>4, <2>5, <2>6 DEF SerialInv
<1>6. QED
  BY <1>1, <1>2, <1>3, <1>4, <1>5, RemoteStep, CrashStep DEF Next, Environment

LEMMA SerialCorrect ==
  ASSUME OneRunAtATime
  PROVE  Spec => []SerialInv
  BY SerialInit, SerialNext, PTL DEF Spec

\* A platform order older than last_sync_at is held, was reported as failed, or was
\* brought by no page of the run that moved last_sync_at, for any orders, first window,
\* crashes, platform failures, short lists and timing of a single run at a time.
THEOREM SyncLosesOnlyUnfetched ==
  ASSUME OneRunAtATime
  PROVE  Spec => []OnlyUnfetchedIsLost
<1>1. SerialInv => OnlyUnfetchedIsLost
  BY DEF SerialInv
<1>2. QED
  BY <1>1, SerialCorrect, PTL

\* A platform order never gets a second local row from one run at a time.
THEOREM SyncKeepsOneRow ==
  ASSUME OneRunAtATime
  PROVE  Spec => []OneRowPerOrder
<1>1. SerialInv => OneRowPerOrder
  BY DEF SerialInv, RowInv, OneRowPerOrder
<1>2. QED
  BY <1>1, SerialCorrect, PTL

\* What one run at a time commits is never older than what was there.
THEOREM SyncNeverRegresses ==
  ASSUME OneRunAtATime
  PROVE  Spec => NoRegress
<1> DEFINE Forward == \A o \in Orders : orders[o] # <<>> =>
                        orders'[o] # <<>> /\ orders'[o][1].at >= orders[o][1].at
<1>1. SerialInv /\ [Next]_vars => [Forward]_vars
  <2> SUFFICES ASSUME SerialInv, Next, NEW o \in Orders, orders[o] # <<>>
               PROVE  orders'[o] # <<>> /\ orders'[o][1].at >= orders[o][1].at
    OBVIOUS
  <2>1. orders[o][1].at \in Int
    <3>1. orders[o][1] \in Row
      BY SingleRow DEF SerialInv, TypeOK, RowInv
    <3>2. QED
      BY <3>1 DEF Row, Times
  <2>2. draft[o] # <<>> /\ draft[o][1].at \in Int /\ orders[o][1].at <= draft[o][1].at
    <3>1. draft[o] # <<>> /\ orders[o][1].at <= draft[o][1].at
      BY DEF SerialInv, RowInv
    <3>2. draft[o][1] \in Row
      BY <3>1, SingleRow DEF SerialInv, TypeOK, RowInv
    <3>3. QED
      BY <3>1, <3>2 DEF Row, Times
  <2>3. CASE \E p \in Workers : StoreOrders(p)
    <3>1. orders' = draft
      BY <2>3, Alone DEF StoreOrders, Commit
    <3>2. QED
      BY <2>1, <2>2, <3>1
  <2>4. CASE ~ \E p \in Workers : StoreOrders(p)
    <3>1. orders' = orders
      BY <2>4 DEF Next, Environment, Run, LockTimeout, Tick, RemoteChange, ConnectorChange,
                  RateStored, Crash, StartTask, LoadAccount, SkipStore, RecordBlockedSync,
                  OpenLog, StampNow, FirstPage, NextPage, FetchPages, PlatformFails, RefuseOrder, ReadOrder,
                  WriteOrder, CloseLog, StoreProducts, FinishTask, table
    <3>2. QED
      BY <2>1, <3>1
  <2>5. QED
    BY <2>3, <2>4
<1>2. QED
  BY <1>1, SerialCorrect, PTL DEF Spec, NoRegress

-----------------------------------------------------------------------------
(* The status an account shows.                                            *)

\* Every finished status in s is that of a log in L.
HasLog(s, L) ==
  \A t \in {"orders", "products"} :
    s[t] \in Closed => \E l \in L : l.type = t /\ l.status = s[t]

\* Neither the account nor any copy of it claims a status that no log has.
LogsInv ==
  /\ TypeOK /\ HasLog(account.state, logs)
  /\ \A p \in Workers : HasLog(run[p].copy.state, logs)

LEMMA HasLogGrows ==
  ASSUME NEW s, NEW L, NEW M, HasLog(s, L), L \subseteq M
  PROVE  HasLog(s, M)
  BY DEF HasLog

LEMMA NewHasLog == \A L : HasLog(NoRun.copy.state, L)
  BY DEF HasLog, NoRun, NewAccount, Closed

\* Replacing one entry of a copy by a status whose log is written with it.
LEMMA WithStateHasLog ==
  ASSUME LogsInv, NEW p \in Workers, NEW s \in Closed \cup {"running"}, NEW L, logs \subseteq L,
         s \in Closed => \E l \in L : l.type = Type(p) /\ l.status = s
  PROVE  HasLog(WithState(p, s).state, L)
<1>1. HasLog(run[p].copy.state, L)
  BY HasLogGrows DEF LogsInv
<1>2. run[p].copy \in Account
  BY DEF LogsInv, TypeOK, RunState
<1>3. \A t \in {"orders", "products"} :
        WithState(p, s).state[t] = IF t = Type(p) THEN s ELSE run[p].copy.state[t]
  BY <1>2 DEF WithState, Account, SyncState, Type
<1>4. QED
  BY <1>1, <1>3 DEF HasLog

\* A step of one run leaves every other run alone.
LEMMA OtherRuns ==
  ASSUME TypeOK, NEW p \in Workers, Run(p) \/ PlatformFails(p) \/ LockTimeout(p)
  PROVE  \A q \in Workers : q # p => run'[q] = run[q]
<1>1. DOMAIN run = Workers
  BY DEF TypeOK
<1>2. CASE StartTask(p) \/ LoadAccount(p) \/ SkipStore(p) \/ RecordBlockedSync(p) \/ OpenLog(p)
           \/ StampNow(p) \/ FetchPages(p) \/ FinishTask(p) \/ LockTimeout(p)
  BY <1>1, <1>2 DEF StartTask, LoadAccount, SkipStore, RecordBlockedSync, OpenLog, StampNow,
                    FetchPages, FinishTask, LockTimeout, Move
<1>6. CASE FirstPage(p) \/ NextPage(p)
  BY <1>1, <1>6 DEF FirstPage, NextPage
<1>3. CASE RefuseOrder(p) \/ ReadOrder(p) \/ WriteOrder(p) \/ StoreOrders(p)
  BY <1>1, <1>3 DEF RefuseOrder, ReadOrder, WriteOrder, StoreOrders
<1>4. CASE CloseLog(p) \/ StoreProducts(p) \/ PlatformFails(p)
  BY <1>1, <1>4 DEF CloseLog, StoreProducts, PlatformFails, Finish
<1>5. QED
  BY <1>2, <1>3, <1>4, <1>6 DEF Run

LEMMA LogsStep ==
  ASSUME LogsInv, TypeOK', NEW p \in Workers, Run(p) \/ PlatformFails(p) \/ LockTimeout(p),
         logs \subseteq logs', HasLog(account'.state, logs'), HasLog(run'[p].copy.state, logs')
  PROVE  LogsInv'
<1>1. \A q \in Workers : q # p => HasLog(run'[q].copy.state, logs')
  BY OtherRuns, HasLogGrows DEF LogsInv
<1>2. QED
  BY <1>1 DEF LogsInv, HasLog

LEMMA LogsInit == Init => LogsInv
<1> SUFFICES ASSUME Init PROVE LogsInv
  OBVIOUS
<1>1. TypeOK
  BY InitType
<1>2. account.state = NoRun.copy.state /\ \A p \in Workers : run[p] = NoRun
  BY DEF Init, NoRun
<1>3. QED
  BY <1>1, <1>2, NewHasLog DEF LogsInv

\* The end of a run, with the log of the status it leaves.
LEMMA LogsEnd ==
  ASSUME LogsInv, TypeOK', NEW p \in Workers, Run(p) \/ PlatformFails(p) \/ LockTimeout(p),
         NEW s \in Closed, NEW f, logs' = logs \cup {Log(p, s, f)},
         account'.state = WithState(p, s).state,
         run'[p].copy \in {WithState(p, s), NoRun.copy}
  PROVE  LogsInv'
<1>1. Log(p, s, f).type = Type(p) /\ Log(p, s, f).status = s
  BY DEF Log
<1>2. HasLog(WithState(p, s).state, logs')
  BY <1>1, WithStateHasLog
<1>3. HasLog(run'[p].copy.state, logs')
  BY <1>2, NewHasLog
<1>4. QED
  BY <1>2, <1>3, LogsStep

\* A run ends with a copy of the status it leaves, or idle.
LEMMA FinishCopy ==
  ASSUME TypeOK, NEW p \in Workers, NEW s, Finish(p, s)
  PROVE  run'[p].copy \in {WithState(p, s), NoRun.copy}
<1>1. run'[p] = IF p \in Jobs THEN [NoRun EXCEPT !.pc = "closing", !.copy = WithState(p, s)]
                              ELSE NoRun
  BY DEF Finish, TypeOK
<1>2. [NoRun EXCEPT !.pc = "closing", !.copy = WithState(p, s)].copy = WithState(p, s)
  BY DEF NoRun
<1>3. QED
  BY <1>1, <1>2

LEMMA LogsNext == LogsInv /\ [Next]_vars => LogsInv'
<1> SUFFICES ASSUME LogsInv, [Next]_vars PROVE LogsInv'
  OBVIOUS
<1>1. TypeOK
  BY DEF LogsInv
<1>2. TypeOK'
  BY <1>1, NextType
<1>3. "failed" \in Closed
  BY DEF Closed
<1>4. ASSUME NEW p \in Workers,
             \/ StartTask(p) \/ OpenLog(p) \/ StampNow(p)
             \/ FirstPage(p) \/ NextPage(p) \/ FetchPages(p)
             \/ RefuseOrder(p) \/ ReadOrder(p) \/ WriteOrder(p)
      PROVE  LogsInv'
  <2>1. logs' = logs /\ account' = account
    BY <1>4 DEF StartTask, OpenLog, StampNow, FirstPage, NextPage, FetchPages, RefuseOrder,
                ReadOrder, WriteOrder
  <2>2. run[p] \in RunState
    BY <1>1 DEF TypeOK
  <2>3. run'[p].copy = run[p].copy
    <3>1. CASE StampNow(p) \/ FetchPages(p)
      BY <1>1, <2>2, <3>1 DEF StampNow, FetchPages, TypeOK, RunState
    <3>7. CASE FirstPage(p)
      <4>1. PICK items \in SUBSET Window(p) :
              run' = [run EXCEPT ![p].pc = "paging", ![p].listed = Window(p),
                                 ![p].batch = items]
        BY <3>7 DEF FirstPage
      <4>2. QED
        BY <1>1, <2>2, <4>1 DEF TypeOK, RunState
    <3>8. CASE NextPage(p)
      <4>1. PICK items : run' = [run EXCEPT ![p].batch = @ \cup items]
        BY <3>8 DEF NextPage
      <4>2. QED
        BY <1>1, <2>2, <4>1 DEF TypeOK, RunState
    <3>2. CASE RefuseOrder(p)
      <4>1. PICK h \in run[p].batch :
              run' = [run EXCEPT ![p].batch = @ \ {h},
                                 ![p].failed = @ \cup {<<h.order, h.at>>}]
        BY <3>2 DEF RefuseOrder
      <4>2. QED
        BY <1>1, <2>2, <4>1 DEF TypeOK, RunState
    <3>5. CASE WriteOrder(p)
      BY <1>1, <2>2, <3>5 DEF WriteOrder, TypeOK, RunState
    <3>3. CASE StartTask(p) \/ OpenLog(p)
      BY <1>1, <2>2, <3>3 DEF StartTask, OpenLog, Move, TypeOK, RunState
    <3>4. CASE ReadOrder(p)
      <4>1. PICK h \in run[p].batch :
              run' = [run EXCEPT ![p].pc = "write", ![p].batch = @ \ {h}, ![p].hand = {h},
                                 ![p].seen = Loaded(Seen(p)[h.order])]
        BY <3>4 DEF ReadOrder
      <4>2. QED
        BY <1>1, <2>2, <4>1 DEF TypeOK, RunState
    <3>6. QED
      BY <1>4, <3>1, <3>2, <3>3, <3>4, <3>5, <3>7, <3>8
  <2>4. Run(p)
    BY <1>4 DEF Run
  <2>5. QED
    BY <1>2, <2>1, <2>3, <2>4, LogsStep DEF LogsInv
<1>5. ASSUME NEW p \in Workers, LoadAccount(p) PROVE LogsInv'
  <2>1. run'[p].copy = account
    BY <1>1, <1>5 DEF LoadAccount, TypeOK, NoRun
  <2>2. QED
    BY <1>2, <1>5, <2>1, LogsStep DEF LoadAccount, Run, LogsInv
<1>6. ASSUME NEW p \in Workers, SkipStore(p) \/ FinishTask(p) \/ LockTimeout(p) PROVE LogsInv'
  <2>1. run'[p] = NoRun /\ account' = account /\ logs \subseteq logs'
    BY <1>1, <1>6 DEF SkipStore, FinishTask, LockTimeout, TypeOK
  <2>2. HasLog(account'.state, logs')
    BY <2>1, HasLogGrows DEF LogsInv
  <2>3. HasLog(run'[p].copy.state, logs')
    BY <2>1, NewHasLog
  <2>4. QED
    BY <1>2, <1>6, <2>1, <2>2, <2>3, LogsStep DEF Run
<1>7. ASSUME NEW p \in Workers, RecordBlockedSync(p) PROVE LogsInv'
  <2>1. run'[p] = NoRun /\ account'.state = WithState(p, "failed").state
    BY <1>1, <1>7 DEF RecordBlockedSync, TypeOK, Account
  <2>2. QED
    BY <1>2, <1>3, <1>7, <2>1, LogsEnd DEF RecordBlockedSync, Run
<1>8. ASSUME NEW p \in Workers, PlatformFails(p) PROVE LogsInv'
  <2>1. account'.state = WithState(p, "failed").state
    BY <1>1, <1>8 DEF PlatformFails, TypeOK, Account
  <2>2. QED
    BY <1>1, <1>2, <1>3, <1>8, <2>1, LogsEnd, FinishCopy DEF PlatformFails
<1>9. ASSUME NEW p \in Workers, CloseLog(p) PROVE LogsInv'
  <2>1. account'.state = WithState(p, Verdict(p)).state /\ Verdict(p) \in Closed
    BY <1>1, <1>9, LogType DEF CloseLog, TypeOK, Account
  <2>2. QED
    BY <1>1, <1>2, <1>9, <2>1, LogsEnd, FinishCopy DEF CloseLog, Run
<1>10. ASSUME NEW p \in Workers, StoreProducts(p) PROVE LogsInv'
  <2>1. PICK s \in Closed :
          /\ logs' = logs \cup {Log(p, s, {})}
          /\ account' = [WithState(p, s) EXCEPT !.cursor = run[p].now]
          /\ Finish(p, s)
    BY <1>10 DEF StoreProducts
  <2>2. account'.state = WithState(p, s).state
    BY <1>1, <2>1, WithStateType DEF Account
  <2>3. QED
    BY <1>1, <1>2, <1>10, <2>1, <2>2, LogsEnd, FinishCopy DEF Run
<1>11. ASSUME NEW p \in Workers, StoreOrders(p) PROVE LogsInv'
  <2>1. WithState(p, "running") \in Account
    BY <1>1, WithStateType
  <2>2. account'.state = WithState(p, "running").state /\ logs' = logs
    BY <1>11, <2>1 DEF StoreOrders, Account
  <2>3. run'[p].copy = account'
    BY <1>1, <1>11 DEF StoreOrders, TypeOK, RunState
  <2>4. HasLog(WithState(p, "running").state, logs')
    <3>1. "running" \notin Closed
      BY DEF Closed
    <3>2. QED
      BY <2>2, <3>1, WithStateHasLog
  <2>5. QED
    BY <1>2, <1>11, <2>2, <2>3, <2>4, LogsStep DEF Run
<1>12. CASE Tick \/ RemoteChange \/ ConnectorChange \/ RateStored \/ UNCHANGED vars
  <2>1. logs' = logs /\ account' = account /\ run' = run
    BY <1>12 DEF Tick, RemoteChange, ConnectorChange, RateStored, vars
  <2>2. QED
    BY <1>2, <2>1 DEF LogsInv, HasLog
<1>13. CASE Crash
  <2>1. logs \subseteq logs' /\ account' = account /\ \A p \in Workers : run'[p] = NoRun
    BY <1>13 DEF Crash
  <2>2. HasLog(account'.state, logs') /\ \A p \in Workers : HasLog(run'[p].copy.state, logs')
    BY <2>1, HasLogGrows, NewHasLog DEF LogsInv
  <2>3. QED
    BY <1>2, <2>2 DEF LogsInv, HasLog
<1>14. QED
  BY <1>4, <1>5, <1>6, <1>7, <1>8, <1>9, <1>10, <1>11, <1>12, <1>13
     DEF Next, Environment, Run

\* However runs overlap, and whatever stale copies of settings they write back, sync_state
\* never shows a finished status that no SyncLog of that kind has (_write_sync_state).
THEOREM StateIsLogged == Spec => []StateHasLog
<1>1. LogsInv => StateHasLog
  BY DEF LogsInv, HasLog, StateHasLog
<1>2. QED
  BY LogsInit, LogsNext, <1>1, PTL DEF Spec

-----------------------------------------------------------------------------
(* The ledger.                                                             *)

\* A fee entry is of a version with a fee and has an income entry beside it; before a
\* rate is known there is no income entry.
EntriesOf(r) ==
  /\ r.fee # 0 => r.fee \in FeeTimes /\ r.income # 0
  /\ ~rateKnown => r.income = 0

\* An income entry of a row whose last writer saw it as it was has the total of that row.
LedgerRow(r) == EntriesOf(r) /\ (r.income # 0 /\ ~r.stale => r.income = r.total)

LedgerRows(T) == \A o \in Orders : \A i \in 1 .. Len(T[o]) : LedgerRow(T[o][i])

LedgerInv == TypeOK /\ LedgerRows(orders) /\ LedgerRows(draft)

\* The entries get the amounts of the version written; so they fit the row if its total
\* is of that version, and need not fit it after an UPDATE from a stale copy.
LEMMA WithLedgerKeeps ==
  ASSUME NEW row \in Row, NEW at \in Times, EntriesOf(row),
         row.stale \/ row.total = TotalAt[at]
  PROVE  LedgerRow(WithLedger(row, at))
<1> DEFINE r == WithLedger(row, at)
<1>1. /\ r.total = row.total /\ r.stale = row.stale
      /\ r.income = IF rateKnown THEN TotalAt[at] ELSE row.income
      /\ r.fee = IF rateKnown /\ at \in FeeTimes THEN at ELSE row.fee
  BY DEF WithLedger, Row
<1>2. TotalAt[at] # 0
  BY VersionsAssumption
<1> SUFFICES LedgerRow(r)
  OBVIOUS
<1> HIDE DEF r
<1>3. CASE rateKnown
  BY <1>1, <1>2, <1>3 DEF LedgerRow, EntriesOf
<1>4. CASE ~rateKnown
  BY <1>1, <1>4 DEF LedgerRow, EntriesOf
<1>5. QED
  BY <1>3, <1>4

LEMMA NewRowLedger ==
  ASSUME NEW at \in Times
  PROVE  LedgerRow(NewRow(at))
<1> DEFINE r == [at |-> at, total |-> TotalAt[at], income |-> 0, fee |-> 0, stale |-> FALSE]
<1>1. r \in Row /\ r.total = TotalAt[at] /\ r.income = 0 /\ r.fee = 0
  BY VersionsAssumption DEF Row, Times
<1> HIDE DEF r
<1>2. EntriesOf(r)
  BY <1>1 DEF EntriesOf
<1>3. NewRow(at) = WithLedger(r, at)
  BY DEF NewRow, r
<1>4. QED
  BY <1>1, <1>2, <1>3, WithLedgerKeeps

LEMMA UpdatedLedger ==
  ASSUME NEW row \in Row, NEW copy, NEW at \in Times, EntriesOf(row)
  PROVE  LedgerRow(Updated(row, copy, at))
<1> DEFINE r == [row EXCEPT !.at = IF at # copy.at THEN at ELSE @,
                            !.total = IF TotalAt[at] # copy.total THEN TotalAt[at] ELSE @,
                            !.stale = copy # Held(row)]
<1>1. r \in Row
  BY VersionsAssumption DEF Row
<1>2. /\ r.total = IF TotalAt[at] # copy.total THEN TotalAt[at] ELSE row.total
      /\ r.stale = (copy # Held(row))
      /\ r.income = row.income /\ r.fee = row.fee
  BY DEF Row
<1>3. Updated(row, copy, at) = WithLedger(r, at)
  BY DEF Updated
<1> HIDE DEF r
<1>4. EntriesOf(r)
  BY <1>2 DEF EntriesOf
<1>5. r.stale \/ r.total = TotalAt[at]
  <2>1. CASE copy = Held(row)
    BY <1>2, <2>1 DEF Held
  <2>2. CASE copy # Held(row)
    BY <1>2, <2>2
  <2>3. QED
    BY <2>1, <2>2
<1>6. QED
  BY <1>1, <1>3, <1>4, <1>5, WithLedgerKeeps

\* The upsert of an order changes its first row or adds one.
LEMMA UpsertedLedger ==
  ASSUME NEW rows \in Seq(Row), NEW seen, NEW at \in Times,
         \A i \in 1 .. Len(rows) : LedgerRow(rows[i])
  PROVE  \A i \in 1 .. Len(Upserted(rows, seen, at)) : LedgerRow(Upserted(rows, seen, at)[i])
<1>1. CASE seen = <<>>
  <2>1. NewRow(at) \in Row /\ LedgerRow(NewRow(at))
    BY NewRowType, NewRowLedger
  <2>2. Upserted(rows, seen, at) = Append(rows, NewRow(at))
    BY <1>1 DEF Upserted
  <2>3. QED
    BY <2>1, <2>2
<1>2. CASE seen # <<>>
  <2> DEFINE f == [rows EXCEPT ![1] = Updated(rows[1], seen[1], at)]
  <2>1. Upserted(rows, seen, at) = f
    BY <1>2 DEF Upserted
  <2>2. Len(f) = Len(rows)
    BY LenProperties
  <2>3. ASSUME NEW i \in 1 .. Len(rows) PROVE LedgerRow(f[i])
    <3>1. rows[i] \in Row /\ i \in DOMAIN rows /\ LedgerRow(rows[i])
      BY ElementOfSeq
    <3>2. CASE i = 1
      <4>1. f[i] = Updated(rows[1], seen[1], at)
        BY <3>1, <3>2
      <4>2. rows[1] \in Row /\ EntriesOf(rows[1])
        BY <3>1, <3>2 DEF LedgerRow
      <4>3. QED
        BY <4>1, <4>2, UpdatedLedger
    <3>3. CASE i # 1
      BY <3>1, <3>3
    <3>4. QED
      BY <3>2, <3>3
  <2>4. QED
    BY <2>1, <2>2, <2>3
<1>3. QED
  BY <1>1, <1>2

\* A step that leaves the rate alone and whose rows are rows of the table or of the draft.
LEMMA LedgerStays ==
  ASSUME LedgerInv, TypeOK', rateKnown' = rateKnown,
         orders' \in {orders, draft}, draft' \in {orders, draft}
  PROVE  LedgerInv'
<1>1. \A r : LedgerRow(r)' = LedgerRow(r)
  BY DEF LedgerRow, EntriesOf
<1>2. LedgerRows(orders)' /\ LedgerRows(draft)'
  BY <1>1 DEF LedgerInv, LedgerRows
<1>3. QED
  BY <1>2 DEF LedgerInv

LEMMA LedgerInit == Init => LedgerInv
<1> SUFFICES ASSUME Init PROVE LedgerInv
  OBVIOUS
<1>1. \A o \in Orders : orders[o] = <<>> /\ draft[o] = <<>>
  BY DEF Init
<1>2. LedgerRows(orders) /\ LedgerRows(draft)
  BY <1>1 DEF LedgerRows
<1>3. QED
  BY <1>2, InitType DEF LedgerInv

LEMMA LedgerNext == LedgerInv /\ [Next]_vars => LedgerInv'
<1> SUFFICES ASSUME LedgerInv, [Next]_vars PROVE LedgerInv'
  OBVIOUS
<1>1. TypeOK /\ LedgerRows(orders) /\ LedgerRows(draft)
  BY DEF LedgerInv
<1>2. TypeOK'
  BY <1>1, NextType
<1>3. ASSUME NEW p \in Workers, WriteOrder(p) PROVE LedgerInv'
  <2>1. PICK h \in run[p].hand :
          draft' = [draft EXCEPT ![h.order] = Upserted(@, run[p].seen, h.at)]
    BY <1>3 DEF WriteOrder
  <2>2. h.order \in Orders /\ h.at \in Times /\ draft[h.order] \in Seq(Row)
    BY <1>1 DEF TypeOK, RunState, Change
  <2>3. \A i \in 1 .. Len(draft[h.order]) : LedgerRow(draft[h.order][i])
    BY <1>1, <2>2 DEF LedgerRows
  <2> DEFINE rows == Upserted(draft[h.order], run[p].seen, h.at)
  <2>4. \A i \in 1 .. Len(rows) : LedgerRow(rows[i])
    BY <2>2, <2>3, UpsertedLedger
  <2>5. draft' = [draft EXCEPT ![h.order] = rows]
    BY <2>1
  <2> HIDE DEF rows
  <2>6. \A o \in Orders : draft'[o] = IF o = h.order THEN rows ELSE draft[o]
    BY <1>1, <2>5 DEF TypeOK
  <2>7. LedgerRows(draft')
    BY <1>1, <2>4, <2>6 DEF LedgerRows
  <2>8. orders' = orders /\ rateKnown' = rateKnown
    BY <1>3 DEF WriteOrder, world
  <2>9. \A r : LedgerRow(r)' = LedgerRow(r)
    BY <2>8 DEF LedgerRow, EntriesOf
  <2>10. LedgerRows(draft)' /\ LedgerRows(orders)'
    BY <1>1, <2>7, <2>8, <2>9 DEF LedgerRows
  <2>11. QED
    BY <1>2, <2>10 DEF LedgerInv
<1>4. ASSUME NEW p \in Workers, StoreOrders(p) PROVE LedgerInv'
  <2>1. orders' \in {orders, draft} /\ draft' \in {orders, draft} /\ rateKnown' = rateKnown
    BY <1>4 DEF StoreOrders, Commit, Seen, world
  <2>2. QED
    BY <1>2, <2>1, LedgerStays
<1>5. ASSUME NEW p \in Workers,
             \/ StartTask(p) \/ LoadAccount(p) \/ SkipStore(p) \/ RecordBlockedSync(p)
             \/ OpenLog(p) \/ StampNow(p) \/ FirstPage(p) \/ NextPage(p) \/ FetchPages(p)
             \/ RefuseOrder(p) \/ ReadOrder(p)
             \/ CloseLog(p) \/ StoreProducts(p) \/ FinishTask(p)
             \/ PlatformFails(p) \/ LockTimeout(p)
      PROVE  LedgerInv'
  <2>1. orders' = orders /\ draft' = draft /\ rateKnown' = rateKnown
    BY <1>5 DEF StartTask, LoadAccount, SkipStore, RecordBlockedSync, OpenLog, StampNow,
                FirstPage, NextPage, FetchPages, RefuseOrder, ReadOrder, CloseLog,
                StoreProducts, FinishTask, PlatformFails, LockTimeout, world, table
  <2>2. QED
    BY <1>2, <2>1, LedgerStays
<1>6. CASE Tick \/ RemoteChange \/ ConnectorChange \/ UNCHANGED vars
  <2>1. orders' = orders /\ draft' = draft /\ rateKnown' = rateKnown
    BY <1>6 DEF Tick, RemoteChange, ConnectorChange, vars, world, table
  <2>2. QED
    BY <1>2, <2>1, LedgerStays
<1>7. CASE Crash
  <2>1. orders' = orders /\ draft' = orders /\ rateKnown' = rateKnown
    BY <1>7 DEF Crash
  <2>2. QED
    BY <1>2, <2>1, LedgerStays
<1>8. CASE RateStored
  <2>1. orders' = orders /\ draft' = draft /\ rateKnown' = TRUE
    BY <1>8 DEF RateStored, table
  <2>2. \A r : LedgerRow(r) => LedgerRow(r)'
    BY <2>1 DEF LedgerRow, EntriesOf
  <2>3. LedgerRows(orders)' /\ LedgerRows(draft)'
    BY <1>1, <2>1, <2>2 DEF LedgerRows
  <2>4. QED
    BY <1>2, <2>3 DEF LedgerInv
<1>9. QED
  BY <1>3, <1>4, <1>5, <1>6, <1>7, <1>8 DEF Next, Environment, Run

\* However runs overlap and fail, an income entry has the total of the row it belongs to
\* unless that row was last written from a copy another run had changed meanwhile, and a
\* fee entry has an income entry beside it: the entries are looked up after the flush that
\* takes the lock (_sync_order_finance_entries).
THEOREM LedgerCorrect == Spec => []LedgerFollowsOrder
<1>1. LedgerInv => LedgerFollowsOrder
  BY DEF LedgerInv, LedgerRows, LedgerRow, EntriesOf, LedgerFollowsOrder
<1>2. QED
  BY LedgerInit, LedgerNext, <1>1, PTL DEF Spec

\* One run at a time never writes from such a copy: every row has the columns of one
\* version of its order, and its income entry that version's total.
THEOREM LedgerExactInTurn ==
  ASSUME OneRunAtATime
  PROVE  Spec => []LedgerExact
<1>1. SerialInv /\ LedgerInv => LedgerExact
  <2> SUFFICES ASSUME SerialInv, LedgerInv, NEW o \in Orders, NEW i \in 1 .. Len(orders[o])
               PROVE  /\ orders[o][i].total = TotalAt[orders[o][i].at]
                      /\ orders[o][i].income # 0 => orders[o][i].income = orders[o][i].total
    BY DEF LedgerExact
  <2>1. orders[o] \in Seq(Row) /\ Len(orders[o]) <= 1
    BY DEF SerialInv, TypeOK, RowInv
  <2>2. orders[o] # <<>>
    BY <2>1, EmptySeq
  <2>3. i = 1
    BY <2>1, <2>2, SingleRow
  <2>4. Whole(orders[o][1]) /\ LedgerRow(orders[o][i])
    BY <2>2 DEF SerialInv, WholeInv, LedgerInv, LedgerRows
  <2>5. QED
    BY <2>3, <2>4 DEF Whole, LedgerRow
<1>2. QED
  BY <1>1, SerialCorrect, LedgerInit, LedgerNext, PTL DEF Spec

-----------------------------------------------------------------------------
(* Duplicates.                                                             *)

\* The run found no row for the order and has not written it yet.
Holder(p, o) == run[p].seen = <<>> /\ \E h \in run[p].hand : h.order = o

Holders(o) == {p \in OrderWorkers : Holder(p, o)}

\* Every row of an order was inserted by a run that held it, no run inserts it twice in one
\* transaction, and the runs that may still insert it are counted beside its rows.
RowsBounded(o) ==
  /\ Len(orders[o]) <= Len(draft[o]) /\ Len(draft[o]) <= Len(orders[o]) + 1
  /\ \A q \in OrderWorkers : lock = q /\ Len(draft[o]) > Len(orders[o]) => ~Holder(q, o)
  /\ Len(draft[o]) + Cardinality(Holders(o)) <= Cardinality(OrderWorkers)

DuplicateInv ==
  /\ TypeOK
  /\ lock = NoOne => draft = orders
  /\ \A p \in Workers : lock = p => p \in OrderWorkers /\ InLoop(p)
  /\ \A p \in ProductRuns : run[p].batch = {} /\ run[p].hand = {}
  /\ \A o \in Orders : RowsBounded(o)

LEMMA HoldersFinite ==
  /\ Cardinality(OrderWorkers) \in Nat
  /\ \A S \in SUBSET OrderWorkers :
       Cardinality(S) \in Nat /\ Cardinality(S) <= Cardinality(OrderWorkers)
  /\ \A S, T \in SUBSET OrderWorkers : S \subseteq T => Cardinality(S) <= Cardinality(T)
  /\ \A S \in SUBSET OrderWorkers, q \in OrderWorkers :
       q \notin S => Cardinality(S) + 1 <= Cardinality(OrderWorkers)
<1>1. IsFiniteSet(OrderWorkers)
  BY WorkersAssumption
<1>2. \A S \in SUBSET OrderWorkers : IsFiniteSet(S)
  BY <1>1, FS_Subset
<1>3. ASSUME NEW S \in SUBSET OrderWorkers, NEW q \in OrderWorkers, q \notin S
      PROVE  Cardinality(S) + 1 <= Cardinality(OrderWorkers)
  <2>1. Cardinality(S \cup {q}) = Cardinality(S) + 1
    BY <1>2, <1>3, FS_AddElement
  <2>2. Cardinality(S \cup {q}) <= Cardinality(OrderWorkers)
    BY <1>1, FS_Subset
  <2>3. QED
    BY <2>1, <2>2
<1>4. QED
  BY <1>1, <1>2, <1>3, FS_Subset, FS_CardinalityType

LEMMA RowsType ==
  ASSUME TypeOK, NEW o \in Orders
  PROVE  Len(orders[o]) \in Nat /\ Len(draft[o]) \in Nat
  BY LenProperties DEF TypeOK

\* A step that adds no row and no run that may insert one.
LEMMA RowsStay ==
  ASSUME DuplicateInv, TypeOK', NEW o \in Orders, orders' = orders, draft' = draft, lock' = lock,
         \A q \in OrderWorkers : Holder(q, o)' => Holder(q, o)
  PROVE  RowsBounded(o)'
<1>1. Holders(o)' \subseteq Holders(o) /\ Holders(o) \subseteq OrderWorkers
  BY DEF Holders
<1>2. Cardinality(Holders(o)') <= Cardinality(Holders(o))
      /\ Cardinality(Holders(o)') \in Nat /\ Cardinality(Holders(o)) \in Nat
  BY <1>1, HoldersFinite
<1>3. Len(draft[o]) \in Nat /\ RowsBounded(o)
  BY RowsType DEF DuplicateInv
<1>4. Len(draft'[o]) + Cardinality(Holders(o)') <= Cardinality(OrderWorkers)
  BY <1>2, <1>3, HoldersFinite DEF RowsBounded
<1>5. \A q \in OrderWorkers : lock' = q /\ Len(draft'[o]) > Len(orders'[o]) => ~Holder(q, o)'
  BY <1>3 DEF RowsBounded
<1>6. QED
  BY <1>3, <1>4, <1>5 DEF RowsBounded

\* What a step of one run does to its own share of the invariant.
LEMMA DuplicateStays ==
  ASSUME DuplicateInv, TypeOK', NEW p \in Workers, orders' = orders, draft' = draft, lock' = lock,
         \A q \in Workers : q # p => run'[q] = run[q],
         lock = p => InLoop(p)',
         p \in ProductRuns => run'[p].batch = {} /\ run'[p].hand = {},
         run'[p].hand = {} \/ (run'[p].hand = run[p].hand /\ run'[p].seen = run[p].seen)
  PROVE  DuplicateInv'
<1>1. \A q \in Workers : lock' = q => q \in OrderWorkers /\ InLoop(q)'
  BY DEF DuplicateInv, InLoop
<1>2. \A q \in ProductRuns : run'[q].batch = {} /\ run'[q].hand = {}
  BY DEF DuplicateInv, Workers
<1>3. \A o \in Orders : \A q \in OrderWorkers : Holder(q, o)' => Holder(q, o)
  BY DEF Holder, Workers
<1>4. \A o \in Orders : RowsBounded(o)'
  BY <1>3, RowsStay
<1>5. lock' = NoOne => draft' = orders'
  BY DEF DuplicateInv
<1>6. QED
  BY <1>1, <1>2, <1>4, <1>5 DEF DuplicateInv

LEMMA DuplicateInit == Init => DuplicateInv
<1> SUFFICES ASSUME Init PROVE DuplicateInv
  OBVIOUS
<1>1. TypeOK /\ draft = orders /\ lock = NoOne /\ \A p \in Workers : run[p] = NoRun
  BY InitType DEF Init
<1>2. \A p \in Workers : run[p].batch = {} /\ run[p].hand = {}
  BY <1>1 DEF NoRun
<1>3. ASSUME NEW o \in Orders PROVE RowsBounded(o)
  <2>1. Len(orders[o]) = 0 /\ Len(draft[o]) = 0
    BY DEF Init
  <2>2. \A q \in OrderWorkers : ~Holder(q, o)
    BY <1>2 DEF Holder, Workers
  <2>3. Cardinality(Holders(o)) \in Nat /\ Cardinality(Holders(o)) <= Cardinality(OrderWorkers)
    BY HoldersFinite DEF Holders
  <2>4. QED
    BY <2>1, <2>2, <2>3 DEF RowsBounded
<1>4. \A p \in Workers : lock # p
  BY <1>1, WorkersAssumption
<1>5. QED
  BY <1>1, <1>2, <1>3, <1>4 DEF DuplicateInv, Workers

\* A run that finds no row becomes one that may insert it: as long as nobody has inserted
\* it, or the run that has does not hold it any more.
LEMMA DuplicateRead ==
  ASSUME DuplicateInv, TypeOK', NEW p \in Workers, ReadOrder(p)
  PROVE  DuplicateInv'
<1>1. PICK h \in run[p].batch :
        run' = [run EXCEPT ![p].pc = "write", ![p].batch = @ \ {h}, ![p].hand = {h},
                           ![p].seen = Loaded(Seen(p)[h.order])]
  BY DEF ReadOrder
<1>2. TypeOK /\ orders' = orders /\ draft' = draft /\ lock' = lock
  BY DEF ReadOrder, table, DuplicateInv
<1>3. p \in OrderWorkers
  BY DEF DuplicateInv, Workers
<1>4. /\ run'[p].pc = "write" /\ run'[p].hand = {h}
      /\ run'[p].seen = Loaded(Seen(p)[h.order])
  BY <1>1, <1>2 DEF TypeOK, RunState
<1>5. \A q \in Workers : q # p => run'[q] = run[q]
  BY <1>1, <1>2 DEF TypeOK
<1>6. \A q \in Workers : lock' = q => q \in OrderWorkers /\ InLoop(q)'
  BY <1>2, <1>4, <1>5 DEF DuplicateInv, InLoop
<1>7. \A q \in ProductRuns : run'[q].batch = {} /\ run'[q].hand = {}
  BY <1>3, <1>5, WorkersAssumption DEF DuplicateInv, Workers
<1>8. ASSUME NEW o \in Orders PROVE RowsBounded(o)'
  <2>1. RowsBounded(o) /\ Len(orders[o]) \in Nat /\ Len(draft[o]) \in Nat
    BY <1>2, RowsType DEF DuplicateInv
  <2>2. CASE ~Holder(p, o)'
    <3>1. \A q \in OrderWorkers : Holder(q, o)' => Holder(q, o)
      BY <1>5, <2>2 DEF Holder, Workers
    <3>2. QED
      BY <1>2, <3>1, RowsStay
  <2>3. CASE Holder(p, o)'
    <3>1. h.order = o /\ Seen(p)[o] = <<>>
      <4>1. h.order = o /\ Loaded(Seen(p)[o]) = <<>>
        BY <1>4, <2>3 DEF Holder
      <4>2. Seen(p)[o] \in Seq(Row)
        BY <1>2, SeenType
      <4>3. QED
        BY <4>1, <4>2, LoadedType
    <3>2. Holders(o)' \in SUBSET OrderWorkers
      BY DEF Holders
    <3>3. Len(draft[o]) + Cardinality(Holders(o)') <= Cardinality(OrderWorkers)
      <4>1. CASE Len(draft[o]) = 0
        BY <3>2, <4>1, HoldersFinite
      <4>2. CASE Len(draft[o]) # 0
        <5>1. lock # p /\ orders[o] = <<>>
          BY <3>1, <4>2 DEF Seen
        <5>2. Len(orders[o]) = 0 /\ draft # orders
          BY <4>2, <5>1
        <5>3. Len(draft[o]) = 1
          <6>1. Len(draft[o]) <= 0 + 1
            BY <2>1, <5>2 DEF RowsBounded
          <6>2. \A n \in Nat : n # 0 /\ n <= 0 + 1 => n = 1
            OBVIOUS
          <6>3. QED
            BY <2>1, <4>2, <6>1, <6>2
        <5>4. lock \in Workers
          BY <1>2, <5>2 DEF DuplicateInv, TypeOK
        <5>5. lock \in OrderWorkers
          BY <5>4 DEF DuplicateInv
        <5>6. ~Holder(lock, o)
          BY <2>1, <5>2, <5>3, <5>5 DEF RowsBounded
        <5>7. PICK q \in OrderWorkers : q = lock
          BY <5>5
        <5>8. ~Holder(q, o)'
          BY <1>5, <5>1, <5>6, <5>7 DEF Holder, Workers
        <5>9. q \notin Holders(o)'
          BY <5>8 DEF Holders
        <5>10. QED
          BY <3>2, <5>3, <5>9, HoldersFinite
      <4>3. QED
        BY <4>1, <4>2
    <3>4. \A q \in OrderWorkers : lock = q /\ Len(draft[o]) > Len(orders[o]) => ~Holder(q, o)'
      <4> SUFFICES ASSUME NEW q \in OrderWorkers, lock = q, Len(draft[o]) > Len(orders[o])
                   PROVE  ~Holder(q, o)'
        OBVIOUS
      <4>1. q # p
        <5>1. q = p => draft[o] = <<>>
          BY <3>1 DEF Seen
        <5>2. QED
          BY <2>1, <5>1
      <4>2. ~Holder(q, o)
        BY <2>1 DEF RowsBounded
      <4>3. QED
        BY <1>5, <4>1, <4>2 DEF Holder, Workers
    <3>5. QED
      BY <1>2, <2>1, <3>3, <3>4 DEF RowsBounded
  <2>4. QED
    BY <2>2, <2>3
<1>9. QED
  BY <1>2, <1>6, <1>7, <1>8 DEF DuplicateInv

\* The upsert adds a row exactly when none had been found.
LEMMA UpsertedLength ==
  ASSUME NEW rows \in Seq(Row), NEW seen, NEW at \in Times
  PROVE  Len(Upserted(rows, seen, at)) = IF seen = <<>> THEN Len(rows) + 1 ELSE Len(rows)
<1>1. NewRow(at) \in Row
  BY NewRowType
<1>2. QED
  BY <1>1, LenProperties DEF Upserted

LEMMA DuplicateWrite ==
  ASSUME DuplicateInv, TypeOK', NEW p \in Workers, WriteOrder(p)
  PROVE  DuplicateInv'
<1>1. PICK h \in run[p].hand :
        draft' = [draft EXCEPT ![h.order] = Upserted(@, run[p].seen, h.at)]
  BY DEF WriteOrder
<1>2. TypeOK /\ orders' = orders /\ lock' = p /\ lock \in {NoOne, p}
  BY DEF WriteOrder, CanWrite, DuplicateInv
<1>3. p \in OrderWorkers
  BY DEF DuplicateInv, Workers
<1>4. /\ run'[p].pc = "fetched" /\ run'[p].hand = {} /\ run'[p].batch = run[p].batch
      /\ \A q \in Workers : q # p => run'[q] = run[q]
  BY <1>2 DEF WriteOrder, TypeOK, RunState
<1>5. \A q \in Workers : lock' = q => q \in OrderWorkers /\ InLoop(q)'
  BY <1>2, <1>3, <1>4 DEF InLoop
<1>6. \A q \in ProductRuns : run'[q].batch = {} /\ run'[q].hand = {}
  BY <1>3, <1>4, WorkersAssumption DEF DuplicateInv, Workers
<1>7. lock' # NoOne
  BY <1>2, WorkersAssumption
<1>8. h.order \in Orders /\ h.at \in Times
      /\ \A o \in Orders : draft[o] \in Seq(Row)
  BY <1>2 DEF TypeOK, RunState, Change
<1>9. ASSUME NEW o \in Orders PROVE RowsBounded(o)'
  <2>1. RowsBounded(o) /\ Len(orders[o]) \in Nat /\ Len(draft[o]) \in Nat
    BY <1>2, RowsType DEF DuplicateInv
  <2>2. ~Holder(p, o)'
    BY <1>4 DEF Holder
  <2>3. \A q \in OrderWorkers : Holder(q, o)' => Holder(q, o) /\ q # p
    BY <1>4, <2>2 DEF Holder, Workers
  <2>4. Holders(o) \in SUBSET OrderWorkers /\ Holders(o)' \in SUBSET OrderWorkers
        /\ Holders(o)' \subseteq Holders(o)
    BY <2>3 DEF Holders
  <2>5. /\ Cardinality(Holders(o)) \in Nat /\ Cardinality(Holders(o)') \in Nat
        /\ Cardinality(Holders(o)') <= Cardinality(Holders(o))
    BY <2>4, HoldersFinite
  <2>6. CASE h.order = o /\ run[p].seen = <<>>
    <3>1. Holder(p, o)
      BY <2>6 DEF Holder
    <3>2. Len(draft[o]) = Len(orders[o])
      BY <1>2, <1>3, <2>1, <3>1 DEF RowsBounded, DuplicateInv
    <3>3. Len(draft'[o]) = Len(draft[o]) + 1
      BY <1>1, <1>2, <1>8, <2>6, UpsertedLength DEF TypeOK
    <3>4. Cardinality(Holders(o)') + 1 <= Cardinality(Holders(o))
      <4>1. p \in Holders(o) /\ p \notin Holders(o)'
        BY <1>3, <2>2, <3>1 DEF Holders
      <4>2. IsFiniteSet(Holders(o)) /\ IsFiniteSet(Holders(o)')
        BY <2>4, FS_Subset, WorkersAssumption
      <4>3. Cardinality(Holders(o)' \cup {p}) = Cardinality(Holders(o)') + 1
        BY <4>1, <4>2, FS_AddElement
      <4>4. Holders(o)' \cup {p} \subseteq Holders(o)
        BY <2>4, <4>1
      <4>5. Cardinality(Holders(o)' \cup {p}) <= Cardinality(Holders(o))
        BY <4>2, <4>4, FS_Subset
      <4>6. QED
        BY <4>3, <4>5
    <3>5. Len(draft'[o]) + Cardinality(Holders(o)') <= Cardinality(OrderWorkers)
      BY <2>1, <2>5, <3>3, <3>4, HoldersFinite DEF RowsBounded
    <3>6. QED
      BY <1>2, <2>1, <2>2, <3>2, <3>3, <3>5 DEF RowsBounded
  <2>7. CASE ~(h.order = o /\ run[p].seen = <<>>)
    <3>1. Len(draft'[o]) = Len(draft[o])
      <4>1. CASE h.order # o
        BY <1>1, <1>2, <1>8, <4>1 DEF TypeOK
      <4>2. CASE h.order = o /\ run[p].seen # <<>>
        BY <1>1, <1>2, <1>8, <4>2, UpsertedLength DEF TypeOK
      <4>3. QED
        BY <2>7, <4>1, <4>2
    <3>2. Len(draft'[o]) + Cardinality(Holders(o)') <= Cardinality(OrderWorkers)
      BY <2>1, <2>5, <3>1, HoldersFinite DEF RowsBounded
    <3>3. QED
      BY <1>2, <2>1, <2>2, <3>1, <3>2 DEF RowsBounded
  <2>8. QED
    BY <2>6, <2>7
<1>10. QED
  BY <1>5, <1>6, <1>7, <1>9 DEF DuplicateInv

\* A commit publishes what the draft has counted already.
LEMMA DuplicateStore ==
  ASSUME DuplicateInv, TypeOK', NEW p \in Workers, StoreOrders(p)
  PROVE  DuplicateInv'
<1>1. TypeOK /\ lock \in {NoOne, p} /\ p \in OrderWorkers
  BY DEF StoreOrders, CanWrite, DuplicateInv
<1>2. Seen(p) = draft
  BY <1>1 DEF Seen, DuplicateInv
<1>3. orders' = draft /\ draft' = draft /\ lock' = NoOne
  BY <1>2 DEF StoreOrders, Commit
<1>4. /\ run'[p].hand = run[p].hand /\ run'[p].seen = run[p].seen
      /\ \A q \in Workers : q # p => run'[q] = run[q]
  BY <1>1 DEF StoreOrders, TypeOK, RunState
<1>5. \A q \in Workers : lock' # q
  BY <1>3, WorkersAssumption
<1>6. \A q \in ProductRuns : run'[q].batch = {} /\ run'[q].hand = {}
  BY <1>1, <1>4, WorkersAssumption DEF DuplicateInv, Workers
<1>7. ASSUME NEW o \in Orders PROVE RowsBounded(o)'
  <2>1. RowsBounded(o) /\ Len(draft[o]) \in Nat
    BY <1>1, RowsType DEF DuplicateInv
  <2>2. \A q \in OrderWorkers : Holder(q, o)' <=> Holder(q, o)
    BY <1>4 DEF Holder, Workers
  <2>3. Holders(o)' = Holders(o)
    BY <2>2 DEF Holders
  <2>4. QED
    BY <1>3, <2>1, <2>3 DEF RowsBounded
<1>8. QED
  BY <1>3, <1>5, <1>6, <1>7 DEF DuplicateInv

LEMMA DuplicateCrash ==
  ASSUME DuplicateInv, TypeOK', Crash
  PROVE  DuplicateInv'
<1>1. TypeOK /\ orders' = orders /\ draft' = orders /\ lock' = NoOne
      /\ \A p \in Workers : run'[p] = NoRun
  BY DEF Crash, DuplicateInv
<1>2. \A p \in Workers : run'[p].batch = {} /\ run'[p].hand = {}
  BY <1>1 DEF NoRun
<1>3. ASSUME NEW o \in Orders PROVE RowsBounded(o)'
  <2>1. RowsBounded(o) /\ Len(orders[o]) \in Nat /\ Len(draft[o]) \in Nat
    BY <1>1, RowsType DEF DuplicateInv
  <2>2. \A q \in OrderWorkers : ~Holder(q, o)'
    BY <1>2 DEF Holder, Workers
  <2>3. Holders(o) \in SUBSET OrderWorkers /\ Holders(o)' = {}
    BY <2>2 DEF Holders
  <2>4. Cardinality(Holders(o)') = 0 /\ Cardinality(Holders(o)) \in Nat
    BY <2>3, HoldersFinite, FS_EmptySet
  <2>5. Len(orders[o]) + Cardinality(Holders(o)') <= Cardinality(OrderWorkers)
    BY <2>1, <2>4, HoldersFinite DEF RowsBounded
  <2>6. QED
    BY <1>1, <2>1, <2>2, <2>5 DEF RowsBounded
<1>4. \A q \in Workers : lock' # q
  BY <1>1, WorkersAssumption
<1>5. QED
  BY <1>1, <1>2, <1>3, <1>4 DEF DuplicateInv, Workers

LEMMA DuplicateNext == DuplicateInv /\ [Next]_vars => DuplicateInv'
<1> SUFFICES ASSUME DuplicateInv, [Next]_vars PROVE DuplicateInv'
  OBVIOUS
<1>1. TypeOK /\ \A p \in Workers : lock = p => p \in OrderWorkers /\ InLoop(p)
  BY DEF DuplicateInv
<1>2. TypeOK'
  BY <1>1, NextType
<1>3. \A p \in ProductRuns : p \in Workers /\ run[p].batch = {} /\ run[p].hand = {}
  BY DEF DuplicateInv, Workers
\* Outside the loop a run starts over, moves on, or ends.
<1>4. ASSUME NEW p \in Workers, StartTask(p) \/ OpenLog(p) \/ StampNow(p) PROVE DuplicateInv'
  <2>1. orders' = orders /\ draft' = draft /\ lock' = lock /\ lock # p
    BY <1>1, <1>4 DEF StartTask, OpenLog, StampNow, table, InLoop
  <2>2. /\ run'[p].batch = run[p].batch /\ run'[p].hand = run[p].hand
        /\ run'[p].seen = run[p].seen
    BY <1>1, <1>4 DEF StartTask, OpenLog, StampNow, Move, TypeOK, RunState
  <2>3. \A q \in Workers : q # p => run'[q] = run[q]
    BY <1>1, <1>4, OtherRuns DEF Run
  <2>4. QED
    BY <1>2, <1>3, <2>1, <2>2, <2>3, DuplicateStays
<1>5. ASSUME NEW p \in Workers,
             \/ LoadAccount(p) \/ SkipStore(p) \/ RecordBlockedSync(p) \/ CloseLog(p)
             \/ FinishTask(p) \/ StoreProducts(p) \/ PlatformFails(p) \/ LockTimeout(p)
      PROVE  DuplicateInv'
  <2>1. orders' = orders /\ draft' = draft /\ lock' = lock
    BY <1>5 DEF LoadAccount, SkipStore, RecordBlockedSync, CloseLog, FinishTask, StoreProducts,
                PlatformFails, LockTimeout, table
  <2>2. lock # p
    <3>1. CASE LockTimeout(p)
      BY <3>1 DEF LockTimeout, CanWrite
    <3>2. CASE StoreProducts(p)
      BY <1>1, <3>2, WorkersAssumption DEF StoreProducts
    <3>3. CASE LoadAccount(p) \/ SkipStore(p) \/ RecordBlockedSync(p) \/ CloseLog(p)
               \/ FinishTask(p) \/ PlatformFails(p)
      BY <1>1, <3>3 DEF LoadAccount, SkipStore, RecordBlockedSync, CloseLog, FinishTask,
                        PlatformFails, InLoop
    <3>4. QED
      BY <1>5, <3>1, <3>2, <3>3
  <2>3. run'[p].batch = {} /\ run'[p].hand = {}
    <3>1. ASSUME NEW s, Finish(p, s) PROVE run'[p].batch = {} /\ run'[p].hand = {}
      BY <1>1, <3>1 DEF Finish, TypeOK, NoRun
    <3>2. CASE LoadAccount(p)
      BY <1>1, <3>2 DEF LoadAccount, TypeOK, NoRun
    <3>3. CASE SkipStore(p) \/ RecordBlockedSync(p) \/ FinishTask(p) \/ LockTimeout(p)
      BY <1>1, <3>3 DEF SkipStore, RecordBlockedSync, FinishTask, LockTimeout, TypeOK, NoRun
    <3>4. CASE CloseLog(p) \/ StoreProducts(p) \/ PlatformFails(p)
      BY <3>1, <3>4 DEF CloseLog, StoreProducts, PlatformFails
    <3>5. QED
      BY <1>5, <3>2, <3>3, <3>4
  <2>4. \A q \in Workers : q # p => run'[q] = run[q]
    BY <1>1, <1>5, OtherRuns DEF Run
  <2>5. QED
    BY <1>2, <2>1, <2>2, <2>3, <2>4, DuplicateStays
<1>6. ASSUME NEW p \in Workers, FirstPage(p) \/ NextPage(p) \/ FetchPages(p) PROVE DuplicateInv'
  <2>1. orders' = orders /\ draft' = draft /\ lock' = lock /\ lock # p
    BY <1>1, <1>6 DEF FirstPage, NextPage, FetchPages, table, InLoop
  <2>2. /\ run'[p].hand = run[p].hand /\ run'[p].seen = run[p].seen
        /\ p \in ProductRuns => run'[p].batch = {}
    <3>1. CASE FirstPage(p)
      <4>1. PICK items \in SUBSET Window(p) :
              run' = [run EXCEPT ![p].pc = "paging", ![p].listed = Window(p),
                                 ![p].batch = items]
        BY <3>1 DEF FirstPage
      <4>2. run'[p].hand = run[p].hand /\ run'[p].seen = run[p].seen /\ run'[p].batch = items
        BY <1>1, <4>1 DEF TypeOK, RunState
      <4>3. p \in ProductRuns => Window(p) = {}
        BY WorkersAssumption DEF Window
      <4>4. QED
        BY <4>2, <4>3
    <3>2. CASE NextPage(p)
      <4>1. PICK items : run' = [run EXCEPT ![p].batch = @ \cup items]
        BY <3>2 DEF NextPage
      <4>2. run'[p].hand = run[p].hand /\ run'[p].seen = run[p].seen
        BY <1>1, <4>1 DEF TypeOK, RunState
      <4>3. p \notin ProductRuns
        BY <1>3, <3>2 DEF NextPage
      <4>4. QED
        BY <4>2, <4>3
    <3>3. CASE FetchPages(p)
      <4>1. /\ run'[p].hand = run[p].hand /\ run'[p].seen = run[p].seen
            /\ run'[p].batch = run[p].batch
        BY <1>1, <3>3 DEF FetchPages, TypeOK, RunState
      <4>2. QED
        BY <1>3, <4>1
    <3>4. QED
      BY <1>6, <3>1, <3>2, <3>3
  <2>3. \A q \in Workers : q # p => run'[q] = run[q]
    BY <1>1, <1>6, OtherRuns DEF Run
  <2>4. QED
    BY <1>2, <1>3, <2>1, <2>2, <2>3, DuplicateStays
<1>7. ASSUME NEW p \in Workers, RefuseOrder(p) PROVE DuplicateInv'
  <2>1. PICK h \in run[p].batch :
          run' = [run EXCEPT ![p].batch = @ \ {h},
                             ![p].failed = @ \cup {<<h.order, h.at>>}]
    BY <1>7 DEF RefuseOrder
  <2>2. orders' = orders /\ draft' = draft /\ lock' = lock /\ run[p].pc = "fetched"
    BY <1>7 DEF RefuseOrder, table
  <2>3. /\ run'[p].hand = run[p].hand /\ run'[p].seen = run[p].seen
        /\ run'[p].batch \subseteq run[p].batch /\ run'[p].pc = run[p].pc
    BY <1>1, <2>1 DEF TypeOK, RunState
  <2>4. \A q \in Workers : q # p => run'[q] = run[q]
    BY <1>1, <1>7, OtherRuns DEF Run
  <2>5. InLoop(p)' /\ (p \in ProductRuns => run'[p].batch = {} /\ run'[p].hand = {})
    BY <1>3, <2>2, <2>3 DEF InLoop
  <2>6. QED
    BY <1>2, <2>2, <2>3, <2>4, <2>5, DuplicateStays
<1>8. CASE Tick \/ RemoteChange \/ ConnectorChange \/ RateStored \/ UNCHANGED vars
  <2>1. orders' = orders /\ draft' = draft /\ lock' = lock /\ run' = run
    BY <1>8 DEF Tick, RemoteChange, ConnectorChange, RateStored, vars, table
  <2>2. \A o \in Orders : RowsBounded(o)'
    BY <1>2, <2>1, RowsStay DEF Holder
  <2>3. QED
    BY <1>2, <2>1, <2>2 DEF DuplicateInv, InLoop
<1>9. QED
  BY <1>2, <1>4, <1>5, <1>6, <1>7, <1>8, DuplicateRead, DuplicateWrite, DuplicateStore,
     DuplicateCrash DEF Next, Environment, Run

\* An order is inserted at most as often as there are order runs that may overlap: whoever
\* looks after an insert was committed finds it (_upsert_order, no unique key).
THEOREM DuplicatesAreBounded == Spec => []DuplicatesBoundedByRuns
<1>1. DuplicateInv => DuplicatesBoundedByRuns
  <2> SUFFICES ASSUME DuplicateInv, NEW o \in Orders
               PROVE  Len(orders[o]) <= Cardinality(OrderWorkers)
    BY DEF DuplicatesBoundedByRuns
  <2>1. RowsBounded(o) /\ Len(orders[o]) \in Nat /\ Len(draft[o]) \in Nat
    BY RowsType DEF DuplicateInv
  <2>2. Cardinality(Holders(o)) \in Nat
    BY HoldersFinite DEF Holders
  <2>3. QED
    BY <2>1, <2>2, HoldersFinite DEF RowsBounded
<1>2. QED
  BY DuplicateInit, DuplicateNext, <1>1, PTL DEF Spec

-----------------------------------------------------------------------------
(* The page loop of OrderPages: what one page adds is a recursion over its *)
(* items, so the lemmas begin with induction over the naturals, stated for *)
(* a set and derived from the well-foundedness of <.                       *)

USE PagesAssumption

Less == {pair \in Nat \X Nat : pair[1] < pair[2]}

LEMMA LessWellFounded == IsWellFoundedOn(Less, Nat)
BY NatLessThanWellFounded, Zenon DEF OpToRel, Less

\* A set of naturals that is not empty has a least element.
LEMMA LeastNat ==
  ASSUME NEW T \in SUBSET Nat, T # {}
  PROVE  \E m \in T : \A n \in T : m <= n
<1>1. PICK m \in T : \A n \in T : ~ (<<n, m>> \in Less)
  BY LessWellFounded, WFMin
<1>2. ASSUME NEW n \in T PROVE m <= n
  <2>1. n \in Nat /\ m \in Nat /\ ~ (<<n, m>> \in Less)
    BY <1>1
  <2>2. n < m => <<n, m>> \in Less
    BY <2>1 DEF Less
  <2>3. QED
    BY <2>1, <2>2
<1>3. QED
  BY <1>2

\* A set that holds 0, and n + 1 with every n, holds every natural.
LEMMA SetInduction ==
  ASSUME NEW S, 0 \in S, \A n \in Nat : n \in S => n + 1 \in S
  PROVE  Nat \subseteq S
<1> SUFFICES ASSUME Nat \ S # {} PROVE FALSE
  OBVIOUS
<1>1. PICK m \in Nat \ S : \A n \in Nat \ S : m <= n
  BY LeastNat
<1>2. m - 1 \in Nat /\ m - 1 \in S
  BY <1>1
<1>3. QED
  BY <1>1, <1>2

-----------------------------------------------------------------------------
(* What a page adds to the list.                                           *)

\* The list after the first n items of a page.
Taken(items, n, f) ==
  f = [k \in 0 .. n |->
         IF k = 0 THEN collected
         ELSE IF items[k] \in ToSet(f[k - 1]) THEN f[k - 1] ELSE Append(f[k - 1], items[k])]

LEMMA TakenExists ==
  ASSUME NEW items \in Seq(Ids)
  PROVE  \A n \in Nat : \E f : Taken(items, n, f)
<1> DEFINE S == {n \in Nat : \E f : Taken(items, n, f)}
<1>1. 0 \in S
  <2> DEFINE f == [k \in 0 .. 0 |-> collected]
  <2>1. Taken(items, 0, f)
    BY DEF Taken
  <2>2. QED
    BY <2>1
<1>2. ASSUME NEW n \in Nat, n \in S PROVE n + 1 \in S
  <2>1. PICK f : Taken(items, n, f)
    BY <1>2
  <2> DEFINE last == IF items[n + 1] \in ToSet(f[n]) THEN f[n] ELSE Append(f[n], items[n + 1])
             g == [k \in 0 .. n + 1 |-> IF k = n + 1 THEN last ELSE f[k]]
  <2> HIDE DEF last
  <2>2. ASSUME NEW k \in 0 .. n + 1
        PROVE  g[k] = IF k = 0 THEN collected
                      ELSE IF items[k] \in ToSet(g[k - 1]) THEN g[k - 1]
                           ELSE Append(g[k - 1], items[k])
    <3>1. CASE k = n + 1
      <4>1. g[k] = last /\ g[k - 1] = f[n] /\ k # 0
        BY <3>1
      <4>2. QED
        BY <3>1, <4>1 DEF last
    <3>2. CASE k # n + 1
      <4>1. k \in 0 .. n /\ g[k] = f[k] /\ (k # 0 => g[k - 1] = f[k - 1])
        BY <3>2
      <4>2. f[k] = IF k = 0 THEN collected
                   ELSE IF items[k] \in ToSet(f[k - 1]) THEN f[k - 1]
                        ELSE Append(f[k - 1], items[k])
        BY <2>1, <4>1 DEF Taken
      <4>3. QED
        BY <4>1, <4>2
    <3>3. QED
      BY <3>1, <3>2
  <2>3. g = [k \in 0 .. n + 1 |-> g[k]]
    OBVIOUS
  <2> HIDE DEF g
  <2>4. Taken(items, n + 1, g)
    BY <2>2, <2>3 DEF Taken
  <2>5. QED
    BY <2>4
<1> HIDE DEF S
<1>3. Nat \subseteq S
  BY <1>1, <1>2, SetInduction
<1>4. QED
  BY <1>3 DEF S

\* The list of a loop over a page: it is taken from what there was, item by item.
LEMMA UnseenIsTaken ==
  ASSUME NEW items \in Seq(Ids)
  PROVE  \E f : Taken(items, Len(items), f) /\ Unseen(items) = f[Len(items)]
<1> DEFINE f == CHOOSE f : Taken(items, Len(items), f)
<1>1. Len(items) \in Nat
  OBVIOUS
<1>2. Taken(items, Len(items), f)
  BY <1>1, TakenExists
<1>3. Unseen(items) = f[Len(items)]
  BY Zenon DEF Unseen, Taken
<1>4. QED
  BY <1>2, <1>3

Distinct(s) == \A i, j \in DOMAIN s : s[i] = s[j] => i = j

\* An item that is not there yet, at the end.
LEMMA AppendNew ==
  ASSUME NEW s \in Seq(Ids), NEW x \in Ids
  PROVE  /\ Append(s, x) \in Seq(Ids)
         /\ ToSet(Append(s, x)) = ToSet(s) \cup {x}
         /\ Distinct(s) /\ x \notin ToSet(s) => Distinct(Append(s, x))
<1> DEFINE new == Append(s, x)
<1>1. /\ new \in Seq(Ids) /\ Len(new) = Len(s) + 1 /\ Len(s) \in Nat
      /\ DOMAIN s = 1 .. Len(s) /\ DOMAIN new = 1 .. Len(s) + 1
      /\ \A i \in 1 .. Len(s) : new[i] = s[i]
      /\ new[Len(s) + 1] = x
  OBVIOUS
<1> HIDE DEF new
<1>2. ToSet(new) = ToSet(s) \cup {x}
  <2>1. ASSUME NEW i \in DOMAIN new PROVE new[i] \in ToSet(s) \cup {x}
    <3>1. CASE i = Len(s) + 1
      BY <1>1, <3>1
    <3>2. CASE i # Len(s) + 1
      <4>1. i \in DOMAIN s /\ new[i] = s[i]
        BY <1>1, <3>2
      <4>2. QED
        BY <4>1 DEF ToSet
    <3>3. QED
      BY <3>1, <3>2
  <2>2. ASSUME NEW i \in DOMAIN s PROVE s[i] \in ToSet(new)
    <3>1. i \in DOMAIN new /\ new[i] = s[i]
      BY <1>1
    <3>2. QED
      BY <3>1 DEF ToSet
  <2>3. x \in ToSet(new)
    <3>1. Len(s) + 1 \in DOMAIN new
      BY <1>1
    <3>2. QED
      BY <1>1, <3>1 DEF ToSet
  <2>4. QED
    BY <2>1, <2>2, <2>3 DEF ToSet
<1>3. ASSUME Distinct(s), x \notin ToSet(s), NEW i \in DOMAIN new, NEW j \in DOMAIN new,
             new[i] = new[j]
      PROVE  i = j
  <2>1. \A k \in DOMAIN s : s[k] # x
    BY <1>3 DEF ToSet
  <2>2. QED
    BY <1>1, <1>3, <2>1 DEF Distinct
<1>4. QED
  BY <1>1, <1>2, <1>3 DEF new, Distinct

\* What the loop over a page returns: the ids it had and those of the page, once each.
LEMMA UnseenHolds ==
  ASSUME collected \in Seq(Ids), Distinct(collected), NEW items \in Seq(Ids)
  PROVE  /\ Unseen(items) \in Seq(Ids) /\ Distinct(Unseen(items))
         /\ ToSet(Unseen(items)) = ToSet(collected) \cup ToSet(items)
<1>1. PICK f : Taken(items, Len(items), f) /\ Unseen(items) = f[Len(items)]
  BY UnseenIsTaken
<1>2. Len(items) \in Nat /\ DOMAIN items = 1 .. Len(items)
  OBVIOUS
<1> DEFINE Holds(n) == /\ f[n] \in Seq(Ids) /\ Distinct(f[n])
                       /\ ToSet(f[n]) = ToSet(collected) \cup {items[k] : k \in 1 .. n}
           S == {n \in Nat : n <= Len(items) => Holds(n)}
<1>3. 0 \in S
  <2>1. f[0] = collected
    BY <1>1, <1>2 DEF Taken
  <2>2. QED
    BY <2>1
<1>4. ASSUME NEW n \in Nat, n \in S PROVE n + 1 \in S
  <2> SUFFICES ASSUME n + 1 <= Len(items) PROVE Holds(n + 1)
    BY <1>4
  <2>1. /\ Holds(n) /\ items[n + 1] \in Ids
        /\ f[n + 1] = IF items[n + 1] \in ToSet(f[n]) THEN f[n] ELSE Append(f[n], items[n + 1])
    <3>1. n + 1 \in 0 .. Len(items) /\ n + 1 # 0 /\ (n + 1) - 1 = n /\ n + 1 \in DOMAIN items
      BY <1>2
    <3>2. f[n + 1] = IF items[n + 1] \in ToSet(f[(n + 1) - 1]) THEN f[(n + 1) - 1]
                     ELSE Append(f[(n + 1) - 1], items[n + 1])
      BY <1>1, <3>1 DEF Taken
    <3>3. Holds(n) /\ items[n + 1] \in Ids
      BY <1>2, <1>4, <3>1
    <3>4. QED
      BY <3>1, <3>2, <3>3
  <2>2. {items[k] : k \in 1 .. n + 1} = {items[k] : k \in 1 .. n} \cup {items[n + 1]}
    OBVIOUS
  <2>3. CASE items[n + 1] \in ToSet(f[n])
    BY <2>1, <2>2, <2>3
  <2>4. CASE items[n + 1] \notin ToSet(f[n])
    BY <2>1, <2>2, <2>4, AppendNew
  <2>5. QED
    BY <2>3, <2>4
<1>5. Holds(Len(items))
  <2> HIDE DEF Holds
  <2>1. Nat \subseteq S
    <3> HIDE DEF S
    <3>1. QED
      BY <1>3, <1>4, SetInduction
  <2>2. QED
    BY <1>2, <2>1
<1>6. ToSet(items) = {items[k] : k \in 1 .. Len(items)}
  BY <1>2 DEF ToSet
<1>7. QED
  BY <1>1, <1>5, <1>6

-----------------------------------------------------------------------------
(* The pages of the list.                                                  *)

\* Page n begins where page n - 1 ends.
LEMMA PageBounds ==
  ASSUME NEW n \in Nat \ {0}
  PROVE  /\ (n - 1) * PageSize \in Nat /\ n * PageSize \in Nat
         /\ n * PageSize = (n - 1) * PageSize + PageSize
OBVIOUS

\* The part of a sequence after place a up to place b.
LEMMA Part ==
  ASSUME NEW s \in Seq(Ids), NEW a \in Nat, NEW b \in Nat, b <= Len(s)
  PROVE  LET part == SubSeq(s, a + 1, b) IN
         /\ part \in Seq(Ids)
         /\ Len(part) = IF a + 1 <= b THEN b - a ELSE 0
         /\ \A k \in 1 .. Len(part) : part[k] = s[a + k]
<1>1. CASE a + 1 <= b
  <2>1. a + 1 \in 1 .. Len(s) /\ b \in 1 .. Len(s)
    BY <1>1
  <2>2. SubSeq(s, a + 1, b) \in Seq(Ids) /\ Len(SubSeq(s, a + 1, b)) = b - a
    BY <1>1, <2>1
  <2>3. ASSUME NEW k \in 1 .. b - a PROVE SubSeq(s, a + 1, b)[k] = s[a + k]
    BY <1>1, <2>1
  <2>4. QED
    BY <1>1, <2>2, <2>3
<1>2. CASE b < a + 1
  BY <1>2
<1>3. QED
  BY <1>1, <1>2

\* A page holds the orders listed at its places, and no other; it is empty only beyond
\* the end of the list.
LEMMA SliceHolds ==
  ASSUME listing \in Seq(Ids), NEW n \in Nat \ {0}
  PROVE  /\ Slice(n) \in Seq(Ids) /\ ToSet(Slice(n)) \subseteq ToSet(listing)
         /\ \A i \in DOMAIN listing : (n - 1) * PageSize < i /\ i <= n * PageSize =>
              listing[i] \in ToSet(Slice(n))
         /\ Slice(n) = <<>> => Len(listing) <= (n - 1) * PageSize
<1> DEFINE a == (n - 1) * PageSize  c == n * PageSize
           b == IF c <= Len(listing) THEN c ELSE Len(listing)
           slice == SubSeq(listing, a + 1, b)
<1>1. a \in Nat /\ c \in Nat /\ a < c
  BY PageBounds
<1> HIDE DEF a, c
<1>2. /\ Len(listing) \in Nat
      /\ \A i \in Nat : 1 <= i /\ i <= Len(listing) => i \in DOMAIN listing
      /\ \A i \in DOMAIN listing : i \in Nat /\ 1 <= i /\ i <= Len(listing)
  OBVIOUS
<1>3. b \in Nat /\ b <= Len(listing) /\ (b = c \/ b = Len(listing))
  BY <1>1, <1>2
<1> HIDE DEF b
<1>4. /\ slice \in Seq(Ids)
      /\ Len(slice) = IF a + 1 <= b THEN b - a ELSE 0
      /\ \A k \in 1 .. Len(slice) : slice[k] = listing[a + k]
  BY <1>1, <1>3, Part
<1>5. Slice(n) = slice
  BY DEF Slice, a, b, c
<1> HIDE DEF slice
<1>6. DOMAIN slice = 1 .. Len(slice) /\ Len(slice) \in Nat /\ Len(<<>>) = 0
  BY <1>4
<1>7. ToSet(slice) \subseteq ToSet(listing)
  <2> SUFFICES ASSUME NEW k \in DOMAIN slice PROVE slice[k] \in ToSet(listing)
    BY DEF ToSet
  <2>1. slice[k] = listing[a + k] /\ k \in 1 .. Len(slice)
    BY <1>4, <1>6
  <2>2. k \in Nat /\ 1 <= k /\ a + k <= b
    BY <1>1, <1>3, <1>4, <1>6, <2>1
  <2>3. a + k \in DOMAIN listing
    BY <1>1, <1>2, <1>3, <2>2
  <2>4. QED
    BY <2>1, <2>3 DEF ToSet
<1>8. ASSUME NEW i \in DOMAIN listing, a < i, i <= c
      PROVE  listing[i] \in ToSet(slice)
  <2>1. i \in Nat /\ i <= b
    BY <1>1, <1>2, <1>3, <1>8
  <2>2. i - a \in 1 .. Len(slice) /\ a + (i - a) = i
    BY <1>1, <1>3, <1>4, <1>8, <2>1
  <2>3. slice[i - a] = listing[i] /\ i - a \in DOMAIN slice
    BY <1>4, <1>6, <2>2
  <2>4. QED
    BY <2>3 DEF ToSet
<1>9. slice = <<>> => Len(listing) <= a
  BY <1>1, <1>2, <1>3, <1>4, <1>6
<1>10. QED
  BY <1>4, <1>5, <1>7, <1>8, <1>9 DEF a, c

\* A list of distinct orders of the window that is no shorter than the window holds all.
LEMMA HoldsAll ==
  ASSUME NEW s \in Seq(Ids), Distinct(s), NEW t \in Seq(Ids),
         ToSet(s) \subseteq ToSet(t), Len(s) >= Len(t), NEW x \in ToSet(t)
  PROVE  x \in ToSet(s)
<1> SUFFICES ASSUME x \notin ToSet(s) PROVE FALSE
  OBVIOUS
<1>1. /\ Len(s) \in Nat /\ DOMAIN s = 1 .. Len(s)
      /\ Len(t) \in Nat /\ DOMAIN t = 1 .. Len(t)
  OBVIOUS
<1>2. PICK at \in DOMAIN t : t[at] = x
  BY DEF ToSet
<1> DEFINE place == [k \in DOMAIN s |-> CHOOSE j \in DOMAIN t : t[j] = s[k]]
<1>3. ASSUME NEW k \in DOMAIN s
      PROVE  place[k] \in (DOMAIN t) \ {at} /\ t[place[k]] = s[k]
  <2>1. s[k] \in ToSet(t) /\ s[k] # x
    BY DEF ToSet
  <2>2. \E j \in DOMAIN t : t[j] = s[k]
    BY <2>1 DEF ToSet
  <2>3. QED
    BY <1>2, <2>1, <2>2
<1> HIDE DEF place
<1>4. IsFiniteSet(DOMAIN t) /\ Cardinality(DOMAIN t) = Len(t)
  <2>1. IsFiniteSet(1 .. Len(t)) /\ Cardinality(1 .. Len(t)) = IF 1 > Len(t) THEN 0 ELSE Len(t) - 1 + 1
    BY <1>1, FS_Interval
  <2>2. QED
    BY <1>1, <2>1
<1>5. /\ IsFiniteSet((DOMAIN t) \ {at})
      /\ Cardinality((DOMAIN t) \ {at}) = Cardinality(DOMAIN t) - 1
  BY <1>2, <1>4, FS_RemoveElement
<1>6. IsFiniteSet(DOMAIN s) /\ Cardinality(DOMAIN s) = Len(s)
  <2>1. IsFiniteSet(1 .. Len(s)) /\ Cardinality(1 .. Len(s)) = IF 1 > Len(s) THEN 0 ELSE Len(s) - 1 + 1
    BY <1>1, FS_Interval
  <2>2. QED
    BY <1>1, <2>1
<1>7. place \in [DOMAIN s -> (DOMAIN t) \ {at}]
  BY <1>3 DEF place
<1>8. PICK i, j \in DOMAIN s : i # j /\ place[i] = place[j]
  <2>1. Cardinality((DOMAIN t) \ {at}) < Cardinality(DOMAIN s)
    BY <1>1, <1>4, <1>5, <1>6
  <2>2. QED
    BY <1>5, <1>6, <1>7, <2>1, FS_PigeonHole
<1>9. QED
  BY <1>3, <1>8 DEF Distinct

-----------------------------------------------------------------------------
(* The invariant.                                                          *)

\* As long as the platform was undisturbed, the list began with the orders it had at
\* the first request, what is collected is listed, and every order on a page before
\* the one in hand is collected.
Undisturbed ==
  /\ Len(first) <= Len(listing) /\ \A i \in DOMAIN first : first[i] = listing[i]
  /\ ToSet(collected) \subseteq ToSet(listing)
  /\ pc = "paging" => \A i \in DOMAIN first :
       i <= (page - 1) * PageSize => first[i] \in ToSet(collected)

PagesInv ==
  /\ PagesTypeOK /\ Distinct(collected)
  /\ ~disturbed => Undisturbed
  /\ AllListedReturned

LEMMA PagesStart == PagesInit => PagesInv
<1> SUFFICES ASSUME PagesInit PROVE PagesInv
  OBVIOUS
<1>1. listing \in Seq(Ids)
  <2>1. PICK S \in SUBSET Ids : listing \in SetToSeqs(S)
    BY DEF PagesInit, SetToAllKPermutations
  <2>2. Cardinality(S) \in Nat
    BY FS_Subset, FS_CardinalityType
  <2>3. listing \in [1 .. Cardinality(S) -> S]
    BY <2>1 DEF SetToSeqs
  <2>4. QED
    BY <2>2, <2>3
<1>2. first = listing /\ collected = <<>> /\ page = 1 /\ pc = "paging" /\ disturbed = FALSE
  BY DEF PagesInit
<1>3. collected \in Seq(Ids) /\ ToSet(collected) = {} /\ Distinct(collected)
  BY <1>2 DEF ToSet, Distinct
<1>4. PagesTypeOK
  <2>1. page \in 1 .. MaxPages + 1
    BY <1>2
  <2>2. reportsTotal \in BOOLEAN
    BY DEF PagesInit
  <2>3. QED
    BY <1>1, <1>2, <1>3, <2>1, <2>2 DEF PagesTypeOK
<1>5. Undisturbed
  <2>1. \A i \in DOMAIN first : ~(i <= (page - 1) * PageSize)
    BY <1>1, <1>2
  <2>2. QED
    BY <1>1, <1>2, <1>3, <2>1 DEF Undisturbed
<1>6. QED
  BY <1>2, <1>3, <1>4, <1>5 DEF PagesInv, AllListedReturned

\* A page taken brings the orders at its places; the loop goes on, or the total is reached.
LEMMA PagesTake ==
  ASSUME PagesInv, pc = "paging", page <= MaxPages, NEW items \in Seq(Ids), Take(items),
         disturbed' = (disturbed \/ items # Slice(page)), UNCHANGED platform
  PROVE  PagesInv'
<1>1. /\ PagesTypeOK /\ Distinct(collected) /\ page \in Nat \ {0} /\ listing \in Seq(Ids)
      /\ listing' = listing /\ first' = first /\ reportsTotal' = reportsTotal
      /\ collected' = Unseen(items)
  BY DEF PagesInv, PagesTypeOK, Take, platform
<1>2. /\ collected' \in Seq(Ids) /\ Distinct(collected')
      /\ ToSet(collected') = ToSet(collected) \cup ToSet(items)
  BY <1>1, UnseenHolds DEF PagesTypeOK
<1>3. \/ pc' = "done" /\ page' = page /\ Len(collected') >= Len(listing)
      \/ pc' = "paging" /\ page' = page + 1
  BY <1>1 DEF Take, Complete
<1>4. PagesTypeOK'
  <2>1. page' \in 1 .. MaxPages + 1 /\ pc' \in {"paging", "done"}
    BY <1>3 DEF PagesInv, PagesTypeOK
  <2>2. disturbed' \in BOOLEAN
    OBVIOUS
  <2>3. QED
    BY <1>1, <1>2, <2>1, <2>2 DEF PagesTypeOK
<1>5. ASSUME ~disturbed' PROVE Undisturbed' /\ AllListedReturned'
  <2>1. Undisturbed /\ items = Slice(page)
    BY <1>5 DEF PagesInv
  <2>2. ToSet(collected') \subseteq ToSet(listing')
    BY <1>1, <1>2, <2>1, SliceHolds DEF Undisturbed
  <2>3. /\ first \in Seq(Ids) /\ Len(first) \in Nat /\ Len(listing) \in Nat
        /\ \A i \in DOMAIN first : i \in Nat /\ i \in DOMAIN listing
    <3>1. first \in Seq(Ids)
      BY <1>1 DEF PagesTypeOK
    <3>2. Len(first) <= Len(listing)
      BY <2>1 DEF Undisturbed
    <3>3. QED
      BY <1>1, <3>1, <3>2
  <2>4. ASSUME pc' = "paging", NEW i \in DOMAIN first, i <= (page' - 1) * PageSize
        PROVE  first[i] \in ToSet(collected')
    <3>1. page' - 1 = page
      BY <1>1, <1>3, <2>4
    <3>2. i <= page * PageSize
      BY <2>4, <3>1
    <3>3. CASE i <= (page - 1) * PageSize
      BY <1>2, <2>1, <3>3 DEF Undisturbed
    <3>4. CASE (page - 1) * PageSize < i
      BY <1>1, <1>2, <2>1, <2>3, <3>2, <3>4, SliceHolds DEF Undisturbed
    <3>5. (page - 1) * PageSize \in Nat /\ i \in Nat
      BY <1>1, <2>3, PageBounds
    <3>6. QED
      BY <3>3, <3>4, <3>5
  <2>5. ASSUME pc' = "done", NEW i \in DOMAIN first PROVE first[i] \in ToSet(collected')
    <3>1. Len(collected') >= Len(listing)
      BY <1>3, <2>5
    <3>2. first[i] \in ToSet(listing)
      BY <2>1, <2>3 DEF ToSet, Undisturbed
    <3>3. QED
      BY <1>1, <1>2, <2>2, <3>1, <3>2, HoldsAll
  <2>6. Undisturbed'
    BY <1>1, <2>1, <2>2, <2>4 DEF Undisturbed
  <2>7. AllListedReturned'
    BY <1>1, <2>5 DEF AllListedReturned
  <2>8. QED
    BY <2>6, <2>7
<1>6. QED
  BY <1>2, <1>4, <1>5 DEF PagesInv, AllListedReturned

\* The loop stops at an empty page, or at the limit of pages.
LEMMA PagesStop ==
  ASSUME PagesInv, pc = "paging", pc' = "done", UNCHANGED <<platform, page, collected>>,
         \/ page <= MaxPages /\ disturbed' = (disturbed \/ <<>> # Slice(page))
         \/ page > MaxPages /\ disturbed' = disturbed
  PROVE  PagesInv'
<1>1. /\ PagesTypeOK /\ Distinct(collected) /\ page \in Nat \ {0} /\ listing \in Seq(Ids)
      /\ listing' = listing /\ first' = first /\ reportsTotal' = reportsTotal
      /\ collected' = collected /\ page' = page /\ MaxPages \in Nat /\ page <= MaxPages + 1
  BY DEF PagesInv, PagesTypeOK, platform
<1>2. PagesTypeOK'
  BY <1>1 DEF PagesTypeOK
<1>3. ASSUME ~disturbed' PROVE Undisturbed' /\ AllListedReturned'
  <2>1. Undisturbed
    BY <1>3 DEF PagesInv
  <2>2. ASSUME NEW i \in DOMAIN first, i <= MaxPages * PageSize
        PROVE  first[i] \in ToSet(collected)
    <3>1. i <= (page - 1) * PageSize
      <4>1. CASE page <= MaxPages
        <5>1. ~(page > MaxPages)
          BY <1>1, <4>1
        <5>2. Slice(page) = <<>>
          BY <1>3, <5>1, Zenon
        <5>3. Len(listing) <= (page - 1) * PageSize
          BY <1>1, <5>2, SliceHolds
        <5>4. i \in Nat /\ i <= Len(first) /\ Len(first) \in Nat /\ Len(listing) \in Nat
          BY <1>1, <2>2 DEF PagesTypeOK
        <5>5. Len(first) <= Len(listing)
          BY <2>1 DEF Undisturbed
        <5>6. (page - 1) * PageSize \in Nat
          BY <1>1, PageBounds
        <5>7. QED
          BY <5>3, <5>4, <5>5, <5>6
      <4>2. CASE page > MaxPages
        <5>1. page - 1 = MaxPages
          BY <1>1, <4>2
        <5>2. QED
          BY <2>2, <5>1
      <4>3. QED
        BY <1>1, <4>1, <4>2
    <3>2. QED
      BY <2>1, <3>1 DEF Undisturbed
  <2>3. QED
    BY <1>1, <2>1, <2>2 DEF Undisturbed, AllListedReturned
<1>4. QED
  BY <1>1, <1>2, <1>3 DEF PagesInv, AllListedReturned

LEMMA PagesFetch ==
  ASSUME PagesInv, FetchPage PROVE PagesInv'
<1>1. PICK items \in {Slice(page), <<>>, Slice(1)} :
        /\ disturbed' = (disturbed \/ items # Slice(page))
        /\ \/ items = <<>> /\ pc' = "done" /\ UNCHANGED <<page, collected>>
           \/ items # <<>> /\ Take(items)
  BY DEF FetchPage
<1>2. pc = "paging" /\ page <= MaxPages /\ UNCHANGED platform
  BY DEF FetchPage
<1>3. listing \in Seq(Ids) /\ page \in Nat \ {0} /\ 1 \in Nat \ {0}
  BY DEF PagesInv, PagesTypeOK
<1>4. items \in Seq(Ids)
  <2>1. Slice(page) \in Seq(Ids) /\ Slice(1) \in Seq(Ids) /\ <<>> \in Seq(Ids)
    BY <1>3, SliceHolds
  <2>2. QED
    BY <1>1, <2>1, Zenon
<1>5. CASE items = <<>> /\ pc' = "done" /\ UNCHANGED <<page, collected>>
  BY <1>1, <1>2, <1>5, PagesStop
<1>6. CASE Take(items)
  BY <1>1, <1>2, <1>4, <1>6, PagesTake
<1>7. QED
  BY <1>1, <1>5, <1>6

\* The list grows at its end.
LEMMA PagesAdded ==
  ASSUME PagesInv, OrderAdded PROVE PagesInv'
<1>1. PICK o \in Ids : listing' = Append(listing, o)
  BY DEF OrderAdded
<1>2. /\ pc = "paging" /\ first' = first /\ reportsTotal' = reportsTotal
      /\ disturbed' = disturbed /\ page' = page /\ collected' = collected /\ pc' = pc
  BY DEF OrderAdded
<1>3. PagesTypeOK /\ listing \in Seq(Ids) /\ Len(listing) \in Nat /\ first \in Seq(Ids)
  BY DEF PagesInv, PagesTypeOK
<1>4. /\ listing' \in Seq(Ids) /\ ToSet(listing) \subseteq ToSet(listing')
      /\ Len(listing') = Len(listing) + 1
      /\ \A i \in 1 .. Len(listing) : listing'[i] = listing[i]
  BY <1>1, <1>3, AppendNew
<1>5. PagesTypeOK'
  BY <1>2, <1>3, <1>4 DEF PagesTypeOK
<1>6. ASSUME Undisturbed PROVE Undisturbed'
  <2>1. \A i \in DOMAIN first : i \in 1 .. Len(listing)
    <3>1. Len(first) <= Len(listing) /\ Len(first) \in Nat
      BY <1>3, <1>6 DEF Undisturbed
    <3>2. QED
      BY <1>3, <3>1
  <2>2. Len(first) \in Nat
    BY <1>3
  <2>3. QED
    BY <1>2, <1>3, <1>4, <1>6, <2>1, <2>2 DEF Undisturbed
<1>7. QED
  BY <1>2, <1>5, <1>6 DEF PagesInv, AllListedReturned

\* An order leaves: nothing more is promised.
LEMMA PagesLeaves ==
  ASSUME PagesInv, OrderLeaves PROVE PagesInv'
<1>1. PICK i \in DOMAIN listing : listing' = RemoveAt(listing, i)
  BY DEF OrderLeaves
<1>2. /\ disturbed' = TRUE /\ first' = first /\ reportsTotal' = reportsTotal
      /\ page' = page /\ collected' = collected /\ pc' = pc
  BY DEF OrderLeaves
<1>3. PagesTypeOK /\ listing \in Seq(Ids)
  BY DEF PagesInv, PagesTypeOK
<1>4. listing' \in Seq(Ids)
  <2>1. i \in Nat \ {0} /\ i <= Len(listing) /\ Len(listing) \in Nat
    BY <1>1, <1>3
  <2>2. SubSeq(listing, 1, i - 1) \in Seq(Ids) /\ SubSeq(listing, i + 1, Len(listing)) \in Seq(Ids)
    BY <1>3, <2>1, Part
  <2>3. QED
    BY <1>1, <2>2 DEF RemoveAt
<1>5. PagesTypeOK'
  BY <1>2, <1>3, <1>4 DEF PagesTypeOK
<1>6. QED
  BY <1>2, <1>5 DEF PagesInv, AllListedReturned

LEMMA PagesStep == PagesInv /\ [PagesNext]_pageVars => PagesInv'
<1> SUFFICES ASSUME PagesInv, [PagesNext]_pageVars PROVE PagesInv'
  OBVIOUS
<1>1. CASE FetchPage
  BY <1>1, PagesFetch
<1>2. CASE PageLimit
  BY <1>2, PagesStop DEF PageLimit
<1>3. CASE OrderAdded
  BY <1>3, PagesAdded
<1>4. CASE OrderLeaves
  BY <1>4, PagesLeaves
<1>5. CASE UNCHANGED pageVars
  BY <1>5 DEF pageVars, platform, PagesInv, PagesTypeOK, Undisturbed, AllListedReturned
<1>6. QED
  BY <1>1, <1>2, <1>3, <1>4, <1>5 DEF PagesNext, Returned

\* Every variable keeps its type: a page number never exceeds the limit by more than one.
THEOREM PagesTypeCorrect == PagesSpec => []PagesTypeOK
<1>1. PagesInv => PagesTypeOK
  BY DEF PagesInv
<1>2. QED
  BY <1>1, PagesStart, PagesStep, PTL DEF PagesSpec

\* The list returned holds no order twice, whatever pages the platform answers
\* (seen_ids in _fetch_order_pages).
THEOREM ReturnsNoOrderTwice == PagesSpec => []NoOrderTwice
<1>1. PagesInv => NoOrderTwice
  BY DEF PagesInv, Distinct, NoOrderTwice
<1>2. QED
  BY <1>1, PagesStart, PagesStep, PTL DEF PagesSpec

\* If no order left the list and every page was the one requested, everything listed
\* at the first request and within the page limit is returned, although the list may
\* grow and the loop may stop at a total (_fetch_order_pages).
THEOREM ReturnsAllListed == PagesSpec => []AllListedReturned
<1>1. PagesInv => AllListedReturned
  BY DEF PagesInv
<1>2. QED
  BY <1>1, PagesStart, PagesStep, PTL DEF PagesSpec
===============================================================================
