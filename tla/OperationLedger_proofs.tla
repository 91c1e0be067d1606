------------------------ MODULE OperationLedger_proofs ------------------------
(* Proofs about OperationLedger.                                              *)
EXTENDS OperationLedger, SequenceTheorems, TLAPS

(* ------------------------------------------------------------------------- *)
(* The ledger operators.                                                      *)

\* Rows of both tables, one at a time.
LEMMA EntryType1 ==
  /\ NoEntry \in Entry
  /\ \A x \in Entry : [x EXCEPT !.live = FALSE] \in Entry
  /\ \A i \in Nat : \A x : x.type \in Types /\ x.actual \in Amounts => Posting(i, x) \in Entry
<1>1. NoEntry \in Entry
  BY LedgerAssumption DEF NoEntry, Entry
<1>2. ASSUME NEW x \in Entry PROVE [x EXCEPT !.live = FALSE] \in Entry
  BY DEF Entry
<1>3. ASSUME NEW i \in Nat, NEW x, x.type \in Types, x.actual \in Amounts
      PROVE  Posting(i, x) \in Entry
  BY <1>3 DEF Posting, Entry
<1> QED BY <1>1, <1>2, <1>3

LEMMA RecordType1 ==
  /\ \A x \in Record : [x EXCEPT !.live = FALSE] \in Record
  /\ \A x \in Record, n \in Nat : [x EXCEPT !.entry = n] \in Record
  /\ \A t \in Types, a \in Amounts, n \in Nat :
       [type |-> t, actual |-> a, entry |-> n, live |-> TRUE] \in Record
  /\ \A x \in Record : x.type \in Types /\ x.actual \in Amounts /\ x.entry \in Nat
BY DEF Record

\* What _sync_ledger makes of a well-typed ledger is one, and only grows.
LEMMA SyncedType ==
  ASSUME ledger \in Seq(Entry), NEW i \in Nat, NEW row, row.type \in Types,
         row.actual \in Amounts, NEW e \in 0 .. Len(ledger)
  PROVE  /\ Dropped(e) \in Seq(Entry) /\ Len(Dropped(e)) = Len(ledger)
         /\ Posting(i, row) \in Entry
         /\ Found(e) \in Entry
         /\ Synced(i, row, e) \in Seq(Entry)
         /\ Len(Synced(i, row, e)) \in {Len(ledger), Len(ledger) + 1}
         /\ EntryAfter(row, e) \in 0 .. Len(Synced(i, row, e))
<1>1. Posting(i, row) \in Entry
  BY EntryType1
<1>2. Found(e) \in Entry
  BY EntryType1 DEF Found
<1>3. Dropped(e) \in Seq(Entry) /\ Len(Dropped(e)) = Len(ledger)
  <2>1. CASE e = 0
    BY <2>1 DEF Dropped
  <2>2. CASE e # 0
    <3>1. [ledger[e] EXCEPT !.live = FALSE] \in Entry
      <4>1. ledger[e] \in Entry
        BY <2>2
      <4> QED BY <4>1, EntryType1
    <3> QED BY <3>1, <2>2 DEF Dropped
  <2> QED BY <2>1, <2>2
<1>4. /\ Synced(i, row, e) \in Seq(Entry)
      /\ Len(Synced(i, row, e)) \in {Len(ledger), Len(ledger) + 1}
      /\ EntryAfter(row, e) \in 0 .. Len(Synced(i, row, e))
  <2>1. CASE ~Posts(row)
    BY <2>1, <1>3 DEF Synced, EntryAfter
  <2>2. CASE Posts(row) /\ Found(e).live
    <3>1. e # 0
      BY <2>2 DEF Found, NoEntry
    <3> QED BY <2>2, <3>1, <1>1 DEF Synced, EntryAfter
  <2>3. CASE Posts(row) /\ ~Found(e).live
    BY <2>3, <1>1 DEF Synced, EntryAfter
  <2> QED BY <2>1, <2>2, <2>3
<1> QED BY <1>1, <1>2, <1>3, <1>4

\* A flushed row is well typed.
LEMMA FlushedType ==
  ASSUME NEW n \in Nat,
         NEW current \in Record, NEW loaded \in Record, NEW new \in Record,
         current.entry \in 0 .. n, new.entry \in 0 .. n
  PROVE  /\ Flushed(current, loaded, new) \in Record
         /\ Flushed(current, loaded, new).entry \in 0 .. n
         /\ Flushed(current, loaded, new).live = current.live
BY DEF Flushed, Record

(* ------------------------------------------------------------------------- *)
(* Types.                                                                     *)

\* What the variables are, without req: the part every request reads.
Rows == /\ records \in Seq(Record) /\ ledger \in Seq(Entry)
        /\ \A i \in DOMAIN records : records[i].entry \in 0 .. Len(ledger)

\* The requests of a behaviour do not change.
LEMMA ServedStays == [Next]_vars => Served' = Served
BY DEF Next, CreateRecord, ReadRecord, UpdateRecord, ReadForResend, ResendEntry, ResendRecord,
       DeleteRecord, Abandon, End, Quiet, vars, Served

\* A request that is being served has read a record there is.
LEMMA Reading ==
  ASSUME TypeOK, NEW r \in Served, req[r].pc # "idle"
  PROVE  /\ req[r].record \in DOMAIN records /\ req[r].record \in Nat
         /\ req[r].copy \in Record /\ req[r].copy.entry \in 0 .. Len(ledger)
         /\ req[r].pc = "resend" => req[r].seen \in Entry
<1>1. req[r] \in Request
  BY DEF TypeOK
<1> QED BY <1>1 DEF TypeOK, Request

\* A step that ends a request keeps the types when it keeps those of the rows.
LEMMA EndType ==
  ASSUME TypeOK, NEW r \in Served, End(r), Rows', UNCHANGED begun,
         Len(records') >= Len(records), Len(ledger') >= Len(ledger)
  PROVE  TypeOK'
<1>0. Served' = Served
  BY DEF End, Served
<1>1. req' \in [Served -> Request]
  BY DEF End, Idle, TypeOK, Request
<1>2. ASSUME NEW q \in Served, req'[q].pc # "idle"
      PROVE  req'[q].record \in DOMAIN records' /\ req'[q].copy.entry \in 0 .. Len(ledger')
  <2>1. req'[q] = req[q]
    BY <1>2 DEF End, Idle, TypeOK
  <2> QED BY <2>1, <1>2 DEF TypeOK, Rows
<1> QED BY <1>0, <1>1, <1>2 DEF TypeOK, Rows

LEMMA TypeStep == TypeOK /\ [Next]_vars => TypeOK'
<1> SUFFICES ASSUME TypeOK, [Next]_vars PROVE TypeOK'
  OBVIOUS
<1>0. Served' = Served
  BY ServedStays
<1>1. ASSUME NEW r \in Served, CreateRecord(r) PROVE TypeOK'
  <2>1. PICK t \in Types, a \in Amounts :
          LET row == [type |-> t, actual |-> a, entry |-> 0, live |-> TRUE] IN
            /\ records' = Append(records, [row EXCEPT !.entry = EntryAfter(row, 0)])
            /\ ledger' = Synced(Len(records) + 1, row, 0)
    BY <1>1 DEF CreateRecord
  <2> DEFINE row == [type |-> t, actual |-> a, entry |-> 0, live |-> TRUE]
             new == [row EXCEPT !.entry = EntryAfter(row, 0)]
  <2>2. /\ ledger' \in Seq(Entry) /\ Len(ledger') \in {Len(ledger), Len(ledger) + 1}
        /\ EntryAfter(row, 0) \in 0 .. Len(ledger')
    BY <2>1, SyncedType, 0 \in 0 .. Len(ledger), Len(records) + 1 \in Nat DEF TypeOK
  <2>3. new \in Record /\ new.entry \in 0 .. Len(ledger')
    <3>1. row \in Record
      BY RecordType1
    <3>2. new.entry = EntryAfter(row, 0)
      OBVIOUS
    <3> QED BY <2>2, <3>1, <3>2, RecordType1 DEF TypeOK
  <2>4. records' \in Seq(Record) /\ \A i \in DOMAIN records' : records'[i].entry \in 0 .. Len(ledger')
    BY <2>1, <2>2, <2>3 DEF TypeOK
  <2>5. Len(records') = Len(records) + 1
    BY <2>1 DEF TypeOK
  <2>6. \A q \in Served : req[q].pc # "idle" =>
          req[q].record \in DOMAIN records' /\ req[q].copy.entry \in 0 .. Len(ledger')
    BY <2>2, <2>4, <2>5 DEF TypeOK
  <2>7. begun' \in 0 .. MaxBegun /\ req' = req
    BY <1>1, LedgerAssumption DEF TypeOK, CreateRecord
  <2> QED BY <1>0, <2>2, <2>4, <2>6, <2>7 DEF TypeOK
<1>2. ASSUME NEW r \in Served, ReadRecord(r) PROVE TypeOK'
  <2>1. PICK i \in DOMAIN records, what \in {"update", "delete"} :
          req' = [req EXCEPT ![r] = [pc |-> what, record |-> i, copy |-> records[i]]]
    BY <1>2 DEF ReadRecord
  <2>2. req' \in [Served -> Request]
    BY <2>1 DEF TypeOK, Request
  <2>3. \A q \in Served : req'[q].pc # "idle" =>
          req'[q].record \in DOMAIN records /\ req'[q].copy.entry \in 0 .. Len(ledger)
    BY <2>1 DEF TypeOK
  <2> QED BY <1>0, <1>2, <2>2, <2>3, LedgerAssumption DEF TypeOK, ReadRecord
<1>3. ASSUME NEW r \in Served, UpdateRecord(r) PROVE TypeOK'
  <2> DEFINE i == req[r].record  copy == req[r].copy
  <2>0. i \in DOMAIN records /\ i \in Nat /\ copy \in Record /\ copy.entry \in 0 .. Len(ledger)
    BY <1>3, Reading DEF UpdateRecord
  <2>1. PICK t \in Types, a \in Amounts :
          LET row == [type |-> t, actual |-> a, entry |-> copy.entry, live |-> TRUE] IN
            /\ ledger' = Synced(i, row, copy.entry)
            /\ records' = [records EXCEPT ![i] =
                 Flushed(@, copy, [row EXCEPT !.entry = EntryAfter(row, copy.entry)])]
    BY <1>3 DEF UpdateRecord
  <2> DEFINE row == [type |-> t, actual |-> a, entry |-> copy.entry, live |-> TRUE]
             new == [row EXCEPT !.entry = EntryAfter(row, copy.entry)]
  <2>2. /\ ledger' \in Seq(Entry) /\ Len(ledger') \in {Len(ledger), Len(ledger) + 1}
        /\ EntryAfter(row, copy.entry) \in 0 .. Len(ledger')
    BY <2>0, <2>1, SyncedType DEF TypeOK
  <2>3. new \in Record /\ new.entry \in 0 .. Len(ledger')
    <3>1. row \in Record
      BY <2>0, RecordType1
    <3>2. EntryAfter(row, copy.entry) \in Nat
      BY <2>2
    <3>3. new.entry = EntryAfter(row, copy.entry)
      OBVIOUS
    <3> HIDE DEF row
    <3> QED BY <2>2, <3>1, <3>2, <3>3, RecordType1 DEF TypeOK
  <2>4. /\ records[i] \in Record /\ Len(ledger') \in Nat
        /\ records[i].entry \in 0 .. Len(ledger')
    BY <2>0, <2>2 DEF TypeOK
  <2>5. /\ Flushed(records[i], copy, new) \in Record
        /\ Flushed(records[i], copy, new).entry \in 0 .. Len(ledger')
    BY <2>0, <2>3, <2>4, FlushedType
  <2>6. Rows' /\ Len(records') = Len(records)
    <3> DEFINE flushed == Flushed(records[i], copy, new)
    <3>1. records' = [records EXCEPT ![i] = flushed]
      BY <2>1
    <3>2. flushed \in Record /\ flushed.entry \in 0 .. Len(ledger')
      BY <2>5
    <3> HIDE DEF flushed
    <3> QED BY <2>0, <2>2, <3>1, <3>2 DEF TypeOK, Rows
  <2>7. End(r) /\ UNCHANGED begun
    BY <1>3 DEF UpdateRecord
  <2>8. Len(records') >= Len(records) /\ Len(ledger') >= Len(ledger)
    BY <2>2, <2>6 DEF TypeOK
  <2> QED BY <2>6, <2>7, <2>8, EndType
<1>4. ASSUME NEW r \in Served, ReadForResend(r) PROVE TypeOK'
  <2>1. /\ req[r].record \in DOMAIN records /\ req[r].copy \in Record
        /\ req[r].copy.entry \in 0 .. Len(ledger)
    BY <1>4, Reading DEF ReadForResend
  <2>2. Found(req[r].copy.entry) \in Entry
    BY <2>1, EntryType1 DEF TypeOK, Found
  <2>3. [pc |-> "resend", record |-> req[r].record, copy |-> req[r].copy,
         seen |-> Found(req[r].copy.entry)] \in Request
    BY <2>1, <2>2 DEF Request, TypeOK
  <2>4. req' \in [Served -> Request]
    BY <1>4, <2>3 DEF ReadForResend, TypeOK
  <2>5. \A q \in Served : req'[q].pc # "idle" =>
          req'[q].record \in DOMAIN records /\ req'[q].copy.entry \in 0 .. Len(ledger)
    BY <1>4, <2>1 DEF ReadForResend, TypeOK
  <2> QED BY <1>0, <1>4, <2>4, <2>5 DEF TypeOK, ReadForResend
<1>5. ASSUME NEW r \in Served, ResendEntry(r) PROVE TypeOK'
  <2> DEFINE e == req[r].copy.entry  seen == req[r].seen
             new == Posting(req[r].record, req[r].copy)
             merged == [new EXCEPT !.type = IF new.type = seen.type THEN ledger[e].type ELSE new.type,
                                   !.amount = IF new.amount = seen.amount THEN ledger[e].amount
                                                                          ELSE new.amount]
  <2>1. /\ req[r].record \in Nat /\ req[r].copy \in Record /\ e \in 0 .. Len(ledger)
    BY <1>5, Reading DEF ResendEntry
  <2>2. e # 0
    BY <1>5 DEF ResendEntry, Found, NoEntry
  <2>3. ledger' = [ledger EXCEPT ![e] = merged] /\ UNCHANGED <<records, begun>> /\ End(r)
    BY <1>5 DEF ResendEntry
  <2>4. merged \in Entry
    <3>1. new \in Entry
      BY <2>1, EntryType1, RecordType1
    <3>2. ledger[e] \in Entry
      BY <2>1, <2>2 DEF TypeOK
    <3> HIDE DEF new
    <3> QED BY <3>1, <3>2 DEF Entry
  <2>5. ledger' \in Seq(Entry) /\ Len(ledger') = Len(ledger)
    <3> HIDE DEF merged
    <3> HIDE DEF e
    <3> QED BY <2>1, <2>2, <2>3, <2>4 DEF TypeOK
  <2>6. Rows'
    BY <2>3, <2>5 DEF Rows, TypeOK
  <2> HIDE DEF e, seen, new, merged
  <2>7. End(r) /\ UNCHANGED begun
    BY <2>3
  <2>8. Len(records') >= Len(records) /\ Len(ledger') >= Len(ledger)
    BY <2>3, <2>5 DEF TypeOK
  <2> QED BY <2>6, <2>7, <2>8, EndType
<1>6. ASSUME NEW r \in Served, ResendRecord(r) PROVE TypeOK'
  <2> DEFINE i == req[r].record  copy == req[r].copy
  <2>1. i \in DOMAIN records /\ i \in Nat /\ copy \in Record /\ copy.entry \in 0 .. Len(ledger)
    BY <1>6, Reading DEF ResendRecord
  <2>2. /\ ledger' \in Seq(Entry) /\ Len(ledger') \in {Len(ledger), Len(ledger) + 1}
        /\ Posts(copy) => Len(ledger') = Len(ledger) + 1
    <3>1. CASE Posts(copy)
      <4>1. Posting(i, copy) \in Entry
        BY <2>1, EntryType1, RecordType1
      <4> QED BY <1>6, <3>1, <4>1 DEF ResendRecord, TypeOK
    <3>2. CASE ~Posts(copy)
      <4>1. ledger' = Dropped(copy.entry)
        BY <1>6, <3>2 DEF ResendRecord
      <4> QED BY <2>1, <3>2, <4>1, SyncedType, RecordType1 DEF TypeOK
    <3> QED BY <3>1, <3>2
  <2> DEFINE n == IF Posts(copy) THEN Len(ledger) + 1 ELSE 0
             new == [records[i] EXCEPT !.entry = n]
  <2>3. new \in Record /\ new.entry \in 0 .. Len(ledger')
    <3>1. records[i] \in Record /\ n \in Nat /\ n \in 0 .. Len(ledger')
      BY <2>1, <2>2 DEF TypeOK
    <3>2. new.entry = n
      BY <3>1 DEF Record
    <3> HIDE DEF n
    <3> QED BY <3>1, <3>2, RecordType1
  <2>4. records' = [records EXCEPT ![i] = new]
    BY <1>6 DEF ResendRecord
  <2>5. Rows' /\ Len(records') = Len(records)
    <3> HIDE DEF new
    <3> QED BY <2>1, <2>2, <2>3, <2>4 DEF Rows, TypeOK
  <2>6. End(r) /\ UNCHANGED begun
    BY <1>6 DEF ResendRecord
  <2>7. Len(records') >= Len(records) /\ Len(ledger') >= Len(ledger)
    BY <2>2, <2>5 DEF TypeOK
  <2> QED BY <2>5, <2>6, <2>7, EndType
<1>7. ASSUME NEW r \in Served, DeleteRecord(r) PROVE TypeOK'
  <2> DEFINE i == req[r].record  copy == req[r].copy
  <2>1. i \in DOMAIN records /\ i \in Nat /\ copy \in Record /\ copy.entry \in 0 .. Len(ledger)
    BY <1>7, Reading DEF DeleteRecord
  <2>2. ledger' \in Seq(Entry) /\ Len(ledger') = Len(ledger)
    BY <1>7, <2>1, SyncedType, RecordType1 DEF DeleteRecord, TypeOK
  <2> DEFINE new == [records[i] EXCEPT !.live = FALSE]
  <2>3. new \in Record /\ new.entry \in 0 .. Len(ledger')
    <3>1. records[i] \in Record /\ records[i].entry \in 0 .. Len(ledger')
      BY <2>1, <2>2 DEF TypeOK
    <3>2. new.entry = records[i].entry
      BY <3>1 DEF Record
    <3> QED BY <3>1, <3>2, RecordType1
  <2>4. records' = [records EXCEPT ![i] = new]
    BY <1>7 DEF DeleteRecord
  <2>5. Rows' /\ Len(records') = Len(records)
    <3> HIDE DEF new
    <3> QED BY <2>1, <2>2, <2>3, <2>4 DEF Rows, TypeOK
  <2>6. End(r) /\ UNCHANGED begun
    BY <1>7 DEF DeleteRecord
  <2>7. Len(records') >= Len(records) /\ Len(ledger') >= Len(ledger)
    BY <2>2, <2>5 DEF TypeOK
  <2> QED BY <2>5, <2>6, <2>7, EndType
<1>8. ASSUME NEW r \in Served, Abandon(r) PROVE TypeOK'
  BY <1>8, EndType DEF Abandon, Rows, TypeOK
<1>9. CASE Quiet \/ UNCHANGED vars
  BY <1>0, <1>9 DEF Quiet, vars, TypeOK
<1> QED BY <1>1, <1>2, <1>3, <1>4, <1>5, <1>6, <1>7, <1>8, <1>9 DEF Next

LEMMA InitIdle ==
  Init => /\ Served \subseteq Requests /\ req \in [Served -> {Idle}]
          /\ records = <<>> /\ ledger = <<>> /\ begun = 0
          /\ \A r \in Served : req[r].pc = "idle"
<1> SUFFICES ASSUME Init PROVE /\ Served \subseteq Requests /\ req \in [Served -> {Idle}]
                              /\ \A r \in Served : req[r].pc = "idle"
  BY DEF Init
<1>1. PICK S \in (SUBSET Requests) \ {{}} : req = [r \in S |-> Idle]
  BY DEF Init
<1>2. Served = S
  BY <1>1 DEF Served
<1> QED BY <1>1, <1>2 DEF Idle

\* Every variable keeps its type, however many requests overlap.
THEOREM TypeCorrect == Spec => []TypeOK
<1>1. Init => TypeOK
  <2> SUFFICES ASSUME Init PROVE TypeOK
    OBVIOUS
  <2>1. req \in [Served -> Request] /\ Served \subseteq Requests
    BY InitIdle DEF Idle, Request
  <2> QED BY <2>1, InitIdle, LedgerAssumption DEF TypeOK
<1> QED BY <1>1, TypeStep, PTL DEF Spec


(* ------------------------------------------------------------------------- *)
(* EntryOfRecord, however many requests overlap.                              *)

\* The strengthening: a record, dead or alive, and a copy of it name only entries of
\* that record, so that no request can drop the entry of another one.
Own ==
  /\ \A i \in DOMAIN records : records[i].entry # 0 => ledger[records[i].entry].record = i
  /\ \A i \in DOMAIN records :
       records[i].live /\ records[i].entry # 0 => ledger[records[i].entry].live
  /\ \A r \in Served : req[r].pc # "idle" /\ req[r].copy.entry # 0 =>
       ledger[req[r].copy.entry].record = req[r].record
  /\ \A r \in Served : req[r].pc = "resend" /\ req[r].seen.live => req[r].copy.entry # 0

\* Dropping an entry changes nothing else.
LEMMA DroppedOwn ==
  ASSUME ledger \in Seq(Entry), NEW e \in 0 .. Len(ledger), NEW d \in 1 .. Len(ledger)
  PROVE  /\ Dropped(e)[d].record = ledger[d].record
         /\ ledger[d].live /\ ~Dropped(e)[d].live => d = e
<1>1. CASE e = 0
  BY <1>1 DEF Dropped
<1>2. CASE e # 0
  <2>1. ledger[e] \in Entry
    BY <1>2
  <2> QED BY <1>2, <2>1 DEF Dropped, Entry
<1> QED BY <1>1, <1>2

\* What _sync_ledger does to an entry, and the entry the record names afterwards.
LEMMA SyncedOwn ==
  ASSUME ledger \in Seq(Entry), NEW i \in Nat, NEW row, row.type \in Types,
         row.actual \in Amounts, NEW e \in 0 .. Len(ledger), e # 0 => ledger[e].record = i,
         NEW L, L = Synced(i, row, e), NEW n, n = EntryAfter(row, e)
  PROVE  /\ \A d \in 1 .. Len(ledger) : L[d].record = ledger[d].record
         /\ \A d \in 1 .. Len(ledger) : ledger[d].live /\ ~L[d].live => d = e /\ n = 0
         /\ n # e /\ n # 0 => L[n].live /\ L[n].record = i
<1>1. CASE ~Posts(row)
  <2>1. L = Dropped(e)
    BY <1>1 DEF Synced
  <2>2. n = IF Found(e).live THEN 0 ELSE e
    BY <1>1 DEF EntryAfter
  <2>3. ASSUME NEW d \in 1 .. Len(ledger), ledger[d].live, ~L[d].live PROVE d = e /\ n = 0
    <3>1. d = e
      BY <2>1, <2>3, DroppedOwn
    <3> QED BY <2>2, <2>3, <3>1 DEF Found
  <2> QED BY <2>1, <2>2, <2>3, DroppedOwn
<1>2. CASE Posts(row) /\ Found(e).live
  <2>1. e # 0
    BY <1>2 DEF Found, NoEntry
  <2>2. L = [ledger EXCEPT ![e] = Posting(i, row)] /\ n = e
    BY <1>2 DEF Synced, EntryAfter
  <2>3. Posting(i, row).record = i /\ Posting(i, row).live
    BY DEF Posting
  <2> HIDE DEF Posting
  <2> QED BY <2>1, <2>2, <2>3
<1>3. CASE Posts(row) /\ ~Found(e).live
  <2>1. L = Append(ledger, Posting(i, row)) /\ n = Len(ledger) + 1
    BY <1>3 DEF Synced, EntryAfter
  <2>2. Posting(i, row).record = i /\ Posting(i, row).live /\ Posting(i, row) \in Entry
    BY EntryType1 DEF Posting
  <2>3. L[Len(ledger) + 1] = Posting(i, row) /\ \A d \in 1 .. Len(ledger) : L[d] = ledger[d]
    BY <2>1, <2>2
  <2> QED BY <2>1, <2>2, <2>3
<1> QED BY <1>1, <1>2, <1>3

\* A request that ends, after changing one record and the entries of that record.
LEMMA OwnStep ==
  ASSUME TypeOK, TypeOK', Own, NEW r \in Served, End(r), NEW i \in DOMAIN records,
         NEW e \in 0 .. Len(ledger), e # 0 => ledger[e].record = i,
         \A d \in 1 .. Len(ledger) : ledger'[d].record = ledger[d].record,
         \A d \in 1 .. Len(ledger) : ledger[d].live /\ ~ledger'[d].live => d = e,
         NEW x, records' = [records EXCEPT ![i] = x],
         x.entry # 0 => ledger'[x.entry].record = i,
         x.live /\ x.entry # 0 => ledger'[x.entry].live
  PROVE  Own'
<1>0. Served' = Served
  BY DEF End, Served
<1>1. ASSUME NEW j \in DOMAIN records', records'[j].entry # 0
      PROVE  /\ ledger'[records'[j].entry].record = j
             /\ records'[j].live => ledger'[records'[j].entry].live
  <2>1. CASE j = i
    BY <1>1, <2>1 DEF TypeOK
  <2>2. CASE j # i
    <3>1. j \in DOMAIN records /\ records'[j] = records[j]
      BY <2>2 DEF TypeOK
    <3>2. records[j].entry \in 1 .. Len(ledger) /\ ledger[records[j].entry].record = j
      BY <1>1, <3>1 DEF TypeOK, Own
    <3>3. records[j].entry # e
      BY <2>2, <3>2
    <3> QED BY <1>1, <3>1, <3>2, <3>3 DEF Own
  <2> QED BY <2>1, <2>2
<1>2. ASSUME NEW q \in Served, req'[q].pc # "idle"
      PROVE  /\ req'[q].copy.entry # 0 => ledger'[req'[q].copy.entry].record = req'[q].record
             /\ req'[q].pc = "resend" /\ req'[q].seen.live => req'[q].copy.entry # 0
  <2>1. req'[q] = req[q]
    BY <1>2 DEF End, Idle, TypeOK
  <2>2. req[q].copy.entry \in 0 .. Len(ledger)
    BY <1>2, <2>1 DEF TypeOK
  <2> QED BY <1>2, <2>1, <2>2 DEF Own
<1> QED BY <1>0, <1>1, <1>2 DEF Own

LEMMA OwnPreserved == TypeOK /\ TypeOK' /\ Own /\ [Next]_vars => Own'
<1> SUFFICES ASSUME TypeOK, TypeOK', Own, [Next]_vars PROVE Own'
  OBVIOUS
<1>0. Served' = Served
  BY ServedStays
<1>1. ASSUME NEW r \in Served, CreateRecord(r) PROVE Own'
  <2>1. PICK t \in Types, a \in Amounts :
          LET row == [type |-> t, actual |-> a, entry |-> 0, live |-> TRUE] IN
            /\ records' = Append(records, [row EXCEPT !.entry = EntryAfter(row, 0)])
            /\ ledger' = Synced(Len(records) + 1, row, 0)
    BY <1>1 DEF CreateRecord
  <2> DEFINE row == [type |-> t, actual |-> a, entry |-> 0, live |-> TRUE]
             n == EntryAfter(row, 0)
             new == [row EXCEPT !.entry = n]
  <2>2. /\ \A d \in 1 .. Len(ledger) : ledger'[d].record = ledger[d].record
        /\ \A d \in 1 .. Len(ledger) : ledger[d].live => ledger'[d].live
        /\ n # 0 => ledger'[n].live /\ ledger'[n].record = Len(records) + 1
    <3>1. 0 \in 0 .. Len(ledger) /\ Len(records) + 1 \in Nat /\ ledger \in Seq(Entry)
      BY DEF TypeOK
    <3>2. row.type \in Types /\ row.actual \in Amounts
      OBVIOUS
    <3> HIDE DEF row
    <3> QED BY <2>1, <3>1, <3>2, SyncedOwn DEF row
  <2>3. new.entry = n /\ records' = Append(records, new)
    BY <2>1
  <2>4. ASSUME NEW j \in DOMAIN records', records'[j].entry # 0
        PROVE  /\ ledger'[records'[j].entry].record = j
               /\ records'[j].live => ledger'[records'[j].entry].live
    <3> HIDE DEF new, n
    <3>1. CASE j = Len(records) + 1
      BY <2>2, <2>3, <2>4, <3>1 DEF TypeOK
    <3>2. CASE j # Len(records) + 1
      <4>1. j \in DOMAIN records /\ records'[j] = records[j]
        BY <2>3, <3>2 DEF TypeOK
      <4>2. records[j].entry \in 1 .. Len(ledger)
        BY <2>4, <4>1 DEF TypeOK
      <4> QED BY <2>2, <2>4, <4>1, <4>2 DEF Own
    <3> QED BY <3>1, <3>2
  <2>5. ASSUME NEW q \in Served, req[q].pc # "idle", req[q].copy.entry # 0
        PROVE  ledger'[req[q].copy.entry].record = req[q].record
    <3>1. req[q].copy.entry \in 1 .. Len(ledger)
      BY <2>5 DEF TypeOK
    <3> QED BY <2>2, <2>5, <3>1 DEF Own
  <2>6. req' = req
    BY <1>1 DEF CreateRecord
  <2> QED BY <1>0, <2>4, <2>5, <2>6 DEF Own
<1>2. ASSUME NEW r \in Served, ReadRecord(r) PROVE Own'
  BY <1>0, <1>2 DEF ReadRecord, Own, TypeOK
<1>3. ASSUME NEW r \in Served, UpdateRecord(r) PROVE Own'
  <2> DEFINE i == req[r].record  copy == req[r].copy  e == copy.entry
  <2>0. /\ i \in DOMAIN records /\ i \in Nat /\ copy \in Record /\ e \in 0 .. Len(ledger)
        /\ e # 0 => ledger[e].record = i
    BY <1>3, Reading DEF UpdateRecord, Own
  <2>1. PICK t \in Types, a \in Amounts :
          LET row == [type |-> t, actual |-> a, entry |-> e, live |-> TRUE] IN
            /\ ledger' = Synced(i, row, e)
            /\ records' = [records EXCEPT ![i] =
                 Flushed(@, copy, [row EXCEPT !.entry = EntryAfter(row, e)])]
    BY <1>3 DEF UpdateRecord
  <2> DEFINE row == [type |-> t, actual |-> a, entry |-> e, live |-> TRUE]
             n == EntryAfter(row, e)
             new == [row EXCEPT !.entry = n]
             x == Flushed(records[i], copy, new)
  <2>2. /\ \A d \in 1 .. Len(ledger) : ledger'[d].record = ledger[d].record
        /\ \A d \in 1 .. Len(ledger) : ledger[d].live /\ ~ledger'[d].live => d = e /\ n = 0
        /\ n # e /\ n # 0 => ledger'[n].live /\ ledger'[n].record = i
    <3>1. ledger \in Seq(Entry)
      BY DEF TypeOK
    <3>2. row.type \in Types /\ row.actual \in Amounts
      OBVIOUS
    <3> HIDE DEF row, i, e
    <3> QED BY <2>0, <2>1, <3>1, <3>2, SyncedOwn DEF row
  <2>3. records' = [records EXCEPT ![i] = x]
    BY <2>1
  <2>4. x.entry = (IF n = e THEN records[i].entry ELSE n) /\ x.live = records[i].live
    BY DEF Flushed
  <2>5. /\ records[i].entry \in 0 .. Len(ledger)
        /\ records[i].entry # 0 => ledger[records[i].entry].record = i
        /\ records[i].live /\ records[i].entry # 0 => ledger[records[i].entry].live
    BY <2>0 DEF TypeOK, Own
  <2>6. End(r)
    BY <1>3 DEF UpdateRecord
  <2> HIDE DEF x, n, i, e
  <2>7. x.entry # 0 => ledger'[x.entry].record = i
    BY <2>2, <2>4, <2>5
  <2>8. x.live /\ x.entry # 0 => ledger'[x.entry].live
    BY <2>2, <2>4, <2>5
  <2> QED BY <2>0, <2>2, <2>3, <2>6, <2>7, <2>8, OwnStep
<1>4. ASSUME NEW r \in Served, ReadForResend(r) PROVE Own'
  <2>1. /\ req' = [req EXCEPT ![r] = [pc |-> "resend", record |-> req[r].record,
                                     copy |-> req[r].copy, seen |-> Found(req[r].copy.entry)]]
        /\ records' = records /\ ledger' = ledger /\ req[r].pc # "idle"
    BY <1>4 DEF ReadForResend
  <2>2. Found(req[r].copy.entry).live => req[r].copy.entry # 0
    BY DEF Found, NoEntry
  <2>3. ASSUME NEW q \in Served, req'[q].pc # "idle"
        PROVE  /\ req'[q].copy.entry # 0 => ledger[req'[q].copy.entry].record = req'[q].record
               /\ req'[q].pc = "resend" /\ req'[q].seen.live => req'[q].copy.entry # 0
    <3>1. CASE q = r
      BY <2>1, <2>2, <3>1 DEF Own, TypeOK
    <3>2. CASE q # r
      <4>1. req'[q] = req[q]
        BY <2>1, <3>2 DEF TypeOK
      <4> QED BY <2>3, <4>1 DEF Own
    <3> QED BY <3>1, <3>2
  <2> QED BY <1>0, <2>1, <2>3 DEF Own
<1>5. ASSUME NEW r \in Served, ResendEntry(r) PROVE Own'
  <2> DEFINE i == req[r].record  e == req[r].copy.entry  x == records[i]
  <2>0. /\ i \in DOMAIN records /\ i \in Nat /\ e \in 0 .. Len(ledger)
        /\ e # 0 => ledger[e].record = i
    BY <1>5, Reading DEF ResendEntry, Own
  <2>1. e # 0
    BY <1>5 DEF ResendEntry, Found, NoEntry
  <2>2. \A d \in 1 .. Len(ledger) :
          ledger'[d].record = ledger[d].record /\ (ledger[d].live => ledger'[d].live)
    <3>1. \E m : ledger' = [ledger EXCEPT ![e] = m] /\ m.record = i /\ m.live
      <4> DEFINE seen == req[r].seen
                 new == Posting(i, req[r].copy)
                 m == [new EXCEPT !.type = IF new.type = seen.type THEN ledger[e].type ELSE new.type,
                                  !.amount = IF new.amount = seen.amount THEN ledger[e].amount
                                                                         ELSE new.amount]
      <4>1. ledger' = [ledger EXCEPT ![e] = m]
        BY <1>5 DEF ResendEntry
      <4>2. m.record = i /\ m.live
        BY DEF Posting
      <4> HIDE DEF m
      <4> QED BY <4>1, <4>2
    <3>2. PICK m : ledger' = [ledger EXCEPT ![e] = m] /\ m.record = i /\ m.live
      BY <3>1
    <3> HIDE DEF e, i
    <3> QED BY <2>0, <2>1, <3>2 DEF TypeOK
  <2>3. records' = [records EXCEPT ![i] = x] /\ End(r)
    BY <1>5, <2>0 DEF ResendEntry, TypeOK
  <2>4. /\ x.entry \in 0 .. Len(ledger)
        /\ x.entry # 0 => ledger[x.entry].record = i
        /\ x.live /\ x.entry # 0 => ledger[x.entry].live
    BY <2>0 DEF TypeOK, Own
  <2> HIDE DEF i, e, x
  <2>5. /\ x.entry # 0 => ledger'[x.entry].record = i
        /\ x.live /\ x.entry # 0 => ledger'[x.entry].live
    BY <2>2, <2>4
  <2> QED BY <2>0, <2>2, <2>3, <2>5, OwnStep
<1>6. ASSUME NEW r \in Served, ResendRecord(r) PROVE Own'
  <2> DEFINE i == req[r].record  copy == req[r].copy  e == copy.entry
             n == IF Posts(copy) THEN Len(ledger) + 1 ELSE 0
             x == [records[i] EXCEPT !.entry = n]
  <2>0. /\ i \in DOMAIN records /\ i \in Nat /\ copy \in Record /\ e \in 0 .. Len(ledger)
        /\ e # 0 => ledger[e].record = i
    BY <1>6, Reading DEF ResendRecord, Own
  <2>1. records' = [records EXCEPT ![i] = x] /\ End(r)
    BY <1>6 DEF ResendRecord
  <2>2. x.entry = n
    BY <2>0 DEF TypeOK, Record
  <2>3. CASE Posts(copy)
    <3>1. ledger' = Append(ledger, Posting(i, copy)) /\ Posting(i, copy) \in Entry
      BY <1>6, <2>0, <2>3, EntryType1, RecordType1 DEF ResendRecord
    <3>2. Posting(i, copy).record = i /\ Posting(i, copy).live
      BY DEF Posting
    <3>3. /\ \A d \in 1 .. Len(ledger) : ledger'[d] = ledger[d]
          /\ ledger'[Len(ledger) + 1] = Posting(i, copy)
      BY <3>1 DEF TypeOK
    <3>4. n = Len(ledger) + 1
      BY <2>3
    <3> HIDE DEF i, copy, e, n, x
    <3>5. \A d \in 1 .. Len(ledger) :
            ledger'[d].record = ledger[d].record /\ (ledger[d].live => ledger'[d].live)
      BY <3>3
    <3>6. ledger'[x.entry].record = i /\ ledger'[x.entry].live
      BY <2>2, <3>2, <3>3, <3>4
    <3> QED BY <2>0, <2>1, <3>5, <3>6, OwnStep
  <2>4. CASE ~Posts(copy)
    <3>1. ledger' = Dropped(e) /\ n = 0
      BY <1>6, <2>4 DEF ResendRecord
    <3> HIDE DEF i, e, n, x
    <3>2. ledger \in Seq(Entry)
      BY DEF TypeOK
    <3>3. \A d \in 1 .. Len(ledger) :
            /\ ledger'[d].record = ledger[d].record
            /\ ledger[d].live /\ ~ledger'[d].live => d = e
      BY <2>0, <3>1, <3>2, DroppedOwn
    <3> QED BY <2>0, <2>1, <2>2, <3>1, <3>3, OwnStep
  <2> QED BY <2>3, <2>4
<1>7. ASSUME NEW r \in Served, DeleteRecord(r) PROVE Own'
  <2> DEFINE i == req[r].record  e == req[r].copy.entry
             x == [records[i] EXCEPT !.live = FALSE]
  <2>0. /\ i \in DOMAIN records /\ i \in Nat /\ e \in 0 .. Len(ledger)
        /\ e # 0 => ledger[e].record = i
    BY <1>7, Reading DEF DeleteRecord, Own
  <2>1. records' = [records EXCEPT ![i] = x] /\ End(r) /\ ledger' = Dropped(e)
    BY <1>7 DEF DeleteRecord
  <2>2. ~x.live /\ x.entry = records[i].entry
    BY <2>0 DEF TypeOK, Record
  <2>3. /\ records[i].entry \in 0 .. Len(ledger)
        /\ records[i].entry # 0 => ledger[records[i].entry].record = i
        /\ ledger \in Seq(Entry)
    BY <2>0 DEF TypeOK, Own
  <2> HIDE DEF i, e, x
  <2>4. \A d \in 1 .. Len(ledger) :
          /\ ledger'[d].record = ledger[d].record
          /\ ledger[d].live /\ ~ledger'[d].live => d = e
    BY <2>0, <2>1, <2>3, DroppedOwn
  <2>5. x.entry # 0 => ledger'[x.entry].record = i
    BY <2>2, <2>3, <2>4
  <2> QED BY <2>0, <2>1, <2>2, <2>4, <2>5, OwnStep
<1>8. ASSUME NEW r \in Served, Abandon(r) PROVE Own'
  BY <1>0, <1>8 DEF Abandon, End, Idle, Own, TypeOK
<1>9. CASE Quiet \/ UNCHANGED vars
  BY <1>0, <1>9 DEF Quiet, vars, Own
<1> QED BY <1>1, <1>2, <1>3, <1>4, <1>5, <1>6, <1>7, <1>8, <1>9 DEF Next

\* What a request that has read its record may take for granted.
LEMMA ReadingOwn ==
  ASSUME TypeOK, Own, NEW r \in Served, req[r].pc # "idle"
  PROVE  /\ req[r].record \in DOMAIN records /\ req[r].record \in Nat
         /\ records[req[r].record] \in Record /\ req[r].copy \in Record
         /\ req[r].copy.entry \in 0 .. Len(ledger)
         /\ req[r].copy.entry # 0 => ledger[req[r].copy.entry].record = req[r].record
<1>1. req[r].record \in DOMAIN records
  BY Reading
<1>2. records[req[r].record] \in Record
  BY <1>1 DEF TypeOK
<1>3. req[r].copy.entry # 0 => ledger[req[r].copy.entry].record = req[r].record
  BY DEF Own
<1> QED BY <1>1, <1>2, <1>3, Reading

LEMMA OwnInvariant == Spec => []Own
<1>1. Init => Own
  BY InitIdle DEF Own
<1> QED BY <1>1, TypeCorrect, OwnPreserved, PTL DEF Spec

\* However many requests overlap, the entry a record names is there and is its own.
THEOREM NoDanglingEntry == Spec => []EntryOfRecord
<1>1. TypeOK /\ Own => EntryOfRecord
  BY DEF TypeOK, Own, EntryOfRecord, Entries
<1> QED BY <1>1, TypeCorrect, OwnInvariant, PTL

(* ------------------------------------------------------------------------- *)
(* One request at a time: the ledger is the book of the records.              *)

\* A step that ends every request, and leaves everything but record i and its entry e.
LEMMA BalancedStep ==
  ASSUME TypeOK, TypeOK', Balanced, NEW i \in Nat, NEW e \in 0 .. Len(ledger),
         DOMAIN records' = DOMAIN records \cup {i},
         \A j \in DOMAIN records : j # i => records'[j] = records[j],
         i \in DOMAIN records => records[i].live /\ e = records[i].entry,
         i \notin DOMAIN records => e = 0,
         Len(ledger') >= Len(ledger),
         \A d \in 1 .. Len(ledger) : d # e => ledger'[d] = ledger[d],
         \A d \in 1 .. Len(ledger') : (d = e \/ d > Len(ledger)) /\ ledger'[d].live =>
           records'[i].live /\ records'[i].entry = d /\ ledger'[d].record = i,
         records'[i].live =>
           IF Posts(records'[i])
             THEN records'[i].entry # 0 /\ ledger'[records'[i].entry] = Posting(i, records'[i])
             ELSE records'[i].entry = 0,
         Served' = Served, \A q \in Served : req'[q].pc = "idle"
  PROVE  Balanced'
<1>1. ASSUME NEW j \in DOMAIN records', records'[j].live
      PROVE  IF Posts(records'[j])
               THEN records'[j].entry # 0 /\ ledger'[records'[j].entry] = Posting(j, records'[j])
               ELSE records'[j].entry = 0
  <2>1. CASE j = i
    BY <1>1, <2>1
  <2>2. CASE j # i
    <3>1. j \in DOMAIN records /\ records'[j] = records[j]
      BY <2>2
    <3>2. Posts(records[j]) => /\ records[j].entry \in 1 .. Len(ledger)
                               /\ ledger[records[j].entry] = Posting(j, records[j])
      BY <1>1, <3>1 DEF TypeOK, Balanced
    <3>3. Posts(records[j]) => records[j].entry # e
      <4> SUFFICES ASSUME Posts(records[j]), records[j].entry = e PROVE FALSE
        OBVIOUS
      <4>1. ledger[e].record = j /\ ledger[e].live /\ e \in DOMAIN ledger
        BY <3>2 DEF Posting, TypeOK
      <4>2. i \in DOMAIN records /\ e = records[i].entry /\ records[i].live
        BY <4>1 DEF TypeOK
      <4>3. ledger[e] = Posting(i, records[i])
        BY <4>1, <4>2 DEF Balanced, TypeOK
      <4> QED BY <2>2, <4>1, <4>3 DEF Posting
    <3> QED BY <1>1, <3>1, <3>2, <3>3 DEF Balanced
  <2> QED BY <2>1, <2>2
<1>2. ASSUME NEW d \in DOMAIN ledger', ledger'[d].live
      PROVE  /\ ledger'[d].record \in DOMAIN records' /\ records'[ledger'[d].record].live
             /\ records'[ledger'[d].record].entry = d
  <2>0. d \in 1 .. Len(ledger')
    BY DEF TypeOK
  <2>1. CASE d = e \/ d > Len(ledger)
    BY <1>2, <2>0, <2>1
  <2>2. CASE d # e /\ d <= Len(ledger)
    <3>1. d \in DOMAIN ledger /\ ledger'[d] = ledger[d]
      BY <2>0, <2>2 DEF TypeOK
    <3>2. /\ ledger[d].record \in DOMAIN records /\ records[ledger[d].record].live
          /\ records[ledger[d].record].entry = d
      BY <1>2, <3>1 DEF Balanced
    <3>3. ledger[d].record # i
      BY <2>2, <3>2
    <3> QED BY <3>1, <3>2, <3>3
  <2> QED BY <2>0, <2>1, <2>2 DEF TypeOK
<1> QED BY <1>1, <1>2 DEF Balanced

\* The same for what _sync_ledger does for a row of record i.
LEMMA BalancedSync ==
  ASSUME TypeOK, TypeOK', Balanced, NEW i \in Nat, NEW e \in 0 .. Len(ledger),
         DOMAIN records' = DOMAIN records \cup {i},
         \A j \in DOMAIN records : j # i => records'[j] = records[j],
         i \in DOMAIN records => records[i].live /\ e = records[i].entry,
         i \notin DOMAIN records => e = 0,
         NEW row, row.type \in Types, row.actual \in Amounts,
         ledger' = Synced(i, row, e),
         records'[i].type = row.type, records'[i].actual = row.actual, records'[i].live,
         records'[i].entry = EntryAfter(row, e),
         Served' = Served, \A q \in Served : req'[q].pc = "idle"
  PROVE  Balanced'
<1>0. ledger \in Seq(Entry)
  BY DEF TypeOK
<1>1. e # 0 => ledger[e].live
  <2>1. i \in DOMAIN records =>
          (e # 0 => Posts(records[i]) /\ ledger[e] = Posting(i, records[i]))
    BY DEF Balanced
  <2> QED BY <2>1 DEF Posting
<1>2. Posts(records'[i]) = Posts(row) /\ Posting(i, records'[i]) = Posting(i, row)
  BY DEF Posts, Posting
<1>3. CASE ~Posts(row)
  <2>1. ledger' = Dropped(e) /\ records'[i].entry = 0
    BY <1>1, <1>3 DEF Synced, EntryAfter, Found, NoEntry
  <2>2. /\ Len(ledger') = Len(ledger)
        /\ \A d \in 1 .. Len(ledger) : d # e => ledger'[d] = ledger[d]
        /\ e # 0 => ~ledger'[e].live
    <3>1. CASE e = 0
      BY <2>1, <3>1 DEF Dropped
    <3>2. CASE e # 0
      <4>1. ledger[e] \in Entry
        BY <1>0, <3>2
      <4>2. ~[ledger[e] EXCEPT !.live = FALSE].live
        BY <4>1 DEF Entry
      <4>3. ledger' = [ledger EXCEPT ![e] = [ledger[e] EXCEPT !.live = FALSE]]
        BY <2>1, <3>2 DEF Dropped
      <4> DEFINE m == [ledger[e] EXCEPT !.live = FALSE]
      <4> HIDE DEF m
      <4> QED BY <1>0, <3>2, <4>2, <4>3 DEF m
    <3> QED BY <3>1, <3>2
  <2>3. \A d \in 1 .. Len(ledger') : (d = e \/ d > Len(ledger)) => ~ledger'[d].live
    BY <2>2
  <2> QED BY <1>2, <1>3, <2>1, <2>2, <2>3, BalancedStep
<1>4. CASE Posts(row) /\ e # 0
  <2>1. ledger' = [ledger EXCEPT ![e] = Posting(i, row)] /\ records'[i].entry = e
    BY <1>1, <1>4 DEF Synced, EntryAfter, Found
  <2>2. /\ Len(ledger') = Len(ledger) /\ ledger'[e] = Posting(i, row)
        /\ \A d \in 1 .. Len(ledger) : d # e => ledger'[d] = ledger[d]
    BY <1>0, <1>4, <2>1
  <2>3. Posting(i, row).record = i
    BY DEF Posting
  <2>4. \A d \in 1 .. Len(ledger') : (d = e \/ d > Len(ledger)) => d = e
    BY <2>2
  <2>5. \A d \in 1 .. Len(ledger') : (d = e \/ d > Len(ledger)) /\ ledger'[d].live =>
          records'[i].live /\ records'[i].entry = d /\ ledger'[d].record = i
    BY <2>1, <2>2, <2>3, <2>4
  <2>6. /\ Posts(records'[i]) /\ records'[i].entry # 0
        /\ ledger'[records'[i].entry] = Posting(i, records'[i])
    BY <1>2, <1>4, <2>1, <2>2
  <2>7. Len(ledger') >= Len(ledger) /\ \A d \in 1 .. Len(ledger) : d # e => ledger'[d] = ledger[d]
    BY <1>0, <2>2
  <2> QED BY <2>5, <2>6, <2>7, BalancedStep
<1>5. CASE Posts(row) /\ e = 0
  <2>1. ledger' = Append(ledger, Posting(i, row)) /\ records'[i].entry = Len(ledger) + 1
    BY <1>5 DEF Synced, EntryAfter, Found, NoEntry
  <2>2. /\ Len(ledger') = Len(ledger) + 1 /\ ledger'[Len(ledger) + 1] = Posting(i, row)
        /\ \A d \in 1 .. Len(ledger) : ledger'[d] = ledger[d]
    <3>1. Posting(i, row) \in Entry
      BY EntryType1
    <3> QED BY <1>0, <2>1, <3>1
  <2>3. Posting(i, row).record = i
    BY DEF Posting
  <2>4. \A d \in 1 .. Len(ledger') : (d = e \/ d > Len(ledger)) => d = Len(ledger) + 1
    BY <1>5, <2>2
  <2>5. \A d \in 1 .. Len(ledger') : (d = e \/ d > Len(ledger)) /\ ledger'[d].live =>
          records'[i].live /\ records'[i].entry = d /\ ledger'[d].record = i
    BY <2>1, <2>2, <2>3, <2>4
  <2>6. /\ Posts(records'[i]) /\ records'[i].entry # 0
        /\ ledger'[records'[i].entry] = Posting(i, records'[i])
    BY <1>2, <1>5, <2>1, <2>2
  <2>7. Len(ledger') >= Len(ledger) /\ \A d \in 1 .. Len(ledger) : d # e => ledger'[d] = ledger[d]
    BY <1>0, <2>2
  <2> QED BY <2>5, <2>6, <2>7, BalancedStep
<1> QED BY <1>3, <1>4, <1>5


LEMMA BalancedInit == Init => Balanced
BY InitIdle DEF Balanced

\* When the only request ends, no request is left.
LEMMA NoneLeft ==
  ASSUME TypeOK, OneAtATime, NEW r \in Served, End(r)
  PROVE  \A q \in Served : req'[q].pc = "idle"
BY DEF End, Idle, TypeOK, OneAtATime

\* A row the request alone has changed: what it had read is still there.
LEMMA FlushedAlone ==
  ASSUME NEW x \in Record, NEW new
  PROVE  /\ Flushed(x, x, new).type = new.type /\ Flushed(x, x, new).actual = new.actual
         /\ Flushed(x, x, new).entry = new.entry /\ Flushed(x, x, new).live = x.live
BY DEF Flushed

\* A request alone that sends the same values again finds its record balanced.
LEMMA NothingToResend ==
  ASSUME TypeOK, Balanced, NEW r \in Served, ResendRecord(r)
  PROVE  FALSE
<1>1. /\ req[r].record \in DOMAIN records /\ req[r].copy = records[req[r].record]
      /\ req[r].seen = Found(req[r].copy.entry)
      /\ req[r].seen.live <=> ~Posts(req[r].copy)
      /\ records[req[r].record].live
  BY Reading DEF ResendRecord, Balanced
<1>2. CASE Posts(req[r].copy)
  <2>1. req[r].copy.entry # 0 /\ ledger[req[r].copy.entry] = Posting(req[r].record, req[r].copy)
    BY <1>1, <1>2 DEF Balanced
  <2> QED BY <1>1, <1>2, <2>1 DEF Found, Posting
<1>3. CASE ~Posts(req[r].copy)
  <2>1. req[r].copy.entry = 0
    BY <1>1, <1>3 DEF Balanced
  <2> QED BY <1>1, <1>3, <2>1 DEF Found, NoEntry
<1> QED BY <1>2, <1>3

LEMMA BalancedNext ==
  ASSUME OneAtATime, TypeOK, TypeOK', Balanced, [Next]_vars
  PROVE  Balanced'
<1>0. Served' = Served
  BY ServedStays
<1>1. ASSUME NEW r \in Served, CreateRecord(r) PROVE Balanced'
  <2>1. PICK t \in Types, a \in Amounts :
          LET row == [type |-> t, actual |-> a, entry |-> 0, live |-> TRUE] IN
            /\ records' = Append(records, [row EXCEPT !.entry = EntryAfter(row, 0)])
            /\ ledger' = Synced(Len(records) + 1, row, 0)
    BY <1>1 DEF CreateRecord
  <2> DEFINE row == [type |-> t, actual |-> a, entry |-> 0, live |-> TRUE]
             i == Len(records) + 1
             new == [row EXCEPT !.entry = EntryAfter(row, 0)]
  <2>2. /\ i \in Nat /\ 0 \in 0 .. Len(ledger) /\ i \notin DOMAIN records
        /\ records' = Append(records, new)
    BY <2>1 DEF TypeOK
  <2>3. /\ new.type = row.type /\ new.actual = row.actual /\ new.live
        /\ new.entry = EntryAfter(row, 0)
        /\ row.type \in Types /\ row.actual \in Amounts
    OBVIOUS
  <2>4. \A q \in Served : req'[q].pc = "idle"
    BY <1>1 DEF CreateRecord, OneAtATime
  <2>5. ledger' = Synced(i, row, 0)
    BY <2>1
  <2> HIDE DEF new, row
  <2>6. /\ DOMAIN records' = DOMAIN records \cup {i} /\ records'[i] = new
        /\ \A j \in DOMAIN records : j # i => records'[j] = records[j]
    BY <2>2 DEF TypeOK
  <2> HIDE DEF i
  <2> QED BY <2>2, <2>3, <2>4, <2>5, <2>6, <1>0, BalancedSync
<1>2. ASSUME NEW r \in Served, ReadRecord(r) PROVE Balanced'
  <2>1. PICK i \in DOMAIN records, what \in {"update", "delete"} :
          /\ records[i].live
          /\ req' = [req EXCEPT ![r] = [pc |-> what, record |-> i, copy |-> records[i]]]
    BY <1>2 DEF ReadRecord
  <2>2. ASSUME NEW q \in Served
        PROVE  /\ req'[q].pc # "resend"
               /\ records[req'[q].record].live /\ req'[q].copy = records[req'[q].record]
    BY <2>1 DEF OneAtATime, TypeOK
  <2> QED BY <1>0, <1>2, <2>2 DEF ReadRecord, Balanced
<1>3. ASSUME NEW r \in Served, UpdateRecord(r) PROVE Balanced'
  <2> DEFINE i == req[r].record  copy == req[r].copy  e == copy.entry
  <2>0. /\ i \in DOMAIN records /\ i \in Nat /\ copy \in Record /\ e \in 0 .. Len(ledger)
        /\ copy = records[i] /\ records[i].live
    BY <1>3, Reading DEF UpdateRecord, Balanced
  <2>1. PICK t \in Types, a \in Amounts :
          LET row == [type |-> t, actual |-> a, entry |-> e, live |-> TRUE] IN
            /\ ledger' = Synced(i, row, e)
            /\ records' = [records EXCEPT ![i] =
                 Flushed(@, copy, [row EXCEPT !.entry = EntryAfter(row, e)])]
    BY <1>3 DEF UpdateRecord
  <2> DEFINE row == [type |-> t, actual |-> a, entry |-> e, live |-> TRUE]
             new == [row EXCEPT !.entry = EntryAfter(row, e)]
             x == Flushed(copy, copy, new)
  <2>2. records' = [records EXCEPT ![i] = x] /\ ledger' = Synced(i, row, e)
    BY <2>0, <2>1
  <2>3. new.type = row.type /\ new.actual = row.actual /\ new.entry = EntryAfter(row, e)
    OBVIOUS
  <2>4. row.type \in Types /\ row.actual \in Amounts
    OBVIOUS
  <2> HIDE DEF new, row
  <2>5. /\ x.type = row.type /\ x.actual = row.actual /\ x.live
        /\ x.entry = EntryAfter(row, e)
    BY <2>0, <2>3, FlushedAlone
  <2>6. \A q \in Served : req'[q].pc = "idle"
    BY <1>3, NoneLeft DEF UpdateRecord
  <2>7. i \in DOMAIN records => records[i].live /\ e = records[i].entry
    BY <2>0
  <2> HIDE DEF x, i, e
  <2>8. /\ DOMAIN records' = DOMAIN records \cup {i} /\ records'[i] = x
        /\ \A j \in DOMAIN records : j # i => records'[j] = records[j]
    BY <2>0, <2>2 DEF TypeOK
  <2> QED BY <2>0, <2>2, <2>4, <2>5, <2>6, <2>7, <2>8, <1>0, BalancedSync
<1>4. ASSUME NEW r \in Served, ReadForResend(r) PROVE Balanced'
  <2>1. ASSUME NEW q \in Served
        PROVE  /\ records[req'[q].record].live /\ req'[q].copy = records[req'[q].record]
               /\ req'[q].seen = Found(req'[q].copy.entry)
    BY <1>4 DEF ReadForResend, Balanced, OneAtATime, TypeOK
  <2>2. \A n : Found(n)' = Found(n)
    BY <1>4 DEF ReadForResend, Found
  <2> QED BY <1>0, <1>4, <2>1, <2>2 DEF ReadForResend, Balanced
<1>5. ASSUME NEW r \in Served, ResendEntry(r) PROVE Balanced'
  <2> DEFINE i == req[r].record  copy == req[r].copy  e == copy.entry  seen == req[r].seen
             new == Posting(i, copy)
             m == [new EXCEPT !.type = IF new.type = seen.type THEN ledger[e].type ELSE new.type,
                              !.amount = IF new.amount = seen.amount THEN ledger[e].amount
                                                                     ELSE new.amount]
  <2>1. /\ i \in DOMAIN records /\ copy = records[i] /\ records[i].live /\ Posts(copy)
        /\ e \in 0 .. Len(ledger) /\ seen = Found(e)
    BY <1>5, Reading DEF ResendEntry, Balanced
  <2>2. e # 0 /\ ledger[e] = new /\ seen = new
    BY <2>1 DEF Balanced, Found
  <2>3. m = new
    <3>1. m = [new EXCEPT !.type = new.type, !.amount = new.amount]
      BY <2>2
    <3> QED BY <3>1 DEF Posting
  <2>4. ledger' = [ledger EXCEPT ![e] = m]
    BY <1>5 DEF ResendEntry
  <2>5. ledger' = ledger
    <3> HIDE DEF m, new, e
    <3> QED BY <2>1, <2>2, <2>3, <2>4 DEF TypeOK
  <2>6. records' = records /\ \A q \in Served : req'[q].pc = "idle"
    BY <1>5, NoneLeft DEF ResendEntry
  <2> QED BY <1>0, <2>5, <2>6 DEF Balanced
<1>6. ASSUME NEW r \in Served, ResendRecord(r) PROVE Balanced'
  BY <1>6, NothingToResend
<1>7. ASSUME NEW r \in Served, DeleteRecord(r) PROVE Balanced'
  <2> DEFINE i == req[r].record  e == req[r].copy.entry
             x == [records[i] EXCEPT !.live = FALSE]
  <2>0. /\ i \in DOMAIN records /\ i \in Nat /\ e \in 0 .. Len(ledger)
        /\ records[i].live /\ e = records[i].entry
    BY <1>7, Reading DEF DeleteRecord, Balanced
  <2>1. records' = [records EXCEPT ![i] = x] /\ ledger' = Dropped(e)
    BY <1>7 DEF DeleteRecord
  <2>2. ~x.live
    BY <2>0 DEF TypeOK, Record
  <2>3. \A q \in Served : req'[q].pc = "idle"
    BY <1>7, NoneLeft DEF DeleteRecord
  <2> HIDE DEF x, i, e
  <2>4. /\ Len(ledger') = Len(ledger)
        /\ \A d \in 1 .. Len(ledger) : d # e => ledger'[d] = ledger[d]
        /\ e # 0 => ~ledger'[e].live
    <3>1. CASE e = 0
      BY <2>1, <3>1 DEF Dropped
    <3>2. CASE e # 0
      <4> DEFINE m == [ledger[e] EXCEPT !.live = FALSE]
      <4>1. ledger[e] \in Entry
        BY <2>0, <3>2 DEF TypeOK
      <4>2. ~m.live
        BY <4>1 DEF Entry
      <4>3. ledger' = [ledger EXCEPT ![e] = m]
        BY <2>1, <3>2 DEF Dropped
      <4> HIDE DEF m
      <4> QED BY <2>0, <3>2, <4>2, <4>3 DEF TypeOK
    <3> QED BY <3>1, <3>2
  <2>5. /\ DOMAIN records' = DOMAIN records \cup {i} /\ records'[i] = x
        /\ \A j \in DOMAIN records : j # i => records'[j] = records[j]
    BY <2>0, <2>1 DEF TypeOK
  <2>6. \A d \in 1 .. Len(ledger') : (d = e \/ d > Len(ledger)) => ~ledger'[d].live
    BY <2>4
  <2> QED BY <2>0, <2>2, <2>3, <2>4, <2>5, <2>6, <1>0, BalancedStep
<1>8. ASSUME NEW r \in Served, Abandon(r) PROVE Balanced'
  <2>1. \A q \in Served : req'[q].pc = "idle"
    BY <1>8, NoneLeft DEF Abandon
  <2> QED BY <1>0, <1>8, <2>1 DEF Abandon, Balanced
<1>9. CASE Quiet \/ UNCHANGED vars
  BY <1>0, <1>9 DEF Quiet, vars, Balanced, Found
<1> QED BY <1>1, <1>2, <1>3, <1>4, <1>5, <1>6, <1>7, <1>8, <1>9 DEF Next

\* The inductive invariant of a behaviour whose requests wait for each other.
InTurn == OneAtATime => Balanced

LEMMA TurnInvariant == Spec => []InTurn
<1>1. Init => InTurn
  BY BalancedInit DEF InTurn
<1>2. TypeOK /\ TypeOK' /\ InTurn /\ [Next]_vars => InTurn'
  <2> SUFFICES ASSUME TypeOK, TypeOK', InTurn, [Next]_vars, OneAtATime' PROVE Balanced'
    BY DEF InTurn
  <2>1. OneAtATime
    BY ServedStays DEF OneAtATime
  <2> QED BY <2>1, BalancedNext DEF InTurn
<1> QED BY <1>1, <1>2, TypeCorrect, PTL DEF Spec

\* One request at a time, no record is ever posted twice.
THEOREM SerialPostsOnce == Spec => []PostedOnce
<1>1. InTurn => PostedOnce
  BY DEF InTurn, Balanced, PostedOnce
<1> QED BY <1>1, TurnInvariant, PTL

(* ------------------------------------------------------------------------- *)
(* The refinement.                                                            *)

\* A balanced ledger shows the postings of the records it belongs to.
LEMMA Shown == TypeOK /\ Balanced => BookShown = Books!Postings(RecordsShown)
<1> SUFFICES ASSUME TypeOK, Balanced PROVE BookShown = Books!Postings(RecordsShown)
  OBVIOUS
<1> DEFINE show(e) == [record |-> ledger[e].record, type |-> ledger[e].type,
                       amount |-> ledger[e].amount]
           post(i) == [record |-> i, type |-> EntryType[records[i].type],
                       amount |-> records[i].actual]
           posting == {j \in DOMAIN records : records[j].live /\ Posts(records[j])}
<1>1. BookShown = {show(e) : e \in {d \in DOMAIN ledger : ledger[d].live}}
  BY DEF BookShown
<1>2. Books!Postings(RecordsShown) = {post(i) : i \in posting}
  BY DEF Books!Postings, Books!Posting, Books!Posts, RecordsShown, Posts
<1>3. ASSUME NEW i \in posting
      PROVE  \E e \in DOMAIN ledger : ledger[e].live /\ show(e) = post(i)
  <2>1. records[i].entry \in DOMAIN ledger /\ ledger[records[i].entry] = Posting(i, records[i])
    BY DEF Balanced, TypeOK
  <2>2. show(records[i].entry) = post(i) /\ ledger[records[i].entry].live
    BY <2>1 DEF Posting
  <2> QED BY <2>1, <2>2
<1>4. ASSUME NEW e \in DOMAIN ledger, ledger[e].live
      PROVE  \E i \in posting : show(e) = post(i)
  <2> DEFINE i == ledger[e].record
  <2>1. i \in DOMAIN records /\ records[i].live /\ records[i].entry = e
    BY <1>4 DEF Balanced
  <2>2. e # 0
    BY DEF TypeOK
  <2>3. Posts(records[i]) /\ ledger[e] = Posting(i, records[i])
    BY <2>1, <2>2 DEF Balanced
  <2>4. show(e) = post(i)
    BY <2>3 DEF Posting
  <2> QED BY <2>1, <2>3, <2>4
<1> HIDE DEF show, post, posting
<1>5. {show(e) : e \in {d \in DOMAIN ledger : ledger[d].live}} = {post(i) : i \in posting}
  BY <1>3, <1>4
<1> QED BY <1>1, <1>2, <1>5

LEMMA AppendAsFunction ==
  ASSUME NEW S, NEW seq \in Seq(S), NEW x \in S
  PROVE  Append(seq, x) =
           [i \in 1 .. Len(seq) + 1 |-> IF i = Len(seq) + 1 THEN x ELSE seq[i]]
<1> DEFINE new == Append(seq, x)
<1>1. /\ new \in Seq(S) /\ Len(new) = Len(seq) + 1
      /\ \A i \in 1 .. Len(seq) : new[i] = seq[i]
      /\ new[Len(seq) + 1] = x
  BY AppendProperties
<1>2. Len(seq) \in Nat
  OBVIOUS
<1> HIDE DEF new
<1>3. new = [i \in 1 .. Len(new) |-> new[i]]
  BY <1>1
<1>4. \A i \in 1 .. Len(seq) + 1 : new[i] = IF i = Len(seq) + 1 THEN x ELSE seq[i]
  BY <1>1, <1>2
<1>5. new = [i \in 1 .. Len(seq) + 1 |-> IF i = Len(seq) + 1 THEN x ELSE seq[i]]
  BY <1>1, <1>3, <1>4
<1> QED BY <1>5 DEF new

\* What _sync_ledger leaves alone.
LEMMA DroppedElsewhere ==
  ASSUME ledger \in Seq(Entry), NEW e \in 0 .. Len(ledger)
  PROVE  /\ Len(Dropped(e)) = Len(ledger)
         /\ \A d \in 1 .. Len(ledger) : d # e => Dropped(e)[d] = ledger[d]
<1>1. CASE e = 0
  BY <1>1 DEF Dropped
<1>2. CASE e # 0
  BY <1>2 DEF Dropped
<1> QED BY <1>1, <1>2

LEMMA SyncedElsewhere ==
  ASSUME ledger \in Seq(Entry), NEW i \in Nat, NEW row, row.type \in Types,
         row.actual \in Amounts, NEW e \in 0 .. Len(ledger), NEW L, L = Synced(i, row, e)
  PROVE  /\ Len(L) \in {Len(ledger), Len(ledger) + 1}
         /\ \A d \in 1 .. Len(ledger) : d # e => L[d] = ledger[d]
         /\ Len(L) = Len(ledger) + 1 => L[Len(L)].record = i
<1>1. CASE ~Posts(row)
  BY <1>1, DroppedElsewhere DEF Synced
<1>2. CASE Posts(row) /\ Found(e).live
  <2>1. e # 0 /\ L = [ledger EXCEPT ![e] = Posting(i, row)]
    BY <1>2 DEF Found, NoEntry, Synced
  <2> QED BY <2>1
<1>3. CASE Posts(row) /\ ~Found(e).live
  <2>1. L = Append(ledger, Posting(i, row)) /\ Posting(i, row).record = i
    BY <1>3 DEF Synced, Posting
  <2>2. Posting(i, row) \in Entry
    BY EntryType1
  <2> HIDE DEF Posting
  <2> QED BY <2>1, <2>2
<1> QED BY <1>1, <1>2, <1>3

\* A step that changes one entry of record i, or adds one, shows in its postings only.
LEMMA OthersStay ==
  ASSUME TypeOK, TypeOK', NEW i, NEW e \in 0 .. Len(ledger),
         Len(ledger') \in {Len(ledger), Len(ledger) + 1},
         \A d \in 1 .. Len(ledger) : d # e => ledger'[d] = ledger[d],
         e # 0 => ledger[e].record = i /\ ledger'[e].record = i,
         Len(ledger') = Len(ledger) + 1 => ledger'[Len(ledger')].record = i
  PROVE  Books!Others(i)' = Books!Others(i)
<1> DEFINE show(x) == [record |-> x.record, type |-> x.type, amount |-> x.amount]
<1>1. /\ Books!Others(i) = {p \in {show(ledger[d]) : d \in {c \in 1 .. Len(ledger) : ledger[c].live}} :
                              p.record # i}
      /\ Books!Others(i)' = {p \in {show(ledger'[d]) : d \in {c \in 1 .. Len(ledger') : ledger'[c].live}} :
                              p.record # i}
  <2>1. DOMAIN ledger = 1 .. Len(ledger) /\ DOMAIN ledger' = 1 .. Len(ledger')
    BY DEF TypeOK
  <2>2. BookShown = {show(ledger[d]) : d \in {c \in 1 .. Len(ledger) : ledger[c].live}}
    BY <2>1 DEF BookShown
  <2>3. BookShown' = {show(ledger'[d]) : d \in {c \in 1 .. Len(ledger') : ledger'[c].live}}
    BY <2>1 DEF BookShown
  <2> HIDE DEF show
  <2> QED BY <2>2, <2>3 DEF Books!Others
<1>2. \A x : show(x).record = x.record
  OBVIOUS
<1>0. Len(ledger) \in Nat /\ Len(ledger') \in Nat
  BY DEF TypeOK
<1>3. ASSUME NEW d \in 1 .. Len(ledger), ledger[d].record # i
      PROVE  d \in 1 .. Len(ledger') /\ ledger'[d] = ledger[d]
  BY <1>0, <1>3
<1>4. ASSUME NEW d \in 1 .. Len(ledger'), ledger'[d].record # i
      PROVE  d \in 1 .. Len(ledger) /\ ledger'[d] = ledger[d]
  <2>1. d # e
    BY <1>0, <1>4
  <2>2. d # Len(ledger) + 1
    BY <1>0, <1>4
  <2> QED BY <1>0, <2>1, <2>2
<1> HIDE DEF show
<1>5. Books!Others(i) \subseteq Books!Others(i)'
  BY <1>1, <1>2, <1>3
<1>6. Books!Others(i)' \subseteq Books!Others(i)
  BY <1>1, <1>2, <1>4
<1> QED BY <1>5, <1>6

\* Each step does to one record what the book keeper allows, and leaves the postings of
\* the others alone, or shows nothing.
Concerns(i) ==
  /\ Books!Create(i) \/ Books!Change(i) \/ Books!Remove(i) \/ Books!Repost(i)
  /\ Books!Others(i)' = Books!Others(i)

\* What the book keeper sees of a record.
ShownRow(x) == [type |-> x.type, actual |-> x.actual, live |-> x.live]

LEMMA RowShown ==
  ASSUME TypeOK, NEW i \in DOMAIN records, NEW x, records' = [records EXCEPT ![i] = x]
  PROVE  /\ i \in DOMAIN RecordsShown /\ i \in 1 .. Len(RecordsShown) + 1
         /\ RecordsShown[i] = ShownRow(records[i])
         /\ RecordsShown' = [RecordsShown EXCEPT ![i] = ShownRow(x)]
<1>1. /\ RecordsShown = [j \in 1 .. Len(records) |-> ShownRow(records[j])]
      /\ Len(RecordsShown) = Len(records)
  BY DEF RecordsShown, ShownRow, TypeOK
<1>2. Len(records') = Len(records) /\ DOMAIN records' = 1 .. Len(records)
  BY DEF TypeOK
<1>3. RecordsShown' = [j \in 1 .. Len(records) |-> ShownRow(records'[j])]
  BY <1>2 DEF RecordsShown, ShownRow
<1>4. i \in 1 .. Len(records) /\ Len(records) \in Nat
  BY DEF TypeOK
<1>5. records'[i] = x /\ \A j \in 1 .. Len(records) : j # i => records'[j] = records[j]
  BY DEF TypeOK
<1>6. RecordsShown' = [RecordsShown EXCEPT ![i] = ShownRow(x)]
  <2>1. [RecordsShown EXCEPT ![i] = ShownRow(x)]
          = [j \in 1 .. Len(records) |-> IF j = i THEN ShownRow(x) ELSE ShownRow(records[j])]
    BY <1>1, <1>4
  <2>2. \A j \in 1 .. Len(records) :
          ShownRow(records'[j]) = IF j = i THEN ShownRow(x) ELSE ShownRow(records[j])
    BY <1>5
  <2> QED BY <1>3, <2>1, <2>2
<1> QED BY <1>1, <1>4, <1>6

LEMMA ShownStep ==
  ASSUME TypeOK, TypeOK', Own, Own', [Next]_vars
  PROVE  \/ \E i \in 1 .. Len(RecordsShown) + 1 : Concerns(i)
         \/ RecordsShown' = RecordsShown /\ BookShown' = BookShown
<1>0. /\ RecordsShown = [i \in 1 .. Len(records) |-> ShownRow(records[i])]
      /\ Len(RecordsShown) = Len(records)
  BY DEF RecordsShown, ShownRow, TypeOK
<1>1. ASSUME NEW r \in Served, CreateRecord(r)
      PROVE  \E i \in 1 .. Len(RecordsShown) + 1 : Concerns(i)
  <2>1. PICK t \in Types, a \in Amounts :
          LET row == [type |-> t, actual |-> a, entry |-> 0, live |-> TRUE] IN
            /\ records' = Append(records, [row EXCEPT !.entry = EntryAfter(row, 0)])
            /\ ledger' = Synced(Len(records) + 1, row, 0)
    BY <1>1 DEF CreateRecord
  <2>0. PICK i : i = Len(records) + 1
    OBVIOUS
  <2> DEFINE row == [type |-> t, actual |-> a, entry |-> 0, live |-> TRUE]
             x == [row EXCEPT !.entry = EntryAfter(row, 0)]
  <2>2. records' = Append(records, x) /\ ledger' = Synced(i, row, 0)
    BY <2>0, <2>1
  <2>3. x.type = t /\ x.actual = a /\ x.live = TRUE /\ row.type = t /\ row.actual = a
    OBVIOUS
  <2> HIDE DEF x, row
  <2>4. ShownRow(x) \in Books!Value
    BY <2>3 DEF Books!Value, ShownRow
  <2>5. RecordsShown' = Append(RecordsShown, ShownRow(x))
    <3>1. RecordsShown' = [j \in 1 .. Len(records) + 1 |-> ShownRow(records'[j])]
      BY <2>2 DEF RecordsShown, ShownRow, TypeOK
    <3>2. /\ \A j \in 1 .. Len(records) : records'[j] = records[j]
          /\ records'[Len(records) + 1] = x
      BY <2>2 DEF TypeOK
    <3> DEFINE seq == [j \in 1 .. Len(records) |-> ShownRow(records[j])]
               V == {ShownRow(records[j]) : j \in 1 .. Len(records)} \cup {ShownRow(x)}
    <3>3. seq \in Seq(V) /\ Len(seq) = Len(records)
      <4>1. seq \in [1 .. Len(records) -> V] /\ Len(records) \in Nat
        BY DEF TypeOK
      <4> HIDE DEF seq, V
      <4> QED BY <4>1
    <3>4. Append(seq, ShownRow(x)) =
            [j \in 1 .. Len(seq) + 1 |-> IF j = Len(seq) + 1 THEN ShownRow(x) ELSE seq[j]]
      <4>1. ShownRow(x) \in V
        OBVIOUS
      <4> HIDE DEF seq, V
      <4> QED BY <3>3, <4>1, AppendAsFunction
    <3>5. RecordsShown' = [j \in 1 .. Len(records) + 1 |->
                             IF j = Len(records) + 1 THEN ShownRow(x) ELSE seq[j]]
      BY <3>1, <3>2 DEF TypeOK
    <3> QED BY <1>0, <3>3, <3>4, <3>5
  <2>6. Books!Others(i)' = Books!Others(i)
    <3>1. ledger \in Seq(Entry) /\ 0 \in 0 .. Len(ledger) /\ i \in Nat
          /\ row.type \in Types /\ row.actual \in Amounts
      BY <2>0, <2>3 DEF TypeOK
    <3>2. /\ Len(ledger') \in {Len(ledger), Len(ledger) + 1}
          /\ \A d \in 1 .. Len(ledger) : d # 0 => ledger'[d] = ledger[d]
          /\ Len(ledger') = Len(ledger) + 1 => ledger'[Len(ledger')].record = i
      BY <2>2, <3>1, SyncedElsewhere
    <3> QED BY <3>1, <3>2, OthersStay
  <2>7. Books!Create(i) /\ i \in 1 .. Len(RecordsShown) + 1
    <3>1. Len(records) \in Nat
      BY DEF TypeOK
    <3>2. Books!Create(i)
      BY <1>0, <2>0, <2>4, <2>5 DEF Books!Create
    <3> QED BY <1>0, <2>0, <3>1, <3>2
  <2> QED BY <2>6, <2>7 DEF Concerns
<1>3. ASSUME NEW r \in Served, UpdateRecord(r)
      PROVE  \E i \in 1 .. Len(RecordsShown) + 1 : Concerns(i)
  <2>0. PICK i, copy, e : i = req[r].record /\ copy = req[r].copy /\ e = req[r].copy.entry
    OBVIOUS
  <2>1. /\ i \in DOMAIN records /\ i \in Nat /\ records[i] \in Record /\ records[i].live
        /\ e \in 0 .. Len(ledger) /\ (e # 0 => ledger[e].record = i)
    BY <1>3, <2>0, ReadingOwn DEF UpdateRecord
  <2>2. PICK t \in Types, a \in Amounts :
          LET row == [type |-> t, actual |-> a, entry |-> e, live |-> TRUE] IN
            /\ ledger' = Synced(i, row, e)
            /\ records' = [records EXCEPT ![i] =
                 Flushed(@, copy, [row EXCEPT !.entry = EntryAfter(row, e)])]
    BY <1>3, <2>0 DEF UpdateRecord
  <2> DEFINE row == [type |-> t, actual |-> a, entry |-> e, live |-> TRUE]
             new == [row EXCEPT !.entry = EntryAfter(row, e)]
             x == Flushed(records[i], copy, new)
  <2>3. records' = [records EXCEPT ![i] = x] /\ ledger' = Synced(i, row, e)
    BY <2>1, <2>2
  <2>4. new.type = t /\ new.actual = a /\ row.type = t /\ row.actual = a
    OBVIOUS
  <2>5. x.type \in Types /\ x.actual \in Amounts /\ x.live = TRUE
    <3> HIDE DEF new
    <3>1. records[i].live = TRUE /\ records[i].type \in Types /\ records[i].actual \in Amounts
      BY <2>1 DEF Record
    <3> QED BY <2>4, <3>1 DEF Flushed
  <2> HIDE DEF x, row, new
  <2>6. ShownRow(x) \in Books!Value
    BY <2>5 DEF Books!Value, ShownRow
  <2>7. RecordsShown[i].live
    <3>1. RecordsShown[i] = ShownRow(records[i])
      BY <2>1, <2>3, RowShown
    <3> QED BY <2>1, <3>1 DEF ShownRow
  <2>8. /\ i \in DOMAIN RecordsShown /\ RecordsShown' = [RecordsShown EXCEPT ![i] = ShownRow(x)]
        /\ i \in 1 .. Len(RecordsShown) + 1
    BY <2>1, <2>3, RowShown
  <2>9. Books!Others(i)' = Books!Others(i)
    <3>1. ledger \in Seq(Entry) /\ row.type \in Types /\ row.actual \in Amounts
      BY <2>4 DEF TypeOK
    <3>2. /\ Len(ledger') \in {Len(ledger), Len(ledger) + 1}
          /\ \A d \in 1 .. Len(ledger) : d # e => ledger'[d] = ledger[d]
          /\ Len(ledger') = Len(ledger) + 1 => ledger'[Len(ledger')].record = i
      BY <2>1, <2>3, <3>1, SyncedElsewhere
    <3>3. \A d \in 1 .. Len(ledger) : ledger'[d].record = ledger[d].record
      BY <2>1, <2>3, <3>1, SyncedOwn
    <3> QED BY <2>1, <3>2, <3>3, OthersStay
  <2>10. Books!Change(i)
    BY <2>6, <2>7, <2>8 DEF Books!Change
  <2> QED BY <2>8, <2>9, <2>10 DEF Concerns
<1>4. ASSUME NEW r \in Served, ResendEntry(r)
      PROVE  \E i \in 1 .. Len(RecordsShown) + 1 : Concerns(i)
  <2>0. PICK i, e : i = req[r].record /\ e = req[r].copy.entry
    OBVIOUS
  <2>1. /\ i \in DOMAIN records /\ e \in 0 .. Len(ledger) /\ (e # 0 => ledger[e].record = i)
    BY <1>4, <2>0, ReadingOwn DEF ResendEntry
  <2>2. e # 0 /\ records' = records
    BY <1>4, <2>0 DEF ResendEntry, Found, NoEntry
  <2>3. PICK m : ledger' = [ledger EXCEPT ![e] = m] /\ m.record = i
    <3> DEFINE seen == req[r].seen
               new == Posting(i, req[r].copy)
               m == [new EXCEPT !.type = IF new.type = seen.type THEN ledger[e].type ELSE new.type,
                                !.amount = IF new.amount = seen.amount THEN ledger[e].amount
                                                                       ELSE new.amount]
    <3>1. ledger' = [ledger EXCEPT ![e] = m]
      BY <1>4, <2>0 DEF ResendEntry
    <3>2. m.record = i
      BY DEF Posting
    <3> HIDE DEF m
    <3> QED BY <3>1, <3>2
  <2>4. Books!Others(i)' = Books!Others(i)
    <3>1. /\ Len(ledger') = Len(ledger) /\ ledger'[e] = m /\ Len(ledger) \in Nat
          /\ \A d \in 1 .. Len(ledger) : d # e => ledger'[d] = ledger[d]
      BY <2>1, <2>2, <2>3 DEF TypeOK
    <3>2. /\ Len(ledger') \in {Len(ledger), Len(ledger) + 1}
          /\ Len(ledger') # Len(ledger) + 1
      BY <3>1
    <3>3. ledger[e].record = i /\ ledger'[e].record = i
      BY <2>1, <2>2, <2>3, <3>1
    <3> QED BY <2>1, <3>1, <3>2, <3>3, OthersStay
  <2>5. Books!Repost(i) /\ i \in 1 .. Len(RecordsShown) + 1
    BY <1>0, <2>1, <2>2 DEF Books!Repost, RecordsShown, TypeOK
  <2> QED BY <2>4, <2>5 DEF Concerns
<1>5. ASSUME NEW r \in Served, ResendRecord(r)
      PROVE  \E i \in 1 .. Len(RecordsShown) + 1 : Concerns(i)
  <2>0. PICK i, copy, e : i = req[r].record /\ copy = req[r].copy /\ e = req[r].copy.entry
    OBVIOUS
  <2> DEFINE n == IF Posts(copy) THEN Len(ledger) + 1 ELSE 0
             x == [records[i] EXCEPT !.entry = n]
  <2>1. /\ i \in DOMAIN records /\ i \in Nat /\ records[i] \in Record /\ copy \in Record
        /\ e \in 0 .. Len(ledger) /\ (e # 0 => ledger[e].record = i)
    BY <1>5, <2>0, ReadingOwn DEF ResendRecord
  <2>2. records' = [records EXCEPT ![i] = x]
    BY <1>5, <2>0 DEF ResendRecord
  <2>3. ShownRow(x) = ShownRow(records[i])
    BY <2>1 DEF Record, ShownRow
  <2> HIDE DEF x
  <2>4. /\ RecordsShown' = [RecordsShown EXCEPT ![i] = RecordsShown[i]]
        /\ i \in DOMAIN RecordsShown /\ i \in 1 .. Len(RecordsShown) + 1
    BY <2>1, <2>2, <2>3, RowShown
  <2>5. Books!Repost(i)
    <3>1. RecordsShown = [j \in DOMAIN RecordsShown |-> RecordsShown[j]]
      BY DEF RecordsShown
    <3> QED BY <2>4, <3>1 DEF Books!Repost
  <2>6. Books!Others(i)' = Books!Others(i)
    <3>0. ledger \in Seq(Entry)
      BY DEF TypeOK
    <3>1. CASE Posts(copy)
      <4>1. ledger' = Append(ledger, Posting(i, copy)) /\ Posting(i, copy).record = i
        BY <1>5, <2>0, <3>1 DEF ResendRecord, Posting
      <4>2. Posting(i, copy) \in Entry
        BY <2>1, EntryType1, RecordType1
      <4>3. /\ Len(ledger') = Len(ledger) + 1
            /\ \A d \in 1 .. Len(ledger) : ledger'[d] = ledger[d]
            /\ ledger'[Len(ledger')].record = i
        <5> HIDE DEF Posting
        <5> QED BY <3>0, <4>1, <4>2
      <4>4. \A d \in 1 .. Len(ledger) : d # e => ledger'[d] = ledger[d]
        BY <4>3
      <4>5. e # 0 => ledger[e].record = i /\ ledger'[e].record = i
        BY <2>1, <4>3
      <4> QED BY <2>1, <4>3, <4>4, <4>5, OthersStay
    <3>2. CASE ~Posts(copy)
      <4>1. ledger' = Dropped(e)
        BY <1>5, <2>0, <3>2 DEF ResendRecord
      <4>2. /\ Len(ledger') = Len(ledger)
            /\ \A d \in 1 .. Len(ledger) : d # e => ledger'[d] = ledger[d]
            /\ \A d \in 1 .. Len(ledger) : ledger'[d].record = ledger[d].record
        BY <2>1, <3>0, <4>1, DroppedElsewhere, DroppedOwn
      <4>3. Len(ledger) \in Nat /\ (e # 0 => ledger'[e].record = i)
        BY <2>1, <3>0, <4>2
      <4> QED BY <2>1, <4>2, <4>3, OthersStay
    <3> QED BY <3>1, <3>2
  <2> QED BY <2>4, <2>5, <2>6 DEF Concerns
<1>6. ASSUME NEW r \in Served, DeleteRecord(r)
      PROVE  \E i \in 1 .. Len(RecordsShown) + 1 : Concerns(i)
  <2>0. PICK i, e : i = req[r].record /\ e = req[r].copy.entry
    OBVIOUS
  <2> DEFINE x == [records[i] EXCEPT !.live = FALSE]
  <2>1. /\ i \in DOMAIN records /\ i \in Nat /\ records[i] \in Record
        /\ e \in 0 .. Len(ledger) /\ (e # 0 => ledger[e].record = i)
    BY <1>6, <2>0, ReadingOwn DEF DeleteRecord
  <2>2. records' = [records EXCEPT ![i] = x] /\ ledger' = Dropped(e)
    BY <1>6, <2>0 DEF DeleteRecord
  <2>3. x.type = records[i].type /\ x.actual = records[i].actual /\ x.live = FALSE
    BY <2>1 DEF Record
  <2> HIDE DEF x
  <2>4. /\ RecordsShown' = [RecordsShown EXCEPT ![i] = ShownRow(x)]
        /\ RecordsShown[i] = ShownRow(records[i])
        /\ i \in DOMAIN RecordsShown /\ i \in 1 .. Len(RecordsShown) + 1
    BY <2>1, <2>2, RowShown
  <2>5. ShownRow(x) = Books!Removed(RecordsShown[i])
    <3>1. RecordsShown[i] = ShownRow(records[i])
      BY <2>4
    <3>2. RecordsShown[i].type = x.type /\ RecordsShown[i].actual = x.actual
      BY <2>3, <3>1 DEF ShownRow
    <3>3. ShownRow(x) = [type |-> x.type, actual |-> x.actual, live |-> FALSE]
      BY <2>3 DEF ShownRow
    <3> QED BY <3>2, <3>3 DEF Books!Removed
  <2>6. Books!Remove(i) \/ Books!Repost(i)
    <3>1. CASE records[i].live
      <4>1. RecordsShown[i].live
        BY <2>4, <3>1 DEF ShownRow
      <4> QED BY <2>4, <2>5, <4>1 DEF Books!Remove
    <3>2. CASE ~records[i].live
      <4>1. records[i].live = FALSE
        BY <2>1, <3>2 DEF Record
      <4>2. ShownRow(x) = RecordsShown[i]
        BY <2>3, <2>4, <4>1 DEF ShownRow
      <4>3. RecordsShown = [j \in DOMAIN RecordsShown |-> RecordsShown[j]]
        BY DEF RecordsShown
      <4> QED BY <2>4, <4>2, <4>3 DEF Books!Repost
    <3> QED BY <3>1, <3>2
  <2>7. Books!Others(i)' = Books!Others(i)
    <3>0. ledger \in Seq(Entry)
      BY DEF TypeOK
    <3>1. /\ Len(ledger') = Len(ledger)
          /\ \A d \in 1 .. Len(ledger) : d # e => ledger'[d] = ledger[d]
          /\ \A d \in 1 .. Len(ledger) : ledger'[d].record = ledger[d].record
      BY <2>1, <2>2, <3>0, DroppedElsewhere, DroppedOwn
    <3>2. /\ Len(ledger') \in {Len(ledger), Len(ledger) + 1}
          /\ Len(ledger') # Len(ledger) + 1
          /\ e # 0 => ledger[e].record = i /\ ledger'[e].record = i
      BY <2>1, <3>0, <3>1
    <3> QED BY <2>1, <3>1, <3>2, OthersStay
  <2> QED BY <2>4, <2>6, <2>7 DEF Concerns
<1>7. ASSUME NEW r \in Served, ReadRecord(r) \/ ReadForResend(r) \/ Abandon(r)
      PROVE  RecordsShown' = RecordsShown /\ BookShown' = BookShown
  BY <1>7 DEF ReadRecord, ReadForResend, Abandon, RecordsShown, BookShown
<1>8. CASE Quiet \/ UNCHANGED vars
  BY <1>8 DEF Quiet, vars, RecordsShown, BookShown
<1> QED BY <1>1, <1>3, <1>4, <1>5, <1>6, <1>7, <1>8 DEF Next

\* The records and their ledger entries implement Bookkeeping: whatever requests overlap,
\* a step leaves the postings of all records but one alone, and with one request at a time
\* the book holds, after every operation, exactly the postings of the records.
THEOREM LedgerKeepsBooks == Spec => KeepsBooks
<1>1. Init => Books!Init
  BY DEF Init, Books!Init, RecordsShown, BookShown, OneAtATime
<1>2. TypeOK /\ TypeOK' /\ Own /\ Own' /\ InTurn /\ InTurn' /\ [Next]_vars
        => [Books!Next]_<<RecordsShown, BookShown, OneAtATime>>
  <2> SUFFICES ASSUME TypeOK, TypeOK', Own, Own', InTurn, InTurn', [Next]_vars
               PROVE  [Books!Next]_<<RecordsShown, BookShown, OneAtATime>>
    OBVIOUS
  <2>1. OneAtATime' = OneAtATime
    BY ServedStays DEF OneAtATime
  <2>2. OneAtATime => BookShown' = Books!Postings(RecordsShown')
    <3>1. (TypeOK /\ Balanced => BookShown = Books!Postings(RecordsShown))'
      BY Shown, PTL
    <3> QED BY <2>1, <3>1 DEF InTurn
  <2>3. CASE \E i \in 1 .. Len(RecordsShown) + 1 : Concerns(i)
    BY <2>1, <2>2, <2>3 DEF Books!Next, Concerns
  <2>4. CASE RecordsShown' = RecordsShown /\ BookShown' = BookShown
    BY <2>1, <2>4
  <2> QED BY <2>3, <2>4, ShownStep
<1> QED BY <1>1, <1>2, OwnInvariant, TurnInvariant, TypeCorrect, PTL
        DEF Spec, KeepsBooks, Books!Spec

===============================================================================
