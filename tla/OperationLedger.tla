--------------------------- MODULE OperationLedger ---------------------------
(***************************************************************************)
(* Operating records (advertising, influencers, receivables) and the entry *)
(* each keeps in the finance ledger: operation_service.create_record,      *)
(* update_record, delete_record and _sync_ledger.                          *)
(*                                                                         *)
(* A request reads its record without a lock and works on that copy, the   *)
(* id of the ledger entry included.  UPDATE names only the attributes the  *)
(* request changed; the SELECT that follows flushes it, and from then to   *)
(* the commit the request holds the write lock, so the rest is one step.   *)
(* Ids are never used twice; a deleted row stays in the sequences with     *)
(* live = FALSE.                                                           *)
(***************************************************************************)
EXTENDS Integers, Sequences

CONSTANTS Requests,   \* requests of the user that may be served at the same time
          Types,      \* operation_record_type items of the dictionary
          EntryType,  \* extra.ledger_entry_type of each
          NotPosted,  \* a type that has none
          Amounts,    \* actual_amount_rmb; 0 stands for None as well
          MaxBegun    \* bound on the requests of a behaviour

ASSUME LedgerAssumption ==
  /\ EntryType \in [Types -> {EntryType[t] : t \in Types}]
  /\ Amounts \subseteq Nat /\ 0 \in Amounts
  /\ MaxBegun \in Nat

VARIABLES records,  \* operation_records, in the order of their inserts
          ledger,   \* the finance_ledger_entries of operating records, likewise
          req,      \* the requests
          begun

vars == <<records, ledger, req, begun>>

\* entry: ledger_entry_id, 0 for None.
Record == [type : Types, actual : Amounts, entry : Nat, live : BOOLEAN]

Entry == [record : Nat, type : {EntryType[t] : t \in Types} \cup {NotPosted},
          amount : Amounts, live : BOOLEAN]

Request == [pc : {"idle"}]
      \cup [pc : {"update", "delete"}, record : Nat, copy : Record]
      \cup [pc : {"resend"}, record : Nat, copy : Record, seen : Entry]

\* The requests of this behaviour: with one, the user waits for every answer.
Served == DOMAIN req

TypeOK ==
  /\ records \in Seq(Record)
  /\ ledger \in Seq(Entry)
  /\ \A i \in DOMAIN records : records[i].entry \in 0 .. Len(ledger)
  /\ Served \subseteq Requests /\ req \in [Served -> Request]
  /\ \A r \in Served : req[r].pc # "idle" =>
       req[r].record \in DOMAIN records /\ req[r].copy.entry \in 0 .. Len(ledger)
  /\ begun \in 0 .. MaxBegun

Idle == [pc |-> "idle"]

Init ==
  /\ records = <<>> /\ ledger = <<>>
  /\ \E S \in (SUBSET Requests) \ {{}} : req = [r \in S |-> Idle]
  /\ begun = 0

-----------------------------------------------------------------------------
(* _sync_ledger.                                                           *)

Posts(row) == EntryType[row.type] # NotPosted /\ row.actual > 0

Posting(i, row) ==
  [record |-> i, type |-> EntryType[row.type], amount |-> row.actual, live |-> TRUE]

NoEntry == [record |-> 0, type |-> NotPosted, amount |-> 0, live |-> FALSE]

\* db.get(FinanceLedgerEntry, ledger_entry_id)
Found(e) == IF e = 0 THEN NoEntry ELSE ledger[e]

\* Mutant: the entry stays when the amount is taken back.
Kept(e) == ledger

\* DELETE of an entry that is gone already affects no row.
Dropped(e) ==
  IF e = 0 THEN ledger ELSE [ledger EXCEPT ![e] = [@ EXCEPT !.live = FALSE]]

\* Mutant: every update posts a new entry.
SyncedAnew(i, row, e) == IF Posts(row) THEN Append(ledger, Posting(i, row)) ELSE Dropped(e)

\* The ledger after _sync_ledger for a row whose entry id is e.
Synced(i, row, e) ==
  IF ~Posts(row) THEN Dropped(e)
  ELSE IF Found(e).live THEN [ledger EXCEPT ![e] = Posting(i, row)]
  ELSE Append(ledger, Posting(i, row))

\* Mutant: ledger_entry_id is not cleared with its entry.
EntryLeft(row, e) == IF Posts(row) /\ ~Found(e).live THEN Len(ledger) + 1 ELSE e

\* ledger_entry_id after it.
EntryAfter(row, e) ==
  IF Found(e).live THEN IF Posts(row) THEN e ELSE 0
                   ELSE IF Posts(row) THEN Len(ledger) + 1 ELSE e

\* UPDATE operation_records: the attributes whose value the session changed.
Flushed(current, loaded, new) ==
  [type |-> IF new.type = loaded.type THEN current.type ELSE new.type,
   actual |-> IF new.actual = loaded.actual THEN current.actual ELSE new.actual,
   entry |-> IF new.entry = loaded.entry THEN current.entry ELSE new.entry,
   live |-> current.live]

-----------------------------------------------------------------------------
(* The handlers.                                                           *)

End(r) == req' = [req EXCEPT ![r] = Idle]

\* create_record: the INSERT takes the lock, the entry follows under it.
CreateRecord(r) ==
  /\ req[r].pc = "idle" /\ begun < MaxBegun
  /\ \E t \in Types, a \in Amounts :
       LET row == [type |-> t, actual |-> a, entry |-> 0, live |-> TRUE] IN
         /\ records' = Append(records, [row EXCEPT !.entry = EntryAfter(row, 0)])
         /\ ledger' = Synced(Len(records) + 1, row, 0)
  /\ begun' = begun + 1
  /\ UNCHANGED req

\* get_record
ReadRecord(r) ==
  /\ req[r].pc = "idle" /\ begun < MaxBegun
  /\ \E i \in DOMAIN records, what \in {"update", "delete"} :
       /\ records[i].live
       /\ req' = [req EXCEPT ![r] = [pc |-> what, record |-> i, copy |-> records[i]]]
  /\ begun' = begun + 1
  /\ UNCHANGED <<records, ledger>>

\* update_record with a value that differs from the copy (one not modelled, such as
\* the name, at least): the UPDATE takes the lock before the entry is read.
UpdateRecord(r) ==
  /\ req[r].pc = "update" /\ records[req[r].record].live
  /\ \E t \in Types, a \in Amounts :
       LET i == req[r].record  copy == req[r].copy
           row == [type |-> t, actual |-> a, entry |-> copy.entry, live |-> TRUE] IN
         /\ ledger' = Synced(i, row, copy.entry)
         /\ records' = [records EXCEPT ![i] =
              Flushed(@, copy, [row EXCEPT !.entry = EntryAfter(row, copy.entry)])]
  /\ End(r) /\ UNCHANGED begun

\* The same values again: no UPDATE, so the entry is read without the lock.
ReadForResend(r) ==
  /\ req[r].pc = "update"
  /\ req' = [req EXCEPT ![r] = [pc |-> "resend", record |-> @.record, copy |-> @.copy,
                                seen |-> Found(@.copy.entry)]]
  /\ UNCHANGED <<records, ledger, begun>>

\* The entry found is brought to the copy's values, attribute by attribute.
ResendEntry(r) ==
  /\ req[r].pc = "resend" /\ req[r].seen.live /\ Posts(req[r].copy)
  /\ LET e == req[r].copy.entry  seen == req[r].seen
         new == Posting(req[r].record, req[r].copy) IN
       /\ Found(e).live
       /\ ledger' = [ledger EXCEPT ![e] =
            [new EXCEPT !.type = IF new.type = seen.type THEN ledger[e].type ELSE new.type,
                        !.amount = IF new.amount = seen.amount THEN ledger[e].amount
                                                               ELSE new.amount]]
  /\ End(r) /\ UNCHANGED <<records, begun>>

\* None found although the copy posts, or one found although it does not.
ResendRecord(r) ==
  /\ req[r].pc = "resend" /\ (req[r].seen.live <=> ~Posts(req[r].copy))
  /\ records[req[r].record].live
  /\ LET i == req[r].record  e == req[r].copy.entry IN
       /\ ledger' = IF Posts(req[r].copy) THEN Append(ledger, Posting(i, req[r].copy))
                                          ELSE Dropped(e)
       /\ records' = [records EXCEPT ![i] =
            [@ EXCEPT !.entry = IF Posts(req[r].copy) THEN Len(ledger) + 1 ELSE 0]]
  /\ End(r) /\ UNCHANGED begun

\* delete_record: the copy's entry and the record, in one commit.
DeleteRecord(r) ==
  /\ req[r].pc = "delete"
  /\ ledger' = Dropped(req[r].copy.entry)
  /\ records' = [records EXCEPT ![req[r].record] = [@ EXCEPT !.live = FALSE]]
  /\ End(r) /\ UNCHANGED begun

\* Nothing to write, refused (400, 404), timed out on the lock, an UPDATE of a row that
\* is gone (StaleDataError), or a crash.
Abandon(r) == req[r].pc # "idle" /\ End(r) /\ UNCHANGED <<records, ledger, begun>>

\* MaxBegun requests have been served.
Quiet == begun = MaxBegun /\ (\A r \in Served : req[r].pc = "idle") /\ UNCHANGED vars

Next ==
  \/ \E r \in Served :
       \/ CreateRecord(r) \/ ReadRecord(r) \/ UpdateRecord(r) \/ ReadForResend(r)
       \/ ResendEntry(r) \/ ResendRecord(r) \/ DeleteRecord(r) \/ Abandon(r)
  \/ Quiet

Spec == Init /\ [][Next]_vars

-----------------------------------------------------------------------------

OneAtATime == \A p, q \in Served : p = q

Entries(i) == {e \in DOMAIN ledger : ledger[e].live /\ ledger[e].record = i}

\* Whatever requests overlap: the entry a record names is there, and is its own, so
\* ledger_entry_id never dangles although no foreign key is enforced.
EntryOfRecord ==
  \A i \in DOMAIN records : records[i].live /\ records[i].entry # 0 =>
    records[i].entry \in Entries(i)

\* What the book keeper sees of both tables: no ids.
RecordsShown ==
  [i \in DOMAIN records |->
     [type |-> records[i].type, actual |-> records[i].actual, live |-> records[i].live]]

BookShown ==
  {[record |-> ledger[e].record, type |-> ledger[e].type, amount |-> ledger[e].amount] :
     e \in {d \in DOMAIN ledger : ledger[d].live}}

Books == INSTANCE Bookkeeping
           WITH records <- RecordsShown, book <- BookShown, exact <- OneAtATime

\* Whatever requests overlap, a step posts or takes back what belongs to one record and
\* leaves the postings of the others alone; with one request at a time what the ledger
\* books for operating records is what the records post, after every operation.
KeepsBooks == Books!Spec

\* One request at a time: a record is posted once (two entries of equal value would be
\* one posting of the book).
PostedOnce == OneAtATime =>
  \A d, e \in DOMAIN ledger :
    ledger[d].live /\ ledger[e].live /\ ledger[d].record = ledger[e].record => d = e

\* A deleted record leaves no entry: "delete the operating record and remove its
\* finance entry with it".
DeletedLeavesNothing ==
  \A i \in DOMAIN records : ~records[i].live => Entries(i) = {}

-----------------------------------------------------------------------------
(* Why it works with one request at a time: the inductive invariant behind *)
(* KeepsBooks and PostedOnce (OperationLedger_proofs).                     *)

\* A live record names its posting or nothing, a live entry is named by its record, and
\* what a request has read is still what is there.
Balanced ==
  /\ \A i \in DOMAIN records : records[i].live =>
       IF Posts(records[i])
         THEN records[i].entry # 0 /\ ledger[records[i].entry] = Posting(i, records[i])
         ELSE records[i].entry = 0
  /\ \A e \in DOMAIN ledger : ledger[e].live =>
       /\ ledger[e].record \in DOMAIN records /\ records[ledger[e].record].live
       /\ records[ledger[e].record].entry = e
  /\ \A r \in Served : req[r].pc # "idle" =>
       records[req[r].record].live /\ req[r].copy = records[req[r].record]
  /\ \A r \in Served : req[r].pc = "resend" => req[r].seen = Found(req[r].copy.entry)

===============================================================================
