----------------------------- MODULE Bookkeeping -----------------------------
(***************************************************************************)
(* What operating records promise to the finance ledger, whoever keeps     *)
(* which identifiers.  An operation concerns one record, and leaves the    *)
(* postings of the others alone.  When operations do not overlap (exact)   *)
(* the book holds, after each of them, the postings of the records there   *)
(* are and nothing else.  OperationLedger implements it.                   *)
(***************************************************************************)
EXTENDS Integers, Sequences

CONSTANTS Types,      \* operation_record_type items of the dictionary
          EntryType,  \* ledger_entry_type of each
          NotPosted,  \* a type that has none
          Amounts     \* actual amounts; 0 stands for none as well

VARIABLES records,  \* the records, in the order of their creation
          book,     \* the postings
          exact     \* operations do not overlap

Value == [type : Types, actual : Amounts, live : {TRUE}]

Posts(row) == row.live /\ EntryType[row.type] # NotPosted /\ row.actual > 0

Posting(i, row) == [record |-> i, type |-> EntryType[row.type], amount |-> row.actual]

Postings(rows) == {Posting(i, rows[i]) : i \in {j \in DOMAIN rows : Posts(rows[j])}}

Removed(row) == [type |-> row.type, actual |-> row.actual, live |-> FALSE]

Init == records = <<>> /\ book = {} /\ exact \in BOOLEAN

Create(i) == i = Len(records) + 1 /\ \E v \in Value : records' = Append(records, v)

Change(i) ==
  /\ i \in DOMAIN records /\ records[i].live
  /\ \E v \in Value : records' = [records EXCEPT ![i] = v]

Remove(i) ==
  /\ i \in DOMAIN records /\ records[i].live
  /\ records' = [records EXCEPT ![i] = Removed(@)]

\* An operation that found nothing to change in the record itself.
Repost(i) == i \in DOMAIN records /\ records' = records

Others(i) == {p \in book : p.record # i}

Next ==
  /\ \E i \in 1 .. Len(records) + 1 :
       (Create(i) \/ Change(i) \/ Remove(i) \/ Repost(i)) /\ Others(i)' = Others(i)
  /\ exact => book' = Postings(records')
  /\ exact' = exact

Spec == Init /\ [][Next]_<<records, book, exact>>

===============================================================================
