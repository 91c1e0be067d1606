-------------------------- MODULE MCOperationLedger --------------------------
(* TLC instance of OperationLedger: two types that post, one that does not.   *)
EXTENDS OperationLedger, TLC

SomeTypes == {"ad_campaign", "receivable", "listing_optimization"}

SomeEntryTypes == [t \in SomeTypes |->
  CASE t = "ad_campaign" -> "advertising_cost"
    [] t = "receivable" -> "order_income"
    [] OTHER -> NotPosted]

TwoTypes == {"ad_campaign", "listing_optimization"}
TwoEntryTypes == [t \in TwoTypes |-> SomeEntryTypes[t]]

Interchangeable == Permutations(Requests)
===============================================================================
