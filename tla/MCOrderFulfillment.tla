-------------------------- MODULE MCOrderFulfillment --------------------------
(* TLC instance of OrderFulfillment: the status dictionary of the tests.      *)
EXTENDS OrderFulfillment, TLC

Interchangeable ==
  Permutations(Orders) \cup Permutations(Shipments) \cup Permutations(Users)
    \cup Permutations(Requests) \cup Permutations(Costs)

TestDictionary == {"pending", "processing", "shipped", "delivered", "cancelled"}

\* The platform also reports a status this dictionary does not know.
TestStatuses == TestDictionary \cup {"completed"}

TestNext == [s \in TestDictionary |->
  CASE s = "pending" -> {"processing", "cancelled"}
    [] s = "processing" -> {"shipped", "cancelled"}
    [] s = "shipped" -> {"delivered"}
    [] OTHER -> {}]

TestMoves == {"draft", "shipped", "delivered"}
===============================================================================
