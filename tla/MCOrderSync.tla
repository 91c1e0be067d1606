----------------------------- MODULE MCOrderSync -----------------------------
(* TLC instance of OrderSync: an order has a fee at an even time, and every   *)
(* other version of it has the same total; one order is unsound in its first  *)
(* version and corrected in its second.                                       *)
EXTENDS OrderSync

CONSTANT o1

FirstUnsound == {<<o1, 1>>}
EvenTimes == {t \in Times : t % 2 = 0}
Alternating == [t \in Times |-> 1 + (t % 2)]
==============================================================================
