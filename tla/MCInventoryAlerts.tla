-------------------------- MODULE MCInventoryAlerts --------------------------
(* TLC instance of InventoryAlerts: scans and handlers are interchangeable.   *)
EXTENDS InventoryAlerts, TLC

Interchangeable == Permutations(Scans) \cup Permutations(Handlers)
===============================================================================
