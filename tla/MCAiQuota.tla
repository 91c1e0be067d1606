------------------------------ MODULE MCAiQuota ------------------------------
(* TLC instance of AiQuota: the requests of the user are interchangeable.     *)
EXTENDS AiQuota, TLC

Interchangeable == Permutations(Requests)
===============================================================================
