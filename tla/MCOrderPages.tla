---------------------------- MODULE MCOrderPages ----------------------------
(* TLC instance of OrderPages.                                               *)
EXTENDS OrderPages
==============================================================================
