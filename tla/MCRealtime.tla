----------------------------- MODULE MCRealtime -----------------------------
EXTENDS Realtime, TLC

CONSTANTS t1, k1, k2, j1, j2, ann

\* One user, notified twice under one title.
MCUserOf == (t1 :> ann) @@ (j1 :> ann) @@ (j2 :> ann)
MCTitleOf == (j1 :> "title") @@ (j2 :> "title")
=============================================================================
