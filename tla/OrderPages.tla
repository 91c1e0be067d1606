----------------------------- MODULE OrderPages -----------------------------
(***************************************************************************)
(* SyncService._fetch_order_pages: the page loop behind the FetchPages     *)
(* step of OrderSync.  Each page is a request of its own (an await), so    *)
(* the list of orders in the window moves while it is read: an order may   *)
(* be added at its end, or leave it because it changed after the window.   *)
(* The platform may report the total of the list or not, answer a page     *)
(* with nothing, or repeat its first page.                                 *)
(***************************************************************************)
EXTENDS Integers, SequencesExt

CONSTANTS Ids,       \* platform order ids
          PageSize,  \* page_size, 50 in the code
          MaxPages   \* the loop's limit, 1000 in the code

ASSUME PagesAssumption ==
  /\ IsFiniteSet(Ids)
  /\ PageSize \in Nat \ {0} /\ MaxPages \in Nat \ {0}

VARIABLES
  listing,       \* the orders in the window, as the platform lists them
  reportsTotal,  \* the platform reports the length of its list
  first,         \* the list when the first page was requested
  disturbed,     \* an order left the list, or a page was not the one requested
  page, collected, pc

platform == <<listing, reportsTotal, first>>
pageVars == <<platform, disturbed, page, collected, pc>>

PagesTypeOK ==
  /\ listing \in Seq(Ids) /\ first \in Seq(Ids) /\ collected \in Seq(Ids)
  /\ reportsTotal \in BOOLEAN /\ disturbed \in BOOLEAN
  /\ page \in 1 .. MaxPages + 1
  /\ pc \in {"paging", "done"}

PagesInit ==
  /\ listing \in SetToAllKPermutations(Ids)
  /\ first = listing
  /\ reportsTotal \in BOOLEAN /\ disturbed = FALSE
  /\ page = 1 /\ collected = <<>> /\ pc = "paging"

\* Page n of the list: empty beyond its end.
Slice(n) ==
  SubSeq(listing, (n - 1) * PageSize + 1,
         IF n * PageSize <= Len(listing) THEN n * PageSize ELSE Len(listing))

\* Mutant: items already seen are appended again.
AllOf(items) == collected \o items

\* Each item is appended unless its id has been seen.
Unseen(items) ==
  LET taken[n \in 0 .. Len(items)] ==
        IF n = 0 THEN collected
        ELSE IF items[n] \in ToSet(taken[n - 1]) THEN taken[n - 1]
             ELSE Append(taken[n - 1], items[n])
  IN taken[Len(items)]

\* Mutant: an off-by-one against the reported total.
CompleteEarly(n) == reportsTotal /\ n + 1 >= Len(listing)

Complete(n) == reportsTotal /\ n >= Len(listing)

\* Mutant: after a page that brought nothing new the one before it is requested again.
TakeAgain(items) ==
  /\ collected' = Unseen(items)
  /\ IF Complete(Len(collected'))
       THEN pc' = "done" /\ page' = page
       ELSE pc' = pc /\ page' = IF collected' = collected /\ page > 1 THEN page - 1 ELSE page + 1

Take(items) ==
  /\ collected' = Unseen(items)
  /\ IF Complete(Len(collected'))
       THEN pc' = "done" /\ page' = page
       ELSE pc' = pc /\ page' = page + 1

FetchPage ==
  /\ pc = "paging" /\ page <= MaxPages
  /\ \E items \in {Slice(page), <<>>, Slice(1)} :
       /\ disturbed' = (disturbed \/ items # Slice(page))
       /\ \/ items = <<>> /\ pc' = "done" /\ UNCHANGED <<page, collected>>
          \/ items # <<>> /\ Take(items)
  /\ UNCHANGED platform

PageLimit ==
  /\ pc = "paging" /\ page > MaxPages
  /\ pc' = "done"
  /\ UNCHANGED <<platform, disturbed, page, collected>>

OrderAdded ==
  /\ pc = "paging"
  /\ \E o \in Ids \ ToSet(listing) : listing' = Append(listing, o)
  /\ UNCHANGED <<reportsTotal, first, disturbed, page, collected, pc>>

\* The order changed after the window's end: the orders behind it move forward.
OrderLeaves ==
  /\ pc = "paging" /\ disturbed' = TRUE
  /\ \E i \in DOMAIN listing : listing' = RemoveAt(listing, i)
  /\ UNCHANGED <<reportsTotal, first, page, collected, pc>>

Returned == pc = "done" /\ UNCHANGED pageVars

PagesNext == FetchPage \/ PageLimit \/ OrderAdded \/ OrderLeaves \/ Returned

\* The event loop resumes the coroutine after each answer.
PagesSpec == PagesInit /\ [][PagesNext]_pageVars /\ WF_pageVars(FetchPage \/ PageLimit)

-----------------------------------------------------------------------------

\* The list returned holds no order twice, although pages repeat and overlap:
\* counted twice, an order would satisfy the total before the list is complete.
NoOrderTwice == \A i, j \in DOMAIN collected : collected[i] = collected[j] => i = j

\* If no order left the list and every page was the one requested, then every order
\* listed at the first request is returned, wherever new ones were added, up to the
\* limit of pages.
AllListedReturned ==
  pc = "done" /\ ~disturbed =>
    \A i \in DOMAIN first : i <= MaxPages * PageSize => first[i] \in ToSet(collected)

\* The loop ends even on a platform that repeats a page for ever (the page limit).
FetchEnds == <>(pc = "done")
=============================================================================
