-------------------------- MODULE ScreenVocabulary --------------------------
(***************************************************************************)
(* The words in which the screens of the web client are described.  A      *)
(* screen is a React component with the state it keeps, the requests that  *)
(* fill it and the handlers its buttons call; module Screens says how such *)
(* a description runs.  A description names only what differs from the     *)
(* defaults below:                                                         *)
(*                                                                         *)
(*   loads   the reads that fill the screen: a useQuery, or an effect or a *)
(*           load() function that awaits an api call and calls setState    *)
(*   acts    the handlers: what disables them or makes them return early,  *)
(*           what they set before the call, which call they make, and what *)
(*           they do with its answer and with its failure                  *)
(*   drafts  the forms and texts the user edits before they are sent       *)
(*   axes    the selections: a route parameter, a filter, a chosen row     *)
(*   on      the flags that are on at first (a flag is a useState Boolean, *)
(*           or the id of a row, or the isPending of a mutation)           *)
(***************************************************************************)
EXTENDS TLC

Load(d) == d @@
  [data    |-> {},      \* the server data it reads, and so the first words of its query key (itself, if none is given)
   by      |-> "",      \* the axis whose value is in the query key or in the effect's dependencies
   needs   |-> {},      \* flags that must be on (the enabled option, an if around the call)
   asked   |-> FALSE,   \* not requested when the screen is mounted, only by a handler
   fixed   |-> FALSE,   \* not requested again when the axis moves
   keyed   |-> FALSE,   \* answers of an older request or of another key are dropped
   joins   |-> FALSE,   \* asked for again before anything is shown, the request that is out stands for both
   blank   |-> FALSE,   \* what is shown is cleared when a request starts
   blanked |-> FALSE,   \* what is shown is cleared when a request fails
   busy    |-> {},      \* flags on from the request to its answer or failure
   fills   |-> {},      \* drafts overwritten by an answer
   may     |-> {},      \* drafts overwritten by some answers only (if the answer has the field)
   picks   |-> {},      \* axes an answer sets to its first object ...
   returns |-> {},      \* ... or back to the object it was asked for
   polls   |-> FALSE]   \* repeated by an interval, or by react-query on focus and reconnect

\* useQuery: keyed by construction, refetched on focus and reconnect.
Query(d) == Load(d @@ [keyed |-> TRUE, joins |-> TRUE, polls |-> TRUE])

Act(d) == d @@
  [home     |-> "",     \* the flag of the dialog that holds the handler and its pending flag: once it
                        \* is closed, an answer only does what the hook of the mutation does
   row      |-> FALSE,  \* the handler belongs to a row of a list
   of       |-> "",     \* otherwise: the axis whose value is the object of the call
   need     |-> {},     \* flags that must be on ...
   unless   |-> {},     \* ... or off (disabled=, an early return, a closed dialog)
   unlessMe |-> {},     \* flags that disable only the row whose id they hold
   shows    |-> {},     \* loads whose answer must be on the screen
   typed    |-> {},     \* drafts that must have been edited ...
   clean    |-> {},     \* ... or must not have been
   sets     |-> {},     \* flags set when clicked ...
   setsMe   |-> {},     \* ... to the id of the row
   clears   |-> {},     \* flags cleared when clicked
   moves    |-> {},     \* axes moved: to the row, or to any other object
   edits    |-> {},     \* drafts the user types in
   drops    |-> {},     \* drafts the user gives up or starts anew
   call     |-> "",     \* "", "read" (computes something to show) or "write"
   busy     |-> {},     \* flags on from the call to its answer or failure ...
   busyMe   |-> {},     \* ... holding the id of the row
   stuck    |-> {},     \* those of busy and busyMe that a failure leaves on
   sends    |-> {},     \* drafts the call carries
   lands    |-> {},     \* drafts the answer is written into
   parts    |-> FALSE,  \* several calls one after the other: a failure may follow the first of them
   changes  |-> {},     \* the server data the call changes
   early    |-> {},     \* loads whose shown copy is changed at the click, and left so by a failure
   patches  |-> {},     \* loads whose shown copy is updated from the answer
   replaces |-> {},     \* loads replaced by a copy of the list as it was at the click
   reload   |-> {},     \* loads requested after the answer (at once if there is no call); one that is
                        \* not keyed is asked for the selection the handler saw when it was clicked
   expires  |-> {},     \* data whose queries are invalidated, and so requested, after the answer
   awaits   |-> FALSE,  \* the busy flags stay on until these loads are answered
   always   |-> FALSE,  \* the loads are requested after a failure too
   okSets   |-> {},     \* flags set and cleared by the answer
   okClears |-> {},
   okDrops  |-> {},     \* drafts cleared by the answer
   lastly   |-> {},     \* drafts cleared once the awaited loads are back
   okMoves  |-> {},     \* axes the answer moves to another object ...
   okBack   |-> {}]     \* ... or back to the object of the call

\* Handlers that only touch the screen itself.
Open(f) == Act([sets |-> {f}])
Close(f) == Act([clears |-> {f}])
Edit(d) == Act([edits |-> {d}])
Choose(x) == Act([row |-> TRUE, moves |-> {x}])
Reload(ls) == Act([reload |-> ls])

\* useMutation: one pending flag, the same for every caller of the hook.  A
\* call with a flag of its own set before it and cleared in its finally reads alike.
Writing(pending) == [call |-> "write", busy |-> {pending}]
Asking(pending) == [call |-> "read", busy |-> {pending}]

\* A mutation whose hook invalidates just what it changes.
Mutation(pending, ds) == Writing(pending) @@ [changes |-> ds, expires |-> ds]

\* A write after which the list l is loaded again, without or with being awaited.
Saving(l, d) == Act(d @@ [call |-> "write", changes |-> {l}, reload |-> {l}])
SavingAwaited(l, d) == Saving(l, d @@ [awaits |-> TRUE])

\* A list that is emptied by a failure and hides its rows while it is loading.
Listing(axis) == Load([by |-> axis, busy |-> {"loading"}, blanked |-> TRUE])
OfRow == [row |-> TRUE, unless |-> {"loading"}]
RowWrite(ds) == OfRow @@ [call |-> "write", changes |-> ds, reload |-> ds]

\* What a draft is about: nothing selectable, or the object of an axis.  A
\* following draft is refilled by an effect whenever its axis moves.
Free == [by |-> "", follows |-> FALSE]
Of(axis) == [by |-> axis, follows |-> FALSE]
Following(axis) == [by |-> axis, follows |-> TRUE]

Screen(d) == d @@ [loads |-> <<>>, acts |-> <<>>, drafts |-> <<>>, axes |-> {}, on |-> {}]
=============================================================================
