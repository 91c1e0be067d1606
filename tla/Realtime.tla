------------------------------ MODULE Realtime ------------------------------
(***************************************************************************)
(* Notifications on their way to the open pages.  A notification is a row, *)
(* pushed to the sockets that are registered when it is committed.  A page *)
(* buys a single-use ticket for a socket, dials, and tries again five      *)
(* seconds after any failure; a push only tells it to ask for the list,    *)
(* which it also asks for every thirty seconds.                            *)
(*                                                                         *)
(* Tickets and registered sockets live in the server's memory and do not   *)
(* survive it.  A line is one attempt of a page: the call for its ticket,  *)
(* the ticket, and the socket dialled with it.                             *)
(***************************************************************************)
EXTENDS Naturals, FiniteSets

CONSTANTS Tabs,      \* pages that may be open
          Lines,     \* bound: attempts under way at a time
          Jobs,      \* requests to notify; the row a job writes has its name
          UserOf,    \* the user of a tab or a job
          TitleOf    \* the title a job notifies under

ASSUME RealtimeAssumption ==
  /\ Tabs \intersect Jobs = {}
  /\ IsFiniteSet(Jobs)

VARIABLES
  mounted,  \* tab -> its layout is on the screen and the user signed in
  timer,    \* tab -> a retry is scheduled
  owner,    \* line -> the tab it is or was of
  client,   \* line -> none, asking, answered, dialing or open
  stopped,  \* line -> it is over, or the effect it belongs to has been cleaned up
  tickets,  \* lines whose ticket is valid
  handler,  \* line -> none, accepting, accepted or listening
  conns,    \* lines registered for pushes
  inbox,    \* line -> rows pushed and not yet received
  rows,     \* notifications committed
  job,      \* job -> new, checked, committed, sending or done
  todo,     \* job -> registered lines it has not pushed to yet
  stale,    \* job -> lines it failed to push to
  fetch,    \* tab -> its request for the list: none, out or served
  answer,   \* tab -> what was read for it
  data,     \* tab -> the list it shows
  loaded,   \* tab -> some list has reached it
  told      \* tab -> rows pushed to it since its last request was answered or failed

page == <<mounted, timer, owner, client, stopped>>
server == <<tickets, handler, conns>>
making == <<rows, job, todo, stale>>
list == <<fetch, answer, data, loaded, told>>
vars == <<page, server, inbox, making, list>>

\* A line no one holds on to, and that a page may use next.
Unused(k) ==
  /\ client[k] = "none" /\ handler[k] = "none"
  /\ k \notin tickets \union conns
  /\ \A j \in Jobs : k \notin todo[j] \union stale[j]

ListOf(u) == {j \in rows : UserOf[j] = u}
Recent(j) == {i \in rows : UserOf[i] = UserOf[j] /\ TitleOf[i] = TitleOf[j]}

Init ==
  /\ mounted = [t \in Tabs |-> FALSE]
  /\ timer = [t \in Tabs |-> FALSE]
  /\ owner \in {[k \in Lines |-> t] : t \in Tabs}
  /\ client = [k \in Lines |-> "none"]
  /\ stopped = [k \in Lines |-> TRUE]
  /\ tickets = {} /\ conns = {}
  /\ handler = [k \in Lines |-> "none"]
  /\ inbox = [k \in Lines |-> {}]
  /\ rows = {}
  /\ job = [j \in Jobs |-> "new"]
  /\ todo = [j \in Jobs |-> {}]
  /\ stale = [j \in Jobs |-> {}]
  /\ fetch = [t \in Tabs |-> "none"]
  /\ answer = [t \in Tabs |-> {}]
  /\ data = [t \in Tabs |-> {}]
  /\ loaded = [t \in Tabs |-> FALSE]
  /\ told = [t \in Tabs |-> {}]

-----------------------------------------------------------------------------
(* The page: useRealtimeNotifications *)

\* connect() starts with the call for a ticket.
Connect(t) ==
  \E k \in Lines :
    /\ Unused(k)
    /\ owner' = [owner EXCEPT ![k] = t]
    /\ client' = [client EXCEPT ![k] = "asking"]
    /\ stopped' = [stopped EXCEPT ![k] = FALSE]

\* The layout is mounted with a token; its list is requested unless it is already.
Mount(t) ==
  /\ ~mounted[t]
  /\ mounted' = [mounted EXCEPT ![t] = TRUE]
  /\ Connect(t)
  /\ fetch' = [fetch EXCEPT ![t] = IF @ = "none" THEN "out" ELSE @]
  /\ UNCHANGED <<timer, server, inbox, making, answer, data, loaded, told>>

\* The cleanup of the effect: no retry, and the socket closed without hearing of it.
Unmount(t) ==
  LET mine == {k \in Lines : owner[k] = t}
      up == {k \in mine : client[k] \in {"dialing", "open"}}
  IN /\ mounted[t]
     /\ mounted' = [mounted EXCEPT ![t] = FALSE]
     /\ timer' = [timer EXCEPT ![t] = FALSE]
     /\ stopped' = [k \in Lines |-> k \in mine \/ stopped[k]]
     /\ client' = [k \in Lines |-> IF k \in up THEN "none" ELSE client[k]]
     /\ inbox' = [k \in Lines |-> IF k \in up THEN {} ELSE inbox[k]]
     /\ UNCHANGED <<owner, server, making, list>>

\* What the catch clause and onclose do: another attempt in five seconds.
RetryLater(k) ==
  /\ client' = [client EXCEPT ![k] = "none"]
  /\ stopped' = [stopped EXCEPT ![k] = TRUE]
  /\ inbox' = [inbox EXCEPT ![k] = {}]
  /\ timer' = [timer EXCEPT ![owner[k]] = @ \/ ~stopped[k]]

\* The call for the ticket fails, or its answer is lost.
AskFails(k) ==
  /\ client[k] \in {"asking", "answered"}
  /\ RetryLater(k)
  /\ UNCHANGED <<mounted, owner, server, making, list>>

\* Mutant: the cleanup of the effect is not looked at after the await.
DialAnyway(k) ==
  /\ client[k] = "answered"
  /\ client' = [client EXCEPT ![k] = "dialing"]
  /\ UNCHANGED <<mounted, timer, owner, stopped, server, inbox, making, list>>

\* The ticket has come: the socket is made, unless the effect was cleaned up meanwhile.
\* (The early return without a ticket never fires: issue_ticket always returns one.)
Dial(k) ==
  /\ client[k] = "answered"
  /\ client' = [client EXCEPT ![k] = IF stopped[k] THEN "none" ELSE "dialing"]
  /\ UNCHANGED <<mounted, timer, owner, stopped, server, inbox, making, list>>

\* onclose, for whatever reason; the server may not know yet.
Dropped(k) ==
  /\ client[k] \in {"dialing", "open"}
  /\ RetryLater(k)
  /\ UNCHANGED <<mounted, owner, server, making, list>>

Retry(t) ==
  /\ timer[t]
  /\ timer' = [timer EXCEPT ![t] = FALSE]
  /\ Connect(t)
  /\ UNCHANGED <<mounted, server, inbox, making, list>>

-----------------------------------------------------------------------------
(* The server: realtime_service and the routes over it *)

IssueTicket(k) ==
  /\ client[k] = "asking"
  /\ client' = [client EXCEPT ![k] = "answered"]
  /\ tickets' = tickets \union {k}
  /\ UNCHANGED <<mounted, timer, owner, stopped, handler, conns, inbox, making, list>>

\* Sixty seconds: an expired ticket is removed before any is looked up.
Expire(k) ==
  /\ k \in tickets
  /\ tickets' = tickets \ {k}
  /\ UNCHANGED <<page, handler, conns, inbox, making, list>>

\* The socket arrives with its ticket, which is taken: without one it is closed.
ConsumeTicket(k) ==
  /\ client[k] = "dialing" /\ handler[k] = "none"
  /\ IF k \in tickets
     THEN /\ tickets' = tickets \ {k}
          /\ handler' = [handler EXCEPT ![k] = "accepting"]
          /\ UNCHANGED <<page, conns, inbox>>
     ELSE /\ RetryLater(k)
          /\ UNCHANGED <<mounted, owner, server>>
  /\ UNCHANGED <<making, list>>

\* accept(): the page hears that the socket is open; it fails if the page has gone.
Accept(k) ==
  /\ handler[k] = "accepting"
  /\ IF client[k] = "dialing"
     THEN /\ client' = [client EXCEPT ![k] = "open"]
          /\ handler' = [handler EXCEPT ![k] = "accepted"]
     ELSE /\ handler' \in {[handler EXCEPT ![k] = h] : h \in {"accepted", "none"}}
          /\ UNCHANGED client
  /\ UNCHANGED <<mounted, timer, owner, stopped, tickets, conns, inbox, making, list>>

\* The registration waits for the lock: what is pushed before it passes this socket by.
Register(k) ==
  /\ handler[k] = "accepted"
  /\ handler' = [handler EXCEPT ![k] = "listening"]
  /\ conns' = conns \union {k}
  /\ UNCHANGED <<page, tickets, inbox, making, list>>

\* Mutant: the handler ends without taking its socket off the register.
HangUpSilently(k) ==
  /\ handler[k] = "listening" /\ client[k] # "open"
  /\ handler' = [handler EXCEPT ![k] = "none"]
  /\ UNCHANGED <<page, tickets, conns, inbox, making, list>>

\* receive_text() raises once the page has gone.
HangUp(k) ==
  /\ handler[k] = "listening" /\ client[k] # "open"
  /\ handler' = [handler EXCEPT ![k] = "none"]
  /\ conns' = conns \ {k}
  /\ UNCHANGED <<page, tickets, inbox, making, list>>

\* The process restarts: rows stay, and what it was doing is gone.  The pages find out later.
Restart ==
  /\ tickets' = {} /\ conns' = {}
  /\ handler' = [k \in Lines |-> "none"]
  /\ job' = [j \in Jobs |-> IF job[j] = "new" THEN "new" ELSE "done"]
  /\ todo' = [j \in Jobs |-> {}]
  /\ stale' = [j \in Jobs |-> {}]
  /\ UNCHANGED <<page, inbox, rows, list>>

-----------------------------------------------------------------------------
(* create_notification *)

\* Skipped if the title was notified today, and an exception if it was twice.
Check(j) ==
  /\ job[j] = "new"
  /\ job' = [job EXCEPT ![j] = IF Recent(j) = {} THEN "checked" ELSE "done"]
  /\ UNCHANGED <<page, server, inbox, rows, todo, stale, list>>

Commit(j) ==
  /\ job[j] = "checked"
  /\ job' = [job EXCEPT ![j] = "committed"]
  /\ rows' = rows \union {j}
  /\ UNCHANGED <<page, server, inbox, todo, stale, list>>

\* The sockets registered now; the lock is not held while they are written to.
Broadcast(j) ==
  /\ job[j] = "committed"
  /\ job' = [job EXCEPT ![j] = "sending"]
  /\ todo' = [todo EXCEPT ![j] = {k \in conns : UserOf[owner[k]] = UserOf[j]}]
  /\ UNCHANGED <<page, server, inbox, rows, stale, list>>

\* A push to a page that has gone is lost, noticed or not.
Push(j, k) ==
  /\ job[j] = "sending" /\ k \in todo[j]
  /\ todo' = [todo EXCEPT ![j] = @ \ {k}]
  /\ IF client[k] = "open"
     THEN /\ inbox' = [inbox EXCEPT ![k] = @ \union {j}]
          /\ UNCHANGED stale
     ELSE /\ stale' \in {stale, [stale EXCEPT ![j] = @ \union {k}]}
          /\ UNCHANGED inbox
  /\ UNCHANGED <<page, server, rows, job, list>>

\* Lines that failed are taken off the register, one by one.
Disconnect(j, k) ==
  /\ job[j] = "sending" /\ todo[j] = {} /\ k \in stale[j]
  /\ stale' = [stale EXCEPT ![j] = @ \ {k}]
  /\ conns' = conns \ {k}
  /\ UNCHANGED <<page, tickets, handler, inbox, rows, job, todo, list>>

Finish(j) ==
  /\ job[j] = "sending" /\ todo[j] = {} /\ stale[j] = {}
  /\ job' = [job EXCEPT ![j] = "done"]
  /\ UNCHANGED <<page, server, inbox, rows, todo, stale, list>>

-----------------------------------------------------------------------------
(* The list: useNotifications *)

\* Mutant: a push does not ask again while the list is already asked for.
ReceiveJoining(k, j) ==
  /\ client[k] = "open" /\ j \in inbox[k]
  /\ inbox' = [inbox EXCEPT ![k] = @ \ {j}]
  /\ fetch' = [fetch EXCEPT ![owner[k]] = IF @ = "none" THEN "out" ELSE @]
  /\ told' = [told EXCEPT ![owner[k]] = @ \union {j}]
  /\ UNCHANGED <<page, server, making, answer, data, loaded>>

\* onmessage invalidates the list: an older request is given up for a new one, unless it is the
\* first and nothing is shown yet.
Receive(k, j) ==
  /\ client[k] = "open" /\ j \in inbox[k]
  /\ inbox' = [inbox EXCEPT ![k] = @ \ {j}]
  /\ fetch' = [fetch EXCEPT ![owner[k]] = IF loaded[owner[k]] \/ @ = "none" THEN "out" ELSE @]
  /\ told' = [told EXCEPT ![owner[k]] = @ \union {j}]
  /\ UNCHANGED <<page, server, making, answer, data, loaded>>

\* Mutant: the list is only asked for when a push says so.
PollNever(t) == FALSE /\ UNCHANGED vars

\* refetchInterval.
Poll(t) ==
  /\ mounted[t] /\ fetch[t] = "none"
  /\ fetch' = [fetch EXCEPT ![t] = "out"]
  /\ UNCHANGED <<page, server, inbox, making, answer, data, loaded, told>>

Serve(t) ==
  /\ fetch[t] = "out"
  /\ fetch' = [fetch EXCEPT ![t] = "served"]
  /\ answer' = [answer EXCEPT ![t] = ListOf(UserOf[t])]
  /\ UNCHANGED <<page, server, inbox, making, data, loaded, told>>

Arrive(t) ==
  /\ fetch[t] = "served"
  /\ fetch' = [fetch EXCEPT ![t] = "none"]
  /\ answer' = [answer EXCEPT ![t] = {}]
  /\ data' = [data EXCEPT ![t] = answer[t]]
  /\ loaded' = [loaded EXCEPT ![t] = TRUE]
  /\ told' = [told EXCEPT ![t] = {}]
  /\ UNCHANGED <<page, server, inbox, making>>

FetchFails(t) ==
  /\ fetch[t] # "none"
  /\ fetch' = [fetch EXCEPT ![t] = "none"]
  /\ answer' = [answer EXCEPT ![t] = {}]
  /\ told' = [told EXCEPT ![t] = {}]
  /\ UNCHANGED <<page, server, inbox, making, data, loaded>>

-----------------------------------------------------------------------------
OfTab(t) == Mount(t) \/ Unmount(t) \/ Retry(t) \/ Poll(t) \/ Serve(t) \/ Arrive(t) \/ FetchFails(t)
OfLine(k) ==
  \/ AskFails(k) \/ Dial(k) \/ Dropped(k)
  \/ IssueTicket(k) \/ Expire(k) \/ ConsumeTicket(k) \/ Accept(k) \/ Register(k) \/ HangUp(k)
OfJob(j) == Check(j) \/ Commit(j) \/ Broadcast(j) \/ Finish(j)
Between(k, j) == Push(j, k) \/ Disconnect(j, k) \/ Receive(k, j)

Next ==
  \/ \E t \in Tabs : OfTab(t)
  \/ \E k \in Lines : OfLine(k)
  \/ \E j \in Jobs : OfJob(j)
  \/ \E k \in Lines, j \in Jobs : Between(k, j)
  \/ Restart

\* The list is polled while the page is open, and a request that is repeated is answered in the
\* end.  Nothing is assumed of the sockets.
Fairness ==
  \A t \in Tabs : WF_vars(Poll(t)) /\ SF_vars(Serve(t)) /\ SF_vars(Arrive(t))

Spec == Init /\ [][Next]_vars /\ Fairness

-----------------------------------------------------------------------------
TypeOK ==
  /\ mounted \in [Tabs -> BOOLEAN] /\ timer \in [Tabs -> BOOLEAN]
  /\ owner \in [Lines -> Tabs]
  /\ client \in [Lines -> {"none", "asking", "answered", "dialing", "open"}]
  /\ stopped \in [Lines -> BOOLEAN]
  /\ tickets \subseteq Lines /\ conns \subseteq Lines
  /\ handler \in [Lines -> {"none", "accepting", "accepted", "listening"}]
  /\ inbox \in [Lines -> SUBSET Jobs]
  /\ rows \subseteq Jobs
  /\ job \in [Jobs -> {"new", "checked", "committed", "sending", "done"}]
  /\ todo \in [Jobs -> SUBSET Lines] /\ stale \in [Jobs -> SUBSET Lines]
  /\ fetch \in [Tabs -> {"none", "out", "served"}]
  /\ answer \in [Tabs -> SUBSET Jobs] /\ data \in [Tabs -> SUBSET Jobs]
  /\ loaded \in [Tabs -> BOOLEAN] /\ told \in [Tabs -> SUBSET Jobs]

\* A line under way for a mounted page: not one that a cleaned-up effect left behind.
Current(t) == {k \in Lines : owner[k] = t /\ client[k] # "none" /\ ~stopped[k]}

\* A page on the screen has one attempt under way or one retry scheduled, never both, never two
\* and never none; a page that has gone has neither, and no socket stays open for it.
OneLineEach ==
  \A t \in Tabs :
    /\ \A k \in Lines : owner[k] = t /\ client[k] \in {"dialing", "open"} => k \in Current(t)
    /\ IF mounted[t] /\ ~timer[t] THEN \E k \in Lines : Current(t) = {k} ELSE Current(t) = {}
    /\ timer[t] => mounted[t]

\* A page that shows a list and has been pushed a notification shows it with the next list that
\* reaches it: no answer read before the push is taken for the one asked for after it.
PushShowsIt == [][\A t \in Tabs : loaded[t] /\ Arrive(t) => told[t] \subseteq data'[t]]_vars

\* A registered socket has a handler that waits for its end and will take it off the register.
RegisteredIsServed == \A k \in conns : handler[k] = "listening"

\* However sockets, requests and the server fail, a page that stays open catches up again and
\* again with all that was committed for its user.
CatchesUp == \A t \in Tabs : []<>(~mounted[t] \/ ListOf(UserOf[t]) \subseteq data[t])
=============================================================================
