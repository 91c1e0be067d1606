--------------------------- MODULE Realtime_proofs ---------------------------
(***************************************************************************)
(* Proofs about Realtime for any number of pages, lines, users and         *)
(* notifications: a page on the screen has one attempt under way or one    *)
(* retry scheduled (OneLineEach), a registered socket is served            *)
(* (RegisteredIsServed), and the list asked for after a push shows what    *)
(* was pushed (PushShowsIt).                                               *)
(***************************************************************************)
EXTENDS Realtime, TLAPS

-----------------------------------------------------------------------------
(* Type correctness.                                                       *)

LEMMA InitType == Init => TypeOK
  BY DEF Init, TypeOK

LEMMA TabType ==
  ASSUME TypeOK, NEW t \in Tabs, OfTab(t)
  PROVE  TypeOK'
<1>1. CASE Mount(t)
  BY <1>1 DEF TypeOK, Mount, Connect, server, making
<1>2. CASE Unmount(t)
  BY <1>2 DEF TypeOK, Unmount, server, making, list
<1>3. CASE Retry(t)
  BY <1>3 DEF TypeOK, Retry, Connect, server, making, list
<1>4. CASE Poll(t)
  BY <1>4 DEF TypeOK, Poll, page, server, making
<1>5. CASE Serve(t)
  BY <1>5 DEF TypeOK, Serve, ListOf, page, server, making
<1>6. CASE Arrive(t)
  BY <1>6 DEF TypeOK, Arrive, page, server, making
<1>7. CASE FetchFails(t)
  BY <1>7 DEF TypeOK, FetchFails, page, server, making
<1>8. QED
  BY <1>1, <1>2, <1>3, <1>4, <1>5, <1>6, <1>7 DEF OfTab

LEMMA LineType ==
  ASSUME TypeOK, NEW k \in Lines, OfLine(k)
  PROVE  TypeOK'
<1>1. CASE AskFails(k)
  BY <1>1 DEF TypeOK, AskFails, RetryLater, server, making, list
<1>2. CASE Dial(k)
  BY <1>2 DEF TypeOK, Dial, server, making, list
<1>3. CASE Dropped(k)
  BY <1>3 DEF TypeOK, Dropped, RetryLater, server, making, list
<1>4. CASE IssueTicket(k)
  BY <1>4 DEF TypeOK, IssueTicket, making, list
<1>5. CASE Expire(k)
  BY <1>5 DEF TypeOK, Expire, page, making, list
<1>6. CASE ConsumeTicket(k)
  BY <1>6 DEF TypeOK, ConsumeTicket, RetryLater, page, server, making, list
<1>7. CASE Accept(k)
  BY <1>7 DEF TypeOK, Accept, making, list
<1>8. CASE Register(k)
  BY <1>8 DEF TypeOK, Register, page, making, list
<1>9. CASE HangUp(k)
  BY <1>9 DEF TypeOK, HangUp, page, making, list
<1>10. QED
  BY <1>1, <1>2, <1>3, <1>4, <1>5, <1>6, <1>7, <1>8, <1>9 DEF OfLine

LEMMA JobType ==
  ASSUME TypeOK, NEW j \in Jobs, OfJob(j) \/ \E k \in Lines : Between(k, j)
  PROVE  TypeOK'
<1>1. CASE Check(j)
  BY <1>1 DEF TypeOK, Check, page, server, list
<1>2. CASE Commit(j)
  BY <1>2 DEF TypeOK, Commit, page, server, list
<1>3. CASE Broadcast(j)
  BY <1>3 DEF TypeOK, Broadcast, page, server, list
<1>4. CASE Finish(j)
  BY <1>4 DEF TypeOK, Finish, page, server, list
<1>5. ASSUME NEW k \in Lines, Push(j, k)
      PROVE  TypeOK'
  <2>1. todo' \in [Jobs -> SUBSET Lines]
    BY <1>5 DEF TypeOK, Push
  <2>2. /\ stale' = stale \/ stale' = [stale EXCEPT ![j] = @ \union {k}]
        /\ inbox' = inbox \/ inbox' = [inbox EXCEPT ![k] = @ \union {j}]
    BY <1>5 DEF Push
  <2>3. stale' \in [Jobs -> SUBSET Lines]
    BY <2>2 DEF TypeOK
  <2>4. inbox' \in [Lines -> SUBSET Jobs]
    BY <2>2 DEF TypeOK
  <2>5. QED
    BY <1>5, <2>1, <2>3, <2>4 DEF TypeOK, Push, page, server, list
<1>6. ASSUME NEW k \in Lines, Disconnect(j, k)
      PROVE  TypeOK'
  BY <1>6 DEF TypeOK, Disconnect, page, list
<1>7. ASSUME NEW k \in Lines, Receive(k, j)
      PROVE  TypeOK'
  BY <1>7 DEF TypeOK, Receive, page, server, making
<1>8. QED
  BY <1>1, <1>2, <1>3, <1>4, <1>5, <1>6, <1>7 DEF OfJob, Between

LEMMA RestartType ==
  ASSUME TypeOK, Restart
  PROVE  TypeOK'
  BY DEF TypeOK, Restart, page, list

LEMMA NextType == TypeOK /\ [Next]_vars => TypeOK'
<1> SUFFICES ASSUME TypeOK, [Next]_vars
             PROVE  TypeOK'
  OBVIOUS
<1>1. CASE UNCHANGED vars
  BY <1>1 DEF TypeOK, vars, page, server, making, list
<1>2. CASE Next
  BY <1>2, TabType, LineType, JobType, RestartType DEF Next
<1>3. QED
  BY <1>1, <1>2

\* Every value stays in the set its declaration names.
THEOREM TypeCorrect == Spec => []TypeOK
<1>1. QED
  BY InitType, NextType, PTL DEF Spec

-----------------------------------------------------------------------------
(* The register.                                                           *)

\* A socket is registered by the handler that waits for its end, which unregisters it; a
\* restart forgets both.
LEMMA ServedStep ==
  ASSUME TypeOK, RegisteredIsServed, [Next]_vars
  PROVE  RegisteredIsServed'
<1>1. ASSUME NEW k \in Lines, OfLine(k)
      PROVE  RegisteredIsServed'
  <2>1. CASE AskFails(k) \/ Dial(k) \/ Dropped(k)
    BY <2>1 DEF RegisteredIsServed, AskFails, Dial, Dropped, server
  <2>2. CASE IssueTicket(k) \/ Expire(k)
    BY <2>2 DEF RegisteredIsServed, IssueTicket, Expire
  <2>3. CASE ConsumeTicket(k)
    BY <2>3 DEF TypeOK, RegisteredIsServed, ConsumeTicket, server
  <2>4. CASE Accept(k)
    BY <2>4 DEF TypeOK, RegisteredIsServed, Accept
  <2>5. CASE Register(k)
    BY <2>5 DEF TypeOK, RegisteredIsServed, Register
  <2>6. CASE HangUp(k)
    BY <2>6 DEF TypeOK, RegisteredIsServed, HangUp
  <2>7. QED
    BY <1>1, <2>1, <2>2, <2>3, <2>4, <2>5, <2>6 DEF OfLine
<1>2. ASSUME NEW t \in Tabs, OfTab(t)
      PROVE  RegisteredIsServed'
  BY <1>2 DEF RegisteredIsServed, OfTab, Mount, Unmount, Retry, Poll, Serve, Arrive, FetchFails, server
<1>3. ASSUME NEW j \in Jobs, OfJob(j)
      PROVE  RegisteredIsServed'
  BY <1>3 DEF RegisteredIsServed, OfJob, Check, Commit, Broadcast, Finish, server
<1>4. ASSUME NEW j \in Jobs, NEW k \in Lines, Between(k, j)
      PROVE  RegisteredIsServed'
  BY <1>4 DEF RegisteredIsServed, Between, Push, Disconnect, Receive, server
<1>5. CASE Restart
  BY <1>5 DEF RegisteredIsServed, Restart
<1>6. CASE UNCHANGED vars
  BY <1>6 DEF RegisteredIsServed, vars, server
<1>7. QED
  BY <1>1, <1>2, <1>3, <1>4, <1>5, <1>6 DEF Next

\* However pages come and go and the server restarts, a registered socket has a handler that
\* waits for its end.
THEOREM SocketsAreServed == Spec => []RegisteredIsServed
<1>1. Init => RegisteredIsServed
  BY DEF Init, RegisteredIsServed
<1>2. TypeOK /\ RegisteredIsServed /\ [Next]_vars => RegisteredIsServed'
  BY ServedStep
<1>3. QED
  BY <1>1, <1>2, TypeCorrect, PTL DEF Spec

-----------------------------------------------------------------------------
(* One line each.                                                          *)

\* What the steps of a line leave of the attempts under way: its owner keeps its screen, and the
\* line ends, goes on, or schedules the retry of the attempt it was.
LEMMA LineKeeps ==
  ASSUME TypeOK, OneLineEach, NEW k \in Lines, OfLine(k)
  PROVE  OneLineEach'
<1>1. ASSUME client[k] # "none", RetryLater(k), UNCHANGED <<mounted, owner>>
      PROVE  OneLineEach'
  <2> DEFINE o == owner[k]
  <2>1. o \in Tabs
    BY DEF TypeOK
  <2>2. /\ client'[k] = "none" /\ stopped'[k]
        /\ \A i \in Lines \ {k} : client'[i] = client[i] /\ stopped'[i] = stopped[i]
        /\ \A t \in Tabs \ {o} : timer'[t] = timer[t]
        /\ timer'[o] = (timer[o] \/ ~stopped[k])
    BY <1>1, <2>1 DEF TypeOK, RetryLater
  <2>3. \A t \in Tabs : Current(t)' = Current(t) \ {k}
    BY <1>1, <2>2 DEF Current
  <2>4. ~stopped[k] => Current(o) = {k} /\ mounted[o] /\ ~timer[o]
    BY <1>1, <2>1 DEF OneLineEach, Current
  <2>5. \A t \in Tabs : t # o => k \notin Current(t)
    BY DEF Current
  <2>6. stopped[k] => k \notin Current(o)
    BY DEF Current
  <2>7. ASSUME NEW t \in Tabs
        PROVE  /\ IF mounted'[t] /\ ~timer'[t]
                  THEN \E i \in Lines : Current(t)' = {i} ELSE Current(t)' = {}
               /\ timer'[t] => mounted'[t]
    <3>1. CASE t = o /\ ~stopped[k]
      <4>1. timer'[t] /\ mounted'[t] /\ Current(t)' = {}
        BY <1>1, <2>2, <2>3, <2>4, <3>1
      <4>2. QED
        BY <4>1
    <3>2. CASE t # o \/ stopped[k]
      <4>1. k \notin Current(t) /\ Current(t)' = Current(t)
        BY <2>3, <2>5, <2>6, <3>2
      <4>2. timer'[t] = timer[t] /\ mounted'[t] = mounted[t]
        BY <1>1, <2>2, <3>2 DEF TypeOK
      <4>3. QED
        BY <4>1, <4>2 DEF OneLineEach
    <3>3. QED
      BY <3>1, <3>2
  <2>8. ASSUME NEW t \in Tabs, NEW i \in Lines, owner'[i] = t, client'[i] \in {"dialing", "open"}
        PROVE  i \in Current(t)'
    BY <1>1, <2>2, <2>3, <2>8 DEF OneLineEach
  <2>9. QED
    BY <2>7, <2>8 DEF OneLineEach
<1>2. ASSUME UNCHANGED <<mounted, timer, owner, stopped>>,
             \E c \in {"answered", "dialing", "open"} :
               /\ client[k] # "none"
               /\ client' = [client EXCEPT ![k] = c]
               /\ c = "answered" \/ ~stopped[k]
      PROVE  OneLineEach'
  <2>1. PICK c \in {"answered", "dialing", "open"} :
               /\ client[k] # "none"
               /\ client' = [client EXCEPT ![k] = c]
               /\ c = "answered" \/ ~stopped[k]
    BY <1>2
  <2>2. \A i \in Lines : client'[i] = IF i = k THEN c ELSE client[i]
    BY <2>1 DEF TypeOK
  <2>3. \A t \in Tabs : Current(t)' = Current(t)
    BY <1>2, <2>1, <2>2 DEF Current
  <2>4. \A i \in Lines : client'[i] \in {"dialing", "open"} =>
          client[i] \in {"dialing", "open"} \/ (i = k /\ ~stopped[k])
    BY <2>1, <2>2
  <2>5. QED
    BY <1>2, <2>1, <2>3, <2>4 DEF OneLineEach, Current
<1>3. ASSUME UNCHANGED page
      PROVE  OneLineEach'
  BY <1>3 DEF OneLineEach, Current, page
<1>4. CASE AskFails(k) \/ Dropped(k)
  BY <1>1, <1>4 DEF AskFails, Dropped
<1>5. CASE Dial(k)
  <2>1. CASE ~stopped[k]
    BY <1>2, <1>5, <2>1 DEF Dial
  <2>2. CASE stopped[k]
    <3>1. \A i \in Lines : client'[i] = IF i = k THEN "none" ELSE client[i]
      BY <1>5, <2>2 DEF Dial, TypeOK
    <3>2. \A t \in Tabs : Current(t)' = Current(t)
      BY <1>5, <2>2, <3>1 DEF Dial, Current
    <3>3. QED
      BY <1>5, <3>1, <3>2 DEF Dial, OneLineEach
  <2>3. QED
    BY <2>1, <2>2 DEF TypeOK
<1>6. CASE IssueTicket(k)
  BY <1>2, <1>6 DEF IssueTicket
<1>7. CASE ConsumeTicket(k)
  BY <1>1, <1>3, <1>7 DEF ConsumeTicket, page
<1>8. CASE Accept(k)
  <2>1. CASE client[k] = "dialing"
    <3>1. ~stopped[k]
      BY <2>1 DEF OneLineEach, Current, TypeOK
    <3>2. QED
      BY <1>2, <1>8, <2>1, <3>1 DEF Accept
  <2>2. CASE client[k] # "dialing"
    BY <1>3, <1>8, <2>2 DEF Accept, page
  <2>3. QED
    BY <2>1, <2>2
<1>9. CASE Expire(k) \/ Register(k) \/ HangUp(k)
  BY <1>3, <1>9 DEF Expire, Register, HangUp
<1>10. QED
  BY <1>4, <1>5, <1>6, <1>7, <1>8, <1>9 DEF OfLine

\* A page with nothing under way starts an attempt.
LEMMA ConnectKeeps ==
  ASSUME TypeOK, OneLineEach, NEW t \in Tabs, Connect(t), Current(t) = {},
         mounted'[t], ~timer'[t],
         \A u \in Tabs : u # t => mounted'[u] = mounted[u] /\ timer'[u] = timer[u]
  PROVE  OneLineEach'
<1>1. PICK k \in Lines :
        /\ Unused(k)
        /\ owner' = [owner EXCEPT ![k] = t]
        /\ client' = [client EXCEPT ![k] = "asking"]
        /\ stopped' = [stopped EXCEPT ![k] = FALSE]
  BY DEF Connect
<1>2. client[k] = "none"
  BY <1>1 DEF Unused
<1>3. /\ owner'[k] = t /\ client'[k] = "asking" /\ ~stopped'[k]
      /\ \A i \in Lines \ {k} :
           owner'[i] = owner[i] /\ client'[i] = client[i] /\ stopped'[i] = stopped[i]
  BY <1>1 DEF TypeOK
<1>4. Current(t)' = {k}
  BY <1>3 DEF Current
<1>5. \A u \in Tabs : u # t => Current(u)' = Current(u)
  BY <1>2, <1>3 DEF Current
<1>6. ASSUME NEW u \in Tabs, NEW i \in Lines, owner'[i] = u, client'[i] \in {"dialing", "open"}
      PROVE  i \in Current(u)'
  BY <1>3, <1>6 DEF OneLineEach, Current
<1>7. QED
  BY <1>4, <1>5, <1>6 DEF OneLineEach

LEMMA TabKeeps ==
  ASSUME TypeOK, OneLineEach, NEW t \in Tabs, OfTab(t)
  PROVE  OneLineEach'
<1>1. CASE Mount(t)
  <2>1. Current(t) = {} /\ ~timer[t]
    BY <1>1 DEF Mount, OneLineEach
  <2>2. mounted'[t] /\ \A u \in Tabs : u # t => mounted'[u] = mounted[u]
    BY <1>1 DEF Mount, TypeOK
  <2>3. Connect(t) /\ timer' = timer
    BY <1>1 DEF Mount
  <2>4. QED
    BY <2>1, <2>2, <2>3, ConnectKeeps
<1>2. CASE Retry(t)
  <2>1. Current(t) = {} /\ mounted[t]
    BY <1>2 DEF Retry, OneLineEach
  <2>2. ~timer'[t] /\ \A u \in Tabs : u # t => timer'[u] = timer[u]
    BY <1>2 DEF Retry, TypeOK
  <2>3. Connect(t) /\ mounted' = mounted
    BY <1>2 DEF Retry
  <2>4. QED
    BY <2>1, <2>2, <2>3, ConnectKeeps
<1>3. CASE Unmount(t)
  <2>1. /\ ~mounted'[t] /\ ~timer'[t]
        /\ \A u \in Tabs : u # t => mounted'[u] = mounted[u] /\ timer'[u] = timer[u]
    BY <1>3 DEF Unmount, TypeOK
  <2>2. /\ \A i \in Lines : stopped'[i] = (owner[i] = t \/ stopped[i])
        /\ \A i \in Lines : client'[i] = IF owner[i] = t /\ client[i] \in {"dialing", "open"}
                                         THEN "none" ELSE client[i]
        /\ owner' = owner
    BY <1>3 DEF Unmount, TypeOK
  <2>3. Current(t)' = {}
    BY <2>2 DEF Current
  <2>4. \A u \in Tabs : u # t => Current(u)' = Current(u)
    BY <2>2 DEF Current
  <2>5. ASSUME NEW u \in Tabs, NEW i \in Lines, owner'[i] = u, client'[i] \in {"dialing", "open"}
        PROVE  i \in Current(u)'
    BY <2>2, <2>4, <2>5 DEF OneLineEach
  <2>6. QED
    BY <2>1, <2>3, <2>4, <2>5 DEF OneLineEach
<1>4. CASE Poll(t) \/ Serve(t) \/ Arrive(t) \/ FetchFails(t)
  BY <1>4 DEF Poll, Serve, Arrive, FetchFails, OneLineEach, Current, page
<1>5. QED
  BY <1>1, <1>2, <1>3, <1>4 DEF OfTab

\* Jobs and the server do not touch the pages.
LEMMA OneLineStep ==
  ASSUME TypeOK, OneLineEach, [Next]_vars
  PROVE  OneLineEach'
<1>1. CASE UNCHANGED page
  BY <1>1 DEF OneLineEach, Current, page
<1>2. ASSUME NEW j \in Jobs, OfJob(j)
      PROVE  UNCHANGED page
  BY <1>2 DEF OfJob, Check, Commit, Broadcast, Finish
<1>3. ASSUME NEW j \in Jobs, NEW k \in Lines, Between(k, j)
      PROVE  UNCHANGED page
  BY <1>3 DEF Between, Push, Disconnect, Receive
<1>4. Restart \/ UNCHANGED vars => UNCHANGED page
  BY DEF Restart, vars
<1>5. QED
  BY <1>1, <1>2, <1>3, <1>4, LineKeeps, TabKeeps DEF Next

\* A page on the screen has one attempt under way or one retry scheduled, however attempts fail
\* and screens are left and opened again while one is under way.
THEOREM PagesKeepOneLine == Spec => []OneLineEach
<1>1. ASSUME Init
      PROVE  OneLineEach
  BY <1>1 DEF Init, OneLineEach, Current
<1>2. TypeOK /\ OneLineEach /\ [Next]_vars => OneLineEach'
  BY OneLineStep
<1>3. QED
  BY <1>1, <1>2, TypeCorrect, PTL DEF Spec

-----------------------------------------------------------------------------
(* What a push promises.                                                   *)

\* What is on its way to a line, or was pushed to a page, is committed for its user; a request
\* answered after a page was shown its first list has all that was pushed to the page.
PushInv ==
  /\ \A k \in Lines, j \in Jobs :
       k \in todo[j] => j \in ListOf(UserOf[owner[k]])
  /\ \A k \in Lines : inbox[k] \subseteq ListOf(UserOf[owner[k]])
  /\ \A k \in Lines : client[k] # "open" => inbox[k] = {}
  /\ \A j \in Jobs : job[j] \in {"committed", "sending"} => j \in rows
  /\ \A t \in Tabs : told[t] \subseteq ListOf(UserOf[t])
  /\ \A t \in Tabs : loaded[t] /\ fetch[t] = "served" => told[t] \subseteq answer[t]

\* A line no one holds has nothing on its way: a new owner finds it empty.
LEMMA TakenOver ==
  ASSUME TypeOK, PushInv, NEW k \in Lines, Unused(k)
  PROVE  inbox[k] = {} /\ \A j \in Jobs : k \notin todo[j]
  BY DEF PushInv, Unused

\* Lists only grow.
LEMMA ListGrows ==
  ASSUME rows \subseteq rows', NEW u
  PROVE  ListOf(u) \subseteq ListOf(u)'
  BY DEF ListOf

LEMMA PushInit == Init => PushInv
  BY DEF Init, PushInv

\* Connecting changes nothing that is pushed.
LEMMA PushConnect ==
  ASSUME TypeOK, PushInv, NEW t \in Tabs, Connect(t),
         UNCHANGED <<inbox, making, told, answer, loaded>>,
         \A u \in Tabs : fetch'[u] = fetch[u] \/ fetch'[u] = "out"
  PROVE  PushInv'
<1>1. PICK k \in Lines :
        /\ Unused(k)
        /\ owner' = [owner EXCEPT ![k] = t]
        /\ client' = [client EXCEPT ![k] = "asking"]
  BY DEF Connect
<1>2. inbox[k] = {} /\ \A j \in Jobs : k \notin todo[j]
  BY <1>1, TakenOver
<1>3. \A i \in Lines \ {k} : owner'[i] = owner[i] /\ client'[i] = client[i]
  BY <1>1 DEF TypeOK
<1>4. rows' = rows /\ \A u : ListOf(u)' = ListOf(u)
  BY DEF making, ListOf
<1>5. QED
  BY <1>1, <1>2, <1>3, <1>4 DEF PushInv, making

LEMMA PushTab ==
  ASSUME TypeOK, PushInv, NEW t \in Tabs, OfTab(t)
  PROVE  PushInv'
<1>1. \A u : rows' = rows => ListOf(u)' = ListOf(u)
  BY DEF ListOf
<1>2. CASE Mount(t)
  BY <1>2, PushConnect DEF Mount, making, TypeOK
<1>3. CASE Retry(t)
  BY <1>3, PushConnect DEF Retry, making, list
<1>4. CASE Unmount(t)
  <2>1. \A i \in Lines : inbox'[i] \subseteq inbox[i]
    BY <1>4 DEF Unmount, TypeOK
  <2>2. \A i \in Lines : client'[i] # "open" => inbox'[i] = {}
    BY <1>4 DEF Unmount, TypeOK, PushInv
  <2>3. QED
    BY <1>1, <1>4, <2>1, <2>2 DEF Unmount, PushInv, making, list
<1>5. CASE Poll(t)
  BY <1>1, <1>5 DEF Poll, PushInv, TypeOK, page, making
<1>6. CASE Serve(t)
  BY <1>1, <1>6 DEF Serve, PushInv, TypeOK, page, making
<1>7. CASE Arrive(t)
  BY <1>1, <1>7 DEF Arrive, PushInv, TypeOK, page, making
<1>8. CASE FetchFails(t)
  BY <1>1, <1>8 DEF FetchFails, PushInv, TypeOK, page, making
<1>9. QED
  BY <1>2, <1>3, <1>4, <1>5, <1>6, <1>7, <1>8 DEF OfTab

LEMMA PushLine ==
  ASSUME TypeOK, PushInv, NEW k \in Lines, OfLine(k)
  PROVE  PushInv'
<1>1. \A u : rows' = rows => ListOf(u)' = ListOf(u)
  BY DEF ListOf
<1>2. ASSUME client[k] # "none", RetryLater(k), UNCHANGED <<owner, making, list>>
      PROVE  PushInv'
  <2>1. /\ \A i \in Lines : inbox'[i] \subseteq inbox[i]
        /\ \A i \in Lines \ {k} : client'[i] = client[i] /\ inbox'[i] = inbox[i]
        /\ inbox'[k] = {}
    BY <1>2 DEF RetryLater, TypeOK
  <2>2. QED
    BY <1>1, <1>2, <2>1 DEF PushInv, making, list
<1>3. ASSUME UNCHANGED <<owner, inbox, making, list>>,
             \A i \in Lines : client'[i] # "open" => client[i] # "open"
      PROVE  PushInv'
  BY <1>1, <1>3 DEF PushInv, making, list
<1>4. CASE AskFails(k) \/ Dropped(k)
  BY <1>2, <1>4 DEF AskFails, Dropped
<1>5. CASE Dial(k)
  <2>1. \A i \in Lines : client'[i] # "open" => client[i] # "open"
    BY <1>5 DEF Dial, TypeOK
  <2>2. QED
    BY <1>3, <1>5, <2>1 DEF Dial
<1>6. CASE IssueTicket(k)
  <2>1. \A i \in Lines : client'[i] # "open" => client[i] # "open"
    BY <1>6 DEF IssueTicket, TypeOK
  <2>2. QED
    BY <1>3, <1>6, <2>1 DEF IssueTicket
<1>7. CASE ConsumeTicket(k)
  <2>1. CASE k \in tickets
    BY <1>3, <1>7, <2>1 DEF ConsumeTicket, page
  <2>2. CASE k \notin tickets
    BY <1>2, <1>7, <2>2 DEF ConsumeTicket
  <2>3. QED
    BY <2>1, <2>2
<1>8. CASE Accept(k)
  <2>1. \A i \in Lines : client'[i] # "open" => client[i] # "open"
    BY <1>8 DEF Accept, TypeOK
  <2>2. QED
    BY <1>3, <1>8, <2>1 DEF Accept
<1>9. CASE Expire(k) \/ Register(k) \/ HangUp(k)
  BY <1>3, <1>9 DEF Expire, Register, HangUp, page
<1>10. QED
  BY <1>4, <1>5, <1>6, <1>7, <1>8, <1>9 DEF OfLine

LEMMA PushJob ==
  ASSUME TypeOK, PushInv, NEW j \in Jobs, OfJob(j)
  PROVE  PushInv'
<1>1. rows \subseteq rows' /\ UNCHANGED <<owner, client, inbox, told, fetch, loaded, answer>>
  BY DEF OfJob, Check, Commit, Broadcast, Finish, page, list
<1>2. \A u : ListOf(u) \subseteq ListOf(u)'
  BY <1>1, ListGrows
<1>3. \A i \in Jobs : job'[i] \in {"committed", "sending"} => i \in rows'
  BY DEF OfJob, Check, Commit, Broadcast, Finish, TypeOK, PushInv
<1>4. \A k \in Lines, i \in Jobs : k \in todo'[i] => i \in ListOf(UserOf[owner[k]])'
  <2>1. CASE Broadcast(j)
    <3>1. /\ todo'[j] = {k \in conns : UserOf[owner[k]] = UserOf[j]}
          /\ \A i \in Jobs \ {j} : todo'[i] = todo[i]
      BY <2>1 DEF Broadcast, TypeOK
    <3>2. j \in rows'
      BY <2>1 DEF Broadcast, PushInv
    <3>3. QED
      BY <1>1, <1>2, <3>1, <3>2 DEF PushInv, ListOf
  <2>2. CASE ~Broadcast(j)
    BY <1>1, <1>2, <2>2 DEF OfJob, Check, Commit, Finish, PushInv
  <2>3. QED
    BY <2>1, <2>2
<1>5. QED
  BY <1>1, <1>2, <1>3, <1>4 DEF PushInv

LEMMA PushBetween ==
  ASSUME TypeOK, PushInv, NEW j \in Jobs, NEW k \in Lines, Between(k, j)
  PROVE  PushInv'
<1>1. rows' = rows /\ job' = job /\ owner' = owner /\ client' = client /\ \A u : ListOf(u)' = ListOf(u)
  BY DEF Between, Push, Disconnect, Receive, page, making, ListOf
<1>2. CASE Push(j, k)
  <2>1. j \in ListOf(UserOf[owner[k]])
    BY <1>2 DEF Push, PushInv
  <2>2. \A i \in Jobs : todo'[i] \subseteq todo[i]
    BY <1>2 DEF Push, TypeOK
  <2>3. /\ \A i \in Lines \ {k} : inbox'[i] = inbox[i]
        /\ inbox'[k] \subseteq inbox[k] \union {j}
        /\ client[k] # "open" => inbox'[k] = inbox[k]
    BY <1>2 DEF Push, TypeOK
  <2>4. UNCHANGED list
    BY <1>2 DEF Push
  <2>5. QED
    BY <1>1, <2>1, <2>2, <2>3, <2>4 DEF PushInv, list
<1>3. CASE Disconnect(j, k)
  BY <1>1, <1>3 DEF Disconnect, PushInv, list
<1>4. CASE Receive(k, j)
  <2> DEFINE o == owner[k]
  <2>1. o \in Tabs /\ j \in ListOf(UserOf[o])
    BY <1>4 DEF Receive, PushInv, TypeOK
  <2>2. \A i \in Lines : inbox'[i] \subseteq inbox[i]
    BY <1>4 DEF Receive, TypeOK
  <2>3. /\ \A t \in Tabs \ {o} : told'[t] = told[t] /\ fetch'[t] = fetch[t]
        /\ told'[o] = told[o] \union {j}
        /\ loaded[o] => fetch'[o] = "out"
    BY <1>4, <2>1 DEF Receive, TypeOK
  <2>4. UNCHANGED <<todo, answer, loaded>>
    BY <1>4 DEF Receive, making
  <2>5. \A t \in Tabs : told'[t] \subseteq ListOf(UserOf[t])
    BY <2>1, <2>3 DEF PushInv
  <2>6. \A t \in Tabs : loaded[t] /\ fetch'[t] = "served" => told'[t] \subseteq answer[t]
    BY <2>1, <2>3 DEF PushInv
  <2>7. QED
    BY <1>1, <2>2, <2>4, <2>5, <2>6 DEF PushInv
<1>5. QED
  BY <1>2, <1>3, <1>4 DEF Between

LEMMA PushStep ==
  ASSUME TypeOK, PushInv, [Next]_vars
  PROVE  PushInv'
<1>1. CASE Restart
  BY <1>1 DEF Restart, PushInv, TypeOK, ListOf, page, list
<1>2. CASE UNCHANGED vars
  BY <1>2 DEF vars, PushInv, ListOf, page, making, list
<1>3. QED
  BY <1>1, <1>2, PushTab, PushLine, PushJob, PushBetween DEF Next

\* A page that shows a list shows, with the next one that reaches it, all that was pushed to it
\* before: a push gives up the answer that may have been read too early.
THEOREM PushesAreShown == Spec => PushShowsIt
<1>1. ASSUME TypeOK, PushInv, NEW t \in Tabs, loaded[t], Arrive(t)
      PROVE  told[t] \subseteq data'[t]
  BY <1>1 DEF Arrive, TypeOK, PushInv
<1>2. TypeOK /\ PushInv /\ [Next]_vars =>
        [\A t \in Tabs : loaded[t] /\ Arrive(t) => told[t] \subseteq data'[t]]_vars
  BY <1>1
<1>3. TypeOK /\ PushInv /\ [Next]_vars => PushInv'
  BY PushStep
<1>4. QED
  BY <1>2, <1>3, PushInit, TypeCorrect, PTL DEF Spec, PushShowsIt
=============================================================================
