------------------------------ MODULE Screens ------------------------------
(***************************************************************************)
(* A screen of the web client at work: the user clicks, requests travel,   *)
(* answers arrive in any order, fail, or find the screen moved on.  Table  *)
(* gives the screens in the words of ScreenVocabulary; a behaviour follows *)
(* one of them from the moment it is mounted.                              *)
(*                                                                         *)
(* Requests are kept in the order they were sent; an answer may overtake   *)
(* the ones sent before it.  What a read returns is not a value but what   *)
(* can be wrong with it: the object it was asked for, and the write it may *)
(* have missed.                                                            *)
(***************************************************************************)
EXTENDS Naturals, Sequences, FiniteSets, SequencesExt

CONSTANTS Table,     \* screen -> its description
          Ids,       \* the objects a selection can be on; rows of a list
          MaxCalls,  \* bound: the user waits when so many requests are out
          Known      \* what -> screen -> the loads or handlers of it that fall short of what it promises

ASSUME IdsAssumption == Ids \subseteq Nat \ {0} /\ 1 \in Ids
ASSUME MaxCallsAssumption == MaxCalls \in Nat \ {0}

\* What a description refers to is in it.
WellFormed(D) ==
  LET Axes == D.axes \union {""} IN
  /\ IsFiniteSet(DOMAIN D.loads)
  /\ (DOMAIN D.loads \union {"", "first", "late", "failed"}) \intersect DOMAIN D.acts = {}
  /\ \A l \in DOMAIN D.loads : D.loads[l].by \in Axes
                            /\ D.loads[l].fills \union D.loads[l].may \subseteq DOMAIN D.drafts
  /\ \A a \in DOMAIN D.acts :
       LET act == D.acts[a] IN
       /\ act.of \in Axes /\ act.reload \union act.shows \subseteq DOMAIN D.loads
       /\ UNION {act.sends, act.lands, act.okDrops, act.lastly} \subseteq DOMAIN D.drafts
  /\ \A d \in DOMAIN D.drafts : D.drafts[d].by \in Axes
ASSUME DescriptionsAssumption == \A s \in DOMAIN Table : WellFormed(Table[s])

VARIABLES
  scr,      \* the screen
  at,       \* axis -> the object selected
  flags,    \* flag -> 0 when off, else the id it holds (1 for a Boolean)
  shown,    \* load -> [key: the object shown (0: none), miss: the write it misses, if any]
  drafts,   \* draft -> [of: the object it was filled from, is: clean, typed or sent]
  calls,    \* requests on their way, oldest first
  slips     \* what the last step did that the user did not ask for

vars == <<scr, at, flags, shown, drafts, calls, slips>>

S == Table[scr]
ActNames == DOMAIN S.acts
LoadNames == DOMAIN S.loads

Nothing == [key |-> 0, miss |-> ""]
Blank == [of |-> 0, is |-> "clean"]

\* The object a load is asked for, under the selections a.
Key(l, a) == LET x == S.loads[l].by IN IF x = "" THEN 1 ELSE a[x]
Enabled(l, f) == \A x \in S.loads[l].needs : f[x] # 0

\* The loads of the server data ds, and those a handler requests.
Reading(ds) == {l \in LoadNames : IF S.loads[l].data = {} THEN l \in ds ELSE S.loads[l].data \intersect ds # {}}
Reloads(a) == S.acts[a].reload \union {l \in Reading(S.acts[a].expires) : S.loads[l].keyed}

Busy(a) == S.acts[a].busy \union S.acts[a].busyMe

\* Handlers whose dialog closes when the flags fs are cleared, and the requests q of theirs.
Closing(fs) == IF fs = {} THEN {} ELSE {a \in ActNames : S.acts[a].home \in fs}
Orphaned(q, as) ==
  [j \in 1..Len(q) |-> IF q[j].name \in as THEN [q[j] EXCEPT !.late = TRUE]
                       ELSE [q[j] EXCEPT !.for = @ \ as]]

\* Flags fs of f set to v.
Put(f, fs, v) == [x \in DOMAIN f |-> IF x \in fs THEN v ELSE f[x]]

Request(l, o, for) ==
  [name |-> l, load |-> TRUE, obj |-> o, late |-> FALSE, miss |-> "", for |-> for, was |-> <<>>]
\* A handler that will reload a load with the selection it saw keeps it.
CallOf(a, o) ==
  [name |-> a, load |-> FALSE, obj |-> o, late |-> FALSE, miss |-> "", for |-> {},
   was |-> IF \E l \in S.acts[a].reload : ~S.loads[l].keyed /\ S.loads[l].by # "" THEN at ELSE <<>>]

Without(i) == RemoveAt(calls, i)

(***************************************************************************)
(* The step to the selections a and the flags f with shown copies s and    *)
(* requests q0: loads ls are requested for the handler "for", which saw    *)
(* the selections was, and so are the loads whose key moved or that became *)
(* enabled.  A keyed load forgets what it shows of another key and ignores *)
(* its older requests: they are out only for the handler that waits for    *)
(* them.                                                                   *)
(***************************************************************************)
Moved(l, a) == a # at /\ ~S.loads[l].fixed /\ Key(l, a) # Key(l, at)
Wanted(ls, a, f) ==
  {l \in LoadNames :
     /\ l \in ls \/ Moved(l, a) \/ ~Enabled(l, flags)
     /\ Enabled(l, f)}

\* A first request for load l that is out: one asked for now joins it, though it may have read
\* before the write that asks.
Joins(l, c) == /\ c.load /\ c.name = l /\ ~c.late
               /\ S.loads[l].joins /\ shown[l].key = 0 /\ c.obj = Key(l, at)
Joinable(l, a) == ~Moved(l, a) /\ Enabled(l, flags) /\ \E i \in 1..Len(calls) : Joins(l, calls[i])
Joined(q, ls, for) ==
  [j \in 1..Len(q) |-> IF \E l \in ls : Joins(l, q[j])
                       THEN [q[j] EXCEPT !.miss = IF @ = "" THEN "" ELSE "first", !.for = @ \union for]
                       ELSE q[j]]

\* The loads to ask for, but for those that a request on its way stands for.
New(ls, a, f) == Wanted(ls, a, f) \ {l \in ls : Joinable(l, a)}
Sent(ls, was, a, new, for) ==
  {IF l \in ls THEN Request(l, Key(l, IF S.loads[l].keyed THEN a ELSE was), for)
                ELSE Request(l, Key(l, a), {}) : l \in new}

\* A request whose answer a keyed load will ignore.
Outdated(c, new, a) == c.load /\ S.loads[c.name].keyed /\ (c.name \in new \/ Moved(c.name, a))
Aged(q, new, a) ==
  [j \in 1..Len(q) |-> IF Outdated(q[j], new, a) THEN [q[j] EXCEPT !.late = TRUE] ELSE q[j]]

\* The requests of q at the places K, in the order they were sent.
Remaining(q, K) ==
  LET kept[n \in 0..Len(q)] ==
        IF n = 0 THEN <<>> ELSE IF n \in K THEN Append(kept[n - 1], q[n]) ELSE kept[n - 1]
  IN kept[Len(q)]

Settle(ls, was, a, f, s, q0, for) ==
  LET new  == New(ls, a, f)
      q    == Joined(q0, {l \in ls : Joinable(l, a)}, for)
      open == {j \in 1..Len(q) : Outdated(q[j], new, a) => q[j].for # {}}
  IN /\ at' = a
     /\ calls' = Remaining(Aged(q, new, a), open) \o SetToSeq(Sent(ls, was, a, new, for))
     /\ flags' = Put(f, UNION {S.loads[l].busy : l \in new}, 1)
     /\ shown' = [l \in LoadNames |->
                    IF \/ Moved(l, a) /\ S.loads[l].keyed
                       \/ l \in new /\ S.loads[l].blank
                    THEN Nothing ELSE s[l]]

\* Every flag that is read or set.
Flags ==
  UNION ({S.on}
         \union {S.loads[l].busy \union S.loads[l].needs : l \in LoadNames}
         \union {UNION {S.acts[a].need, S.acts[a].unless, S.acts[a].unlessMe,
                        S.acts[a].sets, S.acts[a].setsMe, S.acts[a].clears,
                        S.acts[a].okSets, S.acts[a].okClears, Busy(a)} : a \in ActNames})

\* The loads requested when the screen is mounted.
Mounted == {l \in LoadNames : ~S.loads[l].asked /\ S.loads[l].needs \subseteq S.on}

Init ==
  /\ scr \in DOMAIN Table
  /\ at = [x \in S.axes |-> 1]
  /\ flags = [x \in Flags |-> IF x \in S.on \union UNION {S.loads[l].busy : l \in Mounted} THEN 1 ELSE 0]
  /\ calls = SetToSeq({Request(l, 1, {}) : l \in Mounted})
  /\ shown = [l \in LoadNames |-> Nothing]
  /\ drafts = [d \in DOMAIN S.drafts |-> Blank]
  /\ slips = {}

-----------------------------------------------------------------------------
(* Clicks *)

Objects(a) ==
  IF S.acts[a].row THEN Ids ELSE {IF S.acts[a].of = "" THEN 1 ELSE at[S.acts[a].of]}

\* The button is there, enabled, and the handler does not return at once.
CanClick(a, o) ==
  LET act == S.acts[a]
  IN /\ Len(calls) < MaxCalls
     /\ \A x \in act.need : flags[x] # 0
     /\ \A x \in act.unless : flags[x] = 0
     /\ \A x \in act.unlessMe : flags[x] # o
     /\ \A l \in act.shows : shown[l].key # 0
     /\ \A d \in act.typed : drafts[d].is # "clean"
     /\ \A d \in act.clean : drafts[d].is = "clean"

\* The object draft d is about on the screen.
About(d, a) == LET x == S.drafts[d].by IN IF x = "" THEN 1 ELSE a[x]
Fresh(d, a) == [of |-> About(d, a), is |-> "clean"]

\* The drafts an effect refills when the selections become a.
Refilled(a) == {d \in DOMAIN drafts : a # at /\ S.drafts[d].follows /\ About(d, a) # About(d, at)}

DraftsAtClick(a, o, sel) ==
  LET act == S.acts[a] IN
  [d \in DOMAIN drafts |->
     IF d \in act.drops \union Refilled(sel) THEN Fresh(d, sel)
     ELSE IF d \in act.edits THEN
       [of |-> IF drafts[d].of = 0 THEN About(d, sel) ELSE drafts[d].of, is |-> "typed"]
     ELSE IF d \in act.sends \union act.lands /\ drafts[d].is = "typed"
       THEN [drafts[d] EXCEPT !.is = "sent"]
     ELSE drafts[d]]

\* A write that carries a draft filled from another object.
Strayed(a, o) ==
  {[what |-> "stray", by |-> a, on |-> d] :
     d \in {x \in S.acts[a].sends : (S.acts[a].row \/ S.acts[a].of # "") /\ S.drafts[x].by # ""
                                   /\ drafts[x].of \notin {0, o}}}

Click(a, o) ==
  LET act == S.acts[a]
      closed == Closing(act.clears)
      f == [x \in DOMAIN flags |->
              IF x \in UNION {Busy(b) : b \in closed} THEN 0
              ELSE IF x \in act.setsMe \union act.busyMe THEN o
              ELSE IF x \in act.sets \union act.busy THEN 1
              ELSE IF x \in act.clears THEN 0 ELSE flags[x]]
      q == IF act.call = "" THEN Orphaned(calls, closed) ELSE Append(calls, CallOf(a, o))
  IN /\ CanClick(a, o)
     /\ \E sel \in [S.axes -> Ids] :
          /\ \A x \in S.axes : IF x \in act.moves
                               THEN IF act.row THEN sel[x] = o ELSE sel[x] # at[x]
                               ELSE sel[x] = at[x]
          /\ Settle(IF act.call = "" THEN Reloads(a) ELSE {}, at, sel, f, shown, q, {})
          /\ drafts' = DraftsAtClick(a, o, sel)
     /\ slips' = IF act.call = "write" THEN Strayed(a, o) ELSE {}
     /\ UNCHANGED scr

\* A window focus, a reconnect or an interval repeats a read.
Background(l) ==
  /\ S.loads[l].polls /\ Enabled(l, flags)
  /\ Len(calls) < MaxCalls
  /\ \A i \in 1..Len(calls) : calls[i].name # l
  /\ Settle({l}, at, at, flags, shown, calls, {})
  /\ slips' = {}
  /\ UNCHANGED <<scr, drafts>>

-----------------------------------------------------------------------------
(* Answers *)

\* The handler that goes on when call i, the last of the loads it awaited, is back.
Resumed(i) ==
  {a \in calls[i].for : \A j \in 1..Len(calls) : j # i => a \notin calls[j].for}
Finished(i) ==
  Put(flags, S.loads[calls[i].name].busy \union UNION {Busy(a) : a \in Resumed(i)}, 0)
Cleared(i) == UNION {S.acts[a].lastly : a \in Resumed(i)}

Overwritten(ds, by) ==
  {[what |-> "lost", by |-> by, on |-> d] :
     d \in {x \in ds : drafts[x].is = "typed" /\ \E a \in ActNames : x \in S.acts[a].edits}}

\* An answer to request i that overtook older requests for the same load.
Rest(i) ==
  RemoveAt([j \in 1..Len(calls) |->
              IF j < i /\ calls[j].load /\ calls[j].name = calls[i].name
              THEN [calls[j] EXCEPT !.late = TRUE] ELSE calls[j]], i)

\* A keyed load drops what comes late; what it shows after the answer to c ...
Dropped(c) == S.loads[c.name].keyed /\ c.late
Received(c, stale) ==
  IF Dropped(c) THEN shown
  ELSE [shown EXCEPT ![c.name] =
          [key |-> c.obj, miss |-> IF c.late THEN "late" ELSE IF stale THEN c.miss ELSE ""]]
\* ... and after its failure.
Failed(c) ==
  [shown EXCEPT ![c.name] =
     IF Dropped(c) THEN @
     ELSE IF S.loads[c.name].blanked THEN Nothing
     ELSE IF @.key \in {0, c.obj} /\ @.miss = "" THEN @ ELSE [@ EXCEPT !.miss = "failed"]]

\* The drafts the answer fills; it is "new" when its data differ from those shown.
Filled(c, some, new) ==
  LET l == S.loads[c.name]
  IN IF Dropped(c) THEN {}
     ELSE some \union (IF new \/ ~l.keyed \/ shown[c.name].key # c.obj THEN l.fills ELSE {})

\* The selections after the answer.
Selecting(c) ==
  LET l == S.loads[c.name]
  IN [x \in S.axes |-> IF x \in l.picks THEN 1 ELSE IF x \in l.returns THEN c.obj ELSE at[x]]

Loaded(i) ==
  LET c == calls[i]
      l == S.loads[c.name]
      sel == Selecting(c)
  IN /\ c.load
     /\ \E stale \in {FALSE, c.miss # ""}, some \in SUBSET l.may,
           new \in IF l.fills = {} THEN {TRUE} ELSE BOOLEAN :
          LET filled == Filled(c, some, new)
          IN /\ Settle({}, at, sel, Finished(i), Received(c, stale), Rest(i), {})
             /\ drafts' = [d \in DOMAIN drafts |->
                             IF d \in filled THEN [of |-> c.obj, is |-> "clean"]
                             ELSE IF d \in Refilled(sel) \union Cleared(i) THEN Fresh(d, sel)
                             ELSE drafts[d]]
             /\ slips' = Overwritten(UNION {filled, Refilled(sel), Cleared(i)}, c.name)
     /\ UNCHANGED scr

NotLoaded(i) ==
  LET c == calls[i]
  IN /\ c.load
     /\ Settle({}, at, at, Finished(i), Failed(c), Rest(i), {})
     /\ drafts' = [d \in DOMAIN drafts |-> IF d \in Cleared(i) THEN Fresh(d, at) ELSE drafts[d]]
     /\ slips' = Overwritten(Cleared(i), c.name)
     /\ UNCHANGED scr

\* The copy x shown misses the write w.  One that could not be read again is known to be old.
Old(x, w) == IF x.key = 0 \/ x.miss = "failed" THEN x ELSE [x EXCEPT !.miss = w]

\* What is shown of the loads a write changed misses it until they are read again.
Missing(c, act) ==
  [l \in LoadNames |->
     IF l \in act.replaces /\ c.miss # "" THEN Old(shown[l], c.miss)
     ELSE IF l \in Reading(act.changes) \ (act.patches \union act.replaces) THEN Old(shown[l], c.name)
     ELSE shown[l]]

\* A failure may come after the first of several calls, or after an early change.
AfterFailure(c, act) ==
  IF act.parts THEN Missing(c, act)
  ELSE [l \in LoadNames |-> IF l \in act.early THEN Old(shown[l], c.name) ELSE shown[l]]

\* The selections a handler that was called then still sees.
Seen(c) == IF c.was = <<>> THEN at ELSE c.was

\* Requests that left before the write was answered may miss it.
Passed(q, a) ==
  [j \in 1..Len(q) |->
     IF \/ q[j].load /\ q[j].name \in Reading(S.acts[a].changes)
        \/ ~q[j].load /\ S.acts[q[j].name].replaces \intersect Reading(S.acts[a].changes) # {}
     THEN [q[j] EXCEPT !.miss = a] ELSE q[j]]

\* What the dialog itself does with an answer is gone with the dialog.
Own(c, xs) == IF c.late THEN {} ELSE xs

\* The handler stays busy until the loads it asks for are answered.
Waits(c) == S.acts[c.name].awaits /\ ~c.late /\ Wanted(Reloads(c.name), at, flags) # {}

\* The flags it leaves, the drafts it empties, and those it writes its answer into.
Released(c) ==
  LET act == S.acts[c.name]
      off == Own(c, act.okClears \union (IF Waits(c) THEN {} ELSE Busy(c.name)))
  IN [x \in DOMAIN flags |-> IF x \in Own(c, act.okSets) THEN 1 ELSE IF x \in off THEN 0 ELSE flags[x]]
Emptied(c) ==
  LET act == S.acts[c.name] IN Own(c, act.okDrops \union (IF Waits(c) THEN {} ELSE act.lastly))
Landing(c) == Own(c, S.acts[c.name].lands)

\* Its selections.
Turned(c, sel) ==
  LET act == S.acts[c.name]
  IN \A x \in S.axes : IF x \in Own(c, act.okMoves) THEN sel[x] # at[x]
                      ELSE sel[x] = IF x \in act.okBack THEN c.obj ELSE at[x]

Done(i) ==
  LET c == calls[i]
      act == S.acts[c.name]
  IN /\ ~c.load
     /\ \E sel \in [S.axes -> Ids] :
          /\ Turned(c, sel)
          /\ Settle(Reloads(c.name), Seen(c), sel, Released(c), Missing(c, act), Passed(Without(i), c.name),
                    IF Waits(c) THEN {c.name} ELSE {})
          /\ drafts' = [d \in DOMAIN drafts |->
               IF d \in Emptied(c) \union Refilled(sel) THEN Fresh(d, sel)
               ELSE IF d \in Landing(c) THEN [of |-> c.obj, is |-> "typed"]
               ELSE IF d \in act.sends /\ drafts[d].is = "sent" THEN [drafts[d] EXCEPT !.is = "clean"]
               ELSE drafts[d]]
          /\ slips' = Overwritten(UNION {Emptied(c), Landing(c), Refilled(sel)}, c.name)
                      \union {[what |-> "stray", by |-> c.name, on |-> d] :
                                d \in {x \in Landing(c) : S.drafts[x].by # "" /\ About(x, at) # c.obj}}
     /\ UNCHANGED scr

NotDone(i) ==
  LET c == calls[i]
      act == S.acts[c.name]
  IN /\ ~c.load
     /\ Settle(IF act.always THEN Reloads(c.name) ELSE {}, Seen(c), at,
               Put(flags, IF c.late THEN {} ELSE Busy(c.name) \ act.stuck, 0), AfterFailure(c, act), Without(i), {})
     /\ drafts' = [d \in DOMAIN drafts |->
                     IF d \in act.sends \union act.lands /\ drafts[d].is = "sent"
                     THEN [drafts[d] EXCEPT !.is = "typed"] ELSE drafts[d]]
     /\ slips' = {}
     /\ UNCHANGED scr

Answer == \E i \in 1..Len(calls) : Loaded(i) \/ NotLoaded(i) \/ Done(i) \/ NotDone(i)

Next ==
  \/ \E a \in ActNames : \E o \in Objects(a) : Click(a, o)
  \/ \E l \in LoadNames : Background(l)
  \/ Answer

Spec == Init /\ [][Next]_vars

-----------------------------------------------------------------------------
(* What the screens promise, but for the handlers and loads that Known names *)

Causes == ActNames \union LoadNames
Selections == [S.axes -> Ids]
Misses == {"", "first"} \union ActNames
Requests ==
  {c \in [name : Causes, load : BOOLEAN, obj : Ids, late : BOOLEAN, miss : Misses,
          for : SUBSET ActNames, was : {<<>>} \union Selections] :
     c.name \in IF c.load THEN LoadNames ELSE ActNames}
TypeOK ==
  /\ scr \in DOMAIN Table
  /\ at \in Selections
  /\ flags \in [Flags -> {0} \union Ids]
  /\ shown \in [LoadNames -> [key : {0} \union Ids, miss : {"late", "failed"} \union Misses]]
  /\ drafts \in [DOMAIN S.drafts -> [of : {0} \union Ids, is : {"clean", "typed", "sent"}]]
  /\ calls \in Seq(Requests)
  /\ slips \subseteq [what : {"lost", "stray"}, by : Causes, on : DOMAIN S.drafts]

Excused(what) == IF scr \in DOMAIN Known[what] THEN Known[what][scr] ELSE {}

\* A handler that its own pending flag disables.
Guarded(a) ==
  LET act == S.acts[a]
  IN (act.busy \intersect act.unless) \union (act.busyMe \intersect (act.unless \union act.unlessMe)) # {}

\* A handler that its own pending flag disables never has two calls for one object out:
\* nothing else clears the flag while the call is out, and no click finds it off.
SentOnce ==
  \A i, j \in 1..Len(calls) :
    (i < j /\ ~calls[i].load /\ ~calls[j].load /\ calls[i].name = calls[j].name
      /\ calls[i].obj = calls[j].obj /\ Guarded(calls[i].name))
      => calls[i].name \in Excused("twice")

\* With no request out, every flag that a request turns on is off again.
NothingStuck ==
  calls = <<>> =>
    /\ \A a \in ActNames : (\A x \in Busy(a) : flags[x] = 0)
    /\ \A l \in LoadNames : (\A x \in S.loads[l].busy : flags[x] = 0)

\* No answer wipes what the user typed and has not sent.
TypingKept == \A s \in slips : s.what = "lost" => s.by \in Excused("lost")

\* What was computed for, or typed about, one object is not written into or sent to another.
DraftStays == \A s \in slips : s.what = "stray" => s.by \in Excused("stray")

\* Once a load is answered, what is shown is of the object selected.
ShownIsSelected ==
  \A l \in LoadNames :
    \/ \E i \in 1..Len(calls) : calls[i].name = l
    \/ shown[l].key \in {0, Key(l, at)}
    \/ S.loads[l].fixed
    \/ l \in Excused("late")
    \/ shown[l].miss = "failed" /\ l \in Excused("keeps")

\* With no request out, nothing shown misses a write the screen saw acknowledged, unless the
\* write was acknowledged while the first request for what is shown was out.
ShowsOwnWrites ==
  calls = <<>> =>
    \A l \in LoadNames :
      \/ shown[l].miss \in {"", "first", "failed"}
      \/ shown[l].miss \in Excused("stale")
      \/ shown[l].miss = "late" /\ l \in Excused("late")
=============================================================================
