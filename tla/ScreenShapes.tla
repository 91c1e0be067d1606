---------------------------- MODULE ScreenShapes ----------------------------
(***************************************************************************)
(* The shapes of a description that make a screen keep its promises.       *)
(***************************************************************************)
EXTENDS Screens

(***************************************************************************)
(* A lock: a pending flag that disables every handler that sets it and     *)
(* that nothing but the end of such a handler clears.                      *)
(***************************************************************************)
Lock(x) ==
  /\ \A a \in ActNames : /\ x \in Busy(a) => x \in S.acts[a].unless
                         /\ x \notin S.acts[a].clears \union S.acts[a].okClears
                         /\ \A b \in Closing(S.acts[a].clears) : x \notin Busy(b)
  /\ \A l \in LoadNames : x \notin S.loads[l].busy

\* A handler that its own pending flag disables sets a lock.
OneAtATime ==
  \A a \in ActNames : Guarded(a) => a \in Excused("twice") \/ \E x \in Busy(a) : Lock(x)

(***************************************************************************)
(* A pending flag that only requests turn on.  A handler that waits for    *)
(* loads does not disable them with its answer, and no request that the    *)
(* flag stands for is forgotten without another taking its place.          *)
(***************************************************************************)
Pending(x) ==
  /\ x \notin S.on
  /\ \A a \in ActNames :
       LET act == S.acts[a]
       IN /\ x \notin UNION {act.sets, act.setsMe, act.okSets, act.stuck}
          /\ x \in Busy(a) => /\ act.call # ""
                              /\ act.awaits => \A l \in Reloads(a) : act.okClears \intersect S.loads[l].needs = {}
  /\ \A l \in LoadNames : x \in S.loads[l].busy => ~S.loads[l].keyed \/ S.loads[l].needs = {}

\* Every flag that requests turn on is such a flag.
Turning ==
  /\ \A a \in ActNames : \A x \in Busy(a) : Pending(x)
  /\ \A l \in LoadNames : \A x \in S.loads[l].busy : Pending(x)

(***************************************************************************)
(* Loads that are never asked for the wrong object, or told from it: those *)
(* that drop the answers of another key, and those whose axis never leaves *)
(* its first object.                                                       *)
(***************************************************************************)
Steady(x) ==
  /\ \A a \in ActNames : x \notin UNION {S.acts[a].moves, S.acts[a].okMoves, S.acts[a].okBack}
  /\ \A l \in LoadNames : x \notin S.loads[l].returns
Certain(l) ==
  \/ S.loads[l].keyed /\ ~S.loads[l].fixed
  \/ S.loads[l].by = "" \/ Steady(S.loads[l].by)

\* The flags that are on just while load l is out, and the handlers they disable.
Bars(l) ==
  {b \in S.loads[l].busy :
     /\ \A k \in LoadNames : k # l => b \notin S.loads[k].busy
     /\ \A a \in ActNames : b \notin UNION {Busy(a), S.acts[a].clears, S.acts[a].okClears}}
Barred(l, a) == Bars(l) \intersect S.acts[a].unless # {}

\* A load that keeps the user from asking again, and from moving its axis, while it is out.
Alone(l) ==
  LET x == S.loads[l].by IN
  /\ ~S.loads[l].keyed /\ S.loads[l].needs = {}
  /\ \A a \in ActNames : l \in Reloads(a) => S.acts[a].call = "" /\ Barred(l, a)
  /\ \/ S.loads[l].fixed
     \/ /\ \A k \in LoadNames : x \notin S.loads[k].picks \union S.loads[k].returns
        /\ \A a \in ActNames : /\ x \in S.acts[a].moves => l \notin Reloads(a) /\ Barred(l, a)
                               /\ x \notin S.acts[a].okMoves \union S.acts[a].okBack

Selected ==
  \A l \in LoadNames :
    \/ S.loads[l].fixed \/ l \in Excused("late")
    \/ Certain(l)
    \/ l \in Excused("keeps") /\ Alone(l)

\* A load that is requested once, as the screen is mounted.
Once(l) ==
  /\ S.loads[l].needs = {} /\ ~S.loads[l].polls
  /\ S.loads[l].by = "" \/ Steady(S.loads[l].by)
  /\ \A a \in ActNames : l \notin Reloads(a)

\* A form that such a load opens: before it is shown there is nothing to type into.
Opens(l, d) ==
  /\ Once(l)
  /\ \A a \in ActNames : d \in S.acts[a].edits \union S.acts[a].lands => l \in S.acts[a].shows

\* What the user types into, and what an effect refills when one of the axes xs moves.
Editable == {d \in DOMAIN S.drafts : \E a \in ActNames : d \in S.acts[a].edits}
Refills(xs, d) == S.drafts[d].follows /\ S.drafts[d].by \in xs

(***************************************************************************)
(* No answer writes into what the user types into, but the one that opens  *)
(* the form, and none empties it; a handler that empties it at its end     *)
(* leaves that to the loads it waits for.                                  *)
(***************************************************************************)
Keeping ==
  \A d \in Editable :
    /\ \A l \in LoadNames \ Excused("lost") :
         LET load == S.loads[l]
         IN /\ d \in load.fills \union load.may => Opens(l, d)
            /\ ~Refills(load.picks \union load.returns, d)
            /\ \A a \in ActNames : d \in S.acts[a].lastly => l \notin Reloads(a)
    /\ \A a \in ActNames \ Excused("lost") :
         LET act == S.acts[a]
         IN /\ d \notin act.okDrops \union act.lands
            /\ ~Refills(act.okMoves \union act.okBack, d)
            /\ d \in act.lastly => act.awaits /\ \E l \in Reloads(a) : S.loads[l].needs = {}

(***************************************************************************)
(* Loads whose requests never overtake one another: those that drop what   *)
(* is late, those that are alone, and those that only the holders of a     *)
(* lock ask for, and wait for.                                             *)
(***************************************************************************)
Owned(l, x) ==
  /\ Lock(x)
  /\ ~S.loads[l].keyed /\ S.loads[l].needs = {} /\ S.loads[l].asked /\ ~S.loads[l].polls
  /\ S.loads[l].by = ""
  /\ \A a \in ActNames :
       LET act == S.acts[a]
       IN l \in Reloads(a) => x \in Busy(a) /\ act.call # "" /\ act.awaits /\ ~act.always
InTurn(l) == S.loads[l].keyed \/ Alone(l) \/ \E x \in Flags : Owned(l, x)

(***************************************************************************)
(* A write that the screen shows changes nothing before it is answered,    *)
(* and what it changes is asked for again, or is brought up to date by the *)
(* answer of a load that is out no more.  A write that is answered with    *)
(* the new state of what others change is alone.                           *)
(***************************************************************************)
Followed == ActNames \ Excused("stale")
Rereading ==
  /\ \A l \in LoadNames : /\ l \in Excused("late") \/ InTurn(l)
                          /\ S.loads[l].joins => S.loads[l].keyed /\ Certain(l)
  /\ \A w \in Followed :
       LET act == S.acts[w]
       IN /\ act.early = {} /\ ~act.parts
          /\ \A l \in Reading(act.changes) :
               \/ l \in Reloads(w) /\ S.loads[l].needs = {}
               \/ Once(l) /\ l \in act.shows /\ l \in act.patches \union act.replaces
          /\ \A a \in ActNames : S.acts[a].replaces \intersect Reading(act.changes) # {}
                                => a = w /\ \E x \in Busy(w) : Lock(x)

(***************************************************************************)
(* A draft that is about the object selected on its axis as long as the    *)
(* flags "on" are on, the flags "off" are off and the loads "seen" are     *)
(* shown: what moves the axis refills the draft or puts an end to that,    *)
(* what brings that about starts the draft anew, and what fills the draft  *)
(* is of the object selected.                                              *)
(***************************************************************************)

\* The axis x does not move unless a flag of "off" is set.
Pinned(x, off) ==
  /\ \A a \in ActNames :
       LET act == S.acts[a]
       IN /\ x \in act.moves => off \intersect (act.sets \union act.setsMe) # {}
          /\ x \notin act.okMoves \union act.okBack
  /\ \A l \in LoadNames : x \notin S.loads[l].picks \union S.loads[l].returns

\* The axis x does not move before load l, requested once, is shown.
Ahead(l, x) ==
  /\ Once(l)
  /\ \A a \in ActNames : x \in UNION {S.acts[a].moves, S.acts[a].okMoves, S.acts[a].okBack} => l \in S.acts[a].shows
  /\ \A k \in LoadNames : x \notin S.loads[k].picks \union S.loads[k].returns

\* What load l answers is of the object that is then selected on the axis x.
Answers(l, x) ==
  LET load == S.loads[l]
  IN \/ x \in load.returns \ load.picks
     \/ x \in load.picks /\ load.by = ""
     \/ x \notin load.picks \union load.returns /\ ((load.by = x /\ Certain(l)) \/ Ahead(l, x))

Tied(d, on, off, seen) ==
  LET x == S.drafts[d].by
      follows == S.drafts[d].follows
  IN /\ \A a \in ActNames :
          LET act == S.acts[a]
              set == act.sets \union act.setsMe
          IN /\ (on \union off) \intersect Busy(a) = {}
             /\ on \intersect set # {} => d \in act.drops
             /\ on \intersect act.okSets = {} /\ off \intersect (act.clears \union act.okClears) = {}
             /\ x \in act.moves => \/ follows \/ d \in act.drops
                                   \/ on \intersect act.clears # {} \/ off \intersect set # {}
                                   \/ \E l \in seen : S.loads[l].keyed /\ S.loads[l].by = x /\ ~S.loads[l].fixed
             /\ x \in act.okMoves \union act.okBack => follows
             /\ d \in act.lands => ~act.row /\ act.of = x /\ Pinned(x, off)
     /\ \A l \in LoadNames :
          LET load == S.loads[l]
          IN /\ (on \union off) \intersect load.busy = {}
             /\ l \in seen => d \in load.fills
             /\ x \in load.picks \union load.returns => follows \/ (d \in load.fills /\ ~load.keyed)
             /\ d \in load.fills \union load.may => Answers(l, x)

\* A write sends draft d, if it is about an object at all, only to the object selected on its
\* axis, from a screen that shows what ties the draft to it.
SendsTied(a, d) ==
  LET act == S.acts[a]
  IN \/ S.drafts[d].by = "" \/ act.call # "write" \/ (~act.row /\ act.of = "")
     \/ /\ ~act.row /\ act.of = S.drafts[d].by
        /\ \E on \in SUBSET act.need, off \in SUBSET act.unless, seen \in SUBSET act.shows : Tied(d, on, off, seen)

\* Drafts about an object are sent so, and no answer is written into them.
Carrying ==
  \A a \in ActNames \ Excused("stray") :
    /\ \A d \in S.acts[a].lands : S.drafts[d].by = ""
    /\ \A d \in S.acts[a].sends : SendsTied(a, d)
=============================================================================
