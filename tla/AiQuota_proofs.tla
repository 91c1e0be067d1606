---------------------------- MODULE AiQuota_proofs ----------------------------
(***************************************************************************)
(* Proofs about AiQuota for any number of requests, any limit and any      *)
(* calendar.  However requests overlap, the counter never charges more     *)
(* than was earned; two at a time, it overruns the limit by one at most;   *)
(* served one at a time, it is exact and within the limit.                 *)
(***************************************************************************)
EXTENDS AiQuota, TLAPS

USE QuotaAssumption

-----------------------------------------------------------------------------
(* Type correctness.                                                       *)

\* The rows are numbers, and a month without a row has used nothing.
LEMMA UsedType ==
  ASSUME TypeOK, NEW m \in Months
  PROVE  Used(m) \in Nat /\ RowOf(m) \in Nat \cup {Absent}
  BY DEF TypeOK, Used, RowOf

\* A step that changes one request to a well-typed one keeps the type of all.
LEMMA TaskType ==
  ASSUME TypeOK, NEW r \in Served, NEW t \in Task, task' = [task EXCEPT ![r] = t]
  PROVE  Served' = Served /\ task' \in [Served -> Task]
  BY DEF TypeOK, Served

LEMMA InitType == Init => TypeOK
<1> SUFFICES ASSUME Init PROVE TypeOK
  OBVIOUS
<1>1. month \in Months /\ earned \in [Months -> Nat] /\ unrecorded \subseteq Requests
  BY DEF Init, Months
<1>2. DOMAIN used = {} /\ used \in [DOMAIN used -> Nat]
  BY DEF Init
<1>3. Served \subseteq Requests /\ task \in [Served -> Task]
  BY DEF Init, Idle, Task, Served
<1>4. served \in 0 .. MaxServed /\ faults \in 0 .. MaxFaults
  BY DEF Init
<1>5. QED
  BY <1>1, <1>2, <1>3, <1>4 DEF TypeOK

\* What a write of the counter does to it.
LEMMA WithRowType ==
  ASSUME TypeOK, NEW p \in Months, NEW n \in Nat, used' = WithRow(p, n)
  PROVE  /\ DOMAIN used' = DOMAIN used \cup {p}
         /\ DOMAIN used' \subseteq Months /\ used' \in [DOMAIN used' -> Nat]
         /\ Used(p)' = n
         /\ \A m \in Months : m # p => Used(m)' = Used(m)
<1>1. used' = [k \in DOMAIN used \cup {p} |-> IF k = p THEN n ELSE used[k]]
  BY DEF WithRow
<1>2. DOMAIN used \subseteq Months /\ \A m \in DOMAIN used : used[m] \in Nat
  BY DEF TypeOK
<1>3. QED
  BY <1>1, <1>2 DEF Used

LEMMA WriteType ==
  ASSUME TypeOK, NEW r \in Served, task[r].pc = "write"
  PROVE  /\ task[r].period \in Months /\ task[r].billable \in BOOLEAN
         /\ task[r].copy # Absent => task[r].copy \in Nat
<1>1. task[r] \in Task
  BY DEF TypeOK
<1>2. QED
  BY <1>1 DEF Task

LEMMA CountedType ==
  ASSUME TypeOK, NEW r \in Served, task[r].pc = "write"
  PROVE  /\ Counted(task[r]) \in [Months -> Nat]
         /\ [pc |-> "audit", billable |-> task[r].billable] \in Task
<1>1. task[r] \in Task
  BY DEF TypeOK
<1>2. task[r].period \in Months /\ task[r].billable \in BOOLEAN
  BY <1>1 DEF Task
<1>3. earned \in [Months -> Nat]
  BY DEF TypeOK
<1>4. QED
  BY <1>2, <1>3 DEF Counted, Task

LEMMA NextType == TypeOK /\ [Next]_vars => TypeOK'
<1> SUFFICES ASSUME TypeOK, [Next]_vars PROVE TypeOK'
  OBVIOUS
<1>1. ASSUME NEW r \in Served, Check(r) PROVE TypeOK'
  <2>1. [pc |-> "admitted"] \in Task
    BY DEF Task
  <2>2. Served' = Served /\ task' \in [Served -> Task]
    BY <1>1, <2>1, TaskType DEF Check
  <2>3. QED
    BY <1>1, <2>2 DEF TypeOK, Check
<1>2. ASSUME NEW r \in Served, Execute(r) PROVE TypeOK'
  <2>1. \A b \in BOOLEAN : [pc |-> IF b THEN "count" ELSE "audit", billable |-> b] \in Task
    BY DEF Task
  <2>2. QED
    BY <1>2, <2>1, TaskType DEF TypeOK, Execute
<1>3. ASSUME NEW r \in Served, ReadUsage(r) PROVE TypeOK'
  <2>1. task[r] \in Task /\ task[r].billable \in BOOLEAN /\ month \in Months
    BY <1>3 DEF TypeOK, ReadUsage, Task
  <2>2. RowOf(month) \in Nat \cup {Absent}
    BY <2>1, UsedType
  <2>3. [pc |-> "write", billable |-> task[r].billable,
         period |-> month, copy |-> RowOf(month)] \in Task
    BY <2>1, <2>2 DEF Task
  <2>4. QED
    BY <1>3, <2>3, TaskType DEF TypeOK, ReadUsage
<1>4. ASSUME NEW r \in Served, Increase(r) PROVE TypeOK'
  <2>1. /\ task[r].period \in Months /\ task[r].copy + 1 \in Nat
        /\ used' = WithRow(task[r].period, task[r].copy + 1)
    BY <1>4, WriteType DEF Increase
  <2>2. DOMAIN used' \subseteq Months /\ used' \in [DOMAIN used' -> Nat]
    BY <2>1, WithRowType
  <2>3. Served' = Served /\ task' \in [Served -> Task] /\ earned' \in [Months -> Nat]
    BY <1>4, CountedType, TaskType DEF Increase, Charged
  <2>4. QED
    BY <1>4, <2>2, <2>3 DEF TypeOK, Increase
<1>5. ASSUME NEW r \in Served, OpenMonth(r) PROVE TypeOK'
  BY <1>5, WithRowType, WriteType, CountedType, TaskType DEF TypeOK, OpenMonth, Charged
<1>6. Idle \in Task
  BY DEF Idle, Task
<1>7. ASSUME NEW r \in Served, Collide(r) \/ Audit(r) \/ LockTimeout(r) PROVE TypeOK'
  BY <1>6, <1>7, TaskType DEF TypeOK, Collide, Audit, LockTimeout
<1>8. ASSUME Crash \/ NextMonth PROVE TypeOK'
  BY <1>6, <1>8 DEF TypeOK, Crash, NextMonth, Months, Served
<1>9. CASE Quiet \/ UNCHANGED vars
  BY <1>9 DEF TypeOK, Quiet, vars, Served
<1>10. QED
  BY <1>1, <1>2, <1>3, <1>4, <1>5, <1>7, <1>8, <1>9 DEF Next

\* The requests of a behaviour stay the same.
LEMMA ServedStays == TypeOK /\ [Next]_vars => Served' = Served
<1> SUFFICES ASSUME TypeOK, [Next]_vars PROVE Served' = Served
  OBVIOUS
<1>1. ASSUME NEW r \in Served,
             \/ Check(r) \/ Execute(r) \/ ReadUsage(r) \/ Increase(r) \/ OpenMonth(r)
             \/ Collide(r) \/ Audit(r) \/ LockTimeout(r)
      PROVE  Served' = Served
  BY <1>1 DEF Check, Execute, ReadUsage, Increase, OpenMonth, Collide, Audit, LockTimeout,
              Charged, Served
<1>2. CASE Crash \/ NextMonth \/ Quiet \/ UNCHANGED vars
  BY <1>2 DEF Crash, NextMonth, Quiet, vars, Served
<1>3. QED
  BY <1>1, <1>2 DEF Next

\* Every variable keeps its type, however many requests overlap.
THEOREM TypeCorrect == Spec => []TypeOK
<1>1. QED
  BY InitType, NextType, PTL DEF Spec

-----------------------------------------------------------------------------
(* Requests overlap.                                                       *)

\* A copy of the counter is at most what had been earned when it was read, and only a
\* billable result is counted.
CopyEarned(t, e) ==
  /\ t.pc \in {"count", "write"} => t.billable
  /\ t.pc = "write" /\ t.copy # Absent => t.copy <= e[t.period]

OverlapInv == TypeOK /\ NeverOvercharged /\ \A r \in Served : CopyEarned(task[r], earned)

\* Counting a billable result: the month earns one more, the others stay.
LEMMA CountedEarns ==
  ASSUME TypeOK, NEW r \in Served, task[r].pc = "write", task[r].billable,
         earned' = Counted(task[r])
  PROVE  /\ earned'[task[r].period] = earned[task[r].period] + 1
         /\ \A m \in Months : /\ earned'[m] = IF m = task[r].period THEN earned[m] + 1 ELSE earned[m]
                              /\ earned[m] \in Nat /\ earned'[m] \in Nat
                              /\ earned[m] <= earned'[m]
<1>1. task[r].period \in Months
  BY WriteType
<1>2. earned \in [Months -> Nat]
  BY DEF TypeOK
<1>3. earned' = [earned EXCEPT ![task[r].period] = @ + 1]
  BY DEF Counted
<1>4. QED
  BY <1>1, <1>2, <1>3

\* Earning more keeps the bound of every copy.
LEMMA CopyStays ==
  ASSUME TypeOK, TypeOK', NEW t \in Task, CopyEarned(t, earned),
         \A m \in Months : earned[m] <= earned'[m]
  PROVE  CopyEarned(t, earned')
<1>1. t.pc = "write" /\ t.copy # Absent => t.period \in Months /\ t.copy \in Nat
  BY DEF Task
<1>2. \A m \in Months : earned[m] \in Nat /\ earned'[m] \in Nat
  BY DEF TypeOK
<1>3. QED
  BY <1>1, <1>2 DEF CopyEarned

LEMMA OverlapInit == Init => OverlapInv
<1> SUFFICES ASSUME Init PROVE OverlapInv
  OBVIOUS
<1>1. TypeOK
  BY InitType
<1>2. NeverOvercharged
  <2>1. DOMAIN used = {}
    BY DEF Init
  <2>2. QED
    BY <2>1 DEF Init, NeverOvercharged, Used
<1>3. \A r \in Served : CopyEarned(task[r], earned)
  BY DEF Init, Idle, CopyEarned, Served
<1>4. QED
  BY <1>1, <1>2, <1>3 DEF OverlapInv

LEMMA OverlapNext == OverlapInv /\ [Next]_vars => OverlapInv'
<1> SUFFICES ASSUME OverlapInv, [Next]_vars PROVE OverlapInv'
  OBVIOUS
<1>1. TypeOK /\ TypeOK' /\ Served' = Served
  BY NextType, ServedStays DEF OverlapInv
<1>2. \A r \in Served : task[r] \in Task /\ CopyEarned(task[r], earned)
  BY <1>1 DEF OverlapInv, TypeOK
<1>3. ASSUME NEW r \in Served, NEW t \in Task, task' = [task EXCEPT ![r] = t],
             CopyEarned(t, earned'), \A m \in Months : earned[m] <= earned'[m]
      PROVE  \A s \in Served : CopyEarned(task'[s], earned')
  <2> SUFFICES ASSUME NEW s \in Served PROVE CopyEarned(task'[s], earned')
    OBVIOUS
  <2>1. CASE s = r
    <3>1. task'[s] = t
      BY <1>1, <1>3, <2>1 DEF TypeOK
    <3>2. QED
      BY <1>3, <3>1 DEF CopyEarned
  <2>2. CASE s # r
    <3>1. task'[s] = task[s]
      BY <1>1, <1>3, <2>2 DEF TypeOK
    <3>2. QED
      BY <1>1, <1>2, <1>3, <3>1, CopyStays DEF CopyEarned
  <2>3. QED
    BY <2>1, <2>2
<1>4. earned' = earned => \A m \in Months : earned[m] <= earned'[m]
  BY <1>1 DEF TypeOK
<1>5. used' = used /\ earned' = earned => NeverOvercharged'
  BY DEF OverlapInv, NeverOvercharged, Used
<1>6. ASSUME NEW r \in Served, Check(r) PROVE OverlapInv'
  <2>1. [pc |-> "admitted"] \in Task /\ CopyEarned([pc |-> "admitted"], earned')
    BY DEF Task, CopyEarned
  <2>2. QED
    BY <1>1, <1>3, <1>4, <1>5, <1>6, <2>1 DEF OverlapInv, Check
<1>7. ASSUME NEW r \in Served, Execute(r) PROVE OverlapInv'
  <2>1. PICK b \in BOOLEAN :
          task' = [task EXCEPT ![r] = [pc |-> IF b THEN "count" ELSE "audit", billable |-> b]]
    BY <1>7 DEF Execute
  <2> DEFINE t == [pc |-> IF b THEN "count" ELSE "audit", billable |-> b]
  <2>2. t \in Task /\ CopyEarned(t, earned')
    BY DEF Task, CopyEarned
  <2>3. QED
    BY <1>1, <1>3, <1>4, <1>5, <1>7, <2>1, <2>2 DEF OverlapInv, Execute
<1>8. ASSUME NEW r \in Served, ReadUsage(r) PROVE OverlapInv'
  <2> DEFINE t == [pc |-> "write", billable |-> task[r].billable,
                   period |-> month, copy |-> RowOf(month)]
  <2>1. t \in Task
    BY <1>1, <1>8, UsedType DEF TypeOK, ReadUsage, Task
  <2>2. task' = [task EXCEPT ![r] = t] /\ earned' = earned
    BY <1>8 DEF ReadUsage
  <2>3. task[r].billable
    BY <1>2, <1>8 DEF ReadUsage, CopyEarned
  <2>4. RowOf(month) # Absent => RowOf(month) <= earned[month]
    BY <1>1 DEF OverlapInv, NeverOvercharged, RowOf, Used, TypeOK
  <2>5. CopyEarned(t, earned')
    BY <2>2, <2>3, <2>4 DEF CopyEarned
  <2>6. QED
    BY <1>1, <1>3, <1>4, <1>5, <1>8, <2>1, <2>2, <2>5 DEF OverlapInv, ReadUsage
<1>9. ASSUME NEW r \in Served, NEW n \in Nat, task[r].pc = "write",
             used' = WithRow(task[r].period, n), n <= earned[task[r].period] + 1,
             earned' = Counted(task[r]), Charged(r)
      PROVE  OverlapInv'
  <2>1. task[r].period \in Months /\ task[r].billable
    BY <1>1, <1>2, <1>9, WriteType DEF CopyEarned
  <2>2. /\ earned'[task[r].period] = earned[task[r].period] + 1
        /\ \A m \in Months : earned[m] \in Nat /\ earned[m] <= earned'[m]
    BY <1>1, <1>9, <2>1, CountedEarns
  <2>3. NeverOvercharged'
    <3> SUFFICES ASSUME NEW m \in Months PROVE Used(m)' <= earned'[m]
      BY DEF NeverOvercharged, Months
    <3>1. CASE m = task[r].period
      BY <1>1, <1>9, <2>1, <2>2, <3>1, WithRowType
    <3>2. CASE m # task[r].period
      <4>1. Used(m)' = Used(m) /\ Used(m) <= earned[m] /\ Used(m) \in Nat
        BY <1>1, <1>9, <2>1, <3>2, WithRowType, UsedType DEF OverlapInv, NeverOvercharged
      <4>2. earned[m] \in Nat /\ earned'[m] \in Nat /\ earned[m] <= earned'[m]
        BY <1>1, <2>2 DEF TypeOK, Months
      <4>3. QED
        BY <4>1, <4>2
    <3>3. QED
      BY <3>1, <3>2
  <2> DEFINE t == [pc |-> "audit", billable |-> task[r].billable]
  <2>4. t \in Task /\ CopyEarned(t, earned') /\ task' = [task EXCEPT ![r] = t]
    BY <1>1, <1>9, CountedType DEF CopyEarned, Charged
  <2>5. QED
    BY <1>1, <1>3, <1>9, <2>2, <2>3, <2>4 DEF OverlapInv
<1>10. ASSUME NEW r \in Served, Increase(r) PROVE OverlapInv'
  <2>1. task[r].pc = "write" /\ task[r].copy # Absent /\ task[r].copy \in Nat
    BY <1>1, <1>10, WriteType DEF Increase
  <2>2. task[r].copy <= earned[task[r].period] /\ earned[task[r].period] \in Nat
    BY <1>1, <1>2, <2>1, WriteType DEF CopyEarned, TypeOK
  <2>3. task[r].copy + 1 \in Nat /\ task[r].copy + 1 <= earned[task[r].period] + 1
    BY <2>1, <2>2
  <2>4. QED
    BY <1>9, <1>10, <2>1, <2>3 DEF Increase
<1>11. ASSUME NEW r \in Served, OpenMonth(r) PROVE OverlapInv'
  <2>1. task[r].pc = "write" /\ earned[task[r].period] \in Nat
    BY <1>1, <1>11, WriteType DEF OpenMonth, TypeOK
  <2>2. QED
    BY <1>9, <1>11, <2>1 DEF OpenMonth
<1>12. Idle \in Task /\ CopyEarned(Idle, earned')
  BY DEF Idle, Task, CopyEarned
<1>13. ASSUME NEW r \in Served, Collide(r) \/ Audit(r) \/ LockTimeout(r) PROVE OverlapInv'
  BY <1>1, <1>3, <1>4, <1>5, <1>12, <1>13 DEF OverlapInv, Collide, Audit, LockTimeout
<1>14. CASE Crash
  BY <1>1, <1>5, <1>12, <1>14 DEF OverlapInv, Crash
<1>15. CASE NextMonth \/ Quiet \/ UNCHANGED vars
  <2>1. task' = task /\ used' = used /\ earned' = earned
    BY <1>15 DEF NextMonth, Quiet, vars
  <2>2. QED
    BY <1>1, <1>2, <1>5, <2>1 DEF OverlapInv, CopyEarned
<1>16. QED
  BY <1>6, <1>7, <1>8, <1>10, <1>11, <1>13, <1>14, <1>15 DEF Next

\* However many requests overlap, over any number of months and with any crashes, the
\* counter never shows more than the billable results of the month.
THEOREM ChargesWhatWasEarned == Spec => []NeverOvercharged
<1>1. OverlapInv => NeverOvercharged
  BY DEF OverlapInv
<1>2. QED
  BY OverlapInit, OverlapNext, <1>1, PTL DEF Spec

-----------------------------------------------------------------------------
(* One request at a time.                                                  *)

\* What a task relies on while it is served: there was room when it was admitted, and
\* there still is in the month it will be counted in.
Roomy(t) ==
  /\ t.pc \in {"admitted", "count"} => Used(month) + 1 <= Limit
  /\ t.pc = "count" => t.billable
  /\ t.pc = "write" =>
       /\ t.billable /\ t.period <= month
       /\ t.copy = RowOf(t.period) /\ Used(t.period) + 1 <= Limit

FutureUnused == \A m \in DOMAIN used : m <= month

SerialInv ==
  /\ TypeOK /\ UsedIsEarned /\ WithinLimit /\ FutureUnused
  /\ \A r \in Served : Roomy(task[r])

LEMMA SerialInit == Init => SerialInv
<1> SUFFICES ASSUME Init PROVE SerialInv
  OBVIOUS
<1>1. TypeOK
  BY InitType
<1>2. DOMAIN used = {}
  BY DEF Init
<1>3. UsedIsEarned /\ WithinLimit /\ FutureUnused
  BY <1>2 DEF Init, UsedIsEarned, WithinLimit, FutureUnused, Used
<1>4. \A r \in Served : Roomy(task[r])
  BY DEF Init, Idle, Roomy, Served
<1>5. QED
  BY <1>1, <1>3, <1>4 DEF SerialInv

\* The only request is what a step changes.
LEMMA OnlyTask ==
  ASSUME OneAtATime, TypeOK, NEW r \in Served, NEW t \in Task,
         task' = [task EXCEPT ![r] = t]
  PROVE  \A s \in Served : task'[s] = t
  BY DEF OneAtATime, TypeOK

LEMMA SerialNext ==
  ASSUME OneAtATime, SerialInv, [Next]_vars
  PROVE  SerialInv'
<1>1. TypeOK /\ TypeOK' /\ Served' = Served /\ OneAtATime'
  BY NextType, ServedStays DEF SerialInv, OneAtATime
<1>2. \A r \in Served : task[r] \in Task /\ Roomy(task[r])
  BY <1>1 DEF SerialInv, TypeOK
<1>3. /\ month \in Months /\ \A m \in Months : Used(m) \in Nat /\ earned[m] \in Nat
      /\ \A m \in Months : Used(m) = earned[m] /\ earned[m] <= Limit
  BY <1>1, UsedType DEF SerialInv, UsedIsEarned, WithinLimit, TypeOK
<1>4. used' = used /\ earned' = earned /\ month' = month =>
        (UsedIsEarned /\ WithinLimit /\ FutureUnused)'
  BY DEF SerialInv, UsedIsEarned, WithinLimit, FutureUnused, Used
<1>5. ASSUME NEW r \in Served, Check(r) PROVE SerialInv'
  <2>1. [pc |-> "admitted"] \in Task
    BY DEF Task
  <2>2. \A s \in Served : task'[s] = [pc |-> "admitted"]
    BY <1>1, <1>5, <2>1, OnlyTask DEF Check
  <2>3. \A s \in Served : Roomy(task[s])'
    BY <1>5, <2>2 DEF Check, Allowed, Roomy, Used
  <2>4. QED
    BY <1>1, <1>4, <1>5, <2>3 DEF SerialInv, Check
<1>6. ASSUME NEW r \in Served, Execute(r) PROVE SerialInv'
  <2>1. PICK b \in BOOLEAN :
          task' = [task EXCEPT ![r] = [pc |-> IF b THEN "count" ELSE "audit", billable |-> b]]
    BY <1>6 DEF Execute
  <2> DEFINE t == [pc |-> IF b THEN "count" ELSE "audit", billable |-> b]
  <2>2. t \in Task
    BY DEF Task
  <2>3. \A s \in Served : task'[s] = t
    BY <1>1, <2>1, <2>2, OnlyTask
  <2>4. Used(month) + 1 <= Limit /\ month' = month /\ used' = used
    BY <1>2, <1>6 DEF Execute, Roomy
  <2>5. \A s \in Served : Roomy(task[s])'
    BY <2>3, <2>4 DEF Roomy, Used
  <2>6. QED
    BY <1>1, <1>4, <1>6, <2>5 DEF SerialInv, Execute
<1>7. ASSUME NEW r \in Served, ReadUsage(r) PROVE SerialInv'
  <2> DEFINE t == [pc |-> "write", billable |-> task[r].billable,
                   period |-> month, copy |-> RowOf(month)]
  <2>1. t \in Task
    BY <1>1, <1>7, UsedType DEF TypeOK, ReadUsage, Task
  <2>2. \A s \in Served : task'[s] = t
    BY <1>1, <1>7, <2>1, OnlyTask DEF ReadUsage
  <2>3. /\ task[r].billable /\ Used(month) + 1 <= Limit
        /\ month' = month /\ used' = used /\ month <= month
    BY <1>2, <1>3, <1>7 DEF ReadUsage, Roomy, Months
  <2>4. \A s \in Served : Roomy(task[s])'
    BY <2>2, <2>3 DEF Roomy, Used, RowOf
  <2>5. QED
    BY <1>1, <1>4, <1>7, <2>4 DEF SerialInv, ReadUsage
<1>8. ASSUME NEW r \in Served, NEW n \in Nat, task[r].pc = "write",
             used' = WithRow(task[r].period, n), n = Used(task[r].period) + 1,
             earned' = Counted(task[r]), Charged(r), month' = month
      PROVE  SerialInv'
  <2>1. /\ task[r].period \in Months /\ task[r].period <= month /\ task[r].billable
        /\ Used(task[r].period) + 1 <= Limit
    BY <1>1, <1>2, <1>8, WriteType DEF Roomy
  <2>2. \A m \in Months : earned'[m] = IF m = task[r].period THEN earned[m] + 1 ELSE earned[m]
    BY <1>1, <1>8, <2>1, CountedEarns
  <2>3. \A m \in Months : Used(m)' = IF m = task[r].period THEN n ELSE Used(m)
    BY <1>1, <1>8, <2>1, WithRowType
  <2>4. UsedIsEarned' /\ WithinLimit'
    <3> SUFFICES ASSUME NEW m \in Months PROVE Used(m)' = earned'[m] /\ earned'[m] <= Limit
      BY DEF UsedIsEarned, WithinLimit, Months
    <3>1. QED
      BY <1>3, <1>8, <2>1, <2>2, <2>3
  <2>5. FutureUnused'
    BY <1>1, <1>8, <2>1, WithRowType DEF FutureUnused, SerialInv
  <2> DEFINE t == [pc |-> "audit", billable |-> task[r].billable]
  <2>6. \A s \in Served : task'[s] = t
    BY <1>1, <1>8, CountedType, OnlyTask DEF Charged
  <2>7. \A s \in Served : Roomy(task[s])'
    BY <2>6 DEF Roomy
  <2>8. QED
    BY <1>1, <2>4, <2>5, <2>7 DEF SerialInv
<1>9. ASSUME NEW r \in Served, Increase(r) PROVE SerialInv'
  <2>1. /\ task[r].pc = "write" /\ task[r].copy # Absent /\ task[r].period \in Months
        /\ task[r].copy = RowOf(task[r].period)
    BY <1>1, <1>2, <1>9, WriteType DEF Increase, Roomy
  <2>2. task[r].copy = Used(task[r].period)
    BY <2>1 DEF RowOf, Used
  <2>3. task[r].copy + 1 \in Nat /\ task[r].copy + 1 = Used(task[r].period) + 1
    BY <1>3, <2>1, <2>2
  <2>4. QED
    BY <1>8, <1>9, <2>1, <2>3 DEF Increase
<1>10. ASSUME NEW r \in Served, OpenMonth(r) PROVE SerialInv'
  <2>1. task[r].pc = "write" /\ Used(task[r].period) = 0
    BY <1>10 DEF OpenMonth, Used
  <2>2. QED
    BY <1>8, <1>10, <2>1 DEF OpenMonth
<1>11. Idle \in Task
  BY DEF Idle, Task
<1>12. ASSUME NEW r \in Served, Collide(r) \/ Audit(r) \/ LockTimeout(r) PROVE SerialInv'
  <2>1. \A s \in Served : task'[s] = Idle
    BY <1>1, <1>11, <1>12, OnlyTask DEF Collide, Audit, LockTimeout
  <2>2. \A s \in Served : Roomy(task[s])'
    BY <2>1 DEF Roomy, Idle
  <2>3. QED
    BY <1>1, <1>4, <1>12, <2>2 DEF SerialInv, Collide, Audit, LockTimeout
<1>13. CASE Crash
  <2>1. \A s \in Served : Roomy(task[s])'
    BY <1>13 DEF Crash, Roomy, Idle
  <2>2. QED
    BY <1>1, <1>4, <1>13, <2>1 DEF SerialInv, Crash
<1>14. CASE NextMonth
  <2>1. /\ month' = month + 1 /\ month' \in Months /\ month \in Nat /\ used' = used /\ earned' = earned
        /\ task' = task
    BY <1>1, <1>3, <1>14 DEF NextMonth, Months, TypeOK
  <2>2. month' \notin DOMAIN used
    BY <2>1 DEF SerialInv, FutureUnused
  <2>3. Used(month)' = 0
    BY <2>1, <2>2 DEF Used
  <2>4. FutureUnused'
    <3>1. \A m \in DOMAIN used : m \in Nat /\ m <= month
      BY <1>1 DEF SerialInv, FutureUnused, TypeOK, Months
    <3>2. QED
      BY <2>1, <3>1 DEF FutureUnused
  <2>5. UsedIsEarned' /\ WithinLimit'
    BY <2>1 DEF SerialInv, UsedIsEarned, WithinLimit, Used
  <2>6. ASSUME NEW r \in Served PROVE Roomy(task[r])'
    <3>1. CASE task[r].pc \in {"admitted", "count"}
      <4>1. 1 <= Limit
        BY <1>2, <1>3, <3>1 DEF Roomy
      <4>2. QED
        BY <1>2, <2>1, <2>3, <3>1, <4>1 DEF Roomy
    <3>2. CASE task[r].pc = "write"
      <4>1. task[r].period \in Nat /\ task[r].period <= month
        BY <1>1, <1>2, <3>2, WriteType DEF Roomy, Months
      <4>2. task[r].period <= month'
        BY <2>1, <4>1
      <4>3. QED
        BY <1>2, <2>1, <3>2, <4>2 DEF Roomy, Used, RowOf
    <3>3. CASE task[r].pc \notin {"admitted", "count", "write"}
      BY <2>1, <3>3 DEF Roomy
    <3>4. QED
      BY <3>1, <3>2, <3>3
  <2>7. QED
    BY <1>1, <2>4, <2>5, <2>6 DEF SerialInv
<1>15. CASE Quiet \/ UNCHANGED vars
  <2>1. task' = task /\ used' = used /\ earned' = earned /\ month' = month
    BY <1>15 DEF Quiet, vars
  <2>2. \A r \in Served : Roomy(task[r])'
    BY <1>2, <2>1 DEF Roomy, Used, RowOf
  <2>3. QED
    BY <1>1, <1>4, <2>1, <2>2 DEF SerialInv
<1>16. QED
  BY <1>5, <1>6, <1>7, <1>9, <1>10, <1>12, <1>13, <1>14, <1>15 DEF Next

\* The invariant of all behaviours: with one request at a time, SerialInv.
ServedInv == TypeOK /\ (OneAtATime => SerialInv)

LEMMA ServedInvariant == Spec => []ServedInv
<1>1. Init => ServedInv
  BY InitType, SerialInit DEF ServedInv
<1>2. ServedInv /\ [Next]_vars => ServedInv'
  BY NextType, ServedStays, SerialNext DEF ServedInv, OneAtATime
<1>3. QED
  BY <1>1, <1>2, PTL DEF Spec

\* Served one at a time, tasks leave an exact counter, although the month may turn
\* between the check and the count.
THEOREM SerialQuotaExact == Spec => []UsedIsEarned
<1>1. ServedInv => UsedIsEarned
  BY DEF ServedInv, SerialInv, UsedIsEarned
<1>2. QED
  BY ServedInvariant, <1>1, PTL

\* See SerialQuotaExact: the same invariant bounds every month by the limit.
THEOREM SerialQuotaWithinLimit == Spec => []WithinLimit
<1>1. ServedInv => WithinLimit
  BY DEF ServedInv, SerialInv, WithinLimit
<1>2. QED
  BY ServedInvariant, <1>1, PTL

-----------------------------------------------------------------------------
(* Two requests at a time.                                                 *)

TwoAtATime == \A r, s, t \in Served : r = s \/ s = t \/ r = t

\* The task t may still count in month m.
Heading(t, m) ==
  \/ t.pc \in {"admitted", "count"} /\ m = month
  \/ t.pc = "write" /\ m = t.period

\* A task that is to be counted finds at most the limit; a copy that has reached the limit
\* is no older than a counter that has.
CountsUpTo(t) ==
  /\ t.pc \in {"admitted", "count", "write"} => 1 <= Limit
  /\ t.pc \in {"admitted", "count"} => Used(month) <= Limit
  /\ t.pc = "write" =>
       /\ t.period <= month
       /\ t.copy # Absent => t.copy <= Limit /\ (t.copy = Limit => Limit <= Used(t.period))

\* While both may still count in a month, there is room in it.
RoomForBoth ==
  \A r, s \in Served : \A m \in Months :
    r # s /\ Heading(task[r], m) /\ Heading(task[s], m) => Used(m) < Limit

OverrunInv ==
  /\ TypeOK
  /\ \A m \in DOMAIN used : m <= month
  /\ \A r \in Served : CountsUpTo(task[r])
  /\ RoomForBoth
  /\ \A m \in Months : Used(m) <= Limit + 1

\* A step of one request that does not touch the counter, and opens no new way to it.
LEMMA OverrunMoves ==
  ASSUME OverrunInv, TypeOK', Served' = Served, UNCHANGED <<month, used>>,
         NEW r \in Served, NEW t \in Task, task' = [task EXCEPT ![r] = t],
         CountsUpTo(t), \A m \in Months : Heading(t, m) => Heading(task[r], m)
  PROVE  OverrunInv'
<1>1. \A m : Used(m)' = Used(m)
  BY DEF Used
<1>2. \A s \in Served : task'[s] = IF s = r THEN t ELSE task[s]
  BY DEF OverrunInv, TypeOK
<1>3. \A s \in Served : CountsUpTo(task'[s])
  BY <1>2 DEF OverrunInv
<1>4. (\A s \in Served : CountsUpTo(task[s]))'
  BY <1>1, <1>3 DEF CountsUpTo
<1>5. \A s \in Served : \A m \in Months : Heading(task[s], m)' => Heading(task[s], m)
  BY <1>2 DEF Heading
<1>6. RoomForBoth'
  BY <1>1, <1>5 DEF OverrunInv, RoomForBoth
<1>7. \A m \in Months : Used(m)' <= Limit + 1
  BY <1>1 DEF OverrunInv
<1>8. QED
  BY <1>4, <1>6, <1>7 DEF OverrunInv, Months

\* A count: the counter of the month becomes n, one more than a copy of it.
LEMMA OverrunCounts ==
  ASSUME OverrunInv, TwoAtATime, TypeOK', Served' = Served, month' = month,
         NEW r \in Served, task[r].pc = "write", NEW n \in Nat,
         used' = WithRow(task[r].period, n), Charged(r),
         IF task[r].copy = Absent THEN n = 1 ELSE n = task[r].copy + 1
  PROVE  OverrunInv'
<1>1. /\ TypeOK /\ RoomForBoth /\ \A m \in DOMAIN used : m <= month
      /\ \A s \in Served : CountsUpTo(task[s])
      /\ \A m \in Months : Used(m) <= Limit + 1
  BY DEF OverrunInv
<1>2. PICK p \in Months : p = task[r].period
  BY <1>1, WriteType
<1>3. PICK c \in Nat \cup {Absent} : c = task[r].copy
  BY <1>1, WriteType
<1>4. Limit \in Nat /\ month \in Nat /\ p \in Nat
  BY <1>1 DEF TypeOK, Months
<1>5. /\ p <= month /\ 1 <= Limit
      /\ c # Absent => c <= Limit /\ (c = Limit => Limit <= Used(p))
  BY <1>1, <1>2, <1>3 DEF CountsUpTo
<1>6. n <= Limit + 1
  BY <1>3, <1>4, <1>5
<1>7. /\ DOMAIN used' = DOMAIN used \cup {p} /\ Used(p)' = n
      /\ \A m \in Months : m # p => Used(m)' = Used(m)
  <2>1. used' = WithRow(p, n)
    BY <1>2
  <2>2. QED
    BY <1>1, <2>1, WithRowType
<1>8. /\ task'[r].pc = "audit" /\ \A s \in Served : s # r => task'[s] = task[s]
  BY <1>1 DEF Charged, TypeOK
\* The other one, if it is to be counted in this month too, found room.
<1>9. ASSUME NEW s \in Served, s # r, Heading(task[s], p)
      PROVE  Used(p) < Limit /\ Used(p) \in Nat /\ n <= Limit
  <2>1. Heading(task[r], p)
    BY <1>2 DEF Heading
  <2>2. Used(p) < Limit
    BY <1>1, <1>9, <2>1 DEF RoomForBoth
  <2>3. Used(p) \in Nat
    BY <1>1, UsedType
  <2>4. c # Absent => c < Limit
    BY <1>4, <1>5, <2>2, <2>3
  <2>5. QED
    BY <1>3, <1>4, <1>5, <2>2, <2>3, <2>4
<1>10. ASSUME NEW s \in Served PROVE CountsUpTo(task[s])'
  <2>1. CASE s = r
    BY <1>8, <2>1 DEF CountsUpTo
  <2>2. CASE s # r
    <3>1. CountsUpTo(task[s]) /\ task'[s] = task[s]
      BY <1>1, <1>8, <2>2
    <3>2. task[s].pc \in {"admitted", "count"} => Used(month)' <= Limit
      <4>1. CASE month = p
        <5>1. task[s].pc \in {"admitted", "count"} => n <= Limit
          BY <1>9, <2>2, <4>1 DEF Heading
        <5>2. Used(month)' = n
          BY <1>7, <4>1
        <5>3. QED
          BY <5>1, <5>2
      <4>2. CASE month # p
        <5>1. Used(month)' = Used(month)
          BY <1>1, <1>7, <4>2 DEF TypeOK
        <5>2. QED
          BY <3>1, <5>1 DEF CountsUpTo
      <4>3. QED
        BY <4>1, <4>2
    <3>3. ASSUME task[s].pc = "write", task[s].copy # Absent, task[s].copy = Limit
          PROVE  Limit <= Used(task[s].period)'
      <4>1. PICK q \in Months : q = task[s].period
        BY <1>1, <3>3, WriteType
      <4>2. Limit <= Used(q)
        BY <3>1, <3>3, <4>1 DEF CountsUpTo
      <4>3. q # p
        <5>1. q = p => Used(p) < Limit /\ Used(p) \in Nat
          BY <1>9, <2>2, <3>3, <4>1 DEF Heading
        <5>2. QED
          BY <1>4, <4>2, <5>1
      <4>4. Limit <= Used(q)'
        BY <1>7, <4>2, <4>3
      <4>5. QED
        BY <3>1, <4>1, <4>4
    <3>4. QED
      BY <3>1, <3>2, <3>3 DEF CountsUpTo
  <2>3. QED
    BY <2>1, <2>2
<1>11. RoomForBoth'
  <2>1. \A m : ~Heading(task[r], m)'
    BY <1>8 DEF Heading
  <2>2. \A s, t \in Served : s = r \/ t = r \/ s = t
    BY DEF TwoAtATime
  <2>3. QED
    BY <2>1, <2>2 DEF RoomForBoth
<1>12. ASSUME NEW m \in Months PROVE Used(m)' <= Limit + 1
  BY <1>1, <1>6, <1>7
<1>13. \A m \in DOMAIN used' : m <= month
  BY <1>1, <1>5, <1>7
<1>14. QED
  BY <1>10, <1>11, <1>12, <1>13 DEF OverrunInv, Months

\* A month without a row has nothing counted.
LEMMA LaterMonthsEmpty ==
  ASSUME OverrunInv, NEW m, ~(m <= month)
  PROVE  Used(m) = 0
BY DEF OverrunInv, Used

LEMMA OverrunInit == Init => OverrunInv
<1> SUFFICES ASSUME Init PROVE OverrunInv
  OBVIOUS
<1>1. TypeOK
  BY InitType
<1>2. \A r \in Served : task[r] = Idle
  BY DEF Init, Served
<1>3. \A m : Used(m) = 0
  BY DEF Init, Used
<1>4. DOMAIN used = {}
  BY DEF Init
<1>5. QED
  BY <1>1, <1>2, <1>3, <1>4 DEF OverrunInv, RoomForBoth, CountsUpTo, Heading, Idle

LEMMA OverrunNext == OverrunInv /\ TwoAtATime /\ [Next]_vars => OverrunInv'
<1> SUFFICES ASSUME OverrunInv, TwoAtATime, [Next]_vars PROVE OverrunInv'
  OBVIOUS
<1>1. TypeOK /\ TypeOK' /\ Served' = Served /\ month \in Months /\ month \in Nat
  <2>1. TypeOK
    BY DEF OverrunInv
  <2>2. TypeOK' /\ Served' = Served
    BY <2>1, NextType, ServedStays
  <2>3. month \in Months /\ month \in Nat
    BY <2>1 DEF TypeOK, Months
  <2>4. QED
    BY <2>1, <2>2, <2>3
<1>2. Used(month) \in Nat
  BY <1>1, UsedType
<1>3. CountsUpTo(Idle) /\ Idle \in Task /\ \A m : ~Heading(Idle, m)
  BY DEF CountsUpTo, Heading, Idle, Task
<1>4. ASSUME NEW r \in Served, Check(r) PROVE OverrunInv'
  <2> DEFINE t == [pc |-> "admitted"]
  <2>1. task' = [task EXCEPT ![r] = t] /\ UNCHANGED <<month, used>> /\ Used(month) + 1 <= Limit
    BY <1>4 DEF Check, Allowed
  <2>2. \A s \in Served : task'[s] = IF s = r THEN t ELSE task[s]
    BY <1>1, <2>1 DEF TypeOK
  <2>3. \A m : Used(m)' = Used(m)
    BY <2>1 DEF Used
  <2>4. CountsUpTo(t)
    BY <1>2, <2>1 DEF CountsUpTo
  <2>5. \A s \in Served : CountsUpTo(task'[s])
    BY <2>2, <2>4 DEF OverrunInv
  <2>6. (\A s \in Served : CountsUpTo(task[s]))'
    BY <1>1, <2>1, <2>3, <2>5 DEF CountsUpTo
  <2>7. Used(month) < Limit
    BY <1>2, <2>1
  <2>8. \A s \in Served : \A m \in Months : Heading(task[s], m)' =>
                                              m = month \/ (s # r /\ Heading(task[s], m))
    BY <2>1, <2>2 DEF Heading
  <2>9. RoomForBoth'
    BY <1>1, <2>3, <2>7, <2>8 DEF OverrunInv, RoomForBoth
  <2>10. QED
    BY <1>1, <2>1, <2>3, <2>6, <2>9 DEF OverrunInv, Months
<1>5. ASSUME NEW r \in Served, Execute(r) PROVE OverrunInv'
  <2>1. PICK b \in BOOLEAN :
          task' = [task EXCEPT ![r] = [pc |-> IF b THEN "count" ELSE "audit", billable |-> b]]
    BY <1>5 DEF Execute
  <2> DEFINE t == [pc |-> IF b THEN "count" ELSE "audit", billable |-> b]
  <2>2. /\ t \in Task /\ t.pc \in {"count", "audit"} /\ task[r].pc = "admitted"
        /\ CountsUpTo(task[r]) /\ UNCHANGED <<month, used>>
    BY <1>5 DEF Task, Execute, OverrunInv
  <2> HIDE DEF t
  <2>3. CountsUpTo(t) /\ \A m \in Months : Heading(t, m) => Heading(task[r], m)
    BY <2>2 DEF CountsUpTo, Heading
  <2>4. QED
    BY <1>1, <2>1, <2>2, <2>3, OverrunMoves DEF t
<1>6. ASSUME NEW r \in Served, ReadUsage(r) PROVE OverrunInv'
  <2> DEFINE t == [pc |-> "write", billable |-> task[r].billable,
                   period |-> month, copy |-> RowOf(month)]
  <2>1. task' = [task EXCEPT ![r] = t] /\ UNCHANGED <<month, used>> /\ task[r].pc = "count"
    BY <1>6 DEF ReadUsage
  <2>2. t \in Task
    BY <1>1, <2>1, UsedType DEF TypeOK, Task
  <2>3. t.pc = "write" /\ t.period = month /\ t.copy = RowOf(month)
    OBVIOUS
  <2> HIDE DEF t
  <2>4. CountsUpTo(task[r]) /\ (RowOf(month) # Absent => RowOf(month) = Used(month))
    BY DEF OverrunInv, RowOf, Used
  <2>5. CountsUpTo(t)
    BY <1>1, <1>2, <2>1, <2>3, <2>4 DEF CountsUpTo
  <2>6. \A m \in Months : Heading(t, m) => Heading(task[r], m)
    BY <2>1, <2>3 DEF Heading
  <2>7. QED
    BY <1>1, <2>1, <2>2, <2>5, <2>6, OverrunMoves
<1>7. ASSUME NEW r \in Served, Increase(r) PROVE OverrunInv'
  <2>1. /\ task[r].pc = "write" /\ task[r].copy # Absent /\ task[r].copy + 1 \in Nat
        /\ used' = WithRow(task[r].period, task[r].copy + 1) /\ Charged(r) /\ UNCHANGED month
    BY <1>1, <1>7, WriteType DEF Increase
  <2>2. QED
    BY <1>1, <2>1, OverrunCounts
<1>8. ASSUME NEW r \in Served, OpenMonth(r) PROVE OverrunInv'
  BY <1>1, <1>8, OverrunCounts DEF OpenMonth
<1>9. ASSUME NEW r \in Served, Collide(r) \/ Audit(r) \/ LockTimeout(r) PROVE OverrunInv'
  BY <1>1, <1>3, <1>9, OverrunMoves DEF Collide, Audit, LockTimeout
<1>10. CASE Crash
  <2>1. (\A r \in Served : task[r] = Idle)' /\ UNCHANGED <<month, used>>
    BY <1>1, <1>10 DEF Crash
  <2>2. \A m : Used(m)' = Used(m)
    BY <2>1 DEF Used
  <2>3. QED
    BY <1>1, <2>1, <2>2 DEF OverrunInv, RoomForBoth, CountsUpTo, Heading, Idle, Months
<1>11. CASE NextMonth
  <2>1. month' = month + 1 /\ UNCHANGED <<used, task>>
    BY <1>11 DEF NextMonth
  <2>2. \A m : Used(m)' = Used(m)
    BY <2>1 DEF Used
  <2>3. Used(month + 1) = 0
    BY <1>1, LaterMonthsEmpty
  <2>4. ASSUME NEW r \in Served PROVE CountsUpTo(task[r])'
    <3>1. CountsUpTo(task[r]) /\ task'[r] = task[r]
      BY <2>1 DEF OverrunInv
    <3>2. task[r].pc = "write" => task[r].period \in Nat
      BY <1>1, WriteType DEF Months
    <3>3. QED
      BY <1>1, <2>1, <2>2, <2>3, <3>1, <3>2 DEF CountsUpTo
  <2>5. ASSUME NEW r \in Served, NEW s \in Served, NEW m \in Months, r # s,
               Heading(task[r], m)', Heading(task[s], m)'
        PROVE  Used(m)' < Limit
    <3>1. CASE task[r].pc = "write" /\ task[s].pc = "write"
      BY <1>1, <2>1, <2>2, <2>5, <3>1 DEF Heading, OverrunInv, RoomForBoth
    <3>2. CASE task[r].pc # "write" \/ task[s].pc # "write"
      <4>1. m = month + 1 /\ 1 <= Limit
        BY <2>1, <2>5, <3>2 DEF Heading, OverrunInv, CountsUpTo
      <4>2. QED
        BY <2>2, <2>3, <4>1
    <3>3. QED
      BY <3>1, <3>2
  <2>6. RoomForBoth'
    BY <1>1, <2>5 DEF RoomForBoth, Months
  <2>7. (\A m \in DOMAIN used : m <= month)'
    BY <1>1, <2>1 DEF OverrunInv, TypeOK, Months
  <2>8. QED
    BY <1>1, <2>2, <2>4, <2>6, <2>7 DEF OverrunInv, Months
<1>12. CASE Quiet \/ UNCHANGED vars
  <2>1. UNCHANGED <<task, used, month>>
    BY <1>12 DEF Quiet, vars
  <2>2. QED
    BY <1>1, <2>1 DEF OverrunInv, RoomForBoth, CountsUpTo, Heading, Months, Used
<1>13. QED
  BY <1>4, <1>5, <1>6, <1>7, <1>8, <1>9, <1>10, <1>11, <1>12 DEF Next

\* If the user has two requests at most, whatever the copies they read of the counter, it
\* shows at most one task more than the limit (check_entitlement before, consume_quota
\* after the task).
THEOREM TwoOverrunByOne ==
  ASSUME \A r, s, t \in Requests : r = s \/ s = t \/ r = t
  PROVE  Spec => []OverrunByOne
<1>1. OverrunInv => TwoAtATime /\ OverrunByOne
  BY DEF OverrunInv, TypeOK, TwoAtATime, OverrunByOne
<1>2. OverrunInv /\ [Next]_vars => OverrunInv'
  BY <1>1, OverrunNext
<1>3. QED
  BY <1>1, <1>2, OverrunInit, PTL DEF Spec

-----------------------------------------------------------------------------
(* The audit trail.                                                        *)

\* Alone, a request that found no row for the month still finds none when it inserts it.
RecordInv ==
  /\ TypeOK
  /\ OneAtATime /\ faults = 0 =>
       /\ unrecorded = {}
       /\ \A r \in Served : task[r].pc = "write" /\ task[r].copy = Absent =>
                              task[r].period \notin DOMAIN used

LEMMA RecordNext == RecordInv /\ [Next]_vars => RecordInv'
<1> SUFFICES ASSUME RecordInv, [Next]_vars PROVE RecordInv'
  OBVIOUS
<1>1. TypeOK /\ TypeOK' /\ Served' = Served
  BY NextType, ServedStays DEF RecordInv
<1>2. faults \in Nat /\ (faults' = faults \/ faults' = faults + 1)
  BY <1>1 DEF TypeOK, Next, Check, Execute, ReadUsage, Increase, OpenMonth, Collide, Audit,
              LockTimeout, Crash, NextMonth, Quiet, vars
<1> SUFFICES ASSUME OneAtATime, faults' = 0
             PROVE  /\ unrecorded' = {}
                    /\ \A r \in Served : task'[r].pc = "write" /\ task'[r].copy = Absent =>
                                           task'[r].period \notin DOMAIN used'
  BY <1>1 DEF RecordInv, OneAtATime
<1>3. /\ faults = 0 /\ unrecorded = {}
      /\ \A r \in Served : task[r].pc = "write" /\ task[r].copy = Absent =>
                             task[r].period \notin DOMAIN used
  BY <1>2 DEF RecordInv
<1>4. ASSUME NEW r \in Served, NEW t, task' = [task EXCEPT ![r] = t]
      PROVE  \A s \in Served : task'[s] = t
  BY <1>1, <1>4 DEF OneAtATime, TypeOK
<1>5. ASSUME NEW r \in Served, Check(r) \/ Execute(r) \/ Audit(r)
      PROVE  unrecorded' = {} /\ \A s \in Served : task'[s].pc # "write"
  <2>1. unrecorded' = {}
    BY <1>3, <1>5 DEF Check, Execute, Audit
  <2>2. CASE Check(r)
    <3>1. \A s \in Served : task'[s] = [pc |-> "admitted"]
      <4>1. task' = [task EXCEPT ![r] = [pc |-> "admitted"]]
        BY <2>2 DEF Check
      <4>2. QED
        BY <1>4, <4>1
    <3>2. QED
      BY <2>1, <3>1
  <2>3. CASE Execute(r)
    <3>1. PICK b \in BOOLEAN :
            task' = [task EXCEPT ![r] = [pc |-> IF b THEN "count" ELSE "audit", billable |-> b]]
      BY <2>3 DEF Execute
    <3> DEFINE t == [pc |-> IF b THEN "count" ELSE "audit", billable |-> b]
    <3>2. t.pc # "write" /\ task' = [task EXCEPT ![r] = t]
      BY <3>1
    <3> HIDE DEF t
    <3>3. \A s \in Served : task'[s] = t
      BY <1>4, <3>2
    <3>4. QED
      BY <2>1, <3>2, <3>3
  <2>4. CASE Audit(r)
    <3>1. \A s \in Served : task'[s] = Idle
      <4>1. task' = [task EXCEPT ![r] = Idle]
        BY <2>4 DEF Audit
      <4>2. QED
        BY <1>4, <4>1
    <3>2. QED
      BY <2>1, <3>1 DEF Idle
  <2>5. QED
    BY <1>5, <2>2, <2>3, <2>4
<1>6. ASSUME NEW r \in Served, Increase(r) \/ OpenMonth(r)
      PROVE  unrecorded' = {} /\ \A s \in Served : task'[s].pc # "write"
  <2> DEFINE t == [pc |-> "audit", billable |-> task[r].billable]
  <2>1. unrecorded' = {} /\ task' = [task EXCEPT ![r] = t]
    BY <1>3, <1>6 DEF Increase, OpenMonth, Charged
  <2>2. t.pc # "write"
    OBVIOUS
  <2> HIDE DEF t
  <2>3. \A s \in Served : task'[s] = t
    BY <1>4, <2>1
  <2>4. QED
    BY <2>1, <2>2, <2>3
<1>7. ASSUME NEW r \in Served, ReadUsage(r)
      PROVE  /\ unrecorded' = {}
             /\ \A s \in Served : task'[s].copy = Absent => task'[s].period \notin DOMAIN used'
  <2> DEFINE t == [pc |-> "write", billable |-> task[r].billable,
                   period |-> month, copy |-> RowOf(month)]
  <2>1. task' = [task EXCEPT ![r] = t] /\ UNCHANGED <<used, unrecorded>>
    BY <1>7 DEF ReadUsage
  <2>2. t.copy = Absent => t.period \notin DOMAIN used
    BY <1>1 DEF RowOf, TypeOK
  <2> HIDE DEF t
  <2>3. QED
    BY <1>3, <1>4, <2>1, <2>2
<1>8. ASSUME NEW r \in Served, Collide(r) PROVE FALSE
  BY <1>3, <1>8 DEF Collide
<1>9. ASSUME NEW r \in Served, LockTimeout(r) PROVE FALSE
  BY <1>2, <1>3, <1>9 DEF LockTimeout
<1>10. ~Crash
  BY <1>2, <1>3 DEF Crash
<1>11. CASE NextMonth \/ Quiet \/ UNCHANGED vars
  BY <1>3, <1>11 DEF NextMonth, Quiet, vars
<1>12. QED
  BY <1>5, <1>6, <1>7, <1>8, <1>9, <1>10, <1>11 DEF Next

\* One request at a time, and nothing fails: every task that ran has an audit entry,
\* because the INSERT of a month's first row never collides (finalize_ai_task_result).
THEOREM EveryRunLeavesARecord == Spec => []EveryRunRecorded
<1>1. Init => RecordInv
  BY InitType DEF Init, RecordInv, Idle, Served
<1>2. RecordInv => EveryRunRecorded
  BY DEF RecordInv, EveryRunRecorded
<1>3. QED
  BY <1>1, <1>2, RecordNext, PTL DEF Spec

===============================================================================
