------------------------------- MODULE AiQuota -------------------------------
(***************************************************************************)
(* The monthly quota of AI tasks of one user: entitlement_service checks   *)
(* the limit before a task and counts it after, ai_usage_audit_service     *)
(* decides what is billable and writes the audit trail.                    *)
(*                                                                         *)
(* The check, the task, the read of the counter, its write and the audit   *)
(* are separated by awaits.  The counter is written as a literal (the copy *)
(* read, plus one), one row for each calendar month (unique constraint     *)
(* uq_quota_usage_period), and the month may turn at any point.            *)
(***************************************************************************)
EXTENDS Integers

CONSTANTS Requests,   \* requests of the user that may be served at the same time
          Limit,      \* limit_value of ai.tasks.monthly in the user's plan
          LastMonth,  \* bound on the calendar: months 1 .. LastMonth
          MaxServed,  \* bound on the tasks of a behaviour
          MaxFaults,  \* bound on crashes and lock time-outs
          Absent      \* no QuotaUsage row for the month

ASSUME QuotaAssumption ==
  /\ Limit \in Nat /\ LastMonth \in Nat \ {0}
  /\ MaxServed \in Nat /\ MaxFaults \in Nat
  /\ Absent \notin Nat

VARIABLES month,   \* _period_key now
          used,    \* used_value of the QuotaUsage rows, by month
          task,    \* the requests
          earned,  \* history: billable results counted in each month
          unrecorded,  \* history: requests whose task ran and left no audit entry
          served, faults

vars == <<month, used, task, earned, unrecorded, served, faults>>

Months == 1 .. LastMonth

Task == [pc : {"idle", "admitted"}]
   \cup [pc : {"count", "audit"}, billable : BOOLEAN]
   \cup [pc : {"write"}, billable : BOOLEAN, period : Months, copy : Nat \cup {Absent}]

\* The requests of this behaviour: with one, the user waits for every answer.
Served == DOMAIN task

TypeOK ==
  /\ month \in Months
  /\ DOMAIN used \subseteq Months /\ used \in [DOMAIN used -> Nat]
  /\ Served \subseteq Requests /\ task \in [Served -> Task]
  /\ earned \in [Months -> Nat] /\ unrecorded \subseteq Requests
  /\ served \in 0 .. MaxServed /\ faults \in 0 .. MaxFaults

Idle == [pc |-> "idle"]

Init ==
  /\ month = 1
  /\ used = <<>>
  /\ \E S \in SUBSET Requests : task = [r \in S |-> Idle]
  /\ earned = [m \in Months |-> 0] /\ unrecorded = {}
  /\ served = 0 /\ faults = 0

Used(m) == IF m \in DOMAIN used THEN used[m] ELSE 0

-----------------------------------------------------------------------------

\* Mutant: a task is admitted when the limit is already used up.
AllowedAtLimit == Used(month) <= Limit

\* check_entitlement with requested = 1
Allowed == Used(month) + 1 <= Limit

\* require_entitlement; a refusal (402) changes nothing.
Check(r) ==
  /\ task[r].pc = "idle" /\ served < MaxServed
  /\ Allowed
  /\ task' = [task EXCEPT ![r] = [pc |-> "admitted"]]
  /\ served' = served + 1
  /\ UNCHANGED <<month, used, earned, unrecorded, faults>>

\* Mutant: whatever the executor returns is counted.
ExecuteCountingAll(r) ==
  /\ task[r].pc = "admitted"
  /\ \E billable \in BOOLEAN :
       task' = [task EXCEPT ![r] = [pc |-> "count", billable |-> billable]]
  /\ UNCHANGED <<month, used, earned, unrecorded, served, faults>>

\* The executor returns, or raises: only a successful result with content is billable.
Execute(r) ==
  /\ task[r].pc = "admitted"
  /\ \E billable \in BOOLEAN :
       task' = [task EXCEPT ![r] = [pc |-> IF billable THEN "count" ELSE "audit",
                                    billable |-> billable]]
  /\ UNCHANGED <<month, used, earned, unrecorded, served, faults>>

\* Mutant: the row is looked up under a key it was not stored with.
RowMissed(m) == Absent

RowOf(m) == IF m \in DOMAIN used THEN used[m] ELSE Absent

\* consume_quota reads the row of the month it is now.
ReadUsage(r) ==
  /\ task[r].pc = "count"
  /\ task' = [task EXCEPT ![r] = [pc |-> "write", billable |-> @.billable,
                                  period |-> month, copy |-> RowOf(month)]]
  /\ UNCHANGED <<month, used, earned, unrecorded, served, faults>>

Counted(t) == [earned EXCEPT ![t.period] = IF t.billable THEN @ + 1 ELSE @]

Charged(r) == task' = [task EXCEPT ![r] = [pc |-> "audit", billable |-> @.billable]]

WithRow(m, n) == [k \in DOMAIN used \cup {m} |-> IF k = m THEN n ELSE used[k]]

\* UPDATE quota_usage SET used_value = <the copy + 1>
Increase(r) ==
  /\ task[r].pc = "write" /\ task[r].copy # Absent
  /\ used' = WithRow(task[r].period, task[r].copy + 1)
  /\ earned' = Counted(task[r])
  /\ Charged(r)
  /\ UNCHANGED <<month, unrecorded, served, faults>>

OpenMonth(r) ==
  /\ task[r].pc = "write" /\ task[r].copy = Absent
  /\ task[r].period \notin DOMAIN used
  /\ used' = WithRow(task[r].period, 1)
  /\ earned' = Counted(task[r])
  /\ Charged(r)
  /\ UNCHANGED <<month, unrecorded, served, faults>>

\* Another request inserted the row meanwhile: the INSERT violates the unique
\* constraint, and the exception leaves finalize_ai_task_result before the audit.
Collide(r) ==
  /\ task[r].pc = "write" /\ task[r].copy = Absent
  /\ task[r].period \in DOMAIN used
  /\ task' = [task EXCEPT ![r] = Idle]
  /\ unrecorded' = unrecorded \cup {r}
  /\ UNCHANGED <<month, used, earned, served, faults>>

\* record_audit_event
Audit(r) ==
  /\ task[r].pc = "audit"
  /\ task' = [task EXCEPT ![r] = Idle]
  /\ UNCHANGED <<month, used, earned, unrecorded, served, faults>>

-----------------------------------------------------------------------------

Ran(r) == task[r].pc \in {"count", "write", "audit"}

\* Five seconds without the write lock.
LockTimeout(r) ==
  /\ task[r].pc \in {"write", "audit"} /\ faults < MaxFaults
  /\ task' = [task EXCEPT ![r] = Idle]
  /\ unrecorded' = unrecorded \cup {r} /\ faults' = faults + 1
  /\ UNCHANGED <<month, used, earned, served>>

Crash ==
  /\ faults < MaxFaults /\ faults' = faults + 1
  /\ task' = [r \in Served |-> Idle]
  /\ unrecorded' = unrecorded \cup {r \in Served : Ran(r)}
  /\ UNCHANGED <<month, used, earned, served>>

NextMonth ==
  /\ month < LastMonth /\ month' = month + 1
  /\ UNCHANGED <<used, task, earned, unrecorded, served, faults>>

\* Nothing is being served and no more is asked.
Quiet == (\A r \in Served : task[r] = Idle) /\ UNCHANGED vars

Next ==
  \/ \E r \in Served :
       \/ Check(r) \/ Execute(r)
       \/ ReadUsage(r) \/ Increase(r) \/ OpenMonth(r) \/ Collide(r)
       \/ Audit(r) \/ LockTimeout(r)
  \/ Crash \/ NextMonth \/ Quiet

Spec == Init /\ [][Next]_vars

-----------------------------------------------------------------------------

OneAtATime == \A r, s \in Served : r = s

\* One request at a time: the counter of a month is the number of billable results of
\* that month, whatever crashes, times out or turns the month in between.
UsedIsEarned == OneAtATime => \A m \in Months : Used(m) = earned[m]

\* One request at a time: no month counts more than the limit, although a task admitted
\* in one month is counted in the next.
WithinLimit == OneAtATime => \A m \in Months : earned[m] <= Limit

\* Requests overlap: the counter loses updates, but never charges the user for more
\* than the billable results he got.
NeverOvercharged == \A m \in Months : Used(m) <= earned[m]

\* Two requests at a time: however the stale copies fall, the counter shows at most one
\* task more than the limit.
OverrunByOne == \A m \in Months : Used(m) <= Limit + 1

\* "Run an AI task and record whether it consumed quota": with one request at a time, and
\* while nothing fails, every task that ran has an audit entry (see Collide).
EveryRunRecorded == OneAtATime /\ faults = 0 => unrecorded = {}
==============================================================================
