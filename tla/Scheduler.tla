----------------------------- MODULE Scheduler -----------------------------
(***************************************************************************)
(* The cron tasks of every pod and the jobs they put into the queues:      *)
(* the check-out of the day that has just ended where a tenant is, the     *)
(* daily reconciliation, and the monthly accrual of leave.  Pods do not    *)
(* coordinate, a task that a pod misses is not made up for, and the jobs   *)
(* have no id that would make a second one a duplicate.  A task is one     *)
(* step; BullMQ is a bag of jobs, and their processors do not exist yet.   *)
(***************************************************************************)
EXTENDS Calendar, FiniteSets

CONSTANTS
  Nodes,     \* the processes that run the cron tasks
  Tenants,   \* the tenants
  Zones,     \* the time zones a tenant may be in
  Home,      \* Home[t]: the zone t starts in
  FirstOfMonth,  \* the day a new month starts on (bound: one such day)
  LastDay,   \* bound: the last day of a run
  MaxMishaps \* bound: pods that stop, enqueues that fail, tenants that change

Days == -1 .. LastDay + 1
Hours == 0 .. (LastDay + 1) * 24 - 1
Months == 1 .. 2

ASSUME SchedulerAssumption ==
  /\ Zones \subseteq ZoneSet
  /\ Home \in [Tenants -> Zones]
  /\ LastDay \in Nat /\ FirstOfMonth \in 1 .. LastDay
  /\ MaxMishaps \in Nat

VARIABLES
  hour,      \* the time, in hours since the start of day 0
  due,       \* due[p]: the tasks pod p has yet to run in this hour, or would run
             \*         if it started now
  up,        \* the pods that run
  active,    \* the tenants with status active
  zone,      \* zone[t]: default_timezone
  midnight,  \* what Intl makes of midnight, 0 or 24: the builds of ICU differ
  checkout,  \* checkout[p][t][d]: the auto-checkout jobs of day d that p added
  reconcile, \* reconcile[p][t][d]: the reconciliation jobs
  accrual,   \* accrual[p][t][m]: the accrual jobs of month m
  mishaps,   \* for the bound
  served,    \* history: <<t, h>>: a pod ran its tasks for t in hour h to the end,
             \* and it was the hour after midnight there
  moved,     \* history: tenants whose zone changed
  early      \* history: <<t, d>>: reconciled before d was checked out

jobs == <<checkout, reconcile, accrual>>
cronHistory == <<served, moved, early>>
cronVars == <<hour, due, up, active, zone, midnight, jobs, mishaps, cronHistory>>

\* A plausible slip: '0 */2 * * *' for '0 2 * * *'.
TasksOfEveryOther(h) ==
  {"checkout"} \cup (IF h % 2 = 0 THEN {"reconcile"} ELSE {})
    \cup (IF h % 24 = 3 /\ h \div 24 = FirstOfMonth THEN {"accrual"} ELSE {})

\* The tasks of hour h: '0 2 * * *', '0 3 1 * *' and '5 * * * *'.
\* The clocks of the pods are assumed to be in UTC.  The tasks of one hour may run
\* in any order, though the first two are due on the hour and the third at :05.
TasksOf(h) ==
  {"checkout"} \cup (IF h % 24 = 2 THEN {"reconcile"} ELSE {})
    \cup (IF h % 24 = 3 /\ h \div 24 = FirstOfMonth THEN {"accrual"} ELSE {})

\* Of some tasks, those that are due at five past, and not on the hour.
AtFivePast(tasks) == tasks \cap {"checkout"}

\* Five past the hour.
Now == hour * 60 + 5

FirstDay == [m \in Months |-> IF m = 1 THEN -1 ELSE FirstOfMonth]
FinalDay == [m \in Months |-> IF m = 1 THEN FirstOfMonth - 1 ELSE LastDay + 1]
MonthOf(d) == IF d < FirstOfMonth THEN 1 ELSE 2

CronInit ==
  /\ hour = 0
  /\ due = [p \in Nodes |-> TasksOf(0)]
  /\ up = Nodes
  /\ active = Tenants
  /\ zone = Home
  /\ midnight \in {0, 24}
  /\ checkout = [p \in Nodes |-> [t \in Tenants |-> [d \in Days |-> 0]]]
  /\ reconcile = [p \in Nodes |-> [t \in Tenants |-> [d \in Days |-> 0]]]
  /\ accrual = [p \in Nodes |-> [t \in Tenants |-> [m \in Months |-> 0]]]
  /\ mishaps = 0
  /\ served = {} /\ moved = {} /\ early = {}

-----------------------------------------------------------------------------
(* Plausible slips, for the properties to catch.  No action uses them. *)

\* The day that has begun, instead of the one that has ended.
DayToCheckOutBegun(t) == WorkDate(zone[t], Now)

\* A day too early.
DayToReconcileEarlier == hour \div 24 - 2

\* The zones are those of UTC.
MidnightInUtc(t) == hour % 24 = 0

-----------------------------------------------------------------------------
(* The tasks. *)

Ready(p, k) == p \in up /\ k \in due[p]
Runs(p, k) == due' = [due EXCEPT ![p] = @ \ {k}]

\* parseInt of the formatted hour is 0.
IsMidnight(t) == midnight = 0 /\ HourIn(zone[t], Now) = 0

DayToCheckOut(t) == Yesterday(zone[t], Now)

\* One enqueue after the other: an error ends the loop, and those of the tenants
\* in done have been added.
AddCheckouts(p, done) ==
  checkout' = [checkout EXCEPT ![p] = [t \in Tenants |->
    IF t \in done /\ IsMidnight(t) THEN [checkout[p][t] EXCEPT ![DayToCheckOut(t)] = @ + 1]
    ELSE checkout[p][t]]]

Serve(ts) ==
  served' = served \cup {<<t, hour>> : t \in {u \in ts : HourIn(zone[u], Now) = 0}}

AutoCheckout(p) ==
  /\ Ready(p, "checkout")
  /\ AddCheckouts(p, active)
  /\ Serve(active)
  /\ Runs(p, "checkout")
  /\ UNCHANGED <<hour, up, active, zone, midnight, reconcile, accrual, mishaps, moved, early>>

AutoCheckoutFails(p, done) ==
  /\ Ready(p, "checkout")
  /\ mishaps < MaxMishaps
  /\ mishaps' = mishaps + 1
  /\ AddCheckouts(p, done)
  /\ Serve(done)
  /\ Runs(p, "checkout")
  /\ UNCHANGED <<hour, up, active, zone, midnight, reconcile, accrual, moved, early>>

\* The days of t that some pod has added the check-out of.
CheckedOut(t) == {d \in Days : \E p \in Nodes : checkout[p][t][d] > 0}

\* enqueueBulk: one job for every active tenant, all or nothing.
EnqueueBulk(counts, p, k) ==
  [counts EXCEPT ![p] = [t \in Tenants |->
     IF t \in active THEN [counts[p][t] EXCEPT ![k] = @ + 1] ELSE counts[p][t]]]

\* The day before in UTC.
DayToReconcile == hour \div 24 - 1

DailyReconciliation(p) ==
  LET d == DayToReconcile
  IN  /\ Ready(p, "reconcile")
      /\ reconcile' = EnqueueBulk(reconcile, p, d)
      /\ early' = early \cup {<<t, d>> : t \in {u \in active : d \notin CheckedOut(u)}}
      /\ Runs(p, "reconcile")
      /\ UNCHANGED <<hour, up, active, zone, midnight, checkout, accrual, mishaps, served, moved>>

\* The month in UTC.
MonthlyLeaveAccrual(p) ==
  /\ Ready(p, "accrual")
  /\ accrual' = EnqueueBulk(accrual, p, MonthOf(hour \div 24))
  /\ Runs(p, "accrual")
  /\ UNCHANGED <<hour, up, active, zone, midnight, checkout, reconcile, mishaps, cronHistory>>

\* The bulk enqueue fails: the error is logged.
BulkFails(p, k) ==
  /\ k \in {"reconcile", "accrual"}
  /\ Ready(p, k)
  /\ mishaps < MaxMishaps
  /\ mishaps' = mishaps + 1
  /\ Runs(p, k)
  /\ UNCHANGED <<hour, up, active, zone, midnight, jobs, cronHistory>>

-----------------------------------------------------------------------------
(* What happens meanwhile. *)

Mishap ==
  /\ mishaps < MaxMishaps
  /\ mishaps' = mishaps + 1

\* A pod stops, and what it had to do on the hour is not done.
Stop(p) ==
  /\ Mishap
  /\ p \in up
  /\ up' = up \ {p}
  /\ due' = [due EXCEPT ![p] = AtFivePast(@)]
  /\ UNCHANGED <<hour, active, zone, midnight, jobs, cronHistory>>

\* The tasks are registered anew: one that starts before five past has the task
\* of then, unless it has run it, and one that starts later has to wait.
Start(p) ==
  /\ p \notin up
  /\ up' = up \cup {p}
  /\ \E tasks \in {due[p], {}} : due' = [due EXCEPT ![p] = tasks]
  /\ UNCHANGED <<hour, active, zone, midnight, jobs, mishaps, cronHistory>>

\* updateTenantStatus
Suspend(t) ==
  /\ Mishap
  /\ t \in active
  /\ active' = active \ {t}
  /\ UNCHANGED <<hour, due, up, zone, midnight, jobs, cronHistory>>

Activate(t) ==
  /\ t \notin active
  /\ active' = active \cup {t}
  /\ UNCHANGED <<hour, due, up, zone, midnight, jobs, mishaps, cronHistory>>

\* updateTenant with a new time zone.
Relocate(t, z) ==
  /\ Mishap
  /\ z # zone[t]
  /\ zone' = [zone EXCEPT ![t] = z]
  /\ moved' = moved \cup {t}
  /\ UNCHANGED <<hour, due, up, active, midnight, jobs, served, early>>

\* The next hour, once the pods that run have done what was due in this one.
NextHour ==
  /\ hour + 1 \in Hours
  /\ \A p \in up : due[p] = {}
  /\ hour' = hour + 1
  /\ due' = [p \in Nodes |-> IF p \in up THEN TasksOf(hour + 1) ELSE AtFivePast(TasksOf(hour + 1))]
  /\ UNCHANGED <<up, active, zone, midnight, jobs, mishaps, cronHistory>>

CronNext ==
  \/ \E p \in Nodes :
       \/ AutoCheckout(p)
       \/ \E done \in SUBSET active : AutoCheckoutFails(p, done)
       \/ DailyReconciliation(p)
       \/ MonthlyLeaveAccrual(p)
       \/ \E k \in {"reconcile", "accrual"} : BulkFails(p, k)
       \/ Stop(p)
       \/ Start(p)
  \/ \E t \in Tenants : Suspend(t) \/ Activate(t) \/ \E z \in Zones : Relocate(t, z)
  \/ NextHour

CronSpec == CronInit /\ [][CronNext]_cronVars

-----------------------------------------------------------------------------
Counts(n) == [Nodes -> [Tenants -> [n -> Nat]]]

CronTypeOK ==
  /\ hour \in Hours
  /\ due \in [Nodes -> SUBSET {"checkout", "reconcile", "accrual"}]
  /\ up \subseteq Nodes /\ active \subseteq Tenants
  /\ zone \in [Tenants -> Zones]
  /\ midnight \in {0, 24}
  /\ checkout \in Counts(Days) /\ reconcile \in Counts(Days) /\ accrual \in Counts(Months)
  /\ mishaps \in 0 .. MaxMishaps
  /\ served \subseteq Tenants \X Hours /\ moved \subseteq Tenants
  /\ early \subseteq Tenants \X Days

\* The hours in which a clock in zone z shows midnight, at the end of day d.
Midnights ==
  [z \in Zones |-> [d \in Days |->
     {h \in Hours : HourIn(z, h * 60 + 5) = 0 /\ WorkDate(z, h * 60 + 5) = d + 1}]]

\* A day of a tenant that stays is checked out when it is over, and only then: in
\* an hour after midnight there that a pod ran the task in for the tenant, where
\* midnight is written 0.  There is no second chance.
CheckedOutWhenOver ==
  \A t \in Tenants \ moved, d \in Days :
    d \in CheckedOut(t) <=> midnight = 0 /\ \E h \in Midnights[zone[t]][d] : <<t, h>> \in served

\* A day is reconciled before its check-out only where it has not ended by two
\* in the morning in UTC, or where its check-out was missed.
ReconciledAfterCheckout ==
  \A t \in Tenants \ moved, d \in Days : <<t, d>> \in early =>
    \/ midnight = 24
    \/ \A h \in Midnights[zone[t]][d] : h >= (d + 1) * 24 + 2 \/ <<t, h>> \notin served

\* However often it stops and starts, a pod adds the reconciliation of a day and
\* the accrual of a month once, and the check-out of a day once for every midnight
\* at its end: of two equal jobs the second one comes from another pod.
EnqueuedOncePerPod ==
  \A p \in Nodes, t \in Tenants :
    /\ \A d \in Days : reconcile[p][t][d] <= 1
    /\ \A m \in Months : accrual[p][t][m] <= 1
    /\ t \notin moved =>
         \A d \in Days : checkout[p][t][d] <= Cardinality(Midnights[zone[t]][d])

\* The clock shows the last minute of the old month once, and the first one of
\* the new month once.
MonthTurnsOnce(z) ==
  LET midnight1 == FirstOfMonth * DayMinutes
  IN  \A l \in {midnight1 - 1, midnight1} : Cardinality(Showing(z, l)) = 1

\* An instant lies in the payroll period of the month that its work date belongs
\* to and in no other one, unless the clock is changed while the month turns.
WorkDateInItsPeriod ==
  \A z \in Zones : MonthTurnsOnce(z) =>
    \A m \in Months : InPeriod(z, FirstDay[m], FinalDay[m], Now) <=> MonthOf(WorkDate(z, Now)) = m
=============================================================================
