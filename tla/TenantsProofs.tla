--------------------------- MODULE TenantsProofs ---------------------------
(***************************************************************************)
(* Proofs about Tenants, for any number of requests, pods and flags, any   *)
(* TTL and any number of steps of the clock.  The invariant says what the  *)
(* copy that a request carries is worth: unless it is out of date, it is   *)
(* the row as it stands.  The second part is about Scheduler, for any      *)
(* pods, tenants, days and time zones less than a day from UTC: its        *)
(* invariant counts the turns that a pod has had.                          *)
(***************************************************************************)
EXTENDS Tenants, Scheduler, FiniteSetTheorems, TLAPS

USE TenantsAssumption

\* The copy of a request agrees with the row, unless it is out of date.
Copied(t) ==
  /\ t.pc = "status" =>
       /\ t.to \in Transitions[t.seen] /\ t.seen # "pending"
       /\ t.outdated \/ t.seen = status
  /\ t.pc = "announce" => t.to \in {"suspended", "active"} /\ (t.outdated \/ t.to = status)
  /\ t.pc = "merge" => t.outdated \/ t.copy = settings
  /\ t.pc = "store" =>
       /\ t.pod \in Pods /\ t.at <= clock
       /\ t.seen = "active" /\ status # "active" => t.at <= leftAt

\* A cached row was read at most TTL before it expires.
Cached(p) ==
  /\ cache[p].expires <= clock + TTL
  /\ cache[p].status = "active" /\ status # "active" /\ p \notin late =>
       cache[p].expires <= leftAt + TTL

\* A flag is what was last asked for, unless a request that did not name it changed it.
Asked(f) == f \in lost \/ settings[f] = wanted[f]

Inv ==
  /\ TypeOK
  /\ status # "pending"
  /\ \A c \in Callers : Copied(task[c])
  /\ \A p \in Pods : Cached(p)
  /\ \A f \in Flags : Asked(f)
  /\ TerminatedUnlessRaced
  /\ EventsTellStatus

LEMMA IdleTask == Idle \in Task /\ Idle.pc = "idle" /\ Unset \in [Flags -> Values]
<1>1. None \in Changes /\ Unset \in [Flags -> Values]
  BY DEF Changes, Unset, Values
<1> QED BY <1>1 DEF Idle, Task, Steps, Statuses

\* What a request asks of the flags, and what is made of it.
LEMMA MergeFacts ==
  ASSUME NEW copy \in [Flags -> Values], NEW change \in Changes
  PROVE  /\ DeepMerge(copy, change) \in [Flags -> Values]
         /\ Given(change) \in [Flags -> Values]
         /\ \A f \in Named(change) \cap Flags : DeepMerge(copy, change)[f] = Given(change)[f]
         /\ change # None =>
              \A f \in Flags \ Named(change) : DeepMerge(copy, change)[f] = copy[f]
<1>1. CASE change \in {None, Null}
  <2>1. DeepMerge(copy, change) = Unset
    BY <1>1 DEF DeepMerge
  <2>2. \A f \in Flags : Given(change)[f] = "unset"
    BY <1>1 DEF Given, Named
  <2>3. Given(change) \in [Flags -> Values]
    BY <2>2 DEF Given, Values
  <2>4. change # None => Named(change) = Flags
    BY <1>1 DEF Named
  <2> QED BY <2>1, <2>2, <2>3, <2>4, IdleTask DEF Unset
<1>2. CASE change \notin {None, Null}
  <2>1. PICK S \in SUBSET Flags : change \in [S -> Values]
    BY <1>2 DEF Changes, Sections
  <2>2. Named(change) = S
    BY <1>2, <2>1 DEF Named
  <2>3. DeepMerge(copy, change) = [f \in Flags |-> IF f \in S THEN change[f] ELSE copy[f]]
    BY <1>2, <2>1 DEF DeepMerge
  <2>4. Given(change) = [f \in Flags |-> IF f \in S THEN change[f] ELSE "unset"]
    BY <1>2, <2>2 DEF Given
  <2> QED BY <2>1, <2>2, <2>3, <2>4 DEF Values
<1> QED BY <1>1, <1>2

LEMMA InitInv == Init => Inv
<1> SUFFICES ASSUME Init PROVE Inv
  OBVIOUS
<1>1. TypeOK
  <2>1. /\ status \in Statuses /\ plan \in Plans /\ settings \in [Flags -> Values]
        /\ clock \in Nat /\ task \in [Callers -> Task] /\ admitted \in Nat
        /\ told \in {"suspended", "active", None} /\ wanted \in [Flags -> Values]
        /\ leftAt \in 0 .. clock /\ lost \subseteq Flags /\ late \subseteq Pods
    BY IdleTask DEF Init, Statuses
  <2>2. cache \in [Pods -> [status : Statuses, expires : Nat]]
    BY DEF Init, Statuses
  <2>3. ended \in BOOLEAN /\ raced \in BOOLEAN /\ crossed \in BOOLEAN
    BY Zenon DEF Init
  <2> QED BY <2>1, <2>2, <2>3 DEF TypeOK
<1>2. \A c \in Callers : Copied(task[c])
  BY IdleTask DEF Init, Copied
<1>3. \A p \in Pods : Cached(p)
  BY DEF Init, Cached
<1>4. (\A f \in Flags : Asked(f)) /\ EventsTellStatus /\ status # "pending"
  BY DEF Init, Asked, EventsTellStatus, Statuses
<1>5. TerminatedUnlessRaced
  BY Zenon DEF Init, TerminatedUnlessRaced
<1> QED BY <1>1, <1>2, <1>3, <1>4, <1>5 DEF Inv

\* What a transition leads to.
LEMMA TransitionsFacts ==
  ASSUME NEW s \in Statuses, NEW t \in Transitions[s]
  PROVE  /\ t \in Statuses \ {"pending"} /\ s # "terminated"
         /\ s = "active" => t # "active"
BY DEF Statuses, Transitions

\* A request that sets out: the row, the caches and the history stay as they are.
LEMMA BeginInv ==
  ASSUME Inv, NEW c \in Callers, NEW t \in Task, task' = [task EXCEPT ![c] = t],
         task[c] = Idle, t.pc # "announce", Copied(t),
         admitted' \in Nat, UNCHANGED <<row, cache, clock, history>>
  PROVE  Inv'
<1>1. /\ status' = status /\ settings' = settings /\ plan' = plan /\ clock' = clock
      /\ cache' = cache /\ leftAt' = leftAt /\ late' = late /\ told' = told /\ ended' = ended
      /\ raced' = raced /\ crossed' = crossed /\ lost' = lost /\ wanted' = wanted
  BY DEF row, history
<1>2. TypeOK'
  BY <1>1 DEF Inv, TypeOK
<1>3. ASSUME NEW d \in Callers PROVE Copied(task[d])'
  BY <1>1 DEF Inv, TypeOK, Copied
<1>4. EventsTellStatus'
  <2>1. \A d \in Callers : task[d].pc = "announce" => task'[d].pc = "announce"
    BY IdleTask DEF Inv, TypeOK
  <2> QED BY <1>1, <2>1 DEF Inv, EventsTellStatus
<1>5. TerminatedUnlessRaced' /\ (\A p \in Pods : Cached(p)') /\ (\A f \in Flags : Asked(f)')
  BY <1>1 DEF Inv, TerminatedUnlessRaced, Cached, Asked
<1> QED BY <1>1, <1>2, <1>3, <1>4, <1>5 DEF Inv

LEMMA UpdateTenantStatusInv ==
  ASSUME Inv, NEW c \in Callers, NEW s \in Statuses, UpdateTenantStatus(c, s)
  PROVE  Inv'
<1>1. PICK t \in Task : /\ t = [Idle EXCEPT !.pc = "status", !.seen = status, !.to = s]
                        /\ t.pc = "status" /\ t.seen = status /\ t.to = s
  <2> DEFINE e == [Idle EXCEPT !.pc = "status", !.seen = status, !.to = s]
  <2>1. e \in Task /\ e.pc = "status" /\ e.seen = status /\ e.to = s
    BY IdleTask DEF Idle, Task, Steps, Inv, TypeOK
  <2> QED BY <2>1
<1>2. Copied(t)
  BY <1>1 DEF Copied, UpdateTenantStatus, Inv
<1>3. /\ task' = [task EXCEPT ![c] = t] /\ task[c] = Idle /\ admitted' \in Nat
      /\ UNCHANGED <<row, cache, clock, history>>
  BY <1>1 DEF UpdateTenantStatus, Begin, Inv, TypeOK
<1> QED BY <1>1, <1>2, <1>3, BeginInv

LEMMA UpdateSettingsInv ==
  ASSUME Inv, NEW c \in Callers, NEW change \in Changes, UpdateSettings(c, change)
  PROVE  Inv'
<1>1. PICK t \in Task : /\ t = [Idle EXCEPT !.pc = "merge", !.copy = settings, !.change = change]
                        /\ t.pc = "merge" /\ t.copy = settings
  <2> DEFINE e == [Idle EXCEPT !.pc = "merge", !.copy = settings, !.change = change]
  <2>1. e \in Task /\ e.pc = "merge" /\ e.copy = settings
    BY IdleTask DEF Idle, Task, Steps, Inv, TypeOK
  <2> QED BY <2>1
<1>2. Copied(t)
  BY <1>1 DEF Copied
<1>3. /\ task' = [task EXCEPT ![c] = t] /\ task[c] = Idle /\ admitted' \in Nat
      /\ UNCHANGED <<row, cache, clock, history>>
  BY <1>1 DEF UpdateSettings, Begin, Inv, TypeOK
<1> QED BY <1>1, <1>2, <1>3, BeginInv

LEMMA LookupInv ==
  ASSUME Inv, NEW c \in Callers, NEW p \in Pods, Lookup(c, p)
  PROVE  Inv'
<1>1. PICK t \in Task : /\ t = [Idle EXCEPT !.pc = "store", !.seen = status, !.pod = p, !.at = clock]
                        /\ t.pc = "store" /\ t.seen = status /\ t.pod = p /\ t.at = clock
  <2> DEFINE e == [Idle EXCEPT !.pc = "store", !.seen = status, !.pod = p, !.at = clock]
  <2>1. e \in Task /\ e.pc = "store" /\ e.seen = status /\ e.pod = p /\ e.at = clock
    BY IdleTask DEF Idle, Task, Steps, Inv, TypeOK
  <2> QED BY <2>1
<1>2. Copied(t)
  BY <1>1 DEF Copied, Inv, TypeOK
<1>3. /\ task' = [task EXCEPT ![c] = t] /\ task[c] = Idle /\ admitted' \in Nat
      /\ UNCHANGED <<row, cache, clock, history>>
  BY <1>1 DEF Lookup, Inv, TypeOK
<1> QED BY <1>1, <1>2, <1>3, BeginInv

LEMMA UpdateTenantInv ==
  ASSUME Inv, NEW c \in Callers, NEW p \in Plans, UpdateTenant(c, p)
  PROVE  Inv'
<1>1. /\ plan' = p /\ admitted' = admitted + 1
      /\ UNCHANGED <<status, settings, cache, clock, task, history>>
  BY DEF UpdateTenant
<1>2. TypeOK'
  BY <1>1 DEF Inv, TypeOK, history
<1> QED BY <1>1, <1>2 DEF Inv, history, Copied, Cached, Asked, TerminatedUnlessRaced, EventsTellStatus

-----------------------------------------------------------------------------
(* The writes. *)

\* The request that writes takes on then; a copy is out of date, or as it was.
LEMMA OutdateFacts ==
  ASSUME TypeOK, NEW c \in Callers, NEW pcs, NEW then \in Task, task' = Outdate(c, pcs, then)
  PROVE  /\ task' \in [Callers -> Task]
         /\ task'[c] = then
         /\ \A d \in Callers \ {c} :
              \/ task[d].pc \notin pcs /\ task'[d] = task[d]
              \/ task[d].pc \in pcs /\ task'[d] = [task[d] EXCEPT !.outdated = TRUE]
BY DEF Outdate, TypeOK, Task

LEMMA OutdatedTask ==
  ASSUME NEW t \in Task
  PROVE  LET o == [t EXCEPT !.outdated = TRUE]
         IN  /\ o.pc = t.pc /\ o.seen = t.seen /\ o.to = t.to /\ o.copy = t.copy
             /\ o.pod = t.pod /\ o.at = t.at /\ o.outdated = TRUE
BY DEF Task

LEMMA WriteStatusInv ==
  ASSUME Inv, NEW c \in Callers, NEW t \in Task, t = task[c], WriteStatus(c)
  PROVE  Inv'
<1> DEFINE then == IF Publishes(t.seen, t.to)
                   THEN [t EXCEPT !.pc = "announce", !.outdated = FALSE] ELSE Idle
<1>1. /\ t.pc = "status" /\ status' = t.to
      /\ task' = Outdate(c, {"status", "announce"}, then)
      /\ leftAt' = IF status = "active" /\ t.to # "active" THEN clock ELSE leftAt
      /\ UNCHANGED <<plan, settings, cache, clock, admitted, told, wanted, crossed, lost, late>>
  BY DEF WriteStatus
<1>2. (ended' <=> (ended \/ t.to = "terminated")) /\ ended' \in BOOLEAN
  BY Zenon DEF WriteStatus
<1>3. (raced' <=> (raced \/ t.outdated)) /\ raced' \in BOOLEAN
  BY Zenon DEF WriteStatus
<1>4. /\ t.to \in Transitions[t.seen] /\ t.seen \in Statuses /\ t.seen # "pending"
      /\ t.outdated \/ t.seen = status
  BY <1>1 DEF Inv, Copied, Task
<1>5. t.to \in Statuses \ {"pending"} /\ t.seen # "terminated" /\ (t.seen = "active" => t.to # "active")
  BY <1>4, TransitionsFacts
<1>6. /\ then \in Task
      /\ then.pc = "announce" => Publishes(t.seen, t.to) /\ then.to = t.to
      /\ then.pc \in {"announce", "idle"}
      /\ then.pc = "idle" => ~ Publishes(t.seen, t.to)
  <2>1. CASE Publishes(t.seen, t.to)
    BY <2>1 DEF Task, Steps
  <2>2. CASE ~ Publishes(t.seen, t.to)
    BY <2>2, IdleTask
  <2> QED BY <2>1, <2>2
<1> HIDE DEF then
<1>7. /\ task' \in [Callers -> Task] /\ task'[c] = then
      /\ \A d \in Callers \ {c} :
           \/ task[d].pc \notin {"status", "announce"} /\ task'[d] = task[d]
           \/ task[d].pc \in {"status", "announce"} /\ task'[d] = [task[d] EXCEPT !.outdated = TRUE]
  BY <1>1, <1>6, OutdateFacts DEF Inv
<1>8. TypeOK'
  BY <1>1, <1>2, <1>3, <1>5, <1>7 DEF Inv, TypeOK
<1>9. Copied(then)'
  BY <1>1, <1>5, <1>6 DEF Copied, Publishes
<1>10. ASSUME NEW d \in Callers, d # c PROVE Copied(task[d])'
  <2>1. PICK u \in Task : u = task[d]
    BY DEF Inv, TypeOK
  <2>2. PICK v \in Task : v = task'[d]
    BY <1>7
  <2>3. CASE u.pc \in {"status", "announce"}
    <3>1. /\ v.pc = u.pc /\ v.seen = u.seen /\ v.to = u.to /\ v.outdated
      BY <1>7, <1>10, <2>1, <2>2, <2>3, OutdatedTask
    <3> QED BY <2>1, <2>2, <2>3, <3>1 DEF Inv, Copied
  <2>4. CASE u.pc \notin {"status", "announce"}
    <3>1. v = u
      BY <1>7, <1>10, <2>1, <2>2, <2>4
    <3>2. u.pc = "store" /\ u.seen = "active" /\ status' # "active" => u.at <= leftAt'
      BY <1>1, <2>1 DEF Inv, TypeOK, Copied, Task
    <3> QED BY <1>1, <2>1, <2>2, <2>4, <3>1, <3>2 DEF Inv, Copied
  <2> QED BY <2>3, <2>4
<1>11. ASSUME NEW p \in Pods PROVE Cached(p)'
  <2>1. cache[p].expires \in Nat /\ clock \in Nat /\ leftAt \in Nat
    BY DEF Inv, TypeOK
  <2> QED BY <1>1, <2>1 DEF Inv, Cached
<1>12. \A f \in Flags : Asked(f)'
  BY <1>1 DEF Inv, Asked
<1>13. TerminatedUnlessRaced'
  BY <1>1, <1>2, <1>3, <1>4, <1>5 DEF Inv, TerminatedUnlessRaced
<1>14. EventsTellStatus'
  <2>1. CASE \E d \in Callers : task'[d].pc = "announce"
    BY <2>1 DEF EventsTellStatus
  <2>2. CASE raced'
    BY <2>2 DEF EventsTellStatus
  <2>3. CASE ~ raced' /\ ~ \E d \in Callers : task'[d].pc = "announce"
    <3>1. then.pc = "idle" /\ ~ Publishes(t.seen, t.to) /\ t.seen = status
      BY <1>3, <1>4, <1>6, <1>7, <2>3
    <3>2. t.to = "terminated"
      BY <1>4, <1>5, <3>1 DEF Publishes, Statuses
    <3> QED BY <1>1, <3>2 DEF EventsTellStatus
  <2> QED BY <2>1, <2>2, <2>3
<1> QED BY <1>1, <1>5, <1>7, <1>8, <1>9, <1>10, <1>11, <1>12, <1>13, <1>14 DEF Inv

\* Once nothing but the task of a request that ends, or dies, changes.
LEMMA OtherTasks ==
  ASSUME Inv, NEW c \in Callers, task' = [task EXCEPT ![c] = Idle]
  PROVE  /\ task' \in [Callers -> Task] /\ task'[c].pc = "idle"
         /\ \A d \in Callers \ {c} : task'[d] = task[d]
BY IdleTask DEF Inv, TypeOK

LEMMA AnnounceInv ==
  ASSUME Inv, NEW c \in Callers, Announce(c)
  PROVE  Inv'
<1>1. /\ task[c].pc = "announce" /\ told' = task[c].to
      /\ task' = [task EXCEPT ![c] = Idle]
      /\ UNCHANGED <<row, cache, clock, admitted, wanted, leftAt, ended, raced, lost, late>>
  BY DEF Announce
<1>2. (crossed' <=> (crossed \/ task[c].outdated)) /\ crossed' \in BOOLEAN
  BY Zenon DEF Announce
<1>3. /\ task' \in [Callers -> Task] /\ task'[c].pc = "idle"
      /\ \A d \in Callers \ {c} : task'[d] = task[d]
  BY <1>1, OtherTasks
<1>4. task[c].to \in {"suspended", "active"} /\ (task[c].outdated \/ task[c].to = status)
  BY <1>1 DEF Inv, Copied
<1>5. TypeOK'
  BY <1>1, <1>2, <1>3, <1>4 DEF Inv, TypeOK, row
<1>6. ASSUME NEW d \in Callers PROVE Copied(task[d])'
  BY <1>1, <1>3 DEF Inv, Copied, row
<1>7. EventsTellStatus'
  BY <1>1, <1>2, <1>4 DEF EventsTellStatus, row
<1>8. TerminatedUnlessRaced' /\ (\A p \in Pods : Cached(p)') /\ (\A f \in Flags : Asked(f)')
  BY <1>1 DEF Inv, TerminatedUnlessRaced, Cached, Asked, row
<1> QED BY <1>1, <1>5, <1>6, <1>7, <1>8 DEF Inv, row

LEMMA WriteSettingsInv ==
  ASSUME Inv, NEW c \in Callers, NEW t \in Task, t = task[c], WriteSettings(c)
  PROVE  Inv'
<1> DEFINE named == Named(t.change)
           undone == {f \in Flags \ named : DeepMerge(t.copy, t.change)[f] # settings[f]}
<1>0. t.copy \in [Flags -> Values] /\ t.change \in Changes
  BY DEF Task
<1>1. /\ t.pc = "merge" /\ settings' = DeepMerge(t.copy, t.change)
      /\ wanted' = [f \in Flags |-> IF f \in named THEN Given(t.change)[f] ELSE wanted[f]]
      /\ lost' = (lost \ named) \cup (IF t.outdated \/ t.change = None THEN undone ELSE {})
      /\ task' = Outdate(c, {"merge"}, Idle)
      /\ UNCHANGED <<status, plan, cache, clock, admitted, told, leftAt, ended, raced, crossed, late>>
  BY DEF WriteSettings
<1>2. /\ task' \in [Callers -> Task] /\ task'[c] = Idle
      /\ \A d \in Callers \ {c} :
           \/ task[d].pc # "merge" /\ task'[d] = task[d]
           \/ task[d].pc = "merge" /\ task'[d] = [task[d] EXCEPT !.outdated = TRUE]
  BY <1>1, IdleTask, OutdateFacts DEF Inv
<1>3. TypeOK'
  <2>1. settings' \in [Flags -> Values] /\ wanted' \in [Flags -> Values]
    BY <1>0, <1>1, MergeFacts DEF Inv, TypeOK
  <2>2. lost' \subseteq Flags
    BY <1>1 DEF Inv, TypeOK
  <2> QED BY <1>1, <1>2, <2>1, <2>2 DEF Inv, TypeOK
<1>4. ASSUME NEW d \in Callers PROVE Copied(task[d])'
  <2>1. CASE d = c
    BY <1>2, <2>1, IdleTask DEF Copied
  <2>2. CASE d # c /\ task[d].pc # "merge"
    BY <1>1, <1>2, <2>2 DEF Inv, Copied
  <2>3. CASE d # c /\ task[d].pc = "merge"
    <3>1. PICK u \in Task : u = task[d]
      BY DEF Inv, TypeOK
    <3>2. task'[d].pc = "merge" /\ task'[d].outdated
      BY <1>2, <2>3, <3>1, OutdatedTask
    <3> QED BY <3>2 DEF Copied
  <2> QED BY <2>1, <2>2, <2>3
<1>5. ASSUME NEW f \in Flags PROVE Asked(f)'
  <2>1. CASE f \in named
    BY <1>0, <1>1, <2>1, MergeFacts DEF Asked
  <2>2. CASE f \notin named /\ f \notin lost'
    <3>1. settings'[f] = settings[f]
      <4>1. CASE t.outdated \/ t.change = None
        BY <1>1, <2>2, <4>1
      <4>2. CASE ~ t.outdated /\ t.change # None
        BY <1>0, <1>1, <2>2, <4>2, MergeFacts DEF Inv, Copied
      <4> QED BY <4>1, <4>2
    <3>2. f \notin lost
      BY <1>1, <2>2
    <3> QED BY <1>1, <2>2, <3>1, <3>2 DEF Inv, Asked
  <2> QED BY <2>1, <2>2 DEF Asked
<1>6. EventsTellStatus'
  <2>1. \A d \in Callers : task[d].pc = "announce" => task'[d].pc = "announce"
    BY <1>1, <1>2
  <2> QED BY <1>1, <2>1 DEF Inv, EventsTellStatus
<1>7. TerminatedUnlessRaced' /\ (\A p \in Pods : Cached(p)') /\ status' # "pending"
  BY <1>1 DEF Inv, TerminatedUnlessRaced, Cached
<1> QED BY <1>3, <1>4, <1>5, <1>6, <1>7 DEF Inv

LEMMA StoreInv ==
  ASSUME Inv, NEW c \in Callers, NEW t \in Task, t = task[c], Store(c)
  PROVE  Inv'
<1>1. /\ t.pc = "store"
      /\ cache' = [cache EXCEPT ![t.pod] = [status |-> t.seen, expires |-> clock + TTL]]
      /\ late' = IF t.at < clock THEN late \cup {t.pod} ELSE late \ {t.pod}
      /\ task' = [task EXCEPT ![c] = Idle]
      /\ UNCHANGED <<row, clock, admitted, told, wanted, leftAt, ended, raced, crossed, lost>>
  BY DEF Store
<1>2. /\ t.pod \in Pods /\ t.at <= clock /\ t.at \in Nat /\ t.seen \in Statuses
      /\ t.seen = "active" /\ status # "active" => t.at <= leftAt
  BY <1>1 DEF Inv, Copied, Task
<1>3. /\ task' \in [Callers -> Task] /\ task'[c].pc = "idle"
      /\ \A d \in Callers \ {c} : task'[d] = task[d]
  BY <1>1, OtherTasks
<1>4. clock \in Nat /\ leftAt \in Nat /\ clock + TTL \in Nat
  BY DEF Inv, TypeOK
<1>5. TypeOK'
  BY <1>1, <1>2, <1>3, <1>4 DEF Inv, TypeOK, row
<1>6. ASSUME NEW d \in Callers PROVE Copied(task[d])'
  BY <1>1, <1>3 DEF Inv, Copied, row
<1>7. ASSUME NEW p \in Pods PROVE Cached(p)'
  <2>1. CASE p = t.pod
    <3>1. cache'[p].status = t.seen /\ cache'[p].expires = clock + TTL
      BY <1>1, <1>2, <2>1 DEF Inv, TypeOK
    <3> QED BY <1>1, <1>2, <1>4, <2>1, <3>1 DEF Cached, row
  <2>2. CASE p # t.pod
    <3>1. cache'[p] = cache[p] /\ (p \in late' <=> p \in late)
      BY <1>1, <2>2 DEF Inv, TypeOK
    <3> QED BY <1>1, <3>1 DEF Inv, Cached, row
  <2> QED BY <2>1, <2>2
<1>8. EventsTellStatus'
  <2>1. \A d \in Callers : task[d].pc = "announce" => task'[d].pc = "announce"
    BY <1>1, <1>3
  <2> QED BY <1>1, <2>1 DEF Inv, EventsTellStatus, row
<1>9. TerminatedUnlessRaced' /\ (\A f \in Flags : Asked(f)') /\ status' # "pending"
  BY <1>1 DEF Inv, TerminatedUnlessRaced, Asked, row
<1> QED BY <1>5, <1>6, <1>7, <1>8, <1>9 DEF Inv

LEMMA DiesInv ==
  ASSUME Inv, NEW c \in Callers, Dies(c)
  PROVE  Inv'
<1>1. /\ task' = [task EXCEPT ![c] = Idle]
      /\ UNCHANGED <<row, cache, clock, admitted, told, wanted, leftAt, ended, raced, lost, late>>
  BY DEF Dies
<1>2. (crossed' <=> (crossed \/ task[c].pc = "announce")) /\ crossed' \in BOOLEAN
  BY Zenon DEF Dies
<1>3. /\ task' \in [Callers -> Task] /\ task'[c].pc = "idle"
      /\ \A d \in Callers \ {c} : task'[d] = task[d]
  BY <1>1, OtherTasks
<1>4. TypeOK'
  BY <1>1, <1>2, <1>3 DEF Inv, TypeOK, row
<1>5. ASSUME NEW d \in Callers PROVE Copied(task[d])'
  BY <1>1, <1>3 DEF Inv, Copied, row
<1>6. EventsTellStatus'
  <2>1. \A d \in Callers : task[d].pc = "announce" => task'[d].pc = "announce" \/ crossed'
    BY <1>2, <1>3
  <2> QED BY <1>1, <1>2, <2>1 DEF Inv, EventsTellStatus, row
<1>7. TerminatedUnlessRaced' /\ (\A p \in Pods : Cached(p)') /\ (\A f \in Flags : Asked(f)')
  BY <1>1 DEF Inv, TerminatedUnlessRaced, Cached, Asked, row
<1> QED BY <1>1, <1>4, <1>5, <1>6, <1>7 DEF Inv, row

LEMMA TickInv ==
  ASSUME Inv, Tick
  PROVE  Inv'
<1>1. clock' = clock + 1 /\ UNCHANGED <<row, cache, task, admitted, history>>
  BY DEF Tick
<1>2. clock \in Nat /\ leftAt \in Nat /\ leftAt' = leftAt /\ leftAt <= clock
  BY <1>1 DEF Inv, TypeOK, history
<1>3. TypeOK'
  BY <1>1, <1>2 DEF Inv, TypeOK, row, history
<1>4. ASSUME NEW d \in Callers PROVE Copied(task[d])'
  <2>1. task[d].at \in Nat
    BY DEF Inv, TypeOK, Task
  <2> QED BY <1>1, <1>2, <2>1 DEF Inv, Copied, row
<1>5. ASSUME NEW p \in Pods PROVE Cached(p)'
  <2>1. cache[p].expires \in Nat
    BY DEF Inv, TypeOK
  <2> QED BY <1>1, <1>2, <2>1 DEF Inv, Cached, row, history
<1>6. EventsTellStatus' /\ (\A f \in Flags : Asked(f)') /\ status' # "pending"
  BY <1>1 DEF Inv, EventsTellStatus, Asked, row, history
<1>7. TerminatedUnlessRaced'
  BY <1>1 DEF Inv, TerminatedUnlessRaced, row, history
<1> QED BY <1>3, <1>4, <1>5, <1>6, <1>7 DEF Inv

-----------------------------------------------------------------------------
LEMMA NextInv == Inv /\ [Next]_vars => Inv'
<1> SUFFICES ASSUME Inv, [Next]_vars PROVE Inv'
  OBVIOUS
<1>1. ASSUME NEW c \in Callers, Request(c) PROVE Inv'
  BY <1>1, UpdateTenantStatusInv, UpdateSettingsInv, UpdateTenantInv, LookupInv, Zenon DEF Request
<1>2. ASSUME NEW c \in Callers, Write(c) PROVE Inv'
  <2>1. PICK t \in Task : t = task[c]
    BY DEF Inv, TypeOK
  <2> QED BY <1>2, <2>1, WriteStatusInv, AnnounceInv, WriteSettingsInv, StoreInv, Zenon DEF Write
<1>3. CASE UNCHANGED vars
  <2>1. TypeOK'
    BY <1>3 DEF Inv, TypeOK, vars, row, history
  <2> QED BY <1>3, <2>1 DEF Inv, vars, row, history, Copied, Cached, Asked, TerminatedUnlessRaced,
             EventsTellStatus
<1> QED BY <1>1, <1>2, <1>3, DiesInv, TickInv, Zenon DEF Next

LEMMA Invariance == Spec => []Inv
BY InitInv, NextInv, PTL DEF Spec

-----------------------------------------------------------------------------
\* Every variable keeps its type, and the status ceases to be active at a time of
\* the clock.
THEOREM TypeCorrect == Spec => []TypeOK
<1>1. Inv => TypeOK
  BY DEF Inv
<1> QED BY <1>1, Invariance, PTL

\* Through overlapping changes of status a terminated tenant comes back only by a
\* write that was validated on an older status.
THEOREM TerminatedStays == Spec => []TerminatedUnlessRaced
<1>1. Inv => TerminatedUnlessRaced
  BY DEF Inv
<1> QED BY <1>1, Invariance, PTL

\* The last event about a tenant tells whether it is suspended, for any number of
\* changes and of crashes between them that published their event.
THEOREM LastEventTellsStatus == Spec => []EventsTellStatus
<1>1. Inv => EventsTellStatus
  BY DEF Inv
<1> QED BY <1>1, Invariance, PTL

\* deepMerge and the features of the plan give every flag the value last asked for,
\* unless a request that did not name the flag changed it, with an older copy of the
\* settings or for want of a section of features.
THEOREM FeaturesAsAsked == Spec => []FeatureAsAsked
<1>1. Inv => FeatureAsAsked
  BY DEF Inv, Asked, FeatureAsAsked, Enabled
<1> QED BY <1>1, Invariance, PTL

\* A cache that is never invalidated still stops reporting a tenant active TTL after
\* it ceased to be.
THEOREM CacheSeesSuspension == Spec => []SuspensionIsSeen
<1>1. Inv => SuspensionIsSeen
  <2> SUFFICES ASSUME Inv, NEW p \in Pods, Fresh(p), cache[p].status = "active", status # "active"
               PROVE  clock < leftAt + TTL \/ p \in late
    BY DEF SuspensionIsSeen
  <2>1. cache[p].expires \in Nat /\ clock \in Nat /\ leftAt \in Nat
    BY DEF Inv, TypeOK
  <2> QED BY <2>1 DEF Inv, Cached, Fresh
<1> QED BY <1>1, Invariance, PTL

-----------------------------------------------------------------------------
(***************************************************************************)
(* The cron tasks (module Scheduler), for any pods, tenants, zones and     *)
(* days.  Almost everything follows from what a pod has not yet run.       *)
(***************************************************************************)

\* Pod p had its turn to run task k in hour h.
Passed(p, k, h) == h < hour \/ (h = hour /\ k \notin due[p])

\* The midnights at the end of day d at which p had its turn.
PassedMidnights(p, t, d) == {h \in Midnights[zone[t]][d] : Passed(p, "checkout", h)}

\* The hours in which a day is reconciled and a month accrued.
ReconcileHour(d) == (d + 1) * 24 + 2
AccrualHour == FirstOfMonth * 24 + 3

\* A job that was added was added in its hour, and once.
CountedOnce(p, t) ==
  /\ \A d \in Days : reconcile[p][t][d] <= 1
                     /\ (reconcile[p][t][d] = 1 => Passed(p, "reconcile", ReconcileHour(d)))
  /\ \A m \in Months : accrual[p][t][m] <= 1
                       /\ (accrual[p][t][m] = 1 => Passed(p, "accrual", AccrualHour))
  /\ t \notin moved =>
       \A d \in Days : checkout[p][t][d] <= Cardinality(PassedMidnights(p, t, d))

CronInv ==
  /\ CronTypeOK
  /\ \A p \in Nodes : due[p] \subseteq TasksOf(hour)
  /\ \A t \in Tenants, d \in Days : <<t, d>> \in early => hour >= ReconcileHour(d)
  /\ \A p \in Nodes, t \in Tenants : CountedOnce(p, t)
  /\ CheckedOutWhenOver
  /\ ReconciledAfterCheckout

LEMMA HoursTyped ==
  /\ CronTypeOK => hour \in Int /\ 0 <= hour /\ hour < (LastDay + 1) * 24
  /\ LastDay \in Nat /\ FirstOfMonth \in 1 .. LastDay /\ MaxMishaps \in Nat
  /\ Zones \subseteq ZoneSet
BY SchedulerAssumption DEF CronTypeOK, Hours

\* The hour in which the clock of a zone shows midnight, at the end of its yesterday.
LEMMA MidnightOfHour ==
  ASSUME CronTypeOK, NEW z \in Zones, NEW d \in Days
  PROVE  hour \in Midnights[z][d] <=> HourIn(z, Now) = 0 /\ Yesterday(z, Now) = d
<1>1. Now = hour * 60 + 5
  BY DEF Now
<1>2. hour \in Midnights[z][d] <=> HourIn(z, Now) = 0 /\ WorkDate(z, Now) = d + 1
  BY <1>1 DEF Midnights, CronTypeOK
<1>3. WorkDate(z, Now) \in Int
  <2>1. z \in ZoneSet /\ Now \in Int
    BY HoursTyped, <1>1
  <2>2. ToZoned(z, Now) \in Int
    BY <2>1 DEF ToZoned, Offset, ZoneSet, Offsets
  <2> QED BY <2>2 DEF WorkDate, DayMinutes
<1>4. d \in Int
  BY HoursTyped DEF Days
<1> QED BY <1>2, <1>3, <1>4 DEF Yesterday

LEMMA MidnightsFinite ==
  ASSUME NEW z \in Zones, NEW d \in Days
  PROVE  /\ IsFiniteSet(Midnights[z][d])
         /\ Midnights[z][d] \subseteq Hours
<1>1. IsFiniteSet(Hours)
  BY HoursTyped, FS_Interval DEF Hours
<1>2. Midnights[z][d] \subseteq Hours
  BY DEF Midnights
<1> QED BY <1>1, <1>2, FS_Subset

\* Whoever had its turn keeps having had it.
LEMMA PassedMidnightsGrow ==
  ASSUME CronInv, NEW p \in Nodes, NEW t \in Tenants, NEW d \in Days, zone'[t] = zone[t],
         \A h \in Hours : Passed(p, "checkout", h) => Passed(p, "checkout", h)'
  PROVE  /\ IsFiniteSet(PassedMidnights(p, t, d)') /\ IsFiniteSet(PassedMidnights(p, t, d))
         /\ PassedMidnights(p, t, d) \subseteq PassedMidnights(p, t, d)'
         /\ Cardinality(PassedMidnights(p, t, d)) \in Nat
         /\ Cardinality(PassedMidnights(p, t, d)') \in Nat
         /\ Cardinality(PassedMidnights(p, t, d)) <= Cardinality(PassedMidnights(p, t, d)')
<1> DEFINE M == Midnights[zone[t]][d]
           A == PassedMidnights(p, t, d)
           B == PassedMidnights(p, t, d)'
<1>1. zone[t] \in Zones
  BY DEF CronInv, CronTypeOK
<1>2. IsFiniteSet(M) /\ M \subseteq Hours
  BY <1>1, MidnightsFinite
<1>3. Midnights' = Midnights
  BY DEF Midnights
<1>4. A \subseteq B /\ B \subseteq M
  BY <1>2, <1>3 DEF PassedMidnights
<1>5. IsFiniteSet(A) /\ IsFiniteSet(B)
  BY <1>2, <1>4, FS_Subset
<1>6. Cardinality(A) <= Cardinality(B) /\ Cardinality(A) \in Nat /\ Cardinality(B) \in Nat
  BY <1>4, <1>5, FS_Subset, FS_CardinalityType
<1> QED BY <1>4, <1>5, <1>6

\* A step that adds no job, and after which every pod has had the turns it had.
LEMMA QuietStep ==
  ASSUME CronInv, CronTypeOK',
         UNCHANGED <<midnight, jobs, served, early>>,
         hour <= hour', moved \subseteq moved',
         \A t \in Tenants \ moved' : zone'[t] = zone[t],
         \A p \in Nodes : due'[p] \subseteq TasksOf(hour'),
         \A p \in Nodes, k \in {"checkout", "reconcile", "accrual"}, h \in Int :
           Passed(p, k, h) => Passed(p, k, h)'
  PROVE  CronInv'
<1> USE DEF CronInv
<1>1. UNCHANGED <<midnight, checkout, reconcile, accrual, served, early>>
  BY DEF jobs
<1>2. /\ \A d \in Days : ReconcileHour(d) \in Int /\ ReconcileHour(d)' = ReconcileHour(d)
      /\ AccrualHour \in Int
      /\ Hours \subseteq Int
  BY HoursTyped DEF ReconcileHour, AccrualHour, Days, Hours
<1>3. ASSUME NEW t \in Tenants, NEW d \in Days, <<t, d>> \in early'
      PROVE  hour' >= ReconcileHour(d)
  <2>1. hour >= ReconcileHour(d)
    BY <1>1, <1>3
  <2>2. hour \in Int /\ hour' \in Int
    BY HoursTyped DEF CronTypeOK, Hours
  <2> QED BY <1>2, <2>1, <2>2
<1>4. ASSUME NEW p \in Nodes, NEW t \in Tenants PROVE CountedOnce(p, t)'
  <2>1. CountedOnce(p, t)
    OBVIOUS
  <2>2. ASSUME NEW d \in Days
        PROVE  /\ reconcile'[p][t][d] <= 1
               /\ reconcile'[p][t][d] = 1 => Passed(p, "reconcile", ReconcileHour(d))'
    BY <1>1, <1>2, <2>1 DEF CountedOnce
  <2>3. ASSUME NEW m \in Months
        PROVE  /\ accrual'[p][t][m] <= 1
               /\ accrual'[p][t][m] = 1 => Passed(p, "accrual", AccrualHour)'
    BY <1>1, <1>2, <2>1 DEF CountedOnce
  <2>4. ASSUME t \notin moved', NEW d \in Days
        PROVE  checkout'[p][t][d] <= Cardinality(PassedMidnights(p, t, d)')
    <3>1. checkout[p][t][d] <= Cardinality(PassedMidnights(p, t, d))
      BY <2>1, <2>4 DEF CountedOnce
    <3>2. /\ Cardinality(PassedMidnights(p, t, d)) <= Cardinality(PassedMidnights(p, t, d)')
          /\ Cardinality(PassedMidnights(p, t, d)) \in Nat
          /\ Cardinality(PassedMidnights(p, t, d)') \in Nat
      BY <1>2, <2>4, PassedMidnightsGrow
    <3>3. checkout'[p][t][d] = checkout[p][t][d] /\ checkout[p][t][d] \in Nat
      BY <1>1 DEF CronTypeOK, Counts
    <3> QED BY <3>1, <3>2, <3>3
  <2> QED BY <2>2, <2>3, <2>4 DEF CountedOnce
<1>5. ASSUME NEW t \in Tenants PROVE CheckedOut(t)' = CheckedOut(t)
  BY <1>1 DEF CheckedOut
<1>6. Midnights' = Midnights
  BY DEF Midnights
<1>7. CheckedOutWhenOver'
  <2> SUFFICES ASSUME NEW t \in Tenants \ moved', NEW d \in Days
               PROVE  (d \in CheckedOut(t) <=> midnight = 0 /\ \E h \in Midnights[zone[t]][d] :
                                                              <<t, h>> \in served)'
    BY DEF CheckedOutWhenOver
  <2>1. d \in CheckedOut(t) <=> midnight = 0 /\ \E h \in Midnights[zone[t]][d] : <<t, h>> \in served
    BY DEF CheckedOutWhenOver
  <2>2. zone'[t] = zone[t] /\ CheckedOut(t)' = CheckedOut(t)
    BY <1>5
  <2> QED BY <1>1, <1>6, <2>1, <2>2
<1>8. ReconciledAfterCheckout'
  BY <1>1, <1>6 DEF ReconciledAfterCheckout
<1> QED BY <1>3, <1>4, <1>7, <1>8

-----------------------------------------------------------------------------
\* The steps that add jobs: the turn of one pod for one task is over.
LEMMA TurnPasses ==
  ASSUME CronInv, NEW p \in Nodes, NEW k \in {"checkout", "reconcile", "accrual"},
         Ready(p, k), Runs(p, k), hour' = hour
  PROVE  /\ due' \in [Nodes -> SUBSET {"checkout", "reconcile", "accrual"}]
         /\ \A q \in Nodes : due'[q] \subseteq TasksOf(hour')
         /\ k \in TasksOf(hour)
         /\ Passed(p, k, hour)' /\ ~ Passed(p, k, hour)
         /\ \A q \in Nodes, j \in {"checkout", "reconcile", "accrual"}, h \in Int :
              Passed(q, j, h) => Passed(q, j, h)'
<1>1. due \in [Nodes -> SUBSET {"checkout", "reconcile", "accrual"}] /\ hour \in Int
  BY HoursTyped DEF CronInv, CronTypeOK
<1>2. \A q \in Nodes : due'[q] = IF q = p THEN due[p] \ {k} ELSE due[q]
  BY <1>1 DEF Runs
<1>3. k \in due[p]
  BY DEF Ready
<1>4. due' \in [Nodes -> SUBSET {"checkout", "reconcile", "accrual"}]
  BY <1>1 DEF Runs
<1>5. \A q \in Nodes : due'[q] \subseteq TasksOf(hour')
  BY <1>2 DEF CronInv
<1>6. k \in TasksOf(hour)
  BY <1>3 DEF CronInv
<1>7. Passed(p, k, hour)' /\ ~ Passed(p, k, hour)
  BY <1>1, <1>2, <1>3 DEF Passed
<1>8. \A q \in Nodes, j \in {"checkout", "reconcile", "accrual"}, h \in Int :
        Passed(q, j, h) => Passed(q, j, h)'
  BY <1>1, <1>2 DEF Passed
<1> QED BY <1>4, <1>5, <1>6, <1>7, <1>8

\* What the loop of scheduleAutoCheckout adds.
LEMMA CheckoutsAdded ==
  ASSUME CronTypeOK, NEW p \in Nodes, NEW done, AddCheckouts(p, done)
  PROVE  /\ checkout' \in Counts(Days)
         /\ \A q \in Nodes, t \in Tenants, d \in Days :
              checkout'[q][t][d] =
                IF q = p /\ t \in done /\ IsMidnight(t) /\ d = DayToCheckOut(t)
                  THEN checkout[q][t][d] + 1 ELSE checkout[q][t][d]
<1>1. checkout \in [Nodes -> [Tenants -> [Days -> Nat]]]
  BY DEF CronTypeOK, Counts
<1> DEFINE add(t) == t \in done /\ IsMidnight(t)
           more(t) == [checkout[p][t] EXCEPT ![DayToCheckOut(t)] = @ + 1]
           of(t) == IF add(t) THEN more(t) ELSE checkout[p][t]
<1>2. checkout' = [checkout EXCEPT ![p] = [t \in Tenants |-> of(t)]]
  BY DEF AddCheckouts
<1>3. ASSUME NEW t \in Tenants
      PROVE  /\ more(t) \in [Days -> Nat]
             /\ \A d \in Days : more(t)[d] =
                  IF d = DayToCheckOut(t) THEN checkout[p][t][d] + 1 ELSE checkout[p][t][d]
  <2> DEFINE f == checkout[p][t]
             D == DayToCheckOut(t)
  <2>1. f \in [Days -> Nat]
    BY <1>1
  <2> HIDE DEF f, D
  <2>2. ASSUME D \in Days PROVE f[D] + 1 \in Nat
    BY <2>1, <2>2
  <2>3. [f EXCEPT ![D] = f[D] + 1] \in [Days -> Nat]
    BY <2>1, <2>2
  <2>4. \A d \in Days : [f EXCEPT ![D] = f[D] + 1][d] = IF d = D THEN f[d] + 1 ELSE f[d]
    BY <2>1
  <2> QED BY <2>3, <2>4 DEF f, D
<1> HIDE DEF more, add
<1>4. ASSUME NEW t \in Tenants PROVE of(t) \in [Days -> Nat]
  BY <1>1, <1>3
<1>5. checkout' \in Counts(Days)
  <2> HIDE DEF of
  <2> QED BY <1>1, <1>2, <1>4 DEF Counts
<1>6. ASSUME NEW q \in Nodes, NEW t \in Tenants
      PROVE  checkout'[q][t] = IF q = p /\ add(t) THEN more(t) ELSE checkout[q][t]
  BY <1>1, <1>2
<1>7. ASSUME NEW q \in Nodes, NEW t \in Tenants, NEW d \in Days
      PROVE  checkout'[q][t][d] =
                IF q = p /\ add(t) /\ d = DayToCheckOut(t)
                  THEN checkout[q][t][d] + 1 ELSE checkout[q][t][d]
  BY <1>3, <1>6
<1> QED BY <1>5, <1>7 DEF add

\* scheduleAutoCheckout, to its end or up to an enqueue that fails.
LEMMA CheckoutStep ==
  ASSUME CronInv, NEW p \in Nodes, NEW done \in SUBSET active,
         Ready(p, "checkout"), AddCheckouts(p, done), Serve(done), Runs(p, "checkout"),
         mishaps' \in 0 .. MaxMishaps,
         UNCHANGED <<hour, up, active, zone, midnight, reconcile, accrual, moved, early>>
  PROVE  CronInv'
<1> USE DEF CronInv
<1> DEFINE now == {t \in done : HourIn(zone[t], Now) = 0}
<1>1. served' = served \cup {<<t, hour>> : t \in now}
  BY DEF Serve
<1>2. /\ hour \in Int /\ hour \in Hours /\ done \subseteq Tenants /\ Hours \subseteq Int
      /\ \A t \in Tenants : zone[t] \in Zones
  BY HoursTyped DEF CronTypeOK, Hours
<1>3. Midnights' = Midnights
  BY DEF Midnights
<1>4. CronTypeOK'
  <2>1. checkout' \in Counts(Days)
    BY CheckoutsAdded
  <2>2. due' \in [Nodes -> SUBSET {"checkout", "reconcile", "accrual"}]
    BY TurnPasses
  <2>3. served' \subseteq Tenants \X Hours
    BY <1>1, <1>2 DEF CronTypeOK
  <2>4. Counts(Days)' = Counts(Days) /\ Counts(Months)' = Counts(Months) /\ Hours' = Hours
    BY DEF Counts, Hours
  <2> QED BY <2>1, <2>2, <2>3, <2>4 DEF CronTypeOK
<1>5. ASSUME NEW t \in Tenants, NEW d \in Days
      PROVE  /\ hour \in Midnights[zone[t]][d] <=>
                  HourIn(zone[t], Now) = 0 /\ d = DayToCheckOut(t)
             /\ IsMidnight(t) <=> midnight = 0 /\ HourIn(zone[t], Now) = 0
  BY <1>2, MidnightOfHour DEF DayToCheckOut, IsMidnight
<1>6. ASSUME NEW t \in Tenants \ moved', NEW d \in Days
      PROVE  (d \in CheckedOut(t) <=> midnight = 0 /\ \E h \in Midnights[zone[t]][d] :
                                                     <<t, h>> \in served)'
  <2>1. d \in CheckedOut(t) <=> midnight = 0 /\ \E h \in Midnights[zone[t]][d] : <<t, h>> \in served
    BY DEF CheckedOutWhenOver
  <2>2. d \in CheckedOut(t)' <=>
          d \in CheckedOut(t) \/ (t \in done /\ IsMidnight(t) /\ d = DayToCheckOut(t))
    <3>1. \A q \in Nodes : checkout[q][t][d] \in Nat
      BY DEF CronTypeOK, Counts
    <3>2. \A q \in Nodes : checkout'[q][t][d] =
            IF q = p /\ t \in done /\ IsMidnight(t) /\ d = DayToCheckOut(t)
              THEN checkout[q][t][d] + 1 ELSE checkout[q][t][d]
      BY CheckoutsAdded
    <3>3. (\E q \in Nodes : checkout'[q][t][d] > 0) <=>
            (\E q \in Nodes : checkout[q][t][d] > 0)
              \/ (t \in done /\ IsMidnight(t) /\ d = DayToCheckOut(t))
      BY <3>1, <3>2
    <3> QED BY <3>3 DEF CheckedOut
  <2>3. (\E h \in Midnights[zone[t]][d] : <<t, h>> \in served') <=>
          (\E h \in Midnights[zone[t]][d] : <<t, h>> \in served)
            \/ (t \in now /\ hour \in Midnights[zone[t]][d])
    BY <1>1
  <2> QED BY <1>3, <1>5, <2>1, <2>2, <2>3
<1>7. CheckedOutWhenOver'
  BY <1>6 DEF CheckedOutWhenOver
<1>8. ASSUME NEW t \in Tenants \ moved', NEW d \in Days, <<t, d>> \in early'
      PROVE  (\/ midnight = 24
              \/ \A h \in Midnights[zone[t]][d] :
                   h >= (d + 1) * 24 + 2 \/ <<t, h>> \notin served)'
  <2>1. hour >= (d + 1) * 24 + 2
    BY <1>8 DEF ReconcileHour
  <2>2. \/ midnight = 24
        \/ \A h \in Midnights[zone[t]][d] : h >= (d + 1) * 24 + 2 \/ <<t, h>> \notin served
    BY <1>8 DEF ReconciledAfterCheckout
  <2>3. \A h : <<t, h>> \in served' => <<t, h>> \in served \/ h = hour
    BY <1>1
  <2> QED BY <1>3, <2>1, <2>2, <2>3
<1>9. ReconciledAfterCheckout'
  BY <1>8 DEF ReconciledAfterCheckout
<1>10. ASSUME NEW q \in Nodes, NEW t \in Tenants PROVE CountedOnce(q, t)'
  <2>1. CountedOnce(q, t)
    OBVIOUS
  <2>2. /\ \A d \in Days : ReconcileHour(d) \in Int /\ ReconcileHour(d)' = ReconcileHour(d)
        /\ AccrualHour \in Int
    BY HoursTyped DEF ReconcileHour, AccrualHour, Days
  <2>3. ASSUME NEW d \in Days
        PROVE  /\ reconcile'[q][t][d] <= 1
               /\ reconcile'[q][t][d] = 1 => Passed(q, "reconcile", ReconcileHour(d))'
    BY <2>1, <2>2, TurnPasses DEF CountedOnce
  <2>4. ASSUME NEW m \in Months
        PROVE  /\ accrual'[q][t][m] <= 1
               /\ accrual'[q][t][m] = 1 => Passed(q, "accrual", AccrualHour)'
    BY <2>1, <2>2, TurnPasses DEF CountedOnce
  <2>5. ASSUME t \notin moved', NEW d \in Days
        PROVE  checkout'[q][t][d] <= Cardinality(PassedMidnights(q, t, d)')
    <3> DEFINE A == PassedMidnights(q, t, d)
               B == PassedMidnights(q, t, d)'
    <3>1. checkout[q][t][d] <= Cardinality(A) /\ checkout[q][t][d] \in Nat
      BY <2>1, <2>5 DEF CountedOnce, CronTypeOK, Counts
    <3>2. /\ IsFiniteSet(A) /\ IsFiniteSet(B) /\ A \subseteq B
          /\ Cardinality(A) \in Nat /\ Cardinality(B) \in Nat /\ Cardinality(A) <= Cardinality(B)
      <4>1. \A h \in Hours : Passed(q, "checkout", h) => Passed(q, "checkout", h)'
        BY <1>2, TurnPasses
      <4> QED BY <4>1, PassedMidnightsGrow
    <3>3. CASE q = p /\ t \in done /\ IsMidnight(t) /\ d = DayToCheckOut(t)
      <4>1. hour \in Midnights[zone[t]][d]
        BY <1>5, <3>3
      <4>2. hour \in B /\ hour \notin A
        BY <1>3, <3>3, <4>1, TurnPasses DEF PassedMidnights
      <4>3. Cardinality(A) # Cardinality(B)
        BY <3>2, <4>2, FS_Subset
      <4>4. checkout'[q][t][d] = checkout[q][t][d] + 1
        BY <3>3, CheckoutsAdded
      <4> QED BY <3>1, <3>2, <4>3, <4>4
    <3>4. CASE ~ (q = p /\ t \in done /\ IsMidnight(t) /\ d = DayToCheckOut(t))
      <4>1. checkout'[q][t][d] = checkout[q][t][d]
        BY <3>4, CheckoutsAdded
      <4> QED BY <3>1, <3>2, <4>1
    <3> QED BY <3>3, <3>4
  <2> QED BY <2>3, <2>4, <2>5 DEF CountedOnce
<1>11. /\ \A q \in Nodes : due'[q] \subseteq TasksOf(hour')
       /\ \A t \in Tenants, d \in Days : <<t, d>> \in early' => hour' >= ReconcileHour(d)
  BY TurnPasses
<1> QED BY <1>4, <1>7, <1>9, <1>10, <1>11

\* What enqueueBulk adds.
LEMMA BulkAdded ==
  ASSUME NEW K, NEW counts \in Counts(K), NEW p \in Nodes, NEW k
  PROVE  /\ EnqueueBulk(counts, p, k) \in Counts(K)
         /\ \A q \in Nodes, t \in Tenants, j \in K :
              EnqueueBulk(counts, p, k)[q][t][j] =
                IF q = p /\ t \in active /\ j = k THEN counts[q][t][j] + 1 ELSE counts[q][t][j]
<1>1. counts \in [Nodes -> [Tenants -> [K -> Nat]]]
  BY DEF Counts
<1> DEFINE more(t) == [counts[p][t] EXCEPT ![k] = @ + 1]
           of(t) == IF t \in active THEN more(t) ELSE counts[p][t]
<1>2. EnqueueBulk(counts, p, k) = [counts EXCEPT ![p] = [t \in Tenants |-> of(t)]]
  BY DEF EnqueueBulk
<1>3. ASSUME NEW t \in Tenants
      PROVE  /\ more(t) \in [K -> Nat]
             /\ \A j \in K : more(t)[j] = IF j = k THEN counts[p][t][j] + 1 ELSE counts[p][t][j]
  <2> DEFINE f == counts[p][t]
  <2>1. f \in [K -> Nat]
    BY <1>1
  <2> HIDE DEF f
  <2>2. k \in K => f[k] + 1 \in Nat
    BY <2>1
  <2>3. [f EXCEPT ![k] = f[k] + 1] \in [K -> Nat]
    BY <2>1, <2>2
  <2>4. \A j \in K : [f EXCEPT ![k] = f[k] + 1][j] = IF j = k THEN f[j] + 1 ELSE f[j]
    BY <2>1
  <2> QED BY <2>3, <2>4 DEF f
<1> HIDE DEF more
<1>4. ASSUME NEW t \in Tenants PROVE of(t) \in [K -> Nat]
  BY <1>1, <1>3
<1>5. EnqueueBulk(counts, p, k) \in Counts(K)
  <2> HIDE DEF of
  <2> QED BY <1>1, <1>2, <1>4 DEF Counts
<1>6. ASSUME NEW q \in Nodes, NEW t \in Tenants
      PROVE  EnqueueBulk(counts, p, k)[q][t] =
               IF q = p /\ t \in active THEN more(t) ELSE counts[q][t]
  BY <1>1, <1>2
<1> QED BY <1>3, <1>5, <1>6

\* The turns that have passed in any case, and the midnights with them.
LEMMA StillCounted ==
  ASSUME CronInv, NEW p \in Nodes, NEW k \in {"reconcile", "accrual"}, Ready(p, k), Runs(p, k),
         UNCHANGED <<hour, zone, moved, checkout>>, NEW q \in Nodes, NEW t \in Tenants
  PROVE  /\ \A d \in Days : reconcile[q][t][d] = 1 => Passed(q, "reconcile", ReconcileHour(d))'
         /\ \A m \in Months : accrual[q][t][m] = 1 => Passed(q, "accrual", AccrualHour)'
         /\ t \notin moved' => \A d \in Days :
              checkout'[q][t][d] <= Cardinality(PassedMidnights(q, t, d)')
<1> USE DEF CronInv
<1>1. CountedOnce(q, t)
  OBVIOUS
<1>2. /\ \A d \in Days : ReconcileHour(d) \in Int /\ ReconcileHour(d)' = ReconcileHour(d)
      /\ AccrualHour \in Int /\ Hours \subseteq Int
  BY HoursTyped DEF ReconcileHour, AccrualHour, Days, Hours
<1>3. \A j \in {"checkout", "reconcile", "accrual"}, h \in Int :
        Passed(q, j, h) => Passed(q, j, h)'
  BY TurnPasses
<1>4. ASSUME t \notin moved', NEW d \in Days
      PROVE  checkout'[q][t][d] <= Cardinality(PassedMidnights(q, t, d)')
  <2>1. checkout[q][t][d] <= Cardinality(PassedMidnights(q, t, d))
    BY <1>1, <1>4 DEF CountedOnce
  <2>2. /\ Cardinality(PassedMidnights(q, t, d)) <= Cardinality(PassedMidnights(q, t, d)')
        /\ Cardinality(PassedMidnights(q, t, d)) \in Nat
        /\ Cardinality(PassedMidnights(q, t, d)') \in Nat
    BY <1>2, <1>3, PassedMidnightsGrow
  <2>3. checkout'[q][t][d] = checkout[q][t][d] /\ checkout[q][t][d] \in Nat
    BY DEF CronTypeOK, Counts
  <2> QED BY <2>1, <2>2, <2>3
<1>5. \A d \in Days : reconcile[q][t][d] = 1 => Passed(q, "reconcile", ReconcileHour(d))'
  BY <1>1, <1>2, <1>3 DEF CountedOnce
<1>6. \A m \in Months : accrual[q][t][m] = 1 => Passed(q, "accrual", AccrualHour)'
  BY <1>1, <1>2, <1>3 DEF CountedOnce
<1> QED BY <1>4, <1>5, <1>6

LEMMA ReconciliationStep ==
  ASSUME CronInv, NEW p \in Nodes, DailyReconciliation(p)
  PROVE  CronInv'
<1> USE DEF CronInv
<1> DEFINE D == DayToReconcile
           open == {u \in active : D \notin CheckedOut(u)}
<1>1. /\ Ready(p, "reconcile") /\ Runs(p, "reconcile")
      /\ reconcile' = EnqueueBulk(reconcile, p, D)
      /\ early' = early \cup {<<t, D>> : t \in open}
      /\ UNCHANGED <<hour, up, active, zone, midnight, checkout, accrual, mishaps, served, moved>>
  BY DEF DailyReconciliation
<1>2. /\ hour \in Int /\ 0 <= hour /\ hour < (LastDay + 1) * 24 /\ LastDay \in Nat
      /\ Hours \subseteq Int /\ active \subseteq Tenants
  BY HoursTyped DEF CronTypeOK, Hours
<1>3. hour % 24 = 2
  BY <1>1, TurnPasses DEF TasksOf
<1>4. D \in Days /\ ReconcileHour(D) = hour /\ D \in Int
  BY <1>2, <1>3 DEF DayToReconcile, Days, ReconcileHour
<1>5. Midnights' = Midnights
  BY DEF Midnights
<1>6. /\ reconcile' \in Counts(Days)
      /\ \A q \in Nodes, t \in Tenants, d \in Days :
           reconcile'[q][t][d] =
             IF q = p /\ t \in active /\ d = D THEN reconcile[q][t][d] + 1 ELSE reconcile[q][t][d]
  BY <1>1, BulkAdded DEF CronTypeOK
<1>7. CronTypeOK'
  <2>1. due' \in [Nodes -> SUBSET {"checkout", "reconcile", "accrual"}]
    BY <1>1, TurnPasses
  <2>2. early' \subseteq Tenants \X Days
    BY <1>1, <1>2, <1>4 DEF CronTypeOK
  <2>3. Counts(Days)' = Counts(Days) /\ Counts(Months)' = Counts(Months) /\ Hours' = Hours
    BY DEF Counts, Hours
  <2> QED BY <1>1, <1>6, <2>1, <2>2, <2>3 DEF CronTypeOK
<1>8. ASSUME NEW t \in Tenants, NEW d \in Days, <<t, d>> \in early'
      PROVE  hour' >= ReconcileHour(d)
  <2>1. CASE <<t, d>> \in early
    BY <1>1, <2>1
  <2>2. CASE <<t, d>> \notin early
    <3>1. d = D
      BY <1>1, <1>8, <2>2
    <3> QED BY <1>1, <1>2, <1>4, <3>1
  <2> QED BY <2>1, <2>2
<1>9. ASSUME NEW t \in Tenants PROVE CheckedOut(t)' = CheckedOut(t)
  BY <1>1 DEF CheckedOut
<1>10. CheckedOutWhenOver'
  <2> SUFFICES ASSUME NEW t \in Tenants \ moved', NEW d \in Days
               PROVE  (d \in CheckedOut(t) <=> midnight = 0 /\ \E h \in Midnights[zone[t]][d] :
                                                              <<t, h>> \in served)'
    BY DEF CheckedOutWhenOver
  <2>1. t \in Tenants \ moved
    BY <1>1
  <2>2. d \in CheckedOut(t) <=> midnight = 0 /\ \E h \in Midnights[zone[t]][d] : <<t, h>> \in served
    BY <2>1 DEF CheckedOutWhenOver
  <2> QED BY <1>1, <1>5, <1>9, <2>2
<1>11. ASSUME NEW t \in Tenants \ moved', NEW d \in Days, <<t, d>> \in early'
       PROVE  (\/ midnight = 24
               \/ \A h \in Midnights[zone[t]][d] :
                    h >= (d + 1) * 24 + 2 \/ <<t, h>> \notin served)'
  <2>1. t \in Tenants \ moved
    BY <1>1
  <2>2. \/ midnight = 24
        \/ \A h \in Midnights[zone[t]][d] : h >= (d + 1) * 24 + 2 \/ <<t, h>> \notin served
    <3>1. CASE <<t, d>> \in early
      BY <2>1, <3>1 DEF ReconciledAfterCheckout
    <3>2. CASE <<t, d>> \notin early
      <4>1. d = D /\ D \notin CheckedOut(t)
        BY <1>1, <1>11, <3>2
      <4>2. ~ (midnight = 0 /\ \E h \in Midnights[zone[t]][d] : <<t, h>> \in served)
        BY <2>1, <4>1 DEF CheckedOutWhenOver
      <4>3. midnight \in {0, 24}
        BY DEF CronTypeOK
      <4> QED BY <4>2, <4>3
    <3> QED BY <3>1, <3>2
  <2> QED BY <1>1, <1>5, <2>2
<1>12. ReconciledAfterCheckout'
  BY <1>11 DEF ReconciledAfterCheckout
<1>13. ASSUME NEW q \in Nodes, NEW t \in Tenants PROVE CountedOnce(q, t)'
  <2>1. CountedOnce(q, t)
    OBVIOUS
  <2>2. /\ \A d \in Days : reconcile[q][t][d] = 1 => Passed(q, "reconcile", ReconcileHour(d))'
        /\ \A m \in Months : accrual[q][t][m] = 1 => Passed(q, "accrual", AccrualHour)'
        /\ t \notin moved' => \A d \in Days :
             checkout'[q][t][d] <= Cardinality(PassedMidnights(q, t, d)')
    BY <1>1, StillCounted
  <2>3. ASSUME NEW d \in Days
        PROVE  /\ reconcile'[q][t][d] <= 1
               /\ reconcile'[q][t][d] = 1 => Passed(q, "reconcile", ReconcileHour(d))'
    <3>1. reconcile[q][t][d] \in Nat /\ reconcile[q][t][d] <= 1
      BY <2>1 DEF CountedOnce, CronTypeOK, Counts
    <3>2. CASE q = p /\ t \in active /\ d = D
      <4>1. ~ Passed(q, "reconcile", ReconcileHour(d)) /\ Passed(q, "reconcile", ReconcileHour(d))'
        <5>1. ~ Passed(p, "reconcile", hour) /\ Passed(p, "reconcile", hour)' /\ hour' = hour
          BY <1>1, TurnPasses
        <5>2. ReconcileHour(d)' = ReconcileHour(d)
          BY DEF ReconcileHour
        <5> QED BY <1>4, <3>2, <5>1, <5>2 DEF Passed
      <4>2. reconcile[q][t][d] = 0
        BY <2>1, <3>1, <4>1 DEF CountedOnce
      <4> QED BY <1>6, <3>2, <4>1, <4>2
    <3>3. CASE ~ (q = p /\ t \in active /\ d = D)
      <4>1. reconcile'[q][t][d] = reconcile[q][t][d]
        BY <1>6, <3>3
      <4> QED BY <2>2, <3>1, <4>1
    <3> QED BY <3>2, <3>3
  <2>4. \A m \in Months : accrual'[q][t][m] <= 1
    BY <1>1, <2>1 DEF CountedOnce
  <2> QED BY <1>1, <2>2, <2>3, <2>4 DEF CountedOnce
<1>14. \A q \in Nodes : due'[q] \subseteq TasksOf(hour')
  BY <1>1, TurnPasses
<1> QED BY <1>7, <1>8, <1>10, <1>12, <1>13, <1>14

LEMMA AccrualStep ==
  ASSUME CronInv, NEW p \in Nodes, MonthlyLeaveAccrual(p)
  PROVE  CronInv'
<1> USE DEF CronInv
<1> DEFINE M == MonthOf(hour \div 24)
<1>1. /\ Ready(p, "accrual") /\ Runs(p, "accrual")
      /\ accrual' = EnqueueBulk(accrual, p, M)
      /\ UNCHANGED <<hour, up, active, zone, midnight, checkout, reconcile, mishaps,
                     served, moved, early>>
  BY DEF MonthlyLeaveAccrual, cronHistory
<1>2. /\ hour \in Int /\ 0 <= hour /\ hour < (LastDay + 1) * 24 /\ LastDay \in Nat
      /\ FirstOfMonth \in 1 .. LastDay
  BY HoursTyped
<1>3. hour % 24 = 3 /\ hour \div 24 = FirstOfMonth
  BY <1>1, TurnPasses DEF TasksOf
<1>4. AccrualHour = hour
  BY <1>2, <1>3 DEF AccrualHour
<1>5. Midnights' = Midnights /\ CheckedOutWhenOver' = CheckedOutWhenOver
      /\ ReconciledAfterCheckout' = ReconciledAfterCheckout
  BY <1>1 DEF Midnights, CheckedOutWhenOver, ReconciledAfterCheckout, CheckedOut
<1>6. /\ accrual' \in Counts(Months)
      /\ \A q \in Nodes, t \in Tenants, m \in Months :
           accrual'[q][t][m] =
             IF q = p /\ t \in active /\ m = M THEN accrual[q][t][m] + 1 ELSE accrual[q][t][m]
  BY <1>1, BulkAdded DEF CronTypeOK
<1>7. CronTypeOK'
  <2>1. due' \in [Nodes -> SUBSET {"checkout", "reconcile", "accrual"}]
    BY <1>1, TurnPasses
  <2>2. Counts(Days)' = Counts(Days) /\ Counts(Months)' = Counts(Months) /\ Hours' = Hours
    BY DEF Counts, Hours
  <2> QED BY <1>1, <1>6, <2>1, <2>2 DEF CronTypeOK
<1>8. ASSUME NEW q \in Nodes, NEW t \in Tenants PROVE CountedOnce(q, t)'
  <2>1. CountedOnce(q, t)
    OBVIOUS
  <2>2. /\ \A d \in Days : reconcile[q][t][d] = 1 => Passed(q, "reconcile", ReconcileHour(d))'
        /\ \A m \in Months : accrual[q][t][m] = 1 => Passed(q, "accrual", AccrualHour)'
        /\ t \notin moved' => \A d \in Days :
             checkout'[q][t][d] <= Cardinality(PassedMidnights(q, t, d)')
    BY <1>1, StillCounted
  <2>3. ASSUME NEW m \in Months
        PROVE  /\ accrual'[q][t][m] <= 1
               /\ accrual'[q][t][m] = 1 => Passed(q, "accrual", AccrualHour)'
    <3>1. accrual[q][t][m] \in Nat /\ accrual[q][t][m] <= 1
      BY <2>1 DEF CountedOnce, CronTypeOK, Counts
    <3>2. CASE q = p /\ t \in active /\ m = M
      <4>1. ~ Passed(q, "accrual", AccrualHour) /\ Passed(q, "accrual", AccrualHour)'
        <5>1. ~ Passed(p, "accrual", hour) /\ Passed(p, "accrual", hour)' /\ hour' = hour
          BY <1>1, TurnPasses
        <5>2. AccrualHour' = AccrualHour
          BY DEF AccrualHour
        <5> QED BY <1>4, <3>2, <5>1, <5>2 DEF Passed
      <4>2. accrual[q][t][m] = 0
        BY <2>1, <3>1, <4>1 DEF CountedOnce
      <4> QED BY <1>6, <3>2, <4>1, <4>2
    <3>3. CASE ~ (q = p /\ t \in active /\ m = M)
      <4>1. accrual'[q][t][m] = accrual[q][t][m]
        BY <1>6, <3>3
      <4> QED BY <2>2, <3>1, <4>1
    <3> QED BY <3>2, <3>3
  <2>4. \A d \in Days : reconcile'[q][t][d] <= 1
    BY <1>1, <2>1 DEF CountedOnce
  <2> QED BY <1>1, <2>2, <2>3, <2>4 DEF CountedOnce
<1>9. /\ \A q \in Nodes : due'[q] \subseteq TasksOf(hour')
      /\ \A t \in Tenants, d \in Days : <<t, d>> \in early' => hour' >= ReconcileHour(d)
  BY <1>1, TurnPasses DEF ReconcileHour
<1> QED BY <1>5, <1>7, <1>8, <1>9


LEMMA InitCronInv == CronInit => CronInv
<1> SUFFICES ASSUME CronInit PROVE CronInv
  OBVIOUS
<1> DEFINE none(n) == [p \in Nodes |-> [t \in Tenants |-> [d \in n |-> 0]]]
<1>1. /\ LastDay \in Nat /\ MaxMishaps \in Nat /\ Home \in [Tenants -> Zones]
      /\ hour = 0 /\ due = [p \in Nodes |-> TasksOf(0)] /\ up = Nodes /\ active = Tenants
      /\ zone = Home /\ midnight \in {0, 24} /\ mishaps = 0
      /\ served = {} /\ moved = {} /\ early = {}
      /\ checkout = none(Days) /\ reconcile = none(Days) /\ accrual = none(Months)
  BY SchedulerAssumption DEF CronInit
<1>2. CronTypeOK
  <2>1. \A n : none(n) \in Counts(n)
    BY DEF Counts
  <2>2. checkout \in Counts(Days) /\ reconcile \in Counts(Days) /\ accrual \in Counts(Months)
    BY <1>1, <2>1
  <2>3. due \in [Nodes -> SUBSET {"checkout", "reconcile", "accrual"}]
    BY <1>1 DEF TasksOf
  <2>4. hour \in Hours /\ mishaps \in 0 .. MaxMishaps
    BY <1>1 DEF Hours
  <2> HIDE DEF none
  <2> QED BY <1>1, <2>2, <2>3, <2>4 DEF CronTypeOK
<1>3. \A p \in Nodes : due[p] \subseteq TasksOf(hour)
  BY <1>1
<1>4. ASSUME NEW p \in Nodes, NEW t \in Tenants PROVE CountedOnce(p, t)
  <2>1. /\ \A d \in Days : reconcile[p][t][d] = 0 /\ checkout[p][t][d] = 0
        /\ \A m \in Months : accrual[p][t][m] = 0
    BY <1>1
  <2>2. ASSUME NEW d \in Days PROVE Cardinality(PassedMidnights(p, t, d)) \in Nat
    <3>1. zone[t] \in Zones
      BY <1>2 DEF CronTypeOK
    <3>2. PassedMidnights(p, t, d) \subseteq Midnights[zone[t]][d]
      BY DEF PassedMidnights
    <3> QED BY <3>1, <3>2, MidnightsFinite, FS_Subset, FS_CardinalityType
  <2> QED BY <2>1, <2>2 DEF CountedOnce
<1>5. CheckedOutWhenOver
  <2>1. \A t \in Tenants, p \in Nodes, d \in Days : checkout[p][t][d] = 0
    BY <1>1
  <2> QED BY <1>1, <2>1 DEF CheckedOutWhenOver, CheckedOut
<1>6. ReconciledAfterCheckout
  BY <1>1 DEF ReconciledAfterCheckout
<1> QED BY <1>1, <1>2, <1>3, <1>4, <1>5, <1>6 DEF CronInv

LEMMA NextHourInv ==
  ASSUME CronInv, NextHour
  PROVE  CronInv'
<1> USE DEF CronInv
<1>1. /\ hour \in Int /\ hour' = hour + 1 /\ hour' \in Hours
      /\ due' = [p \in Nodes |-> IF p \in up THEN TasksOf(hour + 1) ELSE AtFivePast(TasksOf(hour + 1))]
      /\ UNCHANGED <<up, active, zone, midnight, jobs, mishaps, cronHistory>>
  BY HoursTyped DEF NextHour
<1>2. CronTypeOK'
  <2>1. due' \in [Nodes -> SUBSET {"checkout", "reconcile", "accrual"}]
    BY <1>1 DEF TasksOf, AtFivePast
  <2> QED BY <1>1, <2>1 DEF CronTypeOK, jobs, cronHistory, Counts, Hours
<1>3. \A p \in Nodes : due'[p] \subseteq TasksOf(hour')
  BY <1>1 DEF AtFivePast
<1>4. \A p \in Nodes, k \in {"checkout", "reconcile", "accrual"}, h \in Int :
        Passed(p, k, h) => Passed(p, k, h)'
  BY <1>1 DEF Passed
<1> QED BY <1>1, <1>2, <1>3, <1>4, QuietStep DEF jobs, cronHistory

LEMMA NextCronInv == CronInv /\ [CronNext]_cronVars => CronInv'
<1> SUFFICES ASSUME CronInv, [CronNext]_cronVars PROVE CronInv'
  OBVIOUS
<1> USE DEF CronInv
<1>1. hour \in Int /\ due \in [Nodes -> SUBSET {"checkout", "reconcile", "accrual"}]
      /\ mishaps \in 0 .. MaxMishaps /\ MaxMishaps \in Nat
  BY HoursTyped DEF CronTypeOK
<1>2. ASSUME NEW p \in Nodes, AutoCheckout(p) PROVE CronInv'
  <2>1. mishaps' \in 0 .. MaxMishaps
    BY <1>1, <1>2 DEF AutoCheckout
  <2> QED BY <1>2, <2>1, CheckoutStep DEF AutoCheckout
<1>3. ASSUME NEW p \in Nodes, NEW done \in SUBSET active, AutoCheckoutFails(p, done)
      PROVE  CronInv'
  <2>1. mishaps' \in 0 .. MaxMishaps
    BY <1>1, <1>3 DEF AutoCheckoutFails
  <2> QED BY <1>3, <2>1, CheckoutStep DEF AutoCheckoutFails
<1>4. ASSUME UNCHANGED <<hour, midnight, jobs, served, early>>, moved \subseteq moved',
             \A t \in Tenants \ moved' : zone'[t] = zone[t],
             due' \in [Nodes -> SUBSET {"checkout", "reconcile", "accrual"}],
             \A p \in Nodes : due'[p] \subseteq due[p],
             CronTypeOK'
      PROVE  CronInv'
  <2>1. \A p \in Nodes : due'[p] \subseteq TasksOf(hour')
    BY <1>4
  <2>2. \A p \in Nodes, k \in {"checkout", "reconcile", "accrual"}, h \in Int :
          Passed(p, k, h) => Passed(p, k, h)'
    BY <1>4 DEF Passed
  <2> QED BY <1>1, <1>4, <2>1, <2>2, QuietStep
<1>5. ASSUME NEW p \in Nodes, NEW k \in {"reconcile", "accrual"}, BulkFails(p, k) PROVE CronInv'
  <2>1. due' = [due EXCEPT ![p] = @ \ {k}]
    BY <1>5 DEF BulkFails, Runs
  <2>2. due' \in [Nodes -> SUBSET {"checkout", "reconcile", "accrual"}]
        /\ \A q \in Nodes : due'[q] \subseteq due[q]
    BY <1>1, <2>1
  <2>3. UNCHANGED <<hour, up, active, zone, midnight, checkout, reconcile, accrual,
                    served, moved, early>>
        /\ mishaps' \in 0 .. MaxMishaps
    BY <1>1, <1>5 DEF BulkFails, jobs, cronHistory
  <2>4. CronTypeOK'
    BY <2>2, <2>3 DEF CronTypeOK, Counts, Hours
  <2> QED BY <1>4, <2>2, <2>3, <2>4 DEF jobs
<1>6. ASSUME NEW p \in Nodes, Stop(p) PROVE CronInv'
  <2>1. due' = [due EXCEPT ![p] = @ \cap {"checkout"}]
    BY <1>6 DEF Stop, AtFivePast
  <2>2. due' \in [Nodes -> SUBSET {"checkout", "reconcile", "accrual"}]
        /\ \A q \in Nodes : due'[q] \subseteq due[q]
    BY <1>1, <2>1
  <2>3. UNCHANGED <<hour, active, zone, midnight, checkout, reconcile, accrual,
                    served, moved, early>>
        /\ mishaps' \in 0 .. MaxMishaps /\ up' \subseteq Nodes
    BY <1>1, <1>6 DEF Stop, Mishap, jobs, cronHistory, CronTypeOK
  <2>4. CronTypeOK'
    BY <2>2, <2>3 DEF CronTypeOK, Counts, Hours
  <2> QED BY <1>4, <2>2, <2>3, <2>4 DEF jobs
<1>7. ASSUME NEW p \in Nodes, Start(p) PROVE CronInv'
  <2>1. PICK tasks \in {due[p], {}} : due' = [due EXCEPT ![p] = tasks]
    BY <1>7 DEF Start
  <2>2. due' \in [Nodes -> SUBSET {"checkout", "reconcile", "accrual"}]
        /\ \A q \in Nodes : due'[q] \subseteq due[q]
    BY <1>1, <2>1
  <2>3. UNCHANGED <<hour, active, zone, midnight, checkout, reconcile, accrual, mishaps,
                    served, moved, early>>
        /\ up' \subseteq Nodes
    BY <1>7 DEF Start, jobs, cronHistory, CronTypeOK
  <2>4. CronTypeOK'
    BY <2>2, <2>3 DEF CronTypeOK, Counts, Hours
  <2> QED BY <1>4, <2>2, <2>3, <2>4 DEF jobs
<1>8. ASSUME NEW t \in Tenants, Suspend(t) \/ Activate(t) PROVE CronInv'
  <2>1. UNCHANGED <<hour, due, up, zone, midnight, checkout, reconcile, accrual,
                    served, moved, early>>
        /\ mishaps' \in 0 .. MaxMishaps /\ active' \subseteq Tenants
    BY <1>1, <1>8 DEF Suspend, Activate, Mishap, jobs, cronHistory, CronTypeOK
  <2>2. CronTypeOK'
    BY <2>1 DEF CronTypeOK, Counts, Hours
  <2> QED BY <1>1, <1>4, <2>1, <2>2 DEF jobs
<1>9. ASSUME NEW t \in Tenants, NEW z \in Zones, Relocate(t, z) PROVE CronInv'
  <2>1. zone' = [zone EXCEPT ![t] = z] /\ moved' = moved \cup {t}
        /\ UNCHANGED <<hour, due, up, active, midnight, checkout, reconcile, accrual,
                       served, early>>
        /\ mishaps' \in 0 .. MaxMishaps
    BY <1>1, <1>9 DEF Relocate, Mishap, jobs
  <2>2. zone' \in [Tenants -> Zones] /\ \A u \in Tenants \ moved' : zone'[u] = zone[u]
    BY <2>1 DEF CronTypeOK
  <2>3. CronTypeOK'
    BY <2>1, <2>2 DEF CronTypeOK, Counts, Hours
  <2> QED BY <1>1, <1>4, <2>1, <2>2, <2>3 DEF jobs
<1>10. CASE UNCHANGED cronVars
  <2>1. UNCHANGED <<hour, due, up, active, zone, midnight, checkout, reconcile, accrual, mishaps,
                    served, moved, early>>
    BY <1>10 DEF cronVars, jobs, cronHistory
  <2>2. CronTypeOK'
    BY <2>1 DEF CronTypeOK, Counts, Hours
  <2> QED BY <1>1, <1>4, <2>1, <2>2 DEF jobs
<1> QED BY <1>2, <1>3, <1>5, <1>6, <1>7, <1>8, <1>9, <1>10, ReconciliationStep, AccrualStep,
           NextHourInv, Zenon DEF CronNext

LEMMA CronInvariance == CronSpec => []CronInv
BY InitCronInv, NextCronInv, PTL DEF CronSpec

-----------------------------------------------------------------------------
LEMMA ZoneTyped ==
  ASSUME NEW z \in ZoneSet
  PROVE  /\ z.before \in Int /\ z.after \in Int /\ z.at \in Int
         /\ -1440 < z.before /\ z.before < 1440
         /\ -1440 < z.after /\ z.after < 1440
<1>1. Offsets = 1 - 1440 .. 1440 - 1
  BY DEF Offsets, DayMinutes
<1>2. z.before \in Offsets /\ z.after \in Offsets /\ z.at \in Int
  BY DEF ZoneSet
<1>3. \A i \in Offsets : i \in Int /\ -1440 < i /\ i < 1440
  BY <1>1
<1> QED BY <1>2, <1>3

\* A local time that the clock shows once is shown at the instant fromZonedTime
\* finds, and divides the instants: the clock showed less before, and more after.
LEMMA ShownOnce ==
  ASSUME NEW z \in ZoneSet, NEW l \in Int, Cardinality(Showing(z, l)) = 1, NEW m \in Int
  PROVE  /\ FromZoned(z, l) \in Int
         /\ m < FromZoned(z, l) <=> ToZoned(z, m) < l
         /\ m > FromZoned(z, l) <=> ToZoned(z, m) > l
<1> DEFINE u == FromZoned(z, l)
<1>1. z.before \in Int /\ z.after \in Int /\ z.at \in Int
  BY ZoneTyped
<1>2. \A i \in Int : /\ Offset(z, i) = IF i < z.at THEN z.before ELSE z.after
                     /\ Offset(z, i) \in Int
                     /\ ToZoned(z, i) = i + Offset(z, i)
  BY <1>1 DEF Offset, ToZoned
<1>3. \E x : Showing(z, l) = {x}
  <2>1. IsFiniteSet({l - z.before, l - z.after})
    <3> DEFINE one == {l - z.before}
               both == one \cup {l - z.after}
    <3>1. IsFiniteSet(one)
      BY FS_Singleton
    <3>2. IsFiniteSet(both)
      <4> HIDE DEF one
      <4> QED BY <3>1, FS_AddElement
    <3>3. both = {l - z.before, l - z.after}
      OBVIOUS
    <3> HIDE DEF both
    <3> QED BY <3>2, <3>3
  <2>2. IsFiniteSet(Showing(z, l))
    BY <2>1, FS_Subset DEF Showing
  <2> QED BY <2>2, FS_Singleton
<1>4. u \in Int /\ u \in Showing(z, l)
  <2>1. \A i \in Int : i \in Showing(z, l) <=>
          (i = l - z.before \/ i = l - z.after) /\ i + Offset(z, i) = l
    BY <1>1, <1>2 DEF Showing
  <2>2. \/ l - z.before < z.at
        \/ ~ (l - z.after < z.at)
    <3>1. \E i \in Int : i \in Showing(z, l)
      BY <1>1, <1>3 DEF Showing
    <3> QED BY <1>1, <1>2, <2>1, <3>1
  <2> DEFINE o1 == Offset(z, l)
             o2 == Offset(z, l - o1)
             o3 == Offset(z, l - o2)
  <2>3. o1 \in {z.before, z.after} /\ o2 \in {z.before, z.after} /\ o3 \in {z.before, z.after}
        /\ o1 \in Int /\ o2 \in Int /\ o3 \in Int
    BY <1>1, <1>2
  <2>4. o1 = o2 \/ o2 = o3
    BY <1>1, <1>2, <2>2, <2>3
  <2>5. u = IF o1 = o2 THEN l - o1 ELSE l - o2
    BY <2>4 DEF FromZoned
  <2>6. CASE o1 = o2
    <3>1. u = l - o1 /\ Offset(z, u) = o1
      BY <2>5, <2>6
    <3> QED BY <2>1, <2>3, <3>1
  <2>7. CASE o1 # o2
    <3>1. u = l - o2 /\ Offset(z, u) = o2
      BY <2>4, <2>5, <2>7
    <3> QED BY <2>1, <2>3, <3>1
  <2> QED BY <2>6, <2>7
<1>5. \A i \in {l - z.before, l - z.after} : ToZoned(z, i) = l => i = u
  BY <1>3, <1>4 DEF Showing
<1>6. u + Offset(z, u) = l /\ (u = l - z.before \/ u = l - z.after)
  BY <1>2, <1>4 DEF Showing
<1> HIDE DEF u
<1>7. (l - z.before < z.at => l - z.before = u) /\ (l - z.after >= z.at => l - z.after = u)
  BY <1>1, <1>2, <1>5
<1>8. (m < u => ToZoned(z, m) < l) /\ (m > u => ToZoned(z, m) > l) /\ (m = u => ToZoned(z, m) = l)
  <2>1. ToZoned(z, m) = IF m < z.at THEN m + z.before ELSE m + z.after
    BY <1>2
  <2>2. u + (IF u < z.at THEN z.before ELSE z.after) = l
    BY <1>2, <1>4, <1>6
  <2> QED BY <1>1, <1>4, <1>7, <2>1, <2>2
<1>9. ToZoned(z, m) \in Int
  BY <1>2
<1> QED BY <1>4, <1>8, <1>9 DEF u

\* A clock differs from UTC by less than a day.
LEMMA WithinADay ==
  ASSUME NEW z \in ZoneSet, NEW l \in Int
  PROVE  FromZoned(z, l) \in Int /\ l - 1440 < FromZoned(z, l) /\ FromZoned(z, l) < l + 1440
<1>1. \A i : Offset(z, i) \in {z.before, z.after}
  BY DEF Offset
<1>2. FromZoned(z, l) = l - z.before \/ FromZoned(z, l) = l - z.after
  <2> DEFINE o1 == Offset(z, l)
             o2 == Offset(z, l - o1)
             o3 == Offset(z, l - o2)
  <2>1. FromZoned(z, l) = IF o1 = o2 THEN l - o1
                          ELSE IF o2 = o3 THEN l - o2
                          ELSE l - (IF o2 > o3 THEN o2 ELSE o3)
    BY DEF FromZoned
  <2>2. o1 \in {z.before, z.after} /\ o2 \in {z.before, z.after} /\ o3 \in {z.before, z.after}
    BY <1>1
  <2> HIDE DEF o1, o2, o3
  <2> QED BY <2>1, <2>2
<1> QED BY <1>2, ZoneTyped

\* fromZonedTime answers an instant at which the clock shows the local time,
\* whenever there is one: guessing and correcting twice is enough.
THEOREM FromZonedIsShown ==
  ASSUME NEW z \in ZoneSet, NEW l \in Int, Showing(z, l) # {}
  PROVE  FromZoned(z, l) \in Showing(z, l)
<1> DEFINE o1 == Offset(z, l)
           o2 == Offset(z, l - o1)
           o3 == Offset(z, l - o2)
<1>1. z.before \in Int /\ z.after \in Int
  BY ZoneTyped
<1>2. \A i : Offset(z, i) \in {z.before, z.after}
  BY DEF Offset
<1>3. \A o \in {z.before, z.after} : Offset(z, l - o) = o => l - o \in Showing(z, l)
  BY <1>1 DEF Showing, ToZoned
<1>4. \E o \in {z.before, z.after} : Offset(z, l - o) = o
  BY <1>1 DEF Showing, ToZoned, Offset
<1>5. FromZoned(z, l) = IF o1 = o2 THEN l - o1
                        ELSE IF o2 = o3 THEN l - o2
                        ELSE l - (IF o2 > o3 THEN o2 ELSE o3)
  BY DEF FromZoned
<1>6. /\ o1 \in {z.before, z.after} /\ o2 \in {z.before, z.after} /\ o3 \in {z.before, z.after}
      /\ o2 = Offset(z, l - o1) /\ o3 = Offset(z, l - o2)
  BY <1>2
<1> HIDE DEF o1, o2, o3
<1>7. o1 = o2 \/ o2 = o3
  BY <1>4, <1>6
<1> QED BY <1>3, <1>5, <1>6, <1>7

\* For any month, zone and instant: getPayrollPeriodUtcBounds of the days
\* first .. last holds an instant exactly if determineWorkDate gives it one of
\* those days, where the clock shows the first and the last minute once.
THEOREM PeriodHoldsItsDays ==
  ASSUME NEW z \in ZoneSet, NEW first \in Int, NEW last \in Int, NEW m \in Int,
         Cardinality(Showing(z, first * DayMinutes)) = 1,
         Cardinality(Showing(z, last * DayMinutes + DayMinutes - 1)) = 1
  PROVE  InPeriod(z, first, last, m) <=> WorkDate(z, m) \in first .. last
<1> DEFINE s == first * 1440
           e == last * 1440 + 1440 - 1
           local == ToZoned(z, m)
<1>1. s \in Int /\ e \in Int
  OBVIOUS
<1>2. local \in Int
  BY ZoneTyped DEF ToZoned, Offset
<1>3. Cardinality(Showing(z, s)) = 1 /\ Cardinality(Showing(z, e)) = 1
  BY DEF DayMinutes
<1>4. /\ PeriodStart(z, first) = FromZoned(z, s) /\ PeriodEnd(z, last) = FromZoned(z, e)
      /\ WorkDate(z, m) = local \div 1440
  BY DEF PeriodStart, PeriodEnd, WorkDate, DayMinutes
<1> HIDE DEF s, e, local
<1>5. /\ FromZoned(z, s) \in Int /\ FromZoned(z, e) \in Int
      /\ m < FromZoned(z, s) <=> local < s
      /\ m > FromZoned(z, e) <=> local > e
  BY <1>1, <1>3, ShownOnce DEF local
<1>6. InPeriod(z, first, last, m) <=> s <= local /\ local <= e
  BY <1>1, <1>2, <1>4, <1>5 DEF InPeriod
<1>7. s <= local /\ local <= e <=> local \div 1440 \in first .. last
  <2> USE DEF s, e
  <2>1. s <= local <=> first <= local \div 1440
    BY <1>2
  <2>2. local <= e <=> local \div 1440 <= last
    BY <1>2
  <2>3. local \div 1440 \in Int
    BY <1>2
  <2> HIDE DEF s, e
  <2> QED BY <2>1, <2>2, <2>3
<1> QED BY <1>4, <1>6, <1>7

\* The same of the two months of a run, the first and last of which the run cuts off.
LEMMA PeriodOfInstant ==
  ASSUME CronTypeOK, NEW z \in Zones, MonthTurnsOnce(z)
  PROVE  \A m \in Months : InPeriod(z, FirstDay[m], FinalDay[m], Now) <=> MonthOf(WorkDate(z, Now)) = m
<1> DEFINE turn == FirstOfMonth * 1440
           local == ToZoned(z, Now)
<1>1. /\ z \in ZoneSet /\ hour \in Int /\ 0 <= hour /\ hour < (LastDay + 1) * 24
      /\ LastDay \in Nat /\ FirstOfMonth \in 1 .. LastDay
  BY HoursTyped
<1>2. Now \in Int /\ Now = hour * 60 + 5 /\ turn \in Int
  BY <1>1 DEF Now
<1>3. local \in Int
  BY <1>1, <1>2, ZoneTyped DEF ToZoned, Offset
<1>4. Cardinality(Showing(z, turn - 1)) = 1 /\ Cardinality(Showing(z, turn)) = 1
  BY <1>1 DEF MonthTurnsOnce, DayMinutes
<1>5. /\ FromZoned(z, turn) \in Int /\ FromZoned(z, turn - 1) \in Int
      /\ Now < FromZoned(z, turn) <=> local < turn
      /\ Now > FromZoned(z, turn - 1) <=> local > turn - 1
  BY <1>1, <1>2, <1>4, ShownOnce
<1>6. PeriodStart(z, -1) \in Int /\ PeriodStart(z, -1) < Now
  <2> DEFINE start == (-1) * 1440
  <2>1. start \in Int
    OBVIOUS
  <2>2. FromZoned(z, start) \in Int /\ FromZoned(z, start) < start + 1440
    BY <1>1, <2>1, WithinADay
  <2> QED BY <1>1, <1>2, <2>1, <2>2 DEF PeriodStart, DayMinutes
<1>7. PeriodEnd(z, LastDay + 1) \in Int /\ Now < PeriodEnd(z, LastDay + 1)
  <2> DEFINE end == (LastDay + 1) * 1440 + 1440 - 1
  <2>1. end \in Int
    BY <1>1
  <2>2. FromZoned(z, end) \in Int /\ end - 1440 < FromZoned(z, end)
    BY <1>1, <2>1, WithinADay
  <2> QED BY <1>1, <1>2, <2>1, <2>2 DEF PeriodEnd, DayMinutes
<1>8. PeriodStart(z, FirstOfMonth) = FromZoned(z, turn)
  BY DEF PeriodStart, DayMinutes
<1>9. PeriodEnd(z, FirstOfMonth - 1) = FromZoned(z, turn - 1)
  <2>1. (FirstOfMonth - 1) * 1440 + 1440 - 1 = turn - 1
    BY <1>1
  <2> QED BY <2>1 DEF PeriodEnd, DayMinutes
<1>10. MonthOf(WorkDate(z, Now)) = IF local < turn THEN 1 ELSE 2
  <2>1. local \div 1440 < FirstOfMonth <=> local < turn
    BY <1>1, <1>3
  <2> QED BY <2>1 DEF MonthOf, WorkDate, DayMinutes
<1>11. InPeriod(z, FirstDay[1], FinalDay[1], Now) <=> local < turn
  <2>1. FirstDay[1] = -1 /\ FinalDay[1] = FirstOfMonth - 1
    BY DEF FirstDay, FinalDay, Months
  <2> QED BY <1>2, <1>3, <1>5, <1>6, <1>9, <2>1 DEF InPeriod
<1>12. InPeriod(z, FirstDay[2], FinalDay[2], Now) <=> ~ (local < turn)
  <2>1. FirstDay[2] = FirstOfMonth /\ FinalDay[2] = LastDay + 1
    BY DEF FirstDay, FinalDay, Months
  <2> QED BY <1>2, <1>3, <1>5, <1>7, <1>8, <2>1 DEF InPeriod
<1> QED BY <1>10, <1>11, <1>12 DEF Months

-----------------------------------------------------------------------------
\* The variables of the cron tasks keep their types: no job is counted for a day
\* or a month outside the run.
THEOREM CronTypeCorrect == CronSpec => []CronTypeOK
<1>1. CronInv => CronTypeOK
  BY DEF CronInv
<1> QED BY <1>1, CronInvariance, PTL

\* scheduleAutoCheckout checks a day out when it is over where the tenant is, in
\* whatever zone, and never at another time.
THEOREM CheckedOutAtMidnight == CronSpec => []CheckedOutWhenOver
<1>1. CronInv => CheckedOutWhenOver
  BY DEF CronInv
<1> QED BY <1>1, CronInvariance, PTL

\* triggerDailyReconciliation comes before the check-out of a day only where the
\* day is not over at two in UTC, or its check-out was missed.
THEOREM EarlyOnlyIfNotOver == CronSpec => []ReconciledAfterCheckout
<1>1. CronInv => ReconciledAfterCheckout
  BY DEF CronInv
<1> QED BY <1>1, CronInvariance, PTL

\* A pod adds no job twice, whatever it misses and whenever it starts: the jobs,
\* which have no id, are added again only by other pods.
THEOREM OncePerPod == CronSpec => []EnqueuedOncePerPod
<1>1. CronInv => EnqueuedOncePerPod
  <2> SUFFICES ASSUME CronInv, NEW p \in Nodes, NEW t \in Tenants
               PROVE  /\ \A d \in Days : reconcile[p][t][d] <= 1
                      /\ \A m \in Months : accrual[p][t][m] <= 1
                      /\ t \notin moved => \A d \in Days :
                           checkout[p][t][d] <= Cardinality(Midnights[zone[t]][d])
    BY DEF EnqueuedOncePerPod
  <2>1. CountedOnce(p, t)
    BY DEF CronInv
  <2>2. ASSUME t \notin moved, NEW d \in Days
        PROVE  checkout[p][t][d] <= Cardinality(Midnights[zone[t]][d])
    <3>1. checkout[p][t][d] \in Nat /\ zone[t] \in Zones
      BY DEF CronInv, CronTypeOK, Counts
    <3>2. checkout[p][t][d] <= Cardinality(PassedMidnights(p, t, d))
      BY <2>1, <2>2 DEF CountedOnce
    <3>3. IsFiniteSet(Midnights[zone[t]][d])
      BY <3>1, MidnightsFinite
    <3>4. PassedMidnights(p, t, d) \subseteq Midnights[zone[t]][d]
      BY DEF PassedMidnights
    <3>5. /\ Cardinality(PassedMidnights(p, t, d)) <= Cardinality(Midnights[zone[t]][d])
          /\ Cardinality(PassedMidnights(p, t, d)) \in Nat
          /\ Cardinality(Midnights[zone[t]][d]) \in Nat
      BY <3>3, <3>4, FS_Subset, FS_CardinalityType
    <3> QED BY <3>1, <3>2, <3>5
  <2> QED BY <2>1, <2>2 DEF CountedOnce
<1> QED BY <1>1, CronInvariance, PTL

\* determineWorkDate and getPayrollPeriodUtcBounds put an instant into the same
\* month, in every zone whose clock is not changed while the month turns.
THEOREM SameMonth == CronSpec => []WorkDateInItsPeriod
<1>1. CronInv => WorkDateInItsPeriod
  <2> SUFFICES ASSUME CronInv, NEW z \in Zones, MonthTurnsOnce(z)
               PROVE  \A m \in Months :
                        InPeriod(z, FirstDay[m], FinalDay[m], Now) <=> MonthOf(WorkDate(z, Now)) = m
    BY DEF WorkDateInItsPeriod
  <2> QED BY PeriodOfInstant DEF CronInv
<1> QED BY <1>1, CronInvariance, PTL
=============================================================================
