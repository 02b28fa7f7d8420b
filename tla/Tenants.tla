------------------------------ MODULE Tenants ------------------------------
(***************************************************************************)
(* One tenant: its row under TenantService and TenantSettingsService, and  *)
(* the copies of the row that TenantFacade caches in every pod.  A status  *)
(* is changed, and settings are merged, from a row read by an earlier      *)
(* query; no operation opens a transaction.  Of the columns the names and  *)
(* the numbers are left out (the number of employees follows the plan in   *)
(* the same UPDATE, and nothing reads it), and of the settings all but the *)
(* feature flags, which deepMerge treats like every other nested key.      *)
(***************************************************************************)
EXTENDS Naturals

CONSTANTS
  Callers,   \* the requests that may be in flight at a time
  Pods,      \* the processes, each with a cache
  Flags,     \* the feature flags that occur in settings
  None,      \* no plan, no pod, no event, no section in a request
  Null,      \* the section is null in a request
  TTL,       \* CACHE_TTL_MS, in steps of the clock
  MaxTime,   \* bound: steps of the clock
  MaxWrites  \* bound: requests that were admitted

-----------------------------------------------------------------------------
(* Plans and their features, and the lifecycle. *)

FreeFeatures == {"gpsTracking", "leaveManagement"}

ProFeatures ==
  {"gpsTracking", "geofencing", "overtime", "leaveManagement", "payroll",
   "customPolicies", "apiAccess", "auditExport"}

EnterpriseFeatures == ProFeatures \cup {"webhooks", "multiCurrency"}

Plans == {"free", "pro", "enterprise"}

Features ==
  [free |-> FreeFeatures, pro |-> ProFeatures, enterprise |-> EnterpriseFeatures]

Statuses == {"pending", "active", "suspended", "terminated"}

\* A plausible slip: a terminated tenant can return.
TransitionsBack ==
  [pending |-> {"active", "terminated"}, active |-> {"suspended", "terminated"},
   suspended |-> {"active", "terminated"}, terminated |-> {"active"}]

Transitions ==
  [pending |-> {"active", "terminated"}, active |-> {"suspended", "terminated"},
   suspended |-> {"active", "terminated"}, terminated |-> {}]

ASSUME TenantsAssumption ==
  /\ TTL \in Nat /\ MaxTime \in Nat /\ MaxWrites \in Nat
  /\ None \notin Pods \cup Plans \cup Statuses

-----------------------------------------------------------------------------
VARIABLES
  status,     \* tenants.status
  plan,       \* tenants.plan_type
  settings,   \* tenants.settings.features: on, off or unset
  cache,      \* cache[p]: the status pod p remembers, and until when
  clock,      \* the time
  task,       \* task[c]: the request in flight
  admitted,   \* the requests so far, for the bound
  told,       \* history: the last event about the status
  wanted,     \* history: the value last written on purpose to a flag
  leftAt,     \* history: when the status last ceased to be active
  ended,      \* history: the tenant was terminated once
  raced,      \* history: a status was written that was validated on an old one
  crossed,    \* history: an event was published after a later change, or never
  lost,       \* history: flags changed by a request that did not name them
  late        \* history: pods whose cached row was read at an earlier time

row == <<status, plan, settings>>
history == <<told, wanted, leftAt, ended, raced, crossed, lost, late>>
vars == <<row, cache, clock, task, admitted, history>>

Values == {"on", "off", "unset"}

\* UpdateTenantSettingsDto.features: null, not sent, or some flags, each of which
\* may be null as well, and so unset again.
Sections == UNION {[S -> Values] : S \in SUBSET Flags}
Changes == Sections \cup {None, Null}

\* The flags a request names, and the values it gives them.
Named(change) == CASE change = None -> {} [] change = Null -> Flags [] OTHER -> DOMAIN change
Given(change) ==
  [f \in Flags |-> IF change # Null /\ f \in Named(change) THEN change[f] ELSE "unset"]

Steps == {"idle", "status", "announce", "merge", "store"}
Task == [pc : Steps, seen : Statuses, to : Statuses, copy : [Flags -> Values],
         change : Changes, pod : Pods \cup {None}, at : Nat, outdated : BOOLEAN]

Unset == [f \in Flags |-> "unset"]
Idle == [pc |-> "idle", seen |-> "active", to |-> "active", copy |-> Unset,
         change |-> None, pod |-> None, at |-> 0, outdated |-> FALSE]

\* createTenant, without flags of its own: the section is empty by default.
Init ==
  /\ status = "active"
  /\ plan \in Plans
  /\ settings = Unset
  /\ cache = [p \in Pods |-> [status |-> "active", expires |-> 0]]
  /\ clock = 0
  /\ task = [c \in Callers |-> Idle]
  /\ admitted = 0
  /\ told = None
  /\ wanted = settings
  /\ leftAt = 0
  /\ ended = FALSE /\ raced = FALSE /\ crossed = FALSE
  /\ lost = {} /\ late = {}

-----------------------------------------------------------------------------
(* Plausible slips, for the properties to catch.  No action uses them. *)

\* A row is still returned at the moment it expires.
FreshAtEnd(p) == cache[p].expires >= clock

\* A shallow merge: the section of the request replaces the section of the row.
DeepMergeShallow(copy, change) == Given(change)

\* Only suspensions are published.
PublishesStart(seen, to) == to = "suspended"

-----------------------------------------------------------------------------
(***************************************************************************)
(* Where a request starts.  The copy it reads is out of date as soon as    *)
(* another request writes what it has read.                                *)
(***************************************************************************)
Begin(c, t) ==
  /\ task[c] = Idle
  /\ admitted < MaxWrites
  /\ admitted' = admitted + 1
  /\ task' = [task EXCEPT ![c] = t]
  /\ UNCHANGED <<row, cache, clock, history>>

\* updateTenantStatus: the transition is validated on the row.
UpdateTenantStatus(c, s) ==
  /\ s \in Transitions[status]
  /\ Begin(c, [Idle EXCEPT !.pc = "status", !.seen = status, !.to = s])

\* updateSettings: TenantResolverMiddleware admits an active tenant only; the
\* repository reads the row.
UpdateSettings(c, change) ==
  /\ status = "active"
  /\ Begin(c, [Idle EXCEPT !.pc = "merge", !.copy = settings, !.change = change])

\* updateTenant, of the plan: the row is only looked for, so that the read and
\* the UPDATE are one step.
UpdateTenant(c, p) ==
  /\ task[c] = Idle
  /\ admitted < MaxWrites
  /\ admitted' = admitted + 1
  /\ plan' = p
  /\ UNCHANGED <<status, settings, cache, clock, task, history>>

\* getTenantById of the facade: a cached row that has not expired is returned.
Fresh(p) == cache[p].expires > clock

\* Otherwise the row is read.
Lookup(c, p) ==
  /\ task[c] = Idle
  /\ ~ Fresh(p)
  /\ task' = [task EXCEPT ![c] = [Idle EXCEPT !.pc = "store", !.seen = status, !.pod = p,
                                              !.at = clock]]
  /\ UNCHANGED <<row, cache, clock, admitted, history>>

\* getSettings: the flag of the tenant, or else that of the plan.
Enabled(f) ==
  IF settings[f] = "unset" THEN f \in Features[plan] ELSE settings[f] = "on"

-----------------------------------------------------------------------------
(* The writes. *)

\* A section of the request that is no object replaces the one of the row: null
\* leaves no flag set.  Nor does a section that was not sent: the target of the
\* compiler is ES2023, for which a declared field of the DTO is a property of the
\* instance, undefined unless it was sent, and Object.keys lists it.
DeepMerge(copy, change) ==
  IF change \in {None, Null} THEN Unset
  ELSE [f \in Flags |-> IF f \in DOMAIN change THEN change[f] ELSE copy[f]]

\* The requests whose copy is out of date after c has written.
Outdate(c, pcs, then) ==
  [d \in Callers |-> IF d = c THEN then
                     ELSE IF task[d].pc \in pcs THEN [task[d] EXCEPT !.outdated = TRUE]
                     ELSE task[d]]

\* A suspension is published, and the end of one.
Publishes(seen, to) ==
  \/ to = "suspended"
  \/ to = "active" /\ seen = "suspended"

\* The UPDATE is conditional on the id alone.
WriteStatus(c) ==
  LET t == task[c]
  IN  /\ t.pc = "status"
      /\ status' = t.to
      /\ task' = Outdate(c, {"status", "announce"},
                         IF Publishes(t.seen, t.to)
                         THEN [t EXCEPT !.pc = "announce", !.outdated = FALSE] ELSE Idle)
      /\ leftAt' = IF status = "active" /\ t.to # "active" THEN clock ELSE leftAt
      /\ ended' = (ended \/ t.to = "terminated")
      /\ raced' = (raced \/ t.outdated)
      /\ UNCHANGED <<plan, settings, cache, clock, admitted, told, wanted,
                     crossed, lost, late>>

\* TenantSuspendedEvent or TenantActivatedEvent goes to the outbox.
Announce(c) ==
  /\ task[c].pc = "announce"
  /\ told' = task[c].to
  /\ crossed' = (crossed \/ task[c].outdated)
  /\ task' = [task EXCEPT ![c] = Idle]
  /\ UNCHANGED <<row, cache, clock, admitted, wanted, leftAt, ended, raced, lost, late>>

\* The whole settings are written back.  A flag is lost if the request did not name
\* it and yet changes it, with an older copy or because it names none at all.
WriteSettings(c) ==
  LET t == task[c]
      named == Named(t.change)
      undone == {f \in Flags \ named : DeepMerge(t.copy, t.change)[f] # settings[f]}
  IN  /\ t.pc = "merge"
      /\ settings' = DeepMerge(t.copy, t.change)
      /\ wanted' = [f \in Flags |-> IF f \in named THEN Given(t.change)[f] ELSE wanted[f]]
      /\ lost' = (lost \ named) \cup
                    (IF t.outdated \/ t.change = None THEN undone ELSE {})
      /\ task' = Outdate(c, {"merge"}, Idle)
      /\ UNCHANGED <<status, plan, cache, clock, admitted, told, leftAt, ended,
                     raced, crossed, late>>

\* The row goes into the cache, for TTL from now.
Store(c) ==
  LET t == task[c]
  IN  /\ t.pc = "store"
      /\ cache' = [cache EXCEPT ![t.pod] = [status |-> t.seen, expires |-> clock + TTL]]
      /\ late' = IF t.at < clock THEN late \cup {t.pod} ELSE late \ {t.pod}
      /\ task' = [task EXCEPT ![c] = Idle]
      /\ UNCHANGED <<row, clock, admitted, told, wanted, leftAt, ended, raced, crossed,
                     lost>>

\* The process of the request dies; a status may be left without its event.
Dies(c) ==
  /\ task[c] # Idle
  /\ task' = [task EXCEPT ![c] = Idle]
  /\ crossed' = (crossed \/ task[c].pc = "announce")
  /\ UNCHANGED <<row, cache, clock, admitted, told, wanted, leftAt, ended, raced, lost,
                 late>>

Tick ==
  /\ clock < MaxTime
  /\ clock' = clock + 1
  /\ UNCHANGED <<row, cache, task, admitted, history>>

-----------------------------------------------------------------------------
Request(c) ==
  \/ \E s \in Statuses : UpdateTenantStatus(c, s)
  \/ \E change \in Changes : UpdateSettings(c, change)
  \/ \E p \in Plans : UpdateTenant(c, p)
  \/ \E p \in Pods : Lookup(c, p)

Write(c) == WriteStatus(c) \/ Announce(c) \/ WriteSettings(c) \/ Store(c)

Next ==
  \/ \E c \in Callers : Request(c) \/ Write(c) \/ Dies(c)
  \/ Tick

Spec == Init /\ [][Next]_vars

-----------------------------------------------------------------------------
TypeOK ==
  /\ status \in Statuses
  /\ plan \in Plans
  /\ settings \in [Flags -> Values]
  /\ cache \in [Pods -> [status : Statuses, expires : Nat]]
  /\ clock \in Nat
  /\ task \in [Callers -> Task]
  /\ admitted \in Nat
  /\ told \in {"suspended", "active", None}
  /\ wanted \in [Flags -> Values]
  /\ leftAt \in 0 .. clock
  /\ ended \in BOOLEAN /\ raced \in BOOLEAN /\ crossed \in BOOLEAN
  /\ lost \subseteq Flags /\ late \subseteq Pods

\* "Terminal state - no transitions allowed" (tenant-status.constants.ts:35):
\* a terminated tenant stays so, unless a change that was validated on an older
\* status overtook it.
TerminatedUnlessRaced == ended => status = "terminated" \/ raced

\* Once no event is pending, the last one tells listeners whether the tenant is
\* suspended, unless changes overlapped or the process died before publishing.
EventsTellStatus ==
  \/ \E c \in Callers : task[c].pc = "announce"
  \/ raced \/ crossed
  \/ /\ status = "suspended" => told = "suspended"
     /\ status = "active" => told # "suspended"

\* A feature is what was last asked for it, or what the plan of the day says, unless
\* a request that did not name it changed it: with an older copy of the settings,
\* or because it had no section of features.
FeatureAsAsked ==
  \A f \in Flags : f \in lost \/ (Enabled(f) <=>
    wanted[f] = "on" \/ (wanted[f] = "unset" /\ f \in Features[plan]))

\* "Existing keys not in the payload are preserved" (tenant-settings.service.ts:46):
\* of the flags, a request whose copy is the row as it stands changes those that it
\* names.
KeysPreserved ==
  [][\A c \in Callers : WriteSettings(c) /\ ~ task[c].outdated =>
       \A f \in Flags \ Named(task[c].change) : settings'[f] = settings[f]]_vars

\* Every pod stops reporting a tenant active TTL after it ceased to be, unless
\* the row it cached had been read before the time it was cached at.
SuspensionIsSeen ==
  \A p \in Pods : Fresh(p) /\ cache[p].status = "active" /\ status # "active" =>
    clock < leftAt + TTL \/ p \in late

=============================================================================
