------------------------------- MODULE Outbox -------------------------------
(***************************************************************************)
(* The event outbox: the event_outbox and outbox_processed_events tables,  *)
(* the publishers that insert rows, the dispatcher of every pod, the       *)
(* handler guarded by IdempotencyService, and the hourly cleanup.          *)
(*                                                                         *)
(* Every SQL statement is one step.  A step of a pod that stands for an    *)
(* await may interleave with the steps of every other pod, and a pod may   *)
(* crash between any two of them.  Time is abstracted into three facts     *)
(* about a row: "due" (next_retry_at has passed), "stale"                  *)
(* (processing_started_at is older than STUCK_TIMEOUT_MS), and old enough  *)
(* for the cleanup, which may come at any time once the status allows it:  *)
(* a dead letter is deleted by the age of its event, not of its last       *)
(* attempt, so that a pod that lost its claim may still be working on it.  *)
(***************************************************************************)
EXTENDS Naturals, FiniteSets

CONSTANTS
  Events,      \* the domain events published in a run
  Handled,     \* those whose type has a registered handler
  Pods,        \* the instances of the application
  NoEvent,     \* the value of cur[p] when p is between two events
  MaxRetries,  \* event_outbox.max_retries (5 in the code)
  BatchSize,   \* BATCH_SIZE (50 in the code)
  MaxFaults,   \* bound: crashes and failed database calls in a run
  MaxOverruns  \* bound: claims that expire while their pod still works

ASSUME ConstantsAssumption ==
  /\ IsFiniteSet(Events)
  /\ Handled \subseteq Events
  /\ NoEvent \notin Events
  /\ MaxRetries \in Nat \ {0}
  /\ BatchSize \in Nat \ {0}
  /\ MaxFaults \in Nat
  /\ MaxOverruns \in Nat

VARIABLES
  biz,        \* biz[e]: the business operation that publishes e
  row,        \* row[e]: the event_outbox row of e
  createdAt,  \* createdAt[e]: the place of e in created_at order, 0 before
  marked,     \* the events in outbox_processed_events
  phase,      \* phase[p]: where processOutbox of pod p is
  held,       \* held[p]: the events of p's batch it has not finished
  snap,       \* snap[p][e]: the retryCount that RETURNING * gave p for e
  cur,        \* cur[p]: the event processEvent works on
  runs,       \* history: times the handler ran on e to its end
  fails,      \* history: failed attempts to process e
  reclaimed,  \* history: events a pod put back from processing to pending
  unguarded,  \* history: events whose idempotency check or record failed, or
              \*          whose record was deleted before their row was final
  faults,     \* faults so far
  overruns    \* overruns so far

rowVars == <<row, createdAt>>
podVars == <<phase, held, snap, cur>>
history == <<runs, fails, reclaimed, unguarded>>
budgets == <<faults, overruns>>
vars == <<biz, rowVars, marked, podVars, history, budgets>>

-----------------------------------------------------------------------------
Absent == "absent"      \* no row was written
Purged == "purged"      \* the row was deleted by the cleanup
Final  == {"processed", "dead_letter"}
Status == {Absent, "pending", "processing", "failed", Purged} \cup Final
Phases == {"idle", "fetch", "loop", "handle", "mark", "ack", "fail"}

Row == [status : Status, retryCount : Nat, due : BOOLEAN, stale : BOOLEAN]

Holders(e) == {p \in Pods : e \in held[p]}
HasRow(e) == row[e].status \notin {Absent, Purged}

Init ==
  /\ biz = [e \in Events |-> "none"]
  /\ row = [e \in Events |->
              [status |-> Absent, retryCount |-> 0, due |-> FALSE, stale |-> FALSE]]
  /\ createdAt = [e \in Events |-> 0]
  /\ marked = {}
  /\ phase = [p \in Pods |-> "idle"]
  /\ held = [p \in Pods |-> {}]
  /\ snap = [p \in Pods |-> [e \in Events |-> 0]]
  /\ cur = [p \in Pods |-> NoEvent]
  /\ runs = [e \in Events |-> 0]
  /\ fails = [e \in Events |-> 0]
  /\ reclaimed = {}
  /\ unguarded = {}
  /\ faults = 0
  /\ overruns = 0

\* A crash or a failed database call: at most MaxFaults in a run.
Fault ==
  /\ faults < MaxFaults
  /\ faults' = faults + 1
  /\ UNCHANGED overruns

-----------------------------------------------------------------------------
(***************************************************************************)
(* Plausible slips in the code below, one for each property to catch.  No  *)
(* action uses them.                                                       *)
(***************************************************************************)

\* The onboarding handler catches its error instead of rethrowing it.
HandlerSwallows(p) ==
  /\ phase[p] = "handle"
  /\ phase' = [phase EXCEPT ![p] = "ack"]
  /\ UNCHANGED <<biz, rowVars, marked, held, snap, cur, history, budgets>>

\* The cleanup looks at the age of a row only.
PurgeableAnyStatus == {e \in Events : HasRow(e)}

\* The claim forgets that a processing row belongs to somebody.
FetchableProcessingToo ==
  {e \in Events : row[e].status \in {"pending", "processing"}}

\* The claim takes up dead letters again.
FetchableDeadToo ==
  {e \in Events : row[e].status \in {"pending", "failed", "dead_letter"}}

\* The claim never looks at failed rows.
FetchablePendingOnly == {e \in Events : row[e].status = "pending"}

\* The handler does not ask isAlreadyProcessed.
ProcessWithoutCheck(p, e) ==
  /\ phase[p] = "loop"
  /\ e \in held[p]
  /\ cur' = [cur EXCEPT ![p] = e]
  /\ phase' = [phase EXCEPT ![p] = IF e \in Handled THEN "handle" ELSE "ack"]
  /\ UNCHANGED <<biz, rowVars, marked, held, snap, history, budgets>>

\* The dispatcher never calls reclaimStuckEvents.
StuckNever == {}

-----------------------------------------------------------------------------
(***************************************************************************)
(* Publishing.  No caller passes a transaction client to emitAsync: the    *)
(* business rows are committed first, the event row is another statement.  *)
(***************************************************************************)
BusinessCommit(e) ==
  /\ biz[e] = "none"
  /\ biz' = [biz EXCEPT ![e] = "committed"]
  /\ UNCHANGED <<rowVars, marked, podVars, history, budgets>>

\* emitAsync -> writeEvent: the insert, with the column defaults.
EmitAsync(e) ==
  /\ biz[e] = "committed"
  /\ biz' = [biz EXCEPT ![e] = "emitted"]
  /\ row' = [row EXCEPT ![e].status = "pending"]
  /\ createdAt' = [createdAt EXCEPT ![e] =
                     1 + Cardinality({f \in Events : createdAt[f] > 0})]
  /\ UNCHANGED <<marked, podVars, history, budgets>>

\* The insert fails and emitAsync rethrows, or the pod dies before it.
EmitLost(e) ==
  /\ biz[e] = "committed"
  /\ Fault
  /\ biz' = [biz EXCEPT ![e] = "lost"]
  /\ UNCHANGED <<rowVars, marked, podVars, history>>

-----------------------------------------------------------------------------
(***************************************************************************)
(* One round of processOutbox on pod p.                                    *)
(***************************************************************************)
Stuck == {e \in Events : row[e].status = "processing" /\ row[e].stale}

\* The row reclaimStuckEvents leaves: retryCount is not touched.
Reclaimed(r) == [r EXCEPT !.status = "pending", !.stale = FALSE]

\* The poll timer fires; isRunning keeps a pod to one round at a time.
Poll(p) ==
  /\ phase[p] = "idle"
  /\ phase' = [phase EXCEPT ![p] = "fetch"]
  /\ row' = [e \in Events |-> IF e \in Stuck THEN Reclaimed(row[e]) ELSE row[e]]
  /\ reclaimed' = reclaimed \cup Stuck
  /\ UNCHANGED <<biz, createdAt, marked, held, snap, cur, runs, fails, unguarded, budgets>>

Fetchable ==
  {e \in Events : \/ row[e].status = "pending"
                  \/ row[e].status = "failed" /\ row[e].due}

\* ORDER BY created_at LIMIT BatchSize.
NextBatch ==
  {e \in Fetchable :
     Cardinality({f \in Fetchable : createdAt[f] < createdAt[e]}) < BatchSize}

\* The row after the claim: processing_started_at is NOW().
Claimed(r) == [r EXCEPT !.status = "processing", !.stale = FALSE]
ClaimRows(S) == [e \in Events |-> IF e \in S THEN Claimed(row[e]) ELSE row[e]]

\* fetchAndLockPendingEvents finds rows: the batch is p's, in any order.
Fetch(p) ==
  /\ phase[p] = "fetch"
  /\ NextBatch # {}
  /\ row' = ClaimRows(NextBatch)
  /\ held' = [held EXCEPT ![p] = NextBatch]
  /\ snap' = [snap EXCEPT ![p] =
                [e \in Events |-> IF e \in NextBatch THEN row[e].retryCount ELSE 0]]
  /\ phase' = [phase EXCEPT ![p] = "loop"]
  /\ UNCHANGED <<biz, createdAt, marked, cur, history, budgets>>

FetchNothing(p) ==
  /\ phase[p] = "fetch"
  /\ NextBatch = {}
  /\ phase' = [phase EXCEPT ![p] = "idle"]
  /\ UNCHANGED <<biz, rowVars, marked, held, snap, cur, history, budgets>>

\* The claim throws: rolled back, or committed with the answer lost.
FetchFails(p) ==
  /\ phase[p] = "fetch"
  /\ Fault
  /\ row' \in {row, ClaimRows(NextBatch)}
  /\ phase' = [phase EXCEPT ![p] = "idle"]
  /\ UNCHANGED <<biz, createdAt, marked, held, snap, cur, history>>

-----------------------------------------------------------------------------
(***************************************************************************)
(* processEvent on pod p, through publishFromOutbox, to the handler.       *)
(***************************************************************************)

\* The for loop picks the next event and publishFromOutbox emits it.  With no
\* listener it returns; the handler returns when isAlreadyProcessed says so.
ProcessEvent(p, e) ==
  /\ phase[p] = "loop"
  /\ e \in held[p]
  /\ cur' = [cur EXCEPT ![p] = e]
  /\ phase' = [phase EXCEPT ![p] =
                 IF e \in Handled \ marked THEN "handle" ELSE "ack"]
  /\ UNCHANGED <<biz, rowVars, marked, held, snap, history, budgets>>

\* isAlreadyProcessed cannot read its table: it answers false.
ProcessUnchecked(p, e) ==
  /\ phase[p] = "loop"
  /\ e \in held[p] \cap Handled
  /\ Fault
  /\ cur' = [cur EXCEPT ![p] = e]
  /\ phase' = [phase EXCEPT ![p] = "handle"]
  /\ unguarded' = unguarded \cup {e}
  /\ UNCHANGED <<biz, rowVars, marked, held, snap, runs, fails, reclaimed>>

\* The handler's own work, done to its end.
HandlerRuns(p) ==
  /\ phase[p] = "handle"
  /\ runs' = [runs EXCEPT ![cur[p]] = @ + 1]
  /\ phase' = [phase EXCEPT ![p] = "mark"]
  /\ UNCHANGED <<biz, rowVars, marked, held, snap, cur, fails, reclaimed, unguarded, budgets>>

\* The attempt at cur[p] failed: the catch of processEvent takes over.
ToCatch(p) ==
  /\ fails' = [fails EXCEPT ![cur[p]] = @ + 1]
  /\ phase' = [phase EXCEPT ![p] = "fail"]
  /\ UNCHANGED <<biz, rowVars, marked, held, snap, cur, runs, reclaimed, unguarded>>

HandlerThrows(p) ==
  /\ phase[p] = "handle"
  /\ ToCatch(p)
  /\ UNCHANGED budgets

\* markAsProcessed, ON CONFLICT DO NOTHING.
MarkAsProcessed(p) ==
  /\ phase[p] = "mark"
  /\ marked' = marked \cup {cur[p]}
  /\ phase' = [phase EXCEPT ![p] = "ack"]
  /\ UNCHANGED <<biz, rowVars, held, snap, cur, history, budgets>>

\* markAsProcessed swallows the error of its insert.
MarkFails(p) ==
  /\ phase[p] = "mark"
  /\ Fault
  /\ unguarded' = unguarded \cup {cur[p]}
  /\ phase' = [phase EXCEPT ![p] = "ack"]
  /\ UNCHANGED <<biz, rowVars, marked, held, snap, cur, runs, fails, reclaimed>>

-----------------------------------------------------------------------------
\* The loop goes on after cur[p], or the round is over.
FinishCurrent(p) ==
  /\ held' = [held EXCEPT ![p] = @ \ {cur[p]}]
  /\ snap' = [snap EXCEPT ![p][cur[p]] = 0]
  /\ cur' = [cur EXCEPT ![p] = NoEvent]
  /\ phase' = [phase EXCEPT ![p] = IF held[p] = {cur[p]} THEN "idle" ELSE "loop"]

\* UPDATE ... WHERE id: a row that the cleanup has deleted stays deleted.
WhereId(e, r) == [row EXCEPT ![e] = IF HasRow(e) THEN r ELSE @]

Processed(r) == [r EXCEPT !.status = "processed", !.stale = FALSE]

\* The row is marked processed: WHERE id, whatever its status is by now.
Ack(p) ==
  /\ phase[p] = "ack"
  /\ row' = WhereId(cur[p], Processed(row[cur[p]]))
  /\ FinishCurrent(p)
  /\ UNCHANGED <<biz, createdAt, marked, history, budgets>>

\* That update throws inside the try: the event counts as failed.
AckFails(p) ==
  /\ phase[p] = "ack"
  /\ Fault
  /\ ToCatch(p)

\* handleEventFailure: n is the count read at the claim, plus one.
Failed(r, n) ==
  [r EXCEPT !.status = IF n >= MaxRetries THEN "dead_letter" ELSE "failed",
            !.retryCount = n, !.due = FALSE, !.stale = FALSE]

HandleEventFailure(p) ==
  /\ phase[p] = "fail"
  /\ row' = WhereId(cur[p], Failed(row[cur[p]], snap[p][cur[p]] + 1))
  /\ FinishCurrent(p)
  /\ UNCHANGED <<biz, createdAt, marked, history, budgets>>

\* p's round ends with nothing more written: what it held stays processing.
Abandon(p) ==
  /\ phase' = [phase EXCEPT ![p] = "idle"]
  /\ held' = [held EXCEPT ![p] = {}]
  /\ snap' = [snap EXCEPT ![p] = [e \in Events |-> 0]]
  /\ cur' = [cur EXCEPT ![p] = NoEvent]

\* The failure itself cannot be written: the error leaves the loop.
FailureWriteFails(p) ==
  /\ phase[p] = "fail"
  /\ Fault
  /\ Abandon(p)
  /\ UNCHANGED <<biz, rowVars, marked, history>>

\* The process dies and a new one starts with isRunning = false.
Crash(p) ==
  /\ phase[p] # "idle"
  /\ Fault
  /\ Abandon(p)
  /\ UNCHANGED <<biz, rowVars, marked, history>>

-----------------------------------------------------------------------------
(***************************************************************************)
(* The clock and the cleanup.                                              *)
(***************************************************************************)
BackoffElapses(e) ==
  /\ row[e].status = "failed"
  /\ ~ row[e].due
  /\ row' = [row EXCEPT ![e].due = TRUE]
  /\ UNCHANGED <<biz, createdAt, marked, podVars, history, budgets>>

\* STUCK_TIMEOUT_MS passes over a claim nobody works on any more.
OrphanExpires(e) ==
  /\ row[e].status = "processing"
  /\ ~ row[e].stale
  /\ Holders(e) = {}
  /\ row' = [row EXCEPT ![e].stale = TRUE]
  /\ UNCHANGED <<biz, createdAt, marked, podVars, history, budgets>>

\* The same over a claim whose pod is slow: events run one after the other.
BatchOverruns(e) ==
  /\ row[e].status = "processing"
  /\ ~ row[e].stale
  /\ Holders(e) # {}
  /\ overruns < MaxOverruns
  /\ overruns' = overruns + 1
  /\ row' = [row EXCEPT ![e].stale = TRUE]
  /\ UNCHANGED <<biz, createdAt, marked, podVars, history, faults>>

\* cleanupProcessedEvents and cleanupDeadLetterEvents: by status and age, no
\* matter who still works on the event.
Purgeable == {e \in Events : row[e].status \in Final}

CleanupRow(e) ==
  /\ e \in Purgeable
  /\ row' = [row EXCEPT ![e].status = Purged]
  /\ UNCHANGED <<biz, createdAt, marked, podVars, history, budgets>>

\* cleanupOldRecords: by age alone, so also while the event is still open.
CleanupMark(e) ==
  /\ e \in marked
  /\ marked' = marked \ {e}
  /\ unguarded' = IF row[e].status \in Final \cup {Purged} THEN unguarded
                  ELSE unguarded \cup {e}
  /\ UNCHANGED <<biz, rowVars, podVars, runs, fails, reclaimed, budgets>>

-----------------------------------------------------------------------------
PodStep(p) ==
  \/ Poll(p) \/ Fetch(p) \/ FetchNothing(p) \/ FetchFails(p)
  \/ \E e \in Events : ProcessEvent(p, e) \/ ProcessUnchecked(p, e)
  \/ HandlerRuns(p) \/ HandlerThrows(p)
  \/ MarkAsProcessed(p) \/ MarkFails(p)
  \/ Ack(p) \/ AckFails(p)
  \/ HandleEventFailure(p) \/ FailureWriteFails(p)

Clock(e) == BackoffElapses(e) \/ OrphanExpires(e)

Next ==
  \/ \E p \in Pods : PodStep(p) \/ Crash(p)
  \/ \E e \in Events : \/ BusinessCommit(e) \/ EmitAsync(e) \/ EmitLost(e)
                       \/ Clock(e) \/ BatchOverruns(e)
                       \/ CleanupRow(e) \/ CleanupMark(e)

\* The timers fire, every awaited call returns, and time passes.
Fairness ==
  /\ \A p \in Pods : WF_vars(PodStep(p))
  /\ \A e \in Events : WF_vars(BackoffElapses(e)) /\ WF_vars(OrphanExpires(e))

Spec == Init /\ [][Next]_vars
FairSpec == Spec /\ Fairness

-----------------------------------------------------------------------------
TypeOK ==
  /\ biz \in [Events -> {"none", "committed", "emitted", "lost"}]
  /\ row \in [Events -> Row]
  /\ createdAt \in [Events -> Nat]
  /\ marked \subseteq Events
  /\ phase \in [Pods -> Phases]
  /\ held \in [Pods -> SUBSET Events]
  /\ snap \in [Pods -> [Events -> Nat]]
  /\ cur \in [Pods -> Events \cup {NoEvent}]
  /\ runs \in [Events -> Nat]
  /\ fails \in [Events -> Nat]
  /\ reclaimed \subseteq Events
  /\ unguarded \subseteq Events
  /\ faults \in Nat
  /\ overruns \in Nat

\* An event somebody may stop caring about: its handler ran to its end, or as
\* many attempts failed as max_retries allows, or nobody listens to it.
Settled(e) == runs[e] > 0 \/ fails[e] >= MaxRetries \/ e \notin Handled

\* A row says processed only after the handler of the event ran to its end at
\* least once (processEvent marks after publishFromOutbox), whatever crashed,
\* was reclaimed or was written late in between.
ProcessedWasHandled ==
  \A e \in Events : row[e].status = "processed" => runs[e] > 0 \/ e \notin Handled

\* A dead letter was earned: max_retries attempts really failed.  The counter
\* of a row never exceeds the failures that happened, though it is written
\* from a copy read at the claim.
DeadLetterEarned ==
  \A e \in Events :
    /\ row[e].retryCount <= fails[e]
    /\ row[e].status = "dead_letter" => fails[e] >= MaxRetries

\* Nothing that was accepted is forgotten: the cleanup deletes the row of an
\* event only once the event is settled.
PurgedWasSettled ==
  \A e \in Events : row[e].status = Purged => Settled(e)

\* SKIP LOCKED and the status filter keep two pods off one event, except an
\* event that reclaimStuckEvents took from a pod.
ExclusiveUnlessReclaimed ==
  \A p, q \in Pods : \A e \in held[p] \cap held[q] : p # q => e \in reclaimed

\* The handler repeats its work for an event only if the event was reclaimed
\* or one of its idempotency calls failed (or its record was deleted while the
\* event was open): a plain retry is filtered.
RepeatsExplained ==
  \A e \in Events : runs[e] > 1 => e \in reclaimed \cup unguarded

\* The retry count is written from copies that may be old, and a late write can
\* undo what others counted.  Still the handler is entered at most max_retries
\* times, and max_retries more for each claim that overran, one for each fault.
AttemptsAreBounded ==
  \A e \in Events : runs[e] + fails[e] <= MaxRetries * (1 + overruns) + faults

\* A row that is processed or dead_letter is rewritten only by a pod that lost
\* its claim to reclaimStuckEvents, and a recorded retry is undone only then.
RewrittenOnlyByLateHolder ==
  [][\A e \in Events :
       \/ row[e].status \in Final /\ row'[e].status \notin {row[e].status, Purged}
       \/ row'[e].retryCount < row[e].retryCount
       => e \in reclaimed /\ Holders(e) # {}]_vars

\* Once accepted, an event ends as processed or dead_letter and stays so: the
\* late writes of slow pods, the crashes and the lost claims run out.
SettlesForGood ==
  \A e \in Events : (biz[e] = "emitted") ~> [](row[e].status \in Final \cup {Purged})

\* An event is queued while it has a row; reclaimStuckEvents takes it back
\* from the pod that was late.
QueueState ==
  [e \in Events |-> IF row[e].status = Absent THEN "new"
                    ELSE IF row[e].status = Purged THEN "retired" ELSE "queued"]

Queue == INSTANCE EventQueue WITH
  state <- QueueState,
  delivered <- runs,
  attempts <- fails,
  takenBack <- reclaimed,
  MaxAttempts <- MaxRetries

\* Every step of the outbox is a step of the abstract queue: a row is deleted
\* only when its event is settled, and after that only a pod that lost its
\* claim can still run the handler.
ImplementsQueue == Queue!SafeSpec

\* And every accepted event is eventually settled.
EventuallySettled == Queue!EventuallySettled
=============================================================================
