---------------------------- MODULE OutboxProofs ----------------------------
(***************************************************************************)
(* Theorems about Outbox, for every set of events and pods, every number   *)
(* of retries, every batch size and every number of faults and overruns.   *)
(***************************************************************************)
EXTENDS Outbox, FiniteSetTheorems, TLAPS

\* The phases in which processEvent works on an event.
Working == {"handle", "mark", "ack", "fail"}

\* A pod holds nothing between two rounds, and works on an event it holds.
PodInv ==
  \A p \in Pods :
    /\ phase[p] \in {"idle", "fetch"} => held[p] = {}
    /\ phase[p] \in Working => cur[p] \in held[p]

\* What the helpers that rewrite rows return.
LEMMA RowHelpers ==
  ASSUME TypeOK
  PROVE  /\ \A r \in Row : Reclaimed(r) \in Row /\ Claimed(r) \in Row /\ Processed(r) \in Row
         /\ \A r \in Row : \A n \in Nat : Failed(r, n) \in Row
         /\ NextBatch \subseteq Fetchable /\ Fetchable \subseteq Events
         /\ \A S \in SUBSET Events : ClaimRows(S) \in [Events -> Row]
<1>1. \A r \in Row : Reclaimed(r) \in Row /\ Claimed(r) \in Row /\ Processed(r) \in Row
  BY DEF Row, Reclaimed, Claimed, Processed, Status, Final
<1>2. \A r \in Row : \A n \in Nat : Failed(r, n) \in Row
  BY DEF Row, Failed, Status, Final
<1>3. NextBatch \subseteq Fetchable /\ Fetchable \subseteq Events
  BY DEF NextBatch, Fetchable
<1>4. \A S \in SUBSET Events : ClaimRows(S) \in [Events -> Row]
  BY <1>1 DEF ClaimRows, TypeOK
<1> QED
  BY <1>1, <1>2, <1>3, <1>4

\* What they write in the two fields the invariants speak of.
LEMMA RowFields ==
  /\ \A r \in Row : /\ Claimed(r).status = "processing" /\ Claimed(r).retryCount = r.retryCount
                    /\ Reclaimed(r).status = "pending" /\ Reclaimed(r).retryCount = r.retryCount
                    /\ Processed(r).status = "processed" /\ Processed(r).retryCount = r.retryCount
                    /\ r.retryCount \in Nat /\ r.status \in Status
  /\ \A r \in Row : \A n \in Nat :
       /\ Failed(r, n).retryCount = n
       /\ Failed(r, n).status = IF n >= MaxRetries THEN "dead_letter" ELSE "failed"
  /\ \A r \in Row : /\ [r EXCEPT !.due = TRUE].status = r.status
                    /\ [r EXCEPT !.due = TRUE].retryCount = r.retryCount
                    /\ [r EXCEPT !.stale = TRUE].status = r.status
                    /\ [r EXCEPT !.stale = TRUE].retryCount = r.retryCount
  /\ \A r \in Row, s \in Status : /\ [r EXCEPT !.status = s].status = s
                                 /\ [r EXCEPT !.status = s].retryCount = r.retryCount
BY DEF Row, Claimed, Reclaimed, Processed, Failed

\* The place a new row gets in created_at order is a number.
LEMMA CreatedAtNat ==
  ASSUME IsFiniteSet(Events)
  PROVE  1 + Cardinality({f \in Events : createdAt[f] > 0}) \in Nat
BY FS_Subset, FS_CardinalityType

\* Every step keeps the types.
LEMMA TypeStep ==
  ASSUME TypeOK, PodInv, [Next]_vars
  PROVE  TypeOK'
<1> USE DEF TypeOK, Phases, Working, rowVars, podVars, history, budgets
<1>1. ASSUME NEW p \in Pods, Poll(p) PROVE TypeOK'
  <2>1. row' \in [Events -> Row]
    BY <1>1, RowHelpers DEF Poll
  <2> QED
    BY <1>1, <2>1 DEF Poll, Stuck
<1>2. ASSUME NEW p \in Pods, Fetch(p) PROVE TypeOK'
  <2>1. row' \in [Events -> Row] /\ NextBatch \in SUBSET Events
    BY <1>2, RowHelpers DEF Fetch
  <2>2. [e \in Events |-> IF e \in NextBatch THEN row[e].retryCount ELSE 0] \in [Events -> Nat]
    BY DEF Row
  <2> QED
    BY <1>2, <2>1, <2>2 DEF Fetch
<1>3. ASSUME NEW p \in Pods, FetchNothing(p) PROVE TypeOK'
  BY <1>3 DEF FetchNothing
<1>4. ASSUME NEW p \in Pods, FetchFails(p) PROVE TypeOK'
  <2>1. row' \in [Events -> Row]
    BY <1>4, RowHelpers DEF FetchFails
  <2> QED
    BY <1>4, <2>1 DEF FetchFails, Fault
<1>5. ASSUME NEW p \in Pods, NEW e \in Events, ProcessEvent(p, e) PROVE TypeOK'
  BY <1>5 DEF ProcessEvent
<1>6. ASSUME NEW p \in Pods, NEW e \in Events, ProcessUnchecked(p, e) PROVE TypeOK'
  BY <1>6 DEF ProcessUnchecked, Fault
<1>7. ASSUME NEW p \in Pods, HandlerRuns(p) PROVE TypeOK'
  <2>1. cur[p] \in Events
    BY <1>7 DEF PodInv, HandlerRuns
  <2> QED
    BY <1>7, <2>1 DEF HandlerRuns
<1>8. ASSUME NEW p \in Pods, ToCatch(p), phase[p] \in Working,
             UNCHANGED budgets \/ Fault
      PROVE TypeOK'
  <2>1. cur[p] \in Events
    BY <1>8 DEF PodInv
  <2> QED
    BY <1>8, <2>1 DEF ToCatch, Fault
<1>9. ASSUME NEW p \in Pods, MarkAsProcessed(p) \/ MarkFails(p) PROVE TypeOK'
  <2>1. cur[p] \in Events
    BY <1>9 DEF PodInv, MarkAsProcessed, MarkFails
  <2> QED
    BY <1>9, <2>1 DEF MarkAsProcessed, MarkFails, Fault
<1>10. ASSUME NEW p \in Pods, FinishCurrent(p), cur[p] \in Events, row' \in [Events -> Row],
              UNCHANGED <<biz, createdAt, marked, history, budgets>>
       PROVE TypeOK'
  <2>1. snap[p] \in [Events -> Nat]
    OBVIOUS
  <2>2. [snap[p] EXCEPT ![cur[p]] = 0] \in [Events -> Nat]
    BY <2>1
  <2>3. snap' \in [Pods -> [Events -> Nat]]
    BY <1>10, <2>2 DEF FinishCurrent
  <2>4. held' \in [Pods -> SUBSET Events] /\ cur' \in [Pods -> Events \cup {NoEvent}]
    BY <1>10 DEF FinishCurrent
  <2>5. phase' \in [Pods -> Phases]
    BY <1>10 DEF FinishCurrent
  <2> QED
    BY <1>10, <2>3, <2>4, <2>5
<1>11. ASSUME NEW p \in Pods, Ack(p) PROVE TypeOK'
  <2>1. cur[p] \in Events
    BY <1>11 DEF PodInv, Ack
  <2>2. row[cur[p]] \in Row
    BY <2>1
  <2>3. row' \in [Events -> Row]
    BY <1>11, <2>1, <2>2, RowHelpers DEF Ack, WhereId
  <2> QED
    BY <1>10, <1>11, <2>1, <2>3 DEF Ack
<1>12. ASSUME NEW p \in Pods, HandleEventFailure(p) PROVE TypeOK'
  <2>1. cur[p] \in Events
    BY <1>12 DEF PodInv, HandleEventFailure
  <2>2. row[cur[p]] \in Row /\ snap[p][cur[p]] + 1 \in Nat
    BY <2>1
  <2>3. row' \in [Events -> Row]
    BY <1>12, <2>1, <2>2, RowHelpers DEF HandleEventFailure, WhereId
  <2> QED
    BY <1>10, <1>12, <2>1, <2>3 DEF HandleEventFailure
<1>13. ASSUME NEW p \in Pods, Abandon(p), Fault, UNCHANGED <<biz, rowVars, marked, history>>
       PROVE TypeOK'
  <2>1. snap' \in [Pods -> [Events -> Nat]]
    BY <1>13 DEF Abandon
  <2>2. held' \in [Pods -> SUBSET Events] /\ cur' \in [Pods -> Events \cup {NoEvent}]
    BY <1>13 DEF Abandon
  <2> QED
    BY <1>13, <2>1, <2>2 DEF Abandon, Fault
<1>14. ASSUME NEW e \in Events, BusinessCommit(e) PROVE TypeOK'
  BY <1>14 DEF BusinessCommit
<1>15. ASSUME NEW e \in Events, EmitLost(e) PROVE TypeOK'
  BY <1>15 DEF EmitLost, Fault
<1>16. ASSUME NEW e \in Events, EmitAsync(e) PROVE TypeOK'
  <2>1. row' \in [Events -> Row]
    BY <1>16 DEF EmitAsync, Row, Status
  <2> QED
    BY <1>16, <2>1, CreatedAtNat, ConstantsAssumption DEF EmitAsync
<1>17. ASSUME NEW e \in Events, BackoffElapses(e) \/ OrphanExpires(e) \/ BatchOverruns(e)
       PROVE TypeOK'
  <2>1. [row[e] EXCEPT !.due = TRUE] \in Row /\ [row[e] EXCEPT !.stale = TRUE] \in Row
    <3>1. row[e] \in Row
      OBVIOUS
    <3> QED
      BY <3>1 DEF Row
  <2>2. row' \in [Events -> Row]
    BY <1>17, <2>1 DEF BackoffElapses, OrphanExpires, BatchOverruns
  <2> QED
    BY <1>17, <2>2 DEF BackoffElapses, OrphanExpires, BatchOverruns
<1>18. ASSUME NEW e \in Events, CleanupRow(e) PROVE TypeOK'
  <2>1. row' \in [Events -> Row]
    BY <1>18 DEF CleanupRow, Row, Status
  <2> QED
    BY <1>18, <2>1 DEF CleanupRow
<1>19. ASSUME NEW e \in Events, CleanupMark(e) PROVE TypeOK'
  BY <1>19 DEF CleanupMark
<1>20. CASE UNCHANGED vars
  BY <1>20 DEF vars
<1> QED
  BY <1>1, <1>2, <1>3, <1>4, <1>5, <1>6, <1>7, <1>8, <1>9, <1>11, <1>12, <1>13,
     <1>14, <1>15, <1>16, <1>17, <1>18, <1>19, <1>20
  DEF Next, PodStep, Clock, HandlerThrows, AckFails, FailureWriteFails, Crash

\* Every step keeps what a pod holds in line with its phase.
LEMMA PodInvStep ==
  ASSUME TypeOK, PodInv, [Next]_vars
  PROVE  PodInv'
<1> USE DEF TypeOK, PodInv, Working, rowVars, podVars, history, budgets
<1>1. ASSUME NEW p \in Pods, Poll(p) PROVE PodInv'
  BY <1>1 DEF Poll
<1>2. ASSUME NEW p \in Pods, Fetch(p) PROVE PodInv'
  BY <1>2 DEF Fetch
<1>3. ASSUME NEW p \in Pods, FetchNothing(p) \/ FetchFails(p) PROVE PodInv'
  BY <1>3 DEF FetchNothing, FetchFails
<1>4. ASSUME NEW p \in Pods, NEW e \in Events, ProcessEvent(p, e) \/ ProcessUnchecked(p, e)
      PROVE PodInv'
  BY <1>4 DEF ProcessEvent, ProcessUnchecked
<1>5. ASSUME NEW p \in Pods,
             HandlerRuns(p) \/ HandlerThrows(p) \/ MarkAsProcessed(p) \/ MarkFails(p) \/ AckFails(p)
      PROVE PodInv'
  BY <1>5 DEF HandlerRuns, HandlerThrows, MarkAsProcessed, MarkFails, AckFails, ToCatch
<1>6. ASSUME NEW p \in Pods, Ack(p) \/ HandleEventFailure(p) PROVE PodInv'
  BY <1>6 DEF Ack, HandleEventFailure, FinishCurrent
<1>7. ASSUME NEW p \in Pods, FailureWriteFails(p) \/ Crash(p) PROVE PodInv'
  BY <1>7 DEF FailureWriteFails, Crash, Abandon
<1>8. ASSUME UNCHANGED podVars PROVE PodInv'
  BY <1>8
<1> QED
  BY <1>1, <1>2, <1>3, <1>4, <1>5, <1>6, <1>7, <1>8
  DEF Next, PodStep, Clock, vars, BusinessCommit, EmitAsync, EmitLost, BackoffElapses,
      OrphanExpires, BatchOverruns, CleanupRow, CleanupMark

\* Only an emitted event has a row.
BizInv ==
  \A e \in Events : biz[e] # "emitted" => row[e].status = Absent

\* While nobody reclaimed a held event, its row says processing and no other
\* pod holds it.
HoldInv ==
  \A p \in Pods : \A e \in held[p] \ reclaimed :
    /\ row[e].status = "processing"
    /\ \A q \in Pods : e \in held[q] => q = p

\* What each kind of step does to the rows.
LEMMA PollRows ==
  ASSUME TypeOK, NEW p \in Pods, Poll(p)
  PROVE  \A e \in Events :
           /\ e \in Stuck => /\ row'[e].status = "pending" /\ row[e].status = "processing"
                             /\ row'[e].retryCount = row[e].retryCount
           /\ e \notin Stuck => row'[e] = row[e]
BY RowFields DEF Poll, TypeOK, Stuck

LEMMA FetchRows ==
  ASSUME TypeOK, NEW p \in Pods, Fetch(p) \/ FetchFails(p)
  PROVE  \A e \in Events :
           \/ row'[e] = row[e] /\ (Fetch(p) => e \notin NextBatch)
           \/ /\ e \in NextBatch
              /\ row[e].status \in {"pending", "failed"}
              /\ row'[e].status = "processing"
              /\ row'[e].retryCount = row[e].retryCount
<1>1. \A e \in NextBatch : e \in Events /\ row[e].status \in {"pending", "failed"}
  BY DEF NextBatch, Fetchable
<1>2. row' = row \/ row' = ClaimRows(NextBatch)
  BY DEF Fetch, FetchFails
<1>3. Fetch(p) => row' = ClaimRows(NextBatch)
  BY DEF Fetch
<1>4. \A e \in Events : ClaimRows(NextBatch)[e] = IF e \in NextBatch THEN Claimed(row[e]) ELSE row[e]
  BY DEF ClaimRows
<1> QED
  BY <1>1, <1>2, <1>3, <1>4, RowFields DEF TypeOK

LEMMA FinishRows ==
  ASSUME TypeOK, PodInv, NEW p \in Pods, Ack(p) \/ HandleEventFailure(p)
  PROVE  /\ cur[p] \in held[p] /\ cur[p] \in Events
         /\ \A e \in Events : e # cur[p] => row'[e] = row[e]
         /\ ~ HasRow(cur[p]) => row'[cur[p]] = row[cur[p]]
         /\ HasRow(cur[p]) /\ Ack(p) =>
              /\ row'[cur[p]].status = "processed"
              /\ row'[cur[p]].retryCount = row[cur[p]].retryCount
         /\ HasRow(cur[p]) /\ HandleEventFailure(p) =>
              /\ row'[cur[p]].retryCount = snap[p][cur[p]] + 1
              /\ \/ row'[cur[p]].status = "failed"
                 \/ row'[cur[p]].status = "dead_letter" /\ row'[cur[p]].retryCount >= MaxRetries
<1>1. cur[p] \in held[p] /\ cur[p] \in Events
  BY DEF PodInv, Working, Ack, HandleEventFailure, TypeOK
<1>2. snap[p][cur[p]] + 1 \in Nat /\ row[cur[p]] \in Row
  BY <1>1 DEF TypeOK
<1>3. \A e \in Events : e # cur[p] => row'[e] = row[e]
  BY <1>1 DEF Ack, HandleEventFailure, WhereId, TypeOK
<1>4. Ack(p) => row'[cur[p]] = IF HasRow(cur[p]) THEN Processed(row[cur[p]]) ELSE row[cur[p]]
  BY <1>1 DEF Ack, WhereId, TypeOK
<1>5. HandleEventFailure(p) =>
        row'[cur[p]] = IF HasRow(cur[p]) THEN Failed(row[cur[p]], snap[p][cur[p]] + 1)
                       ELSE row[cur[p]]
  BY <1>1 DEF HandleEventFailure, WhereId, TypeOK
<1> QED
  BY <1>1, <1>2, <1>3, <1>4, <1>5, RowFields

LEMMA ClockRows ==
  ASSUME TypeOK, NEW e \in Events, BackoffElapses(e) \/ OrphanExpires(e) \/ BatchOverruns(e)
  PROVE  \A f \in Events : row'[f].status = row[f].status /\ row'[f].retryCount = row[f].retryCount
<1>1. \/ row' = [row EXCEPT ![e] = [row[e] EXCEPT !.due = TRUE]]
      \/ row' = [row EXCEPT ![e] = [row[e] EXCEPT !.stale = TRUE]]
  BY DEF BackoffElapses, OrphanExpires, BatchOverruns, TypeOK
<1>2. row \in [Events -> Row] /\ row[e] \in Row
  BY DEF TypeOK
<1>3. \A f \in Events : f # e => row'[f] = row[f]
  BY <1>1, <1>2
<1>4. row'[e] \in {[row[e] EXCEPT !.due = TRUE], [row[e] EXCEPT !.stale = TRUE]}
  BY <1>1, <1>2
<1>5. row'[e].status = row[e].status /\ row'[e].retryCount = row[e].retryCount
  BY <1>2, <1>4 DEF Row
<1> QED
  BY <1>3, <1>5

LEMMA EmitRows ==
  ASSUME TypeOK, NEW e \in Events, EmitAsync(e)
  PROVE  /\ row'[e].status = "pending" /\ row'[e].retryCount = row[e].retryCount
         /\ \A f \in Events : f # e => row'[f] = row[f]
BY RowFields DEF EmitAsync, TypeOK, Status

LEMMA CleanupRows ==
  ASSUME TypeOK, NEW e \in Events, CleanupRow(e)
  PROVE  /\ row[e].status \in Final
         /\ row'[e].status = Purged /\ row'[e].retryCount = row[e].retryCount
         /\ \A f \in Events : f # e => row'[f] = row[f]
BY RowFields DEF CleanupRow, TypeOK, Status, Purgeable

\* Every step is one of the kinds above.
LEMMA StepKinds ==
  ASSUME [Next]_vars
  PROVE  \/ \E p \in Pods : \/ Poll(p) \/ Fetch(p) \/ FetchFails(p)
                            \/ Ack(p) \/ HandleEventFailure(p)
                            \/ FailureWriteFails(p) \/ Crash(p)
                            \/ FetchNothing(p) \/ HandlerRuns(p) \/ HandlerThrows(p)
                            \/ MarkAsProcessed(p) \/ MarkFails(p) \/ AckFails(p)
                            \/ \E e \in Events : ProcessEvent(p, e) \/ ProcessUnchecked(p, e)
         \/ \E e \in Events : \/ EmitAsync(e) \/ CleanupRow(e)
                              \/ BackoffElapses(e) \/ OrphanExpires(e) \/ BatchOverruns(e)
                              \/ BusinessCommit(e) \/ EmitLost(e) \/ CleanupMark(e)
         \/ UNCHANGED vars
BY DEF Next, PodStep, Clock

LEMMA HoldInvStep ==
  ASSUME TypeOK, PodInv, BizInv, HoldInv, [Next]_vars
  PROVE  HoldInv' /\ BizInv'
<1>0. held \in [Pods -> SUBSET Events] /\ biz \in [Events -> {"none", "committed", "emitted", "lost"}]
  BY DEF TypeOK
<1> USE DEF HoldInv, BizInv, HasRow, rowVars, podVars, history, budgets, Absent, Purged
<1>1. ASSUME NEW p \in Pods, Poll(p) PROVE HoldInv' /\ BizInv'
  <2>1. held' = held /\ reclaimed' = reclaimed \cup Stuck /\ biz' = biz
    BY <1>1 DEF Poll
  <2> QED
    BY <1>1, <2>1, PollRows DEF TypeOK
<1>2. ASSUME NEW p \in Pods, Fetch(p) PROVE HoldInv' /\ BizInv'
  <2>1. held' = [held EXCEPT ![p] = NextBatch] /\ reclaimed' = reclaimed /\ biz' = biz
    BY <1>2 DEF Fetch
  <2>2. NextBatch \subseteq Events
    BY DEF NextBatch, Fetchable
  <2>3. BizInv'
    BY <1>0, <1>2, <2>1, <2>2, FetchRows
  <2>4. HoldInv'
    BY <1>0, <1>2, <2>1, <2>2, FetchRows
  <2> QED
    BY <2>3, <2>4
<1>3. ASSUME NEW p \in Pods, FetchFails(p) PROVE HoldInv' /\ BizInv'
  <2>1. held' = held /\ reclaimed' = reclaimed /\ biz' = biz
    BY <1>3 DEF FetchFails
  <2>3. BizInv'
    BY <1>0, <1>3, <2>1, FetchRows
  <2>4. HoldInv'
    BY <1>0, <1>3, <2>1, FetchRows
  <2> QED
    BY <2>3, <2>4
<1>4. ASSUME NEW p \in Pods, Ack(p) \/ HandleEventFailure(p) PROVE HoldInv' /\ BizInv'
  <2>1. held' = [held EXCEPT ![p] = @ \ {cur[p]}] /\ reclaimed' = reclaimed /\ biz' = biz
    BY <1>4 DEF Ack, HandleEventFailure, FinishCurrent
  <2>3. BizInv'
    BY <1>0, <1>4, <2>1, FinishRows
  <2>4. HoldInv'
    BY <1>0, <1>4, <2>1, FinishRows
  <2> QED
    BY <2>3, <2>4
<1>5. ASSUME NEW p \in Pods, FailureWriteFails(p) \/ Crash(p) PROVE HoldInv' /\ BizInv'
  <2>1. held' = [held EXCEPT ![p] = {}] /\ row' = row /\ reclaimed' = reclaimed /\ biz' = biz
    BY <1>5 DEF FailureWriteFails, Crash, Abandon
  <2> QED
    BY <2>1 DEF TypeOK
<1>6. ASSUME NEW e \in Events, EmitAsync(e) PROVE HoldInv' /\ BizInv'
  <2>1. held' = held /\ reclaimed' = reclaimed /\ row[e].status = Absent
        /\ biz' = [biz EXCEPT ![e] = "emitted"]
    BY <1>6 DEF EmitAsync
  <2> QED
    BY <1>6, <2>1, EmitRows DEF TypeOK
<1>7. ASSUME NEW e \in Events, CleanupRow(e) PROVE HoldInv' /\ BizInv'
  <2>1. held' = held /\ reclaimed' = reclaimed /\ biz' = biz
    BY <1>7 DEF CleanupRow
  <2>3. BizInv'
    BY <1>0, <1>7, <2>1, CleanupRows DEF Final
  <2>4. HoldInv'
    BY <1>0, <1>7, <2>1, CleanupRows DEF Final
  <2> QED
    BY <2>3, <2>4
<1>8. ASSUME NEW e \in Events, BackoffElapses(e) \/ OrphanExpires(e) \/ BatchOverruns(e)
      PROVE HoldInv' /\ BizInv'
  <2>1. held' = held /\ reclaimed' = reclaimed /\ biz' = biz
    BY <1>8 DEF BackoffElapses, OrphanExpires, BatchOverruns
  <2> QED
    BY <1>8, <2>1, ClockRows DEF TypeOK
<1>9. ASSUME NEW e \in Events, BusinessCommit(e) \/ EmitLost(e) PROVE HoldInv' /\ BizInv'
  BY <1>9 DEF BusinessCommit, EmitLost, TypeOK
<1>10. ASSUME UNCHANGED <<row, held, reclaimed, biz>> PROVE HoldInv' /\ BizInv'
  BY <1>10
<1> QED
  BY StepKinds, <1>1, <1>2, <1>3, <1>4, <1>5, <1>6, <1>7, <1>8, <1>9, <1>10
  DEF vars, CleanupMark, ProcessEvent, FetchNothing, ProcessUnchecked, HandlerRuns, HandlerThrows,
      MarkAsProcessed, MarkFails, AckFails, ToCatch

\* Delivery: a record of processing, an acknowledgement under way and the
\* status processed all mean that the handler ran to its end.
RunInv ==
  /\ \A e \in marked : runs[e] > 0
  /\ \A p \in Pods :
       /\ phase[p] \in {"handle", "mark"} => cur[p] \in Handled
       /\ phase[p] = "mark" => runs[cur[p]] > 0
       /\ phase[p] = "ack" => runs[cur[p]] > 0 \/ cur[p] \notin Handled
  /\ ProcessedWasHandled

\* Failures: no counter, neither in a row nor in a pod's copy, is ahead of the
\* failures that happened.
CountInv ==
  /\ DeadLetterEarned
  /\ \A p \in Pods :
       /\ \A e \in held[p] : snap[p][e] <= fails[e]
       /\ phase[p] = "fail" => snap[p][cur[p]] < fails[cur[p]]
  /\ PurgedWasSettled

\* The histories only grow.
LEMMA HistoryGrows ==
  ASSUME TypeOK, PodInv, [Next]_vars
  PROVE  /\ \A e \in Events : runs[e] <= runs'[e] /\ fails[e] <= fails'[e]
         /\ reclaimed \subseteq reclaimed' /\ unguarded \subseteq unguarded'
<1> USE DEF history, budgets, podVars, rowVars
<1>1. ASSUME NEW p \in Pods, HandlerRuns(p)
      PROVE  \A e \in Events : runs[e] <= runs'[e]
  BY <1>1 DEF HandlerRuns, TypeOK
<1>2. ASSUME NEW p \in Pods, ToCatch(p)
      PROVE  \A e \in Events : fails[e] <= fails'[e]
  BY <1>2 DEF ToCatch, TypeOK
<1>3. \A e \in Events : runs[e] <= runs[e] /\ fails[e] <= fails[e]
  BY DEF TypeOK
<1>4. runs' = runs \/ \E p \in Pods : HandlerRuns(p)
  BY StepKinds
  DEF Poll, Fetch, FetchFails, Ack, HandleEventFailure, FailureWriteFails, Crash, FetchNothing,
      HandlerThrows, MarkAsProcessed, MarkFails, AckFails, ToCatch, ProcessEvent,
      ProcessUnchecked, EmitAsync, CleanupRow, BackoffElapses, OrphanExpires, BatchOverruns,
      BusinessCommit, EmitLost, CleanupMark, vars
<1>5. fails' = fails \/ \E p \in Pods : ToCatch(p)
  BY StepKinds
  DEF Poll, Fetch, FetchFails, Ack, HandleEventFailure, FailureWriteFails, Crash, FetchNothing,
      HandlerRuns, HandlerThrows, MarkAsProcessed, MarkFails, AckFails, ProcessEvent,
      ProcessUnchecked, EmitAsync, CleanupRow, BackoffElapses, OrphanExpires, BatchOverruns,
      BusinessCommit, EmitLost, CleanupMark, vars
<1>6. reclaimed \subseteq reclaimed' /\ unguarded \subseteq unguarded'
  BY StepKinds
  DEF Poll, Fetch, FetchFails, Ack, HandleEventFailure, FailureWriteFails, Crash, FetchNothing,
      HandlerRuns, HandlerThrows, MarkAsProcessed, MarkFails, AckFails, ToCatch, ProcessEvent,
      ProcessUnchecked, EmitAsync, CleanupRow, BackoffElapses, OrphanExpires, BatchOverruns,
      BusinessCommit, EmitLost, CleanupMark, vars
<1> QED
  BY <1>1, <1>2, <1>3, <1>4, <1>5, <1>6

LEMMA RunInvStep ==
  ASSUME TypeOK, PodInv, RunInv, [Next]_vars
  PROVE  RunInv'
<1> USE DEF RunInv, ProcessedWasHandled, rowVars, podVars, history, budgets
<1>0. /\ phase \in [Pods -> Phases] /\ cur \in [Pods -> Events \cup {NoEvent}]
      /\ runs \in [Events -> Nat] /\ row \in [Events -> Row] /\ marked \subseteq Events
      /\ \A p \in Pods : phase[p] \in Working => cur[p] \in Events
  BY DEF TypeOK, PodInv
<1>1. ASSUME NEW p \in Pods, Poll(p) PROVE RunInv'
  <2>1. phase' = [phase EXCEPT ![p] = "fetch"] /\ UNCHANGED <<cur, runs, marked>>
    BY <1>1 DEF Poll
  <2> QED
    BY <1>0, <1>1, <2>1, PollRows
<1>2. ASSUME NEW p \in Pods, Fetch(p) \/ FetchFails(p) PROVE RunInv'
  <2>1. /\ phase' = [phase EXCEPT ![p] = "loop"] \/ phase' = [phase EXCEPT ![p] = "idle"]
        /\ UNCHANGED <<cur, runs, marked>>
    BY <1>2 DEF Fetch, FetchFails
  <2> QED
    BY <1>0, <1>2, <2>1, FetchRows
<1>3. ASSUME NEW p \in Pods, FetchNothing(p) PROVE RunInv'
  BY <1>0, <1>3 DEF FetchNothing
<1>4. ASSUME NEW p \in Pods, NEW e \in Events, ProcessEvent(p, e) \/ ProcessUnchecked(p, e)
      PROVE RunInv'
  <2>1. /\ cur' = [cur EXCEPT ![p] = e] /\ UNCHANGED <<row, runs, marked>>
        /\ \E f \in {"handle", "ack"} :
             /\ phase' = [phase EXCEPT ![p] = f]
             /\ f = "handle" => e \in Handled
             /\ f = "ack" => e \in marked \/ e \notin Handled
    BY <1>4 DEF ProcessEvent, ProcessUnchecked
  <2> QED
    BY <1>0, <2>1
<1>5. ASSUME NEW p \in Pods, HandlerRuns(p) PROVE RunInv'
  <2>1. /\ phase' = [phase EXCEPT ![p] = "mark"] /\ UNCHANGED <<row, cur, marked>>
        /\ runs' = [runs EXCEPT ![cur[p]] = @ + 1] /\ cur[p] \in Events /\ phase[p] = "handle"
    BY <1>0, <1>5 DEF HandlerRuns, Working
  <2>2. \A e \in Events : runs'[e] >= runs[e] /\ runs'[e] \in Nat /\ runs[e] \in Nat
    BY <1>0, <2>1
  <2>3. runs'[cur[p]] > 0
    BY <1>0, <2>1
  <2>4. \A q \in Pods : phase[q] \in {"mark", "ack"} => cur[q] \in Events
    BY <1>0 DEF Working
  <2> QED
    BY <1>0, <2>1, <2>2, <2>3, <2>4
<1>6. ASSUME NEW p \in Pods, ToCatch(p) PROVE RunInv'
  BY <1>0, <1>6 DEF ToCatch
<1>7. ASSUME NEW p \in Pods, MarkAsProcessed(p) \/ MarkFails(p) PROVE RunInv'
  BY <1>0, <1>7 DEF MarkAsProcessed, MarkFails
<1>8. ASSUME NEW p \in Pods, Ack(p) \/ HandleEventFailure(p) PROVE RunInv'
  <2>1. /\ cur' = [cur EXCEPT ![p] = NoEvent] /\ UNCHANGED <<runs, marked>>
        /\ \E f \in {"idle", "loop"} : phase' = [phase EXCEPT ![p] = f]
        /\ Ack(p) => phase[p] = "ack"
    BY <1>8 DEF Ack, HandleEventFailure, FinishCurrent
  <2> QED
    BY <1>0, <1>8, <2>1, FinishRows
<1>9. ASSUME NEW p \in Pods, FailureWriteFails(p) \/ Crash(p) PROVE RunInv'
  BY <1>0, <1>9 DEF FailureWriteFails, Crash, Abandon
<1>10. ASSUME NEW e \in Events, EmitAsync(e) PROVE RunInv'
  <2>1. UNCHANGED <<phase, cur, runs, marked>>
    BY <1>10 DEF EmitAsync
  <2> QED
    BY <1>0, <1>10, <2>1, EmitRows
<1>11. ASSUME NEW e \in Events, CleanupRow(e) PROVE RunInv'
  <2>1. UNCHANGED <<phase, cur, runs, marked>>
    BY <1>11 DEF CleanupRow
  <2> QED
    BY <1>0, <1>11, <2>1, CleanupRows DEF Purged
<1>12. ASSUME NEW e \in Events, BackoffElapses(e) \/ OrphanExpires(e) \/ BatchOverruns(e)
       PROVE RunInv'
  <2>1. UNCHANGED <<phase, cur, runs, marked>>
    BY <1>12 DEF BackoffElapses, OrphanExpires, BatchOverruns
  <2> QED
    BY <1>0, <1>12, <2>1, ClockRows
<1>13. ASSUME NEW e \in Events, BusinessCommit(e) \/ EmitLost(e) \/ CleanupMark(e) PROVE RunInv'
  BY <1>0, <1>13 DEF BusinessCommit, EmitLost, CleanupMark
<1>14. ASSUME UNCHANGED vars PROVE RunInv'
  BY <1>14 DEF vars
<1> QED
  BY StepKinds, <1>1, <1>2, <1>3, <1>4, <1>5, <1>6, <1>7, <1>8, <1>9, <1>10, <1>11, <1>12,
     <1>13, <1>14 DEF HandlerThrows, AckFails

LEMMA CountInvStep ==
  ASSUME TypeOK, PodInv, RunInv, CountInv, [Next]_vars
  PROVE  CountInv'
<1> USE DEF CountInv, DeadLetterEarned, PurgedWasSettled, Settled, rowVars, podVars, history, budgets
<1>0. /\ phase \in [Pods -> Phases] /\ cur \in [Pods -> Events \cup {NoEvent}]
      /\ runs \in [Events -> Nat] /\ fails \in [Events -> Nat] /\ row \in [Events -> Row]
      /\ held \in [Pods -> SUBSET Events] /\ snap \in [Pods -> [Events -> Nat]]
      /\ \A p \in Pods : phase[p] \in Working => cur[p] \in held[p]
      /\ \A e \in Events : row[e].retryCount \in Nat
      /\ MaxRetries \in Nat
  BY RowFields, ConstantsAssumption DEF TypeOK, PodInv
<1>1. ASSUME NEW p \in Pods, Poll(p) PROVE CountInv'
  <2>1. phase' = [phase EXCEPT ![p] = "fetch"] /\ UNCHANGED <<cur, held, snap, fails, runs>>
    BY <1>1 DEF Poll
  <2> QED
    BY <1>0, <1>1, <2>1, PollRows DEF Purged
<1>2. ASSUME NEW p \in Pods, Fetch(p) PROVE CountInv'
  <2>1. /\ phase' = [phase EXCEPT ![p] = "loop"] /\ UNCHANGED <<cur, fails, runs>>
        /\ held' = [held EXCEPT ![p] = NextBatch] /\ NextBatch \subseteq Events
        /\ snap' = [snap EXCEPT ![p] =
             [e \in Events |-> IF e \in NextBatch THEN row[e].retryCount ELSE 0]]
    BY <1>2 DEF Fetch, NextBatch, Fetchable
  <2>2. \A q \in Pods : \A e \in held'[q] : snap'[q][e] <= fails'[e]
    BY <1>0, <2>1
  <2>3. \A q \in Pods : phase'[q] = "fail" => snap'[q][cur'[q]] < fails'[cur'[q]]
    BY <1>0, <2>1
  <2>4. DeadLetterEarned' /\ PurgedWasSettled'
    BY <1>0, <1>2, <2>1, FetchRows DEF Purged
  <2> QED
    BY <2>2, <2>3, <2>4
<1>3. ASSUME NEW p \in Pods, FetchFails(p) PROVE CountInv'
  <2>1. phase' = [phase EXCEPT ![p] = "idle"] /\ UNCHANGED <<cur, held, snap, fails, runs>>
    BY <1>3 DEF FetchFails
  <2> QED
    BY <1>0, <1>3, <2>1, FetchRows DEF Purged
<1>4. ASSUME NEW p \in Pods, NEW f \in {"idle", "handle", "ack"}, NEW c,
             phase' = [phase EXCEPT ![p] = f], cur' = [cur EXCEPT ![p] = c],
             UNCHANGED <<row, held, snap, fails, runs>>
      PROVE CountInv'
  BY <1>0, <1>4
<1>5. ASSUME NEW p \in Pods, HandlerRuns(p) PROVE CountInv'
  <2>1. /\ phase' = [phase EXCEPT ![p] = "mark"] /\ UNCHANGED <<row, cur, held, snap, fails>>
        /\ runs' = [runs EXCEPT ![cur[p]] = @ + 1]
    BY <1>5 DEF HandlerRuns
  <2>2. \A e \in Events : runs[e] > 0 => runs'[e] > 0
    BY <1>0, <2>1
  <2> QED
    BY <1>0, <2>1, <2>2
<1>6. ASSUME NEW p \in Pods, ToCatch(p), phase[p] \in Working PROVE CountInv'
  <2>1. /\ phase' = [phase EXCEPT ![p] = "fail"] /\ UNCHANGED <<row, cur, held, snap, runs>>
        /\ fails' = [fails EXCEPT ![cur[p]] = @ + 1]
    BY <1>6 DEF ToCatch
  <2>2. \A e \in Events : fails[e] <= fails'[e] /\ fails'[e] \in Nat
    BY <1>0, <2>1
  <2>3. cur[p] \in held[p] /\ cur[p] \in Events /\ fails'[cur[p]] = fails[cur[p]] + 1
    BY <1>0, <1>6, <2>1
  <2>4. \A q \in Pods : \A e \in held[q] : e \in Events /\ snap[q][e] \in Nat
    BY <1>0
  <2>5. \A q \in Pods : phase'[q] = "fail" => snap[q][cur[q]] < fails'[cur[q]]
    BY <1>0, <2>1, <2>2, <2>3, <2>4 DEF Working
  <2>6. \A q \in Pods : \A e \in held[q] : snap[q][e] <= fails'[e]
    BY <1>0, <2>2, <2>4
  <2>7. DeadLetterEarned' /\ PurgedWasSettled'
    BY <1>0, <2>1, <2>2
  <2> QED
    BY <2>1, <2>5, <2>6, <2>7
<1>7. ASSUME NEW p \in Pods, MarkAsProcessed(p) \/ MarkFails(p) PROVE CountInv'
  BY <1>0, <1>7 DEF MarkAsProcessed, MarkFails
<1>8. ASSUME NEW p \in Pods, Ack(p) \/ HandleEventFailure(p) PROVE CountInv'
  <2>1. /\ cur' = [cur EXCEPT ![p] = NoEvent] /\ UNCHANGED <<runs, fails>>
        /\ \E f \in {"idle", "loop"} : phase' = [phase EXCEPT ![p] = f]
        /\ held' = [held EXCEPT ![p] = @ \ {cur[p]}]
        /\ snap' = [snap EXCEPT ![p][cur[p]] = 0]
        /\ HandleEventFailure(p) => phase[p] = "fail"
    BY <1>8 DEF Ack, HandleEventFailure, FinishCurrent
  <2>2. \A q \in Pods : \A e \in held'[q] : snap'[q][e] = snap[q][e] /\ e \in held[q]
    BY <1>0, <2>1
  <2>3. \A q \in Pods : phase'[q] = "fail" => q # p /\ phase[q] = "fail"
    BY <1>0, <2>1
  <2>4. DeadLetterEarned' /\ PurgedWasSettled'
    <3>1. cur[p] \in Events /\ \A e \in Events : e # cur[p] => row'[e] = row[e]
      BY <1>8, FinishRows
    <3>2. CASE HasRow(cur[p])
      <4>1. row'[cur[p]].status # Purged /\ row'[cur[p]].retryCount <= fails[cur[p]]
        BY <1>0, <1>8, <2>1, <3>1, <3>2, FinishRows DEF Purged
      <4>2. ASSUME row'[cur[p]].status = "dead_letter" PROVE fails[cur[p]] >= MaxRetries
        <5>1. HandleEventFailure(p) /\ row'[cur[p]].retryCount >= MaxRetries
          BY <1>8, <3>2, <4>2, FinishRows
        <5>2. row'[cur[p]].retryCount \in Nat
          BY <1>0, <2>1, <3>1, <3>2, <5>1, FinishRows
        <5> QED
          BY <1>0, <3>1, <4>1, <5>1, <5>2
      <4> QED
        BY <2>1, <3>1, <4>1, <4>2
    <3>3. CASE ~ HasRow(cur[p])
      <4>1. \A e \in Events : row'[e] = row[e]
        BY <1>8, <3>1, <3>3, FinishRows
      <4> QED
        BY <2>1, <4>1
    <3> QED
      BY <3>2, <3>3
  <2>5. \A q \in Pods : phase'[q] = "fail" => snap'[q][cur'[q]] < fails'[cur'[q]]
    BY <1>0, <2>1, <2>3
  <2> QED
    BY <2>1, <2>2, <2>4, <2>5
<1>9. ASSUME NEW p \in Pods, FailureWriteFails(p) \/ Crash(p) PROVE CountInv'
  <2>1. /\ cur' = [cur EXCEPT ![p] = NoEvent] /\ UNCHANGED <<row, runs, fails>>
        /\ phase' = [phase EXCEPT ![p] = "idle"] /\ held' = [held EXCEPT ![p] = {}]
        /\ \A q \in Pods : q # p => snap'[q] = snap[q]
    BY <1>0, <1>9 DEF FailureWriteFails, Crash, Abandon
  <2> QED
    BY <1>0, <2>1
<1>10. ASSUME NEW e \in Events, EmitAsync(e) PROVE CountInv'
  <2>1. UNCHANGED <<phase, cur, held, snap, fails, runs>>
    BY <1>10 DEF EmitAsync
  <2> QED
    BY <1>0, <1>10, <2>1, EmitRows DEF Purged
<1>11. ASSUME NEW e \in Events, CleanupRow(e) PROVE CountInv'
  <2>1. UNCHANGED <<phase, cur, held, snap, fails, runs>>
    BY <1>11 DEF CleanupRow
  <2> QED
    BY <1>0, <1>11, <2>1, CleanupRows DEF Purged, Final, RunInv, ProcessedWasHandled
<1>12. ASSUME NEW e \in Events, BackoffElapses(e) \/ OrphanExpires(e) \/ BatchOverruns(e)
       PROVE CountInv'
  <2>1. UNCHANGED <<phase, cur, held, snap, fails, runs>>
    BY <1>12 DEF BackoffElapses, OrphanExpires, BatchOverruns
  <2> QED
    BY <1>0, <1>12, <2>1, ClockRows
<1>13. ASSUME UNCHANGED <<phase, cur, held, snap, fails, runs, row>> PROVE CountInv'
  BY <1>13
<1>14. ASSUME NEW p \in Pods, NEW e \in Events, ProcessEvent(p, e) \/ ProcessUnchecked(p, e)
       PROVE CountInv'
  BY <1>4, <1>14 DEF ProcessEvent, ProcessUnchecked
<1>15. ASSUME NEW p \in Pods, FetchNothing(p) PROVE CountInv'
  BY <1>0, <1>15 DEF FetchNothing
<1> QED
  BY StepKinds, <1>1, <1>2, <1>3, <1>5, <1>6, <1>7, <1>8, <1>9, <1>10, <1>11, <1>12, <1>13,
     <1>14, <1>15
  DEF HandlerThrows, AckFails, BusinessCommit, EmitLost, CleanupMark, vars, Working

\* Repetition: while an event was neither reclaimed nor left unguarded, its
\* handler starts only if it never ran; once it ran, the event is recorded, or
\* its row is final, or it is still claimed and nobody will run it again.
RepeatInv ==
  \A e \in Events \ (reclaimed \cup unguarded) :
    /\ runs[e] <= 1
    /\ \A p \in Pods : cur[p] = e /\ phase[p] = "handle" => runs[e] = 0
    /\ runs[e] > 0 =>
         \/ e \in marked
         \/ row[e].status \in Final \cup {Purged}
         \/ /\ row[e].status = "processing"
            /\ \A p \in Pods : e \in held[p] => phase[p] = "mark" /\ cur[p] = e

LEMMA RepeatInvStep ==
  ASSUME TypeOK, PodInv, BizInv, HoldInv, RunInv, RepeatInv, [Next]_vars
  PROVE  RepeatInv'
<1> USE DEF RepeatInv, rowVars, podVars, history, budgets
<1>0. /\ phase \in [Pods -> Phases] /\ cur \in [Pods -> Events \cup {NoEvent}]
      /\ runs \in [Events -> Nat] /\ row \in [Events -> Row]
      /\ held \in [Pods -> SUBSET Events] /\ marked \subseteq Events
      /\ reclaimed \subseteq Events /\ unguarded \subseteq Events
      /\ \A p \in Pods : phase[p] \in Working => cur[p] \in held[p]
      /\ \A p \in Pods : phase[p] \in {"idle", "fetch"} => held[p] = {}
      /\ NoEvent \notin Events
  BY ConstantsAssumption DEF TypeOK, PodInv
<1>1. ASSUME NEW p \in Pods, Poll(p) PROVE RepeatInv'
  <2>1. /\ phase' = [phase EXCEPT ![p] = "fetch"] /\ phase[p] = "idle"
        /\ reclaimed' = reclaimed \cup Stuck /\ UNCHANGED <<cur, held, marked, unguarded, runs>>
    BY <1>1 DEF Poll
  <2> QED
    BY <1>0, <1>1, <2>1, PollRows DEF Purged, Final, Working
<1>2. ASSUME NEW p \in Pods, Fetch(p) PROVE RepeatInv'
  <2>1. /\ phase' = [phase EXCEPT ![p] = "loop"] /\ phase[p] = "fetch"
        /\ held' = [held EXCEPT ![p] = NextBatch]
        /\ UNCHANGED <<cur, marked, unguarded, reclaimed, runs>>
    BY <1>2 DEF Fetch
  <2>2. \A e \in NextBatch : e \in Events /\ row[e].status \in {"pending", "failed"}
    BY DEF NextBatch, Fetchable
  <2> QED
    BY <1>0, <1>2, <2>1, <2>2, FetchRows DEF Purged, Final, Working
<1>3. ASSUME NEW p \in Pods, FetchFails(p) PROVE RepeatInv'
  <2>1. /\ phase' = [phase EXCEPT ![p] = "idle"] /\ phase[p] = "fetch"
        /\ UNCHANGED <<cur, held, marked, unguarded, reclaimed, runs>>
    BY <1>3 DEF FetchFails
  <2> QED
    BY <1>0, <1>3, <2>1, FetchRows DEF Purged, Final, Working
<1>4. ASSUME NEW p \in Pods, NEW e \in Events, ProcessEvent(p, e) PROVE RepeatInv'
  <2>1. /\ phase[p] = "loop" /\ e \in held[p] /\ cur' = [cur EXCEPT ![p] = e]
        /\ phase' = [phase EXCEPT ![p] = IF e \in Handled \ marked THEN "handle" ELSE "ack"]
        /\ UNCHANGED <<row, held, marked, unguarded, reclaimed, runs>>
    BY <1>4 DEF ProcessEvent
  <2>2. e \notin reclaimed \cup unguarded \cup marked => runs[e] = 0
    BY <1>0, <2>1 DEF HoldInv, Final, Purged
  <2> QED
    BY <1>0, <2>1, <2>2
<1>5. ASSUME NEW p \in Pods, NEW e \in Events, ProcessUnchecked(p, e) PROVE RepeatInv'
  <2>1. /\ phase[p] = "loop" /\ e \in held[p] /\ cur' = [cur EXCEPT ![p] = e]
        /\ phase' = [phase EXCEPT ![p] = "handle"] /\ unguarded' = unguarded \cup {e}
        /\ UNCHANGED <<row, held, marked, reclaimed, runs>>
    BY <1>5 DEF ProcessUnchecked
  <2> QED
    BY <1>0, <2>1
<1>6. ASSUME NEW p \in Pods, HandlerRuns(p) PROVE RepeatInv'
  <2>1. /\ phase[p] = "handle" /\ phase' = [phase EXCEPT ![p] = "mark"]
        /\ runs' = [runs EXCEPT ![cur[p]] = @ + 1]
        /\ UNCHANGED <<row, held, cur, marked, unguarded, reclaimed>>
        /\ cur[p] \in Events /\ cur[p] \in held[p]
    BY <1>0, <1>6 DEF HandlerRuns, Working
  <2>2. \A e \in Events : e # cur[p] => runs'[e] = runs[e]
    BY <1>0, <2>1
  <2>3. cur[p] \notin reclaimed \cup unguarded =>
          /\ runs'[cur[p]] = 1 /\ row[cur[p]].status = "processing"
          /\ \A q \in Pods : cur[p] \in held[q] => q = p
    BY <1>0, <2>1 DEF HoldInv
  <2>4. \A q \in Pods : phase'[q] = "handle" /\ cur[q] = cur[p] => cur[p] \in reclaimed
    BY <1>0, <2>1, <2>3 DEF HoldInv, Working
  <2> QED
    BY <1>0, <2>1, <2>2, <2>3, <2>4
<1>7. ASSUME NEW p \in Pods, ToCatch(p), phase[p] \in {"handle", "ack"} PROVE RepeatInv'
  <2>1. /\ phase' = [phase EXCEPT ![p] = "fail"]
        /\ UNCHANGED <<row, held, cur, marked, unguarded, reclaimed, runs>>
    BY <1>7 DEF ToCatch
  <2> QED
    BY <1>0, <1>7, <2>1
<1>8. ASSUME NEW p \in Pods, MarkAsProcessed(p) PROVE RepeatInv'
  <2>1. /\ phase' = [phase EXCEPT ![p] = "ack"] /\ marked' = marked \cup {cur[p]}
        /\ cur[p] \in held[p]
        /\ UNCHANGED <<row, held, cur, unguarded, reclaimed, runs>>
    BY <1>0, <1>8 DEF MarkAsProcessed, Working
  <2> QED
    BY <1>0, <2>1
<1>9. ASSUME NEW p \in Pods, MarkFails(p) PROVE RepeatInv'
  <2>1. /\ phase' = [phase EXCEPT ![p] = "ack"] /\ unguarded' = unguarded \cup {cur[p]}
        /\ UNCHANGED <<row, held, cur, marked, reclaimed, runs>>
    BY <1>9 DEF MarkFails
  <2> QED
    BY <1>0, <2>1
<1>10. ASSUME NEW p \in Pods, Ack(p) PROVE RepeatInv'
  <2>1. /\ cur' = [cur EXCEPT ![p] = NoEvent] /\ held' = [held EXCEPT ![p] = @ \ {cur[p]}]
        /\ \E f \in {"idle", "loop"} : phase' = [phase EXCEPT ![p] = f]
        /\ phase[p] = "ack"
        /\ UNCHANGED <<marked, unguarded, reclaimed, runs>>
    BY <1>10 DEF Ack, FinishCurrent
  <2>2. cur[p] \in held[p] /\ cur[p] \in Events /\ \A e \in Events : e # cur[p] => row'[e] = row[e]
    BY <1>10, FinishRows
  <2>3. cur[p] \notin reclaimed => row'[cur[p]].status \in Final
    BY <1>10, <2>2, FinishRows DEF HoldInv, HasRow, Absent, Purged, Final
  <2> QED
    BY <1>0, <2>1, <2>2, <2>3
<1>11. ASSUME NEW p \in Pods, HandleEventFailure(p) PROVE RepeatInv'
  <2>1. /\ cur' = [cur EXCEPT ![p] = NoEvent] /\ held' = [held EXCEPT ![p] = @ \ {cur[p]}]
        /\ \E f \in {"idle", "loop"} : phase' = [phase EXCEPT ![p] = f]
        /\ phase[p] = "fail"
        /\ UNCHANGED <<marked, unguarded, reclaimed, runs>>
    BY <1>11 DEF HandleEventFailure, FinishCurrent
  <2>2. cur[p] \in held[p] /\ cur[p] \in Events /\ \A e \in Events : e # cur[p] => row'[e] = row[e]
    BY <1>11, FinishRows
  <2>3. cur[p] \notin reclaimed \cup unguarded /\ runs[cur[p]] > 0 => cur[p] \in marked
    BY <1>0, <2>1, <2>2 DEF HoldInv, Final, Purged
  <2> QED
    BY <1>0, <2>1, <2>2, <2>3
<1>12. ASSUME NEW p \in Pods, FailureWriteFails(p) \/ Crash(p) PROVE RepeatInv'
  <2>1. /\ cur' = [cur EXCEPT ![p] = NoEvent] /\ held' = [held EXCEPT ![p] = {}]
        /\ phase' = [phase EXCEPT ![p] = "idle"]
        /\ UNCHANGED <<row, marked, unguarded, reclaimed, runs>>
    BY <1>12 DEF FailureWriteFails, Crash, Abandon
  <2> QED
    BY <1>0, <2>1
<1>13. ASSUME NEW e \in Events, EmitAsync(e) PROVE RepeatInv'
  <2>1. UNCHANGED <<phase, cur, held, marked, unguarded, reclaimed, runs>> /\ row[e].status = Absent
    BY <1>13 DEF EmitAsync, BizInv
  <2> QED
    BY <1>0, <1>13, <2>1, EmitRows DEF Purged, Final, Absent
<1>14. ASSUME NEW e \in Events, CleanupRow(e) PROVE RepeatInv'
  <2>1. UNCHANGED <<phase, cur, held, marked, unguarded, reclaimed, runs>>
    BY <1>14 DEF CleanupRow
  <2> QED
    BY <1>0, <1>14, <2>1, CleanupRows
<1>15. ASSUME NEW e \in Events, BackoffElapses(e) \/ OrphanExpires(e) \/ BatchOverruns(e)
       PROVE RepeatInv'
  <2>1. UNCHANGED <<phase, cur, held, marked, unguarded, reclaimed, runs>>
    BY <1>15 DEF BackoffElapses, OrphanExpires, BatchOverruns
  <2> QED
    BY <1>0, <1>15, <2>1, ClockRows
<1>16. ASSUME NEW e \in Events, CleanupMark(e) PROVE RepeatInv'
  <2>1. /\ UNCHANGED <<row, phase, cur, held, reclaimed, runs>>
        /\ marked' = marked \ {e} /\ unguarded \subseteq unguarded'
        /\ row[e].status \in Final \cup {Purged} \/ e \in unguarded'
    BY <1>16 DEF CleanupMark
  <2> QED
    BY <1>0, <2>1
<1>17. ASSUME UNCHANGED <<row, cur, held, marked, unguarded, reclaimed, runs, phase>>
       PROVE RepeatInv'
  <2> QED
    BY <1>0, <1>17
<1>18. ASSUME NEW p \in Pods, FetchNothing(p) PROVE RepeatInv'
  <2>1. phase[p] = "fetch" /\ phase' = [phase EXCEPT ![p] = "idle"]
        /\ UNCHANGED <<row, cur, held, marked, unguarded, reclaimed, runs>>
    BY <1>18 DEF FetchNothing
  <2> QED
    BY <1>0, <2>1 DEF Working
<1> QED
  BY StepKinds, <1>1, <1>2, <1>3, <1>4, <1>5, <1>6, <1>7, <1>8, <1>9, <1>10, <1>11, <1>12,
     <1>13, <1>14, <1>15, <1>16, <1>17, <1>18
  DEF HandlerThrows, AckFails, BusinessCommit, EmitLost, vars

\* A pod's copy of the count is the count of the row until a reclaim.
SnapInv ==
  \A p \in Pods : \A e \in held[p] : e \notin reclaimed => snap[p][e] = row[e].retryCount

LEMMA SnapInvStep ==
  ASSUME TypeOK, PodInv, BizInv, HoldInv, SnapInv, [Next]_vars
  PROVE  SnapInv'
<1> USE DEF SnapInv, rowVars, podVars, history, budgets
<1>0. /\ row \in [Events -> Row] /\ held \in [Pods -> SUBSET Events]
      /\ snap \in [Pods -> [Events -> Nat]] /\ cur \in [Pods -> Events \cup {NoEvent}]
      /\ \A p \in Pods : phase[p] \in {"idle", "fetch"} => held[p] = {}
  BY DEF TypeOK, PodInv
<1>1. ASSUME NEW p \in Pods, Poll(p) PROVE SnapInv'
  <2>1. UNCHANGED <<held, snap>> /\ reclaimed' = reclaimed \cup Stuck
    BY <1>1 DEF Poll
  <2> QED
    BY <1>0, <1>1, <2>1, PollRows
<1>2. ASSUME NEW p \in Pods, Fetch(p) PROVE SnapInv'
  <2>1. /\ held' = [held EXCEPT ![p] = NextBatch] /\ NextBatch \subseteq Events
        /\ snap' = [snap EXCEPT ![p] =
             [e \in Events |-> IF e \in NextBatch THEN row[e].retryCount ELSE 0]]
        /\ reclaimed' = reclaimed
    BY <1>2 DEF Fetch, NextBatch, Fetchable
  <2> QED
    BY <1>0, <1>2, <2>1, FetchRows
<1>3. ASSUME NEW p \in Pods, FetchFails(p) PROVE SnapInv'
  <2>1. UNCHANGED <<held, snap, reclaimed>>
    BY <1>3 DEF FetchFails
  <2> QED
    BY <1>0, <1>3, <2>1, FetchRows
<1>4. ASSUME NEW p \in Pods, Ack(p) \/ HandleEventFailure(p) PROVE SnapInv'
  <2>1. /\ held' = [held EXCEPT ![p] = @ \ {cur[p]}] /\ snap' = [snap EXCEPT ![p][cur[p]] = 0]
        /\ reclaimed' = reclaimed
    BY <1>4 DEF Ack, HandleEventFailure, FinishCurrent
  <2>2. \A q \in Pods : \A e \in held'[q] : snap'[q][e] = snap[q][e] /\ e \in held[q]
    BY <1>0, <2>1
  <2>3. \A q \in Pods : cur[p] \in held'[q] => cur[p] \in reclaimed
    BY <1>0, <1>4, <2>1, FinishRows DEF HoldInv
  <2> QED
    BY <1>0, <1>4, <2>1, <2>2, <2>3, FinishRows
<1>5. ASSUME NEW p \in Pods, FailureWriteFails(p) \/ Crash(p) PROVE SnapInv'
  <2>1. /\ UNCHANGED <<row, reclaimed>> /\ held' = [held EXCEPT ![p] = {}]
        /\ \A q \in Pods : q # p => snap'[q] = snap[q]
    BY <1>0, <1>5 DEF FailureWriteFails, Crash, Abandon
  <2> QED
    BY <1>0, <2>1
<1>6. ASSUME NEW e \in Events, EmitAsync(e) PROVE SnapInv'
  <2>1. UNCHANGED <<held, snap, reclaimed>>
    BY <1>6 DEF EmitAsync
  <2> QED
    BY <1>0, <1>6, <2>1, EmitRows
<1>7. ASSUME NEW e \in Events, CleanupRow(e) PROVE SnapInv'
  <2>1. UNCHANGED <<held, snap, reclaimed>>
    BY <1>7 DEF CleanupRow
  <2> QED
    BY <1>0, <1>7, <2>1, CleanupRows
<1>8. ASSUME NEW e \in Events, BackoffElapses(e) \/ OrphanExpires(e) \/ BatchOverruns(e)
      PROVE SnapInv'
  <2>1. UNCHANGED <<held, snap, reclaimed>>
    BY <1>8 DEF BackoffElapses, OrphanExpires, BatchOverruns
  <2> QED
    BY <1>0, <1>8, <2>1, ClockRows
<1>9. ASSUME UNCHANGED <<row, held, snap, reclaimed>> PROVE SnapInv'
  BY <1>9
<1> QED
  BY StepKinds, <1>1, <1>2, <1>3, <1>4, <1>5, <1>6, <1>7, <1>8, <1>9
  DEF FetchNothing, HandlerRuns, HandlerThrows, MarkAsProcessed, MarkFails, AckFails, ToCatch,
      ProcessEvent, ProcessUnchecked, BusinessCommit, EmitLost, CleanupMark, vars

-----------------------------------------------------------------------------
\* The inductive invariant of the outbox.
OutboxInv ==
  /\ TypeOK
  /\ PodInv
  /\ BizInv
  /\ HoldInv
  /\ RunInv
  /\ CountInv
  /\ RepeatInv
  /\ SnapInv

LEMMA InitInv == Init => OutboxInv
<1> SUFFICES ASSUME Init PROVE OutboxInv
  OBVIOUS
<1>1. TypeOK
  BY DEF Init, TypeOK, Row, Status, Phases, Absent
<1>2. PodInv /\ BizInv /\ HoldInv /\ SnapInv
  BY DEF Init, PodInv, BizInv, HoldInv, SnapInv, Working
<1>3. RunInv
  BY DEF Init, RunInv, ProcessedWasHandled, Absent
<1>4. CountInv
  BY DEF Init, CountInv, DeadLetterEarned, PurgedWasSettled, Absent, Purged
<1>5. RepeatInv
  BY DEF Init, RepeatInv
<1> QED
  BY <1>1, <1>2, <1>3, <1>4, <1>5 DEF OutboxInv

LEMMA Invariance == Spec => []OutboxInv
<1>1. OutboxInv /\ [Next]_vars => OutboxInv'
  BY TypeStep, PodInvStep, HoldInvStep, RunInvStep, CountInvStep, RepeatInvStep, SnapInvStep DEF OutboxInv
<1> QED
  BY <1>1, InitInv, PTL DEF Spec

\* Every variable keeps its type, whatever the pods, faults and clocks do.
THEOREM TypeCorrect == Spec => []TypeOK
<1>1. OutboxInv => TypeOK
  BY DEF OutboxInv
<1> QED
  BY <1>1, Invariance, PTL

\* processEvent marks a row processed only after the handler ran to its end,
\* or when nobody listens to the event.
THEOREM HandledBeforeProcessed == Spec => []ProcessedWasHandled
<1>1. OutboxInv => ProcessedWasHandled
  BY DEF OutboxInv, RunInv
<1> QED
  BY <1>1, Invariance, PTL

\* handleEventFailure dead-letters only events that failed max_retries times.
THEOREM DeadLettersEarned == Spec => []DeadLetterEarned
<1>1. OutboxInv => DeadLetterEarned
  BY DEF OutboxInv, CountInv
<1> QED
  BY <1>1, Invariance, PTL

\* The cleanup deletes the rows of settled events only.
THEOREM PurgedSettled == Spec => []PurgedWasSettled
<1>1. OutboxInv => PurgedWasSettled
  BY DEF OutboxInv, CountInv
<1> QED
  BY <1>1, Invariance, PTL

\* Two pods hold one event only after reclaimStuckEvents took it from a pod.
THEOREM Exclusive == Spec => []ExclusiveUnlessReclaimed
<1>1. OutboxInv => ExclusiveUnlessReclaimed
  BY DEF OutboxInv, HoldInv, ExclusiveUnlessReclaimed
<1> QED
  BY <1>1, Invariance, PTL

\* The handler repeats an event only after a reclaim or an idempotency failure.
THEOREM RepeatsOnlyIfExplained == Spec => []RepeatsExplained
<1>1. OutboxInv => RepeatsExplained
  <2> SUFFICES ASSUME OutboxInv, NEW e \in Events, runs[e] > 1
               PROVE  e \in reclaimed \cup unguarded
    BY DEF RepeatsExplained
  <2> QED
    BY DEF OutboxInv, RepeatInv, TypeOK
<1> QED
  BY <1>1, Invariance, PTL

\* A final row is rewritten, and a retry undone, only by a late holder.
THEOREM LateHoldersOnly == Spec => RewrittenOnlyByLateHolder
<1> DEFINE
  Rewrites(e) == \/ row[e].status \in Final /\ row'[e].status \notin {row[e].status, Purged}
                 \/ row'[e].retryCount < row[e].retryCount
  Late == \A e \in Events : Rewrites(e) => e \in reclaimed /\ Holders(e) # {}
<1>1. OutboxInv /\ [Next]_vars => Late
  <2> SUFFICES ASSUME OutboxInv, [Next]_vars PROVE Late
    OBVIOUS
  <2>0. /\ \A e \in Events : ~ (row[e].retryCount < row[e].retryCount)
        /\ TypeOK /\ PodInv /\ BizInv
    BY RowFields DEF OutboxInv, TypeOK
  <2>1. ASSUME NEW p \in Pods, Poll(p) PROVE Late
    BY <2>0, <2>1, PollRows DEF Final
  <2>2. ASSUME NEW p \in Pods, Fetch(p) \/ FetchFails(p) PROVE Late
    BY <2>0, <2>2, FetchRows DEF Final
  <2>3. ASSUME NEW p \in Pods, Ack(p) PROVE Late
    <3>1. /\ cur[p] \in held[p] /\ cur[p] \in Events
          /\ \A e \in Events : e # cur[p] => row'[e] = row[e]
          /\ \/ row'[cur[p]] = row[cur[p]]
             \/ /\ row'[cur[p]].status = "processed"
                /\ row'[cur[p]].retryCount = row[cur[p]].retryCount
      BY <2>0, <2>3, FinishRows
    <3>2. cur[p] \notin reclaimed => row[cur[p]].status = "processing"
      BY <3>1 DEF OutboxInv, HoldInv
    <3> QED
      BY <2>0, <3>1, <3>2 DEF Final, Holders
  <2>4. ASSUME NEW p \in Pods, HandleEventFailure(p) PROVE Late
    <3>1. /\ cur[p] \in held[p] /\ cur[p] \in Events
          /\ \A e \in Events : e # cur[p] => row'[e] = row[e]
          /\ HasRow(cur[p]) => row'[cur[p]].retryCount = snap[p][cur[p]] + 1
      BY <2>0, <2>4, FinishRows
    <3>2. ASSUME cur[p] \notin reclaimed PROVE ~ Rewrites(cur[p])
      <4>1. cur[p] \in Events /\ row[cur[p]].status = "processing"
            /\ snap[p][cur[p]] = row[cur[p]].retryCount /\ snap[p][cur[p]] \in Nat
        BY <3>1, <3>2 DEF OutboxInv, HoldInv, SnapInv, TypeOK
      <4> QED
        BY <3>1, <4>1 DEF Final, HasRow, Absent, Purged
    <3> QED
      BY <2>0, <3>1, <3>2 DEF Holders
  <2>5. ASSUME NEW e \in Events, EmitAsync(e) PROVE Late
    <3>1. row[e].status = Absent
      BY <2>0, <2>5 DEF BizInv, EmitAsync
    <3> QED
      BY <2>0, <2>5, <3>1, EmitRows DEF Final, Absent
  <2>6. ASSUME NEW e \in Events, CleanupRow(e) PROVE Late
    BY <2>0, <2>6, CleanupRows
  <2>7. ASSUME NEW e \in Events, BackoffElapses(e) \/ OrphanExpires(e) \/ BatchOverruns(e)
        PROVE Late
    BY <2>0, <2>7, ClockRows DEF Final
  <2>8. ASSUME row' = row PROVE Late
    BY <2>0, <2>8
  <2> QED
    BY StepKinds, <2>1, <2>2, <2>3, <2>4, <2>5, <2>6, <2>7, <2>8
    DEF FailureWriteFails, Crash, FetchNothing, HandlerRuns, HandlerThrows, MarkAsProcessed,
        MarkFails, AckFails, ToCatch, ProcessEvent, ProcessUnchecked, BusinessCommit, EmitLost,
        CleanupMark, vars, rowVars
<1>2. OutboxInv /\ [Next]_vars => [Late]_vars
  BY <1>1
<1> QED
  BY <1>2, Invariance, PTL DEF Spec, RewrittenOnlyByLateHolder

\* The outbox implements the queue that forgets no accepted event.
THEOREM Refinement == Spec => ImplementsQueue
<1>1. Init => Queue!Init
  BY DEF Init, Queue!Init, QueueState, Absent
<1>2. OutboxInv /\ [Next]_vars => [Queue!Next]_(Queue!vars)
  <2> SUFFICES ASSUME OutboxInv, [Next]_vars
               PROVE  Queue!Next \/ UNCHANGED <<QueueState, runs, fails, reclaimed>>
    BY DEF Queue!vars
  <2> USE DEF rowVars, podVars, history, budgets
  <2>0. TypeOK /\ PodInv /\ BizInv /\ HoldInv /\ RunInv
    BY DEF OutboxInv
  <2>1. ASSUME NEW p \in Pods, HandlerRuns(p) PROVE Queue!Deliver(cur[p]) /\ cur[p] \in Events
    <3>1. cur[p] \in held[p] /\ cur[p] \in Events /\ cur[p] \in Handled
      BY <2>0, <2>1 DEF HandlerRuns, PodInv, Working, RunInv, TypeOK
    <3>2. Queue!InHand(cur[p])
      BY <2>0, <3>1 DEF HoldInv, Absent, Purged, QueueState, Queue!InHand
    <3> QED
      BY <2>1, <3>1, <3>2 DEF HandlerRuns, Queue!Deliver, QueueState
  <2>2. ASSUME NEW p \in Pods, ToCatch(p), phase[p] \in Working
        PROVE  Queue!FailAttempt(cur[p]) /\ cur[p] \in Events
    <3>1. cur[p] \in held[p] /\ cur[p] \in Events
      BY <2>0, <2>2 DEF PodInv, TypeOK
    <3>2. Queue!InHand(cur[p])
      BY <2>0, <3>1 DEF HoldInv, Absent, Purged, QueueState, Queue!InHand
    <3> QED
      BY <2>2, <3>1, <3>2 DEF ToCatch, Queue!FailAttempt, QueueState
  <2>3. ASSUME NEW e \in Events, EmitAsync(e) PROVE Queue!Accept(e)
    <3>1. row[e].status = Absent /\ UNCHANGED <<runs, fails, reclaimed>>
      BY <2>0, <2>3 DEF EmitAsync, BizInv
    <3>2. QueueState' = [QueueState EXCEPT ![e] = "queued"]
      BY <2>0, <2>3, EmitRows DEF QueueState, Absent, Purged
    <3> QED
      BY <3>1, <3>2 DEF Queue!Accept, QueueState
  <2>4. ASSUME NEW e \in Events, CleanupRow(e) PROVE Queue!Retire(e)
    <3>1. row[e].status \in Final /\ row'[e].status = Purged /\ UNCHANGED <<runs, fails, reclaimed>>
      BY <2>0, <2>4, CleanupRows DEF CleanupRow
    <3>2. QueueState' = [QueueState EXCEPT ![e] = "retired"]
      BY <2>0, <2>4, CleanupRows DEF QueueState, Absent, Purged
    <3>3. Queue!Settled(e)
      BY <3>1 DEF OutboxInv, RunInv, CountInv, ProcessedWasHandled, DeadLetterEarned, Final, Queue!Settled
    <3> QED
      BY <3>1, <3>2, <3>3 DEF Queue!Retire, QueueState, Final, Absent, Purged
  <2>5. ASSUME NEW p \in Pods, Poll(p) \/ Fetch(p) \/ FetchFails(p) \/ Ack(p) \/ HandleEventFailure(p)
        PROVE  /\ UNCHANGED <<QueueState, runs, fails>>
               /\ ~ Poll(p) => reclaimed' = reclaimed
               /\ Poll(p) => Queue!TakeBack(Stuck)
    <3>1. UNCHANGED <<runs, fails>> /\ (reclaimed' = reclaimed \/ Poll(p))
      BY <2>5 DEF Poll, Fetch, FetchFails, Ack, HandleEventFailure
    <3>2. \A e \in Events :
            \/ row'[e] = row[e]
            \/ row[e].status \notin {Absent, Purged} /\ row'[e].status \notin {Absent, Purged}
      <4> TAKE e \in Events
      <4>1. CASE Poll(p)
        <5>1. \/ row'[e] = row[e]
              \/ row'[e].status = "pending" /\ row[e].status = "processing"
          BY <2>0, <4>1, PollRows
        <5> QED
          BY <5>1 DEF Absent, Purged
      <4>2. CASE Fetch(p) \/ FetchFails(p)
        <5>1. \/ row'[e] = row[e]
              \/ row'[e].status = "processing" /\ row[e].status \in {"pending", "failed"}
          BY <2>0, <4>2, FetchRows
        <5> QED
          BY <5>1 DEF Absent, Purged
      <4>3. CASE Ack(p) \/ HandleEventFailure(p)
        <5>1. \/ row'[e] = row[e]
              \/ HasRow(e) /\ row'[e].status \in {"processed", "failed", "dead_letter"}
          BY <2>0, <4>3, FinishRows
        <5> QED
          BY <5>1 DEF HasRow, Absent, Purged
      <4> QED
        BY <2>5, <4>1, <4>2, <4>3
    <3>3. UNCHANGED QueueState
      BY <3>2 DEF QueueState
    <3>4. ASSUME Poll(p) PROVE Queue!TakeBack(Stuck)
      <4>1. \A e \in Stuck : e \in Events /\ QueueState[e] = "queued"
        BY DEF Stuck, QueueState, Absent, Purged
      <4>2. reclaimed' = reclaimed \cup Stuck
        BY <3>4 DEF Poll
      <4> QED
        BY <3>1, <3>3, <4>1, <4>2 DEF Queue!TakeBack
    <3> QED
      BY <3>1, <3>3, <3>4
  <2>6. ASSUME NEW e \in Events, BackoffElapses(e) \/ OrphanExpires(e) \/ BatchOverruns(e)
        PROVE  UNCHANGED <<QueueState, runs, fails, reclaimed>>
    BY <2>0, <2>6, ClockRows DEF QueueState, BackoffElapses, OrphanExpires, BatchOverruns
  <2>7. ASSUME UNCHANGED <<row, runs, fails, reclaimed>>
        PROVE  UNCHANGED <<QueueState, runs, fails, reclaimed>>
    BY <2>7 DEF QueueState
  <2>8. Stuck \in SUBSET Events
    BY DEF Stuck
  <2> QED
    BY StepKinds, <2>1, <2>2, <2>3, <2>4, <2>5, <2>6, <2>7, <2>8
    DEF FailureWriteFails, Crash, FetchNothing, HandlerThrows, MarkAsProcessed, MarkFails,
        AckFails, ProcessEvent, ProcessUnchecked, BusinessCommit, EmitLost, CleanupMark, vars,
        Queue!Next, Working
<1> QED
  BY <1>1, <1>2, Invariance, PTL DEF Spec, ImplementsQueue, Queue!SafeSpec

-----------------------------------------------------------------------------
(***************************************************************************)
(* How often an event is attempted.  A retry is counted in the row, from a *)
(* copy that may be old, so that late writes undo what others counted.     *)
(* The argument therefore counts the attempts that are left: those of the  *)
(* row, while somebody may claim it, and those of every pod that holds the *)
(* event by its own copy.  A failure uses one up, whoever writes it; only  *)
(* a claim that overruns adds some, and a fault hides one.                 *)
(***************************************************************************)

\* The attempt that p makes of e is used up, though not yet written.
Spent(p, e) == IF cur[p] = e /\ phase[p] \in {"mark", "ack", "fail"} THEN 1 ELSE 0

\* The i-th attempt of e is left to p.
HasLeft(p, i, e) == e \in held[p] /\ i > snap[p][e] + Spent(p, e)

PodsLeft(e) == {x \in Pods \X (1 .. MaxRetries) : HasLeft(x[1], x[2], e)}

\* Some pod holds e with the count of the row, and so for the row.
Represented(e) == \E p \in Pods : e \in held[p] /\ snap[p][e] = row[e].retryCount

\* The row may still be claimed, now or after a reclaim.
Claimable(e) ==
  \/ row[e].status \in {Absent, "pending", "failed"}
  \/ row[e].status = "processing" /\ (row[e].stale \/ ~ Represented(e))

RowLeft(e) == IF Claimable(e) THEN MaxRetries - row[e].retryCount ELSE 0

\* The counts of rows that may be claimed, and of the copies, are below the maximum.
OpenInv ==
  \A e \in Events :
    /\ row[e].status \notin Final \cup {Purged} => row[e].retryCount < MaxRetries
    /\ \A p \in Pods : e \in held[p] => snap[p][e] < MaxRetries

Load(e) == runs[e] + fails[e] + RowLeft(e) + Cardinality(PodsLeft(e))
Budget == MaxRetries * (1 + overruns) + faults

BudgetInv == \A e \in Events : IsFiniteSet(PodsLeft(e)) /\ Load(e) <= Budget

\* The attempts from the (a + 1)-th on.
LEMMA AttemptsFrom ==
  ASSUME NEW p, NEW a \in Nat, a <= MaxRetries
  PROVE  /\ IsFiniteSet({p} \X (a + 1 .. MaxRetries))
         /\ Cardinality({p} \X (a + 1 .. MaxRetries)) = MaxRetries - a
<1> DEFINE I == a + 1 .. MaxRetries
<1>1. MaxRetries \in Nat
  BY ConstantsAssumption
<1>2. IsFiniteSet(I) /\ Cardinality(I) = MaxRetries - a
  <2>1. a + 1 \in Int /\ MaxRetries \in Int
    BY <1>1
  <2>2. IsFiniteSet(a + 1 .. MaxRetries)
        /\ Cardinality(a + 1 .. MaxRetries) =
             IF a + 1 > MaxRetries THEN 0 ELSE MaxRetries - (a + 1) + 1
    BY <2>1, FS_Interval
  <2> QED BY <1>1, <2>2
<1>3. IsFiniteSet({p}) /\ Cardinality({p}) = 1
  BY FS_Singleton
<1>4. IsFiniteSet({p} \X I) /\ Cardinality({p} \X I) = Cardinality({p}) * Cardinality(I)
  <2> HIDE DEF I
  <2> QED BY <1>2, <1>3, FS_Product
<1> QED BY <1>1, <1>2, <1>3, <1>4

LEMMA Loses ==
  ASSUME NEW S, NEW T, NEW B, IsFiniteSet(S), IsFiniteSet(B),
         T \subseteq S, B \subseteq S, T \cap B = {}
  PROVE  IsFiniteSet(T) /\ Cardinality(T) + Cardinality(B) <= Cardinality(S)
         /\ Cardinality(T) \in Nat /\ Cardinality(S) \in Nat /\ Cardinality(B) \in Nat
<1>1. IsFiniteSet(T)
  BY FS_Subset
<1>2. IsFiniteSet(T \cup B) /\ Cardinality(T \cup B) = Cardinality(T) + Cardinality(B) - Cardinality(T \cap B)
  BY <1>1, FS_Union
<1>3. Cardinality(T \cap B) = 0
  BY FS_EmptySet
<1>4. T \cup B \in SUBSET S
  OBVIOUS
<1>5. Cardinality(T \cup B) <= Cardinality(S)
  BY <1>4, FS_Subset
<1> QED BY <1>1, <1>2, <1>3, <1>5, FS_CardinalityType

LEMMA Gains ==
  ASSUME NEW S, NEW T, NEW B, IsFiniteSet(S), IsFiniteSet(B), T \subseteq S \cup B
  PROVE  IsFiniteSet(T) /\ Cardinality(T) <= Cardinality(S) + Cardinality(B)
         /\ Cardinality(T) \in Nat /\ Cardinality(S) \in Nat /\ Cardinality(B) \in Nat
<1>1. /\ IsFiniteSet(S \cup B)
      /\ Cardinality(S \cup B) = Cardinality(S) + Cardinality(B) - Cardinality(S \cap B)
  BY FS_Union
<1>2. IsFiniteSet(S \cap B)
  BY FS_Intersection
<1>3. IsFiniteSet(T) /\ Cardinality(T) <= Cardinality(S \cup B)
  BY <1>1, FS_Subset
<1> QED BY <1>1, <1>2, <1>3, FS_CardinalityType

\* The counts of the steps that write them.
LEMMA OpenInvStep ==
  ASSUME TypeOK, PodInv, BizInv, OpenInv, [Next]_vars
  PROVE  OpenInv'
<1> USE DEF OpenInv, rowVars, podVars, history, budgets
<1>0. /\ row \in [Events -> Row] /\ held \in [Pods -> SUBSET Events]
      /\ snap \in [Pods -> [Events -> Nat]] /\ cur \in [Pods -> Events \cup {NoEvent}]
      /\ \A e \in Events : row[e].retryCount \in Nat
      /\ \A p \in Pods : phase[p] \in {"idle", "fetch"} => held[p] = {}
      /\ MaxRetries \in Nat \ {0}
  BY ConstantsAssumption, RowFields DEF TypeOK, PodInv
<1>1. ASSUME NEW p \in Pods, Poll(p) PROVE OpenInv'
  <2>1. UNCHANGED <<held, snap>>
    BY <1>1 DEF Poll
  <2> QED BY <1>0, <1>1, <2>1, PollRows DEF Final, Purged
<1>2. ASSUME NEW p \in Pods, Fetch(p) PROVE OpenInv'
  <2>1. /\ held' = [held EXCEPT ![p] = NextBatch] /\ NextBatch \subseteq Events
        /\ snap' = [snap EXCEPT ![p] =
             [e \in Events |-> IF e \in NextBatch THEN row[e].retryCount ELSE 0]]
    BY <1>2 DEF Fetch, NextBatch, Fetchable
  <2>2. \A e \in NextBatch : row[e].status \in {"pending", "failed"}
    BY DEF NextBatch, Fetchable
  <2> QED BY <1>0, <1>2, <2>1, <2>2, FetchRows DEF Final, Purged
<1>3. ASSUME NEW p \in Pods, FetchFails(p) PROVE OpenInv'
  <2>1. UNCHANGED <<held, snap>>
    BY <1>3 DEF FetchFails
  <2> QED BY <1>0, <1>3, <2>1, FetchRows DEF Final, Purged
<1>4. ASSUME NEW p \in Pods, Ack(p) \/ HandleEventFailure(p) PROVE OpenInv'
  <2>1. held' = [held EXCEPT ![p] = @ \ {cur[p]}] /\ snap' = [snap EXCEPT ![p][cur[p]] = 0]
    BY <1>4 DEF Ack, HandleEventFailure, FinishCurrent
  <2>2. \A q \in Pods : \A e \in held'[q] : snap'[q][e] = snap[q][e] /\ e \in held[q]
    BY <1>0, <2>1
  <2>3. HandleEventFailure(p) /\ HasRow(cur[p]) =>
          /\ row'[cur[p]] = Failed(row[cur[p]], snap[p][cur[p]] + 1)
          /\ cur[p] \in Events /\ cur[p] \in held[p]
    BY <1>0, FinishRows DEF HandleEventFailure, WhereId
  <2>4. HandleEventFailure(p) /\ HasRow(cur[p]) /\ row'[cur[p]].status \notin Final \cup {Purged} =>
          row'[cur[p]].retryCount < MaxRetries
    <3>1. SUFFICES ASSUME HandleEventFailure(p), HasRow(cur[p]), row'[cur[p]].status \notin Final \cup {Purged}
                   PROVE  row'[cur[p]].retryCount < MaxRetries
      OBVIOUS
    <3>2. snap[p][cur[p]] + 1 \in Nat /\ row[cur[p]] \in Row
      BY <1>0, <2>3, <3>1
    <3> QED BY <1>0, <2>3, <3>1, <3>2, RowFields DEF Final
  <2> QED BY <1>0, <1>4, <2>1, <2>2, <2>4, FinishRows DEF Final, Purged
<1>5. ASSUME NEW p \in Pods, FailureWriteFails(p) \/ Crash(p) PROVE OpenInv'
  <2>1. /\ UNCHANGED row /\ held' = [held EXCEPT ![p] = {}]
        /\ \A q \in Pods : q # p => snap'[q] = snap[q]
    BY <1>0, <1>5 DEF FailureWriteFails, Crash, Abandon
  <2> QED BY <1>0, <2>1
<1>6. ASSUME NEW e \in Events, EmitAsync(e) PROVE OpenInv'
  <2>1. UNCHANGED <<held, snap>> /\ row[e].status = Absent
    BY <1>6 DEF EmitAsync, BizInv
  <2> QED BY <1>0, <1>6, <2>1, EmitRows DEF Final, Purged, Absent
<1>7. ASSUME NEW e \in Events, CleanupRow(e) PROVE OpenInv'
  <2>1. UNCHANGED <<held, snap>>
    BY <1>7 DEF CleanupRow
  <2> QED BY <1>0, <1>7, <2>1, CleanupRows
<1>8. ASSUME NEW e \in Events, BackoffElapses(e) \/ OrphanExpires(e) \/ BatchOverruns(e)
      PROVE OpenInv'
  <2>1. UNCHANGED <<held, snap>>
    BY <1>8 DEF BackoffElapses, OrphanExpires, BatchOverruns
  <2> QED BY <1>0, <1>8, <2>1, ClockRows
<1>9. ASSUME UNCHANGED <<row, held, snap>> PROVE OpenInv'
  BY <1>9
<1> QED
  BY StepKinds, <1>1, <1>2, <1>3, <1>4, <1>5, <1>6, <1>7, <1>8, <1>9
  DEF FetchNothing, HandlerRuns, HandlerThrows, MarkAsProcessed, MarkFails, AckFails, ToCatch,
      ProcessEvent, ProcessUnchecked, BusinessCommit, EmitLost, CleanupMark, vars

\* What pods still have left of e only shrinks when no pod starts to hold it.
LEMMA LeftShrinks ==
  ASSUME NEW e, IsFiniteSet(PodsLeft(e)),
         \A q \in Pods, i \in 1 .. MaxRetries : HasLeft(q, i, e)' => HasLeft(q, i, e)
  PROVE  /\ PodsLeft(e)' \subseteq PodsLeft(e)
         /\ IsFiniteSet(PodsLeft(e)')
         /\ Cardinality(PodsLeft(e)') <= Cardinality(PodsLeft(e))
<1>1. PodsLeft(e)' \subseteq PodsLeft(e)
  BY DEF PodsLeft
<1> QED BY <1>1, FS_Subset

\* What the row has left depends on the row and on who represents it.
LEMMA RowKeeps ==
  ASSUME TypeOK, OpenInv, NEW e \in Events,
         row'[e] = row[e], Represented(e) => Represented(e)'
  PROVE  RowLeft(e)' <= RowLeft(e) /\ RowLeft(e) \in Nat /\ RowLeft(e)' \in Nat
<1>1. row[e].retryCount \in Nat /\ MaxRetries \in Nat
  BY ConstantsAssumption, RowFields DEF TypeOK
<1>2. Claimable(e) => row[e].retryCount < MaxRetries
  BY DEF Claimable, OpenInv, Final, Absent, Purged
<1>3. Claimable(e)' => Claimable(e)
  BY DEF Claimable
<1> QED BY <1>1, <1>2, <1>3 DEF RowLeft

LEMMA RowLeftNat ==
  ASSUME TypeOK, OpenInv, TypeOK', OpenInv', NEW e \in Events
  PROVE  /\ RowLeft(e) \in Nat /\ RowLeft(e) <= MaxRetries
         /\ RowLeft(e)' \in Nat /\ RowLeft(e)' <= MaxRetries
<1>1. row[e].retryCount \in Nat /\ row'[e].retryCount \in Nat /\ MaxRetries \in Nat
  BY ConstantsAssumption, RowFields DEF TypeOK
<1>2. Claimable(e) => row[e].retryCount < MaxRetries
  BY DEF Claimable, OpenInv, Final, Absent, Purged
<1>3. Claimable(e)' => row'[e].retryCount < MaxRetries
  BY DEF Claimable, OpenInv, Final, Absent, Purged
<1> QED BY <1>1, <1>2, <1>3 DEF RowLeft

LEMMA BudgetGrows ==
  ASSUME TypeOK, TypeOK'
  PROVE  /\ Budget \in Nat /\ Budget' \in Nat
         /\ overruns' = overruns /\ faults' = faults => Budget' = Budget
         /\ overruns' = overruns /\ faults' = faults + 1 => Budget' = Budget + 1
         /\ overruns' = overruns + 1 /\ faults' = faults => Budget' = Budget + MaxRetries
<1> DEFINE b(o, f) == MaxRetries * (1 + o) + f
<1>1. MaxRetries \in Nat /\ overruns \in Nat /\ faults \in Nat /\ overruns' \in Nat /\ faults' \in Nat
  BY ConstantsAssumption DEF TypeOK
<1>2. ASSUME NEW o \in Nat, NEW f \in Nat
      PROVE  /\ b(o, f) \in Nat
             /\ b(o, f + 1) = b(o, f) + 1
             /\ b(o + 1, f) = b(o, f) + MaxRetries
  <2>1. \A m, n \in Nat : m * n \in Nat /\ m * (1 + (n + 1)) = m * (1 + n) + m
    OBVIOUS
  <2>2. MaxRetries * (1 + o) \in Nat /\ MaxRetries * (1 + (o + 1)) = MaxRetries * (1 + o) + MaxRetries
    BY <1>1, <2>1
  <2> QED BY <1>1, <2>2
<1>3. Budget = b(overruns, faults) /\ Budget' = b(overruns', faults')
  BY DEF Budget
<1> HIDE DEF b
<1>4. b(overruns, faults) \in Nat /\ b(overruns', faults') \in Nat
  BY <1>1, <1>2
<1>5. ASSUME overruns' = overruns, faults' = faults + 1 PROVE Budget' = Budget + 1
  BY <1>1, <1>2, <1>3, <1>5
<1>6. ASSUME overruns' = overruns + 1, faults' = faults PROVE Budget' = Budget + MaxRetries
  BY <1>1, <1>2, <1>3, <1>6
<1>7. ASSUME overruns' = overruns, faults' = faults PROVE Budget' = Budget
  BY <1>3, <1>7
<1> QED BY <1>3, <1>4, <1>5, <1>6, <1>7

LEMMA BudgetStep ==
  ASSUME TypeOK, PodInv, BizInv, OpenInv, BudgetInv, [Next]_vars,
         TypeOK', OpenInv', NEW e \in Events
  PROVE  IsFiniteSet(PodsLeft(e)') /\ Load(e)' <= Budget'
<1> USE DEF rowVars, podVars, history, budgets
<1> DEFINE C == Cardinality(PodsLeft(e))
           D == Cardinality(PodsLeft(e)')
<1>0. /\ row \in [Events -> Row] /\ held \in [Pods -> SUBSET Events]
      /\ snap \in [Pods -> [Events -> Nat]] /\ cur \in [Pods -> Events \cup {NoEvent}]
      /\ phase \in [Pods -> Phases]
      /\ runs \in [Events -> Nat] /\ fails \in [Events -> Nat]
      /\ faults \in Nat /\ overruns \in Nat
      /\ \A f \in Events : row[f].retryCount \in Nat
      /\ \A p \in Pods : phase[p] \in {"idle", "fetch"} => held[p] = {}
      /\ \A p \in Pods : phase[p] \in Working => cur[p] \in held[p]
      /\ MaxRetries \in Nat \ {0}
      /\ \A p \in Pods : e \in held[p] => snap[p][e] < MaxRetries
  BY ConstantsAssumption, RowFields DEF TypeOK, PodInv, OpenInv
<1>a. /\ IsFiniteSet(PodsLeft(e)) /\ C \in Nat
      /\ runs[e] + fails[e] + RowLeft(e) + C <= Budget
      /\ RowLeft(e) \in Nat /\ RowLeft(e)' \in Nat
      /\ RowLeft(e) <= MaxRetries /\ RowLeft(e)' <= MaxRetries
      /\ runs[e] \in Nat /\ fails[e] \in Nat /\ runs'[e] \in Nat /\ fails'[e] \in Nat
      /\ Budget \in Nat /\ Budget' \in Nat
  BY RowLeftNat, BudgetGrows, FS_CardinalityType DEF BudgetInv, Load, TypeOK
<1>b. ASSUME IsFiniteSet(PodsLeft(e)'),
             (runs'[e] + fails'[e] + RowLeft(e)' + D) + Budget
               <= (runs[e] + fails[e] + RowLeft(e) + C) + Budget'
      PROVE  IsFiniteSet(PodsLeft(e)') /\ Load(e)' <= Budget'
  <2>1. D \in Nat
    BY <1>b, FS_CardinalityType
  <2> HIDE DEF C, D
  <2>2. runs'[e] + fails'[e] + RowLeft(e)' + D <= Budget'
    BY <1>a, <1>b, <2>1
  <2> QED BY <1>b, <2>2 DEF Load, D
\* A step that attempts nothing and frees nothing.
<1>c. ASSUME runs'[e] = runs[e], fails'[e] = fails[e], RowLeft(e)' <= RowLeft(e),
             \A q \in Pods, i \in 1 .. MaxRetries : HasLeft(q, i, e)' => HasLeft(q, i, e),
             overruns' = overruns, faults' = faults \/ faults' = faults + 1
      PROVE  IsFiniteSet(PodsLeft(e)') /\ Load(e)' <= Budget'
  <2>1. IsFiniteSet(PodsLeft(e)') /\ D <= C /\ D \in Nat
    BY <1>a, <1>c, LeftShrinks, FS_CardinalityType
  <2>2. Budget <= Budget'
    BY <1>0, <1>a, <1>c, BudgetGrows
  <2> HIDE DEF C, D
  <2>3. (runs'[e] + fails'[e] + RowLeft(e)' + D) + Budget
          <= (runs[e] + fails[e] + RowLeft(e) + C) + Budget'
    BY <1>a, <1>c, <2>1, <2>2
  <2> QED BY <1>b, <2>1, <2>3 DEF C, D
\* A pod uses up one attempt, or a fault hides that it does.
<1>d. ASSUME NEW p \in Pods, phase[p] \in Working, UNCHANGED <<row, held, snap, cur, overruns>>,
             \A q \in Pods : q # p => phase'[q] = phase[q],
             phase'[p] \in {"mark", "ack", "fail"},
             cur[p] # e => runs'[e] = runs[e] /\ fails'[e] = fails[e],
             cur[p] = e => runs'[e] + fails'[e] <= runs[e] + fails[e] + 1,
             phase[p] = "handle" \/ faults' = faults + 1
                \/ (runs' = runs /\ fails' = fails),
             faults' = faults \/ faults' = faults + 1
      PROVE  IsFiniteSet(PodsLeft(e)') /\ Load(e)' <= Budget'
  <2>1. RowLeft(e)' <= RowLeft(e)
    BY <1>d, RowKeeps DEF Represented
  <2>2. \A q \in Pods : Spent(q, e)' >= Spent(q, e) /\ Spent(q, e) \in {0, 1} /\ Spent(q, e)' \in {0, 1}
    BY <1>d DEF Spent
  <2>3. \A q \in Pods, i \in 1 .. MaxRetries : HasLeft(q, i, e)' => HasLeft(q, i, e)
    <3> SUFFICES ASSUME NEW q \in Pods, NEW i \in 1 .. MaxRetries, HasLeft(q, i, e)'
                 PROVE  HasLeft(q, i, e)
      OBVIOUS
    <3>1. e \in held[q] /\ i > snap[q][e] + Spent(q, e)' /\ snap[q][e] \in Nat
      BY <1>0, <1>d DEF HasLeft
    <3> QED BY <2>2, <3>1 DEF HasLeft
  <2>4. CASE cur[p] # e \/ (runs' = runs /\ fails' = fails)
    BY <1>c, <1>d, <2>1, <2>3, <2>4
  <2>5. CASE cur[p] = e /\ faults' = faults + 1
    <3>1. IsFiniteSet(PodsLeft(e)') /\ D <= C /\ D \in Nat
      BY <1>a, <2>3, LeftShrinks, FS_CardinalityType
    <3>2. Budget' = Budget + 1
      BY <1>0, <1>d, <2>5, BudgetGrows
    <3> HIDE DEF C, D
    <3>3. (runs'[e] + fails'[e] + RowLeft(e)' + D) + Budget
            <= (runs[e] + fails[e] + RowLeft(e) + C) + Budget'
      BY <1>a, <1>d, <2>1, <2>5, <3>1, <3>2
    <3> QED BY <1>b, <3>1, <3>3 DEF C, D
  <2>6. CASE cur[p] = e /\ phase[p] = "handle"
    <3> DEFINE x == <<p, snap[p][e] + 1>>
    <3>1. e \in held[p] /\ snap[p][e] \in Nat /\ snap[p][e] < MaxRetries
      BY <1>0, <1>d, <2>6
    <3>2. Spent(p, e) = 0 /\ Spent(p, e)' = 1
      BY <1>d, <2>6 DEF Spent
    <3>3. x \in PodsLeft(e)
      BY <1>0, <3>1, <3>2 DEF PodsLeft, HasLeft
    <3>4. x \notin PodsLeft(e)'
      BY <1>d, <3>1, <3>2 DEF PodsLeft, HasLeft
    <3>5. IsFiniteSet({x}) /\ Cardinality({x}) = 1
      BY FS_Singleton
    <3>6. PodsLeft(e)' \subseteq PodsLeft(e) /\ IsFiniteSet(PodsLeft(e)')
      BY <1>a, <2>3, LeftShrinks
    <3> HIDE DEF x
    <3>7. D + 1 <= C /\ D \in Nat
      BY <1>a, <3>3, <3>4, <3>5, <3>6, Loses
    <3>8. Budget <= Budget'
      BY <1>0, <1>a, <1>d, BudgetGrows
    <3> HIDE DEF C, D
    <3>9. (runs'[e] + fails'[e] + RowLeft(e)' + D) + Budget
            <= (runs[e] + fails[e] + RowLeft(e) + C) + Budget'
      BY <1>a, <1>d, <2>1, <2>6, <3>7, <3>8
    <3> QED BY <1>b, <3>6, <3>9 DEF C, D
  <2> QED BY <1>d, <2>4, <2>5, <2>6
<1>1. ASSUME NEW p \in Pods, Poll(p) PROVE IsFiniteSet(PodsLeft(e)') /\ Load(e)' <= Budget'
  <2>1. /\ UNCHANGED <<held, snap, cur, runs, fails, faults, overruns>>
        /\ phase[p] = "idle" /\ phase' = [phase EXCEPT ![p] = "fetch"]
    BY <1>1 DEF Poll
  <2>2. \A q \in Pods : Spent(q, e)' = Spent(q, e)
    BY <1>0, <2>1 DEF Spent
  <2>3. \A q \in Pods, i \in 1 .. MaxRetries : HasLeft(q, i, e)' => HasLeft(q, i, e)
    BY <2>1, <2>2 DEF HasLeft
  <2>4. CASE e \in Stuck
    <3>1. RowLeft(e) = MaxRetries - row[e].retryCount /\ RowLeft(e)' = MaxRetries - row'[e].retryCount
      BY <1>1, <2>4, PollRows DEF Stuck, RowLeft, Claimable
    <3>2. row'[e].retryCount = row[e].retryCount
      BY <1>1, <2>4, PollRows
    <3>3. RowLeft(e)' <= RowLeft(e)
      BY <1>a, <3>1, <3>2
    <3> QED BY <1>c, <2>1, <2>3, <3>3
  <2>5. CASE e \notin Stuck
    <3>1. RowLeft(e)' <= RowLeft(e)
      BY <1>1, <2>1, <2>5, PollRows, RowKeeps DEF Represented
    <3> QED BY <1>c, <2>1, <2>3, <3>1
  <2> QED BY <2>4, <2>5
<1>2. ASSUME NEW p \in Pods, Fetch(p) PROVE IsFiniteSet(PodsLeft(e)') /\ Load(e)' <= Budget'
  <2>1. /\ UNCHANGED <<cur, runs, fails, faults, overruns>>
        /\ phase[p] = "fetch" /\ phase' = [phase EXCEPT ![p] = "loop"] /\ held[p] = {}
        /\ held' = [held EXCEPT ![p] = NextBatch] /\ NextBatch \subseteq Events
        /\ snap' = [snap EXCEPT ![p] =
             [f \in Events |-> IF f \in NextBatch THEN row[f].retryCount ELSE 0]]
        /\ row' = ClaimRows(NextBatch)
    BY <1>0, <1>2 DEF Fetch, NextBatch, Fetchable
  <2>2. \A q \in Pods : Spent(q, e)' = Spent(q, e)
    BY <1>0, <2>1 DEF Spent
  <2>3. \A q \in Pods : q # p => held'[q] = held[q] /\ snap'[q] = snap[q]
    BY <1>0, <2>1
  <2>4. CASE e \notin NextBatch
    <3>1. e \notin held'[p] /\ e \notin held[p] /\ row'[e] = row[e]
      BY <1>0, <2>1, <2>4 DEF ClaimRows
    <3>2. \A q \in Pods, i \in 1 .. MaxRetries : HasLeft(q, i, e)' => HasLeft(q, i, e)
      BY <2>2, <2>3, <3>1 DEF HasLeft
    <3>3. RowLeft(e)' <= RowLeft(e)
      BY <2>3, <3>1, RowKeeps DEF Represented
    <3> QED BY <1>c, <2>1, <3>2, <3>3
  <2>5. CASE e \in NextBatch
    <3> DEFINE a == row[e].retryCount
               B == {p} \X (a + 1 .. MaxRetries)
    <3>1. /\ e \in held'[p] /\ snap'[p][e] = a
          /\ row[e].status \in {"pending", "failed"} /\ a \in Nat /\ a < MaxRetries
          /\ row'[e] = Claimed(row[e])
      BY <1>0, <2>1, <2>5 DEF NextBatch, Fetchable, ClaimRows, OpenInv, Final, Purged
    <3>2. row'[e].status = "processing" /\ row'[e].stale = FALSE /\ row'[e].retryCount = a
      BY <1>0, <3>1 DEF Claimed, Row
    <3>3. RowLeft(e) = MaxRetries - a
      BY <3>1 DEF RowLeft, Claimable
    <3>4. RowLeft(e)' = 0
      BY <3>1, <3>2 DEF RowLeft, Claimable, Represented, Absent
    <3>5. IsFiniteSet(B) /\ Cardinality(B) = MaxRetries - a
      <4>1. a \in Nat /\ a <= MaxRetries
        BY <1>0, <3>1
      <4> HIDE DEF a
      <4> QED BY <4>1, AttemptsFrom
    <3>6. PodsLeft(e)' \subseteq PodsLeft(e) \cup B
      <4> SUFFICES ASSUME NEW q \in Pods, NEW i \in 1 .. MaxRetries, HasLeft(q, i, e)'
                   PROVE  HasLeft(q, i, e) \/ (q = p /\ i \in a + 1 .. MaxRetries)
        BY DEF PodsLeft
      <4>1. CASE q # p
        BY <2>2, <2>3, <4>1 DEF HasLeft
      <4>2. CASE q = p
        <5>1. i > a + Spent(p, e)' /\ Spent(p, e)' \in {0, 1}
          BY <3>1, <4>2 DEF HasLeft, Spent
        <5> QED BY <1>0, <3>1, <4>2, <5>1
      <4> QED BY <4>1, <4>2
    <3> HIDE DEF B
    <3>7. IsFiniteSet(PodsLeft(e)') /\ D <= C + Cardinality(B) /\ D \in Nat
      BY <1>a, <3>5, <3>6, Gains
    <3>8. Budget' = Budget
      BY <2>1, BudgetGrows
    <3> HIDE DEF C, D, a
    <3>9. (runs'[e] + fails'[e] + RowLeft(e)' + D) + Budget
            <= (runs[e] + fails[e] + RowLeft(e) + C) + Budget'
      BY <1>0, <1>a, <2>1, <3>1, <3>3, <3>4, <3>5, <3>7, <3>8
    <3> QED BY <1>b, <3>7, <3>9 DEF C, D
  <2> QED BY <2>4, <2>5
<1>3. ASSUME NEW p \in Pods, FetchFails(p) PROVE IsFiniteSet(PodsLeft(e)') /\ Load(e)' <= Budget'
  <2>1. /\ UNCHANGED <<held, snap, cur, runs, fails, overruns>> /\ faults' = faults + 1
        /\ phase[p] = "fetch" /\ phase' = [phase EXCEPT ![p] = "idle"]
    BY <1>3 DEF FetchFails, Fault
  <2>2. \A q \in Pods : Spent(q, e)' = Spent(q, e)
    BY <1>0, <2>1 DEF Spent
  <2>3. \A q \in Pods, i \in 1 .. MaxRetries : HasLeft(q, i, e)' => HasLeft(q, i, e)
    BY <2>1, <2>2 DEF HasLeft
  <2>4. RowLeft(e)' <= RowLeft(e)
    <3>1. CASE row'[e] = row[e]
      BY <2>1, <3>1, RowKeeps DEF Represented
    <3>2. CASE row'[e] # row[e]
      <4>1. row[e].status \in {"pending", "failed"} /\ row'[e].retryCount = row[e].retryCount
        BY <1>3, <3>2, FetchRows
      <4>2. RowLeft(e) = MaxRetries - row[e].retryCount
        BY <4>1 DEF RowLeft, Claimable
      <4>3. RowLeft(e)' = MaxRetries - row[e].retryCount \/ RowLeft(e)' = 0
        BY <4>1 DEF RowLeft
      <4> QED BY <1>a, <4>2, <4>3
    <3> QED BY <3>1, <3>2
  <2> QED BY <1>c, <2>1, <2>3, <2>4
<1>4. ASSUME NEW p \in Pods, NEW f \in Events, ProcessEvent(p, f) \/ ProcessUnchecked(p, f)
      PROVE  IsFiniteSet(PodsLeft(e)') /\ Load(e)' <= Budget'
  <2>1. /\ UNCHANGED <<row, held, snap, runs, fails, overruns>>
        /\ faults' = faults \/ faults' = faults + 1
        /\ phase[p] = "loop" /\ \A q \in Pods : q # p => phase'[q] = phase[q] /\ cur'[q] = cur[q]
    BY <1>4 DEF ProcessEvent, ProcessUnchecked, Fault, TypeOK
  <2>2. \A q \in Pods : Spent(q, e)' >= Spent(q, e) /\ Spent(q, e) \in {0, 1} /\ Spent(q, e)' \in {0, 1}
    BY <2>1 DEF Spent
  <2>3. \A q \in Pods, i \in 1 .. MaxRetries : HasLeft(q, i, e)' => HasLeft(q, i, e)
    <3> SUFFICES ASSUME NEW q \in Pods, NEW i \in 1 .. MaxRetries, HasLeft(q, i, e)'
                 PROVE  HasLeft(q, i, e)
      OBVIOUS
    <3>1. e \in held[q] /\ i > snap[q][e] + Spent(q, e)' /\ snap[q][e] \in Nat
      BY <1>0, <2>1 DEF HasLeft
    <3> QED BY <2>2, <3>1 DEF HasLeft
  <2>4. RowLeft(e)' <= RowLeft(e)
    BY <2>1, RowKeeps DEF Represented
  <2> QED BY <1>c, <2>1, <2>3, <2>4
<1>5. ASSUME NEW p \in Pods, HandlerRuns(p) \/ HandlerThrows(p) \/ MarkAsProcessed(p)
                             \/ MarkFails(p) \/ AckFails(p)
      PROVE  IsFiniteSet(PodsLeft(e)') /\ Load(e)' <= Budget'
  <2>1. /\ UNCHANGED <<row, held, snap, cur, overruns>> /\ phase[p] \in Working
        /\ \A q \in Pods : q # p => phase'[q] = phase[q]
        /\ phase'[p] \in {"mark", "ack", "fail"}
        /\ faults' = faults \/ faults' = faults + 1
        /\ phase[p] = "handle" \/ faults' = faults + 1 \/ (runs' = runs /\ fails' = fails)
    BY <1>0, <1>5 DEF HandlerRuns, HandlerThrows, MarkAsProcessed, MarkFails, AckFails, ToCatch,
                     Fault, Working
  <2>2. \/ runs' = [runs EXCEPT ![cur[p]] = @ + 1] /\ fails' = fails
        \/ fails' = [fails EXCEPT ![cur[p]] = @ + 1] /\ runs' = runs
        \/ runs' = runs /\ fails' = fails
    BY <1>5 DEF HandlerRuns, HandlerThrows, MarkAsProcessed, MarkFails, AckFails, ToCatch
  <2>3. /\ cur[p] # e => runs'[e] = runs[e] /\ fails'[e] = fails[e]
        /\ cur[p] = e => runs'[e] + fails'[e] <= runs[e] + fails[e] + 1
    BY <1>0, <2>2
  <2> QED BY <1>d, <2>1, <2>3
\* A pod lets go of what it holds of e: what it has left is gone.
<1>6. ASSUME NEW p \in Pods, e \in held[p], e \notin held'[p], runs'[e] = runs[e], fails'[e] = fails[e],
             \A q \in Pods : q # p => /\ e \in held'[q] => e \in held[q] /\ snap'[q][e] = snap[q][e]
                                      /\ Spent(q, e)' = Spent(q, e)
      PROVE  /\ IsFiniteSet(PodsLeft(e)') /\ D \in Nat
             /\ D + (MaxRetries - (snap[p][e] + Spent(p, e))) <= C
  <2> DEFINE a == snap[p][e] + Spent(p, e)
             B == {p} \X (a + 1 .. MaxRetries)
  <2>1. a \in Nat /\ a <= MaxRetries
    BY <1>0, <1>6 DEF Spent
  <2>2. PodsLeft(e)' \subseteq PodsLeft(e)
    <3> SUFFICES ASSUME NEW q \in Pods, NEW i \in 1 .. MaxRetries, HasLeft(q, i, e)'
                 PROVE  HasLeft(q, i, e)
      BY DEF PodsLeft
    <3> QED BY <1>6 DEF HasLeft
  <2>3. PodsLeft(e)' \cap B = {}
    BY <1>6 DEF PodsLeft, HasLeft
  <2>4. B \subseteq PodsLeft(e)
    <3> SUFFICES ASSUME NEW i \in a + 1 .. MaxRetries
                 PROVE  i \in 1 .. MaxRetries /\ HasLeft(p, i, e)
      BY DEF PodsLeft
    <3> QED BY <1>0, <1>6, <2>1 DEF HasLeft
  <2>5. IsFiniteSet(B) /\ Cardinality(B) = MaxRetries - a
    <3> HIDE DEF a
    <3> QED BY <2>1, AttemptsFrom
  <2> HIDE DEF B
  <2>6. IsFiniteSet(PodsLeft(e)') /\ D + Cardinality(B) <= C /\ D \in Nat
    BY <1>a, <2>2, <2>3, <2>4, <2>5, Loses
  <2> QED BY <2>5, <2>6
<1>7. ASSUME NEW p \in Pods, Ack(p) \/ HandleEventFailure(p)
      PROVE  IsFiniteSet(PodsLeft(e)') /\ Load(e)' <= Budget'
  <2>1. /\ UNCHANGED <<runs, fails, faults, overruns>>
        /\ cur[p] \in held[p] /\ cur[p] \in Events /\ phase[p] \in {"ack", "fail"}
        /\ held' = [held EXCEPT ![p] = @ \ {cur[p]}]
        /\ snap' = [snap EXCEPT ![p][cur[p]] = 0]
        /\ cur' = [cur EXCEPT ![p] = NoEvent]
        /\ \A q \in Pods : q # p => phase'[q] = phase[q]
        /\ phase'[p] \in {"idle", "loop"}
    BY <1>0, <1>7, FinishRows DEF Ack, HandleEventFailure, FinishCurrent
  <2>2. \A q \in Pods : q # p => held'[q] = held[q] /\ snap'[q] = snap[q] /\ Spent(q, e)' = Spent(q, e)
    BY <1>0, <2>1 DEF Spent
  <2>3. CASE cur[p] # e
    <3>1. /\ e \in held'[p] <=> e \in held[p]
          /\ snap'[p][e] = snap[p][e] /\ Spent(p, e) = 0 /\ Spent(p, e)' = 0
      BY <1>0, <2>1, <2>3 DEF Spent
    <3>2. \A q \in Pods, i \in 1 .. MaxRetries : HasLeft(q, i, e)' => HasLeft(q, i, e)
      BY <2>2, <3>1 DEF HasLeft
    <3>3. row'[e] = row[e]
      BY <1>7, <2>3, FinishRows
    <3>4. RowLeft(e)' <= RowLeft(e)
      BY <2>2, <3>1, <3>3, RowKeeps DEF Represented
    <3> QED BY <1>c, <2>1, <3>2, <3>4
  <2>4. CASE cur[p] = e
    <3>1. e \in held[p] /\ e \notin held'[p] /\ Spent(p, e) = 1 /\ snap[p][e] \in Nat
      BY <1>0, <2>1, <2>4 DEF Spent
    <3>2. /\ IsFiniteSet(PodsLeft(e)') /\ D \in Nat
          /\ D + (MaxRetries - (snap[p][e] + 1)) <= C
      BY <1>6, <2>1, <2>2, <3>1
    <3> SUFFICES ASSUME HasRow(e)
                 PROVE  IsFiniteSet(PodsLeft(e)') /\ Load(e)' <= Budget'
      <4>1. CASE ~ HasRow(e)
        <5>1. row'[e] = row[e]
          BY <1>7, <2>4, <4>1, FinishRows
        <5>2. RowLeft(e)' = RowLeft(e)
          BY <4>1, <5>1 DEF RowLeft, Claimable, HasRow, Absent, Purged
        <5>3. \A q \in Pods, i \in 1 .. MaxRetries : HasLeft(q, i, e)' => HasLeft(q, i, e)
          BY <2>2, <3>1 DEF HasLeft
        <5> QED BY <1>a, <1>c, <2>1, <5>2, <5>3
      <4> QED BY <4>1
    <3>3. RowLeft(e)' <= MaxRetries - (snap[p][e] + 1)
      <4>1. CASE Ack(p)
        <5>1. RowLeft(e)' = 0
          BY <2>4, <4>1, FinishRows DEF RowLeft, Claimable, Absent
        <5> QED BY <1>0, <3>1, <5>1
      <4>2. CASE HandleEventFailure(p)
        <5>1. row'[e].retryCount = snap[p][e] + 1
          BY <2>4, <4>2, FinishRows
        <5> QED BY <1>0, <3>1, <5>1 DEF RowLeft
      <4> QED BY <1>7, <4>1, <4>2
    <3>4. Budget' = Budget
      BY <2>1, BudgetGrows
    <3> HIDE DEF C, D
    <3>5. (runs'[e] + fails'[e] + RowLeft(e)' + D) + Budget
            <= (runs[e] + fails[e] + RowLeft(e) + C) + Budget'
      BY <1>0, <1>a, <2>1, <3>1, <3>2, <3>3, <3>4
    <3> QED BY <1>b, <3>2, <3>5 DEF C, D
  <2> QED BY <2>3, <2>4
<1>8. ASSUME NEW p \in Pods, FailureWriteFails(p) \/ Crash(p)
      PROVE  IsFiniteSet(PodsLeft(e)') /\ Load(e)' <= Budget'
  <2>1. /\ UNCHANGED <<row, runs, fails, overruns>> /\ faults' = faults + 1
        /\ held' = [held EXCEPT ![p] = {}]
        /\ \A q \in Pods : q # p => snap'[q] = snap[q] /\ phase'[q] = phase[q] /\ cur'[q] = cur[q]
    BY <1>0, <1>8 DEF FailureWriteFails, Crash, Abandon, Fault
  <2>2. \A q \in Pods : q # p => held'[q] = held[q] /\ snap'[q] = snap[q] /\ Spent(q, e)' = Spent(q, e)
    BY <1>0, <2>1 DEF Spent
  <2>3. e \notin held'[p]
    BY <1>0, <2>1
  <2>4. CASE e \notin held[p] \/ snap[p][e] # row[e].retryCount
    <3>1. \A q \in Pods, i \in 1 .. MaxRetries : HasLeft(q, i, e)' => HasLeft(q, i, e)
      BY <2>2, <2>3 DEF HasLeft
    <3>2. RowLeft(e)' <= RowLeft(e)
      BY <2>1, <2>2, <2>4, RowKeeps DEF Represented
    <3> QED BY <1>c, <2>1, <3>1, <3>2
  <2>5. CASE e \in held[p] /\ snap[p][e] = row[e].retryCount
    <3>1. Spent(p, e) \in {0, 1} /\ snap[p][e] \in Nat /\ snap[p][e] < MaxRetries
      BY <1>0, <2>5 DEF Spent
    <3>2. /\ IsFiniteSet(PodsLeft(e)') /\ D \in Nat
          /\ D + (MaxRetries - (snap[p][e] + Spent(p, e))) <= C
      BY <1>6, <2>1, <2>2, <2>3, <2>5
    <3>3. RowLeft(e)' <= MaxRetries - snap[p][e]
      BY <1>0, <2>1, <2>5, <3>1 DEF RowLeft
    <3>4. Budget' = Budget + 1
      BY <2>1, BudgetGrows
    <3> HIDE DEF C, D
    <3>5. (runs'[e] + fails'[e] + RowLeft(e)' + D) + Budget
            <= (runs[e] + fails[e] + RowLeft(e) + C) + Budget'
      BY <1>0, <1>a, <2>1, <3>1, <3>2, <3>3, <3>4
    <3> QED BY <1>b, <3>2, <3>5 DEF C, D
  <2> QED BY <2>4, <2>5
\* The steps of the table and the clock: no pod moves.
<1>9. ASSUME UNCHANGED <<podVars, runs, fails>>, RowLeft(e)' <= RowLeft(e),
             overruns' = overruns, faults' = faults \/ faults' = faults + 1
      PROVE  IsFiniteSet(PodsLeft(e)') /\ Load(e)' <= Budget'
  <2>1. \A q \in Pods, i \in 1 .. MaxRetries : HasLeft(q, i, e)' => HasLeft(q, i, e)
    BY <1>9 DEF HasLeft, Spent
  <2> QED BY <1>c, <1>9, <2>1
<1>10. ASSUME NEW f \in Events, EmitAsync(f) PROVE IsFiniteSet(PodsLeft(e)') /\ Load(e)' <= Budget'
  <2>1. UNCHANGED <<podVars, runs, fails, faults, overruns>> /\ row[f].status = Absent
    BY <1>10 DEF EmitAsync, BizInv
  <2>2. RowLeft(e)' <= RowLeft(e)
    <3>1. CASE e = f
      BY <1>10, <1>a, <2>1, <3>1, EmitRows DEF RowLeft, Claimable
    <3>2. CASE e # f
      BY <1>10, <2>1, <3>2, EmitRows, RowKeeps DEF Represented
    <3> QED BY <3>1, <3>2
  <2> QED BY <1>9, <2>1, <2>2
<1>11. ASSUME NEW f \in Events, CleanupRow(f) PROVE IsFiniteSet(PodsLeft(e)') /\ Load(e)' <= Budget'
  <2>1. UNCHANGED <<podVars, runs, fails, faults, overruns>>
    BY <1>11 DEF CleanupRow
  <2>2. RowLeft(e)' <= RowLeft(e)
    <3>1. CASE e = f
      BY <1>11, <1>a, <3>1, CleanupRows DEF RowLeft, Claimable, Absent, Purged
    <3>2. CASE e # f
      BY <1>11, <2>1, <3>2, CleanupRows, RowKeeps DEF Represented
    <3> QED BY <3>1, <3>2
  <2> QED BY <1>9, <2>1, <2>2
<1>12. ASSUME NEW f \in Events, BackoffElapses(f) \/ OrphanExpires(f)
       PROVE  IsFiniteSet(PodsLeft(e)') /\ Load(e)' <= Budget'
  <2>1. UNCHANGED <<podVars, runs, fails, faults, overruns>>
    BY <1>12 DEF BackoffElapses, OrphanExpires
  <2>2. \A g \in Events : g # f => row'[g] = row[g]
    BY <1>0, <1>12 DEF BackoffElapses, OrphanExpires
  <2>3. RowLeft(e)' <= RowLeft(e)
    <3>1. CASE e = f
      <4>1. Claimable(e)
        BY <1>12, <3>1 DEF BackoffElapses, OrphanExpires, Claimable, Represented, Holders
      <4>2. row'[e].retryCount = row[e].retryCount
        BY <1>12, ClockRows
      <4>3. RowLeft(e) = MaxRetries - row[e].retryCount
        BY <4>1 DEF RowLeft
      <4>4. RowLeft(e)' = MaxRetries - row[e].retryCount \/ RowLeft(e)' = 0
        BY <4>2 DEF RowLeft
      <4> QED BY <1>a, <4>3, <4>4
    <3>2. CASE e # f
      BY <2>1, <2>2, <3>2, RowKeeps DEF Represented
    <3> QED BY <3>1, <3>2
  <2> QED BY <1>9, <2>1, <2>3
\* A claim that overruns while its pod works: the row has its attempts again.
<1>13. ASSUME NEW f \in Events, BatchOverruns(f) PROVE IsFiniteSet(PodsLeft(e)') /\ Load(e)' <= Budget'
  <2>1. UNCHANGED <<podVars, runs, fails, faults>> /\ overruns' = overruns + 1
    BY <1>13 DEF BatchOverruns
  <2>2. PodsLeft(e)' = PodsLeft(e)
    BY <2>1 DEF PodsLeft, HasLeft, Spent
  <2>3. Budget' = Budget + MaxRetries
    BY <2>1, BudgetGrows
  <2> HIDE DEF C, D
  <2>4. D = C
    BY <2>2 DEF C, D
  <2>5. (runs'[e] + fails'[e] + RowLeft(e)' + D) + Budget
          <= (runs[e] + fails[e] + RowLeft(e) + C) + Budget'
    BY <1>0, <1>a, <2>1, <2>3, <2>4
  <2> QED BY <1>a, <1>b, <2>2, <2>5 DEF C, D
<1>14. ASSUME UNCHANGED <<rowVars, podVars, runs, fails, overruns>>,
              faults' = faults \/ faults' = faults + 1
       PROVE  IsFiniteSet(PodsLeft(e)') /\ Load(e)' <= Budget'
  BY <1>9, <1>14, RowKeeps DEF Represented
<1>15. ASSUME NEW f \in Events, BusinessCommit(f) \/ EmitLost(f) \/ CleanupMark(f)
       PROVE  IsFiniteSet(PodsLeft(e)') /\ Load(e)' <= Budget'
  BY <1>14, <1>15 DEF BusinessCommit, EmitLost, CleanupMark, Fault
<1>16. ASSUME NEW p \in Pods, FetchNothing(p) PROVE IsFiniteSet(PodsLeft(e)') /\ Load(e)' <= Budget'
  <2>1. /\ UNCHANGED <<row, held, snap, cur, runs, fails, faults, overruns>>
        /\ phase[p] = "fetch" /\ phase' = [phase EXCEPT ![p] = "idle"]
    BY <1>16 DEF FetchNothing
  <2>2. \A q \in Pods : Spent(q, e)' = Spent(q, e)
    BY <1>0, <2>1 DEF Spent
  <2>3. \A q \in Pods, i \in 1 .. MaxRetries : HasLeft(q, i, e)' => HasLeft(q, i, e)
    BY <2>1, <2>2 DEF HasLeft
  <2>4. RowLeft(e)' <= RowLeft(e)
    BY <2>1, RowKeeps DEF Represented
  <2> QED BY <1>c, <2>1, <2>3, <2>4
<1>17. CASE UNCHANGED vars
  BY <1>14, <1>17 DEF vars
<1> QED
  BY StepKinds, <1>1, <1>2, <1>3, <1>4, <1>5, <1>7, <1>8, <1>10, <1>11, <1>12, <1>13, <1>15,
     <1>16, <1>17, Zenon

LEMMA BudgetInit == Init => OpenInv /\ BudgetInv
<1> SUFFICES ASSUME Init PROVE OpenInv /\ BudgetInv
  OBVIOUS
<1>1. MaxRetries \in Nat \ {0}
  BY ConstantsAssumption
<1>2. \A p \in Pods : held[p] = {}
  BY DEF Init
<1>3. \A e \in Events : /\ row[e].status = Absent /\ row[e].retryCount = 0
                        /\ runs[e] = 0 /\ fails[e] = 0
  BY DEF Init
<1>4. faults = 0 /\ overruns = 0
  BY DEF Init
<1>5. OpenInv
  BY <1>1, <1>2, <1>3 DEF OpenInv
<1>6. ASSUME NEW e \in Events PROVE IsFiniteSet(PodsLeft(e)) /\ Load(e) <= Budget
  <2>1. PodsLeft(e) = {}
    BY <1>2 DEF PodsLeft, HasLeft
  <2>2. IsFiniteSet(PodsLeft(e)) /\ Cardinality(PodsLeft(e)) = 0
    BY <2>1, FS_EmptySet
  <2>3. RowLeft(e) = MaxRetries
    BY <1>1, <1>3 DEF RowLeft, Claimable
  <2>4. Load(e) = MaxRetries
    BY <1>1, <1>3, <2>2, <2>3 DEF Load
  <2>5. Budget = MaxRetries
    BY <1>1, <1>4 DEF Budget
  <2> QED BY <1>1, <2>2, <2>4, <2>5
<1> QED BY <1>5, <1>6 DEF BudgetInv

LEMMA BudgetInvariance == Spec => [](TypeOK /\ OpenInv /\ BudgetInv)
<1>1. OutboxInv => TypeOK /\ PodInv /\ BizInv
  BY DEF OutboxInv
<1>2. ASSUME OutboxInv, OutboxInv', OpenInv, BudgetInv, [Next]_vars
      PROVE  OpenInv' /\ BudgetInv'
  <2>1. TypeOK /\ PodInv /\ BizInv /\ TypeOK'
    BY <1>2 DEF OutboxInv
  <2>2. OpenInv'
    BY <1>2, <2>1, OpenInvStep
  <2>3. \A e \in Events : IsFiniteSet(PodsLeft(e)') /\ Load(e)' <= Budget'
    BY <1>2, <2>1, <2>2, BudgetStep
  <2> QED BY <2>2, <2>3 DEF BudgetInv
<1> QED
  BY <1>1, <1>2, BudgetInit, Invariance, PTL DEF Spec

(***************************************************************************)
(* However the copies of the retry count are written over each other, the  *)
(* handler of an event is entered at most max_retries times, but for       *)
(* max_retries more after each claim that overran and one after each       *)
(* fault.                                                                  *)
(***************************************************************************)
THEOREM AttemptsBounded == Spec => []AttemptsAreBounded
<1>1. TypeOK /\ OpenInv /\ BudgetInv => AttemptsAreBounded
  <2> SUFFICES ASSUME TypeOK, OpenInv, BudgetInv, NEW e \in Events
               PROVE  runs[e] + fails[e] <= Budget
    BY DEF AttemptsAreBounded, Budget
  <2>1. row[e].retryCount \in Nat /\ MaxRetries \in Nat
    BY ConstantsAssumption, RowFields DEF TypeOK
  <2>2. Claimable(e) => row[e].retryCount < MaxRetries
    BY DEF Claimable, OpenInv, Final, Absent, Purged
  <2>3. RowLeft(e) \in Nat
    BY <2>1, <2>2 DEF RowLeft
  <2>4. Cardinality(PodsLeft(e)) \in Nat /\ Load(e) <= Budget
    BY FS_CardinalityType DEF BudgetInv
  <2>5. /\ runs[e] \in Nat /\ fails[e] \in Nat /\ faults \in Nat /\ overruns \in Nat
    BY DEF TypeOK
  <2>6. Budget \in Nat
    BY <2>1, <2>5 DEF Budget
  <2> QED BY <2>3, <2>4, <2>5, <2>6 DEF Load
<1> QED BY <1>1, BudgetInvariance, PTL
=============================================================================
