--------------------------- MODULE TenantDatabase ---------------------------
(***************************************************************************)
(* TenantScopedDatabase and RlsService: transactions that carry the tenant *)
(* in a setting of the database session, over the connections of a pool.   *)
(* The pool (pg-pool), the server and the policy of rls-policy.helper are  *)
(* modelled from how they are used.  In pg-pool, release is a property of  *)
(* the client that every acquisition replaces: a second call on an idle    *)
(* client throws, and one on a client that somebody else has acquired      *)
(* meanwhile frees it under their hands.                                   *)
(***************************************************************************)
EXTENDS Naturals, FiniteSets

CONSTANTS
  Callers,   \* the requests; each runs one callback
  TenantOf,  \* TenantOf[k]: the tenant of the context the request runs in
  Calls,     \* Calls[k]: what the request may call (bound)
  Clients,   \* the connections that may ever be opened
  PoolMax,   \* the connections the pool may have at a time
  Retries,   \* the attempts of transaction; execute is the same with one
  Monitor,   \* enableBleedingMonitor
  MaxFaults, \* bound: errors, lost connections
  None       \* no tenant, no client

Tenants == {TenantOf[k] : k \in Callers}

\* transaction and execute; executeWithTenant and executeInTransaction of RlsService;
\* a query of a repository, which goes to the pool.
Kinds == {"transaction", "execute", "withTenant", "inTransaction", "query"}

ASSUME TenantDatabaseAssumption ==
  /\ PoolMax \in Nat \ {0} /\ Retries \in Nat \ {0} /\ MaxFaults \in Nat
  /\ Monitor \in BOOLEAN
  /\ \A k \in Callers : Calls[k] \subseteq Kinds
  /\ None \notin Tenants /\ None \notin Clients

VARIABLES
  client,    \* client[c]: what the pool knows of it
  session,   \* session[c]: the server's side: the transaction, app.current_tenant,
             \* and the requests that have written in the transaction
  task,      \* task[k]: where the request is
  committed, \* the requests whose writes are committed
  faults,    \* for the bound
  disturbed, \* history: requests whose client was released, or also used, by another
  unsure     \* history: requests whose connection was lost during COMMIT

vars == <<client, session, task, committed, faults, disturbed, unsure>>

States == {"new", "idle", "out", "closed"}
Session == [tx : {"none", "open", "aborted"}, tenant : Tenants \cup {None},
            writes : SUBSET Callers, alive : BOOLEAN]
Steps == {"idle", "connect", "begin", "set", "work", "verify", "commit", "catch",
          "sleep", "finally", "returned", "failed"}
Task == [pc : Steps, kind : Kinds, client : Clients \cup {None}, attempt : Nat,
         saw : SUBSET Tenants, wrote : BOOLEAN, retry : BOOLEAN, result : BOOLEAN,
         swallowed : BOOLEAN]

Quiet == [tx |-> "none", tenant |-> None, writes |-> {}, alive |-> TRUE]
Idle == [pc |-> "idle", kind |-> "query", client |-> None, attempt |-> 0, saw |-> {},
         wrote |-> FALSE, retry |-> FALSE, result |-> FALSE, swallowed |-> FALSE]

\* The pool.  The client that start-up opens and releases is as good as a new one.
Init ==
  /\ client = [c \in Clients |-> "new"]
  /\ session = [c \in Clients |-> Quiet]
  /\ task = [k \in Callers |-> Idle]
  /\ committed = {}
  /\ faults = 0
  /\ disturbed = {} /\ unsure = {}

-----------------------------------------------------------------------------
(* Plausible slips, for the properties to catch.  No action uses them. *)

\* set_config(..., false): the setting outlives the transaction.
EndedButTenant(s) == [s EXCEPT !.tx = "none", !.writes = {}]

\* The client is released without ROLLBACK.
RolledBackNothing(s) == s

-----------------------------------------------------------------------------
(* The server. *)

\* The end of a transaction: the settings that were local to it are gone.
Ended(s) == [s EXCEPT !.tx = "none", !.tenant = None, !.writes = {}]

\* A statement is executed, if the connection is there.
Answers(c) == session[c].alive /\ session[c].tx # "aborted"

\* BEGIN within a transaction is a warning.
Begun(s) == [s EXCEPT !.tx = "open"]

\* set_config(..., true) and SET LOCAL last until the transaction ends; outside of
\* one they have no effect.
LocalTenant(s, t) == IF s.tx = "open" THEN [s EXCEPT !.tenant = t] ELSE s

\* A statement that fails aborts the transaction, if there is one.
Aborted(s) == IF s.tx = "open" THEN [s EXCEPT !.tx = "aborted"] ELSE s

-----------------------------------------------------------------------------
(* The pool. *)

\* The requests that have acquired c and not released it.
Users(c) ==
  {k \in Callers : task[k].client = c
     /\ task[k].pc \in {"begin", "set", "work", "verify", "commit", "catch", "finally"}}

Open == {c \in Clients : client[c] \in {"idle", "out"}}

\* connect: an idle client, or a new one.
Acquirable(c) ==
  \/ client[c] = "idle"
  \/ client[c] = "new" /\ Cardinality(Open) < PoolMax /\ \A d \in Open : client[d] # "idle"

\* A client whose connection is lost is not kept.
Released(c) == [client EXCEPT ![c] = IF session[c].alive THEN "idle" ELSE "closed"]

-----------------------------------------------------------------------------
(* A request. *)

\* A request of TenantScopedDatabase.
Scoped(k) == task[k].kind \in {"transaction", "execute"}

Goes(k, pc) == task' = [task EXCEPT ![k].pc = pc]

\* A statement of k fails, or its callback throws: the catch block is next.
Throws(k, retry) == task' = [task EXCEPT ![k].pc = "catch", ![k].retry = retry]

Call(k, kind) ==
  /\ task[k].pc = "idle"
  /\ kind \in Calls[k]
  /\ task' = [task EXCEPT ![k].pc = "connect", ![k].kind = kind]
  /\ UNCHANGED <<client, session, committed, faults, disturbed, unsure>>

\* pool.connect, of the first attempt or of a later one.
Connect(k, c) ==
  /\ task[k].pc = "connect"
  /\ Acquirable(c)
  /\ client' = [client EXCEPT ![c] = "out"]
  /\ task' = [task EXCEPT ![k].client = c, ![k].saw = {}, ![k].wrote = FALSE, ![k].retry = FALSE,
                ![k].swallowed = FALSE,
                ![k].pc = CASE task[k].kind = "query" -> "work"
                            [] task[k].kind = "withTenant" -> "set"
                            [] OTHER -> "begin"]
  /\ disturbed' = IF Users(c) # {} THEN disturbed \cup Users(c) \cup {k} ELSE disturbed
  /\ UNCHANGED <<session, committed, faults, unsure>>

\* connectionTimeoutMillis has passed, or the server refuses; no client to release.
ConnectFails(k) ==
  /\ task[k].pc = "connect"
  /\ faults < MaxFaults
  /\ faults' = faults + 1
  /\ Goes(k, "failed")
  /\ UNCHANGED <<client, session, committed, disturbed, unsure>>

\* One statement: the answer of the server, or an error.
Statement(k, pc, after, next) ==
  LET c == task[k].client
  IN  /\ task[k].pc = pc
      /\ IF Answers(c)
         THEN session' = [session EXCEPT ![c] = after] /\ Goes(k, next)
         ELSE UNCHANGED session /\ Throws(k, FALSE)
      /\ UNCHANGED <<client, committed, faults, disturbed, unsure>>

BeginTransaction(k) == Statement(k, "begin", Begun(session[task[k].client]), "set")

SetTenant(k) ==
  Statement(k, "set", LocalTenant(session[task[k].client], TenantOf[k]), "work")

\* A SELECT of the callback: the policy shows the rows of the tenant that is set.
\* Without one current_setting is an error.
Read(k) ==
  LET c == task[k].client
  IN  /\ task[k].pc = "work"
      /\ Answers(c) /\ session[c].tenant # None
      /\ task' = [task EXCEPT ![k].saw = @ \cup {session[c].tenant}]
      /\ UNCHANGED <<client, session, committed, faults, disturbed, unsure>>

\* An INSERT or UPDATE of the callback: WITH CHECK of the same policy.  Outside of a
\* transaction it is committed at once.
Modify(k) ==
  LET c == task[k].client
  IN  /\ task[k].pc = "work"
      /\ Answers(c) /\ session[c].tenant = TenantOf[k]
      /\ task' = [task EXCEPT ![k].wrote = TRUE]
      /\ IF session[c].tx = "open"
         THEN session' = [session EXCEPT ![c].writes = @ \cup {k}] /\ UNCHANGED committed
         ELSE committed' = committed \cup {k} /\ UNCHANGED session
      /\ UNCHANGED <<client, faults, disturbed, unsure>>

\* A statement the policy or the server refuses; the callback throws the error or
\* goes on.  drizzle wraps errors, so whether the code is seen is left open.
Refused(k, retry, swallow) ==
  LET c == task[k].client
  IN  /\ task[k].pc = "work"
      /\ IF Answers(c) /\ session[c].tenant = TenantOf[k]
         THEN faults < MaxFaults /\ faults' = faults + 1
         ELSE ~ retry /\ UNCHANGED faults
      /\ session' = IF session[c].alive THEN [session EXCEPT ![c] = Aborted(@)] ELSE session
      /\ IF swallow THEN task' = [task EXCEPT ![k].swallowed = TRUE] ELSE Throws(k, retry)
      /\ UNCHANGED <<client, committed, disturbed, unsure>>

\* The callback throws an error of its own.
CallbackThrows(k) ==
  /\ task[k].pc = "work"
  /\ faults < MaxFaults
  /\ faults' = faults + 1
  /\ Throws(k, FALSE)
  /\ UNCHANGED <<client, session, committed, disturbed, unsure>>

\* The callback ends.  There is nothing to commit for a query and in executeWithTenant.
CallbackEnds(k) ==
  /\ task[k].pc = "work"
  /\ task' = [task EXCEPT
       ![k].pc = CASE Scoped(k) /\ Monitor -> "verify"
                   [] task[k].kind \in {"query", "withTenant"} -> "finally"
                   [] OTHER -> "commit",
       ![k].result = task[k].kind \in {"query", "withTenant"}]
  /\ UNCHANGED <<client, session, committed, faults, disturbed, unsure>>

\* verifyTenantContext
VerifyTenantContext(k) ==
  LET c == task[k].client
  IN  /\ task[k].pc = "verify"
      /\ IF Answers(c) /\ session[c].tenant = TenantOf[k] THEN Goes(k, "commit") ELSE Throws(k, FALSE)
      /\ UNCHANGED <<client, session, committed, faults, disturbed, unsure>>

\* COMMIT of an aborted transaction rolls it back and is not an error.
Commit(k) ==
  LET c == task[k].client
  IN  /\ task[k].pc = "commit"
      /\ IF session[c].alive
         THEN /\ committed' = IF session[c].tx = "open" THEN committed \cup session[c].writes
                              ELSE committed
              /\ session' = [session EXCEPT ![c] = Ended(@)]
              /\ task' = [task EXCEPT ![k].pc = "finally", ![k].result = TRUE]
         ELSE Throws(k, FALSE) /\ UNCHANGED <<committed, session>>
      /\ UNCHANGED <<client, faults, disturbed, unsure>>

\* The server refuses COMMIT with 40001 and rolls back.
CommitRefused(k) ==
  LET c == task[k].client
  IN  /\ task[k].pc = "commit"
      /\ session[c].alive /\ session[c].tx = "open"
      /\ faults < MaxFaults
      /\ faults' = faults + 1
      /\ session' = [session EXCEPT ![c] = Ended(@)]
      /\ Throws(k, TRUE)
      /\ UNCHANGED <<client, committed, disturbed, unsure>>

\* The server commits, and the connection is lost before it says so.
CommitUnanswered(k) ==
  LET c == task[k].client
  IN  /\ task[k].pc = "commit"
      /\ session[c].alive /\ session[c].tx = "open"
      /\ faults < MaxFaults
      /\ faults' = faults + 1
      /\ committed' = committed \cup session[c].writes
      /\ unsure' = unsure \cup {k}
      /\ session' = [session EXCEPT ![c] = [Ended(@) EXCEPT !.alive = FALSE]]
      /\ Throws(k, FALSE)
      /\ UNCHANGED <<client, disturbed>>

\* The connection is lost; the server rolls back.
Break(c) ==
  /\ client[c] = "out" /\ session[c].alive
  /\ faults < MaxFaults
  /\ faults' = faults + 1
  /\ session' = [session EXCEPT ![c] = [Ended(@) EXCEPT !.alive = FALSE]]
  /\ UNCHANGED <<client, task, committed, disturbed, unsure>>

-----------------------------------------------------------------------------
(* The catch and finally blocks. *)

RolledBack(s) == IF s.alive THEN Ended(s) ELSE s

MayRetry(k) ==
  task[k].kind = "transaction" /\ task[k].retry /\ task[k].attempt + 1 < Retries

\* A query and executeWithTenant have no catch block.
HasCatch(k) == Scoped(k) \/ task[k].kind = "inTransaction"

\* The ROLLBACK of the catch block, whether it succeeds or not; then, if there is to
\* be another attempt, the first release, and a pause.
Rollback(k) ==
  LET c == task[k].client
      pauses == MayRetry(k) /\ client[c] = "out"
  IN  /\ task[k].pc = "catch"
      /\ session' = IF HasCatch(k) THEN [session EXCEPT ![c] = RolledBack(@)] ELSE session
      /\ client' = IF pauses THEN Released(c) ELSE client
      /\ disturbed' = IF pauses THEN disturbed \cup (Users(c) \ {k}) ELSE disturbed
      /\ Goes(k, IF pauses THEN "sleep" ELSE "finally")
      /\ UNCHANGED <<committed, faults, unsure>>

\* continue runs the finally block: the second release of the client.
WakeUp(k) ==
  LET c == task[k].client
  IN  /\ task[k].pc = "sleep"
      /\ IF client[c] = "out"
         THEN /\ client' = Released(c)
              /\ disturbed' = disturbed \cup Users(c)
              /\ task' = [task EXCEPT ![k].pc = "connect", ![k].attempt = @ + 1]
         ELSE UNCHANGED <<client, disturbed>> /\ Goes(k, "failed")
      /\ UNCHANGED <<session, committed, faults, unsure>>

\* The finally block; an error of release replaces the result.
Finally(k) ==
  LET c == task[k].client
  IN  /\ task[k].pc = "finally"
      /\ IF client[c] = "out"
         THEN /\ client' = Released(c)
              /\ disturbed' = disturbed \cup (Users(c) \ {k})
              /\ Goes(k, IF task[k].result THEN "returned" ELSE "failed")
         ELSE UNCHANGED <<client, disturbed>> /\ Goes(k, "failed")
      /\ UNCHANGED <<session, committed, faults, unsure>>

-----------------------------------------------------------------------------
Callback(k) ==
  \/ Read(k)
  \/ Modify(k)
  \/ \E retry, swallow \in BOOLEAN : Refused(k, retry, swallow)
  \/ CallbackThrows(k)
  \/ CallbackEnds(k)

Ends(k) == Commit(k) \/ CommitRefused(k) \/ CommitUnanswered(k) \/ Rollback(k) \/ WakeUp(k) \/ Finally(k)

Next ==
  \/ \E k \in Callers :
       \/ \E kind \in Kinds : Call(k, kind)
       \/ \E c \in Clients : Connect(k, c)
       \/ ConnectFails(k)
       \/ BeginTransaction(k)
       \/ SetTenant(k)
       \/ Callback(k)
       \/ VerifyTenantContext(k)
       \/ Ends(k)
  \/ \E c \in Clients : Break(c)

Spec == Init /\ [][Next]_vars

-----------------------------------------------------------------------------
TypeOK ==
  /\ client \in [Clients -> States]
  /\ session \in [Clients -> Session]
  /\ task \in [Callers -> Task]
  /\ committed \subseteq Callers
  /\ faults \in 0 .. MaxFaults
  /\ disturbed \subseteq Callers /\ unsure \subseteq Callers

\* A callback sees rows of its own tenant only, whatever failed before on the
\* connection it was given: unless it was not the only one to use it.
SeesOwnTenant ==
  \A k \in Callers : task[k].saw \subseteq {TenantOf[k]} \/ k \in disturbed

\* A request that is told of success has its writes committed, and one that is
\* told of an error has none: unless its connection was used by another, its
\* COMMIT was not answered, or its callback swallowed an error of the server and
\* nothing verified the transaction before COMMIT.
AnswerIsTrue ==
  \A k \in Callers \ disturbed :
    /\ task[k].pc = "returned" /\ task[k].wrote =>
         \/ k \in committed
         \/ task[k].swallowed /\ ~ (Scoped(k) /\ Monitor)
    /\ task[k].pc = "failed" /\ k \in committed => k \in unsure

\* transaction retries "deadlock_detected" and "serialization_failure"; but a
\* second attempt is made only if another request has acquired the client of the
\* first one during the pause, and loses it.
RetryTakesAClient ==
  \A k \in Callers : task[k].attempt > 0 => disturbed \ {k} # {}
=============================================================================
