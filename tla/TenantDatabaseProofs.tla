------------------------ MODULE TenantDatabaseProofs ------------------------
(***************************************************************************)
(* Proofs about TenantDatabase, for any number of requests and clients and *)
(* any size of the pool.  The invariant rests on one fact: a request that  *)
(* was not disturbed is the only user of its client, so that nobody else   *)
(* moves the transaction and the tenant of its session.                    *)
(***************************************************************************)
EXTENDS TenantDatabase, TLAPS

USE TenantDatabaseAssumption

Holding == {"begin", "set", "work", "verify", "commit", "catch", "finally"}
Inside == {"set", "work", "verify", "commit", "catch"}

\* What the session of a client looks like, whoever uses it: a transaction has
\* somebody in it who will end it, and without one nothing is left behind.
Sound(c) ==
  /\ session[c].tx = "none" => session[c].tenant = None /\ session[c].writes = {}
  /\ ~ session[c].alive => session[c].tx = "none"
  /\ session[c].tx # "none" => \E k \in Users(c) : task[k].pc \in Inside /\ HasCatch(k)
  /\ client[c] = "out" => Users(c) # {}

\* What holds of a request even when it was disturbed.
Shape(k) ==
  /\ task[k].pc \in Holding \cup {"sleep"} => task[k].client \in Clients
  /\ task[k].pc \in {"begin", "verify", "commit"} => HasCatch(k)
  /\ task[k].pc \in {"idle", "begin", "set"} => ~ task[k].wrote
  /\ task[k].result => task[k].pc \in {"finally", "returned", "failed"}
  /\ task[k].pc = "returned" => task[k].result
  /\ task[k].attempt > 0 => disturbed \ {k} # {}

\* Nobody else uses the client of k, which has no tenant or that of k.
Alone(k) ==
  \A c \in Clients : k \in Users(c) =>
    /\ Users(c) = {k}
    /\ client[c] = "out"
    /\ session[c].tenant \in {None, TenantOf[k]}

\* The writes of k are in its own transaction, or committed.
Fate(k) ==
  /\ \A c \in Clients : k \in session[c].writes =>
       k \in Users(c) /\ task[k].pc \in Inside \ {"set"}
  /\ task[k].saw \subseteq {TenantOf[k]}
  /\ k \in committed => k \in unsure \/ (task[k].pc \in {"finally", "returned"} /\ task[k].result)
  /\ ~ HasCatch(k) => ~ task[k].wrote
  /\ task[k].pc \in {"finally", "returned"} /\ task[k].result /\ task[k].wrote =>
       k \in committed \/ (task[k].swallowed /\ ~ (Scoped(k) /\ Monitor))
  /\ task[k].pc \in {"work", "verify", "commit"} =>
       LET s == session[task[k].client]
       IN  /\ task[k].wrote /\ s.alive => k \in s.writes \/ s.tx = "aborted"
           /\ s.tx = "aborted" => task[k].swallowed
           /\ task[k].pc = "commit" /\ Scoped(k) /\ Monitor => s.tx # "aborted"

Inv ==
  /\ TypeOK
  /\ \A c \in Clients : Sound(c)
  /\ \A k \in Callers : Shape(k) /\ (k \in disturbed \/ (Alone(k) /\ Fate(k)))

LEMMA InitInv == Init => Inv
<1> SUFFICES ASSUME Init PROVE Inv
  OBVIOUS
<1>1. TypeOK
  BY DEF Init, TypeOK, States, Session, Task, Steps, Kinds, Quiet, Idle
<1>2. \A c \in Clients : Sound(c)
  BY DEF Init, Sound, Quiet
<1>3. ASSUME NEW k \in Callers PROVE Shape(k) /\ Alone(k) /\ Fate(k)
  BY DEF Init, Shape, Alone, Fate, Quiet, Idle, Users, Holding
<1> QED BY <1>1, <1>2, <1>3 DEF Inv

-----------------------------------------------------------------------------
(***************************************************************************)
(* Steps of a request that keeps its client: they change its task, and the *)
(* session of its client, and nothing of any other request.                *)
(***************************************************************************)
Keeps(k, c) ==
  /\ k \in Users(c)
  /\ task' = [task EXCEPT ![k] = task'[k]]
  /\ task'[k].client = c
  /\ task'[k].kind = task[k].kind
  /\ task'[k].pc \in Holding
  /\ session' = [session EXCEPT ![c] = session'[c]]
  /\ UNCHANGED <<client, disturbed>>

LEMMA KeepsUsers ==
  ASSUME Inv, NEW k \in Callers, NEW c \in Clients, Keeps(k, c)
  PROVE  \A d \in Clients : Users(d)' = Users(d)
BY DEF Keeps, Users, Holding, Inv, TypeOK

\* The other requests, and the sessions of the other clients.
LEMMA KeepsOthers ==
  ASSUME Inv, NEW k \in Callers, NEW c \in Clients, Keeps(k, c), TypeOK',
         Sound(c)', Shape(k)', k \in disturbed \/ (Alone(k)' /\ Fate(k)'),
         \A j \in Callers \ {k} :
           /\ j \in committed' => j \in committed \/ j \in session[c].writes
           /\ j \in committed => j \in committed'
           /\ j \in session'[c].writes => j \in session[c].writes,
         unsure \subseteq unsure'
  PROVE  Inv'
<1>1. \A d \in Clients : Users(d)' = Users(d)
  BY KeepsUsers
<1>2. ASSUME NEW d \in Clients, d # c PROVE Sound(d)'
  <2>1. session'[d] = session[d] /\ client'[d] = client[d]
    BY <1>2 DEF Keeps, Inv, TypeOK
  <2>2. ASSUME NEW j \in Users(d) PROVE j # k /\ j \in Callers /\ task'[j] = task[j]
    BY <1>2 DEF Users, Keeps, Inv, TypeOK
  <2> QED BY <1>1, <2>1, <2>2 DEF Inv, Sound, HasCatch, Scoped
<1>3. ASSUME NEW j \in Callers, j # k
      PROVE  Shape(j)' /\ (j \in disturbed \/ (Alone(j)' /\ Fate(j)'))
  <2>1. task'[j] = task[j] /\ disturbed' = disturbed
    BY <1>3 DEF Keeps, Inv, TypeOK
  <2>2. Shape(j)'
    BY <2>1 DEF Inv, Shape, HasCatch, Scoped
  <2>3. ASSUME j \notin disturbed, NEW d \in Clients, j \in Users(d)
        PROVE  session'[d] = session[d] /\ client'[d] = client[d]
    BY <2>3, <1>3 DEF Inv, Alone, Keeps, TypeOK
  <2>4. ASSUME j \notin disturbed PROVE j \notin session[c].writes
    BY <2>4, <1>3 DEF Inv, Fate, Alone, Keeps
  <2>5. ASSUME j \notin disturbed PROVE Alone(j)'
    BY <2>5, <1>1, <2>3 DEF Inv, Alone
  <2>6. ASSUME j \notin disturbed PROVE Fate(j)'
    <3>1. ASSUME task[j].pc \in {"work", "verify", "commit"}
          PROVE  task[j].client \in Clients /\ j \in Users(task[j].client)
      BY <3>1 DEF Inv, Shape, Users, Holding
    <3>2. ASSUME NEW d \in Clients, j \in session'[d].writes
          PROVE  j \in Users(d)' /\ task'[j].pc \in Inside \ {"set"}
      BY <3>2, <1>1, <2>1, <2>4, <2>6 DEF Inv, Fate, Keeps, TypeOK
    <3> QED BY <1>3, <2>1, <2>3, <2>4, <2>6, <3>1, <3>2 DEF Inv, Fate, HasCatch, Scoped
  <2> QED BY <2>2, <2>5, <2>6
<1> QED BY <1>2, <1>3 DEF Inv, Keeps

\* The client of a request that holds one.
LEMMA OwnClient ==
  ASSUME Inv, NEW k \in Callers, task[k].pc \in Holding
  PROVE  task[k].client \in Clients /\ k \in Users(task[k].client)
BY DEF Inv, Shape, Users, Holding

\* The request itself: it is still the only user of its client.
LEMMA StaysAlone ==
  ASSUME Inv, NEW k \in Callers, NEW c \in Clients, Keeps(k, c), k \notin disturbed,
         session'[c].tenant \in {None, TenantOf[k]}
  PROVE  Alone(k)'
<1>1. \A d \in Clients : Users(d)' = Users(d)
  BY KeepsUsers
<1>2. \A d \in Clients : k \in Users(d) => d = c
  BY DEF Keeps, Users
<1> QED BY <1>1, <1>2 DEF Inv, Alone, Keeps

\* Without a catch block there is no transaction, if nobody else uses the client.
LEMMA NoTransaction ==
  ASSUME Inv, NEW k \in Callers, NEW c \in Clients, k \in Users(c), k \notin disturbed, ~ HasCatch(k)
  PROVE  session[c].tx = "none" /\ session[c].tenant = None /\ session[c].writes = {}
BY DEF Inv, Alone, Sound

\* The statement of k that fails leaves s of the session of its client.
Fails(k, c, s) ==
  /\ session' = [session EXCEPT ![c] = s]
  /\ s.tx = "none" => s.tenant = None /\ s.writes = {}
  /\ ~ s.alive => s.tx = "none"
  /\ s.tx # "none" => session[c].tx # "none"
  /\ s.tenant \in {None, session[c].tenant}
  /\ s.writes \subseteq session[c].writes
  /\ UNCHANGED <<client, disturbed>> /\ faults' \in 0 .. MaxFaults
  /\ committed \subseteq committed' /\ committed' \subseteq committed \cup session[c].writes
  /\ unsure \subseteq unsure' /\ unsure' \subseteq Callers
  /\ k \in committed' => k \in committed \cup unsure'

\* The catch block is next: after an error, after a COMMIT that failed.
LEMMA ThrowsInv ==
  ASSUME Inv, NEW k \in Callers, NEW c \in Clients, c = task[k].client, NEW retry \in BOOLEAN,
         task[k].pc \in {"begin", "set", "work", "verify", "commit"}, Throws(k, retry),
         NEW s \in Session, Fails(k, c, s)
  PROVE  Inv'
<1>1. task[k] \in Task /\ k \in Users(c) /\ session[c] \in Session
  BY OwnClient DEF Holding, Inv, TypeOK
<1>2. /\ task' = [task EXCEPT ![k] = task'[k]]
      /\ task'[k] \in Task /\ task'[k].pc = "catch" /\ task'[k].client = c
      /\ task'[k].kind = task[k].kind /\ task'[k].attempt = task[k].attempt
      /\ task'[k].saw = task[k].saw
  BY <1>1 DEF Throws, Inv, TypeOK, Task, Steps
<1>3. /\ task'[k].wrote = task[k].wrote /\ task'[k].result = task[k].result
      /\ task'[k].swallowed = task[k].swallowed
  BY Zenon DEF Throws, Inv, TypeOK, Task
<1>4. TypeOK' /\ Keeps(k, c) /\ session'[c] = s
  BY <1>1, <1>2 DEF Inv, TypeOK, Keeps, Holding, Session, Fails
<1>5. \A d \in Clients : Users(d)' = Users(d)
  BY <1>4, KeepsUsers
<1>6. Sound(c)'
  <2>1. ASSUME NEW j \in Users(c), task[j].pc \in Inside, HasCatch(j)
        PROVE  task'[j].pc \in Inside /\ HasCatch(j)'
    BY <1>2, <2>1 DEF Users, Inside, HasCatch, Scoped, Inv, TypeOK
  <2> QED BY <1>4, <1>5, <2>1 DEF Sound, Inv, Fails
<1>7. Shape(k)'
  BY <1>2, <1>3 DEF Inv, Shape, Holding, Fails
<1>8. ASSUME k \notin disturbed PROVE Alone(k)' /\ Fate(k)'
  <2>1. Alone(k)'
    BY <1>1, <1>4, <1>8, StaysAlone DEF Inv, Alone, Fails
  <2>2. ASSUME NEW d \in Clients, k \in session'[d].writes
        PROVE  k \in Users(d)' /\ task'[k].pc \in Inside \ {"set"}
    BY <1>2, <1>4, <1>5, <1>8, <2>2 DEF Inv, TypeOK, Fate, Inside, Fails
  <2>3. k \in committed' => k \in unsure'
    BY <1>8 DEF Inv, Fate, Fails
  <2> QED BY <1>2, <1>3, <1>8, <2>1, <2>2, <2>3 DEF Inv, Fate, HasCatch, Scoped
<1> QED BY <1>1, <1>4, <1>6, <1>7, <1>8, KeepsOthers DEF Fails

\* The same, when the statement that fails changes nothing.
LEMMA ThrowsPlain ==
  ASSUME Inv, NEW k \in Callers, NEW c \in Clients, c = task[k].client, NEW retry \in BOOLEAN,
         task[k].pc \in {"begin", "set", "work", "verify", "commit"}, Throws(k, retry),
         UNCHANGED <<session, client, committed, disturbed, unsure>>, faults' \in 0 .. MaxFaults
  PROVE  Inv'
<1>1. session[c] \in Session /\ session' = [session EXCEPT ![c] = session[c]]
  BY DEF Inv, TypeOK
<1>2. Sound(c)
  BY DEF Inv
<1>3. PICK s \in Session : s = session[c]
  BY <1>1
<1>4. Fails(k, c, s)
  BY <1>1, <1>2, <1>3 DEF Fails, Sound, Inv, TypeOK
<1> QED BY <1>4, ThrowsInv, Zenon

LEMMA BeginInv ==
  ASSUME Inv, NEW k \in Callers, NEW c \in Clients, c = task[k].client, BeginTransaction(k)
  PROVE  Inv'
<1>1. task[k].pc = "begin" /\ k \in Users(c) /\ HasCatch(k)
  BY OwnClient DEF BeginTransaction, Statement, Holding, Inv, Shape
<1>2. task[k] \in Task /\ session[c] \in Session
  BY DEF Inv, TypeOK
<1>3. CASE Answers(c)
  <2>1. /\ session' = [session EXCEPT ![c].tx = "open"] /\ task' = [task EXCEPT ![k].pc = "set"]
        /\ UNCHANGED <<client, committed, faults, disturbed, unsure>>
    BY <1>3 DEF BeginTransaction, Statement, Begun, Goes, Inv, TypeOK
  <2>2. TypeOK' /\ Keeps(k, c)
    BY <2>1, <1>1, <1>2 DEF Inv, TypeOK, Task, Session, Steps, Keeps, Holding
  <2>3. Users(c)' = Users(c)
    BY <2>2, KeepsUsers
  <2>4. Sound(c)'
    BY <1>1, <1>2, <1>3, <2>1, <2>3 DEF Inv, TypeOK, Sound, Session, Answers, HasCatch, Scoped, Inside
  <2>5. Shape(k)'
    BY <1>1, <1>2, <2>1 DEF Inv, TypeOK, Task, Shape, Holding, HasCatch, Scoped
  <2>6. ASSUME k \notin disturbed PROVE Alone(k)' /\ Fate(k)'
    <3>1. Alone(k)'
      BY <1>1, <1>2, <2>1, <2>2, <2>6, StaysAlone DEF Inv, TypeOK, Alone, Session
    <3>2. \A d \in Clients : k \notin session'[d].writes
      BY <1>1, <1>2, <2>1, <2>6 DEF Inv, TypeOK, Fate, Session, Inside
    <3> QED BY <1>1, <1>2, <2>1, <2>6, <3>1, <3>2 DEF Inv, TypeOK, Task, Fate, HasCatch, Scoped
  <2> QED BY <2>1, <2>2, <2>4, <2>5, <2>6, <1>2, KeepsOthers DEF Inv, TypeOK, Session
<1>4. CASE ~ Answers(c)
  <2>1. Throws(k, FALSE) /\ UNCHANGED <<session, client, committed, faults, disturbed, unsure>>
    BY <1>4 DEF BeginTransaction, Statement
  <2> QED BY <1>1, <2>1, ThrowsPlain DEF Inv, TypeOK
<1> QED BY <1>3, <1>4

LEMMA SetTenantInv ==
  ASSUME Inv, NEW k \in Callers, NEW c \in Clients, c = task[k].client, SetTenant(k)
  PROVE  Inv'
<1>1. task[k].pc = "set" /\ k \in Users(c) /\ ~ task[k].wrote
  BY OwnClient DEF SetTenant, Statement, Holding, Inv, Shape
<1>2. task[k] \in Task /\ session[c] \in Session /\ TenantOf[k] \in Tenants
  BY DEF Inv, TypeOK, Tenants
<1>3. CASE Answers(c)
  <2>1. /\ session' = [session EXCEPT ![c] = LocalTenant(session[c], TenantOf[k])]
        /\ task' = [task EXCEPT ![k].pc = "work"]
        /\ UNCHANGED <<client, committed, faults, disturbed, unsure>>
    BY <1>3 DEF SetTenant, Statement, Goes
  <2>2. LocalTenant(session[c], TenantOf[k]) \in Session
    BY <1>2 DEF LocalTenant, Session
  <2>3. /\ session'[c].tx = session[c].tx /\ session'[c].writes = session[c].writes
        /\ session'[c].tenant \in {session[c].tenant, TenantOf[k]}
        /\ session'[c].tx = "none" => session'[c].tenant = session[c].tenant
    BY <1>2, <2>1 DEF LocalTenant, Session, Inv, TypeOK
  <2>4. session'[c].alive = session[c].alive
    BY <1>2, <2>1, Zenon DEF LocalTenant, Session, Inv, TypeOK
  <2>5. TypeOK' /\ Keeps(k, c)
    BY <2>1, <2>2, <1>1, <1>2 DEF Inv, TypeOK, Task, Steps, Keeps, Holding
  <2>6. Users(c)' = Users(c)
    BY <2>5, KeepsUsers
  <2>7. Sound(c)'
    <3>1. ASSUME NEW j \in Users(c), task[j].pc \in Inside, HasCatch(j)
          PROVE  task'[j].pc \in Inside /\ HasCatch(j)'
      BY <2>1, <3>1 DEF Users, Inside, HasCatch, Scoped, Inv, TypeOK
    <3> QED BY <2>1, <2>3, <2>4, <2>6, <3>1 DEF Inv, Sound
  <2>8. Shape(k)'
    BY <1>1, <1>2, <2>1 DEF Inv, TypeOK, Task, Shape, Holding
  <2>9. ASSUME k \notin disturbed PROVE Alone(k)' /\ Fate(k)'
    <3>1. Alone(k)'
      BY <1>1, <1>2, <2>3, <2>5, <2>9, StaysAlone DEF Inv, Alone
    <3>2. \A d \in Clients : k \notin session'[d].writes
      BY <1>1, <1>2, <2>1, <2>3, <2>9 DEF Inv, TypeOK, Fate
    <3>3. session'[c].tx # "aborted"
      BY <1>3, <2>3 DEF Answers
    <3> QED BY <1>1, <1>2, <2>1, <2>9, <3>1, <3>2, <3>3 DEF Inv, TypeOK, Task, Fate, HasCatch, Scoped
  <2> QED BY <2>1, <2>3, <2>5, <2>7, <2>8, <2>9, KeepsOthers
<1>4. CASE ~ Answers(c)
  <2>1. Throws(k, FALSE) /\ UNCHANGED <<session, client, committed, faults, disturbed, unsure>>
    BY <1>4 DEF SetTenant, Statement
  <2> QED BY <1>1, <2>1, ThrowsPlain DEF Inv, TypeOK
<1> QED BY <1>3, <1>4

LEMMA ReadInv ==
  ASSUME Inv, NEW k \in Callers, NEW c \in Clients, c = task[k].client, Read(k)
  PROVE  Inv'
<1>1. /\ task[k].pc = "work" /\ session[c].tenant # None
      /\ task' = [task EXCEPT ![k].saw = @ \cup {session[c].tenant}]
      /\ UNCHANGED <<client, session, committed, faults, disturbed, unsure>>
  BY DEF Read
<1>2. task[k] \in Task /\ session[c] \in Session /\ k \in Users(c)
  BY <1>1, OwnClient DEF Inv, TypeOK, Holding
<1>3. TypeOK' /\ Keeps(k, c)
  BY <1>1, <1>2 DEF Inv, TypeOK, Task, Session, Keeps, Holding
<1>4. Users(c)' = Users(c)
  BY <1>3, KeepsUsers
<1>5. Sound(c)'
  <2>1. ASSUME NEW j \in Users(c), task[j].pc \in Inside, HasCatch(j)
        PROVE  task'[j].pc \in Inside /\ HasCatch(j)'
    BY <1>1, <2>1 DEF Users, HasCatch, Scoped, Inv, TypeOK
  <2> QED BY <1>1, <1>4, <2>1 DEF Inv, Sound
<1>6. Shape(k)'
  BY <1>1, <1>2 DEF Inv, TypeOK, Task, Shape, HasCatch, Scoped
<1>7. ASSUME k \notin disturbed PROVE Alone(k)' /\ Fate(k)'
  <2>1. Alone(k)' /\ session[c].tenant = TenantOf[k]
    BY <1>1, <1>2, <1>3, <1>7, StaysAlone DEF Inv, Alone
  <2>2. /\ task'[k].pc = task[k].pc /\ task'[k].client = c /\ task'[k].kind = task[k].kind
        /\ task'[k].saw \subseteq {TenantOf[k]}
    BY <1>1, <1>2, <1>7, <2>1 DEF Inv, TypeOK, Task, Fate
  <2>3. /\ task'[k].wrote = task[k].wrote /\ task'[k].result = task[k].result
        /\ task'[k].swallowed = task[k].swallowed
    BY <1>1, <1>2, Zenon DEF Inv, TypeOK, Task
  <2>4. \A d \in Clients : Users(d)' = Users(d)
    BY <1>3, KeepsUsers
  <2> QED BY <1>1, <1>7, <2>1, <2>2, <2>3, <2>4 DEF Inv, Fate, HasCatch, Scoped
<1> QED BY <1>1, <1>3, <1>5, <1>6, <1>7, KeepsOthers

LEMMA ModifyInv ==
  ASSUME Inv, NEW k \in Callers, NEW c \in Clients, c = task[k].client, Modify(k)
  PROVE  Inv'
<1>1. /\ task[k].pc = "work" /\ session[c].tenant = TenantOf[k] /\ Answers(c)
      /\ task' = [task EXCEPT ![k].wrote = TRUE]
      /\ UNCHANGED <<client, faults, disturbed, unsure>>
  BY DEF Modify
<1>2. task[k] \in Task /\ session[c] \in Session /\ k \in Users(c) /\ TenantOf[k] \in Tenants
  BY <1>1, OwnClient DEF Inv, TypeOK, Holding, Tenants
<1>3. session[c].tx = "open"
  BY <1>1, <1>2 DEF Inv, Sound, Answers, Session
<1>4. session' = [session EXCEPT ![c].writes = @ \cup {k}] /\ UNCHANGED committed
  BY <1>3 DEF Modify
<1>5. /\ task'[k].pc = "work" /\ task'[k].kind = task[k].kind /\ task'[k].client = c
      /\ task'[k].attempt = task[k].attempt /\ task'[k].saw = task[k].saw
      /\ task' = [task EXCEPT ![k] = task'[k]]
  BY <1>1, <1>2 DEF Inv, TypeOK, Task
<1>6. /\ task'[k].wrote = TRUE /\ task'[k].result = task[k].result
      /\ task'[k].swallowed = task[k].swallowed /\ task'[k].retry = task[k].retry
  BY <1>1, <1>2, Zenon DEF Inv, TypeOK, Task
<1>7. task'[k] \in Task /\ session'[c] \in Session
  BY <1>1, <1>2, <1>4 DEF Inv, TypeOK, Task, Session
<1>8. TypeOK' /\ Keeps(k, c)
  BY <1>1, <1>2, <1>4, <1>5, <1>7 DEF Inv, TypeOK, Keeps, Holding
<1>9. \A d \in Clients : Users(d)' = Users(d)
  BY <1>8, KeepsUsers
<1>10. /\ session'[c].tx = "open" /\ session'[c].tenant = session[c].tenant
       /\ session'[c].writes = session[c].writes \cup {k}
  BY <1>2, <1>3, <1>4 DEF Inv, TypeOK, Session
<1>11. session'[c].alive
  BY <1>1, <1>2, <1>4, Zenon DEF Inv, TypeOK, Session, Answers
<1>12. Sound(c)'
  <2>1. ASSUME NEW j \in Users(c), task[j].pc \in Inside, HasCatch(j)
        PROVE  task'[j].pc \in Inside /\ HasCatch(j)'
    BY <1>1, <1>5, <2>1 DEF Users, HasCatch, Scoped, Inv, TypeOK
  <2> QED BY <1>1, <1>3, <1>9, <1>10, <1>11, <2>1 DEF Inv, Sound
<1>13. Shape(k)'
  BY <1>1, <1>5, <1>6 DEF Inv, Shape, HasCatch, Scoped
<1>14. ASSUME k \notin disturbed PROVE Alone(k)' /\ Fate(k)'
  <2>1. Alone(k)'
    BY <1>1, <1>8, <1>10, <1>14, StaysAlone
  <2>2. HasCatch(k)'
    BY <1>2, <1>3, <1>5, <1>14, NoTransaction DEF HasCatch, Scoped
  <2>3. ASSUME NEW d \in Clients, k \in session'[d].writes
        PROVE  k \in Users(d)' /\ task'[k].pc \in Inside \ {"set"}
    BY <1>2, <1>4, <1>5, <1>9, <1>14, <2>3 DEF Inv, TypeOK, Fate, Inside
  <2> QED BY <1>4, <1>5, <1>6, <1>1, <1>10, <1>11, <1>14, <2>1, <2>2, <2>3 DEF Inv, Fate
<1> QED BY <1>4, <1>8, <1>10, <1>12, <1>13, <1>14, <1>1, KeepsOthers

LEMMA RefusedInv ==
  ASSUME Inv, NEW k \in Callers, NEW c \in Clients, c = task[k].client, NEW retry \in BOOLEAN,
         NEW swallow \in BOOLEAN, Refused(k, retry, swallow)
  PROVE  Inv'
<1>1. /\ task[k].pc = "work" /\ k \in Users(c)
      /\ faults' \in 0 .. MaxFaults
      /\ UNCHANGED <<client, committed, disturbed, unsure>>
  BY OwnClient DEF Refused, Holding, Inv, TypeOK
<1>2. task[k] \in Task /\ session[c] \in Session
  BY DEF Inv, TypeOK
<1>3. PICK s \in Session : /\ session' = [session EXCEPT ![c] = s]
                           /\ s = IF session[c].alive THEN Aborted(session[c]) ELSE session[c]
  <2>1. Aborted(session[c]) \in Session
    BY <1>2 DEF Aborted, Session
  <2>2. session = [session EXCEPT ![c] = session[c]]
    BY DEF Inv, TypeOK
  <2> QED BY <1>2, <2>1, <2>2 DEF Refused
<1>4. /\ s.tenant = session[c].tenant /\ s.writes = session[c].writes
      /\ s.tx = "none" <=> session[c].tx = "none"
      /\ s.tx = session[c].tx \/ s.tx = "aborted"
  BY <1>2, <1>3 DEF Aborted, Session
<1>5. s.alive = session[c].alive
  BY <1>2, <1>3, Zenon DEF Aborted, Session
<1>6. session'[c] = s
  BY <1>3 DEF Inv, TypeOK
<1>7. CASE ~ swallow
  <2>1. Throws(k, retry)
    BY <1>7 DEF Refused
  <2>2. Fails(k, c, s)
    BY <1>1, <1>3, <1>4, <1>5 DEF Fails, Inv, Sound, TypeOK
  <2> QED BY <1>1, <2>1, <2>2, ThrowsInv, Zenon
<1>8. CASE swallow
  <2>1. task' = [task EXCEPT ![k].swallowed = TRUE]
    BY <1>8 DEF Refused
  <2>2. /\ task' = [task EXCEPT ![k] = task'[k]] /\ task'[k] \in Task
        /\ task'[k].pc = "work" /\ task'[k].kind = task[k].kind /\ task'[k].client = c
        /\ task'[k].attempt = task[k].attempt /\ task'[k].saw = task[k].saw
    BY <1>1, <1>2, <2>1 DEF Inv, TypeOK, Task
  <2>3. /\ task'[k].wrote = task[k].wrote /\ task'[k].result = task[k].result
        /\ task'[k].swallowed = TRUE
    BY <1>2, <2>1, Zenon DEF Inv, TypeOK, Task
  <2>4. TypeOK' /\ Keeps(k, c)
    BY <1>1, <1>3, <1>6, <2>2 DEF Inv, TypeOK, Keeps, Holding
  <2>5. \A d \in Clients : Users(d)' = Users(d)
    BY <2>4, KeepsUsers
  <2>6. Sound(c)'
    <3>1. ASSUME NEW j \in Users(c), task[j].pc \in Inside, HasCatch(j)
          PROVE  task'[j].pc \in Inside /\ HasCatch(j)'
      BY <1>1, <2>2, <3>1 DEF Users, HasCatch, Scoped, Inv, TypeOK
    <3> QED BY <1>1, <1>4, <1>5, <1>6, <2>5, <3>1 DEF Inv, Sound
  <2>7. Shape(k)'
    BY <1>1, <2>2, <2>3 DEF Inv, Shape
  <2>8. ASSUME k \notin disturbed PROVE Alone(k)' /\ Fate(k)'
    <3>1. Alone(k)'
      BY <1>1, <1>4, <1>6, <2>4, <2>8, StaysAlone DEF Inv, Alone
    <3>2. ASSUME NEW d \in Clients, k \in session'[d].writes
          PROVE  k \in Users(d)' /\ task'[k].pc \in Inside \ {"set"}
      BY <1>3, <1>4, <1>6, <2>2, <2>5, <2>8, <3>2 DEF Inv, TypeOK, Fate, Inside
    <3> QED BY <1>1, <1>4, <1>5, <1>6, <2>2, <2>3, <2>8, <3>1, <3>2 DEF Inv, Fate, HasCatch, Scoped
  <2> QED BY <1>1, <1>4, <1>6, <2>4, <2>6, <2>7, <2>8, KeepsOthers
<1> QED BY <1>7, <1>8

LEMMA CallbackThrowsInv ==
  ASSUME Inv, NEW k \in Callers, NEW c \in Clients, c = task[k].client, CallbackThrows(k)
  PROVE  Inv'
<1>1. faults' \in 0 .. MaxFaults
  BY DEF CallbackThrows, Inv, TypeOK
<1>2. /\ task[k].pc = "work" /\ Throws(k, FALSE)
      /\ UNCHANGED <<session, client, committed, disturbed, unsure>>
  BY Zenon DEF CallbackThrows
<1> QED BY <1>1, <1>2, ThrowsPlain

\* The request goes on without a statement that changes anything.
LEMMA CallbackEndsInv ==
  ASSUME Inv, NEW k \in Callers, NEW c \in Clients, c = task[k].client, CallbackEnds(k)
  PROVE  Inv'
<1>1. /\ task[k].pc = "work" /\ k \in Users(c) /\ task[k] \in Task
      /\ UNCHANGED <<client, session, committed, faults, disturbed, unsure>>
  BY OwnClient DEF CallbackEnds, Holding, Inv, TypeOK
<1> DEFINE Plain == task[k].kind \in {"query", "withTenant"}
           Then == CASE Scoped(k) /\ Monitor -> "verify"
                     [] task[k].kind \in {"query", "withTenant"} -> "finally"
                     [] OTHER -> "commit"
<1>0. PICK pc \in {"verify", "commit", "finally"}, result \in BOOLEAN :
        task' = [task EXCEPT ![k].pc = pc, ![k].result = result] /\ pc = Then /\ result = Plain
  <2>1. task' = [task EXCEPT ![k].pc = Then, ![k].result = Plain]
    BY Zenon DEF CallbackEnds
  <2>2. Then \in {"verify", "commit", "finally"}
    OBVIOUS
  <2>3. Plain \in BOOLEAN
    OBVIOUS
  <2> HIDE DEF Then, Plain
  <2> QED BY <2>1, <2>2, <2>3, Zenon
<1>a. task' = [task EXCEPT ![k].pc = pc, ![k].result = result]
  BY <1>0, Zenon
<1>2. /\ task' = [task EXCEPT ![k] = task'[k]] /\ task'[k] \in Task
      /\ task'[k].kind = task[k].kind /\ task'[k].client = c /\ task'[k].pc = pc
      /\ task'[k].attempt = task[k].attempt /\ task'[k].saw = task[k].saw
  BY <1>a, <1>1 DEF Inv, TypeOK, Task, Steps
<1>3. task'[k].wrote = task[k].wrote /\ task'[k].swallowed = task[k].swallowed
  BY <1>a, <1>1, Zenon DEF Inv, TypeOK, Task
<1>4. task'[k].result <=> task[k].kind \in {"query", "withTenant"}
  BY <1>0, <1>1, Zenon DEF Inv, TypeOK, Task
<1>5. /\ task'[k].pc \in {"verify", "commit", "finally"}
      /\ task'[k].pc = "finally" => ~ HasCatch(k)
      /\ task'[k].pc # "finally" => HasCatch(k) /\ ~ task'[k].result
      /\ task'[k].pc = "commit" => ~ (Scoped(k) /\ Monitor)
  BY <1>0, <1>1, <1>2, <1>4 DEF Task, Kinds, HasCatch, Scoped
<1>6. TypeOK' /\ Keeps(k, c)
  BY <1>1, <1>2, <1>5 DEF Inv, TypeOK, Keeps, Holding
<1>7. \A d \in Clients : Users(d)' = Users(d)
  BY <1>6, KeepsUsers
<1>8. Sound(c)'
  <2>1. ASSUME NEW j \in Users(c), task[j].pc \in Inside, HasCatch(j)
        PROVE  task'[j].pc \in Inside /\ HasCatch(j)'
    BY <1>2, <1>5, <2>1 DEF Users, HasCatch, Scoped, Inv, TypeOK, Inside
  <2> QED BY <1>1, <1>7, <2>1 DEF Inv, Sound
<1>9. Shape(k)'
  BY <1>1, <1>2, <1>3, <1>5 DEF Inv, Shape, HasCatch, Scoped
<1>10. ASSUME k \notin disturbed PROVE Alone(k)' /\ Fate(k)'
  <2>1. Alone(k)'
    BY <1>1, <1>6, <1>10, StaysAlone DEF Inv, Alone
  <2>2. ASSUME NEW d \in Clients, k \in session'[d].writes
        PROVE  k \in Users(d)' /\ task'[k].pc \in Inside \ {"set"}
    <3>1. k \in Users(d) /\ k \in session[d].writes
      BY <1>1, <1>10, <2>2 DEF Inv, Fate
    <3>2. HasCatch(k)
      BY <3>1, <1>10, NoTransaction
    <3> QED BY <1>5, <1>7, <3>1, <3>2 DEF Inside
  <2>3. k \in committed' => k \in unsure'
    BY <1>1, <1>10 DEF Inv, Fate
  <2> QED BY <1>1, <1>2, <1>3, <1>5, <1>10, <2>1, <2>2, <2>3 DEF Inv, Fate, HasCatch, Scoped
<1> QED BY <1>1, <1>6, <1>8, <1>9, <1>10, KeepsOthers

LEMMA VerifyTenantContextInv ==
  ASSUME Inv, NEW k \in Callers, NEW c \in Clients, c = task[k].client, VerifyTenantContext(k)
  PROVE  Inv'
<1>1. /\ task[k].pc = "verify" /\ k \in Users(c) /\ HasCatch(k) /\ task[k] \in Task
      /\ UNCHANGED <<client, session, committed, faults, disturbed, unsure>>
  BY OwnClient DEF VerifyTenantContext, Holding, Inv, Shape, TypeOK
<1>2. CASE Answers(c) /\ session[c].tenant = TenantOf[k]
  <2>1. task' = [task EXCEPT ![k].pc = "commit"]
    BY <1>2 DEF VerifyTenantContext, Goes
  <2>2. TypeOK' /\ Keeps(k, c)
    BY <1>1, <2>1 DEF Inv, TypeOK, Task, Steps, Keeps, Holding
  <2>3. \A d \in Clients : Users(d)' = Users(d)
    BY <2>2, KeepsUsers
  <2>4. Sound(c)'
    <3>1. ASSUME NEW j \in Users(c), task[j].pc \in Inside, HasCatch(j)
          PROVE  task'[j].pc \in Inside /\ HasCatch(j)'
      BY <2>1, <3>1 DEF Users, HasCatch, Scoped, Inv, TypeOK, Inside
    <3> QED BY <1>1, <2>3, <3>1 DEF Inv, Sound
  <2>5. Shape(k)'
    BY <1>1, <2>1 DEF Inv, TypeOK, Task, Shape, HasCatch, Scoped, Holding
  <2>6. ASSUME k \notin disturbed PROVE Alone(k)' /\ Fate(k)'
    <3>1. Alone(k)'
      BY <1>1, <2>2, <2>6, StaysAlone DEF Inv, Alone
    <3>2. session'[c].tx # "aborted"
      BY <1>1, <1>2 DEF Answers
    <3>3. /\ task'[k].pc = "commit" /\ task'[k].client = c /\ task'[k].kind = task[k].kind
          /\ task'[k].saw = task[k].saw
      BY <1>1, <2>1 DEF Inv, TypeOK, Task
    <3>4. /\ task'[k].wrote = task[k].wrote /\ task'[k].result = task[k].result
          /\ task'[k].swallowed = task[k].swallowed
      BY <1>1, <2>1, Zenon DEF Inv, TypeOK, Task
    <3> QED BY <1>1, <2>3, <2>6, <3>1, <3>2, <3>3, <3>4 DEF Inv, Fate, HasCatch, Scoped, Inside
  <2> QED BY <1>1, <2>2, <2>4, <2>5, <2>6, KeepsOthers
<1>3. CASE ~ (Answers(c) /\ session[c].tenant = TenantOf[k])
  <2>1. Throws(k, FALSE)
    BY <1>3 DEF VerifyTenantContext
  <2> QED BY <1>1, <2>1, ThrowsPlain DEF Inv, TypeOK
<1> QED BY <1>2, <1>3

\* What is left of a session at the end of a transaction.
LEMMA EndedSession ==
  ASSUME NEW s \in Session
  PROVE  /\ Ended(s) \in Session /\ Ended(s).tx = "none" /\ Ended(s).tenant = None
         /\ Ended(s).writes = {}
         /\ [Ended(s) EXCEPT !.alive = FALSE] \in Session
         /\ [Ended(s) EXCEPT !.alive = FALSE].tx = "none"
         /\ [Ended(s) EXCEPT !.alive = FALSE].tenant = None
         /\ [Ended(s) EXCEPT !.alive = FALSE].writes = {}
BY DEF Ended, Session

LEMMA CommitInv ==
  ASSUME Inv, NEW k \in Callers, NEW c \in Clients, c = task[k].client, Commit(k)
  PROVE  Inv'
<1>1. /\ task[k].pc = "commit" /\ k \in Users(c) /\ HasCatch(k) /\ task[k] \in Task
      /\ session[c] \in Session /\ session[c].writes \subseteq Callers
      /\ UNCHANGED <<client, faults, disturbed, unsure>>
  BY OwnClient DEF Commit, Holding, Inv, Shape, TypeOK, Session
<1>2. CASE session[c].alive
  <2>1. /\ committed' = IF session[c].tx = "open" THEN committed \cup session[c].writes ELSE committed
        /\ session' = [session EXCEPT ![c] = Ended(session[c])]
        /\ task' = [task EXCEPT ![k].pc = "finally", ![k].result = TRUE]
    BY <1>2 DEF Commit
  <2>2. /\ session'[c].tx = "none" /\ session'[c].tenant = None /\ session'[c].writes = {}
        /\ session'[c] \in Session
    BY <1>1, <2>1, EndedSession DEF Inv, TypeOK
  <2>3. /\ task' = [task EXCEPT ![k] = task'[k]] /\ task'[k] \in Task
        /\ task'[k].pc = "finally" /\ task'[k].kind = task[k].kind /\ task'[k].client = c
        /\ task'[k].attempt = task[k].attempt /\ task'[k].saw = task[k].saw
    BY <1>1, <2>1 DEF Inv, TypeOK, Task, Steps
  <2>4. /\ task'[k].wrote = task[k].wrote /\ task'[k].result = TRUE
        /\ task'[k].swallowed = task[k].swallowed
    BY <1>1, <2>1, Zenon DEF Inv, TypeOK, Task
  <2>5. TypeOK' /\ Keeps(k, c)
    BY <1>1, <2>1, <2>2, <2>3 DEF Inv, TypeOK, Keeps, Holding
  <2>6. \A d \in Clients : Users(d)' = Users(d)
    BY <2>5, KeepsUsers
  <2>7. Sound(c)'
    BY <1>1, <2>2, <2>6 DEF Inv, Sound
  <2>8. Shape(k)'
    BY <1>1, <2>3, <2>4 DEF Inv, Shape
  <2>9. ASSUME k \notin disturbed PROVE Alone(k)' /\ Fate(k)'
    <3>1. Alone(k)'
      BY <2>2, <2>5, <2>9, StaysAlone
    <3>2. \A d \in Clients : k \notin session'[d].writes
      BY <1>1, <2>1, <2>2, <2>9 DEF Inv, TypeOK, Fate, Users
    <3>3. ASSUME task[k].wrote
          PROVE  k \in committed' \/ (task[k].swallowed /\ ~ (Scoped(k) /\ Monitor))
      <4>1. k \in session[c].writes \/ session[c].tx = "aborted"
        BY <1>1, <1>2, <2>9, <3>3 DEF Inv, Fate
      <4>2. session[c].tx = "aborted" => task[k].swallowed /\ ~ (Scoped(k) /\ Monitor)
        BY <1>1, <2>9 DEF Inv, Fate
      <4>3. session[c].tx = "none" => session[c].writes = {}
        BY DEF Inv, Sound
      <4>4. session[c].tx \in {"none", "open", "aborted"}
        BY <1>1 DEF Session
      <4> QED BY <2>1, <4>1, <4>2, <4>3, <4>4
    <3> QED BY <1>1, <2>3, <2>4, <2>9, <3>1, <3>2, <3>3 DEF Inv, Fate, HasCatch, Scoped
  <2> QED BY <1>1, <2>1, <2>2, <2>5, <2>7, <2>8, <2>9, KeepsOthers
<1>3. CASE ~ session[c].alive
  <2>1. Throws(k, FALSE) /\ UNCHANGED <<committed, session>> /\ faults' \in 0 .. MaxFaults
    BY <1>1, <1>3 DEF Commit, Inv, TypeOK
  <2> QED BY <1>1, <2>1, ThrowsPlain
<1> QED BY <1>2, <1>3

LEMMA CommitRefusedInv ==
  ASSUME Inv, NEW k \in Callers, NEW c \in Clients, c = task[k].client, CommitRefused(k)
  PROVE  Inv'
<1>1. /\ task[k].pc = "commit" /\ session' = [session EXCEPT ![c] = Ended(session[c])]
      /\ UNCHANGED <<client, committed, disturbed, unsure>>
  BY DEF CommitRefused
<1>2. faults' \in 0 .. MaxFaults /\ unsure' \subseteq Callers
  BY DEF CommitRefused, Inv, TypeOK
<1>3. Throws(k, TRUE)
  BY Zenon DEF CommitRefused
<1>4. session[c] \in Session
  BY DEF Inv, TypeOK
<1>5. PICK s \in Session : s = Ended(session[c])
  BY <1>4, EndedSession
<1>6. s.tx = "none" /\ s.tenant = None /\ s.writes = {}
  BY <1>4, <1>5, EndedSession
<1>7. session' = [session EXCEPT ![c] = s]
  BY <1>1, <1>5
<1>8. Fails(k, c, s)
  BY <1>1, <1>2, <1>6, <1>7 DEF Fails
<1> QED BY <1>1, <1>3, <1>8, ThrowsInv, Zenon

LEMMA CommitUnansweredInv ==
  ASSUME Inv, NEW k \in Callers, NEW c \in Clients, c = task[k].client, CommitUnanswered(k)
  PROVE  Inv'
<1>1. /\ task[k].pc = "commit"
      /\ session' = [session EXCEPT ![c] = [Ended(session[c]) EXCEPT !.alive = FALSE]]
      /\ committed' = committed \cup session[c].writes /\ unsure' = unsure \cup {k}
      /\ UNCHANGED <<client, disturbed>>
  BY DEF CommitUnanswered
<1>2. faults' \in 0 .. MaxFaults /\ unsure' \subseteq Callers
  BY <1>1 DEF CommitUnanswered, Inv, TypeOK
<1>3. Throws(k, FALSE)
  BY Zenon DEF CommitUnanswered
<1>4. session[c] \in Session
  BY DEF Inv, TypeOK
<1>5. PICK s \in Session : s = [Ended(session[c]) EXCEPT !.alive = FALSE]
  BY <1>4, EndedSession
<1>6. s.tx = "none" /\ s.tenant = None /\ s.writes = {}
  BY <1>4, <1>5, EndedSession
<1>7. session' = [session EXCEPT ![c] = s]
  BY <1>1, <1>5
<1>8. Fails(k, c, s)
  BY <1>1, <1>2, <1>6, <1>7 DEF Fails
<1> QED BY <1>1, <1>3, <1>8, ThrowsInv, Zenon

-----------------------------------------------------------------------------
(***************************************************************************)
(* Steps in which a request acquires a client or releases it.              *)
(***************************************************************************)
LEMMA OthersKept ==
  ASSUME Inv, NEW k \in Callers, NEW j \in Callers, j # k,
         task' = [task EXCEPT ![k] = task'[k]],
         disturbed \subseteq disturbed', UNCHANGED <<committed, unsure>>,
         j \notin disturbed' => \A d \in Clients :
           /\ j \in Users(d) => session'[d] = session[d] /\ client'[d] = client[d] /\ k \notin Users(d)'
           /\ j \in session'[d].writes => j \in session[d].writes
  PROVE  Shape(j)' /\ (j \in disturbed' \/ (Alone(j)' /\ Fate(j)'))
<1>1. task'[j] = task[j]
  BY DEF Inv, TypeOK
<1>2. Shape(j)'
  BY <1>1 DEF Inv, Shape, HasCatch, Scoped
<1>3. \A d \in Clients, i \in Callers : i # k => (i \in Users(d)' <=> i \in Users(d))
  BY DEF Users, Inv, TypeOK
<1>4. ASSUME j \notin disturbed' PROVE Alone(j)' /\ Fate(j)'
  <2>1. Alone(j) /\ Fate(j)
    BY <1>4 DEF Inv
  <2>2. Alone(j)'
    <3>1. ASSUME NEW d \in Clients, j \in Users(d)' PROVE Users(d)' = {j}
      <4>1. j \in Users(d) /\ Users(d) = {j} /\ k \notin Users(d)'
        BY <1>3, <1>4, <2>1, <3>1 DEF Alone
      <4>2. \A i \in Users(d)' : i \in Callers
        BY DEF Users
      <4> QED BY <1>3, <3>1, <4>1, <4>2
    <3> QED BY <1>3, <1>4, <2>1, <3>1 DEF Alone
  <2>3. ASSUME task[j].pc \in {"work", "verify", "commit"}
        PROVE  session'[task[j].client] = session[task[j].client]
    <3>1. PICK d \in Clients : d = task[j].client /\ j \in Users(d)
      BY <2>3, OwnClient DEF Holding
    <3> QED BY <1>4, <3>1
  <2>4. \A d \in Clients : j \in session'[d].writes => j \in Users(d)' /\ task'[j].pc \in Inside \ {"set"}
    BY <1>1, <1>3, <1>4, <2>1 DEF Fate
  <2> QED BY <1>1, <2>1, <2>2, <2>3, <2>4 DEF Fate, HasCatch, Scoped
<1> QED BY <1>2, <1>4

LEMMA CallInv ==
  ASSUME Inv, NEW k \in Callers, NEW kind \in Kinds, Call(k, kind)
  PROVE  Inv'
<1>1. /\ task[k].pc = "idle" /\ task[k] \in Task
      /\ task' = [task EXCEPT ![k].pc = "connect", ![k].kind = kind]
      /\ UNCHANGED <<client, session, committed, faults, disturbed, unsure>>
  BY DEF Call, Inv, TypeOK
<1>2. /\ task' = [task EXCEPT ![k] = task'[k]] /\ task'[k] \in Task
      /\ task'[k].pc = "connect" /\ task'[k].attempt = task[k].attempt /\ task'[k].saw = task[k].saw
  BY <1>1 DEF Inv, TypeOK, Task, Steps
<1>3. task'[k].wrote = task[k].wrote /\ task'[k].result = task[k].result
  BY <1>1, Zenon DEF Inv, TypeOK, Task
<1>4. TypeOK'
  BY <1>1, <1>2 DEF Inv, TypeOK
<1>5. \A d \in Clients : Users(d)' = Users(d) /\ k \notin Users(d)
  BY <1>1, <1>2 DEF Inv, TypeOK, Users
<1>6. ASSUME NEW d \in Clients PROVE Sound(d)'
  <2>1. ASSUME NEW j \in Users(d), task[j].pc \in Inside, HasCatch(j)
        PROVE  task'[j].pc \in Inside /\ HasCatch(j)'
    BY <1>1, <1>5, <2>1 DEF Users, HasCatch, Scoped, Inv, TypeOK
  <2> QED BY <1>1, <1>5, <2>1 DEF Inv, Sound
<1>7. Shape(k)'
  BY <1>1, <1>2, <1>3 DEF Inv, Shape, Holding
<1>8. ASSUME k \notin disturbed' PROVE Alone(k)' /\ Fate(k)'
  <2>1. Fate(k) /\ ~ task[k].wrote
    BY <1>1, <1>8 DEF Inv, Shape
  <2>2. Alone(k)'
    BY <1>5 DEF Alone
  <2>3. /\ \A d \in Clients : k \notin session'[d].writes
        /\ k \in committed' => k \in unsure'
    BY <1>1, <1>5, <2>1 DEF Fate
  <2> QED BY <1>2, <1>3, <2>1, <2>2, <2>3 DEF Fate
<1>9. ASSUME NEW j \in Callers, j # k PROVE Shape(j)' /\ (j \in disturbed' \/ (Alone(j)' /\ Fate(j)'))
  BY <1>1, <1>2, <1>5, <1>9, OthersKept
<1> QED BY <1>4, <1>6, <1>7, <1>8, <1>9 DEF Inv

LEMMA ConnectFailsInv ==
  ASSUME Inv, NEW k \in Callers, ConnectFails(k)
  PROVE  Inv'
<1>1. /\ task[k].pc = "connect" /\ task[k] \in Task /\ faults' \in 0 .. MaxFaults
      /\ task' = [task EXCEPT ![k].pc = "failed"]
      /\ UNCHANGED <<client, session, committed, disturbed, unsure>>
  BY DEF ConnectFails, Goes, Inv, TypeOK
<1>2. /\ task' = [task EXCEPT ![k] = task'[k]] /\ task'[k] \in Task
      /\ task'[k].pc = "failed" /\ task'[k].attempt = task[k].attempt /\ task'[k].saw = task[k].saw
      /\ task'[k].kind = task[k].kind
  BY <1>1 DEF Inv, TypeOK, Task, Steps
<1>3. task'[k].wrote = task[k].wrote /\ task'[k].result = task[k].result
  BY <1>1, Zenon DEF Inv, TypeOK, Task
<1>4. TypeOK'
  BY <1>1, <1>2 DEF Inv, TypeOK
<1>5. \A d \in Clients : Users(d)' = Users(d) /\ k \notin Users(d)
  BY <1>1, <1>2 DEF Inv, TypeOK, Users
<1>6. ASSUME NEW d \in Clients PROVE Sound(d)'
  <2>1. ASSUME NEW j \in Users(d), task[j].pc \in Inside, HasCatch(j)
        PROVE  task'[j].pc \in Inside /\ HasCatch(j)'
    BY <1>1, <1>5, <2>1 DEF Users, HasCatch, Scoped, Inv, TypeOK
  <2> QED BY <1>1, <1>5, <2>1 DEF Inv, Sound
<1>7. Shape(k)'
  BY <1>1, <1>2, <1>3 DEF Inv, Shape, Holding
<1>8. ASSUME k \notin disturbed' PROVE Alone(k)' /\ Fate(k)'
  BY <1>1, <1>2, <1>3, <1>5, <1>8 DEF Inv, Alone, Fate, HasCatch, Scoped
<1>9. ASSUME NEW j \in Callers, j # k PROVE Shape(j)' /\ (j \in disturbed' \/ (Alone(j)' /\ Fate(j)'))
  BY <1>1, <1>2, <1>5, <1>9, OthersKept
<1> QED BY <1>4, <1>6, <1>7, <1>8, <1>9 DEF Inv

LEMMA ConnectInv ==
  ASSUME Inv, NEW k \in Callers, NEW c \in Clients, Connect(k, c)
  PROVE  Inv'
<1>1. /\ task[k].pc = "connect" /\ task[k] \in Task
      /\ client' = [client EXCEPT ![c] = "out"]
      /\ disturbed' = IF Users(c) # {} THEN disturbed \cup Users(c) \cup {k} ELSE disturbed
      /\ UNCHANGED <<session, committed, faults, unsure>>
  BY DEF Connect, Inv, TypeOK
<1>2. PICK pc \in {"work", "set", "begin"} :
        /\ task' = [task EXCEPT ![k].client = c, ![k].saw = {}, ![k].wrote = FALSE,
                      ![k].retry = FALSE, ![k].swallowed = FALSE, ![k].pc = pc]
        /\ pc = "begin" => HasCatch(k)
  <2> DEFINE Then == CASE task[k].kind = "query" -> "work"
                       [] task[k].kind = "withTenant" -> "set"
                       [] OTHER -> "begin"
  <2>1. task' = [task EXCEPT ![k].client = c, ![k].saw = {}, ![k].wrote = FALSE,
                   ![k].retry = FALSE, ![k].swallowed = FALSE, ![k].pc = Then]
    BY Zenon DEF Connect
  <2>2. Then \in {"work", "set", "begin"}
    OBVIOUS
  <2>3. Then = "begin" => HasCatch(k)
    BY <1>1 DEF Task, Kinds, HasCatch, Scoped
  <2> HIDE DEF Then
  <2> QED BY <2>1, <2>2, <2>3, Zenon
<1>3. /\ task' = [task EXCEPT ![k] = task'[k]] /\ task'[k] \in Task
      /\ task'[k].pc = pc /\ task'[k].client = c /\ task'[k].kind = task[k].kind
      /\ task'[k].attempt = task[k].attempt /\ task'[k].saw = {}
  BY <1>1, <1>2 DEF Inv, TypeOK, Task, Steps
<1>4. task'[k].wrote = FALSE /\ task'[k].result = task[k].result
  BY <1>1, <1>2, Zenon DEF Inv, TypeOK, Task
<1>5. Users(c) \subseteq Callers /\ k \notin Users(c)
  BY <1>1 DEF Users
<1>6. TypeOK'
  BY <1>1, <1>3, <1>5 DEF Inv, TypeOK, States
<1>7. /\ Users(c)' = Users(c) \cup {k}
      /\ \A d \in Clients \ {c} : Users(d)' = Users(d) /\ k \notin Users(d)
  BY <1>1, <1>2, <1>3 DEF Inv, TypeOK, Users
<1>8. ASSUME NEW d \in Clients PROVE Sound(d)'
  <2>1. ASSUME NEW j \in Users(d), task[j].pc \in Inside, HasCatch(j)
        PROVE  j \in Users(d)' /\ task'[j].pc \in Inside /\ HasCatch(j)'
    BY <1>1, <1>2, <1>7, <2>1 DEF Users, HasCatch, Scoped, Inv, TypeOK, Inside
  <2> QED BY <1>1, <1>7, <2>1 DEF Inv, Sound, TypeOK
<1>9. Shape(k)'
  BY <1>1, <1>2, <1>3, <1>4 DEF Inv, Shape, HasCatch, Scoped, Holding
<1>10. ASSUME k \notin disturbed' PROVE Alone(k)' /\ Fate(k)'
  <2>1. Users(c) = {} /\ k \notin disturbed /\ Users(c)' = {k}
    BY <1>1, <1>7, <1>10
  <2>2. session[c].tx = "none" /\ session[c].tenant = None
    BY <2>1 DEF Inv, Sound
  <2>3. Alone(k)'
    BY <1>1, <1>7, <2>1, <2>2 DEF Inv, TypeOK, Alone
  <2>4. \A d \in Clients : k \notin session[d].writes
    BY <1>1, <2>1 DEF Inv, Fate, Inside
  <2>5. k \in committed => k \in unsure
    BY <1>1, <2>1 DEF Inv, Fate
  <2> QED BY <1>1, <1>2, <1>3, <1>4, <2>2, <2>3, <2>4, <2>5 DEF Fate
<1>11. ASSUME NEW j \in Callers, j # k PROVE Shape(j)' /\ (j \in disturbed' \/ (Alone(j)' /\ Fate(j)'))
  <2>1. ASSUME j \notin disturbed', NEW d \in Clients, j \in Users(d) PROVE d # c
    BY <1>1, <2>1
  <2> QED BY <1>1, <1>3, <1>7, <1>11, <2>1, OthersKept DEF Inv, TypeOK
<1> QED BY <1>6, <1>8, <1>9, <1>10, <1>11 DEF Inv

LEMMA FinallyInv ==
  ASSUME Inv, NEW k \in Callers, NEW c \in Clients, c = task[k].client, Finally(k)
  PROVE  Inv'
<1>1. /\ task[k].pc = "finally" /\ task[k] \in Task /\ k \in Users(c)
      /\ client' = IF client[c] = "out" THEN Released(c) ELSE client
      /\ disturbed' = IF client[c] = "out" THEN disturbed \cup (Users(c) \ {k}) ELSE disturbed
      /\ UNCHANGED <<session, committed, faults, unsure>>
  BY OwnClient DEF Finally, Holding, Inv, TypeOK
<1>2. PICK pc \in {"returned", "failed"} :
        /\ task' = [task EXCEPT ![k].pc = pc]
        /\ pc = "returned" => task[k].result
        /\ pc = "failed" => ~ task[k].result \/ client[c] # "out"
  BY DEF Finally, Goes
<1>3. /\ task' = [task EXCEPT ![k] = task'[k]] /\ task'[k] \in Task
      /\ task'[k].pc = pc /\ task'[k].client = c /\ task'[k].kind = task[k].kind
      /\ task'[k].attempt = task[k].attempt /\ task'[k].saw = task[k].saw
  BY <1>1, <1>2 DEF Inv, TypeOK, Task, Steps
<1>4. /\ task'[k].wrote = task[k].wrote /\ task'[k].result = task[k].result
      /\ task'[k].swallowed = task[k].swallowed
  BY <1>1, <1>2, Zenon DEF Inv, TypeOK, Task
<1>5. /\ client'[c] # "out" /\ client' \in [Clients -> States]
      /\ \A d \in Clients \ {c} : client'[d] = client[d]
  BY <1>1 DEF Released, Inv, TypeOK, States
<1>6. TypeOK'
  BY <1>1, <1>3, <1>5 DEF Inv, TypeOK, Users
<1>7. /\ Users(c)' = Users(c) \ {k}
      /\ \A d \in Clients \ {c} : Users(d)' = Users(d) /\ k \notin Users(d)
  BY <1>1, <1>2, <1>3 DEF Inv, TypeOK, Users
<1>8. ASSUME NEW d \in Clients PROVE Sound(d)'
  <2>1. ASSUME NEW j \in Users(d), task[j].pc \in Inside, HasCatch(j)
        PROVE  j \in Users(d)' /\ task'[j].pc \in Inside /\ HasCatch(j)'
    BY <1>1, <1>2, <1>7, <2>1 DEF Users, HasCatch, Scoped, Inv, TypeOK, Inside
  <2> QED BY <1>1, <1>5, <1>7, <2>1 DEF Inv, Sound
<1>9. Shape(k)'
  BY <1>1, <1>2, <1>3, <1>4 DEF Inv, Shape, Holding
<1>10. ASSUME k \notin disturbed' PROVE Alone(k)' /\ Fate(k)'
  <2>1. Alone(k) /\ Fate(k) /\ client[c] = "out"
    BY <1>1, <1>10 DEF Inv, Alone
  <2>2. Alone(k)'
    BY <1>7, <2>1 DEF Alone
  <2>3. \A d \in Clients : k \notin session[d].writes
    BY <1>1, <2>1 DEF Fate, Inside
  <2> QED BY <1>1, <1>2, <1>3, <1>4, <2>1, <2>2, <2>3 DEF Fate, HasCatch, Scoped
<1>11. ASSUME NEW j \in Callers, j # k PROVE Shape(j)' /\ (j \in disturbed' \/ (Alone(j)' /\ Fate(j)'))
  <2>1. ASSUME j \notin disturbed', NEW d \in Clients, j \in Users(d) PROVE d # c
    <3>1. ASSUME d = c PROVE client[c] = "out" /\ j \in Users(c) \ {k}
      BY <1>1, <1>11, <2>1, <3>1 DEF Inv, Alone
    <3> QED BY <1>1, <2>1, <3>1
  <2> QED BY <1>1, <1>3, <1>5, <1>7, <1>11, <2>1, OthersKept DEF Inv, TypeOK
<1> QED BY <1>6, <1>8, <1>9, <1>10, <1>11 DEF Inv

LEMMA WakeUpInv ==
  ASSUME Inv, NEW k \in Callers, NEW c \in Clients, c = task[k].client, WakeUp(k)
  PROVE  Inv'
<1>1. /\ task[k].pc = "sleep" /\ task[k] \in Task /\ k \notin Users(c)
      /\ client' = IF client[c] = "out" THEN Released(c) ELSE client
      /\ disturbed' = IF client[c] = "out" THEN disturbed \cup Users(c) ELSE disturbed
      /\ UNCHANGED <<session, committed, faults, unsure>>
  BY DEF WakeUp, Users, Inv, TypeOK
<1>2. PICK pc \in {"connect", "failed"}, attempt \in Nat :
        /\ task' = [task EXCEPT ![k].pc = pc, ![k].attempt = attempt]
        /\ attempt = task[k].attempt \/ client[c] = "out"
  <2>1. CASE client[c] = "out"
    <3>1. task' = [task EXCEPT ![k].pc = "connect", ![k].attempt = task[k].attempt + 1]
      BY <1>1, <2>1 DEF WakeUp
    <3>2. task[k].attempt + 1 \in Nat
      BY <1>1 DEF Task
    <3> QED BY <2>1, <3>1, <3>2
  <2>2. CASE client[c] # "out"
    <3>1. task' = [task EXCEPT ![k].pc = "failed"]
      BY <1>1, <2>2 DEF WakeUp, Goes
    <3>2. task' = [task EXCEPT ![k].pc = "failed", ![k].attempt = task[k].attempt]
      BY <1>1, <3>1 DEF Inv, TypeOK, Task
    <3>3. task[k].attempt \in Nat
      BY <1>1 DEF Task
    <3> QED BY <3>2, <3>3
  <2> QED BY <2>1, <2>2
<1>3. /\ task' = [task EXCEPT ![k] = task'[k]] /\ task'[k] \in Task
      /\ task'[k].pc = pc /\ task'[k].kind = task[k].kind
      /\ task'[k].attempt = attempt /\ task'[k].saw = task[k].saw
  BY <1>1, <1>2 DEF Inv, TypeOK, Task, Steps
<1>4. task'[k].wrote = task[k].wrote /\ task'[k].result = task[k].result
  BY <1>1, <1>2, Zenon DEF Inv, TypeOK, Task
<1>5. /\ client'[c] # "out" /\ client' \in [Clients -> States]
      /\ \A d \in Clients \ {c} : client'[d] = client[d]
  BY <1>1 DEF Released, Inv, TypeOK, States
<1>6. TypeOK'
  BY <1>1, <1>3, <1>5 DEF Inv, TypeOK, Users
<1>7. \A d \in Clients : Users(d)' = Users(d) /\ k \notin Users(d)
  BY <1>1, <1>2, <1>3 DEF Inv, TypeOK, Users
<1>8. ASSUME NEW d \in Clients PROVE Sound(d)'
  <2>1. ASSUME NEW j \in Users(d), task[j].pc \in Inside, HasCatch(j)
        PROVE  task'[j].pc \in Inside /\ HasCatch(j)'
    BY <1>1, <1>2, <1>7, <2>1 DEF Users, HasCatch, Scoped, Inv, TypeOK, Inside
  <2> QED BY <1>1, <1>5, <1>7, <2>1 DEF Inv, Sound
<1>9. Shape(k)'
  <2>1. attempt > 0 => disturbed' \ {k} # {}
    <3>1. CASE client[c] = "out"
      BY <1>1, <3>1 DEF Inv, Sound
    <3>2. CASE client[c] # "out"
      BY <1>1, <1>2, <3>2 DEF Inv, Shape
    <3> QED BY <3>1, <3>2
  <2> QED BY <1>1, <1>2, <1>3, <1>4, <2>1 DEF Inv, Shape, Holding
<1>10. ASSUME k \notin disturbed' PROVE Alone(k)' /\ Fate(k)'
  <2>1. Fate(k)
    BY <1>1, <1>10 DEF Inv
  <2>2. Alone(k)'
    BY <1>7 DEF Alone
  <2>3. \A d \in Clients : k \notin session[d].writes
    BY <1>1, <2>1 DEF Fate, Inside
  <2>4. k \in committed => k \in unsure
    BY <1>1, <2>1 DEF Fate
  <2> QED BY <1>1, <1>2, <1>3, <1>4, <2>1, <2>2, <2>3, <2>4 DEF Fate, HasCatch, Scoped
<1>11. ASSUME NEW j \in Callers, j # k PROVE Shape(j)' /\ (j \in disturbed' \/ (Alone(j)' /\ Fate(j)'))
  <2>1. ASSUME j \notin disturbed', NEW d \in Clients, j \in Users(d) PROVE d # c
    <3>1. ASSUME d = c PROVE client[c] = "out" /\ j \in Users(c)
      BY <1>1, <1>11, <2>1, <3>1 DEF Inv, Alone
    <3> QED BY <1>1, <2>1, <3>1
  <2> QED BY <1>1, <1>3, <1>5, <1>7, <1>11, <2>1, OthersKept DEF Inv, TypeOK
<1> QED BY <1>6, <1>8, <1>9, <1>10, <1>11 DEF Inv

LEMMA RollbackInv ==
  ASSUME Inv, NEW k \in Callers, NEW c \in Clients, c = task[k].client, Rollback(k)
  PROVE  Inv'
<1>1. /\ task[k].pc = "catch" /\ task[k] \in Task /\ k \in Users(c) /\ session[c] \in Session
      /\ ~ task[k].result
      /\ UNCHANGED <<committed, faults, unsure>>
  BY OwnClient DEF Rollback, Holding, Inv, TypeOK, Shape
<1>2. PICK s \in Session : /\ session' = [session EXCEPT ![c] = s] 
                           /\ s = IF HasCatch(k) THEN RolledBack(session[c]) ELSE session[c]
  <2>1. RolledBack(session[c]) \in Session
    BY <1>1, EndedSession DEF RolledBack
  <2>2. session = [session EXCEPT ![c] = session[c]]
    BY DEF Inv, TypeOK
  <2> QED BY <1>1, <2>1, <2>2 DEF Rollback
<1>3. /\ HasCatch(k) => s.tx = "none" /\ s.tenant = None /\ s.writes = {}
      /\ ~ HasCatch(k) => s = session[c]
  BY <1>1, <1>2, EndedSession DEF RolledBack, Inv, Sound
<1>4. session'[c] = s /\ \A d \in Clients \ {c} : session'[d] = session[d]
  BY <1>2 DEF Inv, TypeOK
<1>5. k \notin disturbed => s.tx = "none" /\ s.tenant = None /\ s.writes = {}
  BY <1>1, <1>3, NoTransaction
<1>6. PICK pc \in {"sleep", "finally"} :
        /\ task' = [task EXCEPT ![k].pc = pc]
        /\ pc = "sleep" => /\ MayRetry(k) /\ client[c] = "out"
                           /\ client' = Released(c)
                           /\ disturbed' = disturbed \cup (Users(c) \ {k})
        /\ pc = "finally" => UNCHANGED <<client, disturbed>>
  BY DEF Rollback, Goes
<1>7. /\ task' = [task EXCEPT ![k] = task'[k]] /\ task'[k] \in Task
      /\ task'[k].pc = pc /\ task'[k].client = c /\ task'[k].kind = task[k].kind
      /\ task'[k].attempt = task[k].attempt /\ task'[k].saw = task[k].saw
  BY <1>1, <1>6 DEF Inv, TypeOK, Task, Steps
<1>8. /\ task'[k].wrote = task[k].wrote /\ task'[k].result = task[k].result
      /\ task'[k].swallowed = task[k].swallowed
  BY <1>1, <1>6, Zenon DEF Inv, TypeOK, Task
<1>9. Fate(k) /\ k \in committed => k \in unsure
  BY <1>1 DEF Fate
<1>10. /\ client' \in [Clients -> States] /\ disturbed \subseteq disturbed' /\ disturbed' \subseteq Callers
       /\ \A d \in Clients \ {c} : client'[d] = client[d]
       /\ pc = "sleep" => client'[c] # "out"
  BY <1>6 DEF Released, Inv, TypeOK, States, Users
<1>11. TypeOK'
  BY <1>1, <1>2, <1>7, <1>10 DEF Inv, TypeOK
<1>12. /\ pc = "sleep" => Users(c)' = Users(c) \ {k}
       /\ pc = "finally" => Users(c)' = Users(c)
       /\ \A d \in Clients \ {c} : Users(d)' = Users(d) /\ k \notin Users(d)
  BY <1>1, <1>6, <1>7 DEF Inv, TypeOK, Users
<1>13. ASSUME NEW d \in Clients PROVE Sound(d)'
  <2>1. CASE d = c
    <3>1. CASE HasCatch(k)
      BY <1>3, <1>4, <1>6, <1>10, <1>12, <2>1, <3>1 DEF Inv, Sound
    <3>2. CASE ~ HasCatch(k)
      <4>1. pc = "finally"
        BY <1>6, <3>2 DEF MayRetry, HasCatch, Scoped
      <4>2. ASSUME NEW j \in Users(c), task[j].pc \in Inside, HasCatch(j)
            PROVE  task'[j].pc \in Inside /\ HasCatch(j)'
        BY <1>6, <3>2, <4>2 DEF Users, HasCatch, Scoped, Inv, TypeOK, Inside
      <4> QED BY <1>3, <1>4, <1>6, <1>12, <2>1, <3>2, <4>1, <4>2 DEF Inv, Sound
    <3> QED BY <3>1, <3>2
  <2>2. CASE d # c
    <3>1. ASSUME NEW j \in Users(d), task[j].pc \in Inside, HasCatch(j)
          PROVE  task'[j].pc \in Inside /\ HasCatch(j)'
      BY <1>6, <1>12, <2>2, <3>1 DEF Users, HasCatch, Scoped, Inv, TypeOK
    <3> QED BY <1>4, <1>10, <1>12, <2>2, <3>1 DEF Inv, Sound
  <2> QED BY <2>1, <2>2
<1>14. Shape(k)'
  BY <1>1, <1>6, <1>7, <1>8, <1>10 DEF Inv, Shape
<1>15. ASSUME k \notin disturbed' PROVE Alone(k)' /\ Fate(k)'
  <2>1. Alone(k) /\ Fate(k) /\ k \notin disturbed
    BY <1>10, <1>15 DEF Inv
  <2>2. Alone(k)'
    BY <1>1, <1>4, <1>5, <1>6, <1>10, <1>12, <2>1 DEF Alone
  <2>3. ASSUME NEW d \in Clients PROVE k \notin session'[d].writes
    BY <1>4, <1>5, <1>12, <2>1, <2>3 DEF Fate
  <2>4. k \in committed => k \in unsure
    BY <1>9, <2>1
  <2> QED BY <1>1, <1>6, <1>7, <1>8, <2>1, <2>2, <2>3, <2>4 DEF Fate, HasCatch, Scoped
<1>16. ASSUME NEW j \in Callers, j # k PROVE Shape(j)' /\ (j \in disturbed' \/ (Alone(j)' /\ Fate(j)'))
  <2>1. ASSUME j \notin disturbed', NEW d \in Clients, j \in Users(d) PROVE d # c
    <3>1. ASSUME d = c PROVE FALSE
      BY <1>1, <1>10, <1>16, <2>1, <3>1 DEF Inv, Alone
    <3> QED BY <3>1
  <2>2. ASSUME j \notin disturbed', NEW d \in Clients, j \in session'[d].writes
        PROVE  j \in session[d].writes
    <3>1. CASE d # c
      BY <1>4, <2>2, <3>1
    <3>2. CASE d = c
      BY <1>3, <1>4, <2>2, <3>2
    <3> QED BY <3>1, <3>2
  <2> QED BY <1>1, <1>4, <1>7, <1>10, <1>12, <1>16, <2>1, <2>2, OthersKept
<1> QED BY <1>11, <1>13, <1>14, <1>15, <1>16 DEF Inv

LEMMA BreakInv ==
  ASSUME Inv, NEW c \in Clients, Break(c)
  PROVE  Inv'
<1>1. /\ UNCHANGED <<client, task, committed, disturbed, unsure>>
      /\ faults' \in 0 .. MaxFaults /\ session[c] \in Session
  BY DEF Break, Inv, TypeOK
<1>2. PICK s \in Session : /\ session' = [session EXCEPT ![c] = s]
                           /\ s = [Ended(session[c]) EXCEPT !.alive = FALSE]
  BY <1>1, EndedSession DEF Break
<1>3. s.tx = "none" /\ s.tenant = None /\ s.writes = {}
  BY <1>1, <1>2, EndedSession
<1>4. ~ s.alive
  BY <1>1, <1>2, Zenon DEF Ended, Session
<1>5. session'[c] = s /\ \A d \in Clients \ {c} : session'[d] = session[d]
  BY <1>2 DEF Inv, TypeOK
<1>6. TypeOK'
  BY <1>1, <1>2 DEF Inv, TypeOK
<1>7. \A d \in Clients : Users(d)' = Users(d)
  BY <1>1 DEF Users
<1>8. ASSUME NEW d \in Clients PROVE Sound(d)'
  BY <1>1, <1>3, <1>4, <1>5, <1>7 DEF Inv, Sound, HasCatch, Scoped
<1>9. ASSUME NEW j \in Callers PROVE Shape(j)'
  BY <1>1 DEF Inv, Shape, HasCatch, Scoped
<1>10. ASSUME NEW j \in Callers, j \notin disturbed PROVE Alone(j)' /\ Fate(j)'
  <2>1. Alone(j) /\ Fate(j)
    BY <1>10 DEF Inv
  <2>2. Alone(j)'
    BY <1>1, <1>3, <1>5, <1>7, <2>1 DEF Alone
  <2>3. \A d \in Clients : j \in session'[d].writes => j \in session[d].writes
    BY <1>3, <1>5
  <2>4. ASSUME task[j].pc \in {"work", "verify", "commit"}
        PROVE  task[j].client \in Clients
    BY <2>4, OwnClient DEF Holding
  <2>5. ASSUME task[j].pc \in {"work", "verify", "commit"}
        PROVE  LET t == session'[task[j].client]
               IN  /\ task[j].wrote /\ t.alive => j \in t.writes \/ t.tx = "aborted"
                   /\ t.tx = "aborted" => task[j].swallowed
                   /\ task[j].pc = "commit" /\ Scoped(j) /\ Monitor => t.tx # "aborted"
    BY <1>3, <1>4, <1>5, <2>1, <2>4, <2>5 DEF Fate
  <2> QED BY <1>1, <1>7, <2>1, <2>2, <2>3, <2>5 DEF Fate, HasCatch, Scoped
<1> QED BY <1>1, <1>6, <1>8, <1>9, <1>10 DEF Inv

-----------------------------------------------------------------------------
LEMMA NextInv == Inv /\ [Next]_vars => Inv'
<1> SUFFICES ASSUME Inv, [Next]_vars PROVE Inv'
  OBVIOUS
<1>1. ASSUME NEW k \in Callers, NEW kind \in Kinds, Call(k, kind) PROVE Inv'
  BY <1>1, CallInv
<1>2. ASSUME NEW k \in Callers, NEW c \in Clients, Connect(k, c) PROVE Inv'
  BY <1>2, ConnectInv
<1>3. ASSUME NEW k \in Callers, ConnectFails(k) PROVE Inv'
  BY <1>3, ConnectFailsInv
<1>4. ASSUME NEW k \in Callers,
             BeginTransaction(k) \/ SetTenant(k) \/ Callback(k) \/ VerifyTenantContext(k) \/ Ends(k)
      PROVE  Inv'
  <2>1. task[k].pc \in Holding \cup {"sleep"}
    BY <1>4 DEF BeginTransaction, SetTenant, Statement, Callback, Read, Modify, Refused, CallbackThrows,
       CallbackEnds, VerifyTenantContext, Ends, Commit, CommitRefused, CommitUnanswered, Rollback,
       WakeUp, Finally, Holding
  <2>2. PICK c \in Clients : c = task[k].client
    BY <2>1 DEF Inv, Shape
  <2>3. CASE Callback(k)
    BY <2>2, <2>3, ReadInv, ModifyInv, RefusedInv, CallbackThrowsInv, CallbackEndsInv, Zenon DEF Callback
  <2>4. CASE Ends(k)
    BY <2>2, <2>4, CommitInv, CommitRefusedInv, CommitUnansweredInv, RollbackInv, WakeUpInv, FinallyInv,
       Zenon DEF Ends
  <2> QED BY <1>4, <2>2, <2>3, <2>4, BeginInv, SetTenantInv, VerifyTenantContextInv, Zenon
<1>5. ASSUME NEW c \in Clients, Break(c) PROVE Inv'
  BY <1>5, BreakInv
<1>6. CASE UNCHANGED vars
  <2>1. \A d \in Clients : Users(d)' = Users(d)
    BY <1>6 DEF vars, Users
  <2>2. TypeOK' /\ \A d \in Clients : Sound(d)'
    BY <1>6, <2>1 DEF vars, Inv, TypeOK, Sound, HasCatch, Scoped
  <2>3. ASSUME NEW k \in Callers PROVE Shape(k)' /\ (k \in disturbed' \/ (Alone(k)' /\ Fate(k)'))
    BY <1>6, <2>1 DEF vars, Inv, Shape, Alone, Fate, HasCatch, Scoped
  <2> QED BY <2>2, <2>3 DEF Inv
<1> QED BY <1>1, <1>2, <1>3, <1>4, <1>5, <1>6, Zenon DEF Next

LEMMA Invariance == Spec => []Inv
BY InitInv, NextInv, PTL DEF Spec

-----------------------------------------------------------------------------
\* Every variable keeps its type; at most MaxFaults faults happen.
THEOREM TypeCorrect == Spec => []TypeOK
<1>1. Inv => TypeOK
  BY DEF Inv
<1> QED BY <1>1, Invariance, PTL

\* The setting of the tenant ends with the transaction that made it, whether it is
\* committed, rolled back or lost: a callback sees rows of its own tenant only,
\* unless another request used its client.
THEOREM CallbackSeesOwnTenant == Spec => []SeesOwnTenant
<1>1. Inv => SeesOwnTenant
  BY DEF Inv, Fate, SeesOwnTenant
<1> QED BY <1>1, Invariance, PTL

\* What transaction, execute and the two methods of RlsService tell their caller is
\* what happened to the writes of the callback, apart from the three cases the
\* property names.
THEOREM AnswersAreTrue == Spec => []AnswerIsTrue
<1>1. Inv => AnswerIsTrue
  <2> SUFFICES ASSUME Inv, NEW k \in Callers \ disturbed
               PROVE  /\ task[k].pc = "returned" /\ task[k].wrote =>
                           \/ k \in committed
                           \/ task[k].swallowed /\ ~ (Scoped(k) /\ Monitor)
                      /\ task[k].pc = "failed" /\ k \in committed => k \in unsure
    BY DEF AnswerIsTrue
  <2>1. Fate(k) /\ (task[k].pc = "returned" => task[k].result)
    BY DEF Inv, Shape
  <2> QED BY <2>1 DEF Fate
<1> QED BY <1>1, Invariance, PTL

\* The retry of transaction is reached only over a client that another request has
\* acquired during the pause; otherwise the second release throws.
THEOREM RetryTakesTheClientOfAnother == Spec => []RetryTakesAClient
<1>1. Inv => RetryTakesAClient
  BY DEF Inv, Shape, RetryTakesAClient
<1> QED BY <1>1, Invariance, PTL
=============================================================================
