----------------------------- MODULE EventQueue -----------------------------
(***************************************************************************)
(* What the outbox promises to a publisher: an accepted event stays queued *)
(* until it was delivered, until delivery failed MaxAttempts times, or     *)
(* until it is known that nobody listens to it.  It may be delivered more  *)
(* than once.  A worker that is late loses the event, but is not stopped:  *)
(* it may still deliver the event, or fail to, after the others settled it *)
(* and it was retired.                                                     *)
(***************************************************************************)
EXTENDS Naturals

CONSTANTS
  Events,        \* the domain events of a run
  Handled,       \* the events whose type has a registered handler
  MaxAttempts    \* failed attempts after which an event may be given up

VARIABLES
  state,         \* state[e]: new, queued or retired
  delivered,     \* delivered[e]: how many times a handler ran on e to its end
  attempts,      \* attempts[e]: how many attempts to process e failed
  takenBack      \* the events that were taken back from a late worker

vars == <<state, delivered, attempts, takenBack>>

Settled(e) ==
  \/ delivered[e] > 0
  \/ attempts[e] >= MaxAttempts
  \/ e \notin Handled

Init ==
  /\ state = [e \in Events |-> "new"]
  /\ delivered = [e \in Events |-> 0]
  /\ attempts = [e \in Events |-> 0]
  /\ takenBack = {}

\* Somebody may have e in hand.
InHand(e) == state[e] = "queued" \/ e \in takenBack

Accept(e) ==
  /\ state[e] = "new"
  /\ state' = [state EXCEPT ![e] = "queued"]
  /\ UNCHANGED <<delivered, attempts, takenBack>>

Deliver(e) ==
  /\ InHand(e)
  /\ e \in Handled
  /\ delivered' = [delivered EXCEPT ![e] = @ + 1]
  /\ UNCHANGED <<state, attempts, takenBack>>

FailAttempt(e) ==
  /\ InHand(e)
  /\ attempts' = [attempts EXCEPT ![e] = @ + 1]
  /\ UNCHANGED <<state, delivered, takenBack>>

\* Queued events are taken back from workers that are late.
TakeBack(S) ==
  /\ \A e \in S : state[e] = "queued"
  /\ takenBack' = takenBack \cup S
  /\ UNCHANGED <<state, delivered, attempts>>

Retire(e) ==
  /\ state[e] = "queued"
  /\ Settled(e)
  /\ state' = [state EXCEPT ![e] = "retired"]
  /\ UNCHANGED <<delivered, attempts, takenBack>>

Next ==
  \/ \E e \in Events : Accept(e) \/ Deliver(e) \/ FailAttempt(e) \/ Retire(e)
  \/ \E S \in SUBSET Events : TakeBack(S)

SafeSpec == Init /\ [][Next]_vars

\* Every accepted event is delivered, given up after MaxAttempts failures, or
\* was never listened to.
EventuallySettled == \A e \in Events : (state[e] = "queued") ~> Settled(e)
=============================================================================
