----------------------------- MODULE MCSessions -----------------------------
(***************************************************************************)
(* Instances of Sessions for TLC.  Tokens, reset tokens and requests are   *)
(* each interchangeable.                                                   *)
(***************************************************************************)
EXTENDS Sessions, FiniteSets, TLC

Symmetry == Permutations(Tokens) \cup Permutations(Resets) \cup Permutations(Callers)

\* Bounds of the exploration.  Beyond them a state is checked, not continued.
\* At most two accidents: overlapped rotations and revocations, clean-ups cut
\* short, locks out of step with the count, shared reset tokens.
Count(b) == IF b THEN 1 ELSE 0

FewAccidents ==
  Cardinality(forked) + Cardinality(stray) + Cardinality(lost) + Cardinality(shared)
    + Count(abandoned) + Count(lapsed) + Count(misplaced) <= 2

\* Many tokens, wrong passwords or new passwords, not all of them.
FewEvents ==
  LET issued == Cardinality({t \in Tokens : token[t] # "absent"})
  IN  failed + issued <= 3 /\ failed + issued + password <= 4

Bounded == FewAccidents /\ FewEvents
=============================================================================
