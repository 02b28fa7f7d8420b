----------------------------- MODULE MCDevices -----------------------------
(***************************************************************************)
(* Instances of Devices for TLC.                                           *)
(***************************************************************************)
EXTENDS Devices, TLC

CONSTANTS e1, e2, e3, d1, d2

\* One device that three employees may register, and a second one of e1.
SharedPhone == {<<e1, d1>>, <<e2, d1>>, <<e3, d1>>, <<e1, d2>>}

Symmetry == Permutations(Callers) \cup Permutations({e2, e3})

\* Bounds: a behaviour is followed until a second accident (a reactivation, a lookup
\* that missed an owner, an outdated reading written on) has happened in it, or two
\* rows have a token, or the devices of two employees were validated.
FewAccidents ==
  /\ Cardinality(reopened) + Cardinality(overlooked)
       + Cardinality(UNION {raced[k] : k \in Readings}) <= 1
  /\ Cardinality({r \in Rows : latest[r] # None}) + Cardinality(checked) <= 1
=============================================================================
