---------------------------- MODULE MCScheduler ----------------------------
(***************************************************************************)
(* Instances of Scheduler for TLC: three days around the start of a month, *)
(* and zones that skip the midnight the month turns at, have the hour      *)
(* before it twice, or have the midnight after it twice.                   *)
(***************************************************************************)
EXTENDS Scheduler, TLC

Fixed(minutes) == [before |-> minutes, at |-> 0, after |-> minutes]

West == Fixed(-300)
\* The clock goes from midnight to one as the month turns, from one back to midnight
\* a day later, or from midnight back to eleven as the month turns.
Skips == [before |-> 120, at |-> 1320, after |-> 180]
Repeats == [before |-> 180, at |-> 2760, after |-> 120]
Doubles == [before |-> -180, at |-> 1620, after |-> -240]

AllZones == {West, Skips, Repeats, Doubles}

HomeOf(t) == CASE t = "west" -> West [] t = "skips" -> Skips
               [] t = "repeats" -> Repeats [] t = "doubles" -> Doubles

HomeZones == [t \in Tenants |-> HomeOf(t)]

Symmetry == Permutations(Nodes)
=============================================================================
