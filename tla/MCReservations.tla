---------------------------- MODULE MCReservations ----------------------------
(***************************************************************************)
(* Small instances of Reservations.                                        *)
(***************************************************************************)
EXTENDS Reservations, TLC

CONSTANTS e1, e2, e3, l1, l2

\* One long shift each, at one site.
OneSite == {[employee |-> e, location |-> l1, start |-> 1, end |-> Horizon + 3] : e \in Employees}

\* One employee at each site, and one who changes from l2 to l1 half way.
TwoSites ==
  {[employee |-> e1, location |-> l1, start |-> 1, end |-> 3],
   [employee |-> e2, location |-> l2, start |-> 1, end |-> 3],
   [employee |-> e3, location |-> l2, start |-> 1, end |-> 2],
   [employee |-> e3, location |-> l1, start |-> 2, end |-> 4]}

Symmetry == Permutations(Ids) \cup Permutations(Requests)
==============================================================================
