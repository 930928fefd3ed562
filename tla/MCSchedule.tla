------------------------------ MODULE MCSchedule ------------------------------
(***************************************************************************)
(* A small instance of Schedule: two days of four instants, shifts that    *)
(* end at midnight, cross it, start after it, and two no manager can have. *)
(***************************************************************************)
EXTENDS Schedule, TLC

CONSTANT e1

HourInputs ==
  {[start |-> 1, end |-> 4], [start |-> 2, end |-> 6], [start |-> 5, end |-> 7],
   [start |-> 6, end |-> 6], [start |-> 0, end |-> 8]}

\* A job that crosses midnight, and a short one before it.
Bookings ==
  {[employee |-> e1, start |-> 3, end |-> 5], [employee |-> e1, start |-> 2, end |-> 3]}

Symmetry == Permutations(Ids) \cup Permutations(Requests)
==============================================================================
