----------------------------- MODULE MCCustomers -----------------------------
(***************************************************************************)
(* Small instances of Customers.                                           *)
(***************************************************************************)
EXTENDS Customers, TLC

Symmetry ==
  Permutations(UserIds) \cup Permutations(CarIds) \cup Permutations(JobIds)
    \cup Permutations(Requests) \cup Permutations(Emails) \cup Permutations(Plates)
==============================================================================
