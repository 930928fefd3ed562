---------------------------- MODULE MCMigrateTenant ----------------------------
(***************************************************************************)
(* A database two businesses share, one of them from before there were     *)
(* tenants: an employee's slot each.                                       *)
(***************************************************************************)
EXTENDS MigrateTenant, TLC

CONSTANTS
  OldSlot, NewSlot,     \* of the business from before, and of the other one
  NewTenant

SlotOwner == OldSlot :> First @@ NewSlot :> NewTenant

Symmetry == Permutations(Rows)
==============================================================================
