---------------------------- MODULE MCEntitlement ----------------------------
(***************************************************************************)
(* Small instances of Entitlement.                                         *)
(***************************************************************************)
EXTENDS Entitlement

\* A plan that names no product and is paid until t, and one of another product.
PaidUntil(t) ==
  [tenant |-> TRUE, status |-> "active", ends |-> t, modules |-> {}]

OtherProduct ==
  [tenant |-> TRUE, status |-> "trialing", ends |-> Nil, modules |-> {"travel"}]

Plans == {PaidUntil(3), OtherProduct}

OnePlan == {PaidUntil(3)}
==============================================================================
