------------------------------ MODULE Catalogue ------------------------------
(***************************************************************************)
(* The price list and the sites of one business: the writes of             *)
(* internal/service/catalog_service.go over repository/catalog_repo.go.    *)
(*                                                                         *)
(* An update names the fields it changes.  A number left out of a request  *)
(* arrives as zero, so zero means "as it is", and a rule about two fields  *)
(* is looked at with what the request brings, never with what is stored.   *)
(* A row is never deleted, only withdrawn.                                 *)
(***************************************************************************)
EXTENDS Integers

CONSTANTS
  Services,     \* ObjectIDs of wash services, each given out once
  Sites,        \* ObjectIDs of locations, each given out once
  Amounts,      \* prices and bonuses a request can bring
  Minutes,      \* durations a request can bring
  Radii,        \* geofence radii a request can bring, in metres
  Nil

VARIABLES
  services,     \* Services to a price list item, or Nil
  sites         \* Sites to a location, or Nil

vars == <<services, sites>>

\* models.WashService and models.Location, less their wording: an item that fits
\* a shift and has a price, a fence a clock-in can be judged by.
WashService == [minutes : 1 .. 480, price : Nat \ {0}, bonus : Nat, active : BOOLEAN]
Location == [radius : 25 .. 1000, active : BOOLEAN]

\* Whatever sequence of partial updates led here.
TypeOK ==
  /\ services \in [Services -> WashService \cup {Nil}]
  /\ sites \in [Sites -> Location \cup {Nil}]

Init ==
  /\ services = [s \in Services |-> Nil]
  /\ sites = [l \in Sites |-> Nil]

\* A field of a request: what it brings, or what was there when it brings nothing.
Set(brought, stored) == IF brought = 0 THEN stored ELSE brought

\* As for the numbers, with a pointer: Nil is not named.
SetFlag(brought, stored) == IF brought = Nil THEN stored ELSE brought

------------------------------------------------------------------------------
(* Wash services.                                                          *)

\* WashServiceRepo.Create, under an _id that is new.
InsertService(s, row) ==
  /\ services[s] = Nil
  /\ services' = [services EXCEPT ![s] = row]
  /\ UNCHANGED sites

\* WashServiceRepo.Update: the $set of one row, refused when there is none.
SetService(s, row) ==
  /\ services[s] # Nil
  /\ services' = [services EXCEPT ![s] = row]
  /\ UNCHANGED sites

\* The rule on the two amounts is left out.
ValidServiceFault(in, creating) ==
  /\ creating => in.minutes > 0 /\ in.price > 0
  /\ in.minutes >= 0 /\ in.minutes <= 480
  /\ in.price >= 0 /\ in.bonus >= 0

\* validateWashService.
ValidService(in, creating) ==
  /\ creating => in.minutes > 0 /\ in.price > 0
  /\ in.minutes >= 0 /\ in.minutes <= 480
  /\ in.price >= 0 /\ in.bonus >= 0
  /\ in.price > 0 => in.bonus <= in.price

CreateWashService(s, in) ==
  /\ ValidService(in, TRUE)
  /\ InsertService(s, [minutes |-> in.minutes, price |-> in.price, bonus |-> in.bonus,
                       active |-> SetFlag(in.active, TRUE)])

UpdateWashService(s, in) ==
  /\ ValidService(in, FALSE)
  /\ SetService(s, [minutes |-> Set(in.minutes, services[s].minutes),
                    price |-> Set(in.price, services[s].price),
                    bonus |-> Set(in.bonus, services[s].bonus),
                    active |-> SetFlag(in.active, services[s].active)])

------------------------------------------------------------------------------
(* Locations.                                                              *)

\* minGeofenceRadiusM and maxGeofenceRadiusM.
ValidRadius(radius) == radius >= 25 /\ radius <= 1000

\* LocationRepo.Create and Update, as for the services.
InsertSite(l, row) ==
  /\ sites[l] = Nil
  /\ sites' = [sites EXCEPT ![l] = row]
  /\ UNCHANGED services

SetSite(l, row) ==
  /\ sites[l] # Nil
  /\ sites' = [sites EXCEPT ![l] = row]
  /\ UNCHANGED services

CreateLocation(l, radius, active) ==
  /\ ValidRadius(radius)
  /\ InsertSite(l, [radius |-> radius, active |-> SetFlag(active, TRUE)])

\* A radius is judged only when it is above zero.
AcceptedRadiusFault(radius) == radius > 0 => radius <= 1000

AcceptedRadius(radius) == radius # 0 => ValidRadius(radius)

UpdateLocation(l, radius, active) ==
  /\ AcceptedRadius(radius)
  /\ SetSite(l, [radius |-> Set(radius, sites[l].radius),
                 active |-> SetFlag(active, sites[l].active)])

Flags == BOOLEAN \cup {Nil}

Next ==
  \/ \E s \in Services,
        in \in [minutes : Minutes, price : Amounts, bonus : Amounts, active : Flags] :
       CreateWashService(s, in) \/ UpdateWashService(s, in)
  \/ \E l \in Sites, radius \in Radii, active \in Flags :
       CreateLocation(l, radius, active) \/ UpdateLocation(l, radius, active)

Spec == Init /\ [][Next]_vars

------------------------------------------------------------------------------
(* What the catalogue promises.                                            *)

LosesMoney(s) == services[s] # Nil /\ services[s].bonus > services[s].price

\* A wash comes to cost more than it earns only by an update of one of its two
\* amounts: nothing that brings both, and no creation, gets past the rule.
ByOneAmount == \A s \in Services : ~LosesMoney(s) /\ LosesMoney(s)' =>
  /\ services[s] # Nil
  /\ services[s].price = services'[s].price \/ services[s].bonus = services'[s].bonus

LossComesByOneAmount == [][ByOneAmount]_vars
==============================================================================
