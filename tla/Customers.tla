------------------------------ MODULE Customers ------------------------------
(***************************************************************************)
(* Who a booking is for: customers, their accounts and their cars.  The    *)
(* find-or-create of internal/service/guest_booking.go and walkin.go, the  *)
(* corrected plate of edit_reservation.go, RegisterCustomer of             *)
(* auth_service.go and the garage of car_service.go, over                  *)
(* internal/repository/user_repo.go and car_repo.go.                       *)
(*                                                                         *)
(* A guest is found by phone number and a car by plate, or made.  Between  *)
(* a search that finds nothing and the insertion another handler may       *)
(* insert: where a unique index stands behind the insertion, the handler   *)
(* searches again.  What scheduling has to say about a booking is in       *)
(* module Reservations: here a job is a customer and a car, and a booking  *)
(* that scheduling refuses is a handler that ends before its insertion.    *)
(***************************************************************************)
CONSTANTS
  UserIds, CarIds, JobIds,      \* ObjectIDs, each given out once
  Requests,                     \* handlers that can be running at one time
  Phones,                       \* telephone numbers, normalised
  Plates,                       \* number plates, normalised
  Emails,                       \* addresses, normalised
  Gone,                         \* a car that was deleted
  Nil                           \* no row, no phone, no account, not found

\* models.User for a customer.  An account is a row with an email, and then it has a
\* password; a guest has neither.  The keys are derived from the two fields.
User == [phone : Phones \cup {Nil}, email : Emails \cup {Nil}]

\* models.Car.
Car == [owner : UserIds, plate : Plates]

\* Of models.Reservation, whom it is for; and, as history that no row keeps, the
\* number a guest gave, until the desk corrects the job.
Job == [customer : UserIds, car : CarIds, gave : Phones \cup {Nil}]

\* What a handler can be asked, and its next command.
Kinds == {"guest", "walk_in", "own", "correct", "register", "claim"}

Commands ==
  {"create user", "find user", "find car", "create car", "find car again",
   "check car", "create job", "update job", "upgrade"}

\* A handler: what it was asked, what it has found or made, and its next command.
\* A correction names a job, and remembers the car it read there.
Request ==
  [kind : Kinds, phone : Phones \cup {Nil}, plate : Plates \cup {Nil}, email : Emails \cup {Nil},
   job : JobIds \cup {Nil}, was : CarIds \cup {Nil},
   customer : UserIds \cup {Nil}, car : CarIds \cup {Nil}, at : Commands]

\* What a handler was not asked, or has not found yet.
Blank == [kind |-> "own", phone |-> Nil, plate |-> Nil, email |-> Nil, job |-> Nil, was |-> Nil,
          customer |-> Nil, car |-> Nil, at |-> "check car"]

ASSUME NilAssumption ==
  /\ Nil \notin Phones /\ Nil \notin Plates /\ Nil \notin Emails
  /\ Nil \notin UserIds /\ Nil \notin CarIds
  /\ Nil \notin User /\ Nil \notin Car /\ Nil \notin Job /\ Nil \notin Request
  /\ Nil \notin [customer : UserIds, number : Phones \cup {Nil}]
  /\ Gone \notin Car /\ Gone # Nil

VARIABLES
  users,        \* the customers of the collection: UserIds to User, or Nil
  cars,         \* the collection: CarIds to Car, Nil, or Gone
  jobs,         \* the collection: JobIds to Job, or Nil
  reqs          \* the handlers: Requests to Request, or Nil when idle

vars == <<users, cars, jobs, reqs>>

TypeOK ==
  /\ users \in [UserIds -> User \cup {Nil}]
  /\ cars \in [CarIds -> Car \cup {Nil, Gone}]
  /\ jobs \in [JobIds -> Job \cup {Nil}]
  /\ reqs \in [Requests -> Request \cup {Nil}]

Init ==
  /\ users = [u \in UserIds |-> Nil]
  /\ cars = [c \in CarIds |-> Nil]
  /\ jobs = [j \in JobIds |-> Nil]
  /\ reqs = [r \in Requests |-> Nil]

------------------------------------------------------------------------------
(* The collections.                                                        *)

Parked(c) == cars[c] \notin {Nil, Gone}

\* What a search found: Nil stands for ErrNotFound.
Found(set) == IF set = {} THEN {Nil} ELSE set

\* UserRepo.FindByContactKey.
KnownAs(p) == {u \in UserIds : users[u] # Nil /\ users[u].phone = p}

\* CarRepo.FindByPlateForOwner.
CarsOf(u, plate) == {c \in CarIds : Parked(c) /\ cars[c].owner = u /\ cars[c].plate = plate}

\* CarRepo.FindByPlate.  Of several it returns the one created last, by the clocks of
\* whoever created them: which one that is is left open.
CarsWith(plate) == {c \in CarIds : Parked(c) /\ cars[c].plate = plate}

\* The definitions named ...Fault are the mistakes the checks are tried
\* against: none of them is used by the specification.

\* No index on contact_key.
ContactFreeFault(p) == TRUE

\* The sparse unique indexes on contact_key and on login_key.
ContactFree(p) == p = Nil \/ \A u \in UserIds : users[u] # Nil => users[u].phone # p
LoginFree(e) == e = Nil \/ \A u \in UserIds : users[u] # Nil => users[u].email # e

\* The unique index one_plate_per_owner_per_tenant, as car c meets it.
PlateFree(c, u, plate) ==
  \A d \in CarIds \ {c} : Parked(d) => ~(cars[d].owner = u /\ cars[d].plate = plate)

------------------------------------------------------------------------------
(* Handlers.                                                               *)

Idle(r) == reqs[r] = Nil

At(r, command) == ~Idle(r) /\ reqs[r].at = command

\* A handler begins, goes on, or is over.
Begin(r, request) == Idle(r) /\ reqs' = [reqs EXCEPT ![r] = request]
GoOn(r, request) == reqs' = [reqs EXCEPT ![r] = request]
Done(r) == reqs' = [reqs EXCEPT ![r] = Nil]

\* BookAsGuest, up to the first search of findOrCreateGuest: whoever books with this
\* number is the customer, an account included.
BookAsGuest(r, p, plate) ==
  /\ \E u \in Found(KnownAs(p)) :
       Begin(r, [Blank EXCEPT !.kind = "guest", !.phone = p, !.plate = plate, !.customer = u,
                              !.at = IF u = Nil THEN "create user" ELSE "find car"])
  /\ UNCHANGED <<users, cars, jobs>>

\* Where a car found by its plate, whoever owns it, leads.
WithCar(req, c) ==
  [req EXCEPT !.car = c, !.customer = cars[c].owner,
              !.at = IF req.kind = "correct" THEN "update job" ELSE "create job"]

\* The first search of findOrCreateWalkInCar: the plate decides who the customer is.
SearchPlate(r, req) ==
  \/ CarsWith(req.plate) = {} /\ Begin(r, [req EXCEPT !.at = "create user"])
  \/ \E c \in CarsWith(req.plate) : Begin(r, WithCar(req, c))

RegisterWalkIn(r, plate) ==
  /\ SearchPlate(r, [Blank EXCEPT !.kind = "walk_in", !.plate = plate])
  /\ UNCHANGED <<users, cars, jobs>>

\* EditReservation with a plate.
EditReservation(r, j, plate) ==
  /\ jobs[j] # Nil
  /\ SearchPlate(r, [Blank EXCEPT !.kind = "correct", !.plate = plate,
                                  !.job = j, !.was = jobs[j].car])
  /\ UNCHANGED <<users, cars, jobs>>

\* Book for somebody signed in, who names a car by its id.
BookOwn(r, u, c) ==
  /\ users[u] # Nil /\ users[u].email # Nil
  /\ cars[c] # Nil
  /\ Begin(r, [Blank EXCEPT !.customer = u, !.car = c])
  /\ UNCHANGED <<users, cars, jobs>>

\* RegisterCustomer without a claim.  A number somebody books with is refused.
RegisterCustomer(r, p, e) ==
  /\ p # Nil => KnownAs(p) = {}
  /\ Begin(r, [Blank EXCEPT !.kind = "register", !.phone = p, !.email = e, !.at = "create user"])
  /\ UNCHANGED <<users, cars, jobs>>

\* RegisterCustomer with one: LookupByReference has paired the code of job j with the
\* number of the customer it is for.
ClaimGuest(r, j, p, e) ==
  /\ jobs[j] # Nil
  /\ jobs[j].customer \in KnownAs(p)
  /\ Begin(r, [Blank EXCEPT !.kind = "claim", !.email = e, !.customer = jobs[j].customer,
                            !.at = "upgrade"])
  /\ UNCHANGED <<users, cars, jobs>>

\* Where a customer just stored, or found by a second search, leads.
WithCustomer(req, u) ==
  [req EXCEPT !.customer = u, !.at = IF req.kind = "guest" THEN "find car" ELSE "create car"]

\* A guest booking whose customer somebody else has just stored looks for that row.
AfterDuplicate(req) == [req EXCEPT !.at = "find user"]

\* UserRepo.Create.  A registration ends here; a duplicate ends it too, and
\* not a guest booking.
CreateUser(r) ==
  /\ At(r, "create user")
  /\ LET req == reqs[r]
     IN  IF ContactFree(req.phone) /\ LoginFree(req.email)
           THEN \E u \in UserIds :
                  /\ users[u] = Nil
                  /\ users' = [users EXCEPT ![u] = [phone |-> req.phone, email |-> req.email]]
                  /\ IF req.kind = "register" THEN Done(r) ELSE GoOn(r, WithCustomer(req, u))
           ELSE /\ UNCHANGED users
                /\ IF req.kind = "guest" THEN GoOn(r, AfterDuplicate(req)) ELSE Done(r)
  /\ UNCHANGED <<cars, jobs>>

\* The second search by number.
FindUser(r) ==
  /\ At(r, "find user")
  /\ \E u \in KnownAs(reqs[r].phone) : GoOn(r, WithCustomer(reqs[r], u))
  /\ UNCHANGED <<users, cars, jobs>>

\* The first search of findOrCreateCar.
FindCar(r) ==
  /\ At(r, "find car")
  /\ \E c \in Found(CarsOf(reqs[r].customer, reqs[r].plate)) :
       GoOn(r, [reqs[r] EXCEPT !.car = c, !.at = IF c = Nil THEN "create car" ELSE "check car"])
  /\ UNCHANGED <<users, cars, jobs>>

\* Where a car just stored leads.
WithNewCar(req, c) ==
  [req EXCEPT !.car = c,
              !.at = CASE req.kind = "guest"   -> "check car"
                       [] req.kind = "correct" -> "update job"
                       [] OTHER                -> "create job"]

\* CarRepo.Create.  A car found or made by its plate alone needs no further check.
CreateCar(r) ==
  /\ At(r, "create car")
  /\ LET req == reqs[r]
     IN  \E c \in CarIds :
           /\ cars[c] = Nil
           /\ IF PlateFree(c, req.customer, req.plate)
                THEN /\ cars' = [cars EXCEPT ![c] = [owner |-> req.customer, plate |-> req.plate]]
                     /\ GoOn(r, WithNewCar(req, c))
                ELSE UNCHANGED cars /\ GoOn(r, [req EXCEPT !.at = "find car again"])
  /\ UNCHANGED <<users, jobs>>

\* The second search by plate: for a guest among the cars of the customer, otherwise
\* among all.
FindCarAgain(r) ==
  /\ At(r, "find car again")
  /\ LET req == reqs[r]
     IN  \E c \in IF req.kind = "guest" THEN CarsOf(req.customer, req.plate) ELSE CarsWith(req.plate) :
           GoOn(r, IF req.kind = "guest" THEN WithNewCar(req, c) ELSE WithCar(req, c))
  /\ UNCHANGED <<users, cars, jobs>>

\* Book, CarRepo.FindByIDForOwner: the car is the customer's own.
CheckCar(r) ==
  /\ At(r, "check car")
  /\ Parked(reqs[r].car)
  /\ cars[reqs[r].car].owner = reqs[r].customer
  /\ GoOn(r, [reqs[r] EXCEPT !.at = "create job"])
  /\ UNCHANGED <<users, cars, jobs>>

\* ReservationRepo.Create.
CreateJob(r) ==
  /\ At(r, "create job")
  /\ \E j \in JobIds :
       /\ jobs[j] = Nil
       /\ jobs' = [jobs EXCEPT ![j] =
            [customer |-> reqs[r].customer, car |-> reqs[r].car, gave |-> reqs[r].phone]]
  /\ Done(r)
  /\ UNCHANGED <<users, cars>>

\* The car of a job is corrected, and whose job it is left as it was.
CorrectedFault(req) == [jobs[req.job] EXCEPT !.car = req.car, !.gave = Nil]

\* "The customer moves with the car."
Corrected(req) == [customer |-> req.customer, car |-> req.car, gave |-> Nil]

\* UpdateFields, when the plate was found on another car than the job had when it was
\* read.
UpdateJob(r) ==
  /\ At(r, "update job")
  /\ LET req == reqs[r]
     IN  jobs' = IF req.car = req.was THEN jobs ELSE [jobs EXCEPT ![req.job] = Corrected(req)]
  /\ Done(r)
  /\ UNCHANGED <<users, cars>>

\* The handler looked before it wrote, and the filter does not look again.
StillGuestFault(u) == users[u] # Nil

\* The filter of UpgradeGuest: a customer without a password.
StillGuest(u) == users[u] # Nil /\ users[u].email = Nil

\* UserRepo.UpgradeGuest: the row becomes the account, in place.
Upgrade(r) ==
  /\ At(r, "upgrade")
  /\ users' = IF StillGuest(reqs[r].customer) /\ LoginFree(reqs[r].email)
                THEN [users EXCEPT ![reqs[r].customer].email = reqs[r].email]
                ELSE users
  /\ Done(r)
  /\ UNCHANGED <<cars, jobs>>

\* A handler that is refused, dies, or finds nothing where it searches again.
Abandon(r) ==
  /\ ~Idle(r)
  /\ Done(r)
  /\ UNCHANGED <<users, cars, jobs>>

------------------------------------------------------------------------------
(* CarService, one command each, for somebody signed in.                   *)

RegisterCar(u, c, plate) ==
  /\ users[u] # Nil /\ users[u].email # Nil
  /\ cars[c] = Nil
  /\ PlateFree(c, u, plate)
  /\ cars' = [cars EXCEPT ![c] = [owner |-> u, plate |-> plate]]
  /\ UNCHANGED <<users, jobs, reqs>>

\* The plate is the only field of an update that decides anything.
UpdateCar(c, plate) ==
  /\ Parked(c) /\ users[cars[c].owner].email # Nil
  /\ PlateFree(c, cars[c].owner, plate)
  /\ cars' = [cars EXCEPT ![c].plate = plate]
  /\ UNCHANGED <<users, jobs, reqs>>

\* A car goes, whatever was booked for it.
DeleteCar(c) ==
  /\ Parked(c) /\ users[cars[c].owner].email # Nil
  /\ cars' = [cars EXCEPT ![c] = Gone]
  /\ UNCHANGED <<users, jobs, reqs>>

Step(r) ==
  \/ CreateUser(r) \/ FindUser(r) \/ FindCar(r) \/ CreateCar(r) \/ FindCarAgain(r)
  \/ CheckCar(r) \/ CreateJob(r) \/ UpdateJob(r) \/ Upgrade(r) \/ Abandon(r)

Next ==
  \/ \E r \in Requests :
       \/ Step(r)
       \/ \E plate \in Plates :
            \/ RegisterWalkIn(r, plate)
            \/ \E j \in JobIds : EditReservation(r, j, plate)
            \/ \E p \in Phones : BookAsGuest(r, p, plate)
       \/ \E u \in UserIds, c \in CarIds : BookOwn(r, u, c)
       \/ \E e \in Emails :
            \/ \E p \in Phones \cup {Nil} : RegisterCustomer(r, p, e)
            \/ \E j \in JobIds, p \in Phones : ClaimGuest(r, j, p, e)
  \/ \E c \in CarIds :
       \/ DeleteCar(c)
       \/ \E plate \in Plates : UpdateCar(c, plate) \/ \E u \in UserIds : RegisterCar(u, c, plate)

Spec == Init /\ [][Next]_vars

------------------------------------------------------------------------------
(* What the records promise.                                               *)

\* However first bookings, walk-ins and registrations race, all bookings made with one
\* number are in one history, but for those the desk has corrected (findOrCreateGuest:
\* "the booking belongs in their history, not in a duplicate record that splits it").
OneHistoryPerPhone ==
  \A i, j \in JobIds :
    jobs[i] # Nil /\ jobs[j] # Nil /\ jobs[i].gave # Nil /\ jobs[i].gave = jobs[j].gave
      => jobs[i].customer = jobs[j].customer

\* The car of a job belongs to the customer of the job, however it came to be found,
\* made or renamed while the job was booked.
CarGoesWithCustomer ==
  \A j \in JobIds :
    jobs[j] # Nil /\ Parked(jobs[j].car) => cars[jobs[j].car].owner = jobs[j].customer

\* What findOrCreateWalkInCar says of two registrations of one new plate at once:
\* "The second caller wants the row the first just made."  A walk-in's owner is a
\* customer with neither a number nor an account.
WalkInsShareACar ==
  \A c, d \in CarIds :
    /\ Parked(c) /\ users[cars[c].owner] = [phone |-> Nil, email |-> Nil]
    /\ Parked(d) /\ users[cars[d].owner] = [phone |-> Nil, email |-> Nil]
    /\ cars[c].plate = cars[d].plate
    => c = d

------------------------------------------------------------------------------
(* The atomic promise: see Clientele.                                      *)

Person(p) == IF KnownAs(p) = {} THEN Nil ELSE CHOOSE u \in UserIds : u \in KnownAs(p)

Account(u) == IF users[u] = Nil THEN Nil ELSE users[u].email

History(j) ==
  IF jobs[j] = Nil THEN Nil ELSE [customer |-> jobs[j].customer, number |-> jobs[j].gave]

Promise == INSTANCE Clientele WITH
  Customers <- UserIds,
  Jobs      <- JobIds,
  person    <- [p \in Phones |-> Person(p)],
  account   <- [u \in UserIds |-> Account(u)],
  history   <- [j \in JobIds |-> History(j)]

\* Every write of a handler is one step of the promise or changes nothing it speaks
\* of: a number never changes hands, an account is never taken over (UpgradeGuest:
\* "taking it over is exactly the thing that must not happen"), a job made with a number
\* goes to whom the number means, and stays there but for a correction.
KeepsThePromise == Promise!Spec
==============================================================================
