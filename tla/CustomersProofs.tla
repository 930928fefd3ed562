--------------------------- MODULE CustomersProofs ---------------------------
(***************************************************************************)
(* Theorems about Customers, for any number of rows and handlers.          *)
(***************************************************************************)
EXTENDS Customers, TLAPS

Known(u) == u \in UserIds /\ users[u] # Nil

\* The two indexes on the customers.
KeysUnique ==
  \A u, v \in UserIds :
    users[u] # Nil /\ users[v] # Nil /\ u # v =>
      /\ users[u].phone # Nil => users[u].phone # users[v].phone
      /\ users[u].email # Nil => users[u].email # users[v].email

CarsOwned == \A c \in CarIds : Parked(c) => Known(cars[c].owner)

\* The number a guest gave is the customer's own.
Answers(p, u) == Known(u) /\ (p # Nil => users[u].phone = p)

\* The car, while it is there, is the customer's own.
GoesWith(c, u) == c \in CarIds /\ cars[c] # Nil /\ (Parked(c) => cars[c].owner = u)

JobSound(job) == Answers(job.gave, job.customer) /\ GoesWith(job.car, job.customer)

JobsSound == \A j \in JobIds : jobs[j] # Nil => JobSound(jobs[j])

Searching == {"guest", "walk_in", "correct"}

\* What a handler carries is as its next command needs it.
Sound(req) ==
  /\ req.at \in {"find car", "create car", "find car again", "check car", "create job", "update job"}
       => Answers(req.phone, req.customer)
  /\ req.at \in {"create job", "update job"} => GoesWith(req.car, req.customer)
  /\ req.at = "create user" => req.kind \in Searching \cup {"register"}
  /\ req.at \in {"find user", "find car", "create car", "find car again"} => req.kind \in Searching
  /\ req.kind \in Searching => req.plate \in Plates
  /\ req.kind \in {"walk_in", "correct"} => req.phone = Nil
  /\ req.at = "check car" => req.car \in CarIds
  /\ req.at = "update job" => req.kind = "correct"
  /\ req.kind = "correct" => req.job \in JobIds /\ jobs[req.job] # Nil
  /\ req.at = "upgrade" => Known(req.customer)

RequestsSound == \A r \in Requests : reqs[r] # Nil => Sound(reqs[r])

Inv == TypeOK /\ KeysUnique /\ CarsOwned /\ JobsSound /\ RequestsSound

------------------------------------------------------------------------------
(* What no step takes back.                                                *)

UsersStay ==
  \A u \in UserIds : users[u] # Nil => users'[u] # Nil /\ users'[u].phone = users[u].phone

CarsStay ==
  \A c \in CarIds :
    cars[c] # Nil =>
      cars'[c] # Nil /\ (Parked(c)' => Parked(c) /\ cars'[c].owner = cars[c].owner)

JobsStay == \A j \in JobIds : jobs[j] # Nil => jobs'[j] # Nil

Stay == UsersStay /\ CarsStay /\ JobsStay

LEMMA UnchangedStays ==
  /\ UNCHANGED users => UsersStay
  /\ UNCHANGED cars => CarsStay
  /\ UNCHANGED jobs => JobsStay
BY DEF UsersStay, CarsStay, JobsStay, Parked

LEMMA AnswersStays ==
  ASSUME UsersStay, NEW p, NEW u, Answers(p, u)
  PROVE  Answers(p, u)'
BY DEF UsersStay, Answers, Known

LEMMA GoesWithStays ==
  ASSUME CarsStay, NEW c, NEW u, GoesWith(c, u)
  PROVE  GoesWith(c, u)'
BY DEF CarsStay, GoesWith

LEMMA SoundStays ==
  ASSUME Stay, NEW req, Sound(req)
  PROVE  Sound(req)'
<1>1. /\ Answers(req.phone, req.customer) => Answers(req.phone, req.customer)'
      /\ GoesWith(req.car, req.customer) => GoesWith(req.car, req.customer)'
  BY AnswersStays, GoesWithStays DEF Stay
<1>2. Known(req.customer) => Known(req.customer)'
  BY DEF Stay, UsersStay, Known
<1>3. req.job \in JobIds /\ jobs[req.job] # Nil => jobs'[req.job] # Nil
  BY DEF Stay, JobsStay
<1>4. QED
  BY <1>1, <1>2, <1>3 DEF Sound

\* A handler moves on, or is over.
LEMMA RequestsStay ==
  ASSUME Inv, Stay, NEW r \in Requests, NEW req \in Request \cup {Nil},
         reqs' = [reqs EXCEPT ![r] = req], req # Nil => Sound(req)'
  PROVE  RequestsSound' /\ reqs' \in [Requests -> Request \cup {Nil}]
<1>1. ASSUME NEW s \in Requests, (reqs[s] # Nil)'
      PROVE  Sound(reqs[s])'
  <2>1. PICK x : x = reqs'[s]
    OBVIOUS
  <2>2. CASE s = r
    <3>1. x = req /\ Sound(x)'
      BY <1>1, <2>1, <2>2 DEF Inv, TypeOK
    <3>2. QED
      BY <2>1, <3>1 DEF Sound, Answers, GoesWith, Known, Parked
  <2>3. CASE s # r
    <3>1. x = reqs[s] /\ x # Nil
      BY <1>1, <2>1, <2>3 DEF Inv, TypeOK
    <3>2. Sound(x)
      BY <3>1 DEF Inv, RequestsSound
    <3>3. Sound(x)'
      BY <3>2, SoundStays
    <3>4. QED
      BY <2>1, <3>3 DEF Sound, Answers, GoesWith, Known, Parked
  <2>4. QED
    BY <2>2, <2>3
<1>2. QED
  BY <1>1 DEF Inv, TypeOK, RequestsSound

\* A job that is not written stays as it should be.
LEMMA JobStays ==
  ASSUME Inv, Stay, NEW j \in JobIds, jobs[j] # Nil, jobs'[j] = jobs[j]
  PROVE  JobSound(jobs[j])'
<1>1. PICK x : x = jobs[j]
  OBVIOUS
<1>2. JobSound(x)
  BY <1>1 DEF Inv, JobsSound
<1>3. JobSound(x)'
  BY <1>2, AnswersStays, GoesWithStays DEF Stay, JobSound
<1>4. QED
  BY <1>1, <1>3 DEF JobSound, Answers, GoesWith, Known, Parked

\* A step that only moves a handler on.
LEMMA HandlerMoves ==
  ASSUME Inv, UNCHANGED <<users, cars, jobs>>, NEW r \in Requests, NEW req \in Request \cup {Nil},
         reqs' = [reqs EXCEPT ![r] = req], req # Nil => Sound(req)
  PROVE  Inv'
<1>1. Stay
  BY UnchangedStays DEF Stay
<1>2. RequestsSound' /\ reqs' \in [Requests -> Request \cup {Nil}]
  BY <1>1, SoundStays, RequestsStay
<1>3. QED
  BY <1>2 DEF Inv, TypeOK, KeysUnique, CarsOwned, Parked, Known, JobsSound, JobSound, Answers, GoesWith

------------------------------------------------------------------------------
(* Steps that only search.                                                 *)

LEMMA AbandonSteps ==
  ASSUME Inv, NEW r \in Requests, Done(r), UNCHANGED <<users, cars, jobs>>
  PROVE  Inv'
BY HandlerMoves DEF Done

LEMMA BookAsGuestSteps ==
  ASSUME Inv, NEW r \in Requests, NEW p \in Phones, NEW plate \in Plates, BookAsGuest(r, p, plate)
  PROVE  Inv'
<1>1. PICK u \in Found(KnownAs(p)) :
        Begin(r, [Blank EXCEPT !.kind = "guest", !.phone = p, !.plate = plate, !.customer = u,
                               !.at = IF u = Nil THEN "create user" ELSE "find car"])
  BY DEF BookAsGuest
<1>2. PICK x : x = [Blank EXCEPT !.kind = "guest", !.phone = p, !.plate = plate, !.customer = u,
                                 !.at = IF u = Nil THEN "create user" ELSE "find car"]
  OBVIOUS
<1>3. u = Nil \/ Answers(p, u)
  BY DEF Found, KnownAs, Answers, Known
<1>4. u \in UserIds \cup {Nil} /\ (u # Nil => Answers(p, u))
  BY <1>3 DEF Answers, Known
<1>5. x \in Request
  BY <1>2, <1>4 DEF Blank, Request, Kinds, Commands
<1>6. Sound(x)
  BY <1>2, <1>4 DEF Blank, Sound, Searching
<1>7. QED
  BY <1>1, <1>2, <1>5, <1>6, HandlerMoves DEF Begin, BookAsGuest

\* A handler that has found or made a customer, a car, or both.
LEMMA FoundTyped ==
  ASSUME NEW req \in Request, NEW c \in CarIds \cup {Nil}, NEW u \in UserIds \cup {Nil},
         NEW a \in Commands
  PROVE  /\ [req EXCEPT !.car = c, !.at = a] \in Request
         /\ [req EXCEPT !.customer = u, !.at = a] \in Request
         /\ [req EXCEPT !.car = c, !.customer = u, !.at = a] \in Request
BY DEF Request

\* A search by plate, for a request that names none but the plate, and a job when it is
\* a correction.
LEMMA WithCarSound ==
  ASSUME Inv, NEW req \in Request, NEW c \in CarIds, Parked(c),
         req.kind \in {"walk_in", "correct"}, req.phone = Nil, req.plate \in Plates,
         req.kind = "correct" => req.job \in JobIds /\ jobs[req.job] # Nil
  PROVE  WithCar(req, c) \in Request /\ Sound(WithCar(req, c))
<1>1. cars[c] \in Car /\ Known(cars[c].owner)
  BY DEF Inv, TypeOK, CarsOwned, Parked
<1>2. WithCar(req, c) \in Request
  <2>1. cars[c].owner \in UserIds
    BY <1>1 DEF Known
  <2>2. (IF req.kind = "correct" THEN "update job" ELSE "create job") \in Commands
    BY DEF Commands
  <2>3. QED
    BY <2>1, <2>2, FoundTyped DEF WithCar
<1>3. /\ WithCar(req, c).kind = req.kind /\ WithCar(req, c).phone = req.phone
      /\ WithCar(req, c).plate = req.plate /\ WithCar(req, c).job = req.job
      /\ WithCar(req, c).car = c /\ WithCar(req, c).customer = cars[c].owner
      /\ WithCar(req, c).at = IF req.kind = "correct" THEN "update job" ELSE "create job"
  BY DEF WithCar, Request
<1>4. Answers(Nil, cars[c].owner) /\ GoesWith(c, cars[c].owner)
  BY <1>1 DEF Answers, GoesWith, Parked
<1>5. Sound(WithCar(req, c))
  BY <1>3, <1>4 DEF Sound, Searching
<1>6. QED
  BY <1>2, <1>5

LEMMA SearchPlateSteps ==
  ASSUME Inv, NEW r \in Requests, NEW req \in Request, SearchPlate(r, req),
         UNCHANGED <<users, cars, jobs>>,
         req.kind \in {"walk_in", "correct"}, req.phone = Nil, req.plate \in Plates,
         req.kind = "correct" => req.job \in JobIds /\ jobs[req.job] # Nil
  PROVE  Inv'
<1>1. CASE Begin(r, [req EXCEPT !.at = "create user"])
  <2>1. PICK x : x = [req EXCEPT !.at = "create user"]
    OBVIOUS
  <2>2. x \in Request /\ Sound(x)
    BY <2>1 DEF Request, Commands, Sound, Searching
  <2>3. QED
    BY <1>1, <2>1, <2>2, HandlerMoves DEF Begin
<1>2. ASSUME NEW c \in CarsWith(req.plate), Begin(r, WithCar(req, c))
      PROVE  Inv'
  <2>1. PICK x : x = WithCar(req, c)
    OBVIOUS
  <2>2. x \in Request /\ Sound(x)
    BY <2>1, WithCarSound DEF CarsWith
  <2>3. QED
    BY <1>2, <2>1, <2>2, HandlerMoves DEF Begin
<1>3. QED
  BY <1>1, <1>2 DEF SearchPlate

LEMMA RegisterWalkInSteps ==
  ASSUME Inv, NEW r \in Requests, NEW plate \in Plates, RegisterWalkIn(r, plate)
  PROVE  Inv'
<1>1. PICK x : x = [Blank EXCEPT !.kind = "walk_in", !.plate = plate]
  OBVIOUS
<1>2. x \in Request /\ x.kind = "walk_in" /\ x.phone = Nil /\ x.plate = plate
  BY <1>1 DEF Blank, Request, Kinds, Commands
<1>3. QED
  BY <1>1, <1>2, SearchPlateSteps DEF RegisterWalkIn

LEMMA EditReservationSteps ==
  ASSUME Inv, NEW r \in Requests, NEW j \in JobIds, NEW plate \in Plates,
         EditReservation(r, j, plate)
  PROVE  Inv'
<1>1. PICK x : x = [Blank EXCEPT !.kind = "correct", !.plate = plate,
                                 !.job = j, !.was = jobs[j].car]
  OBVIOUS
<1>2. jobs[j] # Nil /\ jobs[j].car \in CarIds
  BY DEF EditReservation, Inv, JobsSound, JobSound, GoesWith
<1>3. x \in Request
  BY <1>1, <1>2 DEF Blank, Request, Kinds, Commands
<1>4. x.kind = "correct" /\ x.phone = Nil /\ x.plate = plate /\ x.job = j
  BY <1>1 DEF Blank
<1>5. QED
  BY <1>1, <1>2, <1>3, <1>4, SearchPlateSteps DEF EditReservation

LEMMA BookOwnSteps ==
  ASSUME Inv, NEW r \in Requests, NEW u \in UserIds, NEW c \in CarIds, BookOwn(r, u, c)
  PROVE  Inv'
<1>1. PICK x : x = [Blank EXCEPT !.customer = u, !.car = c]
  OBVIOUS
<1>2. x \in Request
  BY <1>1 DEF Blank, Request, Kinds, Commands
<1>3. Answers(Nil, u)
  BY DEF BookOwn, Answers, Known
<1>4. Sound(x)
  BY <1>1, <1>3 DEF Blank, Sound, Searching
<1>5. QED
  BY <1>1, <1>2, <1>4, HandlerMoves DEF BookOwn, Begin

LEMMA RegisterCustomerSteps ==
  ASSUME Inv, NEW r \in Requests, NEW p \in Phones \cup {Nil}, NEW e \in Emails,
         RegisterCustomer(r, p, e)
  PROVE  Inv'
<1>1. PICK x : x = [Blank EXCEPT !.kind = "register", !.phone = p, !.email = e,
                                 !.at = "create user"]
  OBVIOUS
<1>2. x \in Request /\ Sound(x)
  BY <1>1 DEF Blank, Request, Kinds, Commands, Sound, Searching
<1>3. QED
  BY <1>1, <1>2, HandlerMoves DEF RegisterCustomer, Begin

LEMMA ClaimGuestSteps ==
  ASSUME Inv, NEW r \in Requests, NEW j \in JobIds, NEW p \in Phones, NEW e \in Emails,
         ClaimGuest(r, j, p, e)
  PROVE  Inv'
<1>1. PICK x : x = [Blank EXCEPT !.kind = "claim", !.email = e, !.customer = jobs[j].customer,
                                 !.at = "upgrade"]
  OBVIOUS
<1>2. Known(jobs[j].customer)
  BY DEF ClaimGuest, KnownAs, Known
<1>3. x \in Request
  BY <1>1, <1>2 DEF Blank, Request, Kinds, Commands, Known
<1>4. Sound(x)
  BY <1>1, <1>2 DEF Blank, Sound, Searching
<1>5. QED
  BY <1>1, <1>3, <1>4, HandlerMoves DEF ClaimGuest, Begin

\* The request of a handler that is at a command.
LEMMA AtSound ==
  ASSUME Inv, NEW r \in Requests, NEW command, At(r, command)
  PROVE  reqs[r] \in Request /\ reqs[r] # Nil /\ reqs[r].at = command /\ Sound(reqs[r])
BY DEF Inv, TypeOK, At, Idle, RequestsSound

\* A handler that has a customer goes on to the car.
LEMMA WithCustomerTyped ==
  ASSUME NEW req \in Request, NEW u \in UserIds
  PROVE  /\ WithCustomer(req, u) \in Request
         /\ WithCustomer(req, u).at = IF req.kind = "guest" THEN "find car" ELSE "create car"
         /\ WithCustomer(req, u).customer = u
         /\ WithCustomer(req, u).kind = req.kind /\ WithCustomer(req, u).job = req.job
         /\ WithCustomer(req, u).phone = req.phone /\ WithCustomer(req, u).plate = req.plate
<1>1. (IF req.kind = "guest" THEN "find car" ELSE "create car") \in Commands
  BY DEF Commands
<1>2. WithCustomer(req, u) \in Request
  BY <1>1, FoundTyped DEF WithCustomer
<1>3. QED
  BY <1>2 DEF WithCustomer, Request

LEMMA FindUserSteps ==
  ASSUME Inv, NEW r \in Requests, FindUser(r)
  PROVE  Inv'
<1>1. PICK req : req = reqs[r]
  OBVIOUS
<1>2. req \in Request /\ req.at = "find user" /\ Sound(req)
  BY <1>1, AtSound DEF FindUser
<1>3. PICK u \in KnownAs(req.phone) : GoOn(r, WithCustomer(req, u))
  BY <1>1 DEF FindUser
<1>4. u \in UserIds /\ Answers(req.phone, u)
  BY <1>3 DEF KnownAs, Answers, Known
<1>5. PICK x : x = WithCustomer(req, u)
  OBVIOUS
<1>6. x \in Request
  BY <1>2, <1>4, <1>5, WithCustomerTyped
<1>7. Sound(x)
  BY <1>2, <1>4, <1>5, WithCustomerTyped DEF Sound, Searching
<1>8. QED
  BY <1>3, <1>5, <1>6, <1>7, HandlerMoves DEF FindUser, GoOn

LEMMA FindCarSteps ==
  ASSUME Inv, NEW r \in Requests, FindCar(r)
  PROVE  Inv'
<1>1. PICK req : req = reqs[r]
  OBVIOUS
<1>2. req \in Request /\ req.at = "find car" /\ Sound(req)
  BY <1>1, AtSound DEF FindCar
<1>3. PICK c \in Found(CarsOf(req.customer, req.plate)) :
        GoOn(r, [req EXCEPT !.car = c, !.at = IF c = Nil THEN "create car" ELSE "check car"])
  BY <1>1 DEF FindCar
<1>4. c \in CarIds \cup {Nil}
  BY <1>3 DEF Found, CarsOf
<1>5. PICK x : x = [req EXCEPT !.car = c, !.at = IF c = Nil THEN "create car" ELSE "check car"]
  OBVIOUS
<1>6. x \in Request
  <2>1. (IF c = Nil THEN "create car" ELSE "check car") \in Commands
    BY DEF Commands
  <2>2. QED
    BY <1>2, <1>4, <1>5, <2>1, FoundTyped
<1>7. Sound(x)
  BY <1>2, <1>4, <1>5 DEF Request, Sound, Searching
<1>8. QED
  BY <1>3, <1>5, <1>6, <1>7, HandlerMoves DEF FindCar, GoOn

\* A guest's handler goes on to check the car it has, old or new.
LEMMA WithNewCarTyped ==
  ASSUME NEW req \in Request, NEW c \in CarIds
  PROVE  /\ WithNewCar(req, c) \in Request
         /\ WithNewCar(req, c).at = CASE req.kind = "guest"   -> "check car"
                                      [] req.kind = "correct" -> "update job"
                                      [] OTHER                -> "create job"
         /\ WithNewCar(req, c).car = c
         /\ WithNewCar(req, c).customer = req.customer /\ WithNewCar(req, c).kind = req.kind
         /\ WithNewCar(req, c).phone = req.phone /\ WithNewCar(req, c).plate = req.plate
         /\ WithNewCar(req, c).job = req.job
<1>1. (CASE req.kind = "guest"   -> "check car"
         [] req.kind = "correct" -> "update job"
         [] OTHER                -> "create job") \in Commands
  BY DEF Commands
<1>2. WithNewCar(req, c) \in Request
  BY <1>1, FoundTyped DEF WithNewCar
<1>3. QED
  BY <1>2 DEF WithNewCar, Request

LEMMA FindCarAgainSteps ==
  ASSUME Inv, NEW r \in Requests, FindCarAgain(r)
  PROVE  Inv'
<1>1. PICK req : req = reqs[r]
  OBVIOUS
<1>2. req \in Request /\ req.at = "find car again" /\ Sound(req)
  BY <1>1, AtSound DEF FindCarAgain
<1>3. CASE req.kind = "guest"
  <2>1. PICK c \in CarsOf(req.customer, req.plate) : GoOn(r, WithNewCar(req, c))
    BY <1>1, <1>3 DEF FindCarAgain
  <2>2. PICK x : x = WithNewCar(req, c)
    OBVIOUS
  <2>3. c \in CarIds
    BY <2>1 DEF CarsOf
  <2>4. x \in Request
    BY <1>2, <2>2, <2>3, WithNewCarTyped
  <2>5. Sound(x)
    BY <1>2, <1>3, <2>2, <2>3, WithNewCarTyped DEF Sound, Searching
  <2>6. QED
    BY <2>1, <2>2, <2>4, <2>5, HandlerMoves DEF FindCarAgain, GoOn
<1>4. CASE req.kind # "guest"
  <2>1. PICK c \in CarsWith(req.plate) : GoOn(r, WithCar(req, c))
    BY <1>1, <1>4 DEF FindCarAgain
  <2>2. PICK x : x = WithCar(req, c)
    OBVIOUS
  <2>3. c \in CarIds /\ Parked(c)
    BY <2>1 DEF CarsWith
  <2>4. /\ req.kind \in {"walk_in", "correct"} /\ req.phone = Nil /\ req.plate \in Plates
        /\ req.kind = "correct" => req.job \in JobIds /\ jobs[req.job] # Nil
    BY <1>2, <1>4 DEF Sound, Searching
  <2>5. x \in Request /\ Sound(x)
    BY <1>2, <2>2, <2>3, <2>4, WithCarSound
  <2>6. QED
    BY <2>1, <2>2, <2>5, HandlerMoves DEF FindCarAgain, GoOn
<1>5. QED
  BY <1>3, <1>4

LEMMA CheckCarSteps ==
  ASSUME Inv, NEW r \in Requests, CheckCar(r)
  PROVE  Inv'
<1>1. PICK req : req = reqs[r]
  OBVIOUS
<1>2. req \in Request /\ req.at = "check car" /\ Sound(req)
  BY <1>1, AtSound DEF CheckCar
<1>3. PICK x : x = [req EXCEPT !.at = "create job"]
  OBVIOUS
<1>4. x \in Request
  BY <1>2, <1>3 DEF Request, Commands
<1>5. GoesWith(req.car, req.customer)
  BY <1>1, <1>2 DEF CheckCar, GoesWith, Sound, Parked
<1>6. Sound(x)
  BY <1>2, <1>3, <1>5 DEF Request, Sound, Searching
<1>7. QED
  BY <1>1, <1>3, <1>4, <1>6, HandlerMoves DEF CheckCar, GoOn

------------------------------------------------------------------------------
(* Steps that write.                                                       *)

\* What a write leaves alone stays as it should be.
LEMMA OthersStay ==
  ASSUME Inv, Stay
  PROVE  /\ UNCHANGED users => KeysUnique'
         /\ UNCHANGED cars => CarsOwned'
         /\ UNCHANGED jobs => JobsSound'
<1>1. UNCHANGED users => KeysUnique'
  BY DEF Inv, KeysUnique
<1>2. UNCHANGED cars => CarsOwned'
  BY DEF Inv, CarsOwned, Stay, UsersStay, Known, Parked
<1>3. UNCHANGED jobs => JobsSound'
  BY JobStays DEF JobsSound
<1>4. QED
  BY <1>1, <1>2, <1>3

\* A new customer under free keys.
LEMMA NewUser ==
  ASSUME Inv, NEW u \in UserIds, users[u] = Nil,
         NEW p \in Phones \cup {Nil}, NEW e \in Emails \cup {Nil}, ContactFree(p), LoginFree(e),
         users' = [users EXCEPT ![u] = [phone |-> p, email |-> e]]
  PROVE  /\ users' \in [UserIds -> User \cup {Nil}]
         /\ KeysUnique' /\ UsersStay
         /\ Answers(p, u)'
<1>1. [phone |-> p, email |-> e] \in User
  BY DEF User
<1>2. [phone |-> p, email |-> e] # Nil
  BY <1>1, NilAssumption
<1>3. \A v \in UserIds : users'[v] = IF v = u THEN [phone |-> p, email |-> e] ELSE users[v]
  BY DEF Inv, TypeOK
<1>4. KeysUnique'
  BY <1>3 DEF Inv, KeysUnique, ContactFree, LoginFree
<1>5. UsersStay
  BY <1>3 DEF UsersStay
<1>6. Answers(p, u)'
  BY <1>2, <1>3 DEF Answers, Known
<1>7. QED
  BY <1>1, <1>4, <1>5, <1>6 DEF Inv, TypeOK

LEMMA CreateUserSteps ==
  ASSUME Inv, NEW r \in Requests, CreateUser(r)
  PROVE  Inv'
<1>1. PICK req : req = reqs[r]
  OBVIOUS
<1>2. req \in Request /\ req.at = "create user" /\ Sound(req)
  BY <1>1, AtSound DEF CreateUser
<1>3. req.phone \in Phones \cup {Nil} /\ req.email \in Emails \cup {Nil}
  BY <1>2 DEF Request
<1>4. UNCHANGED <<cars, jobs>>
  BY DEF CreateUser
<1>5. CASE ContactFree(req.phone) /\ LoginFree(req.email)
  <2>1. PICK u \in UserIds :
          /\ users[u] = Nil
          /\ users' = [users EXCEPT ![u] = [phone |-> req.phone, email |-> req.email]]
          /\ IF req.kind = "register" THEN Done(r) ELSE GoOn(r, WithCustomer(req, u))
    BY <1>1, <1>5 DEF CreateUser
  <2>2. /\ users' \in [UserIds -> User \cup {Nil}]
        /\ KeysUnique' /\ UsersStay
        /\ Answers(req.phone, u)'
    BY <1>3, <1>5, <2>1, NewUser
  <2>3. Stay
    BY <1>4, <2>2, UnchangedStays DEF Stay
  <2>4. PICK x : x = IF req.kind = "register" THEN Nil ELSE WithCustomer(req, u)
    OBVIOUS
  <2>5. x \in Request \cup {Nil}
    BY <1>2, <2>4, WithCustomerTyped
  <2>6. ASSUME x # Nil
        PROVE  Sound(x)'
    <3>1. /\ x.at \in {"find car", "create car"} /\ x.customer = u
          /\ x.kind = req.kind /\ x.job = req.job /\ x.phone = req.phone /\ x.plate = req.plate
      BY <1>2, <2>4, <2>6, WithCustomerTyped
    <3>2. x.kind \in Searching /\ x.plate \in Plates
      BY <1>2, <2>4, <2>6, <3>1 DEF Sound, Searching
    <3>3. x.kind = "correct" => x.job \in JobIds /\ jobs'[x.job] # Nil
      BY <1>2, <1>4, <3>1 DEF Sound
    <3>4. x.kind \in {"walk_in", "correct"} => x.phone = Nil
      BY <1>2, <3>1 DEF Sound
    <3>5. Answers(x.phone, x.customer)'
      BY <2>2, <3>1 DEF Answers, Known
    <3>6. QED
      BY <3>1, <3>2, <3>3, <3>4, <3>5 DEF Sound
  <2>7. RequestsSound' /\ reqs' \in [Requests -> Request \cup {Nil}]
    BY <2>1, <2>3, <2>4, <2>5, <2>6, RequestsStay DEF Done, GoOn
  <2>8. QED
    BY <1>4, <2>2, <2>3, <2>7, OthersStay DEF Inv, TypeOK
<1>6. CASE ~(ContactFree(req.phone) /\ LoginFree(req.email))
  <2>1. PICK x : x = IF req.kind = "guest" THEN AfterDuplicate(req) ELSE Nil
    OBVIOUS
  <2>2. x \in Request \cup {Nil}
    BY <1>2, <2>1 DEF AfterDuplicate, Request, Commands
  <2>3. x # Nil => Sound(x)
    BY <1>2, <2>1 DEF AfterDuplicate, Request, Sound, Searching
  <2>4. UNCHANGED users /\ reqs' = [reqs EXCEPT ![r] = x]
    BY <1>1, <1>6, <2>1 DEF CreateUser, GoOn, Done
  <2>5. QED
    BY <1>4, <2>2, <2>3, <2>4, HandlerMoves
<1>7. QED
  BY <1>5, <1>6

\* A new car for a customer there is.
LEMMA NewCar ==
  ASSUME Inv, NEW c \in CarIds, cars[c] = Nil, NEW u, Known(u), NEW plate \in Plates,
         cars' = [cars EXCEPT ![c] = [owner |-> u, plate |-> plate]], UNCHANGED <<users, jobs>>
  PROVE  /\ cars' \in [CarIds -> Car \cup {Nil, Gone}]
         /\ CarsOwned' /\ Stay
         /\ GoesWith(c, u)'
<1>1. [owner |-> u, plate |-> plate] \in Car
  BY DEF Car, Known
<1>2. [owner |-> u, plate |-> plate] \notin {Nil, Gone}
  BY <1>1, NilAssumption
<1>3. \A d \in CarIds : cars'[d] = IF d = c THEN [owner |-> u, plate |-> plate] ELSE cars[d]
  BY DEF Inv, TypeOK
<1>4. CarsOwned'
  BY <1>3 DEF Inv, CarsOwned, Parked, Known
<1>5. CarsStay
  BY <1>3 DEF CarsStay, Parked
<1>6. GoesWith(c, u)'
  BY <1>2, <1>3 DEF GoesWith, Parked
<1>7. cars' \in [CarIds -> Car \cup {Nil, Gone}]
  BY <1>1 DEF Inv, TypeOK
<1>8. QED
  BY <1>4, <1>5, <1>6, <1>7, UnchangedStays DEF Stay

LEMMA CreateCarSteps ==
  ASSUME Inv, NEW r \in Requests, CreateCar(r)
  PROVE  Inv'
<1>1. PICK req : req = reqs[r]
  OBVIOUS
<1>2. req \in Request /\ req.at = "create car" /\ Sound(req)
  BY <1>1, AtSound DEF CreateCar
<1>3. /\ Answers(req.phone, req.customer) /\ req.kind \in Searching /\ req.plate \in Plates
      /\ req.kind \in {"walk_in", "correct"} => req.phone = Nil
      /\ req.kind = "correct" => req.job \in JobIds /\ jobs[req.job] # Nil
  BY <1>2 DEF Sound
<1>4. UNCHANGED <<users, jobs>>
  BY DEF CreateCar
<1>5. PICK c \in CarIds :
        /\ cars[c] = Nil
        /\ IF PlateFree(c, req.customer, req.plate)
             THEN /\ cars' = [cars EXCEPT ![c] = [owner |-> req.customer, plate |-> req.plate]]
                  /\ GoOn(r, WithNewCar(req, c))
             ELSE UNCHANGED cars /\ GoOn(r, [req EXCEPT !.at = "find car again"])
  BY <1>1 DEF CreateCar
<1>6. CASE PlateFree(c, req.customer, req.plate)
  <2>1. /\ cars' \in [CarIds -> Car \cup {Nil, Gone}]
        /\ CarsOwned' /\ Stay
        /\ GoesWith(c, req.customer)'
    BY <1>3, <1>4, <1>5, <1>6, NewCar DEF Answers
  <2>2. PICK x : x = WithNewCar(req, c)
    OBVIOUS
  <2>3. /\ x \in Request
        /\ x.at \in {"check car", "update job", "create job"}
        /\ x.at = "update job" => x.kind = "correct"
        /\ x.customer = req.customer /\ x.car = c
        /\ x.kind = req.kind /\ x.job = req.job /\ x.phone = req.phone /\ x.plate = req.plate
    <3>1. /\ x \in Request /\ x.kind = req.kind
          /\ x.at = CASE req.kind = "guest"   -> "check car"
                      [] req.kind = "correct" -> "update job"
                      [] OTHER                -> "create job"
      BY <1>2, <2>2, WithNewCarTyped
    <3>2. /\ x.customer = req.customer /\ x.car = c
          /\ x.job = req.job /\ x.phone = req.phone /\ x.plate = req.plate
      BY <1>2, <2>2, WithNewCarTyped
    <3>3. QED
      BY <3>1, <3>2
  <2>4. Answers(x.phone, x.customer)' /\ GoesWith(x.car, x.customer)'
    BY <1>3, <1>4, <2>1, <2>3 DEF Answers, Known, GoesWith, Parked
  <2>5. Sound(x)'
    BY <1>3, <1>4, <2>3, <2>4 DEF Sound
  <2>6. RequestsSound' /\ reqs' \in [Requests -> Request \cup {Nil}]
    BY <1>5, <1>6, <2>1, <2>2, <2>3, <2>5, RequestsStay DEF GoOn
  <2>7. QED
    BY <1>4, <2>1, <2>6, OthersStay DEF Inv, TypeOK
<1>7. CASE ~PlateFree(c, req.customer, req.plate)
  <2>1. PICK x : x = [req EXCEPT !.at = "find car again"]
    OBVIOUS
  <2>2. x \in Request
    BY <1>2, <2>1 DEF Request, Commands
  <2>3. Sound(x)
    BY <1>2, <2>1 DEF Request, Sound
  <2>4. QED
    BY <1>4, <1>5, <1>7, <2>1, <2>2, <2>3, HandlerMoves DEF GoOn
<1>8. QED
  BY <1>6, <1>7

LEMMA CreateJobSteps ==
  ASSUME Inv, NEW r \in Requests, CreateJob(r)
  PROVE  Inv'
<1>1. PICK req : req = reqs[r]
  OBVIOUS
<1>2. req \in Request /\ req.at = "create job" /\ Sound(req)
  BY <1>1, AtSound DEF CreateJob
<1>3. PICK j \in JobIds :
        /\ jobs[j] = Nil
        /\ jobs' = [jobs EXCEPT ![j] =
             [customer |-> req.customer, car |-> req.car, gave |-> req.phone]]
  BY <1>1 DEF CreateJob
<1>4. UNCHANGED <<users, cars>> /\ Done(r)
  BY DEF CreateJob
<1>5. PICK job : job = [customer |-> req.customer, car |-> req.car, gave |-> req.phone]
  OBVIOUS
<1>6. Answers(req.phone, req.customer) /\ GoesWith(req.car, req.customer)
  BY <1>2 DEF Sound
<1>7. job \in Job /\ JobSound(job)
  BY <1>2, <1>5, <1>6 DEF Job, JobSound, Answers, GoesWith, Known, Request
<1>8. JobsStay
  BY <1>3, <1>5, <1>7, NilAssumption DEF JobsStay, Inv, TypeOK
<1>9. Stay
  BY <1>4, <1>8, UnchangedStays DEF Stay
<1>10. JobsSound'
  <2>1. ASSUME NEW k \in JobIds, jobs'[k] # Nil
        PROVE  JobSound(jobs[k])'
    <3>1. CASE k = j
      BY <1>3, <1>4, <1>5, <1>7, <3>1 DEF Inv, TypeOK, JobSound, Answers, GoesWith, Known, Parked
    <3>2. CASE k # j
      BY <1>3, <1>9, <2>1, <3>2, JobStays DEF Inv, TypeOK
    <3>3. QED
      BY <3>1, <3>2
  <2>2. QED
    BY <2>1 DEF JobsSound
<1>11. RequestsSound' /\ reqs' \in [Requests -> Request \cup {Nil}]
  BY <1>4, <1>9, RequestsStay DEF Done
<1>12. QED
  BY <1>3, <1>4, <1>5, <1>7, <1>9, <1>10, <1>11, OthersStay DEF Inv, TypeOK

LEMMA UpdateJobSteps ==
  ASSUME Inv, NEW r \in Requests, UpdateJob(r)
  PROVE  Inv'
<1>1. PICK req : req = reqs[r]
  OBVIOUS
<1>2. req \in Request /\ req.at = "update job" /\ Sound(req)
  BY <1>1, AtSound DEF UpdateJob
<1>3. jobs' = IF req.car = req.was THEN jobs ELSE [jobs EXCEPT ![req.job] = Corrected(req)]
  BY <1>1 DEF UpdateJob
<1>4. UNCHANGED <<users, cars>> /\ Done(r)
  BY DEF UpdateJob
<1>5. CASE req.car = req.was
  BY <1>3, <1>4, <1>5, AbandonSteps
<1>6. CASE req.car # req.was
  <2>1. PICK job : job = Corrected(req)
    OBVIOUS
  <2>2. req.job \in JobIds /\ jobs[req.job] # Nil
    BY <1>2 DEF Sound
  <2>3. Answers(req.phone, req.customer) /\ GoesWith(req.car, req.customer)
    BY <1>2 DEF Sound
  <2>4. job \in Job /\ JobSound(job)
    BY <2>1, <2>3 DEF Corrected, Job, JobSound, Answers, GoesWith, Known
  <2>5. jobs' = [jobs EXCEPT ![req.job] = job]
    BY <1>3, <1>6, <2>1
  <2>6. JobsStay
    BY <2>4, <2>5, NilAssumption DEF JobsStay, Inv, TypeOK
  <2>7. Stay
    BY <1>4, <2>6, UnchangedStays DEF Stay
  <2>8. JobsSound'
    <3>1. ASSUME NEW k \in JobIds, jobs'[k] # Nil
          PROVE  JobSound(jobs[k])'
      <4>1. CASE k = req.job
        BY <1>4, <2>4, <2>5, <4>1 DEF Inv, TypeOK, JobSound, Answers, GoesWith, Known, Parked
      <4>2. CASE k # req.job
        BY <2>5, <2>7, <3>1, <4>2, JobStays DEF Inv, TypeOK
      <4>3. QED
        BY <4>1, <4>2
    <3>2. QED
      BY <3>1 DEF JobsSound
  <2>9. RequestsSound' /\ reqs' \in [Requests -> Request \cup {Nil}]
    BY <1>4, <2>7, RequestsStay DEF Done
  <2>10. QED
    BY <1>4, <2>4, <2>5, <2>7, <2>8, <2>9, OthersStay DEF Inv, TypeOK
<1>7. QED
  BY <1>5, <1>6

LEMMA UpgradeSteps ==
  ASSUME Inv, NEW r \in Requests, Upgrade(r)
  PROVE  Inv'
<1>1. PICK req : req = reqs[r]
  OBVIOUS
<1>2. req \in Request /\ req.at = "upgrade" /\ Sound(req)
  BY <1>1, AtSound DEF Upgrade
<1>3. UNCHANGED <<cars, jobs>> /\ Done(r)
  BY DEF Upgrade
<1>4. users' = IF StillGuest(req.customer) /\ LoginFree(req.email)
                 THEN [users EXCEPT ![req.customer].email = req.email]
                 ELSE users
  BY <1>1 DEF Upgrade
<1>5. CASE ~(StillGuest(req.customer) /\ LoginFree(req.email))
  BY <1>3, <1>4, <1>5, AbandonSteps
<1>6. CASE StillGuest(req.customer) /\ LoginFree(req.email)
  <2>1. req.customer \in UserIds /\ users[req.customer] \in User /\ req.email \in Emails \cup {Nil}
    BY <1>2 DEF Sound, Known, Inv, TypeOK, Request
  <2>2. PICK row : row = [users[req.customer] EXCEPT !.email = req.email]
    OBVIOUS
  <2>3. row \in User /\ row # Nil /\ row.phone = users[req.customer].phone /\ row.email = req.email
    BY <2>1, <2>2, NilAssumption DEF User
  <2>4. users' = [users EXCEPT ![req.customer] = row]
    BY <1>4, <1>6, <2>2
  <2>5. \A u \in UserIds : users'[u] = IF u = req.customer THEN row ELSE users[u]
    BY <2>4 DEF Inv, TypeOK
  <2>6. KeysUnique'
    BY <1>6, <2>1, <2>3, <2>5 DEF Inv, KeysUnique, LoginFree, StillGuest
  <2>7. UsersStay
    BY <2>3, <2>5 DEF UsersStay
  <2>8. Stay
    BY <1>3, <2>7, UnchangedStays DEF Stay
  <2>9. RequestsSound' /\ reqs' \in [Requests -> Request \cup {Nil}]
    BY <1>3, <2>8, RequestsStay DEF Done
  <2>10. QED
    BY <1>3, <2>3, <2>4, <2>6, <2>8, <2>9, OthersStay DEF Inv, TypeOK
<1>7. QED
  BY <1>5, <1>6

\* The garage moves no handler.
LEMMA RequestsRest ==
  ASSUME Inv, Stay, UNCHANGED reqs
  PROVE  RequestsSound'
<1>1. ASSUME NEW s \in Requests, (reqs[s] # Nil)'
      PROVE  Sound(reqs[s])'
  <2>1. PICK x : x = reqs[s]
    OBVIOUS
  <2>2. Sound(x)'
    BY <1>1, <2>1, SoundStays DEF Inv, RequestsSound
  <2>3. QED
    BY <2>1, <2>2 DEF Sound, Answers, GoesWith, Known, Parked
<1>2. QED
  BY <1>1 DEF RequestsSound

LEMMA GarageSteps ==
  ASSUME Inv, NEW c \in CarIds,
         \/ DeleteCar(c)
         \/ \E plate \in Plates : UpdateCar(c, plate) \/ \E u \in UserIds : RegisterCar(u, c, plate)
  PROVE  Inv'
<1>1. UNCHANGED <<users, jobs, reqs>>
  BY DEF DeleteCar, UpdateCar, RegisterCar
<1>2. cars' \in [CarIds -> Car \cup {Nil, Gone}] /\ CarsOwned' /\ Stay
  <2>1. ASSUME NEW plate \in Plates, NEW u \in UserIds, RegisterCar(u, c, plate)
        PROVE  cars' \in [CarIds -> Car \cup {Nil, Gone}] /\ CarsOwned' /\ Stay
    BY <2>1, NewCar DEF RegisterCar, Known
  <2>2. ASSUME NEW plate \in Plates, UpdateCar(c, plate)
        PROVE  cars' \in [CarIds -> Car \cup {Nil, Gone}] /\ CarsOwned' /\ Stay
    <3>1. cars[c] \in Car
      BY <2>2 DEF UpdateCar, Parked, Inv, TypeOK
    <3>2. PICK row : row = [cars[c] EXCEPT !.plate = plate]
      OBVIOUS
    <3>3. row \in Car /\ row.owner = cars[c].owner /\ row \notin {Nil, Gone}
      BY <3>1, <3>2, NilAssumption DEF Car
    <3>4. \A d \in CarIds : cars'[d] = IF d = c THEN row ELSE cars[d]
      BY <2>2, <3>2 DEF UpdateCar, Inv, TypeOK
    <3>5. cars' \in [CarIds -> Car \cup {Nil, Gone}]
      BY <2>2, <3>2, <3>3 DEF UpdateCar, Inv, TypeOK
    <3>6. CarsStay
      BY <2>2, <3>3, <3>4 DEF CarsStay, Parked, UpdateCar
    <3>7. CarsOwned'
      BY <1>1, <2>2, <3>3, <3>4 DEF CarsOwned, Parked, Known, UpdateCar, Inv
    <3>8. QED
      BY <1>1, <3>5, <3>6, <3>7, UnchangedStays DEF Stay
  <2>3. ASSUME DeleteCar(c)
        PROVE  cars' \in [CarIds -> Car \cup {Nil, Gone}] /\ CarsOwned' /\ Stay
    <3>1. \A d \in CarIds : cars'[d] = IF d = c THEN Gone ELSE cars[d]
      BY <2>3 DEF DeleteCar, Inv, TypeOK
    <3>2. cars' \in [CarIds -> Car \cup {Nil, Gone}]
      BY <2>3 DEF DeleteCar, Inv, TypeOK
    <3>3. CarsStay
      BY <3>1, NilAssumption DEF CarsStay, Parked
    <3>4. CarsOwned'
      BY <1>1, <3>1 DEF CarsOwned, Parked, Known, Inv
    <3>5. QED
      BY <1>1, <3>2, <3>3, <3>4, UnchangedStays DEF Stay
  <2>4. QED
    BY <2>1, <2>2, <2>3
<1>3. QED
  BY <1>1, <1>2, OthersStay, RequestsRest DEF Inv, TypeOK

------------------------------------------------------------------------------
(* Theorems.                                                               *)

\* Before the first request the invariant holds: nothing is stored.
THEOREM Initially == Init => Inv
BY DEF Init, Inv, TypeOK, KeysUnique, CarsOwned, Parked, JobsSound, RequestsSound

\* Every command of every operation keeps it, whatever the others have done since
\* the handler's last one.
THEOREM Inductive == Inv /\ [Next]_vars => Inv'
<1> SUFFICES ASSUME Inv, [Next]_vars
             PROVE  Inv'
  OBVIOUS
<1>1. ASSUME NEW r \in Requests, Step(r)
      PROVE  Inv'
  BY <1>1, CreateUserSteps, FindUserSteps, FindCarSteps, CreateCarSteps, FindCarAgainSteps,
     CheckCarSteps, CreateJobSteps, UpdateJobSteps, UpgradeSteps, AbandonSteps
     DEF Step, Abandon
<1>2. ASSUME NEW r \in Requests, NEW plate \in Plates,
             \/ RegisterWalkIn(r, plate)
             \/ \E j \in JobIds : EditReservation(r, j, plate)
             \/ \E p \in Phones : BookAsGuest(r, p, plate)
      PROVE  Inv'
  BY <1>2, RegisterWalkInSteps, EditReservationSteps, BookAsGuestSteps
<1>3. ASSUME NEW r \in Requests, NEW u \in UserIds, NEW c \in CarIds, BookOwn(r, u, c)
      PROVE  Inv'
  BY <1>3, BookOwnSteps
<1>4. ASSUME NEW r \in Requests, NEW e \in Emails,
             \/ \E p \in Phones \cup {Nil} : RegisterCustomer(r, p, e)
             \/ \E j \in JobIds, p \in Phones : ClaimGuest(r, j, p, e)
      PROVE  Inv'
  BY <1>4, RegisterCustomerSteps, ClaimGuestSteps
<1>5. CASE UNCHANGED vars
  BY <1>5 DEF vars, Inv, TypeOK, KeysUnique, CarsOwned, Parked, Known, JobsSound, JobSound,
     Answers, GoesWith, RequestsSound, Sound
<1>6. QED
  BY <1>1, <1>2, <1>3, <1>4, <1>5, GarageSteps DEF Next

\* It holds in every state the service reaches.
THEOREM Always == Spec => []Inv
BY Initially, Inductive, PTL DEF Spec

\* Rows and handlers keep their types; in particular no handler goes on with what a
\* search did not find or an index refused.
THEOREM TypeCorrect == Spec => []TypeOK
<1>1. Inv => TypeOK
  BY DEF Inv
<1>2. QED
  BY <1>1, Always, PTL

\* All bookings made with one number are in one history, however the first ones race
\* (findOrCreateGuest).
THEOREM OneHistory == Spec => []OneHistoryPerPhone
<1>1. Inv => OneHistoryPerPhone
  BY DEF Inv, TypeOK, KeysUnique, JobsSound, JobSound, Answers, Known, OneHistoryPerPhone
<1>2. QED
  BY <1>1, Always, PTL

\* The customer of a job owns its car, however the car was found, made, corrected or
\* renamed meanwhile (EditReservation, Book).
THEOREM CarFollowsCustomer == Spec => []CarGoesWithCustomer
<1>1. Inv => CarGoesWithCustomer
  BY DEF Inv, JobsSound, JobSound, GoesWith, CarGoesWithCustomer
<1>2. QED
  BY <1>1, Always, PTL

------------------------------------------------------------------------------
(* The handlers keep the promise.                                          *)

\* A number means the one customer who has it, before a step and after it.
LEMMA PersonKnown ==
  ASSUME Inv, NEW p \in Phones, NEW u \in UserIds
  PROVE  /\ u \in KnownAs(p) => Person(p) = u
         /\ Person(p) = u /\ u # Nil => u \in KnownAs(p)
<1>1. \A v, w \in KnownAs(p) : v = w
  BY NilAssumption DEF KnownAs, Inv, KeysUnique
<1>2. KnownAs(p) \subseteq UserIds
  BY DEF KnownAs
<1>3. KnownAs(p) # {} => Person(p) \in KnownAs(p)
  BY <1>2 DEF Person
<1>4. KnownAs(p) = {} => Person(p) = Nil
  BY DEF Person
<1>5. QED
  BY <1>1, <1>3, <1>4

LEMMA PersonKnownAfter ==
  ASSUME Inv', NEW p \in Phones, NEW u \in UserIds
  PROVE  u \in KnownAs(p)' => Person(p)' = u
<1>1. \A v, w \in KnownAs(p)' : v = w
  BY NilAssumption DEF KnownAs, Inv, KeysUnique
<1>2. KnownAs(p)' \subseteq UserIds
  BY DEF KnownAs
<1>3. KnownAs(p)' # {} => Person(p)' \in KnownAs(p)'
  BY <1>2 DEF Person
<1>4. QED
  BY <1>1, <1>3

LEMMA PersonStays ==
  ASSUME Inv, Inv', NEW p \in Phones, KnownAs(p)' = KnownAs(p)
  PROVE  Person(p)' = Person(p)
<1>1. CASE KnownAs(p) = {}
  BY <1>1 DEF Person
<1>2. ASSUME NEW u \in KnownAs(p)
      PROVE  Person(p)' = Person(p)
  BY <1>2, PersonKnown, PersonKnownAfter DEF KnownAs
<1>3. QED
  BY <1>1, <1>2

LEMMA PromiseInit == Init => Promise!Init
BY DEF Init, Promise!Init, Person, KnownAs, Account, History

LEMMA PromiseStutters ==
  ASSUME UNCHANGED <<users, jobs>>
  PROVE  UNCHANGED Promise!clientele
BY DEF Promise!clientele, Person, KnownAs, Account, History

\* While the customers stand, so do the numbers and the accounts.
LEMMA UsersStand ==
  ASSUME UNCHANGED users
  PROVE  /\ [p \in Phones |-> Person(p)]' = [p \in Phones |-> Person(p)]
         /\ [u \in UserIds |-> Account(u)]' = [u \in UserIds |-> Account(u)]
BY DEF Person, KnownAs, Account

LEMMA JobsStand ==
  ASSUME UNCHANGED jobs
  PROVE  [j \in JobIds |-> History(j)]' = [j \in JobIds |-> History(j)]
BY DEF History

LEMMA CreateUserMeets ==
  ASSUME Inv, Inv', NEW r \in Requests, CreateUser(r)
  PROVE  [Promise!Next]_(Promise!clientele)
<1>1. PICK req : req = reqs[r]
  OBVIOUS
<1>2. req \in Request
  BY <1>1, AtSound DEF CreateUser
<1>3. PICK p, e : p = req.phone /\ e = req.email
  OBVIOUS
<1>4. p \in Phones \cup {Nil} /\ e \in Emails \cup {Nil}
  BY <1>2, <1>3 DEF Request
<1>5. UNCHANGED jobs
  BY DEF CreateUser
<1>6. CASE ~(ContactFree(p) /\ LoginFree(e))
  BY <1>1, <1>3, <1>5, <1>6, PromiseStutters DEF CreateUser
<1>7. CASE ContactFree(p) /\ LoginFree(e)
  <2>1. PICK u \in UserIds :
          users[u] = Nil /\ users' = [users EXCEPT ![u] = [phone |-> p, email |-> e]]
    BY <1>1, <1>3, <1>7 DEF CreateUser
  <2>2. \A v \in UserIds : users'[v] = IF v = u THEN [phone |-> p, email |-> e] ELSE users[v]
    BY <2>1 DEF Inv, TypeOK
  <2>3. [phone |-> p, email |-> e] # Nil
    BY <1>4, NilAssumption DEF User
  <2>4. \A q \in Phones : KnownAs(q)' = IF q = p THEN {u} ELSE KnownAs(q)
    <3>1. ASSUME NEW q \in Phones, q = p
          PROVE  KnownAs(q)' = {u}
      BY <1>7, <2>2, <2>3, <3>1, NilAssumption DEF KnownAs, ContactFree
    <3>2. ASSUME NEW q \in Phones, q # p
          PROVE  KnownAs(q)' = KnownAs(q)
      BY <2>1, <2>2, <3>2 DEF KnownAs
    <3>3. QED
      BY <3>1, <3>2
  <2>5. \A q \in Phones : Person(q)' = IF q = p THEN u ELSE Person(q)
    BY <2>4, PersonKnownAfter, PersonStays
  <2>6. \A v \in UserIds : Account(v)' = IF v = u THEN e ELSE Account(v)
    BY <2>2, <2>3 DEF Account
  <2>7. Account(u) = Nil /\ (e # Nil => \A v \in UserIds : Account(v) # e)
    BY <1>7, <2>1 DEF Account, LoginFree
  <2>8. u # Nil /\ \A q \in Phones : Person(q) # u
    BY <2>1, PersonKnown, NilAssumption DEF KnownAs
  <2>9. p # Nil => p \in Phones /\ Person(p) = Nil
    BY <1>4, <1>7 DEF Person, KnownAs, ContactFree
  <2>10. [q \in Phones |-> Person(q)]'
           = IF p = Nil THEN [q \in Phones |-> Person(q)]
                        ELSE [[q \in Phones |-> Person(q)] EXCEPT ![p] = u]
    BY <2>5, <2>9, NilAssumption
  <2>11. [v \in UserIds |-> Account(v)]'
           = [[v \in UserIds |-> Account(v)] EXCEPT ![u] = e]
    BY <2>6
  <2>12. e = Nil => [v \in UserIds |-> Account(v)]' = [v \in UserIds |-> Account(v)]
    BY <2>6, <2>7
  <2>13. p # Nil => Promise!Meet(p, u)
    BY <2>8, <2>9, <2>10 DEF Promise!Meet
  <2>14. e # Nil => e \in Emails /\ Promise!Open(u, e)
    BY <1>4, <2>7, <2>11 DEF Promise!Open, Promise!Unused
  <2>15. [j \in JobIds |-> History(j)]' = [j \in JobIds |-> History(j)]
    BY <1>5, JobsStand
  <2>16. CASE p = Nil /\ e = Nil
    BY <2>10, <2>12, <2>15, <2>16 DEF Promise!clientele
  <2>17. CASE p # Nil \/ e # Nil
    BY <2>1, <2>9, <2>10, <2>12, <2>13, <2>14, <2>15, <2>17 DEF Promise!Next
  <2>18. QED
    BY <2>16, <2>17
<1>8. QED
  BY <1>6, <1>7

LEMMA UpgradeOpens ==
  ASSUME Inv, Inv', NEW r \in Requests, Upgrade(r)
  PROVE  [Promise!Next]_(Promise!clientele)
<1>1. PICK req : req = reqs[r]
  OBVIOUS
<1>2. req \in Request /\ Known(req.customer)
  BY <1>1, AtSound DEF Upgrade, Sound
<1>3. PICK u, e : u = req.customer /\ e = req.email
  OBVIOUS
<1>4. u \in UserIds /\ e \in Emails \cup {Nil} /\ users[u] \in User
  BY <1>2, <1>3 DEF Request, Known, Inv, TypeOK
<1>5. UNCHANGED jobs
  BY DEF Upgrade
<1>6. users' = IF StillGuest(u) /\ LoginFree(e) THEN [users EXCEPT ![u].email = e] ELSE users
  BY <1>1, <1>3 DEF Upgrade
<1>7. CASE ~(StillGuest(u) /\ LoginFree(e)) \/ e = Nil
  <2>1. users' = users
    <3>1. CASE StillGuest(u) /\ e = Nil
      <4>1. [users[u] EXCEPT !.email = e] = users[u]
        BY <1>4, <3>1 DEF StillGuest, User
      <4>2. users = [users EXCEPT ![u] = users[u]]
        BY DEF Inv, TypeOK
      <4>3. QED
        BY <1>6, <4>1, <4>2
    <3>2. QED
      BY <1>6, <1>7, <3>1
  <2>2. QED
    BY <1>5, <2>1, PromiseStutters
<1>8. CASE StillGuest(u) /\ LoginFree(e) /\ e # Nil
  <2>1. PICK row : row = [users[u] EXCEPT !.email = e]
    OBVIOUS
  <2>2. row # Nil /\ row.phone = users[u].phone /\ row.email = e
    BY <1>4, <2>1, NilAssumption DEF User
  <2>3. \A v \in UserIds : users'[v] = IF v = u THEN row ELSE users[v]
    BY <1>6, <1>8, <2>1 DEF Inv, TypeOK
  <2>4. \A q \in Phones : KnownAs(q)' = KnownAs(q)
    BY <1>8, <2>2, <2>3 DEF KnownAs, StillGuest
  <2>5. \A q \in Phones : Person(q)' = Person(q)
    BY <2>4, PersonStays
  <2>6. \A v \in UserIds : Account(v)' = IF v = u THEN e ELSE Account(v)
    BY <2>2, <2>3 DEF Account
  <2>7. Account(u) = Nil /\ \A v \in UserIds : Account(v) # e
    BY <1>8 DEF Account, LoginFree, StillGuest
  <2>8. [v \in UserIds |-> Account(v)]'
          = [[v \in UserIds |-> Account(v)] EXCEPT ![u] = e]
    BY <2>6
  <2>9. Promise!Open(u, e)
    BY <1>4, <2>7, <2>8 DEF Promise!Open, Promise!Unused
  <2>10. [q \in Phones |-> Person(q)]' = [q \in Phones |-> Person(q)]
    BY <2>5
  <2>11. e \in Emails
    BY <1>4, <1>8
  <2>12. QED
    BY <1>4, <1>5, <2>9, <2>10, <2>11, JobsStand DEF Promise!Next
<1>9. QED
  BY <1>7, <1>8

LEMMA CreateJobServes ==
  ASSUME Inv, NEW r \in Requests, CreateJob(r)
  PROVE  Promise!Next
<1>1. PICK req : req = reqs[r]
  OBVIOUS
<1>2. req \in Request /\ Answers(req.phone, req.customer) /\ GoesWith(req.car, req.customer)
  BY <1>1, AtSound DEF CreateJob, Sound
<1>3. PICK u, p : u = req.customer /\ p = req.phone
  OBVIOUS
<1>4. u \in UserIds /\ p \in Phones \cup {Nil}
  BY <1>2, <1>3 DEF Request, Answers, Known
<1>5. PICK j \in JobIds :
        jobs[j] = Nil /\ jobs' = [jobs EXCEPT ![j] = [customer |-> u, car |-> req.car, gave |-> p]]
  BY <1>1, <1>3 DEF CreateJob
<1>6. [customer |-> u, car |-> req.car, gave |-> p] # Nil
  BY <1>2, <1>4, NilAssumption DEF Job, GoesWith
<1>7. \A k \in JobIds :
        History(k)' = IF k = j THEN [customer |-> u, number |-> p] ELSE History(k)
  BY <1>5, <1>6 DEF History, Inv, TypeOK
<1>8. History(j) = Nil
  BY <1>5 DEF History
<1>9. p # Nil => Person(p) = u
  BY <1>2, <1>3, <1>4, PersonKnown DEF Answers, KnownAs, Known
<1>10. [k \in JobIds |-> History(k)]'
         = [[k \in JobIds |-> History(k)] EXCEPT ![j] = [customer |-> u, number |-> p]]
  BY <1>7
<1>11. Promise!Serve(j, u, p)
  BY <1>4, <1>8, <1>9, <1>10 DEF Promise!Serve
<1>12. QED
  BY <1>4, <1>5, <1>11, UsersStand DEF Promise!Next, CreateJob

LEMMA UpdateJobCorrects ==
  ASSUME Inv, NEW r \in Requests, UpdateJob(r)
  PROVE  [Promise!Next]_(Promise!clientele)
<1>1. PICK req : req = reqs[r]
  OBVIOUS
<1>2. req \in Request /\ req.at = "update job" /\ Sound(req)
  BY <1>1, AtSound DEF UpdateJob
<1>3. Answers(req.phone, req.customer) /\ GoesWith(req.car, req.customer)
  BY <1>2 DEF Sound
<1>4. PICK u, j : u = req.customer /\ j = req.job
  OBVIOUS
<1>5. u \in UserIds /\ j \in JobIds /\ jobs[j] # Nil
  BY <1>2, <1>3, <1>4 DEF Sound, Answers, Known
<1>6. UNCHANGED users
  BY DEF UpdateJob
<1>7. jobs' = IF req.car = req.was THEN jobs ELSE [jobs EXCEPT ![j] = Corrected(req)]
  BY <1>1, <1>4 DEF UpdateJob
<1>8. CASE req.car = req.was
  BY <1>6, <1>7, <1>8, PromiseStutters
<1>9. CASE req.car # req.was
  <2>1. /\ Corrected(req) # Nil
        /\ Corrected(req).customer = u /\ Corrected(req).gave = Nil
    BY <1>3, <1>4, <1>5, NilAssumption DEF Corrected, Job, GoesWith
  <2>2. \A k \in JobIds :
          History(k)' = IF k = j THEN [customer |-> u, number |-> Nil] ELSE History(k)
    BY <1>5, <1>7, <1>9, <2>1 DEF History, Inv, TypeOK
  <2>3. History(j) # Nil
    <3>1. jobs[j] \in Job
      BY <1>5 DEF Inv, TypeOK
    <3>2. [customer |-> jobs[j].customer, number |-> jobs[j].gave] # Nil
      BY <1>6, <3>1, NilAssumption DEF Job
    <3>3. QED
      BY <1>5, <3>2 DEF History
  <2>4. [k \in JobIds |-> History(k)]'
          = [[k \in JobIds |-> History(k)] EXCEPT ![j] = [customer |-> u, number |-> Nil]]
    BY <2>2
  <2>5. Promise!Correct(j, u)
    BY <1>5, <2>3, <2>4 DEF Promise!Correct
  <2>6. QED
    BY <1>5, <1>6, <2>5, UsersStand DEF Promise!Next
<1>10. QED
  BY <1>8, <1>9

LEMMA PromiseStep ==
  ASSUME Inv, Inv', [Next]_vars
  PROVE  [Promise!Next]_(Promise!clientele)
<1>1. ASSUME NEW r \in Requests, CreateUser(r) \/ Upgrade(r) \/ CreateJob(r) \/ UpdateJob(r)
      PROVE  [Promise!Next]_(Promise!clientele)
  BY <1>1, CreateUserMeets, UpgradeOpens, CreateJobServes, UpdateJobCorrects
<1>2. CASE ~\E r \in Requests : CreateUser(r) \/ Upgrade(r) \/ CreateJob(r) \/ UpdateJob(r)
  <2>1. UNCHANGED <<users, jobs>>
    BY <1>2 DEF Next, Step, vars, FindUser, FindCar, CreateCar, FindCarAgain, CheckCar, Abandon,
       RegisterWalkIn, EditReservation, BookAsGuest, BookOwn, RegisterCustomer, ClaimGuest,
       DeleteCar, UpdateCar, RegisterCar
  <2>2. QED
    BY <2>1, PromiseStutters
<1>3. QED
  BY <1>1, <1>2

\* Every write of a handler is one step of the atomic promise, or changes nothing it
\* speaks of (findOrCreateGuest, RegisterCustomer, UpgradeGuest, EditReservation).
THEOREM ImplementsPromise == Spec => KeepsThePromise
<1>1. Init => Promise!Init
  BY PromiseInit
<1>2. Inv /\ Inv' /\ [Next]_vars => [Promise!Next]_(Promise!clientele)
  BY PromiseStep
<1>3. QED
  BY <1>1, <1>2, Always, PTL DEF Spec, KeepsThePromise, Promise!Spec
==============================================================================
