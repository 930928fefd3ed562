---------------------------- MODULE ScheduleProofs ----------------------------
(***************************************************************************)
(* Theorems about Schedule, for any roster, bookings and days.  What an    *)
(* answer offers holds whatever races; that shifts stay apart rests on     *)
(* OneAddAtATime, because nothing in the database keeps them so.           *)
(***************************************************************************)
EXTENDS Schedule, TLAPS

\* Where an offered slot comes from: a shift that was read, the day that was
\* asked about, and no booking that was read.
SlotSound(r, a) ==
  /\ a.start < a.end
  /\ Day(reqs[r].day).start <= a.start /\ a.end <= Day(reqs[r].day).end
  /\ \E sh \in reqs[r].shifts :
       /\ a.employee = sh.employee /\ a.location = sh.location
       /\ sh.start <= a.start /\ a.end <= sh.end
  /\ \A j \in reqs[r].jobs : j.employee = a.employee => ~Overlaps(a, j)

OffersSound ==
  \A r \in Requests :
    ~Idle(r) /\ reqs[r].op = "ask" => \A a \in reqs[r].slots : a \in Slot /\ SlotSound(r, a)

OfferInv == TypeOK /\ OffersSound

------------------------------------------------------------------------------
(* Operators.                                                              *)

LEMMA BusyIsRequest ==
  ASSUME TypeOK, NEW r \in Requests, ~Idle(r)
  PROVE  /\ reqs[r] \in Request
         /\ reqs[r].op \in {"add", "ask"}
         /\ reqs[r].op = "add" => reqs[r].id \in Ids /\ reqs[r].shift \in Shift
         /\ reqs[r].op = "ask" =>
              /\ reqs[r].at \in {"staff", "jobs", "answer"}
              /\ reqs[r].day \in Days /\ reqs[r].duration \in Durations
              /\ reqs[r].shifts \in SUBSET Shift /\ reqs[r].staff \in SUBSET Employees
              /\ reqs[r].jobs \in SUBSET Work /\ reqs[r].slots \in SUBSET Slot
<1>1. reqs[r] \in Request
  BY DEF TypeOK, Idle
<1>2. QED
  BY <1>1 DEF Request

LEMMA RosterIsShifts ==
  ASSUME TypeOK
  PROVE  Roster \in SUBSET Shift
BY DEF TypeOK, Roster, Stored

LEMMA DayTyped ==
  ASSUME NEW day \in Days
  PROVE  Day(day).start \in Nat /\ Day(day).end \in Nat
<1>1. day \in Nat /\ DayLength \in Nat
  BY ConfigAssumption
<1>2. day * DayLength \in Nat /\ (day + 1) * DayLength \in Nat
  BY <1>1
<1>3. QED
  BY <1>2 DEF Day

\* The starts offered in a window leave the job inside it and clear of the rest.
LEMMA FreeStartsFit ==
  ASSUME NEW window \in Interval, NEW busy, NEW duration \in Nat \ {0}, NEW notBefore \in Nat,
         NEW t \in FreeSlots(window, busy, duration, SlotStep, notBefore, MaxSlots)
  PROVE  /\ t \in Nat
         /\ window.start <= t /\ t + duration <= window.end
         /\ ~OverlapsAny([start |-> t, end |-> t + duration], busy)
<1>1. t \in Bookable(window, busy, duration, SlotStep, notBefore)
  BY DEF FreeSlots
<1>2. PICK k \in 0 .. (window.end - window.start) : t = window.start + k * SlotStep
  BY <1>1 DEF Bookable, Grid
<1>3. k \in Nat /\ SlotStep \in Nat /\ window.start \in Nat /\ window.end \in Nat
  BY <1>2, ConfigAssumption DEF Interval
<1>4. k * SlotStep \in Nat
  BY <1>3
<1>5. t \in Nat /\ window.start <= t
  BY <1>2, <1>3, <1>4
<1>6. QED
  BY <1>1, <1>5 DEF Bookable, Grid

\* An answer is sound with respect to what it was made from.
LEMMA OfferedSound ==
  ASSUME TypeOK, NEW r \in Requests, Asking(r, "jobs"), NEW booked \in SUBSET Work,
         NEW a \in Offered(r, booked)
  PROVE  /\ a \in Slot
         /\ a.start < a.end
         /\ Day(reqs[r].day).start <= a.start /\ a.end <= Day(reqs[r].day).end
         /\ \E sh \in reqs[r].shifts :
              /\ a.employee = sh.employee /\ a.location = sh.location
              /\ sh.start <= a.start /\ a.end <= sh.end
         /\ \A j \in booked : j.employee = a.employee => ~Overlaps(a, j)
<1> DEFINE ask == reqs[r]
           busy(e) == {[start |-> j.start, end |-> j.end] : j \in {j \in booked : j.employee = e}}
<1>1. /\ ask.day \in Days /\ ask.duration \in Durations /\ ask.shifts \in SUBSET Shift
      /\ ask.duration \in Nat \ {0} /\ now \in Nat
  BY BusyIsRequest, ConfigAssumption DEF Asking, TypeOK
<1>2. PICK sh \in ask.shifts :
        \E t \in FreeSlots(Window(sh, ask.day), busy(sh.employee), ask.duration,
                          SlotStep, now, MaxSlots) :
          a = [employee |-> sh.employee, location |-> sh.location,
               start |-> t, end |-> t + ask.duration]
  BY DEF Offered
<1>2a. PICK t \in FreeSlots(Window(sh, ask.day), busy(sh.employee), ask.duration,
                           SlotStep, now, MaxSlots) :
         a = [employee |-> sh.employee, location |-> sh.location,
              start |-> t, end |-> t + ask.duration]
  BY <1>2
<1>3. sh \in Shift
  BY <1>1, <1>2
<1>4. /\ Window(sh, ask.day) \in Interval
      /\ sh.start <= Window(sh, ask.day).start /\ Window(sh, ask.day).end <= sh.end
      /\ Day(ask.day).start <= Window(sh, ask.day).start
      /\ Window(sh, ask.day).end <= Day(ask.day).end
  BY <1>1, <1>3, DayTyped DEF Window, Shift, Interval
<1>5. /\ t \in Nat
      /\ Window(sh, ask.day).start <= t /\ t + ask.duration <= Window(sh, ask.day).end
      /\ ~OverlapsAny([start |-> t, end |-> t + ask.duration], busy(sh.employee))
  <2> HIDE DEF busy, ask
  <2>1. QED
    BY <1>1, <1>2a, <1>4, FreeStartsFit
<1>6. a \in Slot /\ a.start < a.end
  BY <1>1, <1>2a, <1>3, <1>5 DEF Slot, Shift
<1>7. /\ sh.start <= a.start /\ a.end <= sh.end
      /\ Day(ask.day).start <= a.start /\ a.end <= Day(ask.day).end
  BY <1>1, <1>2a, <1>3, <1>4, <1>5, DayTyped DEF Shift, Interval
<1>8. ASSUME NEW j \in booked, j.employee = a.employee
      PROVE  ~Overlaps(a, j)
  <2>1. [start |-> j.start, end |-> j.end] \in busy(sh.employee)
    BY <1>2a, <1>8
  <2>2. ~Overlaps([start |-> t, end |-> t + ask.duration], [start |-> j.start, end |-> j.end])
    BY <1>5, <2>1 DEF OverlapsAny
  <2>3. QED
    BY <1>2a, <2>2 DEF Overlaps
<1>9. QED
  BY <1>2a, <1>6, <1>7, <1>8

------------------------------------------------------------------------------
(* Answers, whatever races.                                                *)

LEMMA InitOffer == Init => OfferInv
BY ConfigAssumption DEF Init, OfferInv, TypeOK, OffersSound, Idle

\* Starting a handler with a request that offers nothing yet.
LEMMA BeginKeepsOfferInv ==
  ASSUME OfferInv, NEW r \in Requests, NEW new \in Request,
         reqs' = [reqs EXCEPT ![r] = new], new.op = "ask" => new.slots = {},
         UNCHANGED <<shifts, staff, jobs, now>>
  PROVE  OfferInv'
<1>1. reqs'[r] = new /\ \A q \in Requests \ {r} : reqs'[q] = reqs[q]
  BY DEF OfferInv, TypeOK
<1>2. TypeOK'
  BY DEF OfferInv, TypeOK
<1>3. OffersSound'
  BY <1>1 DEF OfferInv, OffersSound, SlotSound, Idle
<1>4. QED
  BY <1>2, <1>3 DEF OfferInv

LEMMA AddKeepsOfferInv ==
  ASSUME OfferInv, NEW r \in Requests, NEW i \in Ids, NEW e \in Employees, NEW l \in Locations,
         NEW window \in Hours, AddShift(r, i, e, l, window)
  PROVE  OfferInv'
<1> DEFINE new == [op |-> "add", id |-> i,
                   shift |-> [employee |-> e, location |-> l,
                              start |-> window.start, end |-> window.end]]
<1>1. window.start \in Nat /\ window.end \in Nat
  BY ConfigAssumption DEF Interval
<1>2. new \in Request /\ new.op = "add"
  BY <1>1 DEF Request, Shift
<1>3. reqs' = [reqs EXCEPT ![r] = new] /\ UNCHANGED <<shifts, staff, jobs, now>>
  BY DEF AddShift
<1> HIDE DEF new
<1>4. QED
  BY <1>2, <1>3, BeginKeepsOfferInv

LEMMA AskKeepsOfferInv ==
  ASSUME OfferInv, NEW r \in Requests, NEW day \in Days, NEW duration \in Durations,
         NEW e \in Employees \cup {Nil}, NEW l \in Locations \cup {Nil},
         Availability(r, day, duration, e, l)
  PROVE  OfferInv'
<1> DEFINE read == {sh \in Roster :
                      /\ Listed(sh, Day(day))
                      /\ e # Nil => sh.employee = e
                      /\ l # Nil => sh.location = l}
           new == [op |-> "ask", at |-> IF read = {} THEN "answer" ELSE "staff",
                   day |-> day, duration |-> duration, shifts |-> read,
                   staff |-> {}, jobs |-> {}, slots |-> {}]
<1>1. read \in SUBSET Shift
  BY RosterIsShifts DEF OfferInv
<1>2. reqs' = [reqs EXCEPT ![r] = new] /\ UNCHANGED <<shifts, staff, jobs, now>>
  BY DEF Availability
<1> HIDE DEF read
<1>3. new \in Request /\ new.slots = {}
  BY <1>1 DEF Request
<1> HIDE DEF new
<1>4. QED
  BY <1>2, <1>3, BeginKeepsOfferInv

\* The later reads of an answer.
LEMMA ReadKeepsOfferInv ==
  ASSUME OfferInv, NEW r \in Requests, ReadStaff(r) \/ ReadJobs(r)
  PROVE  OfferInv'
<1>1. TypeOK /\ \A q \in Requests \ {r} : reqs'[q] = reqs[q]
  BY DEF OfferInv, TypeOK, ReadStaff, ReadJobs
<1>2. /\ reqs[r] \in Request /\ reqs[r].op = "ask" /\ ~Idle(r)
      /\ reqs[r].shifts \in SUBSET Shift /\ reqs[r].day \in Days
  BY <1>1, BusyIsRequest DEF ReadStaff, ReadJobs, Asking
<1>3. CASE ReadStaff(r)
  <2> DEFINE found == {e \in staff : \E sh \in reqs[r].shifts : sh.employee = e}
  <2>1. found \in SUBSET Employees
    BY <1>1 DEF TypeOK
  <2>2. reqs' = [reqs EXCEPT ![r] = [reqs[r] EXCEPT !.at = "jobs", !.staff = found]]
    BY <1>1, <1>3 DEF ReadStaff, TypeOK
  <2> HIDE DEF found
  <2>3. [reqs[r] EXCEPT !.at = "jobs", !.staff = found] \in Request
    BY <1>2, <2>1 DEF Request
  <2>4. TypeOK'
    BY <1>1, <1>3, <2>2, <2>3 DEF TypeOK, ReadStaff
  <2>5. /\ reqs'[r].slots = reqs[r].slots /\ reqs'[r].day = reqs[r].day
        /\ reqs'[r].shifts = reqs[r].shifts /\ reqs'[r].jobs = reqs[r].jobs
    BY <1>1, <1>2, <2>2 DEF TypeOK, Request
  <2>6. OffersSound'
    BY <1>1, <1>2, <2>5 DEF OfferInv, OffersSound, SlotSound, Idle
  <2>7. QED
    BY <2>4, <2>6 DEF OfferInv
<1>4. CASE ReadJobs(r)
  <2> DEFINE booked == DayJobs(reqs[r].day, {sh.employee : sh \in reqs[r].shifts})
             offered == Offered(r, booked)
             new == [reqs[r] EXCEPT !.at = "answer", !.jobs = booked, !.slots = offered]
  <2>1. booked \in SUBSET Work
    BY <1>1, ConfigAssumption DEF DayJobs, TypeOK
  <2>2. \A a \in offered :
          /\ a \in Slot
          /\ a.start < a.end
          /\ Day(reqs[r].day).start <= a.start /\ a.end <= Day(reqs[r].day).end
          /\ \E sh \in reqs[r].shifts :
               /\ a.employee = sh.employee /\ a.location = sh.location
               /\ sh.start <= a.start /\ a.end <= sh.end
          /\ \A j \in booked : j.employee = a.employee => ~Overlaps(a, j)
    <3> HIDE DEF booked
    <3>1. QED
      BY <1>1, <1>4, <2>1, OfferedSound DEF ReadJobs
  <2>3. reqs' = [reqs EXCEPT ![r] = new]
    BY <1>1, <1>4 DEF ReadJobs, TypeOK
  <2> HIDE DEF booked, offered
  <2>4. offered \in SUBSET Slot
    BY <2>2
  <2>5. new \in Request
    BY <1>2, <2>1, <2>4 DEF Request
  <2>6. reqs'[r] = new
    BY <1>1, <2>3 DEF TypeOK
  <2>7. /\ new.slots = offered /\ new.jobs = booked
        /\ new.day = reqs[r].day /\ new.shifts = reqs[r].shifts
    BY <1>2 DEF Request
  <2> HIDE DEF new
  <2>8. TypeOK'
    <3>1. UNCHANGED <<shifts, staff, jobs, now>>
      BY <1>4 DEF ReadJobs
    <3>2. QED
      BY <1>1, <2>3, <2>5, <3>1 DEF TypeOK
  <2>9. OffersSound'
    <3>1. /\ reqs'[r].slots = offered /\ reqs'[r].jobs = booked
          /\ reqs'[r].day = reqs[r].day /\ reqs'[r].shifts = reqs[r].shifts
      BY <2>6, <2>7
    <3>2. \A a \in reqs'[r].slots : a \in Slot /\ SlotSound(r, a)'
      BY <2>2, <3>1 DEF SlotSound
    <3>3. QED
      BY <1>1, <3>2 DEF OfferInv, OffersSound, SlotSound, Idle
  <2>10. QED
    BY <2>8, <2>9 DEF OfferInv
<1>5. QED
  BY <1>3, <1>4

\* The steps that end a handler or run beside it.
LEMMA QuietKeepsOfferInv ==
  ASSUME OfferInv,
         \/ \E r \in Requests : Create(r) \/ Finish(r)
         \/ \E i \in Ids : DeleteShift(i)
         \/ JobsChange \/ StaffChange \/ Tick \/ UNCHANGED vars
  PROVE  OfferInv'
<1>1. TypeOK
  BY DEF OfferInv
<1>2. \A q \in Requests : reqs'[q] = reqs[q] \/ reqs'[q] = Nil
  BY <1>1 DEF TypeOK, Create, Finish, Done, DeleteShift, JobsChange, StaffChange, Tick, vars
<1>3. TypeOK'
  <2>1. CASE \E r \in Requests : Create(r)
    <3>1. PICK r \in Requests : Create(r)
      BY <2>1
    <3>2. reqs[r].id \in Ids /\ reqs[r].shift \in Shift
      BY <1>1, <3>1, BusyIsRequest DEF Create, Adding
    <3>3. QED
      BY <1>1, <3>1, <3>2 DEF TypeOK, Create, Done
  <2>2. CASE \E r \in Requests : Finish(r)
    BY <1>1, <2>2 DEF TypeOK, Finish, Done
  <2>3. CASE \E i \in Ids : DeleteShift(i)
    BY <1>1, <2>3 DEF TypeOK, DeleteShift
  <2>4. CASE JobsChange
    BY <1>1, <2>4 DEF TypeOK, JobsChange
  <2>5. CASE StaffChange
    BY <1>1, <2>5 DEF TypeOK, StaffChange
  <2>6. CASE Tick
    BY <1>1, <2>6, ConfigAssumption DEF TypeOK, Tick
  <2>7. CASE UNCHANGED vars
    BY <1>1, <2>7 DEF TypeOK, vars
  <2>8. QED
    BY <2>1, <2>2, <2>3, <2>4, <2>5, <2>6, <2>7
<1>4. OffersSound'
  BY <1>2 DEF OfferInv, OffersSound, SlotSound, Idle
<1>5. QED
  BY <1>3, <1>4 DEF OfferInv

LEMMA NextKeepsOfferInv ==
  ASSUME OfferInv, [Next]_vars
  PROVE  OfferInv'
<1>1. CASE \E r \in Requests, i \in Ids, e \in Employees, l \in Locations, window \in Hours :
             AddShift(r, i, e, l, window)
  BY <1>1, AddKeepsOfferInv
<1>2. CASE \E r \in Requests, day \in Days, duration \in Durations, e \in Employees \cup {Nil},
              l \in Locations \cup {Nil} : Availability(r, day, duration, e, l)
  BY <1>2, AskKeepsOfferInv
<1>3. CASE \E r \in Requests : ReadStaff(r) \/ ReadJobs(r)
  BY <1>3, ReadKeepsOfferInv
<1>4. CASE \/ \E r \in Requests : Create(r) \/ Finish(r)
           \/ \E i \in Ids : DeleteShift(i)
           \/ JobsChange \/ StaffChange \/ Tick \/ UNCHANGED vars
  BY <1>4, QuietKeepsOfferInv
<1>5. QED
  BY <1>1, <1>2, <1>3, <1>4 DEF Next

\* Every answer is made of the shifts and the bookings that were read for it.
THEOREM Offering == Spec => []OfferInv
<1>1. OfferInv /\ [Next]_vars => OfferInv'
  BY NextKeepsOfferInv
<1>2. QED
  BY <1>1, InitOffer, PTL DEF Spec

\* An answer about a day stays in that day, with any interleaving.
THEOREM AnswersStayInTheDay == Spec => []SlotsInTheDay
<1>1. OfferInv => SlotsInTheDay
  BY DEF OfferInv, OffersSound, SlotSound, SlotsInTheDay, Asking
<1>2. QED
  BY <1>1, Offering, PTL

\* A slot of an answer that still stands passes the test made at booking.
LEMMA SoundIsBookable == OfferInv => OffersAreBookable
<1> SUFFICES ASSUME OfferInv, NEW r \in Requests, Asking(r, "answer"),
                    reqs[r].shifts \subseteq Roster,
                    reqs[r].jobs = DayJobs(reqs[r].day, {sh.employee : sh \in reqs[r].shifts}),
                    NEW a \in reqs[r].slots
             PROVE  Accepts(a)
  BY DEF OffersAreBookable
<1>1. TypeOK /\ a \in Slot /\ SlotSound(r, a) /\ reqs[r].day \in Days
  BY BusyIsRequest DEF OfferInv, OffersSound, Asking
<1>2. PICK sh \in reqs[r].shifts :
        /\ a.employee = sh.employee /\ a.location = sh.location
        /\ sh.start <= a.start /\ a.end <= sh.end
  BY <1>1 DEF SlotSound
<1>3. sh \in Roster /\ sh \in Shift
  BY <1>1, <1>2, RosterIsShifts
<1>4. Listed(sh, a)
  BY <1>1, <1>2, <1>3 DEF Listed, Overlaps, Shift, Slot, SlotSound
<1>5. ASSUME NEW j \in jobs, j.employee = a.employee, Overlaps(j, a)
      PROVE  FALSE
  <2>1. j \in Work
    BY <1>1, ConfigAssumption DEF TypeOK
  <2>2. Overlaps(j, Day(reqs[r].day))
    BY <1>1, <1>5, <2>1, DayTyped DEF SlotSound, Overlaps, Work, Slot
  <2>3. j \in reqs[r].jobs
    BY <1>2, <1>5, <2>2 DEF DayJobs
  <2>4. QED
    BY <1>1, <1>5, <2>3 DEF SlotSound, Overlaps
<1>6. a.start < a.end
  BY <1>1 DEF SlotSound
<1>7. QED
  BY <1>2, <1>3, <1>4, <1>5, <1>6 DEF Accepts, FitsInShift, RosterCovers, OverlapsAny

\* Reading a whole day and reading one job come to the same: what is offered is
\* accepted while the roster and the bookings stand.
THEOREM OffersStand == Spec => []OffersAreBookable
BY Offering, SoundIsBookable, PTL
------------------------------------------------------------------------------
(* The roster, when AddShift requests for one employee do not overlap.     *)

\* The shifts of one person in a set are apart.
Apart(S) == \A x, y \in S : x.employee = y.employee => x = y \/ ~Overlaps(x, y)

\* An insertion that is still to come will fit.
AddsFit ==
  /\ \A r \in Requests :
       Adding(r) =>
         /\ ~Stored(reqs[r].id)
         /\ \A i \in Ids :
              Stored(i) /\ shifts[i].employee = reqs[r].shift.employee
                => ~Overlaps(shifts[i], reqs[r].shift)
  /\ \A r, q \in Requests :
       r # q /\ Adding(r) /\ Adding(q) =>
         /\ reqs[r].id # reqs[q].id
         /\ reqs[r].shift.employee # reqs[q].shift.employee

ReadsApart == \A r \in Requests : ~Idle(r) /\ reqs[r].op = "ask" => Apart(reqs[r].shifts)

RosterInv == TypeOK /\ RostersApart /\ AddsFit /\ ReadsApart

LEMMA OverlapsBothWays ==
  ASSUME NEW x \in Shift, NEW y \in Shift, ~Overlaps(x, y)
  PROVE  ~Overlaps(y, x)
BY DEF Overlaps, Shift

LEMMA RosterApart ==
  ASSUME TypeOK, RostersApart
  PROVE  Apart(Roster)
BY DEF Apart, Roster, RostersApart

LEMMA InitRoster == Init => RosterInv
<1> SUFFICES ASSUME Init
             PROVE  RosterInv
  OBVIOUS
<1>1. TypeOK
  BY InitOffer DEF OfferInv
<1>2. QED
  BY <1>1 DEF Init, RosterInv, RostersApart, AddsFit, ReadsApart, Stored, Adding, Idle

\* The list AddShift reads says exactly that its shift will fit.
LEMMA AddKeepsRoster ==
  ASSUME OneAddAtATime, RosterInv, TypeOK',
         NEW r \in Requests, NEW i \in Ids, NEW e \in Employees, NEW l \in Locations,
         NEW window \in Hours, AddShift(r, i, e, l, window)
  PROVE  RosterInv'
<1> DEFINE sh == [employee |-> e, location |-> l, start |-> window.start, end |-> window.end]
<1>1. /\ TypeOK /\ Idle(r) /\ ~Stored(i) /\ UNCHANGED shifts
      /\ reqs' = [reqs EXCEPT ![r] = [op |-> "add", id |-> i, shift |-> sh]]
      /\ \A q \in Requests : Adding(q) => reqs[q].id # i /\ reqs[q].shift.employee # e
  BY DEF RosterInv, AddShift
<1>2. \A k \in Ids : Stored(k) /\ shifts[k].employee = e => ~Overlaps(shifts[k], sh)
  BY DEF AddShift, Roster, Listed, Overlaps
<1>3. sh.employee = e
  OBVIOUS
<1> HIDE DEF sh
<1>4. /\ reqs'[r] = [op |-> "add", id |-> i, shift |-> sh]
      /\ \A q \in Requests \ {r} : reqs'[q] = reqs[q]
  BY <1>1 DEF TypeOK
<1>5. reqs'[r].op = "add" /\ reqs'[r].id = i /\ reqs'[r].shift = sh
  BY <1>4
<1>6. \A k \in Ids : Stored(k)' <=> Stored(k)
  BY <1>1 DEF Stored
<1>7. \A q \in Requests \ {r} : Adding(q)' <=> Adding(q)
  BY <1>4 DEF Adding, Idle
<1>8. RostersApart'
  BY <1>1, <1>6 DEF RosterInv, RostersApart
<1>9. AddsFit'
  <2>1. ASSUME NEW q \in Requests, Adding(q)'
        PROVE  /\ shifts'[reqs'[q].id] = Nil
               /\ \A k \in Ids :
                    Stored(k)' /\ shifts'[k].employee = reqs'[q].shift.employee
                      => ~Overlaps(shifts'[k], reqs'[q].shift)
    <3>1. CASE q = r
      BY <1>1, <1>2, <1>3, <1>5, <1>6, <3>1 DEF Stored
    <3>2. CASE q # r
      BY <1>1, <1>4, <1>7, <2>1, <3>2 DEF RosterInv, AddsFit, Stored
    <3>3. QED
      BY <3>1, <3>2
  <2>2. ASSUME NEW p \in Requests, NEW q \in Requests, p # q, Adding(p)', Adding(q)'
        PROVE  /\ reqs'[p].id # reqs'[q].id
               /\ reqs'[p].shift.employee # reqs'[q].shift.employee
    <3>1. CASE p = r
      BY <1>1, <1>3, <1>4, <1>5, <1>7, <2>2, <3>1
    <3>2. CASE q = r
      BY <1>1, <1>3, <1>4, <1>5, <1>7, <2>2, <3>2
    <3>3. CASE p # r /\ q # r
      BY <1>4, <1>7, <2>2, <3>3 DEF RosterInv, AddsFit
    <3>4. QED
      BY <3>1, <3>2, <3>3
  <2>3. QED
    BY <2>1, <2>2 DEF AddsFit, Stored
<1>10. ReadsApart'
  BY <1>4, <1>5 DEF RosterInv, ReadsApart, Idle
<1>11. QED
  BY <1>8, <1>9, <1>10 DEF RosterInv

LEMMA CreateKeepsRoster ==
  ASSUME RosterInv, TypeOK', NEW r \in Requests, Create(r)
  PROVE  RosterInv'
<1> DEFINE i == reqs[r].id
           sh == reqs[r].shift
<1>1. /\ TypeOK /\ Adding(r) /\ i \in Ids /\ sh \in Shift /\ ~Stored(i)
      /\ shifts' = [shifts EXCEPT ![i] = sh] /\ reqs' = [reqs EXCEPT ![r] = Nil]
  BY BusyIsRequest DEF RosterInv, AddsFit, Create, Adding, Done
<1>2. \A k \in Ids : Stored(k) => shifts[k] \in Shift
  BY <1>1 DEF TypeOK, Stored
<1>3. \A k \in Ids : Stored(k) /\ shifts[k].employee = sh.employee => ~Overlaps(shifts[k], sh)
  BY <1>1 DEF RosterInv, AddsFit
<1>4. \A q \in Requests \ {r} :
        Adding(q) => reqs[q].id # i /\ reqs[q].shift.employee # sh.employee
  BY <1>1 DEF RosterInv, AddsFit
<1>5. \A q \in Requests \ {r} : Adding(q) => reqs[q].shift \in Shift
  BY <1>1, BusyIsRequest DEF Adding
<1> HIDE DEF i, sh
<1>6. /\ shifts'[i] = sh /\ \A k \in Ids \ {i} : shifts'[k] = shifts[k]
      /\ reqs'[r] = Nil /\ \A q \in Requests \ {r} : reqs'[q] = reqs[q]
  BY <1>1 DEF TypeOK
<1>7. RostersApart'
  <2>1. ASSUME NEW j \in Ids, NEW k \in Ids, j # k, Stored(j)', Stored(k)',
               shifts'[j].employee = shifts'[k].employee
        PROVE  ~Overlaps(shifts'[j], shifts'[k])
    <3>1. CASE j = i
      BY <1>1, <1>2, <1>3, <1>6, <2>1, <3>1, OverlapsBothWays DEF Stored
    <3>2. CASE k = i
      BY <1>1, <1>2, <1>3, <1>6, <2>1, <3>2 DEF Stored
    <3>3. CASE j # i /\ k # i
      BY <1>6, <2>1, <3>3 DEF RosterInv, RostersApart, Stored
    <3>4. QED
      BY <3>1, <3>2, <3>3
  <2>2. QED
    BY <2>1 DEF RostersApart
<1>8. AddsFit'
  <2>1. \A q \in Requests : Adding(q)' => q # r /\ Adding(q) /\ reqs'[q] = reqs[q]
    BY <1>6 DEF Adding, Idle
  <2>2. ASSUME NEW q \in Requests, Adding(q)'
        PROVE  /\ shifts'[reqs'[q].id] = Nil
               /\ \A k \in Ids :
                    Stored(k)' /\ shifts'[k].employee = reqs'[q].shift.employee
                      => ~Overlaps(shifts'[k], reqs'[q].shift)
    <3>1. q # r /\ Adding(q) /\ reqs'[q] = reqs[q] /\ reqs[q].id \in Ids
      BY <1>1, <2>1, <2>2, BusyIsRequest DEF Adding
    <3>2. /\ ~Stored(reqs[q].id)
          /\ \A k \in Ids : Stored(k) /\ shifts[k].employee = reqs[q].shift.employee
                              => ~Overlaps(shifts[k], reqs[q].shift)
      BY <3>1 DEF RosterInv, AddsFit
    <3>3. reqs[q].id # i /\ reqs[q].shift.employee # sh.employee
      BY <1>4, <3>1
    <3>4. QED
      BY <1>6, <3>1, <3>2, <3>3 DEF Stored
  <2>3. QED
    BY <2>1, <2>2 DEF RosterInv, AddsFit, Stored
<1>9. ReadsApart'
  BY <1>6 DEF RosterInv, ReadsApart, Idle
<1>10. QED
  BY <1>7, <1>8, <1>9 DEF RosterInv

LEMMA AskKeepsRoster ==
  ASSUME RosterInv, TypeOK', NEW r \in Requests, NEW day \in Days, NEW duration \in Durations,
         NEW e \in Employees \cup {Nil}, NEW l \in Locations \cup {Nil},
         Availability(r, day, duration, e, l)
  PROVE  RosterInv'
<1>1. TypeOK /\ Idle(r) /\ UNCHANGED shifts
  BY DEF RosterInv, Availability
<1>2. PICK read \in SUBSET Roster :
        /\ reqs'[r].op = "ask" /\ reqs'[r].shifts = read
        /\ \A q \in Requests \ {r} : reqs'[q] = reqs[q]
  <2> DEFINE read == {sh \in Roster :
                        /\ Listed(sh, Day(day))
                        /\ e # Nil => sh.employee = e
                        /\ l # Nil => sh.location = l}
             new == [op |-> "ask", at |-> IF read = {} THEN "answer" ELSE "staff",
                     day |-> day, duration |-> duration, shifts |-> read,
                     staff |-> {}, jobs |-> {}, slots |-> {}]
  <2>1. reqs' = [reqs EXCEPT ![r] = new]
    BY DEF Availability
  <2>2. read \in SUBSET Roster /\ new.op = "ask" /\ new.shifts = read
    OBVIOUS
  <2> HIDE DEF new, read
  <2>3. QED
    BY <1>1, <2>1, <2>2 DEF TypeOK
<1>3. Apart(read)
  BY <1>1, RosterApart DEF RosterInv, Apart
<1>4. \A q \in Requests : Adding(q)' => q # r /\ Adding(q) /\ reqs'[q] = reqs[q]
  BY <1>2 DEF Adding, Idle
<1>5. RostersApart' /\ AddsFit'
  BY <1>1, <1>4 DEF RosterInv, RostersApart, AddsFit, Stored
<1>6. ReadsApart'
  BY <1>2, <1>3 DEF RosterInv, ReadsApart, Idle
<1>7. QED
  BY <1>5, <1>6 DEF RosterInv

\* Everything else takes shifts away, ends handlers or leaves both alone.
LEMMA QuietKeepsRoster ==
  ASSUME RosterInv, TypeOK',
         \/ \E r \in Requests : ReadStaff(r) \/ ReadJobs(r) \/ Finish(r)
         \/ \E i \in Ids : DeleteShift(i)
         \/ JobsChange \/ StaffChange \/ Tick \/ UNCHANGED vars
  PROVE  RosterInv'
<1>1. TypeOK
  BY DEF RosterInv
<1>2. \A i \in Ids : shifts'[i] = shifts[i] \/ shifts'[i] = Nil
  BY <1>1 DEF TypeOK, ReadStaff, ReadJobs, Finish, DeleteShift, JobsChange, StaffChange, Tick, vars
<1>3. \A q \in Requests :
        \/ reqs'[q] = reqs[q] \/ reqs'[q] = Nil
        \/ /\ ~Idle(q) /\ reqs[q].op = "ask" /\ reqs'[q].op = "ask"
           /\ reqs'[q].shifts = reqs[q].shifts
  <2>1. CASE \E r \in Requests : ReadStaff(r)
    <3>1. PICK r \in Requests : ReadStaff(r)
      BY <2>1
    <3>2. reqs[r] \in Request /\ reqs[r].op = "ask" /\ ~Idle(r)
      BY <1>1, <3>1, BusyIsRequest DEF ReadStaff, Asking
    <3>3. QED
      BY <1>1, <3>1, <3>2 DEF ReadStaff, TypeOK, Request
  <2>2. CASE \E r \in Requests : ReadJobs(r)
    <3>1. PICK r \in Requests : ReadJobs(r)
      BY <2>2
    <3>2. reqs[r] \in Request /\ reqs[r].op = "ask" /\ ~Idle(r)
      BY <1>1, <3>1, BusyIsRequest DEF ReadJobs, Asking
    <3>3. PICK booked, slots :
            reqs' = [reqs EXCEPT ![r].at = "answer", ![r].jobs = booked, ![r].slots = slots]
      BY <3>1 DEF ReadJobs
    <3>4. QED
      BY <1>1, <3>2, <3>3 DEF TypeOK, Request
  <2>3. CASE \/ \E r \in Requests : Finish(r)
             \/ \E i \in Ids : DeleteShift(i)
             \/ JobsChange \/ StaffChange \/ Tick \/ UNCHANGED vars
    BY <1>1, <2>3 DEF TypeOK, Finish, Done, DeleteShift, JobsChange, StaffChange, Tick, vars
  <2>4. QED
    BY <2>1, <2>2, <2>3
<1>4. \A q \in Requests : Adding(q)' => Adding(q) /\ reqs'[q] = reqs[q]
  BY <1>3 DEF Adding, Idle
<1>5. \A i \in Ids : Stored(i)' => Stored(i) /\ shifts'[i] = shifts[i]
  BY <1>2 DEF Stored
<1>6. RostersApart'
  BY <1>5 DEF RosterInv, RostersApart
<1>7. AddsFit'
  <2>1. \A q \in Requests : Adding(q)' => reqs[q].id \in Ids
    BY <1>1, <1>4, BusyIsRequest DEF Adding
  <2>2. \A q \in Requests : Adding(q)' => shifts'[reqs'[q].id] = Nil
    BY <1>4, <1>5, <2>1 DEF RosterInv, AddsFit, Stored
  <2>3. QED
    BY <1>4, <1>5, <2>2 DEF RosterInv, AddsFit, Stored
<1>8. ReadsApart'
  BY <1>3 DEF RosterInv, ReadsApart, Idle
<1>9. QED
  BY <1>6, <1>7, <1>8 DEF RosterInv

LEMMA NextKeepsRoster ==
  ASSUME OneAddAtATime, RosterInv, TypeOK', [Next]_vars
  PROVE  RosterInv'
<1>1. CASE \E r \in Requests, i \in Ids, e \in Employees, l \in Locations, window \in Hours :
             AddShift(r, i, e, l, window)
  BY <1>1, AddKeepsRoster
<1>2. CASE \E r \in Requests : Create(r)
  BY <1>2, CreateKeepsRoster
<1>3. CASE \E r \in Requests, day \in Days, duration \in Durations, e \in Employees \cup {Nil},
              l \in Locations \cup {Nil} : Availability(r, day, duration, e, l)
  BY <1>3, AskKeepsRoster
<1>4. CASE \/ \E r \in Requests : ReadStaff(r) \/ ReadJobs(r) \/ Finish(r)
           \/ \E i \in Ids : DeleteShift(i)
           \/ JobsChange \/ StaffChange \/ Tick \/ UNCHANGED vars
  BY <1>4, QuietKeepsRoster
<1>5. QED
  BY <1>1, <1>2, <1>3, <1>4 DEF Next

\* The roster as a whole, for AddShift requests of one employee that take turns.
THEOREM Rostering == OneAddAtATime => (Spec => []RosterInv)
<1> SUFFICES ASSUME OneAddAtATime
             PROVE  Spec => []RosterInv
  OBVIOUS
<1>1. OfferInv => TypeOK
  BY DEF OfferInv
<1>2. RosterInv /\ TypeOK' /\ [Next]_vars => RosterInv'
  BY NextKeepsRoster
<1>3. QED
  BY <1>1, <1>2, InitRoster, Offering, PTL DEF Spec

\* "One person cannot be in two places at once", from that assumption.
THEOREM ShiftsStayApart == OneAddAtATime => (Spec => []RostersApart)
<1>1. RosterInv => RostersApart
  BY DEF RosterInv
<1>2. QED
  BY <1>1, Rostering, PTL

\* Nobody is offered at two sites at once in one answer, from that assumption.
THEOREM OneSiteOffered == OneAddAtATime => (Spec => []OneSiteAtATime)
<1>1. ASSUME RosterInv, OfferInv
      PROVE  OneSiteAtATime
  <2> SUFFICES ASSUME NEW r \in Requests, Asking(r, "answer"),
                      NEW a \in reqs[r].slots, NEW b \in reqs[r].slots,
                      a.employee = b.employee, Overlaps(a, b)
               PROVE  a.location = b.location
    BY DEF OneSiteAtATime
  <2>1. /\ TypeOK /\ ~Idle(r) /\ reqs[r].op = "ask" /\ reqs[r].shifts \in SUBSET Shift
        /\ a \in Slot /\ b \in Slot /\ SlotSound(r, a) /\ SlotSound(r, b)
        /\ Apart(reqs[r].shifts)
    BY <1>1, BusyIsRequest DEF OfferInv, OffersSound, RosterInv, ReadsApart, Asking
  <2>2. PICK x \in reqs[r].shifts :
          /\ a.employee = x.employee /\ a.location = x.location
          /\ x.start <= a.start /\ a.end <= x.end
    BY <2>1 DEF SlotSound
  <2>3. PICK y \in reqs[r].shifts :
          /\ b.employee = y.employee /\ b.location = y.location
          /\ y.start <= b.start /\ b.end <= y.end
    BY <2>1 DEF SlotSound
  <2>4. Overlaps(x, y)
    BY <2>1, <2>2, <2>3 DEF Overlaps, Shift, Slot
  <2>5. x = y
    BY <2>1, <2>2, <2>3, <2>4 DEF Apart
  <2>6. QED
    BY <2>2, <2>3, <2>5
<1>2. QED
  BY <1>1, Rostering, Offering, PTL
==============================================================================
