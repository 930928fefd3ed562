------------------------------- MODULE Schedule -------------------------------
(***************************************************************************)
(* The roster and the availability derived from it:                        *)
(* internal/service/schedule_service.go over                               *)
(* internal/repository/shift_repo.go.                                      *)
(*                                                                         *)
(* AddShift lists, then inserts; nothing but the list keeps two shifts of  *)
(* one person apart.  Availability reads the roster, the accounts and the  *)
(* bookings one after the other and answers from the three, while all of   *)
(* them go on changing.                                                    *)
(***************************************************************************)
EXTENDS Slots

CONSTANTS
  Ids,          \* ObjectIDs of shifts; one that was deleted is used again
  Requests,     \* handlers that can be running at one time
  Employees,
  Locations,
  Hours,        \* the windows a manager asks for, inverted ones too
  MaxShift,     \* maxShiftHours, in units of the clock
  JobInputs,    \* bookings there can be: [employee, start, end]
  Durations,    \* of the services on offer
  SlotStep,
  MaxSlots,     \* maxSlotsPerShift
  DayLength,    \* units of the clock in a calendar day
  Days,         \* the days asked about
  Horizon,      \* bound: the last instant of the clock
  OneAddAtATime,\* whether AddShift requests for one employee never overlap
  Nil           \* no shift, no request, no filter

Shift == [employee : Employees, location : Locations, start : Nat, end : Nat]

Work == [employee : Employees, start : Nat, end : Nat]

\* One line of an answer: an employee, a site, and when the job would be.
Slot == [employee : Employees, location : Locations, start : Nat, end : Nat]

Request ==
  [op : {"add"}, id : Ids, shift : Shift]
    \cup [op : {"ask"}, at : {"staff", "jobs", "answer"}, day : Days, duration : Durations,
          shifts : SUBSET Shift, staff : SUBSET Employees, jobs : SUBSET Work,
          slots : SUBSET Slot]

ASSUME NilAssumption ==
  /\ Nil \notin Shift
  /\ Nil \notin Request
  /\ Nil \notin Employees
  /\ Nil \notin Locations

ASSUME ConfigAssumption ==
  /\ Hours \subseteq Interval
  /\ MaxShift \in Nat \ {0}
  /\ JobInputs \subseteq Work
  /\ Durations \subseteq Nat \ {0}
  /\ SlotStep \in Nat \ {0}
  /\ MaxSlots \in Nat \ {0}
  /\ DayLength \in Nat \ {0}
  /\ Days \subseteq Nat
  /\ Horizon \in Nat
  /\ OneAddAtATime \in BOOLEAN

VARIABLES
  shifts,       \* the collection: Ids to Shift, or Nil
  staff,        \* the employees whose account is active
  jobs,         \* the blocking bookings, as module Reservations keeps them
  now,
  reqs          \* the handlers: Requests to Request, or Nil when idle

vars == <<shifts, staff, jobs, now, reqs>>

TypeOK ==
  /\ shifts \in [Ids -> Shift \cup {Nil}]
  /\ staff \in SUBSET Employees
  /\ jobs \in SUBSET JobInputs
  /\ now \in 0 .. Horizon
  /\ reqs \in [Requests -> Request \cup {Nil}]

Init ==
  /\ shifts = [i \in Ids |-> Nil]
  /\ staff = Employees
  /\ jobs = {}
  /\ now = 0
  /\ reqs = [r \in Requests |-> Nil]

Stored(i) == shifts[i] # Nil

Roster == {shifts[i] : i \in {k \in Ids : Stored(k)}}

Idle(r) == reqs[r] = Nil

Adding(r) == ~Idle(r) /\ reqs[r].op = "add"

Asking(r, at) == ~Idle(r) /\ reqs[r].op = "ask" /\ reqs[r].at = at

Done(r) == reqs' = [reqs EXCEPT ![r] = Nil]

\* The definitions named ...Fault are the mistakes the checks are tried
\* against: none of them is used by the specification.

\* A shift is listed on the day it starts.
ListedFault(sh, window) == window.start <= sh.start /\ sh.start < window.end

\* ShiftRepo.List: the shifts that overlap the window.
Listed(sh, window) == Overlaps(sh, window)

------------------------------------------------------------------------------
(* The roster.                                                             *)

AddShift(r, i, e, l, window) ==
  /\ Idle(r)
  /\ ~Stored(i)
  /\ \A q \in Requests : Adding(q) =>
       /\ reqs[q].id # i
       /\ OneAddAtATime => reqs[q].shift.employee # e
  /\ window.start < window.end
  /\ window.end - window.start <= MaxShift
  /\ e \in staff
  /\ ~\E sh \in Roster : sh.employee = e /\ Listed(sh, window)
  /\ reqs' = [reqs EXCEPT ![r] =
       [op |-> "add", id |-> i,
        shift |-> [employee |-> e, location |-> l, start |-> window.start, end |-> window.end]]]
  /\ UNCHANGED <<shifts, staff, jobs, now>>

\* ShiftRepo.Create: there is no index that could refuse it.
Create(r) ==
  /\ Adding(r)
  /\ shifts' = [shifts EXCEPT ![reqs[r].id] = reqs[r].shift]
  /\ Done(r)
  /\ UNCHANGED <<staff, jobs, now>>

\* Whatever is booked on it, a shift can go.
DeleteShift(i) ==
  /\ Stored(i)
  /\ shifts' = [shifts EXCEPT ![i] = Nil]
  /\ UNCHANGED <<staff, jobs, now, reqs>>

------------------------------------------------------------------------------
(* Availability.                                                           *)

\* DayRange.
Day(day) == [start |-> day * DayLength, end |-> (day + 1) * DayLength]

\* The first read: the day's roster, narrowed to one person or one site if the
\* customer asked for it.  An empty roster is an empty answer.
Availability(r, day, duration, e, l) ==
  /\ Idle(r)
  /\ LET read == {sh \in Roster :
                    /\ Listed(sh, Day(day))
                    /\ e # Nil => sh.employee = e
                    /\ l # Nil => sh.location = l}
     IN  reqs' = [reqs EXCEPT ![r] =
           [op |-> "ask", at |-> IF read = {} THEN "answer" ELSE "staff",
            day |-> day, duration |-> duration, shifts |-> read,
            staff |-> {}, jobs |-> {}, slots |-> {}]]
  /\ UNCHANGED <<shifts, staff, jobs, now>>

\* FindManyByIDs, and the test that drops whoever is no longer an active
\* employee.
ReadStaff(r) ==
  /\ Asking(r, "staff")
  /\ reqs' = [reqs EXCEPT ![r].at = "jobs",
                          ![r].staff = {e \in staff : \E sh \in reqs[r].shifts : sh.employee = e}]
  /\ UNCHANGED <<shifts, staff, jobs, now>>

\* Only a job that starts in the day is read.
DayJobsFault(day, rostered) ==
  {j \in jobs : j.employee \in rostered /\ Day(day).start <= j.start /\ j.start < Day(day).end}

\* ListBlockingForEmployees over the day.
DayJobs(day, rostered) ==
  {j \in jobs : j.employee \in rostered /\ Overlaps(j, Day(day))}

\* The shift itself, whatever the day.
WindowFault(sh, day) == [start |-> sh.start, end |-> sh.end]

\* The part of a shift that lies in the day: maxTime and minTime.
Window(sh, day) ==
  [start |-> IF sh.start > Day(day).start THEN sh.start ELSE Day(day).start,
   end   |-> IF sh.end < Day(day).end THEN sh.end ELSE Day(day).end]

\* The answer to request r, from the bookings it has just read.
Offered(r, booked) ==
  LET ask == reqs[r]
      busy(e) == {[start |-> j.start, end |-> j.end] : j \in {j \in booked : j.employee = e}}
      starts(sh) == FreeSlots(Window(sh, ask.day), busy(sh.employee), ask.duration,
                              SlotStep, now, MaxSlots)
  IN  UNION {{[employee |-> sh.employee, location |-> sh.location,
               start |-> t, end |-> t + ask.duration] : t \in starts(sh)} :
             sh \in {sh \in ask.shifts : sh.employee \in ask.staff}}

ReadJobs(r) ==
  /\ Asking(r, "jobs")
  /\ LET booked == DayJobs(reqs[r].day, {sh.employee : sh \in reqs[r].shifts})
     IN  reqs' = [reqs EXCEPT ![r].at = "answer", ![r].jobs = booked,
                              ![r].slots = Offered(r, booked)]
  /\ UNCHANGED <<shifts, staff, jobs, now>>

\* The page is closed, or an insertion that never happened.
Finish(r) ==
  /\ Asking(r, "answer") \/ Adding(r)
  /\ Done(r)
  /\ UNCHANGED <<shifts, staff, jobs, now>>

------------------------------------------------------------------------------
(* The rest of the service, between two reads.                             *)

JobsChange ==
  /\ \E j \in JobInputs : jobs' = IF j \in jobs THEN jobs \ {j} ELSE jobs \cup {j}
  /\ UNCHANGED <<shifts, staff, now, reqs>>

StaffChange ==
  /\ \E e \in Employees : staff' = IF e \in staff THEN staff \ {e} ELSE staff \cup {e}
  /\ UNCHANGED <<shifts, jobs, now, reqs>>

Tick ==
  /\ now < Horizon
  /\ now' = now + 1
  /\ UNCHANGED <<shifts, staff, jobs, reqs>>

Next ==
  \/ \E r \in Requests :
       \/ Create(r) \/ ReadStaff(r) \/ ReadJobs(r) \/ Finish(r)
       \/ \E i \in Ids, e \in Employees, l \in Locations, window \in Hours :
            AddShift(r, i, e, l, window)
       \/ \E day \in Days, duration \in Durations, e \in Employees \cup {Nil},
             l \in Locations \cup {Nil} : Availability(r, day, duration, e, l)
  \/ \E i \in Ids : DeleteShift(i)
  \/ JobsChange \/ StaffChange \/ Tick

Spec == Init /\ [][Next]_vars

------------------------------------------------------------------------------
(* What the roster and the answers promise.                                *)

\* AddShift: "One person cannot be in two places at once".  No two shifts of one
\* employee overlap, wherever they are and whatever midnight they cross.
RostersApart ==
  \A i, k \in Ids :
    i # k /\ Stored(i) /\ Stored(k) /\ shifts[i].employee = shifts[k].employee
      => ~Overlaps(shifts[i], shifts[k])

\* What AddShift says a bad roster would produce: nobody is offered at two sites
\* at once in one answer.
OneSiteAtATime ==
  \A r \in Requests :
    Asking(r, "answer") =>
      \A a, b \in reqs[r].slots :
        a.employee = b.employee /\ Overlaps(a, b) => a.location = b.location

\* An answer about a day is about that day, although shifts run past midnight
\* ("so 'today' never offers tomorrow morning off the back of an overnight
\* shift").
SlotsInTheDay ==
  \A r \in Requests :
    Asking(r, "answer") =>
      \A a \in reqs[r].slots :
        Day(reqs[r].day).start <= a.start /\ a.end <= Day(reqs[r].day).end

\* What assertFree reads for one job: see Rostered and Taken of Reservations.
Accepts(slot) ==
  FitsInShift({sh \in Roster : /\ sh.employee = slot.employee
                               /\ sh.location = slot.location
                               /\ Listed(sh, slot)},
              {j \in jobs : j.employee = slot.employee /\ Overlaps(j, slot)},
              slot)

\* While the roster and the bookings are still what the answer was made from,
\* booking any slot of it passes assertFree: reading a whole day and reading one
\* job come to the same.
OffersAreBookable ==
  \A r \in Requests :
    /\ Asking(r, "answer")
    /\ reqs[r].shifts \subseteq Roster
    /\ reqs[r].jobs = DayJobs(reqs[r].day, {sh.employee : sh \in reqs[r].shifts})
    => \A a \in reqs[r].slots : Accepts(a)
==============================================================================
