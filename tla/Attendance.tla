----------------------------- MODULE Attendance -----------------------------
(***************************************************************************)
(* The time clock of one business: ClockIn and ClockOut of                 *)
(* internal/service/attendance_service.go over                             *)
(* internal/repository/time_entry_repo.go.                                 *)
(*                                                                         *)
(* A handler reads, then writes once.  ClockIn trusts the index on         *)
(* open_key to refuse a second entry; ClockOut repeats the condition "still*)
(* open" in the filter of its update, because the entry it read may have   *)
(* been closed, and another opened, by the time it writes.                 *)
(***************************************************************************)
EXTENDS Integers

CONSTANTS
  Ids,          \* ObjectIDs of time entries, each given out once
  Requests,     \* handlers that can be running at one time
  Employees,
  Locations,
  Distances,    \* how far from the site a phone can be, in half metres
  Radii,        \* geofence radii a location can be given, in half metres
  Horizon,      \* bound: the last instant of the clock
  PerMinute,    \* instants of the clock in a minute
  Nil           \* no row, no key, no time; as a distance, no GPS fix

Times == 1 .. Horizon

\* OpenKey of models/keys.go: present while the entry is running.
OpenKey(e) == <<e>>

\* models.TimeEntry.  Distances are kept in whole metres; outDistance is -1 when
\* it could not be measured.
Entry == [employee : Employees, location : Locations,
          in : Times, inDistance : Nat, key : {OpenKey(e) : e \in Employees} \cup {Nil},
          out : Times \cup {Nil}, outDistance : Nat \cup {-1, Nil}, worked : Nat]

Site == [active : BOOLEAN, radius : Radii]

\* A handler between its reads and its write.
Request ==
  [op : {"in"}, id : Ids, entry : Entry]
    \cup [op : {"out"}, id : Ids, at : Times, distance : Nat \cup {-1}, worked : Nat]

ASSUME NilAssumption ==
  /\ Nil \notin Times
  /\ Nil \notin Distances
  /\ Nil \notin Entry
  /\ Nil \notin Request
  /\ Nil \notin {OpenKey(e) : e \in Employees}
  /\ Nil \notin [entry : Ids, since : Times]
  /\ Nil \notin [employee : Employees, minutes : Nat]

ASSUME ConfigAssumption ==
  /\ Horizon \in Nat \ {0}
  /\ PerMinute \in Nat \ {0}
  /\ Distances \subseteq Nat
  /\ Radii \subseteq Nat

VARIABLES
  entries,      \* the collection: Ids to Entry, or Nil
  reqs,         \* the handlers: Requests to Request, or Nil when idle
  now,
  sites         \* Locations to Site

vars == <<entries, reqs, now, sites>>

TypeOK ==
  /\ entries \in [Ids -> Entry \cup {Nil}]
  /\ reqs \in [Requests -> Request \cup {Nil}]
  /\ now \in Times
  /\ sites \in [Locations -> Site]

Init ==
  /\ entries = [i \in Ids |-> Nil]
  /\ reqs = [r \in Requests |-> Nil]
  /\ now = 1
  /\ sites \in [Locations -> {s \in Site : s.active}]

Stored(i) == entries[i] # Nil

\* TimeEntry.Running.
Running(i) == Stored(i) /\ entries[i].out = Nil

Idle(r) == reqs[r] = Nil

Done(r) == reqs' = [reqs EXCEPT ![r] = Nil]

Fresh(i) ==
  /\ ~Stored(i)
  /\ \A q \in Requests : ~Idle(q) => reqs[q].id # i

\* The definitions named ...Fault are the mistakes the checks are tried
\* against: none of them is used by the specification.

\* The clamp left out.
MinutesFault(from, to) == (2 * (to - from) + PerMinute) \div (2 * PerMinute)

\* Whole minutes, rounded to the nearest, and none for a clock that was set
\* back in between.
Minutes(from, to) ==
  IF to < from THEN 0 ELSE (2 * (to - from) + PerMinute) \div (2 * PerMinute)

------------------------------------------------------------------------------
(* The service.                                                            *)

\* math.Round of a distance.
Round(d) == (d + 1) \div 2

\* The site is open and the phone is where the employee says they are.
InFence(l, d) == sites[l].active /\ d <= sites[l].radius

\* The distance as measured decides, the rounded one is kept with the entry.
ClockIn(r, i, e, l, d) ==
  /\ Idle(r) /\ Fresh(i)
  /\ d # Nil
  /\ InFence(l, d)
  /\ reqs' = [reqs EXCEPT ![r] =
       [op |-> "in", id |-> i,
        entry |-> [employee |-> e, location |-> l, in |-> now, inDistance |-> Round(d),
                   key |-> OpenKey(e), out |-> Nil, outDistance |-> Nil, worked |-> 0]]]
  /\ UNCHANGED <<entries, now, sites>>

\* No index was made.
KeyFreeFault(i, key) == TRUE

\* The unique sparse index on open_key, as it meets the insertion of entry i.
KeyFree(i, key) == \A k \in Ids \ {i} : Stored(k) => entries[k].key # key

\* TimeEntryRepo.Create.  A duplicate key is "you are already clocked in".
Create(r) ==
  /\ ~Idle(r)
  /\ reqs[r].op = "in"
  /\ entries' = IF KeyFree(reqs[r].id, reqs[r].entry.key)
                  THEN [entries EXCEPT ![reqs[r].id] = reqs[r].entry]
                  ELSE entries
  /\ Done(r)
  /\ UNCHANGED <<now, sites>>

\* An employee's open entry, by its key.
IsOpenOf(i, e) == Stored(i) /\ entries[i].key = OpenKey(e)

\* FindOpen, the distance, the clock.  Clocking out is not fenced, and a
\* location that cannot be read (d is Nil as for a phone without a fix) is
\* stored as -1.
ClockOut(r, i, e, d) ==
  /\ Idle(r)
  /\ IsOpenOf(i, e)
  /\ reqs' = [reqs EXCEPT ![r] =
       [op |-> "out", id |-> i, at |-> now,
        distance |-> IF d = Nil THEN -1 ELSE Round(d),
        worked |-> Minutes(entries[i].in, now)]]
  /\ UNCHANGED <<entries, now, sites>>

\* The read that found the entry is trusted.
StillOpenFault(i) == Stored(i)

\* The condition Close repeats: {_id, open_key: {$exists: true}}.
StillOpen(i) == Stored(i) /\ entries[i].key # Nil

\* $set of the clock-out half and $unset of open_key, in one write.
Closed(entry, req) ==
  [entry EXCEPT !.key = Nil, !.out = req.at, !.outDistance = req.distance,
                !.worked = req.worked]

\* TimeEntryRepo.Close.  An entry no longer open matches nothing: "you are not
\* clocked in".
Close(r) ==
  /\ ~Idle(r)
  /\ reqs[r].op = "out"
  /\ entries' = IF StillOpen(reqs[r].id)
                  THEN [entries EXCEPT ![reqs[r].id] = Closed(@, reqs[r])]
                  ELSE entries
  /\ Done(r)
  /\ UNCHANGED <<now, sites>>

------------------------------------------------------------------------------

\* Instants are read from the wall clocks of whatever machines run the service:
\* two of them may differ and one may be set back.
ClockMoves ==
  /\ now' \in Times \ {now}
  /\ UNCHANGED <<entries, reqs, sites>>

\* CatalogService.UpdateLocation: the fence is redrawn or the site closed.
SiteChanges ==
  /\ \E l \in Locations, s \in Site : sites' = [sites EXCEPT ![l] = s]
  /\ UNCHANGED <<entries, reqs, now>>

\* A handler that dies before it writes leaves nothing behind.
Abandon(r) ==
  /\ ~Idle(r)
  /\ Done(r)
  /\ UNCHANGED <<entries, now, sites>>

Next ==
  \/ \E r \in Requests :
       \/ Create(r) \/ Close(r) \/ Abandon(r)
       \/ \E i \in Ids, e \in Employees, d \in Distances \cup {Nil} :
            ClockOut(r, i, e, d) \/ \E l \in Locations : ClockIn(r, i, e, l, d)
  \/ ClockMoves \/ SiteChanges

Spec == Init /\ [][Next]_vars

------------------------------------------------------------------------------
(* What the time entries promise.                                          *)

\* At most one entry of an employee runs, although two taps can both pass every
\* check of the service (ClockIn: "two taps arriving together both pass a
\* read-then-write").
OneRunningEntry ==
  \A i, k \in Ids :
    i # k /\ Running(i) /\ Running(k) => entries[i].employee # entries[k].employee

\* Close: the key and the clock-out time make "the entry's open state one fact
\* rather than two that can disagree".
KeyMeansRunning ==
  \A i \in Ids :
    Stored(i) => entries[i].key = IF Running(i) THEN OpenKey(entries[i].employee) ELSE Nil

\* A closed entry is paid for the time between its own two ends, and never for
\* less than nothing, whichever handler closed it and whatever the clock did.
PaidAsMeasured ==
  \A i \in Ids :
    Stored(i) => /\ entries[i].worked >= 0
                 /\ Running(i) => entries[i].worked = 0
                 /\ ~Running(i) => entries[i].worked = Minutes(entries[i].in, entries[i].out)

\* A finished shift is never changed after the fact (the comment on Close).
ClosedIsFinal ==
  [][\A i \in Ids : Stored(i) /\ ~Running(i) => entries'[i] = entries[i]]_entries

\* However the fences are redrawn while someone is clocking in, nobody starts
\* work further away than the widest fence there can be (minGeofenceRadiusM and
\* maxGeofenceRadiusM bound them all), half a metre of rounding apart.
StartedOnSite ==
  \A i \in Ids :
    Stored(i) => \E radius \in Radii : 2 * entries[i].inDistance <= radius + 1

------------------------------------------------------------------------------
(* The atomic promise: see TimeClock.                                      *)

OnClock(e) ==
  IF \E i \in Ids : Running(i) /\ entries[i].employee = e
    THEN LET i == CHOOSE i \in Ids : Running(i) /\ entries[i].employee = e
         IN  [entry |-> i, since |-> entries[i].in]
    ELSE Nil

Sheet(i) ==
  IF Stored(i) /\ ~Running(i)
    THEN [employee |-> entries[i].employee, minutes |-> entries[i].worked]
    ELSE Nil

Clock == INSTANCE TimeClock WITH
  Entries <- Ids,
  Paid    <- [span \in Times \X Times |-> Minutes(span[1], span[2])],
  onClock <- [e \in Employees |-> OnClock(e)],
  sheets  <- [i \in Ids |-> Sheet(i)]

\* Every write of a handler is one step of the time clock.
KeepsTheClock == Clock!Spec
==============================================================================
