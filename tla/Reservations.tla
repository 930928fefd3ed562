---------------------------- MODULE Reservations ----------------------------
(***************************************************************************)
(* The reservations of one business and the HTTP requests that change      *)
(* them: internal/service/reservation_service.go, walkin.go and            *)
(* edit_reservation.go over internal/repository/reservation_repo.go.       *)
(*                                                                         *)
(* MongoDB runs one command at a time and the service uses no              *)
(* transaction, so a handler is a few separate steps: reads that decide,   *)
(* and one write at the end.  Any number of handlers run at once, and      *)
(* whatever another handler writes in between is not seen.  What a handler *)
(* carries from its reads to its write is its entry in reqs.               *)
(***************************************************************************)
EXTENDS Integers, JobStates, Slots

CONSTANTS
  Ids,          \* ObjectIDs of reservations, each given out once
  Requests,     \* handlers that can be running at one time
  Customers,
  Employees,
  Locations,
  Services,
  Prices,       \* prices a service can be given (the bonus goes with it)
  Durations,    \* times a service can be said to take, in units of the clock
  RosterShifts, \* shifts a roster can be made of
  Horizon,      \* bound: the last instant of the clock and of any start
  MaxAhead,     \* MaxBookingDaysAhead, in units of the clock
  Ops,          \* the operations this workload uses
  OneAtATime,   \* whether requests for one reservation never overlap
  Nil           \* no row, no key, no request, the manager as actor

Times == 1 .. Horizon

\* The definitions named ...Fault are the mistakes the checks are tried
\* against: none of them is used by the specification.

SlotKeyFault(e, t) == <<t, e>>

\* SlotKey of models/keys.go: an employee and a start instant.
SlotKey(e, t) == <<e, t>>

Fields == {"customer", "employee", "location", "service", "start", "end",
           "status", "price", "key", "completedAt", "cancelledAt"}

\* models.Reservation.  A stamp of 0 is a nil *time.Time: the clock starts at 1.
Row == [customer : Customers, employee : Employees, location : Locations,
        service : Services, start : Nat, end : Int, status : Statuses,
        price : Prices, key : (Employees \X Nat) \cup {Nil},
        completedAt : Nat, cancelledAt : Nat]

\* A handler between its first read and its write: the row as it wants it
\* (the local variable res) and the fields it is about to set.
Request == [op : Ops, at : {"roster", "taken", "write"}, id : Ids,
            actor : Employees \cup {Nil}, draft : Row, set : SUBSET Fields]

Shift == [employee : Employees, location : Locations, start : Nat, end : Nat]

\* What the price list says of a service.
Offer == [active : BOOLEAN, duration : Durations, price : Prices]

ASSUME NilAssumption ==
  /\ Nil \notin Ids
  /\ Nil \notin Employees
  /\ Nil \notin Row
  /\ Nil \notin Request
  /\ Nil \notin Employees \X Nat
  /\ Nil \notin [status : Statuses, employee : Employees, start : Nat]

ASSUME ConfigAssumption ==
  /\ Horizon \in Nat \ {0}
  /\ MaxAhead \in Nat \ {0}
  /\ Durations \subseteq Nat \ {0}
  /\ RosterShifts \subseteq Shift
  /\ OneAtATime \in BOOLEAN

VARIABLES
  rows,         \* the collection: Ids to Row, or Nil
  reqs,         \* the handlers: Requests to Request, or Nil when idle
  now,
  shifts,       \* the roster, as the schedule service keeps it
  staff,        \* the employees whose account is active
  catalogue,    \* Services to [active, duration, price]
  sites         \* the locations that are open

world == <<shifts, staff, catalogue, sites>>
vars == <<rows, reqs, now, world>>

\* Type correctness: in particular an update leaves a row a row, and what a
\* handler carries to its write is one.
TypeOK ==
  /\ rows \in [Ids -> Row \cup {Nil}]
  /\ reqs \in [Requests -> Request \cup {Nil}]
  /\ now \in Times
  /\ shifts \subseteq RosterShifts
  /\ staff \subseteq Employees
  /\ catalogue \in [Services -> Offer]
  /\ sites \subseteq Locations

Init ==
  /\ rows = [i \in Ids |-> Nil]
  /\ reqs = [r \in Requests |-> Nil]
  /\ now = 1
  /\ shifts = RosterShifts
  /\ staff = Employees
  /\ catalogue \in [Services -> {o \in Offer : o.active}]
  /\ sites = Locations

------------------------------------------------------------------------------
(* The repository.                                                         *)

Stored(i) == rows[i] # Nil

\* No index was made.
KeyFreeFault(i, key) == TRUE

\* The unique sparse index on slot_key, as it meets a write to row i.
KeyFree(i, key) ==
  key = Nil \/ \A k \in Ids \ {i} : Stored(k) => rows[k].key # key

\* $set: the listed fields take the draft's values, the others stay.
Merge(row, draft, set) ==
  [f \in DOMAIN row |-> IF f \in set THEN draft[f] ELSE row[f]]

\* Only open jobs counted as taken.
TakenFault(e, job, exclude) ==
  {[start |-> rows[i].start, end |-> rows[i].end] :
     i \in {k \in Ids \ {exclude} :
              Stored(k) /\ IsOpen(rows[k].status) /\ rows[k].employee = e}}

\* ListBlockingForEmployees, less the row being moved.
Taken(e, job, exclude) ==
  {[start |-> rows[i].start, end |-> rows[i].end] :
     i \in {k \in Ids \ {exclude} :
              /\ Stored(k)
              /\ IsBlocking(rows[k].status)
              /\ rows[k].employee = e
              /\ Overlaps([start |-> rows[k].start, end |-> rows[k].end], job)}}

\* The location left out of the query.
RosteredFault(e, l, job) == {sh \in shifts : sh.employee = e /\ Overlaps(sh, job)}

\* ShiftRepo.List for one employee at one location.
Rostered(e, l, job) ==
  {sh \in shifts : sh.employee = e /\ sh.location = l /\ Overlaps(sh, job)}

Idle(r) == reqs[r] = Nil

Done(r) == reqs' = [reqs EXCEPT ![r] = Nil]

\* primitive.NewObjectID: an identity no row and no other handler has.
Fresh(i) ==
  /\ ~Stored(i)
  /\ \A q \in Requests : ~Idle(q) => reqs[q].id # i

\* A reservation a handler can read; under OneAtATime no other handler has it.
Readable(i) ==
  /\ Stored(i)
  /\ OneAtATime => \A q \in Requests : ~Idle(q) => reqs[q].id # i

Begin(r, op, at, i, actor, draft, set) ==
  reqs' = [reqs EXCEPT ![r] = [op |-> op, at |-> at, id |-> i, actor |-> actor,
                               draft |-> draft, set |-> set]]

\* Which of the three writes a handler ends in.
Inserting(r) == reqs[r].op \in {"book", "walk_in"}

\* A no-show forgotten: its slot is kept.
ReleasingFault(r) ==
  /\ reqs[r].op \in {"cancel", "set_status"}
  /\ reqs[r].draft.status = "cancelled"

Releasing(r) ==
  /\ reqs[r].op \in {"cancel", "set_status"}
  /\ ~IsBlocking(reqs[r].draft.status)

\* InsertOne.  A duplicate key refuses the booking and nothing is kept.
Create(r) ==
  /\ ~Idle(r)
  /\ Inserting(r)
  /\ reqs[r].at = "write"
  /\ rows' = IF KeyFree(reqs[r].id, reqs[r].draft.key)
               THEN [rows EXCEPT ![reqs[r].id] = reqs[r].draft]
               ELSE rows
  /\ Done(r)
  /\ UNCHANGED <<now, world>>

\* UpdateOne with $set, filtered by id alone.
UpdateFields(r) ==
  /\ ~Idle(r)
  /\ ~Inserting(r) /\ ~Releasing(r)
  /\ reqs[r].at = "write"
  /\ LET row == Merge(rows[reqs[r].id], reqs[r].draft, reqs[r].set)
     IN  rows' = IF KeyFree(reqs[r].id, row.key)
                   THEN [rows EXCEPT ![reqs[r].id] = row]
                   ELSE rows
  /\ Done(r)
  /\ UNCHANGED <<now, world>>

\* UpdateOne with $set and $unset of slot_key together.
UpdateAndReleaseSlot(r) ==
  /\ ~Idle(r)
  /\ Releasing(r)
  /\ reqs[r].at = "write"
  /\ LET row == Merge(rows[reqs[r].id], reqs[r].draft, reqs[r].set)
     IN  rows' = [rows EXCEPT ![reqs[r].id] = [row EXCEPT !.key = Nil]]
  /\ Done(r)
  /\ UNCHANGED <<now, world>>

------------------------------------------------------------------------------
(* assertFree: two reads, either of which can end the request.             *)

Job(draft) == [start |-> draft.start, end |-> draft.end]

ReadRoster(r) ==
  /\ ~Idle(r)
  /\ reqs[r].at = "roster"
  /\ LET d == reqs[r].draft
     IN  IF RosterCovers(Rostered(d.employee, d.location, Job(d)), Job(d))
           THEN reqs' = [reqs EXCEPT ![r].at = "taken"]
           ELSE Done(r)
  /\ UNCHANGED <<rows, now, world>>

ReadTaken(r) ==
  /\ ~Idle(r)
  /\ reqs[r].at = "taken"
  /\ LET d == reqs[r].draft
     IN  IF OverlapsAny(Job(d), Taken(d.employee, Job(d), reqs[r].id))
           THEN Done(r)
           ELSE reqs' = [reqs EXCEPT ![r].at = "write"]
  /\ UNCHANGED <<rows, now, world>>

------------------------------------------------------------------------------
(* The handlers, each up to its last read before the write.  A request     *)
(* that is refused changes nothing, so a refusal is no step.  The look-ups *)
(* of other collections made on the way are one step with the first read.  *)

NewRow(c, e, l, s, t, status) ==
  [customer |-> c, employee |-> e, location |-> l, service |-> s,
   start |-> t, end |-> t + catalogue[s].duration, status |-> status,
   price |-> catalogue[s].price, key |-> SlotKey(e, t),
   completedAt |-> 0, cancelledAt |-> 0]

Book(r, i, c, e, l, s, t) ==
  /\ "book" \in Ops
  /\ Idle(r) /\ Fresh(i)
  /\ now < t /\ t <= now + MaxAhead
  /\ catalogue[s].active
  /\ l \in sites
  /\ e \in staff
  /\ Begin(r, "book", "roster", i, Nil, NewRow(c, e, l, s, t, "booked"), Fields)
  /\ UNCHANGED <<rows, now, world>>

\* The desk consults neither the roster nor the other bookings.
RegisterWalkIn(r, i, c, e, l, s) ==
  /\ "walk_in" \in Ops
  /\ Idle(r) /\ Fresh(i)
  /\ catalogue[s].active
  /\ l \in sites
  /\ e \in staff
  /\ Begin(r, "walk_in", "write", i, Nil, NewRow(c, e, l, s, now, "in_progress"), Fields)
  /\ UNCHANGED <<rows, now, world>>

\* What SetStatus and release write, for each new status.
StatusDraft(row, to) ==
  IF to = "completed" THEN [row EXCEPT !.status = to, !.completedAt = now]
  ELSE IF to = "cancelled" THEN [row EXCEPT !.status = to, !.cancelledAt = now]
  ELSE [row EXCEPT !.status = to]

\* The stamp left out.
StatusSetFault(to) == {"status"}

StatusSet(to) ==
  {"status"} \cup (IF to = "completed" THEN {"completedAt"} ELSE {})
             \cup (IF to = "cancelled" THEN {"cancelledAt"} ELSE {})

CancelByCustomer(r, i, c) ==
  /\ "cancel" \in Ops
  /\ Idle(r) /\ Readable(i)
  /\ rows[i].customer = c
  /\ IsOpen(rows[i].status)
  /\ Begin(r, "cancel", "write", i, Nil, StatusDraft(rows[i], "cancelled"), StatusSet("cancelled"))
  /\ UNCHANGED <<rows, now, world>>

\* Anyone may act on anyone's job.
MayActFault(actor, row) == TRUE

\* An employee acts on their own work; actor is Nil for the manager, who may
\* act on anyone's job.
MayAct(actor, row) == actor # Nil => row.employee = actor

SetStatus(r, i, actor, to) ==
  /\ "set_status" \in Ops
  /\ Idle(r) /\ Readable(i)
  /\ MayAct(actor, rows[i])
  /\ AllowedTransition(rows[i].status, to)
  /\ Begin(r, "set_status", "write", i, actor, StatusDraft(rows[i], to), StatusSet(to))
  /\ UNCHANGED <<rows, now, world>>

\* The job is handed over and its key is not.
ReassignDraftFault(row, e) == [row EXCEPT !.employee = e]

ReassignDraft(row, e) ==
  [row EXCEPT !.employee = e, !.key = SlotKey(e, row.start)]

Reassign(r, i, e) ==
  /\ "reassign" \in Ops
  /\ Idle(r) /\ Readable(i)
  /\ IsOpen(rows[i].status)
  /\ e # rows[i].employee
  /\ e \in staff
  /\ Begin(r, "reassign", "roster", i, Nil, ReassignDraft(rows[i], e), {"employee", "key"})
  /\ UNCHANGED <<rows, now, world>>

------------------------------------------------------------------------------
(* EditReservation, whose three inputs are optional: Nil is a field left   *)
(* alone.  A plate resolves to the owner of the car; the car itself is not *)
(* kept, and a plate that is already the job's is a field left alone.      *)

EditedService(row, s) ==
  IF s = Nil THEN row
  ELSE [row EXCEPT !.service = s, !.price = catalogue[s].price]

EditedCustomer(row, c) == IF c = Nil THEN row ELSE [row EXCEPT !.customer = c]

\* The start is moved and the key is not.
EditedStartFault(row, t) == IF t = Nil THEN row ELSE [row EXCEPT !.start = t]

EditedStart(row, t) ==
  IF t = Nil THEN row
  ELSE [row EXCEPT !.start = t,
                   !.key = IF IsOpen(row.status) THEN SlotKey(row.employee, t) ELSE @]

\* The end follows the service only.
EditedEndFault(row, s, t, duration) ==
  IF s = Nil THEN row ELSE [row EXCEPT !.end = row.start + duration]

\* The end follows the start and the duration in force after the edit.
EditedEnd(row, s, t, duration) ==
  IF s = Nil /\ t = Nil THEN row ELSE [row EXCEPT !.end = row.start + duration]

EditDraft(row, s, c, t) ==
  LET duration == IF s = Nil THEN row.end - row.start ELSE catalogue[s].duration
      edited   == EditedStart(EditedCustomer(EditedService(row, s), c), t)
  IN  EditedEnd(edited, s, t, duration)

EditSet(row, s, c, t) ==
  (IF s = Nil THEN {} ELSE {"service", "price", "end"})
    \cup (IF c = Nil THEN {} ELSE {"customer"})
    \cup (IF t = Nil THEN {} ELSE {"start", "end"})
    \cup (IF t # Nil /\ IsOpen(row.status) THEN {"key"} ELSE {})

EditReservation(r, i, s, c, t) ==
  /\ "edit" \in Ops
  /\ Idle(r) /\ Readable(i)
  /\ \E x \in {s, c, t} : x # Nil
  /\ IsBlocking(rows[i].status)
  /\ s # Nil => catalogue[s].active
  /\ Begin(r, "edit", "write", i, Nil,
           EditDraft(rows[i], s, c, t), EditSet(rows[i], s, c, t))
  /\ UNCHANGED <<rows, now, world>>

------------------------------------------------------------------------------
(* The rest of the service, as this component meets it between two reads:  *)
(* the roster, the accounts and the price list change at any time.         *)

RosterChanges ==
  /\ "roster" \in Ops
  /\ \E sh \in RosterShifts :
       shifts' = IF sh \in shifts THEN shifts \ {sh} ELSE shifts \cup {sh}
  /\ UNCHANGED <<rows, reqs, now, staff, catalogue, sites>>

StaffChanges ==
  /\ "staff" \in Ops
  /\ \E e \in Employees :
       staff' = IF e \in staff THEN staff \ {e} ELSE staff \cup {e}
  /\ UNCHANGED <<rows, reqs, now, shifts, catalogue, sites>>

CatalogueChanges ==
  /\ "catalogue" \in Ops
  /\ \E s \in Services, o \in Offer : catalogue' = [catalogue EXCEPT ![s] = o]
  /\ UNCHANGED <<rows, reqs, now, shifts, staff, sites>>

SiteChanges ==
  /\ "catalogue" \in Ops
  /\ \E l \in Locations :
       sites' = IF l \in sites THEN sites \ {l} ELSE sites \cup {l}
  /\ UNCHANGED <<rows, reqs, now, shifts, staff, catalogue>>

Tick ==
  /\ now < Horizon
  /\ now' = now + 1
  /\ UNCHANGED <<rows, reqs, world>>

\* A handler that dies with its process, or loses its connection, before it
\* writes leaves nothing behind.
Abandon(r) ==
  /\ ~Idle(r)
  /\ Done(r)
  /\ UNCHANGED <<rows, now, world>>

HandlerStep(r) ==
  \/ ReadRoster(r) \/ ReadTaken(r)
  \/ Create(r) \/ UpdateFields(r) \/ UpdateAndReleaseSlot(r) \/ Abandon(r)

HandlerStart(r, i) ==
  \/ \E c \in Customers, e \in Employees, l \in Locations, s \in Services :
       RegisterWalkIn(r, i, c, e, l, s) \/ \E t \in Times : Book(r, i, c, e, l, s, t)
  \/ \E c \in Customers : CancelByCustomer(r, i, c)
  \/ \E actor \in Employees \cup {Nil}, to \in Statuses : SetStatus(r, i, actor, to)
  \/ \E e \in Employees : Reassign(r, i, e)
  \/ \E s \in Services \cup {Nil}, c \in Customers \cup {Nil}, t \in Times \cup {Nil} :
       EditReservation(r, i, s, c, t)

Next ==
  \/ \E r \in Requests : HandlerStep(r) \/ \E i \in Ids : HandlerStart(r, i)
  \/ RosterChanges \/ StaffChanges \/ CatalogueChanges \/ SiteChanges \/ Tick

Spec == Init /\ [][Next]_vars

------------------------------------------------------------------------------
(* What the rows promise.                                                  *)

\* The index on slot_key: no two reservations hold one key.
SlotKeyUnique ==
  \A i, k \in Ids :
    i # k /\ Stored(i) /\ Stored(k) /\ rows[i].key # Nil => rows[i].key # rows[k].key

\* A live job holds the key of the employee and start it is really for, so
\* that the index refuses the next one (models/reservation.go: "one that
\* drops its key while still active loses the guard").
OpenHoldsItsSlot ==
  \A i \in Ids :
    Stored(i) /\ IsOpen(rows[i].status)
      => rows[i].key = SlotKey(rows[i].employee, rows[i].start)

\* The same for a job nobody has started: it survives races that
\* OpenHoldsItsSlot does not.
BookedHoldsItsSlot ==
  \A i \in Ids :
    Stored(i) /\ rows[i].status = "booked"
      => rows[i].key = SlotKey(rows[i].employee, rows[i].start)

\* A cancelled or no-show job holds no key: it would block its start for ever
\* (the comment on UpdateAndReleaseSlot).
ReleasedHoldsNoKey ==
  \A i \in Ids :
    Stored(i) /\ ~IsBlocking(rows[i].status) => rows[i].key = Nil

\* Two customers never get the same employee at the same instant.
NoTwoOpenAtOneStart ==
  \A i, k \in Ids :
    /\ i # k
    /\ Stored(i) /\ IsOpen(rows[i].status)
    /\ Stored(k) /\ IsOpen(rows[k].status)
    => ~(rows[i].employee = rows[k].employee /\ rows[i].start = rows[k].start)

\* assertFree over Reassign: while rosters stand and no one edits, work that
\* was booked lies in one shift of whoever has it now, at its own location.
WorkIsRostered ==
  \A i \in Ids :
    Stored(i) /\ IsBlocking(rows[i].status)
      => \E sh \in shifts :
           /\ sh.employee = rows[i].employee /\ sh.location = rows[i].location
           /\ sh.start <= rows[i].start /\ rows[i].end <= sh.end

\* A job is stamped when it is completed or cancelled, and only then: the day
\* report selects on the status and groups on the stamp.
StampsMatchStatus ==
  \A i \in Ids :
    Stored(i) => /\ (rows[i].completedAt # 0) = (rows[i].status = "completed")
                 /\ (rows[i].cancelledAt # 0) = (rows[i].status = "cancelled")

\* The half of it that no race can break: the report never meets a completed
\* wash without the time it was completed.
CompletedIsStamped ==
  \A i \in Ids :
    Stored(i) /\ rows[i].status = "completed" => rows[i].completedAt \in 1 .. now

\* Completed work is frozen (Reassign, models.Reservation.EmployeeID): the
\* bonus stays with whoever did the work.
CompletedIsFrozen ==
  [][\A i \in Ids :
       Stored(i) /\ rows[i].status = "completed"
         => rows'[i].employee = rows[i].employee]_rows

\* allowedTransition: finished, cancelled and no-show jobs have no path back.
TerminalIsTerminal ==
  [][\A i \in Ids :
       Stored(i) /\ ~IsOpen(rows[i].status)
         => rows'[i].status = rows[i].status]_rows

\* SetStatus: an employee touches only their own work, so that no bonus is
\* credited to the wrong person.
OwnWork ==
  [][\A r \in Requests :
       /\ ~Idle(r) /\ reqs[r].op = "set_status" /\ reqs[r].actor # Nil
       /\ rows'[reqs[r].id] # rows[reqs[r].id]
       /\ reqs'[r] = Nil
       => rows[reqs[r].id].employee = reqs[r].actor]_vars

\* assertFree, when no other request runs: work is booked or handed over only
\* where its employee is on no other job, whatever the desk and the manager
\* have put there by hand.
CheckedWorkIsApart ==
  [][\A r \in Requests, i \in Ids :
       /\ ~Idle(r) /\ reqs[r].op \in {"book", "reassign"} /\ reqs[r].id = i
       /\ rows'[i] # rows[i]
       => \A k \in Ids \ {i} :
            /\ Stored(k) /\ IsBlocking(rows[k].status)
            /\ rows[k].employee = rows'[i].employee
            => ~Overlaps(Job(rows[k]), Job(rows'[i]))]_rows

\* models.Reservation.PriceMNT and the end derived in EditReservation: what a
\* job costs and how long it takes are copied when it is booked.  Moving it,
\* handing it over or changing the price list leave both alone; only a
\* correction that names the service moves them.
TermsMoveOnlyByService ==
  [][\A i \in Ids :
       /\ Stored(i)
       /\ \/ rows'[i].price # rows[i].price
          \/ rows'[i].end - rows'[i].start # rows[i].end - rows[i].start
       => \E r \in Requests :
            /\ ~Idle(r) /\ reqs[r].op = "edit" /\ reqs[r].id = i
            /\ "service" \in reqs[r].set]_rows

------------------------------------------------------------------------------
(* The atomic promise: see JobLedger.                                      *)

JobOf(row) == [status |-> row.status, employee |-> row.employee, start |-> row.start]

Ledger == INSTANCE JobLedger WITH
  job <- [i \in Ids |-> IF rows[i] = Nil THEN Nil ELSE JobOf(rows[i])]

\* Every write of a handler is one step of the ledger.
KeepsTheLedger == Ledger!Spec
==============================================================================
