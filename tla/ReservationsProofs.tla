-------------------------- MODULE ReservationsProofs --------------------------
(***************************************************************************)
(* Theorems about Reservations, for any number of reservations, handlers,  *)
(* employees and instants: what holds of every specification, what holds   *)
(* when requests race, and what holds when requests for one reservation    *)
(* never overlap.                                                          *)
(***************************************************************************)
EXTENDS Reservations, TLAPS

\* Every handler that updates has an existing row to update: rows are never
\* deleted, so a row that was read is still there at the write.
TargetsStored ==
  \A r \in Requests : ~Idle(r) /\ ~Inserting(r) => Stored(reqs[r].id)

TypeInv == TypeOK /\ TargetsStored

------------------------------------------------------------------------------
(* Operators.                                                              *)

\* A $set of typed values leaves a row a row.
LEMMA MergeIsRow ==
  ASSUME NEW row \in Row, NEW draft \in Row, NEW set \in SUBSET Fields
  PROVE  Merge(row, draft, set) \in Row
BY DEF Merge, Row, Fields

\* What a handler builds for a new booking is a row.
LEMMA NewRowIsRow ==
  ASSUME TypeOK, NEW c \in Customers, NEW e \in Employees, NEW l \in Locations,
         NEW s \in Services, NEW t \in Nat, NEW status \in Statuses
  PROVE  NewRow(c, e, l, s, t, status) \in Row
<1>1. catalogue[s] \in Offer
  BY DEF TypeOK
<1>2. catalogue[s].duration \in Nat /\ catalogue[s].price \in Prices
  BY <1>1, ConfigAssumption DEF Offer
<1>3. SlotKey(e, t) \in Employees \X Nat
  BY DEF SlotKey
<1>4. QED
  BY <1>2, <1>3 DEF NewRow, Row

\* Starting a handler with a typed draft keeps the table of handlers typed.
LEMMA BeginIsTyped ==
  ASSUME TypeOK, NEW r \in Requests, NEW op \in Ops, NEW at \in {"roster", "taken", "write"},
         NEW i \in Ids, NEW actor \in Employees \cup {Nil}, NEW draft \in Row,
         NEW set \in SUBSET Fields, Begin(r, op, at, i, actor, draft, set)
  PROVE  /\ reqs' \in [Requests -> Request \cup {Nil}]
         /\ reqs'[r] = [op |-> op, at |-> at, id |-> i, actor |-> actor,
                        draft |-> draft, set |-> set]
         /\ reqs'[r] # Nil
         /\ \A q \in Requests \ {r} : reqs'[q] = reqs[q]
BY NilAssumption DEF TypeOK, Begin, Request

\* Ending a handler keeps the table typed, and the others as they were.
LEMMA DoneIsTyped ==
  ASSUME TypeOK, NEW r \in Requests, Done(r)
  PROVE  /\ reqs' \in [Requests -> Request \cup {Nil}]
         /\ reqs'[r] = Nil
         /\ \A q \in Requests \ {r} : reqs'[q] = reqs[q]
BY DEF TypeOK, Done

\* A handler that is not idle is a request.
LEMMA BusyIsRequest ==
  ASSUME TypeOK, NEW r \in Requests, ~Idle(r)
  PROVE  /\ reqs[r] \in Request
         /\ reqs[r].id \in Ids
         /\ reqs[r].draft \in Row
         /\ reqs[r].set \in SUBSET Fields
         /\ reqs[r].op \in Ops
         /\ reqs[r].actor \in Employees \cup {Nil}
<1>1. reqs[r] \in Request
  BY DEF TypeOK, Idle
<1>2. QED
  BY <1>1 DEF Request

\* A stored row is a row.
LEMMA StoredIsRow ==
  ASSUME TypeOK, NEW i \in Ids, Stored(i)
  PROVE  rows[i] \in Row
BY DEF TypeOK, Stored

\* What SetStatus, Reassign and EditReservation want is a row, and it differs
\* from the row that was read in the fields they set, and in no other.
LEMMA StatusDraftIsRow ==
  ASSUME TypeOK, NEW row \in Row, NEW to \in Statuses
  PROVE  /\ StatusDraft(row, to) \in Row
         /\ StatusSet(to) \in SUBSET Fields
         /\ Merge(row, StatusDraft(row, to), StatusSet(to)) = StatusDraft(row, to)
<1>1. now \in Nat
  BY ConfigAssumption DEF TypeOK, Times
<1>2. StatusDraft(row, to) \in Row
  BY <1>1 DEF StatusDraft, Row
<1>3. StatusSet(to) \in SUBSET Fields
  BY DEF StatusSet, Fields
<1>4. Merge(row, StatusDraft(row, to), StatusSet(to)) = StatusDraft(row, to)
  BY DEF Merge, StatusDraft, StatusSet, Row
<1>5. QED
  BY <1>2, <1>3, <1>4

LEMMA ReassignDraftIsRow ==
  ASSUME NEW row \in Row, NEW e \in Employees
  PROVE  /\ ReassignDraft(row, e) \in Row
         /\ {"employee", "key"} \in SUBSET Fields
         /\ Merge(row, ReassignDraft(row, e), {"employee", "key"}) = ReassignDraft(row, e)
BY DEF ReassignDraft, SlotKey, Merge, Row, Fields

LEMMA EditDraftIsRow ==
  ASSUME TypeOK, NEW row \in Row, NEW s \in Services \cup {Nil},
         NEW c \in Customers \cup {Nil}, NEW t \in Times \cup {Nil}
  PROVE  /\ EditDraft(row, s, c, t) \in Row
         /\ EditSet(row, s, c, t) \in SUBSET Fields
         /\ Merge(row, EditDraft(row, s, c, t), EditSet(row, s, c, t)) = EditDraft(row, s, c, t)
<1> DEFINE r1 == EditedService(row, s)
           r2 == EditedCustomer(r1, c)
           r3 == EditedStart(r2, t)
           duration == IF s = Nil THEN row.end - row.start ELSE catalogue[s].duration
           r4 == EditedEnd(r3, s, t, duration)
           F == EditSet(row, s, c, t)
<1>1. s # Nil => catalogue[s].duration \in Nat /\ catalogue[s].price \in Prices
  BY ConfigAssumption DEF TypeOK, Offer
<1>2. duration \in Int
  BY <1>1 DEF Row
<1>3. r1 \in Row /\ \A f \in Fields \ {"service", "price"} : r1[f] = row[f]
  BY <1>1 DEF EditedService, Row, Fields
<1>4. r2 \in Row /\ \A f \in Fields \ {"customer"} : r2[f] = r1[f]
  BY <1>3 DEF EditedCustomer, Row, Fields
<1>5. r3 \in Row /\ \A f \in Fields \ {"start", "key"} : r3[f] = r2[f]
  <2> HIDE DEF r2
  <2>1. CASE t = Nil
    BY <2>1, <1>4 DEF EditedStart
  <2>2. CASE t # Nil
    <3> DEFINE key == IF IsOpen(r2.status) THEN SlotKey(r2.employee, t) ELSE r2.key
    <3>1. t \in Nat
      BY <2>2 DEF Times
    <3>2. r2.employee \in Employees /\ r2.key \in (Employees \X Nat) \cup {Nil}
      BY <1>4 DEF Row
    <3>3. key \in (Employees \X Nat) \cup {Nil}
      BY <3>1, <3>2 DEF SlotKey
    <3>4. r3 = [r2 EXCEPT !.start = t, !.key = key]
      BY <2>2 DEF EditedStart
    <3> HIDE DEF key, r3
    <3>5. QED
      BY <3>1, <3>3, <3>4, <1>4 DEF Row, Fields
  <2>3. QED
    BY <2>1, <2>2
<1>6. r4 \in Row /\ \A f \in Fields \ {"end"} : r4[f] = r3[f]
  BY <1>2, <1>5 DEF EditedEnd, Row, Fields
<1>7. F \in SUBSET Fields
  BY DEF EditSet, Fields
<1>8. \A f \in Fields \ F : r4[f] = row[f]
  <2>1. "status" \in Fields /\ r2.status = row.status
    BY <1>3, <1>4 DEF Fields
  <2>2. s = Nil => r1 = row
    BY DEF EditedService
  <2>3. c = Nil => r2 = r1
    BY DEF EditedCustomer
  <2>4. t = Nil => r3 = r2
    BY DEF EditedStart
  <2>5. ~IsOpen(row.status) => r3.key = r2.key
    BY <2>1, <1>4 DEF EditedStart, Row
  <2>6. s = Nil /\ t = Nil => r4 = r3
    BY DEF EditedEnd
  <2> HIDE DEF r1, r2, r3, r4, duration, F
  <2>7. QED
    BY <2>2, <2>3, <2>4, <2>5, <2>6, <1>3, <1>4, <1>5, <1>6 DEF F, EditSet, Fields
<1>9. Merge(row, r4, F) = r4
  <2> HIDE DEF r4, F
  <2>1. row \in Row /\ r4 \in Row
    BY <1>6
  <2>2. DOMAIN row = Fields
    BY DEF Row, Fields
  <2>3. r4 = [f \in Fields |-> r4[f]]
    BY <2>1 DEF Row, Fields
  <2>4. QED
    BY <2>2, <2>3, <1>8 DEF Merge
<1>10. QED
  BY <1>6, <1>7, <1>9 DEF EditDraft

------------------------------------------------------------------------------
(* Types.                                                                  *)

LEMMA InitTyped == Init => TypeInv
<1> SUFFICES ASSUME Init PROVE TypeInv
  OBVIOUS
<1>1. 1 \in Times
  BY ConfigAssumption DEF Times
<1>2. TypeOK
  BY <1>1, ConfigAssumption DEF Init, TypeOK
<1>3. TargetsStored
  BY DEF Init, TargetsStored, Idle
<1>4. QED
  BY <1>2, <1>3 DEF TypeInv

\* The three writes of the repository, and a handler that dies.
LEMMA WriteTyped ==
  ASSUME TypeInv, NEW r \in Requests,
         Create(r) \/ UpdateFields(r) \/ UpdateAndReleaseSlot(r) \/ Abandon(r)
  PROVE  TypeInv'
<1> USE DEF TypeInv
<1>1. ~Idle(r) /\ Done(r) /\ UNCHANGED <<now, shifts, staff, catalogue, sites>>
  BY DEF Create, UpdateFields, UpdateAndReleaseSlot, Abandon, world
<1>2. reqs' \in [Requests -> Request \cup {Nil}] /\ reqs'[r] = Nil
        /\ \A q \in Requests \ {r} : reqs'[q] = reqs[q]
  BY <1>1, DoneIsTyped
<1>3. reqs[r].id \in Ids /\ reqs[r].draft \in Row /\ reqs[r].set \in SUBSET Fields
  BY <1>1, BusyIsRequest
<1>4. /\ rows' \in [Ids -> Row \cup {Nil}]
      /\ \A i \in Ids : Stored(i) => Stored(i)'
  <2>1. CASE Create(r)
    BY <2>1, <1>3, NilAssumption DEF Create, TypeOK, Stored
  <2>2. CASE UpdateFields(r)
    <3>1. rows[reqs[r].id] \in Row
      BY <2>2, <1>1, <1>3, StoredIsRow DEF UpdateFields, TargetsStored
    <3>2. Merge(rows[reqs[r].id], reqs[r].draft, reqs[r].set) \in Row
      BY <3>1, <1>3, MergeIsRow
    <3>3. QED
      BY <2>2, <3>2, <1>3, NilAssumption DEF UpdateFields, TypeOK, Stored
  <2>3. CASE UpdateAndReleaseSlot(r)
    <3> DEFINE row == Merge(rows[reqs[r].id], reqs[r].draft, reqs[r].set)
    <3>0. ~Inserting(r)
      BY <2>3 DEF UpdateAndReleaseSlot, Releasing, Inserting
    <3>1. rows[reqs[r].id] \in Row
      BY <3>0, <1>1, <1>3, StoredIsRow DEF TargetsStored
    <3>2. row \in Row
      BY <3>1, <1>3, MergeIsRow
    <3>3. [row EXCEPT !.key = Nil] \in Row
      BY <3>2 DEF Row
    <3>4. rows' = [rows EXCEPT ![reqs[r].id] = [row EXCEPT !.key = Nil]]
      BY <2>3 DEF UpdateAndReleaseSlot
    <3> HIDE DEF row
    <3>5. QED
      BY <3>3, <3>4, <1>3, NilAssumption DEF TypeOK, Stored
  <2>4. CASE Abandon(r)
    BY <2>4 DEF Abandon, TypeOK, Stored
  <2>5. QED
    BY <2>1, <2>2, <2>3, <2>4
<1>5. TypeOK'
  BY <1>1, <1>2, <1>4 DEF TypeOK
<1>6. TargetsStored'
  <2> SUFFICES ASSUME NEW q \in Requests, ~Idle(q)', ~Inserting(q)'
               PROVE  Stored(reqs[q].id)'
    BY DEF TargetsStored
  <2>1. q # r
    BY <1>2 DEF Idle
  <2>2. reqs'[q] = reqs[q]
    BY <1>2, <2>1
  <2>3. ~Idle(q) /\ ~Inserting(q)
    BY <2>2 DEF Idle, Inserting
  <2>4. Stored(reqs[q].id) /\ reqs[q].id \in Ids
    BY <2>3, BusyIsRequest DEF TargetsStored
  <2>5. QED
    BY <2>2, <2>4, <1>4 DEF Stored
<1>7. QED
  BY <1>5, <1>6

\* The two reads of assertFree.
LEMMA ReadTyped ==
  ASSUME TypeInv, NEW r \in Requests, ReadRoster(r) \/ ReadTaken(r)
  PROVE  TypeInv'
<1> USE DEF TypeInv
<1>1. ~Idle(r) /\ UNCHANGED <<rows, now, shifts, staff, catalogue, sites>>
  BY DEF ReadRoster, ReadTaken, world
<1>2. \/ Done(r)
      \/ \E at \in {"taken", "write"} : reqs' = [reqs EXCEPT ![r].at = at]
  BY DEF ReadRoster, ReadTaken
<1>3. CASE Done(r)
  <2>1. reqs' \in [Requests -> Request \cup {Nil}] /\ reqs'[r] = Nil
          /\ \A q \in Requests \ {r} : reqs'[q] = reqs[q]
    BY <1>3, DoneIsTyped
  <2>2. TypeOK'
    BY <1>1, <2>1 DEF TypeOK
  <2>3. TargetsStored'
    BY <1>1, <2>1 DEF TargetsStored, Idle, Inserting, Stored
  <2>4. QED
    BY <2>2, <2>3
<1>4. ASSUME NEW at \in {"taken", "write"}, reqs' = [reqs EXCEPT ![r].at = at]
      PROVE  TypeInv'
  <2>1. reqs[r] \in Request
    BY <1>1, BusyIsRequest
  <2>2. reqs'[r] = [reqs[r] EXCEPT !.at = at]
    BY <1>4 DEF TypeOK
  <2>3. /\ reqs'[r] \in Request
        /\ reqs'[r].op = reqs[r].op
        /\ reqs'[r].id = reqs[r].id
    BY <2>1, <2>2 DEF Request
  <2>4. reqs' \in [Requests -> Request \cup {Nil}]
    BY <1>4, <2>2, <2>3 DEF TypeOK
  <2>5. TypeOK'
    BY <1>1, <2>4 DEF TypeOK
  <2>6. TargetsStored'
    BY <1>1, <1>4, <2>3 DEF TargetsStored, Idle, Inserting, Stored, TypeOK
  <2>7. QED
    BY <2>5, <2>6
<1>5. QED
  BY <1>2, <1>3, <1>4

\* The first step of a handler: everything it carries is typed, and what it
\* will update is stored.
LEMMA BeginKeepsTypeInv ==
  ASSUME TypeInv, NEW r \in Requests, NEW op \in Ops, NEW at \in {"roster", "taken", "write"},
         NEW i \in Ids, NEW actor \in Employees \cup {Nil}, NEW draft \in Row,
         NEW set \in SUBSET Fields, Begin(r, op, at, i, actor, draft, set),
         op \in {"book", "walk_in"} \/ Stored(i),
         UNCHANGED <<rows, now, world>>
  PROVE  TypeInv'
<1> USE DEF TypeInv
<1>1. /\ reqs' \in [Requests -> Request \cup {Nil}]
      /\ reqs'[r] = [op |-> op, at |-> at, id |-> i, actor |-> actor,
                     draft |-> draft, set |-> set]
      /\ \A q \in Requests \ {r} : reqs'[q] = reqs[q]
  BY BeginIsTyped
<1>2. TypeOK'
  BY <1>1 DEF TypeOK, world
<1>3. TargetsStored'
  BY <1>1 DEF TargetsStored, Idle, Inserting, Stored
<1>4. QED
  BY <1>2, <1>3

LEMMA StartTyped ==
  ASSUME TypeInv, NEW r \in Requests, NEW i \in Ids, HandlerStart(r, i)
  PROVE  TypeInv'
<1> USE DEF TypeInv
<1>1. ASSUME NEW c \in Customers, NEW e \in Employees, NEW l \in Locations,
             NEW s \in Services, NEW t \in Times, Book(r, i, c, e, l, s, t)
      PROVE  TypeInv'
  <2>1. NewRow(c, e, l, s, t, "booked") \in Row
    BY NewRowIsRow DEF Times, Statuses
  <2>2. QED
    BY <1>1, <2>1, BeginKeepsTypeInv DEF Book
<1>2. ASSUME NEW c \in Customers, NEW e \in Employees, NEW l \in Locations,
             NEW s \in Services, RegisterWalkIn(r, i, c, e, l, s)
      PROVE  TypeInv'
  <2>1. now \in Nat
    BY DEF TypeOK, Times
  <2>2. NewRow(c, e, l, s, now, "in_progress") \in Row
    BY <2>1, NewRowIsRow DEF Statuses
  <2>3. QED
    BY <1>2, <2>2, BeginKeepsTypeInv DEF RegisterWalkIn
<1>3. ASSUME NEW c \in Customers, CancelByCustomer(r, i, c)
      PROVE  TypeInv'
  <2>1. Stored(i) /\ rows[i] \in Row /\ "cancelled" \in Statuses
    BY <1>3, StoredIsRow DEF CancelByCustomer, Readable, Statuses
  <2>2. /\ StatusDraft(rows[i], "cancelled") \in Row
        /\ StatusSet("cancelled") \in SUBSET Fields
    BY <2>1, StatusDraftIsRow
  <2>3. QED
    BY <1>3, <2>1, <2>2, BeginKeepsTypeInv DEF CancelByCustomer
<1>4. ASSUME NEW actor \in Employees \cup {Nil}, NEW to \in Statuses, SetStatus(r, i, actor, to)
      PROVE  TypeInv'
  <2>1. Stored(i) /\ rows[i] \in Row
    BY <1>4, StoredIsRow DEF SetStatus, Readable
  <2>2. StatusDraft(rows[i], to) \in Row /\ StatusSet(to) \in SUBSET Fields
    BY <2>1, StatusDraftIsRow
  <2>3. QED
    BY <1>4, <2>1, <2>2, BeginKeepsTypeInv DEF SetStatus
<1>5. ASSUME NEW e \in Employees, Reassign(r, i, e)
      PROVE  TypeInv'
  <2>1. Stored(i) /\ rows[i] \in Row
    BY <1>5, StoredIsRow DEF Reassign, Readable
  <2>2. ReassignDraft(rows[i], e) \in Row /\ {"employee", "key"} \in SUBSET Fields
    BY <2>1, ReassignDraftIsRow
  <2>3. QED
    BY <1>5, <2>1, <2>2, BeginKeepsTypeInv DEF Reassign
<1>6. ASSUME NEW s \in Services \cup {Nil}, NEW c \in Customers \cup {Nil},
             NEW t \in Times \cup {Nil}, EditReservation(r, i, s, c, t)
      PROVE  TypeInv'
  <2>1. Stored(i) /\ rows[i] \in Row
    BY <1>6, StoredIsRow DEF EditReservation, Readable
  <2>2. EditDraft(rows[i], s, c, t) \in Row /\ EditSet(rows[i], s, c, t) \in SUBSET Fields
    BY <2>1, EditDraftIsRow
  <2>3. QED
    BY <1>6, <2>1, <2>2, BeginKeepsTypeInv DEF EditReservation
<1>7. QED
  BY <1>1, <1>2, <1>3, <1>4, <1>5, <1>6 DEF HandlerStart

\* The clock and the rest of the service touch neither rows nor handlers.
LEMMA WorldTyped ==
  ASSUME TypeInv, RosterChanges \/ StaffChanges \/ CatalogueChanges \/ SiteChanges \/ Tick
  PROVE  TypeInv'
<1> USE DEF TypeInv
<1>1. UNCHANGED <<rows, reqs>>
  BY DEF RosterChanges, StaffChanges, CatalogueChanges, SiteChanges, Tick
<1>2. TargetsStored'
  BY <1>1 DEF TargetsStored, Idle, Inserting, Stored
<1>3. TypeOK'
  <2>1. CASE RosterChanges
    BY <2>1 DEF RosterChanges, TypeOK
  <2>2. CASE StaffChanges
    BY <2>2 DEF StaffChanges, TypeOK
  <2>3. CASE CatalogueChanges
    BY <2>3 DEF CatalogueChanges, TypeOK
  <2>4. CASE SiteChanges
    BY <2>4 DEF SiteChanges, TypeOK
  <2>5. CASE Tick
    BY <2>5, ConfigAssumption DEF Tick, TypeOK, Times, world
  <2>6. QED
    BY <2>1, <2>2, <2>3, <2>4, <2>5
<1>4. QED
  BY <1>2, <1>3

\* Rows, handlers and the rest keep their types: in particular a handler that
\* updates always finds the row it read, and an update leaves a row a row.
THEOREM TypeCorrect == Spec => [](TypeOK /\ TargetsStored)
<1>1. Init => TypeInv
  BY InitTyped
<1>2. TypeInv /\ [Next]_vars => TypeInv'
  <2> SUFFICES ASSUME TypeInv, [Next]_vars PROVE TypeInv'
    OBVIOUS
  <2>1. ASSUME NEW r \in Requests, HandlerStep(r) PROVE TypeInv'
    BY <2>1, WriteTyped, ReadTyped DEF HandlerStep
  <2>2. ASSUME NEW r \in Requests, NEW i \in Ids, HandlerStart(r, i) PROVE TypeInv'
    BY <2>2, StartTyped
  <2>3. CASE RosterChanges \/ StaffChanges \/ CatalogueChanges \/ SiteChanges \/ Tick
    BY <2>3, WorldTyped
  <2>4. CASE UNCHANGED vars
    BY <2>4 DEF vars, world, TypeInv, TypeOK, TargetsStored, Idle, Inserting, Stored
  <2>5. QED
    BY <2>1, <2>2, <2>3, <2>4 DEF Next
<1>3. TypeInv <=> TypeOK /\ TargetsStored
  BY DEF TypeInv
<1>4. QED
  BY <1>1, <1>2, <1>3, PTL DEF Spec

------------------------------------------------------------------------------
(* The index.                                                              *)

\* The row a handler is about to write, if nothing changed since it read.
Written(r) ==
  IF Releasing(r) THEN [reqs[r].draft EXCEPT !.key = Nil] ELSE reqs[r].draft

\* Every write of the repository: one row changes, to a typed value, and its
\* key is free.
LEMMA OneRowWritten ==
  ASSUME TypeInv, NEW r \in Requests,
         Create(r) \/ UpdateFields(r) \/ UpdateAndReleaseSlot(r),
         rows' # rows
  PROVE  \E row \in Row :
           /\ rows' = [rows EXCEPT ![reqs[r].id] = row]
           /\ KeyFree(reqs[r].id, row.key)
           /\ Inserting(r) => row = reqs[r].draft
           /\ ~Inserting(r) /\ ~Releasing(r)
                => row = Merge(rows[reqs[r].id], reqs[r].draft, reqs[r].set)
           /\ Releasing(r)
                => row = [Merge(rows[reqs[r].id], reqs[r].draft, reqs[r].set) EXCEPT !.key = Nil]
<1> USE DEF TypeInv
<1>1. ~Idle(r)
  BY DEF Create, UpdateFields, UpdateAndReleaseSlot
<1>2. reqs[r].id \in Ids /\ reqs[r].draft \in Row /\ reqs[r].set \in SUBSET Fields
  BY <1>1, BusyIsRequest
<1> DEFINE merged == Merge(rows[reqs[r].id], reqs[r].draft, reqs[r].set)
<1>3. ~Inserting(r) => merged \in Row
  BY <1>1, <1>2, StoredIsRow, MergeIsRow DEF TargetsStored
<1>4. CASE Create(r)
  BY <1>4, <1>2 DEF Create, Inserting, Releasing
<1>5. CASE UpdateFields(r)
  BY <1>5, <1>3 DEF UpdateFields
<1>6. CASE UpdateAndReleaseSlot(r)
  <2>1. ~Inserting(r) /\ Releasing(r)
    BY <1>6 DEF UpdateAndReleaseSlot, Releasing, Inserting
  <2>2. rows' = [rows EXCEPT ![reqs[r].id] = [merged EXCEPT !.key = Nil]]
    BY <1>6 DEF UpdateAndReleaseSlot
  <2>3. merged \in Row
    BY <1>3, <2>1
  <2> HIDE DEF merged
  <2>4. [merged EXCEPT !.key = Nil] \in Row /\ [merged EXCEPT !.key = Nil].key = Nil
    BY <2>3 DEF Row
  <2>5. QED
    BY <2>1, <2>2, <2>4 DEF merged, KeyFree
<1>7. QED
  BY <1>4, <1>5, <1>6

\* A write that meets the index keeps the keys apart.
LEMMA FreeKeyKeepsUnique ==
  ASSUME TypeOK, SlotKeyUnique, NEW i \in Ids, NEW row \in Row,
         rows' = [rows EXCEPT ![i] = row], KeyFree(i, row.key)
  PROVE  SlotKeyUnique'
<1>1. rows'[i] = row /\ \A k \in Ids \ {i} : rows'[k] = rows[k]
  BY DEF TypeOK
<1>2. QED
  BY <1>1 DEF SlotKeyUnique, KeyFree, Stored

\* Steps that write no row.
LEMMA OnlyWritesWrite ==
  ASSUME [Next]_vars
  PROVE  \/ rows' = rows
         \/ \E r \in Requests : Create(r) \/ UpdateFields(r) \/ UpdateAndReleaseSlot(r)
<1>1. ASSUME NEW r \in Requests, NEW i \in Ids, HandlerStart(r, i) PROVE rows' = rows
  BY <1>1 DEF HandlerStart, Book, RegisterWalkIn, CancelByCustomer, SetStatus, Reassign, EditReservation
<1>2. ASSUME NEW r \in Requests, ReadRoster(r) \/ ReadTaken(r) \/ Abandon(r) PROVE rows' = rows
  BY <1>2 DEF ReadRoster, ReadTaken, Abandon
<1>3. CASE RosterChanges \/ StaffChanges \/ CatalogueChanges \/ SiteChanges \/ Tick
  BY <1>3 DEF RosterChanges, StaffChanges, CatalogueChanges, SiteChanges, Tick
<1>4. CASE UNCHANGED vars
  BY <1>4 DEF vars
<1>5. QED
  BY <1>1, <1>2, <1>3, <1>4 DEF Next, HandlerStep

\* No two reservations hold one slot_key, whatever races whatever: the index
\* is met by every write that can set a key (Create and UpdateFields).
THEOREM KeysUnique == Spec => []SlotKeyUnique
<1>1. Init => SlotKeyUnique
  BY DEF Init, SlotKeyUnique, Stored
<1>2. TypeInv /\ SlotKeyUnique /\ [Next]_vars => SlotKeyUnique'
  <2> SUFFICES ASSUME TypeInv, SlotKeyUnique, [Next]_vars PROVE SlotKeyUnique'
    OBVIOUS
  <2>1. CASE rows' = rows
    BY <2>1 DEF SlotKeyUnique, Stored
  <2>2. ASSUME NEW r \in Requests, rows' # rows,
               Create(r) \/ UpdateFields(r) \/ UpdateAndReleaseSlot(r)
        PROVE  SlotKeyUnique'
    <3>1. reqs[r].id \in Ids
      BY <2>2, BusyIsRequest DEF Create, UpdateFields, UpdateAndReleaseSlot, TypeInv
    <3>2. QED
      BY <2>2, <3>1, OneRowWritten, FreeKeyKeepsUnique DEF TypeInv
  <2>3. QED
    BY <2>1, <2>2, OnlyWritesWrite
<1>3. TypeInv <=> TypeOK /\ TargetsStored
  BY DEF TypeInv
<1>4. QED
  BY <1>1, <1>2, <1>3, TypeCorrect, PTL DEF Spec

------------------------------------------------------------------------------
(* Requests that race: any number of handlers on one reservation, each     *)
(* writing what it decided from a row that may have changed since.         *)

\* Either half of a slot can be moved while handlers race, but not both: with
\* hand-overs and corrections together a job can lose its key.
OneHalfMoves == "edit" \notin Ops \/ "reassign" \notin Ops

\* What a row satisfies.
RowSound(row) ==
  /\ row.status = "completed" => row.completedAt \in 1 .. now
  /\ OneHalfMoves /\ row.status = "booked" => row.key = SlotKey(row.employee, row.start)

\* An insert meets no row, and no other handler knows its identity.
InsertSound(r) ==
  /\ ~Stored(reqs[r].id)
  /\ IsOpen(reqs[r].draft.status)
  /\ reqs[r].draft.key = SlotKey(reqs[r].draft.employee, reqs[r].draft.start)
  /\ \A q \in Requests \ {r} : ~Idle(q) => reqs[q].id # reqs[r].id

\* A status is written with its stamp, and never back to booked.
StatusSound(r) ==
  /\ "status" \in reqs[r].set => reqs[r].draft.status # "booked"
  /\ "status" \in reqs[r].set /\ reqs[r].draft.status = "completed"
       => "completedAt" \in reqs[r].set
  /\ "completedAt" \in reqs[r].set => reqs[r].draft.completedAt \in 1 .. now
  /\ Releasing(r) => "status" \in reqs[r].set

\* A key is written with the half of the slot that moves; the half that stays
\* is, in the row, what it was when the handler read it.
KeySound(r) ==
  /\ "key" \in reqs[r].set
       => /\ reqs[r].draft.key = SlotKey(reqs[r].draft.employee, reqs[r].draft.start)
          /\ "employee" \in reqs[r].set \/ "start" \in reqs[r].set
  /\ "employee" \in reqs[r].set => "reassign" \in Ops /\ "key" \in reqs[r].set
  /\ "start" \in reqs[r].set => "edit" \in Ops
  /\ "start" \in reqs[r].set /\ rows[reqs[r].id].status = "booked" => "key" \in reqs[r].set
  /\ OneHalfMoves /\ "key" \in reqs[r].set
       => /\ "employee" \in reqs[r].set
               \/ reqs[r].draft.employee = rows[reqs[r].id].employee
          /\ "start" \in reqs[r].set
               \/ reqs[r].draft.start = rows[reqs[r].id].start

HandlerSound(r) ==
  IF Inserting(r) THEN InsertSound(r) ELSE StatusSound(r) /\ KeySound(r)

RaceInv ==
  /\ \A i \in Ids : Stored(i) => RowSound(rows[i])
  /\ \A r \in Requests : ~Idle(r) => HandlerSound(r)

------------------------------------------------------------------------------
(* A write of one handler, met by a row and by another handler.            *)

LEMMA WrittenRowSound ==
  ASSUME TypeInv, RaceInv, NEW r \in Requests,
         Create(r) \/ UpdateFields(r) \/ UpdateAndReleaseSlot(r),
         rows' # rows
  PROVE  \E row \in Row :
           /\ rows' = [rows EXCEPT ![reqs[r].id] = row]
           /\ RowSound(row)
           /\ ~Inserting(r) /\ row.status = "booked"
                => rows[reqs[r].id].status = "booked"
           /\ ~Inserting(r) /\ row.employee # rows[reqs[r].id].employee => "reassign" \in Ops
           /\ ~Inserting(r) /\ row.start # rows[reqs[r].id].start => "edit" \in Ops
<1>1. ~Idle(r) /\ HandlerSound(r)
  BY DEF Create, UpdateFields, UpdateAndReleaseSlot, RaceInv
<1>2. reqs[r].id \in Ids /\ reqs[r].draft \in Row /\ reqs[r].set \in SUBSET Fields
  BY <1>1, BusyIsRequest DEF TypeInv
<1> DEFINE merged == Merge(rows[reqs[r].id], reqs[r].draft, reqs[r].set)
<1>3. PICK row \in Row :
        /\ rows' = [rows EXCEPT ![reqs[r].id] = row]
        /\ Inserting(r) => row = reqs[r].draft
        /\ ~Inserting(r) /\ ~Releasing(r) => row = merged
        /\ Releasing(r) => row = [merged EXCEPT !.key = Nil]
  BY OneRowWritten
<1>4. CASE Inserting(r)
  BY <1>1, <1>3, <1>4 DEF HandlerSound, InsertSound, RowSound, IsOpen
<1>5. CASE ~Inserting(r)
  <2> DEFINE old == rows[reqs[r].id]
  <2>1. old \in Row /\ RowSound(old) /\ StatusSound(r) /\ KeySound(r)
    BY <1>1, <1>2, <1>5, StoredIsRow DEF TypeInv, TargetsStored, RaceInv, HandlerSound
  <2>2. \A f \in Fields : f # "key" =>
          row[f] = IF f \in reqs[r].set THEN reqs[r].draft[f] ELSE old[f]
    <3>1. DOMAIN old = Fields /\ DOMAIN merged = Fields
      BY <2>1 DEF Merge, Row, Fields
    <3>2. \A f \in Fields : merged[f] = IF f \in reqs[r].set THEN reqs[r].draft[f] ELSE old[f]
      BY <3>1 DEF Merge
    <3> HIDE DEF merged, old
    <3>3. row = merged \/ row = [merged EXCEPT !.key = Nil]
      BY <1>3, <1>5
    <3>4. QED
      BY <3>1, <3>2, <3>3
  <2>3. ~Releasing(r) => row.key = IF "key" \in reqs[r].set THEN reqs[r].draft.key ELSE old.key
    BY <1>3, <1>5, <2>1 DEF Merge, Row, Fields
  <2>4. /\ row.status = IF "status" \in reqs[r].set THEN reqs[r].draft.status ELSE old.status
        /\ row.completedAt = IF "completedAt" \in reqs[r].set THEN reqs[r].draft.completedAt
                                                            ELSE old.completedAt
        /\ row.employee = IF "employee" \in reqs[r].set THEN reqs[r].draft.employee
                                                      ELSE old.employee
        /\ row.start = IF "start" \in reqs[r].set THEN reqs[r].draft.start ELSE old.start
    BY <2>2 DEF Fields
  <2>5. row.status = "booked" => old.status = "booked" /\ ~Releasing(r)
    BY <2>1, <2>4 DEF StatusSound
  <2>6. row.status = "completed" => row.completedAt \in 1 .. now
    BY <2>1, <2>4 DEF StatusSound, RowSound
  <2>7. ASSUME OneHalfMoves, row.status = "booked"
        PROVE  row.key = SlotKey(row.employee, row.start)
    BY <2>1, <2>3, <2>4, <2>5, <2>7 DEF KeySound, RowSound
  <2>8. /\ row.employee # old.employee => "reassign" \in Ops
        /\ row.start # old.start => "edit" \in Ops
    BY <2>1, <2>4 DEF KeySound
  <2>9. QED
    BY <1>3, <1>5, <2>5, <2>6, <2>7, <2>8 DEF RowSound
<1>6. QED
  BY <1>4, <1>5

LEMMA WriteKeepsRaceInv ==
  ASSUME TypeInv, RaceInv, NEW r \in Requests,
         Create(r) \/ UpdateFields(r) \/ UpdateAndReleaseSlot(r) \/ Abandon(r)
  PROVE  RaceInv'
<1>1. ~Idle(r) /\ Done(r) /\ now' = now
  BY DEF Create, UpdateFields, UpdateAndReleaseSlot, Abandon
<1>2. reqs'[r] = Nil /\ \A q \in Requests \ {r} : reqs'[q] = reqs[q]
  BY <1>1, DoneIsTyped DEF TypeInv
<1>3. reqs[r].id \in Ids /\ HandlerSound(r)
  BY <1>1, BusyIsRequest DEF TypeInv, RaceInv
<1> DEFINE n == rows'[reqs[r].id]
           o == rows[reqs[r].id]
<1>4. /\ \A k \in Ids \ {reqs[r].id} : rows'[k] = rows[k]
      /\ n # o => /\ RowSound(n)
                  /\ ~Inserting(r) => /\ n.status = "booked" => o.status = "booked"
                                      /\ n.employee # o.employee => "reassign" \in Ops
                                      /\ n.start # o.start => "edit" \in Ops
  <2>1. CASE rows' = rows
    BY <2>1
  <2>2. CASE rows' # rows
    <3>1. Create(r) \/ UpdateFields(r) \/ UpdateAndReleaseSlot(r)
      BY <2>2 DEF Abandon
    <3>2. PICK row \in Row :
             /\ rows' = [rows EXCEPT ![reqs[r].id] = row]
             /\ RowSound(row)
             /\ ~Inserting(r) /\ row.status = "booked" => o.status = "booked"
             /\ ~Inserting(r) /\ row.employee # o.employee => "reassign" \in Ops
             /\ ~Inserting(r) /\ row.start # o.start => "edit" \in Ops
      BY <2>2, <3>1, WrittenRowSound
    <3>3. n = row /\ \A k \in Ids \ {reqs[r].id} : rows'[k] = rows[k]
      BY <3>2, <1>3 DEF TypeInv, TypeOK
    <3> HIDE DEF n, o
    <3>4. QED
      BY <3>2, <3>3
  <2>3. QED
    BY <2>1, <2>2
<1>5. ASSUME NEW k \in Ids, Stored(k)' PROVE RowSound(rows[k])'
  BY <1>1, <1>4, <1>5 DEF RaceInv, Stored, RowSound
<1>6. ASSUME NEW q \in Requests, ~Idle(q)' PROVE HandlerSound(q)'
  <2>1. q # r /\ ~Idle(q) /\ reqs'[q] = reqs[q] /\ HandlerSound(q)
    BY <1>2, <1>6 DEF Idle, RaceInv
  <2>2. reqs[q].id \in Ids
    BY <2>1, BusyIsRequest DEF TypeInv
  <2>3. (Inserting(q)' <=> Inserting(q)) /\ (Releasing(q)' <=> Releasing(q))
    BY <2>1 DEF Inserting, Releasing
  <2>4. CASE Inserting(q)
    <3>1. reqs[q].id # reqs[r].id
      BY <1>1, <2>1, <2>4 DEF HandlerSound, InsertSound
    <3>2. rows'[reqs[q].id] = rows[reqs[q].id]
      BY <1>4, <2>2, <3>1
    <3>3. InsertSound(q)'
      BY <1>2, <2>1, <2>4, <3>2 DEF HandlerSound, InsertSound, Stored, Idle
    <3>4. QED
      BY <2>3, <2>4, <3>3 DEF HandlerSound
  <2>5. CASE ~Inserting(q)
    <3>1. StatusSound(q)'
      BY <1>1, <2>1, <2>3, <2>5 DEF HandlerSound, StatusSound
    <3>2. CASE reqs[q].id # reqs[r].id
      <4>1. rows'[reqs[q].id] = rows[reqs[q].id]
        BY <1>4, <2>2, <3>2
      <4>2. KeySound(q)'
        BY <2>1, <2>5, <4>1 DEF HandlerSound, KeySound
      <4>3. QED
        BY <2>3, <2>5, <3>1, <4>2 DEF HandlerSound
    <3>3. CASE reqs[q].id = reqs[r].id
      <4>1. ~Inserting(r)
        BY <1>3, <2>1, <3>3 DEF HandlerSound, InsertSound
      <4>2. /\ n.status = "booked" => o.status = "booked"
            /\ n.employee # o.employee => "reassign" \in Ops
            /\ n.start # o.start => "edit" \in Ops
        BY <1>4, <4>1
      <4>3. rows'[reqs[q].id] = n /\ rows[reqs[q].id] = o
        BY <3>3
      <4> HIDE DEF n, o
      <4>4. KeySound(q)'
        BY <2>1, <2>5, <4>2, <4>3 DEF HandlerSound, KeySound, OneHalfMoves
      <4>5. QED
        BY <2>3, <2>5, <3>1, <4>4 DEF HandlerSound
    <3>4. QED
      BY <3>2, <3>3
  <2>6. QED
    BY <2>4, <2>5
<1>7. QED
  BY <1>5, <1>6 DEF RaceInv
------------------------------------------------------------------------------
(* The other steps.                                                        *)

\* The first step of a handler.  An insert meets a fresh identity; an update
\* carries a draft that agrees with the row it was read from.
LEMMA BeginKeepsRaceInv ==
  ASSUME TypeInv, RaceInv, NEW r \in Requests, Idle(r),
         NEW op \in Ops, NEW at \in {"roster", "taken", "write"},
         NEW i \in Ids, NEW actor \in Employees \cup {Nil}, NEW draft \in Row,
         NEW set \in SUBSET Fields, Begin(r, op, at, i, actor, draft, set),
         rows' = rows, now' = now,
         op \in {"book", "walk_in"} => /\ Fresh(i)
                                      /\ IsOpen(draft.status)
                                      /\ draft.key = SlotKey(draft.employee, draft.start),
         op \notin {"book", "walk_in"} =>
           /\ Stored(i)
           /\ "status" \in set => draft.status # "booked"
           /\ "status" \in set /\ draft.status = "completed" => "completedAt" \in set
           /\ "completedAt" \in set => draft.completedAt \in 1 .. now
           /\ op \in {"cancel", "set_status"} => "status" \in set
           /\ "key" \in set => /\ draft.key = SlotKey(draft.employee, draft.start)
                               /\ "employee" \in set \/ "start" \in set
                               /\ "employee" \in set \/ draft.employee = rows[i].employee
                               /\ "start" \in set \/ draft.start = rows[i].start
           /\ "employee" \in set => "reassign" \in Ops /\ "key" \in set
           /\ "start" \in set => "edit" \in Ops
           /\ "start" \in set /\ rows[i].status = "booked" => "key" \in set
  PROVE  RaceInv'
<1>1. /\ reqs'[r] = [op |-> op, at |-> at, id |-> i, actor |-> actor,
                     draft |-> draft, set |-> set]
      /\ \A q \in Requests \ {r} : reqs'[q] = reqs[q]
  BY BeginIsTyped DEF TypeInv
<1>2. (Inserting(r)' <=> op \in {"book", "walk_in"})
        /\ (Releasing(r)' => op \in {"cancel", "set_status"})
  BY <1>1 DEF Inserting, Releasing
<1>3. HandlerSound(r)'
  <2>1. CASE op \in {"book", "walk_in"}
    <3>1. InsertSound(r)'
      BY <1>1, <2>1 DEF InsertSound, Fresh, Stored, Idle
    <3>2. QED
      BY <1>2, <2>1, <3>1 DEF HandlerSound
  <2>2. CASE op \notin {"book", "walk_in"}
    <3>1. StatusSound(r)'
      BY <1>1, <1>2, <2>2 DEF StatusSound
    <3>2. KeySound(r)'
      BY <1>1, <2>2 DEF KeySound
    <3>3. QED
      BY <1>2, <2>2, <3>1, <3>2 DEF HandlerSound
  <2>3. QED
    BY <2>1, <2>2
<1>4. ASSUME NEW q \in Requests \ {r}, ~Idle(q)' PROVE HandlerSound(q)'
  <2>1. ~Idle(q) /\ reqs'[q] = reqs[q] /\ HandlerSound(q)
    BY <1>1, <1>4 DEF Idle, RaceInv
  <2>2. (Inserting(q)' <=> Inserting(q)) /\ (Releasing(q)' <=> Releasing(q))
    BY <2>1 DEF Inserting, Releasing
  <2>3. CASE Inserting(q)
    <3>1. ~Stored(reqs[q].id) /\ reqs[q].id # i
      BY <2>1, <2>3 DEF HandlerSound, InsertSound, Fresh
    <3>2. InsertSound(q)'
      BY <1>1, <2>1, <2>3, <3>1 DEF HandlerSound, InsertSound, Stored, Idle
    <3>3. QED
      BY <2>2, <2>3, <3>2 DEF HandlerSound
  <2>4. CASE ~Inserting(q)
    <3>1. StatusSound(q)' /\ KeySound(q)'
      BY <2>1, <2>2, <2>4 DEF HandlerSound, StatusSound, KeySound
    <3>2. QED
      BY <2>2, <2>4, <3>1 DEF HandlerSound
  <2>5. QED
    BY <2>3, <2>4
<1>5. \A k \in Ids : Stored(k)' => RowSound(rows[k])'
  BY DEF RaceInv, Stored, RowSound
<1>6. QED
  BY <1>3, <1>4, <1>5 DEF RaceInv

\* The draft of an edit: the key it sets is that of the row's employee and the
\* start it sets.
LEMMA EditDraftSound ==
  ASSUME TypeOK, NEW row \in Row, NEW s \in Services \cup {Nil},
         NEW c \in Customers \cup {Nil}, NEW t \in Times \cup {Nil}
  PROVE  LET d == EditDraft(row, s, c, t)
         IN  /\ d.employee = row.employee
             /\ t = Nil => d.start = row.start
             /\ "key" \in EditSet(row, s, c, t) => d.key = SlotKey(d.employee, d.start)
<1> DEFINE r2 == EditedCustomer(EditedService(row, s), c)
           r3 == EditedStart(r2, t)
           d  == EditDraft(row, s, c, t)
<1>1. r2 \in Row /\ r2.employee = row.employee /\ r2.start = row.start /\ r2.status = row.status
  <2> DEFINE r1 == EditedService(row, s)
  <2>1. r1 \in Row /\ r1.employee = row.employee /\ r1.start = row.start /\ r1.status = row.status
    BY ConfigAssumption DEF EditedService, TypeOK, Offer, Row
  <2> HIDE DEF r1
  <2>2. QED
    BY <2>1 DEF EditedCustomer, Row, r1
<1>2. /\ r3.employee = row.employee
      /\ t = Nil => r3.start = row.start
      /\ t # Nil /\ IsOpen(row.status) => r3.key = SlotKey(r3.employee, r3.start)
  <2> HIDE DEF r2
  <2>1. QED
    BY <1>1 DEF EditedStart, Row
<1>3. r3 \in [Fields -> {r3[f] : f \in Fields}]
  BY <1>1 DEF EditedStart, Row, Fields
<1>4. \E duration : d = EditedEnd(r3, s, t, duration)
  BY DEF EditDraft
<1>5. d.employee = r3.employee /\ d.start = r3.start /\ d.key = r3.key
  <2> HIDE DEF r3
  <2>1. QED
    BY <1>3, <1>4 DEF EditedEnd, Fields
<1>6. "key" \in EditSet(row, s, c, t) => t # Nil /\ IsOpen(row.status)
  BY DEF EditSet
<1>7. QED
  BY <1>2, <1>5, <1>6

LEMMA StartKeepsRaceInv ==
  ASSUME TypeInv, RaceInv, NEW r \in Requests, NEW i \in Ids, HandlerStart(r, i)
  PROVE  RaceInv'
<1> USE DEF TypeInv
<1>0. now \in Times /\ now \in 1 .. now /\ now \in Nat
  BY ConfigAssumption DEF TypeOK, Times
<1>1. ASSUME NEW c \in Customers, NEW e \in Employees, NEW l \in Locations,
             NEW s \in Services, NEW t \in Times, Book(r, i, c, e, l, s, t)
      PROVE  RaceInv'
  <2> DEFINE d == NewRow(c, e, l, s, t, "booked")
  <2>1. d \in Row
    BY NewRowIsRow DEF Times, Statuses
  <2>2. IsOpen(d.status) /\ d.key = SlotKey(d.employee, d.start)
    BY DEF NewRow, IsOpen
  <2> HIDE DEF d
  <2>3. /\ Begin(r, "book", "roster", i, Nil, d, Fields) /\ rows' = rows /\ now' = now
        /\ Fresh(i) /\ Idle(r) /\ "book" \in Ops
    BY <1>1 DEF Book, d
  <2>4. QED
    BY <2>1, <2>2, <2>3, BeginKeepsRaceInv
<1>2. ASSUME NEW c \in Customers, NEW e \in Employees, NEW l \in Locations,
             NEW s \in Services, RegisterWalkIn(r, i, c, e, l, s)
      PROVE  RaceInv'
  <2> DEFINE d == NewRow(c, e, l, s, now, "in_progress")
  <2>1. d \in Row
    BY <1>0, NewRowIsRow DEF Statuses
  <2>2. IsOpen(d.status) /\ d.key = SlotKey(d.employee, d.start)
    BY DEF NewRow, IsOpen
  <2> HIDE DEF d
  <2>3. /\ Begin(r, "walk_in", "write", i, Nil, d, Fields) /\ rows' = rows /\ now' = now
        /\ Fresh(i) /\ Idle(r) /\ "walk_in" \in Ops
    BY <1>2 DEF RegisterWalkIn, d
  <2>4. QED
    BY <2>1, <2>2, <2>3, BeginKeepsRaceInv
<1>3. ASSUME NEW to \in Statuses \ {"booked"}, NEW op \in Ops \cap {"cancel", "set_status"},
             NEW actor \in Employees \cup {Nil}, Idle(r), Stored(i),
             Begin(r, op, "write", i, actor, StatusDraft(rows[i], to), StatusSet(to)),
             rows' = rows, now' = now
      PROVE  RaceInv'
  <2> DEFINE d == StatusDraft(rows[i], to)
             F == StatusSet(to)
  <2>1. rows[i] \in Row
    BY <1>3, StoredIsRow
  <2>2. d \in Row /\ F \in SUBSET Fields
    BY <2>1, StatusDraftIsRow
  <2>3. /\ d.status = to
        /\ to = "completed" => d.completedAt = now
        /\ F \cap {"key", "employee", "start"} = {}
        /\ "status" \in F
        /\ "completedAt" \in F <=> to = "completed"
    BY <2>1 DEF StatusDraft, StatusSet, Row
  <2> HIDE DEF d, F
  <2>4. Begin(r, op, "write", i, actor, d, F)
    BY <1>3 DEF d, F
  <2>5. QED
    BY <1>0, <1>3, <2>2, <2>3, <2>4, BeginKeepsRaceInv
<1>4. ASSUME NEW c \in Customers, CancelByCustomer(r, i, c)
      PROVE  RaceInv'
  BY <1>3, <1>4 DEF CancelByCustomer, Readable, Statuses
<1>5. ASSUME NEW actor \in Employees \cup {Nil}, NEW to \in Statuses, SetStatus(r, i, actor, to)
      PROVE  RaceInv'
  <2>1. to # "booked"
    BY <1>5 DEF SetStatus, AllowedTransition
  <2>2. QED
    BY <1>3, <1>5, <2>1 DEF SetStatus, Readable
<1>6. ASSUME NEW e \in Employees, Reassign(r, i, e)
      PROVE  RaceInv'
  <2> DEFINE d == ReassignDraft(rows[i], e)
             F == {"employee", "key"}
  <2>1. Stored(i) /\ rows[i] \in Row
    BY <1>6, StoredIsRow DEF Reassign, Readable
  <2>2. d \in Row /\ F \in SUBSET Fields
    BY <2>1, ReassignDraftIsRow
  <2>3. d.key = SlotKey(d.employee, d.start) /\ d.start = rows[i].start
    BY <2>1 DEF ReassignDraft, Row
  <2> HIDE DEF d
  <2>4. /\ Begin(r, "reassign", "roster", i, Nil, d, F) /\ rows' = rows /\ now' = now
        /\ Idle(r) /\ "reassign" \in Ops
    BY <1>6 DEF Reassign, d
  <2>5. QED
    BY <2>1, <2>2, <2>3, <2>4, BeginKeepsRaceInv
<1>7. ASSUME NEW s \in Services \cup {Nil}, NEW c \in Customers \cup {Nil},
             NEW t \in Times \cup {Nil}, EditReservation(r, i, s, c, t)
      PROVE  RaceInv'
  <2> DEFINE d == EditDraft(rows[i], s, c, t)
             F == EditSet(rows[i], s, c, t)
  <2>1. Stored(i) /\ rows[i] \in Row
    BY <1>7, StoredIsRow DEF EditReservation, Readable
  <2>2. d \in Row /\ F \in SUBSET Fields
    BY <2>1, EditDraftIsRow
  <2>3. /\ d.employee = rows[i].employee
        /\ t = Nil => d.start = rows[i].start
        /\ "key" \in F => d.key = SlotKey(d.employee, d.start)
    BY <2>1, EditDraftSound
  <2>4. /\ F \cap {"status", "completedAt", "employee"} = {}
        /\ "start" \in F <=> t # Nil
        /\ "key" \in F => t # Nil
        /\ t # Nil /\ rows[i].status = "booked" => "key" \in F
    BY DEF EditSet, IsOpen
  <2>5. /\ Begin(r, "edit", "write", i, Nil, d, F) /\ rows' = rows /\ now' = now
        /\ Idle(r) /\ "edit" \in Ops
    BY <1>7 DEF EditReservation
  <2> HIDE DEF d, F
  <2>6. QED
    BY <2>1, <2>2, <2>3, <2>4, <2>5, BeginKeepsRaceInv
<1>8. QED
  BY <1>1, <1>2, <1>4, <1>5, <1>6, <1>7 DEF HandlerStart

\* A read of assertFree, the clock and the rest of the service.
LEMMA QuietKeepsRaceInv ==
  ASSUME TypeInv, RaceInv, rows' = rows, now' \in Nat, now <= now',
         \A q \in Requests : ~Idle(q)' =>
           /\ ~Idle(q)
           /\ reqs'[q].op = reqs[q].op
           /\ reqs'[q].id = reqs[q].id
           /\ reqs'[q].draft = reqs[q].draft
           /\ reqs'[q].set = reqs[q].set
  PROVE  RaceInv'
<1>1. now \in Nat
  BY DEF TypeInv, TypeOK, Times
<1>2. ASSUME NEW k \in Ids, Stored(k)' PROVE RowSound(rows[k])'
  BY <1>1, <1>2 DEF RaceInv, RowSound, Stored
<1>3. ASSUME NEW q \in Requests, ~Idle(q)' PROVE HandlerSound(q)'
  <2>1. HandlerSound(q) /\ (Inserting(q)' <=> Inserting(q)) /\ (Releasing(q)' <=> Releasing(q))
    BY <1>3 DEF RaceInv, Inserting, Releasing
  <2>2. CASE Inserting(q)
    BY <1>3, <2>1, <2>2 DEF HandlerSound, InsertSound, Stored
  <2>3. CASE ~Inserting(q)
    <3>1. StatusSound(q)'
      BY <1>1, <1>3, <2>1, <2>3 DEF HandlerSound, StatusSound
    <3>2. KeySound(q)'
      BY <1>3, <2>1, <2>3 DEF HandlerSound, KeySound
    <3>3. QED
      BY <2>1, <2>3, <3>1, <3>2 DEF HandlerSound
  <2>4. QED
    BY <2>2, <2>3
<1>4. QED
  BY <1>2, <1>3 DEF RaceInv

LEMMA ReadKeepsRaceInv ==
  ASSUME TypeInv, RaceInv, NEW r \in Requests, ReadRoster(r) \/ ReadTaken(r)
  PROVE  RaceInv'
<1>1. rows' = rows /\ now' = now /\ ~Idle(r)
  BY DEF ReadRoster, ReadTaken
<1>2. \/ Done(r)
      \/ \E at \in {"taken", "write"} : reqs' = [reqs EXCEPT ![r].at = at]
  BY DEF ReadRoster, ReadTaken
<1>3. \A q \in Requests : ~Idle(q)' =>
        /\ ~Idle(q)
        /\ reqs'[q].op = reqs[q].op
        /\ reqs'[q].id = reqs[q].id
        /\ reqs'[q].draft = reqs[q].draft
        /\ reqs'[q].set = reqs[q].set
  <2>1. CASE Done(r)
    BY <2>1, DoneIsTyped DEF TypeInv, Idle
  <2>2. ASSUME NEW at \in {"taken", "write"}, reqs' = [reqs EXCEPT ![r].at = at]
        PROVE  \A q \in Requests : ~Idle(q)' =>
                 /\ ~Idle(q)
                 /\ reqs'[q].op = reqs[q].op
                 /\ reqs'[q].id = reqs[q].id
                 /\ reqs'[q].draft = reqs[q].draft
                 /\ reqs'[q].set = reqs[q].set
    <3>1. reqs[r] \in Request
      BY <1>1, BusyIsRequest DEF TypeInv
    <3>2. reqs'[r] = [reqs[r] EXCEPT !.at = at] /\ \A q \in Requests \ {r} : reqs'[q] = reqs[q]
      BY <2>2 DEF TypeInv, TypeOK
    <3>3. QED
      BY <1>1, <3>1, <3>2 DEF Idle, Request
  <2>3. QED
    BY <1>2, <2>1, <2>2
<1>4. now' \in Nat /\ now <= now'
  BY <1>1 DEF TypeInv, TypeOK, Times
<1>5. QED
  BY <1>1, <1>3, <1>4, QuietKeepsRaceInv

LEMMA NextKeepsRaceInv ==
  ASSUME TypeInv, RaceInv, [Next]_vars
  PROVE  RaceInv'
<1>1. ASSUME NEW r \in Requests, HandlerStep(r) PROVE RaceInv'
  BY <1>1, WriteKeepsRaceInv, ReadKeepsRaceInv DEF HandlerStep
<1>2. ASSUME NEW r \in Requests, NEW i \in Ids, HandlerStart(r, i) PROVE RaceInv'
  BY <1>2, StartKeepsRaceInv
<1>3. ASSUME UNCHANGED <<rows, reqs>>, now' \in Nat, now <= now' PROVE RaceInv'
  BY <1>3, QuietKeepsRaceInv DEF Idle
<1>4. now \in Nat
  BY DEF TypeInv, TypeOK, Times
<1>5. CASE RosterChanges \/ StaffChanges \/ CatalogueChanges \/ SiteChanges \/ Tick
  BY <1>3, <1>4, <1>5 DEF RosterChanges, StaffChanges, CatalogueChanges, SiteChanges, Tick
<1>6. CASE UNCHANGED vars
  BY <1>3, <1>4, <1>6 DEF vars
<1>7. QED
  BY <1>1, <1>2, <1>5, <1>6 DEF Next

\* What the rows and the handlers keep, whatever races whatever.
THEOREM Racing == Spec => [](TypeInv /\ RaceInv)
<1>1. Init => RaceInv
  BY DEF Init, RaceInv, Stored, Idle
<1>2. TypeInv /\ RaceInv /\ [Next]_vars => RaceInv'
  BY NextKeepsRaceInv
<1>3. TypeInv <=> TypeOK /\ TargetsStored
  BY DEF TypeInv
<1>4. QED
  BY <1>1, <1>2, <1>3, TypeCorrect, PTL DEF Spec

\* The day report never meets a completed wash without the time it was
\* completed, under any race.
THEOREM CompletedKeepsStamp == Spec => []CompletedIsStamped
<1>1. RaceInv => CompletedIsStamped
  BY DEF RaceInv, RowSound, CompletedIsStamped
<1>2. QED
  BY <1>1, Racing, PTL

\* A job nobody has started keeps its key under any race, as long as starts
\* are not corrected while jobs are handed over.
THEOREM BookedKeepsItsSlot ==
  ASSUME "edit" \notin Ops \/ "reassign" \notin Ops
  PROVE  Spec => []BookedHoldsItsSlot
<1>1. RaceInv => BookedHoldsItsSlot
  BY DEF RaceInv, RowSound, BookedHoldsItsSlot, OneHalfMoves
<1>2. QED
  BY <1>1, Racing, PTL

------------------------------------------------------------------------------
(* Requests for one reservation never overlap (OneAtATime), while any      *)
(* number of requests for different reservations do.  Then no handler's    *)
(* read is stale at its write, and everything the comments of the service  *)
(* promise holds.                                                          *)

\* What every row satisfies: its key goes with its status, its employee and
\* its start, and its stamps go with its status.
RowGood(row) ==
  /\ row.start \in Times
  /\ IsOpen(row.status) => row.key = SlotKey(row.employee, row.start)
  /\ ~IsBlocking(row.status) => row.key = Nil
  /\ (row.completedAt # 0) = (row.status = "completed")
  /\ (row.cancelledAt # 0) = (row.status = "cancelled")

\* The moves of JobLedger, from one row to the next.
Follows(old, new) ==
  \/ /\ AllowedTransition(old.status, new.status)
     /\ new.employee = old.employee /\ new.start = old.start
  \/ /\ IsOpen(old.status) /\ new.status = old.status
     /\ new.start = old.start
  \/ /\ IsBlocking(old.status) /\ new.status = old.status
     /\ new.employee = old.employee

\* A handler between its first read and its write: what it read still stands.
HandlerGood(r) ==
  /\ Inserting(r) => /\ ~Stored(reqs[r].id)
                     /\ IsOpen(reqs[r].draft.status)
  /\ ~Inserting(r) => /\ Merge(rows[reqs[r].id], reqs[r].draft, reqs[r].set) = reqs[r].draft
                      /\ Follows(rows[reqs[r].id], reqs[r].draft)
  /\ reqs[r].op = "set_status" /\ reqs[r].actor # Nil
       => rows[reqs[r].id].employee = reqs[r].actor
  /\ RowGood(Written(r))
  /\ \A q \in Requests \ {r} : ~Idle(q) => reqs[q].id # reqs[r].id

SerialInv ==
  /\ \A i \in Ids : Stored(i) => RowGood(rows[i])
  /\ \A r \in Requests : ~Idle(r) => HandlerGood(r)

Inv == TypeInv /\ SlotKeyUnique /\ SerialInv

------------------------------------------------------------------------------
(* The drafts.                                                             *)

LEMMA StatusDraftGood ==
  ASSUME TypeOK, NEW row \in Row, NEW to \in Statuses, RowGood(row),
         AllowedTransition(row.status, to)
  PROVE  /\ Follows(row, StatusDraft(row, to))
         /\ IsBlocking(to) => RowGood(StatusDraft(row, to))
         /\ ~IsBlocking(to) => RowGood([StatusDraft(row, to) EXCEPT !.key = Nil])
         /\ StatusDraft(row, to).status = to
<1>1. now # 0
  BY ConfigAssumption DEF TypeOK, Times
<1>2. IsOpen(row.status)
  BY DEF AllowedTransition, IsOpen
<1>3. StatusDraft(row, to).status = to /\ Follows(row, StatusDraft(row, to))
  BY DEF StatusDraft, Follows, Row
<1>4. IsBlocking(to) => RowGood(StatusDraft(row, to))
  BY <1>1, <1>2 DEF StatusDraft, RowGood, Row, IsBlocking, IsOpen
<1>5. ~IsBlocking(to) => RowGood([StatusDraft(row, to) EXCEPT !.key = Nil])
  BY <1>1, <1>2 DEF StatusDraft, RowGood, Row, IsBlocking, IsOpen
<1>6. QED
  BY <1>3, <1>4, <1>5

LEMMA ReassignDraftGood ==
  ASSUME NEW row \in Row, NEW e \in Employees, RowGood(row), IsOpen(row.status)
  PROVE  /\ Follows(row, ReassignDraft(row, e))
         /\ RowGood(ReassignDraft(row, e))
BY DEF ReassignDraft, Follows, RowGood, Row, SlotKey, IsOpen, IsBlocking

LEMMA EditDraftGood ==
  ASSUME TypeOK, NEW row \in Row, NEW s \in Services \cup {Nil},
         NEW c \in Customers \cup {Nil}, NEW t \in Times \cup {Nil},
         RowGood(row), IsBlocking(row.status)
  PROVE  /\ Follows(row, EditDraft(row, s, c, t))
         /\ RowGood(EditDraft(row, s, c, t))
<1> DEFINE r1 == EditedService(row, s)
           r2 == EditedCustomer(r1, c)
           r3 == EditedStart(r2, t)
           d  == EditDraft(row, s, c, t)
           Same(x, y) == /\ x.status = y.status /\ x.employee = y.employee
                         /\ x.completedAt = y.completedAt /\ x.cancelledAt = y.cancelledAt
<1>1. r1 \in Row /\ Same(r1, row) /\ r1.start = row.start /\ r1.key = row.key
  BY ConfigAssumption DEF EditedService, TypeOK, Offer, Row
<1>2. r2 \in Row /\ Same(r2, row) /\ r2.start = row.start /\ r2.key = row.key
  BY <1>1 DEF EditedCustomer, Row
<1>3. /\ Same(r3, row)
      /\ r3.start = (IF t = Nil THEN row.start ELSE t)
      /\ r3.key = (IF t # Nil /\ IsOpen(row.status) THEN SlotKey(row.employee, t) ELSE row.key)
  BY <1>2 DEF EditedStart, Row
<1>4. \E duration : d = EditedEnd(r3, s, t, duration)
  BY DEF EditDraft
<1>5. r3 \in [Fields -> {r3[f] : f \in Fields}]
  BY <1>2 DEF EditedStart, Row, Fields
<1>6. Same(d, r3) /\ d.start = r3.start /\ d.key = r3.key
  <2> HIDE DEF r3
  <2>1. QED
    BY <1>4, <1>5 DEF EditedEnd, Fields
<1>7. Follows(row, d)
  BY <1>3, <1>6 DEF Follows
<1>8. RowGood(d)
  BY <1>3, <1>6 DEF RowGood, IsOpen, IsBlocking
<1>9. QED
  BY <1>7, <1>8
------------------------------------------------------------------------------
(* Steps.                                                                  *)

\* A handler is not disturbed by a step that leaves alone what it carries and
\* the reservation it is about.
LEMMA OthersUndisturbed ==
  ASSUME NEW q \in Requests, HandlerGood(q), ~Idle(q),
         reqs'[q] = reqs[q], rows'[reqs[q].id] = rows[reqs[q].id],
         \A p \in Requests \ {q} : ~Idle(p)' => reqs'[p].id # reqs[q].id
  PROVE  HandlerGood(q)'
BY DEF HandlerGood, Inserting, Releasing, Written, Stored

\* The first step of a handler, when no other handler has its reservation.
LEMMA BeginKeepsSerialInv ==
  ASSUME OneAtATime, TypeInv, SerialInv, NEW r \in Requests, Idle(r),
         NEW op \in Ops, NEW at \in {"roster", "taken", "write"},
         NEW i \in Ids, NEW actor \in Employees \cup {Nil}, NEW draft \in Row,
         NEW set \in SUBSET Fields, Begin(r, op, at, i, actor, draft, set),
         rows' = rows,
         op \in {"book", "walk_in"} => /\ Fresh(i)
                                      /\ IsOpen(draft.status)
                                      /\ RowGood(draft),
         op \notin {"book", "walk_in"} => /\ Readable(i)
                                         /\ Merge(rows[i], draft, set) = draft
                                         /\ Follows(rows[i], draft),
         op \in {"cancel", "set_status"} /\ ~IsBlocking(draft.status)
           => RowGood([draft EXCEPT !.key = Nil]),
         ~(op \in {"cancel", "set_status"} /\ ~IsBlocking(draft.status)) => RowGood(draft),
         op = "set_status" /\ actor # Nil => rows[i].employee = actor
  PROVE  SerialInv'
<1>1. /\ reqs'[r] = [op |-> op, at |-> at, id |-> i, actor |-> actor,
                     draft |-> draft, set |-> set]
      /\ \A q \in Requests \ {r} : reqs'[q] = reqs[q]
  BY BeginIsTyped DEF TypeInv
<1>2. \A q \in Requests \ {r} : ~Idle(q) => reqs[q].id # i
  BY DEF Fresh, Readable
<1>3. ASSUME NEW q \in Requests \ {r}, ~Idle(q)' PROVE HandlerGood(q)'
  <2>1. ~Idle(q) /\ reqs'[q] = reqs[q] /\ HandlerGood(q)
    BY <1>1, <1>3 DEF Idle, SerialInv
  <2>2. ASSUME NEW p \in Requests \ {q}, ~Idle(p)' PROVE reqs'[p].id # reqs[q].id
    BY <1>1, <1>2, <2>1, <2>2 DEF HandlerGood, Idle
  <2>3. QED
    BY <2>1, <2>2, OthersUndisturbed
<1>4. HandlerGood(r)'
  <2>1. Inserting(r)' <=> op \in {"book", "walk_in"}
    BY <1>1 DEF Inserting
  <2>2. Releasing(r)' <=> op \in {"cancel", "set_status"} /\ ~IsBlocking(draft.status)
    BY <1>1 DEF Releasing
  <2>3. RowGood(Written(r))'
    BY <1>1, <2>2 DEF Written, RowGood
  <2>4. \A q \in Requests \ {r} : ~Idle(q)' => reqs'[q].id # reqs'[r].id
    BY <1>1, <1>2 DEF Idle
  <2>5. Inserting(r)' => ~Stored(reqs[r].id)' /\ IsOpen(reqs[r].draft.status)'
    BY <1>1, <2>1 DEF Fresh, Stored
  <2>6. ~Inserting(r)' => /\ Merge(rows[reqs[r].id], reqs[r].draft, reqs[r].set)' = reqs'[r].draft
                          /\ Follows(rows[reqs[r].id], reqs[r].draft)'
    BY <1>1, <2>1 DEF Merge, Follows
  <2>7. reqs'[r].op = "set_status" /\ reqs'[r].actor # Nil
          => rows'[reqs'[r].id].employee = reqs'[r].actor
    BY <1>1
  <2>8. QED
    BY <2>3, <2>4, <2>5, <2>6, <2>7 DEF HandlerGood
<1>5. \A k \in Ids : Stored(k)' => RowGood(rows[k])'
  BY DEF SerialInv, Stored, RowGood
<1>6. QED
  BY <1>3, <1>4, <1>5 DEF SerialInv

LEMMA StartKeepsSerialInv ==
  ASSUME OneAtATime, TypeInv, SerialInv, NEW r \in Requests, NEW i \in Ids, HandlerStart(r, i)
  PROVE  SerialInv'
<1> USE DEF TypeInv
<1>0. Stored(i) => rows[i] \in Row /\ RowGood(rows[i])
  BY StoredIsRow DEF SerialInv
<1>1. ASSUME NEW c \in Customers, NEW e \in Employees, NEW l \in Locations,
             NEW s \in Services, NEW t \in Times, Book(r, i, c, e, l, s, t)
      PROVE  SerialInv'
  <2> DEFINE d == NewRow(c, e, l, s, t, "booked")
  <2>1. d \in Row
    BY NewRowIsRow DEF Times, Statuses
  <2>2. RowGood(d) /\ IsOpen(d.status)
    BY DEF NewRow, RowGood, IsOpen, IsBlocking
  <2> HIDE DEF d
  <2>3. Begin(r, "book", "roster", i, Nil, d, Fields) /\ rows' = rows /\ Fresh(i) /\ Idle(r)
    BY <1>1 DEF Book, d
  <2>4. "book" \in Ops
    BY <1>1 DEF Book
  <2>5. QED
    BY <2>1, <2>2, <2>3, <2>4, BeginKeepsSerialInv
<1>2. ASSUME NEW c \in Customers, NEW e \in Employees, NEW l \in Locations,
             NEW s \in Services, RegisterWalkIn(r, i, c, e, l, s)
      PROVE  SerialInv'
  <2> DEFINE d == NewRow(c, e, l, s, now, "in_progress")
  <2>0. now \in Times /\ now \in Nat
    BY DEF TypeOK, Times
  <2>1. d \in Row
    BY <2>0, NewRowIsRow DEF Statuses
  <2>2. RowGood(d) /\ IsOpen(d.status)
    BY <2>0 DEF NewRow, RowGood, IsOpen, IsBlocking
  <2> HIDE DEF d
  <2>3. Begin(r, "walk_in", "write", i, Nil, d, Fields) /\ rows' = rows /\ Fresh(i) /\ Idle(r)
    BY <1>2 DEF RegisterWalkIn, d
  <2>4. "walk_in" \in Ops
    BY <1>2 DEF RegisterWalkIn
  <2>5. QED
    BY <2>1, <2>2, <2>3, <2>4, BeginKeepsSerialInv
<1>3. ASSUME NEW c \in Customers, CancelByCustomer(r, i, c)
      PROVE  SerialInv'
  <2> DEFINE d == StatusDraft(rows[i], "cancelled")
  <2>1. Stored(i) /\ "cancelled" \in Statuses /\ ~IsBlocking("cancelled")
          /\ AllowedTransition(rows[i].status, "cancelled")
    BY <1>3 DEF CancelByCustomer, Readable, IsOpen, IsBlocking, AllowedTransition, Statuses
  <2>2. /\ d \in Row
        /\ StatusSet("cancelled") \in SUBSET Fields
        /\ Merge(rows[i], d, StatusSet("cancelled")) = d
    BY <1>0, <2>1, StatusDraftIsRow
  <2>3. /\ Follows(rows[i], d)
        /\ RowGood([d EXCEPT !.key = Nil])
        /\ ~IsBlocking(d.status)
    BY <1>0, <2>1, StatusDraftGood
  <2> HIDE DEF d
  <2>4. /\ Begin(r, "cancel", "write", i, Nil, d, StatusSet("cancelled"))
        /\ rows' = rows /\ Readable(i) /\ Idle(r) /\ "cancel" \in Ops
    BY <1>3 DEF CancelByCustomer, d
  <2>5. QED
    BY <2>2, <2>3, <2>4, BeginKeepsSerialInv
<1>4. ASSUME NEW actor \in Employees \cup {Nil}, NEW to \in Statuses, SetStatus(r, i, actor, to)
      PROVE  SerialInv'
  <2> DEFINE d == StatusDraft(rows[i], to)
  <2>1. Stored(i) /\ AllowedTransition(rows[i].status, to)
    BY <1>4 DEF SetStatus, Readable
  <2>2. d \in Row /\ StatusSet(to) \in SUBSET Fields /\ Merge(rows[i], d, StatusSet(to)) = d
    BY <1>0, <2>1, StatusDraftIsRow
  <2>3. /\ Follows(rows[i], d)
        /\ IsBlocking(d.status) => RowGood(d)
        /\ ~IsBlocking(d.status) => RowGood([d EXCEPT !.key = Nil])
    BY <1>0, <2>1, StatusDraftGood
  <2> HIDE DEF d
  <2>4. /\ Begin(r, "set_status", "write", i, actor, d, StatusSet(to))
        /\ rows' = rows /\ Readable(i) /\ Idle(r) /\ "set_status" \in Ops
        /\ actor # Nil => rows[i].employee = actor
    BY <1>4 DEF SetStatus, MayAct, d
  <2>5. QED
    BY <2>2, <2>3, <2>4, BeginKeepsSerialInv
<1>5. ASSUME NEW e \in Employees, Reassign(r, i, e)
      PROVE  SerialInv'
  <2> DEFINE d == ReassignDraft(rows[i], e)
             F == {"employee", "key"}
  <2>1. Stored(i) /\ IsOpen(rows[i].status)
    BY <1>5 DEF Reassign, Readable
  <2>2. d \in Row /\ F \in SUBSET Fields /\ Merge(rows[i], d, F) = d
    BY <1>0, <2>1, ReassignDraftIsRow
  <2>3. Follows(rows[i], d) /\ RowGood(d)
    BY <1>0, <2>1, ReassignDraftGood
  <2> HIDE DEF d
  <2>4. /\ Begin(r, "reassign", "roster", i, Nil, d, F)
        /\ rows' = rows /\ Readable(i) /\ Idle(r) /\ "reassign" \in Ops
    BY <1>5 DEF Reassign, d
  <2>5. QED
    BY <2>2, <2>3, <2>4, BeginKeepsSerialInv
<1>6. ASSUME NEW s \in Services \cup {Nil}, NEW c \in Customers \cup {Nil},
             NEW t \in Times \cup {Nil}, EditReservation(r, i, s, c, t)
      PROVE  SerialInv'
  <2> DEFINE d == EditDraft(rows[i], s, c, t)
             F == EditSet(rows[i], s, c, t)
  <2>1. Stored(i) /\ IsBlocking(rows[i].status)
    BY <1>6 DEF EditReservation, Readable
  <2>2. d \in Row /\ F \in SUBSET Fields /\ Merge(rows[i], d, F) = d
    BY <1>0, <2>1, EditDraftIsRow
  <2>3. Follows(rows[i], d) /\ RowGood(d)
    BY <1>0, <2>1, EditDraftGood
  <2>4. /\ Begin(r, "edit", "write", i, Nil, d, F)
        /\ rows' = rows /\ Readable(i) /\ Idle(r) /\ "edit" \in Ops
    BY <1>6 DEF EditReservation
  <2> HIDE DEF d, F
  <2>5. QED
    BY <2>2, <2>3, <2>4, BeginKeepsSerialInv
<1>7. QED
  BY <1>1, <1>2, <1>3, <1>4, <1>5, <1>6 DEF HandlerStart

\* A read of assertFree moves its handler on, or ends it.
LEMMA ReadKeepsSerialInv ==
  ASSUME TypeInv, SerialInv, NEW r \in Requests, ReadRoster(r) \/ ReadTaken(r)
  PROVE  SerialInv'
<1>1. rows' = rows /\ ~Idle(r)
  BY DEF ReadRoster, ReadTaken
<1>2. \/ Done(r)
      \/ \E at \in {"taken", "write"} : reqs' = [reqs EXCEPT ![r].at = at]
  BY DEF ReadRoster, ReadTaken
<1>3. \A q \in Requests : ~Idle(q)' =>
        /\ ~Idle(q)
        /\ reqs'[q].op = reqs[q].op /\ reqs'[q].id = reqs[q].id
        /\ reqs'[q].actor = reqs[q].actor
        /\ reqs'[q].draft = reqs[q].draft /\ reqs'[q].set = reqs[q].set
  <2>1. CASE Done(r)
    BY <2>1, DoneIsTyped DEF TypeInv, Idle
  <2>2. ASSUME NEW at \in {"taken", "write"}, reqs' = [reqs EXCEPT ![r].at = at]
        PROVE  \A q \in Requests : ~Idle(q)' =>
                 /\ ~Idle(q)
                 /\ reqs'[q].op = reqs[q].op /\ reqs'[q].id = reqs[q].id
                 /\ reqs'[q].actor = reqs[q].actor
                 /\ reqs'[q].draft = reqs[q].draft /\ reqs'[q].set = reqs[q].set
    <3>1. reqs[r] \in Request
      BY <1>1, BusyIsRequest DEF TypeInv
    <3>2. reqs'[r] = [reqs[r] EXCEPT !.at = at] /\ \A q \in Requests \ {r} : reqs'[q] = reqs[q]
      BY <2>2 DEF TypeInv, TypeOK
    <3>3. QED
      BY <1>1, <3>1, <3>2 DEF Idle, Request
  <2>3. QED
    BY <1>2, <2>1, <2>2
<1>4. ASSUME NEW q \in Requests, ~Idle(q)' PROVE HandlerGood(q)'
  BY <1>1, <1>3, <1>4 DEF SerialInv, HandlerGood, Inserting, Releasing, Written, Stored,
                          RowGood, Follows, Merge
<1>5. QED
  BY <1>1, <1>4 DEF SerialInv, Stored, RowGood

\* What a write leaves: the row the handler built from what it read.
LEMMA RowAsDrafted ==
  ASSUME TypeInv, SerialInv, NEW r \in Requests,
         Create(r) \/ UpdateFields(r) \/ UpdateAndReleaseSlot(r),
         rows' # rows
  PROVE  /\ reqs[r].id \in Ids
         /\ HandlerGood(r)
         /\ Written(r) \in Row
         /\ rows' = [rows EXCEPT ![reqs[r].id] = Written(r)]
         /\ KeyFree(reqs[r].id, Written(r).key)
<1>1. ~Idle(r) /\ HandlerGood(r)
  BY DEF Create, UpdateFields, UpdateAndReleaseSlot, SerialInv
<1>2. reqs[r].id \in Ids
  BY <1>1, BusyIsRequest DEF TypeInv
<1>3. PICK row \in Row :
        /\ rows' = [rows EXCEPT ![reqs[r].id] = row]
        /\ KeyFree(reqs[r].id, row.key)
        /\ Inserting(r) => row = reqs[r].draft
        /\ ~Inserting(r) /\ ~Releasing(r)
             => row = Merge(rows[reqs[r].id], reqs[r].draft, reqs[r].set)
        /\ Releasing(r)
             => row = [Merge(rows[reqs[r].id], reqs[r].draft, reqs[r].set) EXCEPT !.key = Nil]
  BY OneRowWritten
<1>4. Releasing(r) => ~Inserting(r)
  BY DEF Releasing, Inserting
<1>5. row = Written(r)
  BY <1>1, <1>3, <1>4 DEF HandlerGood, Written
<1>6. QED
  BY <1>1, <1>2, <1>3, <1>5

LEMMA WriteKeepsSerialInv ==
  ASSUME TypeInv, SerialInv, NEW r \in Requests,
         Create(r) \/ UpdateFields(r) \/ UpdateAndReleaseSlot(r) \/ Abandon(r)
  PROVE  SerialInv'
<1>1. ~Idle(r) /\ Done(r)
  BY DEF Create, UpdateFields, UpdateAndReleaseSlot, Abandon
<1>2. reqs'[r] = Nil /\ \A q \in Requests \ {r} : reqs'[q] = reqs[q]
  BY <1>1, DoneIsTyped DEF TypeInv
<1>3. HandlerGood(r) /\ reqs[r].id \in Ids
  BY <1>1, BusyIsRequest DEF SerialInv, TypeInv
<1>4. /\ \A k \in Ids \ {reqs[r].id} : rows'[k] = rows[k]
      /\ rows'[reqs[r].id] # rows[reqs[r].id] => RowGood(rows'[reqs[r].id])
  <2>1. CASE rows' = rows
    BY <2>1
  <2>2. CASE rows' # rows
    <3>1. Create(r) \/ UpdateFields(r) \/ UpdateAndReleaseSlot(r)
      BY <2>2 DEF Abandon
    <3>2. rows' = [rows EXCEPT ![reqs[r].id] = Written(r)]
      BY <2>2, <3>1, RowAsDrafted
    <3>3. rows'[reqs[r].id] = Written(r) /\ \A k \in Ids \ {reqs[r].id} : rows'[k] = rows[k]
      BY <3>2, <1>3 DEF TypeInv, TypeOK
    <3>4. QED
      BY <3>3, <1>3 DEF HandlerGood
  <2>3. QED
    BY <2>1, <2>2
<1>5. \A k \in Ids : Stored(k)' => RowGood(rows'[k])
  BY <1>4 DEF SerialInv, Stored
<1>6. ASSUME NEW q \in Requests, ~Idle(q)' PROVE HandlerGood(q)'
  <2>1. q # r /\ ~Idle(q) /\ reqs'[q] = reqs[q] /\ HandlerGood(q)
    BY <1>2, <1>6 DEF Idle, SerialInv
  <2>2. reqs[q].id \in Ids /\ reqs[q].id # reqs[r].id
    BY <1>1, <2>1, BusyIsRequest DEF TypeInv, HandlerGood
  <2>3. rows'[reqs[q].id] = rows[reqs[q].id]
    BY <1>4, <2>2
  <2>4. ASSUME NEW p \in Requests \ {q}, ~Idle(p)' PROVE reqs'[p].id # reqs[q].id
    BY <1>2, <2>1, <2>4 DEF HandlerGood, Idle
  <2>5. QED
    BY <2>1, <2>3, <2>4, OthersUndisturbed
<1>7. QED
  BY <1>5, <1>6 DEF SerialInv, RowGood
LEMMA NextKeepsSerialInv ==
  ASSUME OneAtATime, TypeInv, SerialInv, [Next]_vars
  PROVE  SerialInv'
<1>1. ASSUME NEW r \in Requests, HandlerStep(r) PROVE SerialInv'
  BY <1>1, WriteKeepsSerialInv, ReadKeepsSerialInv DEF HandlerStep
<1>2. ASSUME NEW r \in Requests, NEW i \in Ids, HandlerStart(r, i) PROVE SerialInv'
  BY <1>2, StartKeepsSerialInv
<1>3. ASSUME UNCHANGED <<rows, reqs>> PROVE SerialInv'
  BY <1>3 DEF SerialInv, HandlerGood, Idle, Inserting, Releasing, Written, Stored,
              RowGood, Follows, Merge
<1>4. CASE RosterChanges \/ StaffChanges \/ CatalogueChanges \/ SiteChanges \/ Tick
  BY <1>3, <1>4 DEF RosterChanges, StaffChanges, CatalogueChanges, SiteChanges, Tick
<1>5. CASE UNCHANGED vars
  BY <1>3, <1>5 DEF vars
<1>6. QED
  BY <1>1, <1>2, <1>4, <1>5 DEF Next

\* What a handler read still stands when it writes, and every row keeps its
\* key and its stamps with its status.
THEOREM Serial == ASSUME OneAtATime PROVE Spec => []Inv
<1>1. Init => SerialInv
  BY DEF Init, SerialInv, Stored, Idle
<1>2. TypeInv /\ SerialInv /\ [Next]_vars => SerialInv'
  BY NextKeepsSerialInv
<1>3. TypeInv <=> TypeOK /\ TargetsStored
  BY DEF TypeInv
<1>4. TypeInv /\ SlotKeyUnique /\ SerialInv <=> Inv
  BY DEF Inv
<1>5. QED
  BY <1>1, <1>2, <1>3, <1>4, TypeCorrect, KeysUnique, PTL DEF Spec

------------------------------------------------------------------------------
(* What the comments of the service promise, for rows.                     *)

\* A live job always holds the key of the employee and start it is for.
THEOREM OpenKeepsItsSlot == ASSUME OneAtATime PROVE Spec => []OpenHoldsItsSlot
<1>1. Inv => OpenHoldsItsSlot
  BY DEF Inv, SerialInv, RowGood, OpenHoldsItsSlot
<1>2. QED
  BY <1>1, Serial, PTL

\* A cancelled or no-show job never blocks a start.
THEOREM ReleasedKeepsNoKey == ASSUME OneAtATime PROVE Spec => []ReleasedHoldsNoKey
<1>1. Inv => ReleasedHoldsNoKey
  BY DEF Inv, SerialInv, RowGood, ReleasedHoldsNoKey
<1>2. QED
  BY <1>1, Serial, PTL

\* Two live jobs never share an employee and a start: the key of each is that
\* pair, and the index keeps the keys apart.
THEOREM NoDoubleBooking == ASSUME OneAtATime PROVE Spec => []NoTwoOpenAtOneStart
<1>1. Inv => NoTwoOpenAtOneStart
  <2> SUFFICES ASSUME Inv, NEW i \in Ids, NEW k \in Ids, i # k,
                      Stored(i), IsOpen(rows[i].status),
                      Stored(k), IsOpen(rows[k].status),
                      rows[i].employee = rows[k].employee, rows[i].start = rows[k].start
               PROVE  FALSE
    BY DEF NoTwoOpenAtOneStart
  <2>1. rows[i] \in Row /\ RowGood(rows[i]) /\ RowGood(rows[k])
    BY StoredIsRow DEF Inv, TypeInv, SerialInv
  <2>2. rows[i].key = rows[k].key
    BY <2>1 DEF RowGood
  <2>3. rows[i].key \in Employees \X Nat
    BY <2>1 DEF RowGood, SlotKey, Row
  <2>4. rows[i].key # Nil
    BY <2>3, NilAssumption
  <2>5. QED
    BY <2>2, <2>4 DEF Inv, SlotKeyUnique
<1>2. QED
  BY <1>1, Serial, PTL

\* A job carries the stamp of its end, and no other.
THEOREM StampsFollowStatus == ASSUME OneAtATime PROVE Spec => []StampsMatchStatus
<1>1. Inv => StampsMatchStatus
  BY DEF Inv, SerialInv, RowGood, StampsMatchStatus
<1>2. QED
  BY <1>1, Serial, PTL

------------------------------------------------------------------------------
(* And for steps.                                                          *)

\* A row that exists and changes makes one of the ledger's moves.
LEMMA RowsFollow ==
  ASSUME TypeInv, SerialInv, [Next]_vars, NEW i \in Ids, Stored(i), rows'[i] # rows[i]
  PROVE  Follows(rows[i], rows'[i])
<1>1. PICK r \in Requests : Create(r) \/ UpdateFields(r) \/ UpdateAndReleaseSlot(r)
  BY OnlyWritesWrite
<1>2. /\ reqs[r].id \in Ids
      /\ HandlerGood(r)
      /\ rows' = [rows EXCEPT ![reqs[r].id] = Written(r)]
  BY <1>1, RowAsDrafted
<1>3. i = reqs[r].id /\ rows'[i] = Written(r)
  BY <1>2 DEF TypeInv, TypeOK
<1>4. ~Inserting(r) /\ Follows(rows[i], reqs[r].draft)
  BY <1>2, <1>3 DEF HandlerGood
<1>5. reqs[r].draft \in Row
  BY <1>1, BusyIsRequest DEF TypeInv, Create, UpdateFields, UpdateAndReleaseSlot
<1>6. QED
  BY <1>3, <1>4, <1>5 DEF Written, Follows, Row

\* Completed work is frozen: no request moves the bonus of a finished wash.
THEOREM CompletedStaysFrozen == ASSUME OneAtATime PROVE Spec => CompletedIsFrozen
<1>1. ASSUME Inv, [Next]_vars
      PROVE  [\A i \in Ids : Stored(i) /\ rows[i].status = "completed"
                 => rows'[i].employee = rows[i].employee]_rows
  BY <1>1, RowsFollow DEF Inv, Follows, AllowedTransition, IsOpen
<1>2. QED
  BY <1>1, Serial, PTL DEF Spec, CompletedIsFrozen

\* There is no path back from a job that is over.
THEOREM TerminalStays == ASSUME OneAtATime PROVE Spec => TerminalIsTerminal
<1>1. ASSUME Inv, [Next]_vars
      PROVE  [\A i \in Ids : Stored(i) /\ ~IsOpen(rows[i].status)
                 => rows'[i].status = rows[i].status]_rows
  BY <1>1, RowsFollow DEF Inv, Follows, AllowedTransition, IsOpen
<1>2. QED
  BY <1>1, Serial, PTL DEF Spec, TerminalIsTerminal

\* An employee's request writes a job only while it is that employee's.
THEOREM OnlyOwnWork == ASSUME OneAtATime PROVE Spec => OwnWork
<1>1. ASSUME Inv, [Next]_vars
      PROVE  [\A r \in Requests :
                 /\ ~Idle(r) /\ reqs[r].op = "set_status" /\ reqs[r].actor # Nil
                 /\ rows'[reqs[r].id] # rows[reqs[r].id]
                 /\ reqs'[r] = Nil
                 => rows[reqs[r].id].employee = reqs[r].actor]_vars
  BY <1>1 DEF Inv, SerialInv, HandlerGood
<1>2. QED
  BY <1>1, Serial, PTL DEF Spec, OwnWork

------------------------------------------------------------------------------
(* The ledger.                                                             *)

LEMMA LedgerInit == Init => Ledger!Init
BY DEF Init, Ledger!Init

\* A write is one move of the ledger: the draft says which, and the index says
\* that the slot it takes is free.
LEMMA LedgerStep ==
  ASSUME Inv, [Next]_vars, rows' # rows
  PROVE  Ledger!Next
<1> USE DEF Inv
<1> DEFINE job == [k \in Ids |-> IF rows[k] = Nil THEN Nil ELSE JobOf(rows[k])]
<1>1. PICK r \in Requests : Create(r) \/ UpdateFields(r) \/ UpdateAndReleaseSlot(r)
  BY OnlyWritesWrite
<1>2. PICK i \in Ids, new \in Row :
        /\ i = reqs[r].id /\ new = Written(r)
        /\ HandlerGood(r)
        /\ rows' = [rows EXCEPT ![i] = new]
        /\ KeyFree(i, new.key)
  BY <1>1, RowAsDrafted
<1>3. RowGood(new) /\ new # Nil
  BY <1>2, NilAssumption DEF HandlerGood
<1>4. reqs[r].draft \in Row
  BY <1>1, BusyIsRequest DEF TypeInv, Create, UpdateFields, UpdateAndReleaseSlot
<1>5. JobOf(new) = JobOf(reqs[r].draft)
  BY <1>2, <1>4 DEF Written, JobOf, Row
<1>6. /\ job' = [job EXCEPT ![i] = JobOf(new)]
      /\ JobOf(new) = [status |-> new.status, employee |-> new.employee, start |-> new.start]
  BY <1>2, <1>3 DEF TypeInv, TypeOK, JobOf
<1>7. ASSUME IsOpen(new.status), NEW k \in Ids \ {i}, rows[k] # Nil,
             IsOpen(rows[k].status), rows[k].employee = new.employee,
             rows[k].start = new.start
      PROVE  FALSE
  <2>1. new.key = SlotKey(new.employee, new.start) /\ rows[k].key = new.key
    BY <1>3, <1>7 DEF SerialInv, Stored, RowGood
  <2>2. new.key # Nil
    BY <1>2, <2>1, NilAssumption DEF SlotKey, Row
  <2>3. QED
    BY <1>2, <1>7, <2>1, <2>2 DEF KeyFree, Stored
<1>8. PICK status \in Statuses, e \in Employees, t \in Times :
        status = new.status /\ e = new.employee /\ t = new.start
  BY <1>2, <1>3 DEF Row, RowGood
<1>9. IsOpen(status) => Ledger!SlotFree(i, e, t)
  BY <1>7, <1>8 DEF Ledger!SlotFree, Ledger!IsOpen, JobOf, IsOpen
<1>10. CASE Inserting(r)
  <2>1. job[i] = Nil /\ status \in {"booked", "in_progress"}
    BY <1>2, <1>4, <1>5, <1>8, <1>10 DEF HandlerGood, Stored, JobOf, IsOpen
  <2>2. Ledger!Take(i, e, t)
    BY <1>6, <1>8, <1>9, <2>1 DEF Ledger!Take, IsOpen
  <2>3. QED
    BY <2>2 DEF Ledger!Next
<1>11. CASE ~Inserting(r)
  <2>1. PICK old \in Row :
          /\ old = rows[i] /\ Stored(i)
          /\ Follows(old, reqs[r].draft)
    BY <1>1, <1>2, <1>11, StoredIsRow DEF HandlerGood, TypeInv, TargetsStored,
       Create, UpdateFields, UpdateAndReleaseSlot
  <2>2. Follows(old, new)
    BY <1>5, <2>1 DEF Follows, JobOf
  <2>3. /\ job[i] = JobOf(old) /\ job[i] # Nil
        /\ JobOf(old) = [status |-> old.status, employee |-> old.employee, start |-> old.start]
    BY <1>2, <2>1, NilAssumption DEF Stored, JobOf, Row
  <2>4. CASE /\ AllowedTransition(old.status, new.status)
             /\ new.employee = old.employee /\ new.start = old.start
    <3>1. [job[i] EXCEPT !.status = status] = JobOf(new)
      BY <1>6, <1>8, <2>3, <2>4
    <3>2. AllowedTransition(job[i].status, status)
      BY <1>8, <2>3, <2>4
    <3>3. Ledger!Advance(i, status)
      BY <1>6, <2>3, <3>1, <3>2 DEF Ledger!Advance, Ledger!AllowedTransition, Ledger!Statuses,
         AllowedTransition, Statuses
    <3>4. QED
      BY <3>3 DEF Ledger!Next, Ledger!Statuses, Statuses
  <2>5. CASE /\ IsOpen(old.status) /\ new.status = old.status
             /\ new.start = old.start
    <3>1. [job[i] EXCEPT !.employee = e] = JobOf(new)
      BY <1>6, <1>8, <2>3, <2>5
    <3>2. IsOpen(job[i].status) /\ job[i].start = t /\ IsOpen(status)
      BY <1>8, <2>3, <2>5
    <3>3. Ledger!HandOver(i, e)
      BY <1>6, <1>9, <2>3, <3>1, <3>2 DEF Ledger!HandOver, Ledger!IsOpen, IsOpen
    <3>4. QED
      BY <3>3 DEF Ledger!Next
  <2>6. CASE /\ IsBlocking(old.status) /\ new.status = old.status
             /\ new.employee = old.employee
    <3>1. [job[i] EXCEPT !.start = t] = JobOf(new)
      BY <1>6, <1>8, <2>3, <2>6
    <3>2. IsBlocking(job[i].status) /\ job[i].employee = e /\ job[i].status = status
      BY <1>8, <2>3, <2>6
    <3>3. Ledger!Correct(i, t)
      BY <1>6, <1>9, <2>3, <3>1, <3>2 DEF Ledger!Correct, Ledger!IsBlocking, Ledger!IsOpen,
         IsBlocking, IsOpen
    <3>4. QED
      BY <3>3 DEF Ledger!Next
  <2>7. QED
    BY <2>2, <2>4, <2>5, <2>6 DEF Follows
<1>12. QED
  BY <1>10, <1>11

\* Every write of every handler is one step of the ledger, so whatever holds of
\* the ledger holds of the reservations.
THEOREM ImplementsLedger == ASSUME OneAtATime PROVE Spec => KeepsTheLedger
<1>1. ASSUME Inv, [Next]_vars
      PROVE  [Ledger!Next]_([i \in Ids |-> IF rows[i] = Nil THEN Nil ELSE JobOf(rows[i])])
  <2>1. CASE rows' = rows
    BY <2>1
  <2>2. CASE rows' # rows
    BY <1>1, <2>2, LedgerStep
  <2>3. QED
    BY <2>1, <2>2
<1>2. QED
  BY <1>1, LedgerInit, Serial, PTL DEF Spec, KeepsTheLedger, Ledger!Spec

------------------------------------------------------------------------------
(* What a step does to one handler and to one row.                         *)

\* A handler that starts leaves the others, and every row, alone.
LEMMA StartTouchesOne ==
  ASSUME TypeInv, NEW r \in Requests, NEW i \in Ids, HandlerStart(r, i)
  PROVE  Idle(r) /\ rows' = rows /\ \A q \in Requests \ {r} : reqs'[q] = reqs[q]
<1>1. Idle(r) /\ rows' = rows /\ \E new : reqs' = [reqs EXCEPT ![r] = new]
  BY DEF HandlerStart, Book, RegisterWalkIn, CancelByCustomer, SetStatus, Reassign,
         EditReservation, Begin
<1> QED
  BY <1>1 DEF TypeInv, TypeOK

\* A handler carries what it decided to its write; it gets there by its reads.
LEMMA CarriesOn ==
  ASSUME TypeInv, [Next]_vars, NEW q \in Requests, ~Idle(q), ~Idle(q)'
  PROVE  /\ reqs'[q].op = reqs[q].op /\ reqs'[q].id = reqs[q].id
         /\ reqs'[q].draft = reqs[q].draft /\ reqs'[q].set = reqs[q].set
         /\ \/ reqs'[q].at = reqs[q].at
            \/ ReadRoster(q) /\ reqs[q].at = "roster" /\ reqs'[q].at = "taken"
            \/ ReadTaken(q) /\ reqs[q].at = "taken" /\ reqs'[q].at = "write"
<1>1. CASE reqs'[q] = reqs[q]
  BY <1>1
<1>2. ASSUME NEW r \in Requests, Done(r) PROVE reqs'[q] = reqs[q]
  BY <1>2, DoneIsTyped DEF TypeInv, Idle
<1>3. ASSUME NEW r \in Requests, NEW i \in Ids, HandlerStart(r, i) PROVE reqs'[q] = reqs[q]
  BY <1>3, StartTouchesOne
<1>4. CASE RosterChanges \/ StaffChanges \/ CatalogueChanges \/ SiteChanges \/ Tick \/ UNCHANGED vars
  BY <1>1, <1>4 DEF RosterChanges, StaffChanges, CatalogueChanges, SiteChanges, Tick, vars
<1>5. ASSUME NEW r \in Requests, Create(r) \/ UpdateFields(r) \/ UpdateAndReleaseSlot(r) \/ Abandon(r)
      PROVE  reqs'[q] = reqs[q]
  BY <1>2, <1>5 DEF Create, UpdateFields, UpdateAndReleaseSlot, Abandon
<1>6. ASSUME NEW r \in Requests, NEW at \in {"taken", "write"},
             reqs' = [reqs EXCEPT ![r].at = at], reqs'[q] # reqs[q]
      PROVE  /\ q = r /\ reqs'[q].op = reqs[q].op /\ reqs'[q].id = reqs[q].id
             /\ reqs'[q].draft = reqs[q].draft /\ reqs'[q].set = reqs[q].set
             /\ reqs'[q].at = at
  <2>1. q = r /\ reqs'[q] = [reqs[q] EXCEPT !.at = at]
    BY <1>6 DEF TypeInv, TypeOK
  <2>2. reqs[q] \in Request
    BY BusyIsRequest DEF TypeInv
  <2> QED
    BY <2>1, <2>2 DEF Request
<1>7. ASSUME NEW r \in Requests, ReadRoster(r), reqs'[q] # reqs[q]
      PROVE  /\ reqs'[q].op = reqs[q].op /\ reqs'[q].id = reqs[q].id
             /\ reqs'[q].draft = reqs[q].draft /\ reqs'[q].set = reqs[q].set
             /\ ReadRoster(q) /\ reqs[q].at = "roster" /\ reqs'[q].at = "taken"
  <2>1. ~Done(r)
    BY <1>2, <1>7
  <2>2. reqs' = [reqs EXCEPT ![r].at = "taken"] /\ reqs[r].at = "roster"
    BY <1>7, <2>1 DEF ReadRoster
  <2> QED
    BY <1>6, <1>7, <2>2
<1>8. ASSUME NEW r \in Requests, ReadTaken(r), reqs'[q] # reqs[q]
      PROVE  /\ reqs'[q].op = reqs[q].op /\ reqs'[q].id = reqs[q].id
             /\ reqs'[q].draft = reqs[q].draft /\ reqs'[q].set = reqs[q].set
             /\ ReadTaken(q) /\ reqs[q].at = "taken" /\ reqs'[q].at = "write"
  <2>1. ~Done(r)
    BY <1>2, <1>8
  <2>2. reqs' = [reqs EXCEPT ![r].at = "write"] /\ reqs[r].at = "taken"
    BY <1>8, <2>1 DEF ReadTaken
  <2> QED
    BY <1>6, <1>8, <2>2
<1> QED
  BY <1>1, <1>3, <1>4, <1>5, <1>7, <1>8 DEF Next, HandlerStep

\* A handler that was idle has just started.
LEMMA HasStarted ==
  ASSUME TypeInv, [Next]_vars, NEW q \in Requests, Idle(q), ~Idle(q)'
  PROVE  rows' = rows /\ \E i \in Ids : HandlerStart(q, i)
<1>1. ASSUME NEW r \in Requests, NEW i \in Ids, HandlerStart(r, i) PROVE r = q
  BY <1>1, StartTouchesOne DEF Idle
<1>2. ASSUME NEW r \in Requests, HandlerStep(r) PROVE FALSE
  <2>1. ~Idle(r)
    BY <1>2 DEF HandlerStep, ReadRoster, ReadTaken, Create, UpdateFields, UpdateAndReleaseSlot, Abandon
  <2>2. r # q /\ \E new : reqs' = [reqs EXCEPT ![r] = new]
    BY <1>2, <2>1 DEF HandlerStep, ReadRoster, ReadTaken, Create, UpdateFields,
                      UpdateAndReleaseSlot, Abandon, Done
  <2> QED
    BY <2>2 DEF TypeInv, TypeOK, Idle
<1>3. ~(RosterChanges \/ StaffChanges \/ CatalogueChanges \/ SiteChanges \/ Tick \/ UNCHANGED vars)
  BY DEF RosterChanges, StaffChanges, CatalogueChanges, SiteChanges, Tick, vars, Idle
<1> QED
  BY <1>1, <1>2, <1>3, StartTouchesOne DEF Next

\* What a handler's write does to the row it is about, the key apart.
LEMMA FieldsWritten ==
  ASSUME TypeInv, NEW r \in Requests,
         Create(r) \/ UpdateFields(r) \/ UpdateAndReleaseSlot(r), rows' # rows
  PROVE  /\ reqs[r].id \in Ids /\ ~Idle(r) /\ reqs[r].at = "write" /\ Done(r)
         /\ rows'[reqs[r].id] \in Row
         /\ \A k \in Ids \ {reqs[r].id} : rows'[k] = rows[k]
         /\ Inserting(r) => rows'[reqs[r].id] = reqs[r].draft
         /\ ~Inserting(r) =>
              /\ Stored(reqs[r].id) /\ rows[reqs[r].id] \in Row
              /\ \A f \in Fields \ {"key"} :
                   rows'[reqs[r].id][f] = IF f \in reqs[r].set THEN reqs[r].draft[f]
                                                               ELSE rows[reqs[r].id][f]
<1>1. ~Idle(r) /\ reqs[r].at = "write" /\ Done(r)
  BY DEF Create, UpdateFields, UpdateAndReleaseSlot
<1>2. reqs[r].id \in Ids /\ reqs[r].draft \in Row /\ reqs[r].set \in SUBSET Fields
  BY <1>1, BusyIsRequest DEF TypeInv
<1> DEFINE old == rows[reqs[r].id]
           merged == Merge(old, reqs[r].draft, reqs[r].set)
<1>3. PICK row \in Row :
        /\ rows' = [rows EXCEPT ![reqs[r].id] = row]
        /\ Inserting(r) => row = reqs[r].draft
        /\ ~Inserting(r) /\ ~Releasing(r) => row = merged
        /\ Releasing(r) => row = [merged EXCEPT !.key = Nil]
  BY OneRowWritten
<1>4. rows'[reqs[r].id] = row /\ \A k \in Ids \ {reqs[r].id} : rows'[k] = rows[k]
  BY <1>2, <1>3 DEF TypeInv, TypeOK
<1>5. ASSUME ~Inserting(r)
      PROVE  /\ Stored(reqs[r].id) /\ old \in Row
             /\ \A f \in Fields \ {"key"} : row[f] = IF f \in reqs[r].set THEN reqs[r].draft[f] ELSE old[f]
  <2>1. Stored(reqs[r].id) /\ old \in Row
    BY <1>1, <1>2, <1>5, StoredIsRow DEF TypeInv, TargetsStored
  <2>2. DOMAIN old = Fields /\ DOMAIN merged = Fields
    BY <2>1 DEF Merge, Row, Fields
  <2>3. \A f \in Fields : merged[f] = IF f \in reqs[r].set THEN reqs[r].draft[f] ELSE old[f]
    BY <2>2 DEF Merge
  <2> HIDE DEF merged, old
  <2>4. row = merged \/ row = [merged EXCEPT !.key = Nil]
    BY <1>3, <1>5
  <2> QED
    BY <2>1, <2>2, <2>3, <2>4
<1> QED
  BY <1>1, <1>2, <1>3, <1>4, <1>5

------------------------------------------------------------------------------
(* The roster.                                                             *)

InShift(row) ==
  \E sh \in RosterShifts : /\ sh.employee = row.employee /\ sh.location = row.location
                           /\ sh.start <= row.start /\ row.end <= sh.end

\* Past its read of the roster a handler's draft lies in a shift, and what a
\* status or a hand-over writes leaves the place and the time of a job alone.
PlanSound(r) ==
  /\ reqs[r].op \in {"book", "reassign"} /\ reqs[r].at # "roster" => InShift(reqs[r].draft)
  /\ ~Inserting(r) =>
       /\ reqs[r].set \cap {"location", "start", "end"} = {}
       /\ "employee" \in reqs[r].set => reqs[r].op = "reassign"
       /\ \A f \in {"location", "start", "end"} : reqs[r].draft[f] = rows[reqs[r].id][f]

RosterInv ==
  /\ shifts = RosterShifts
  /\ \A i \in Ids : Stored(i) => InShift(rows[i])
  /\ \A r \in Requests : ~Idle(r) => PlanSound(r)

NoneByHand == Ops \cap {"walk_in", "edit", "roster"} = {}

LEMMA PlannedStart ==
  ASSUME NoneByHand, TypeInv, NEW r \in Requests, NEW i \in Ids, HandlerStart(r, i)
  PROVE  PlanSound(r)'
<1>1. reqs \in [Requests -> Request \cup {Nil}] /\ rows' = rows
  BY StartTouchesOne DEF TypeInv, TypeOK
<1>2. Stored(i) => rows[i] \in Row
  BY StoredIsRow DEF TypeInv
<1>3. ASSUME NEW c \in Customers, NEW e \in Employees, NEW l \in Locations,
             NEW s \in Services, NEW t \in Times, Book(r, i, c, e, l, s, t)
      PROVE  PlanSound(r)'
  BY <1>1, <1>3 DEF Book, Begin, PlanSound, Inserting
<1>4. ASSUME NEW op \in {"cancel", "set_status"}, NEW actor, NEW to \in Statuses, Stored(i),
             Begin(r, op, "write", i, actor, StatusDraft(rows[i], to), StatusSet(to))
      PROVE  PlanSound(r)'
  <2> DEFINE d == StatusDraft(rows[i], to)
  <2>1. \A f \in {"location", "start", "end"} : d[f] = rows[i][f]
    BY <1>2, <1>4 DEF StatusDraft, Row
  <2>2. StatusSet(to) \cap {"location", "start", "end", "employee"} = {}
    BY DEF StatusSet
  <2> HIDE DEF d
  <2>3. reqs'[r] = [op |-> op, at |-> "write", id |-> i, actor |-> actor, draft |-> d,
                    set |-> StatusSet(to)]
    BY <1>1, <1>4 DEF Begin, d
  <2> QED
    BY <1>1, <2>1, <2>2, <2>3 DEF PlanSound, Inserting
<1>5. ASSUME NEW e \in Employees, Reassign(r, i, e) PROVE PlanSound(r)'
  <2> DEFINE d == ReassignDraft(rows[i], e)
  <2>1. \A f \in {"location", "start", "end"} : d[f] = rows[i][f]
    BY <1>2, <1>5 DEF ReassignDraft, Row, Reassign, Readable
  <2> HIDE DEF d
  <2>2. reqs'[r] = [op |-> "reassign", at |-> "roster", id |-> i, actor |-> Nil, draft |-> d,
                    set |-> {"employee", "key"}]
    BY <1>1, <1>5 DEF Reassign, Begin, d
  <2> QED
    BY <1>1, <2>1, <2>2 DEF PlanSound, Inserting
<1>6. ASSUME NEW c \in Customers, CancelByCustomer(r, i, c) PROVE PlanSound(r)'
  <2>1. /\ Stored(i) /\ "cancelled" \in Statuses
        /\ Begin(r, "cancel", "write", i, Nil, StatusDraft(rows[i], "cancelled"), StatusSet("cancelled"))
    BY <1>6 DEF CancelByCustomer, Readable, Statuses
  <2> QED
    BY <1>4, <2>1
<1>7. ASSUME NEW actor \in Employees \cup {Nil}, NEW to \in Statuses, SetStatus(r, i, actor, to)
      PROVE  PlanSound(r)'
  BY <1>4, <1>7 DEF SetStatus, Readable
<1> QED
  BY <1>3, <1>5, <1>6, <1>7 DEF HandlerStart, RegisterWalkIn, EditReservation, NoneByHand

LEMMA NextKeepsRosterInv ==
  ASSUME NoneByHand, TypeInv, RaceInv, RosterInv, [Next]_vars
  PROVE  RosterInv'
<1>1. shifts' = RosterShifts
  <2>1. ASSUME NEW r \in Requests, HandlerStep(r) PROVE shifts' = shifts
    BY <2>1 DEF HandlerStep, ReadRoster, ReadTaken, Create, UpdateFields, UpdateAndReleaseSlot,
                Abandon, world
  <2>2. ASSUME NEW r \in Requests, NEW i \in Ids, HandlerStart(r, i) PROVE shifts' = shifts
    BY <2>2 DEF HandlerStart, Book, RegisterWalkIn, CancelByCustomer, SetStatus, Reassign,
                EditReservation, world
  <2>3. CASE StaffChanges \/ CatalogueChanges \/ SiteChanges \/ Tick \/ UNCHANGED vars
    BY <2>3 DEF StaffChanges, CatalogueChanges, SiteChanges, Tick, vars, world, RosterInv
  <2>4. ~RosterChanges
    BY DEF RosterChanges, NoneByHand
  <2> QED
    BY <2>1, <2>2, <2>3, <2>4 DEF Next, RosterInv
<1>2. \A k \in Ids : /\ Stored(k) => /\ Stored(k)' 
                                     /\ \A f \in {"location", "start", "end"} : rows'[k][f] = rows[k][f]
                     /\ Stored(k)' => InShift(rows'[k])
  <2>1. CASE rows' = rows
    BY <2>1 DEF RosterInv, Stored
  <2>2. CASE rows' # rows
    <3>1. PICK r \in Requests : Create(r) \/ UpdateFields(r) \/ UpdateAndReleaseSlot(r)
      BY <2>2, OnlyWritesWrite
    <3> DEFINE i == reqs[r].id
    <3>2. /\ i \in Ids /\ ~Idle(r) /\ reqs[r].at = "write" /\ rows'[i] \in Row
          /\ \A k \in Ids \ {i} : rows'[k] = rows[k]
          /\ Inserting(r) => rows'[i] = reqs[r].draft
          /\ ~Inserting(r) =>
               /\ Stored(i) /\ rows[i] \in Row
               /\ \A f \in Fields \ {"key"} :
                    rows'[i][f] = IF f \in reqs[r].set THEN reqs[r].draft[f] ELSE rows[i][f]
      BY <2>2, <3>1, FieldsWritten
    <3>3. PlanSound(r) /\ HandlerSound(r) /\ reqs[r].op \in Ops
      BY <3>2, BusyIsRequest DEF RosterInv, RaceInv, TypeInv
    <3>4. rows'[i] # Nil
      BY <3>2, NilAssumption
    <3>5. CASE Inserting(r)
      <4>1. reqs[r].op = "book"
        BY <3>3, <3>5 DEF Inserting, NoneByHand
      <4>2. InShift(rows'[i]) /\ ~Stored(i)
        BY <3>2, <3>3, <3>5, <4>1 DEF PlanSound, HandlerSound, InsertSound
      <4> HIDE DEF i
      <4> QED
        BY <3>2, <3>4, <4>2 DEF RosterInv, Stored
    <3>6. CASE ~Inserting(r)
      <4>1. \A f \in {"location", "start", "end"} : /\ rows'[i][f] = rows[i][f]
                                                   /\ reqs[r].draft[f] = rows[i][f]
        BY <3>2, <3>3, <3>6 DEF PlanSound, Fields
      <4>2. rows'[i].employee = IF "employee" \in reqs[r].set THEN reqs[r].draft.employee
                                                             ELSE rows[i].employee
        BY <3>2, <3>6 DEF Fields
      <4>3. "employee" \in reqs[r].set => InShift(reqs[r].draft)
        BY <3>2, <3>3, <3>6 DEF PlanSound
      <4>4. InShift(rows[i])
        BY <3>2, <3>6 DEF RosterInv
      <4> HIDE DEF i
      <4>5. InShift(rows'[i])
        BY <4>1, <4>2, <4>3, <4>4 DEF InShift
      <4> QED
        BY <3>2, <3>4, <4>1, <4>5 DEF RosterInv, Stored
    <3> QED
      BY <3>5, <3>6
  <2> QED
    BY <2>1, <2>2
<1>3. ASSUME NEW q \in Requests, ~Idle(q)' PROVE PlanSound(q)'
  <2>1. CASE Idle(q)
    BY <1>3, <2>1, HasStarted, PlannedStart
  <2>2. CASE ~Idle(q)
    <3>1. /\ reqs'[q].op = reqs[q].op /\ reqs'[q].id = reqs[q].id
          /\ reqs'[q].draft = reqs[q].draft /\ reqs'[q].set = reqs[q].set
          /\ \/ reqs'[q].at = reqs[q].at
             \/ ReadRoster(q) /\ reqs[q].at = "roster" /\ reqs'[q].at = "taken"
             \/ ReadTaken(q) /\ reqs[q].at = "taken" /\ reqs'[q].at = "write"
      BY <1>3, <2>2, CarriesOn
    <3>2. PlanSound(q) /\ reqs[q].id \in Ids
      BY <2>2, BusyIsRequest DEF RosterInv, TypeInv
    <3>3. ~Inserting(q) => Stored(reqs[q].id)
      BY <2>2 DEF TypeInv, TargetsStored
    <3>4. ReadRoster(q) /\ reqs'[q].at = "taken" /\ reqs[q].at = "roster" => InShift(reqs[q].draft)
      <4>1. SUFFICES ASSUME ReadRoster(q), reqs'[q].at = "taken", reqs[q].at = "roster"
                     PROVE  InShift(reqs[q].draft)
        OBVIOUS
      <4> DEFINE d == reqs[q].draft
      <4>2. ~Done(q)
        BY <1>3, DoneIsTyped DEF Idle, TypeInv
      <4>3. RosterCovers(Rostered(d.employee, d.location, Job(d)), Job(d))
        BY <4>1, <4>2 DEF ReadRoster
      <4>4. \E sh \in Rostered(d.employee, d.location, Job(d)) : sh.start <= d.start /\ d.end <= sh.end
        BY <4>3 DEF RosterCovers, Job
      <4> QED
        BY <4>4 DEF Rostered, RosterInv, InShift
    <3>5. reqs'[q].op \in {"book", "reassign"} /\ reqs'[q].at # "roster" => InShift(reqs'[q].draft)
      BY <3>1, <3>2, <3>4 DEF PlanSound
    <3>6. ~Inserting(q)' =>
            /\ reqs'[q].set \cap {"location", "start", "end"} = {}
            /\ "employee" \in reqs'[q].set => reqs'[q].op = "reassign"
            /\ \A f \in {"location", "start", "end"} : reqs'[q].draft[f] = rows'[reqs'[q].id][f]
      BY <1>2, <3>1, <3>2, <3>3 DEF PlanSound, Inserting
    <3> QED
      BY <3>5, <3>6 DEF PlanSound
  <2> QED
    BY <2>1, <2>2
<1> QED
  BY <1>1, <1>2, <1>3 DEF RosterInv

\* assertFree's first read: however bookings and hand-overs race, as long as
\* rosters stand and the desk puts nothing in by hand, every job that was booked
\* lies in one shift of whoever has it, at its own location.
THEOREM WorkStaysRostered ==
  ASSUME Ops \cap {"walk_in", "edit", "roster"} = {}
  PROVE  Spec => []WorkIsRostered
<1>1. NoneByHand
  BY DEF NoneByHand
<1>2. Init => RosterInv
  BY DEF Init, RosterInv, Stored, Idle
<1>3. TypeInv /\ RaceInv /\ RosterInv /\ [Next]_vars => RosterInv'
  BY <1>1, NextKeepsRosterInv
<1>4. RosterInv => WorkIsRostered
  BY DEF RosterInv, WorkIsRostered, InShift
<1> QED
  BY <1>2, <1>3, <1>4, Racing, PTL DEF Spec

------------------------------------------------------------------------------
(* One handler at a time.                                                  *)

\* A job is clear of every other job of its employee.
Clear(i, job, e) ==
  \A k \in Ids \ {i} : Stored(k) /\ IsBlocking(rows[k].status) /\ rows[k].employee = e
    => ~Overlaps(Job(rows[k]), job)

\* A booking or a hand-over that got past its second read is clear of the rest.
\* A hand-over writes the employee alone, so the time is the row's own.
ClearSound(r) == reqs[r].op \in {"book", "reassign"} =>
  /\ reqs[r].at = "write" => Clear(reqs[r].id, Job(reqs[r].draft), reqs[r].draft.employee)
  /\ reqs[r].op = "reassign" =>
       /\ reqs[r].set = {"employee", "key"}
       /\ Job(reqs[r].draft) = Job(rows[reqs[r].id])

ClearInv == \A r \in Requests : ~Idle(r) => ClearSound(r)

LEMMA ClearStart ==
  ASSUME TypeInv, NEW r \in Requests, NEW i \in Ids, HandlerStart(r, i)
  PROVE  ClearSound(r)'
<1>1. reqs \in [Requests -> Request \cup {Nil}] /\ rows' = rows
  BY StartTouchesOne DEF TypeInv, TypeOK
<1>2. CASE Idle(r) /\ \E op \in {"walk_in", "cancel", "set_status", "edit"} : \E at, a, d, set :
             Begin(r, op, at, i, a, d, set)
  BY <1>1, <1>2 DEF Begin, ClearSound
<1>3. ASSUME NEW c \in Customers, NEW e \in Employees, NEW l \in Locations,
             NEW s \in Services, NEW t \in Times, Book(r, i, c, e, l, s, t)
      PROVE  ClearSound(r)'
  BY <1>1, <1>3 DEF Book, Begin, ClearSound
<1>4. ASSUME NEW e \in Employees, Reassign(r, i, e) PROVE ClearSound(r)'
  <2> DEFINE d == ReassignDraft(rows[i], e)
  <2>1. rows[i] \in Row
    BY <1>4, StoredIsRow DEF Reassign, Readable, TypeInv
  <2>2. Job(d) = Job(rows[i])
    BY <2>1 DEF ReassignDraft, Job, Row
  <2> HIDE DEF d
  <2>3. reqs'[r] = [op |-> "reassign", at |-> "roster", id |-> i, actor |-> Nil, draft |-> d,
                    set |-> {"employee", "key"}]
    BY <1>1, <1>4 DEF Reassign, Begin, d
  <2>4. Job(reqs'[r].draft) = Job(rows'[reqs'[r].id])
    BY <1>1, <2>2, <2>3
  <2> QED
    BY <2>3, <2>4 DEF ClearSound, Job
<1> QED
  BY <1>2, <1>3, <1>4 DEF HandlerStart, RegisterWalkIn, CancelByCustomer, SetStatus, EditReservation

\* The one handler, between its reads and its write, meets no change of a row.
LEMMA NextKeepsClearInv ==
  ASSUME \A r, q \in Requests : r = q, TypeInv, ClearInv, [Next]_vars
  PROVE  ClearInv'
<1> SUFFICES ASSUME NEW q \in Requests, ~Idle(q)' PROVE ClearSound(q)'
  BY DEF ClearInv
<1>1. CASE Idle(q)
  BY <1>1, HasStarted, ClearStart
<1>2. CASE ~Idle(q)
  <2>1. /\ reqs'[q].op = reqs[q].op /\ reqs'[q].id = reqs[q].id
        /\ reqs'[q].draft = reqs[q].draft /\ reqs'[q].set = reqs[q].set
        /\ \/ reqs'[q].at = reqs[q].at
           \/ ReadRoster(q) /\ reqs[q].at = "roster" /\ reqs'[q].at = "taken"
           \/ ReadTaken(q) /\ reqs[q].at = "taken" /\ reqs'[q].at = "write"
    BY <1>2, CarriesOn
  <2>2. rows' = rows
    <3>1. ASSUME NEW r \in Requests, Create(r) \/ UpdateFields(r) \/ UpdateAndReleaseSlot(r)
          PROVE  FALSE
      <4>1. Done(r) /\ r = q
        BY <3>1 DEF Create, UpdateFields, UpdateAndReleaseSlot
      <4> QED
        BY <4>1, DoneIsTyped DEF Idle, TypeInv
    <3> QED
      BY <3>1, OnlyWritesWrite
  <2>3. ClearSound(q)
    BY <1>2 DEF ClearInv
  <2>4. ASSUME ReadTaken(q), reqs'[q].at = "write", reqs[q].at = "taken"
        PROVE  Clear(reqs[q].id, Job(reqs[q].draft), reqs[q].draft.employee)
    <3> DEFINE d == reqs[q].draft
    <3>1. ~Done(q)
      BY DoneIsTyped DEF Idle, TypeInv
    <3>2. ~OverlapsAny(Job(d), Taken(d.employee, Job(d), reqs[q].id))
      BY <2>4, <3>1 DEF ReadTaken
    <3>3. ASSUME NEW k \in Ids \ {reqs[q].id}, Stored(k), IsBlocking(rows[k].status),
                 rows[k].employee = d.employee, Overlaps(Job(rows[k]), Job(d))
          PROVE  FALSE
      <4>1. Job(rows[k]) \in Taken(d.employee, Job(d), reqs[q].id)
        BY <3>3 DEF Taken, Job
      <4>2. Overlaps(Job(d), Job(rows[k]))
        BY <3>3 DEF Overlaps
      <4> QED
        BY <3>2, <4>1, <4>2 DEF OverlapsAny
    <3> QED
      BY <3>3 DEF Clear
  <2>5. reqs'[q].op \in {"book", "reassign"} /\ reqs'[q].at = "write"
          => Clear(reqs[q].id, Job(reqs[q].draft), reqs[q].draft.employee)
    BY <2>1, <2>3, <2>4 DEF ClearSound
  <2>6. Clear(reqs[q].id, Job(reqs[q].draft), reqs[q].draft.employee)
          => Clear(reqs[q].id, Job(reqs[q].draft), reqs[q].draft.employee)'
    BY <2>1, <2>2 DEF Clear, Stored, Job
  <2> QED
    BY <2>1, <2>2, <2>3, <2>5, <2>6 DEF ClearSound, Job, Clear
<1> QED
  BY <1>1, <1>2

\* assertFree's second read: when no other request runs, work is booked or handed
\* over only where its employee is on no other job, walk-ins and corrections
\* included.
THEOREM CheckedStaysApart ==
  ASSUME \A r, q \in Requests : r = q
  PROVE  Spec => CheckedWorkIsApart
<1>1. Init => ClearInv
  BY DEF Init, ClearInv, Idle
<1>2. TypeInv /\ ClearInv /\ [Next]_vars => ClearInv'
  BY NextKeepsClearInv
<1>3. ASSUME TypeInv, ClearInv, [Next]_vars, NEW r \in Requests, NEW i \in Ids,
             ~Idle(r), reqs[r].op \in {"book", "reassign"}, reqs[r].id = i, rows'[i] # rows[i]
      PROVE  \A k \in Ids \ {i} :
               Stored(k) /\ IsBlocking(rows[k].status) /\ rows[k].employee = rows'[i].employee
                 => ~Overlaps(Job(rows[k]), Job(rows'[i]))
  <2>1. PICK q \in Requests : Create(q) \/ UpdateFields(q) \/ UpdateAndReleaseSlot(q)
    BY <1>3, OnlyWritesWrite
  <2>2. q = r
    OBVIOUS
  <2>3. /\ reqs[r].at = "write"
        /\ Inserting(r) => rows'[i] = reqs[r].draft
        /\ ~Inserting(r) =>
             \A f \in Fields \ {"key"} : rows'[i][f] = IF f \in reqs[r].set THEN reqs[r].draft[f]
                                                                            ELSE rows[i][f]
    BY <1>3, <2>1, <2>2, FieldsWritten
  <2>4. ClearSound(r)
    BY <1>3 DEF ClearInv
  <2>5. rows'[i].employee = reqs[r].draft.employee /\ Job(rows'[i]) = Job(reqs[r].draft)
    <3>1. CASE Inserting(r)
      BY <2>3, <3>1
    <3>2. CASE ~Inserting(r)
      <4>1. reqs[r].op = "reassign" /\ reqs[r].set = {"employee", "key"}
        BY <1>3, <2>4, <3>2 DEF ClearSound, Inserting
      <4>2. /\ rows'[i].employee = reqs[r].draft.employee
            /\ rows'[i].start = rows[i].start /\ rows'[i].end = rows[i].end
        BY <2>3, <3>2, <4>1 DEF Fields
      <4>3. Job(reqs[r].draft) = Job(rows[i])
        BY <1>3, <2>4, <4>1 DEF ClearSound
      <4> QED
        BY <4>2, <4>3 DEF Job
    <3> QED
      BY <3>1, <3>2
  <2>6. Clear(i, Job(reqs[r].draft), reqs[r].draft.employee)
    BY <1>3, <2>3, <2>4 DEF ClearSound
  <2> QED
    BY <2>5, <2>6 DEF Clear
<1>4. TypeInv /\ ClearInv /\ [Next]_vars =>
        [\A r \in Requests, i \in Ids :
           /\ ~Idle(r) /\ reqs[r].op \in {"book", "reassign"} /\ reqs[r].id = i
           /\ rows'[i] # rows[i]
           => \A k \in Ids \ {i} :
                /\ Stored(k) /\ IsBlocking(rows[k].status)
                /\ rows[k].employee = rows'[i].employee
                => ~Overlaps(Job(rows[k]), Job(rows'[i]))]_rows
  BY <1>3
<1> QED
  BY <1>1, <1>2, <1>4, Racing, PTL DEF Spec, CheckedWorkIsApart

------------------------------------------------------------------------------
(* The terms of a job.                                                     *)

\* What a handler read of the price and the length of the job still stands, or a
\* correction has named the service.
TermsSound(r) ==
  LET row == rows[reqs[r].id]
      d == reqs[r].draft
  IN  \/ Inserting(r)
      \/ reqs[r].op = "edit" /\ "service" \in reqs[r].set
      \/ d.price = row.price /\ d.end - d.start = row.end - row.start

TermsInv == \A r \in Requests : ~Idle(r) => TermsSound(r)

LEMMA EditKeepsTerms ==
  ASSUME NEW row \in Row, NEW c \in Customers \cup {Nil}, NEW t \in Times \cup {Nil}
  PROVE  LET d == EditDraft(row, Nil, c, t)
         IN  d.price = row.price /\ d.end - d.start = row.end - row.start
<1> DEFINE r2 == EditedCustomer(row, c)
           r3 == EditedStart(r2, t)
           length == row.end - row.start
           d  == EditDraft(row, Nil, c, t)
<1>1. r2 \in [Fields -> {r2[f] : f \in Fields}] /\ r2.price = row.price /\ r2.start = row.start
      /\ r2.end = row.end
  BY DEF EditedCustomer, Row, Fields
<1>2. d = EditedEnd(r3, Nil, t, length)
  BY DEF EditDraft, EditedService
<1>3. /\ r3 \in [Fields -> {r3[f] : f \in Fields}]
      /\ r3.price = row.price /\ r3.end = row.end
      /\ r3.start = IF t = Nil THEN row.start ELSE t
  <2> HIDE DEF r2
  <2> QED
    BY <1>1 DEF EditedStart, Fields
<1>4. row.end \in Int /\ row.start \in Int /\ length \in Int
  BY DEF Row
<1>5. CASE t = Nil
  BY <1>2, <1>3, <1>5 DEF EditedEnd
<1>6. CASE t # Nil
  <2>1. t \in Int
    BY <1>6 DEF Times
  <2> HIDE DEF r3, length
  <2>2. d.price = r3.price /\ d.start = r3.start /\ d.end = r3.start + length
    BY <1>2, <1>3, <1>6 DEF EditedEnd, Fields
  <2>3. d.price = row.price /\ d.start = t /\ d.end = t + length
    BY <1>3, <1>6, <2>2
  <2> HIDE DEF d
  <2>4. d.end - d.start = length
    BY <1>4, <2>1, <2>3
  <2> QED
    BY <2>3, <2>4 DEF d, length
<1> QED
  BY <1>5, <1>6

LEMMA TermsStart ==
  ASSUME TypeInv, NEW r \in Requests, NEW i \in Ids, HandlerStart(r, i)
  PROVE  TermsSound(r)'
<1>1. reqs \in [Requests -> Request \cup {Nil}] /\ rows' = rows
  BY StartTouchesOne DEF TypeInv, TypeOK
<1>2. Stored(i) => rows[i] \in Row
  BY StoredIsRow DEF TypeInv
<1>3. ASSUME NEW op, NEW at, NEW a, NEW d, NEW set, Begin(r, op, at, i, a, d, set),
             \/ op \in {"book", "walk_in"}
             \/ op = "edit" /\ "service" \in set
             \/ d.price = rows[i].price /\ d.end - d.start = rows[i].end - rows[i].start
      PROVE  TermsSound(r)'
  <2>1. reqs'[r] = [op |-> op, at |-> at, id |-> i, actor |-> a, draft |-> d, set |-> set]
    BY <1>1, <1>3 DEF Begin
  <2> QED
    BY <1>1, <1>3, <2>1 DEF TermsSound, Inserting
<1>4. ASSUME NEW c \in Customers, NEW e \in Employees, NEW l \in Locations,
             NEW s \in Services, NEW t \in Times, Book(r, i, c, e, l, s, t)
      PROVE  TermsSound(r)'
  BY <1>3, <1>4 DEF Book
<1>5. ASSUME NEW c \in Customers, NEW e \in Employees, NEW l \in Locations,
             NEW s \in Services, RegisterWalkIn(r, i, c, e, l, s)
      PROVE  TermsSound(r)'
  BY <1>3, <1>5 DEF RegisterWalkIn
<1>6. ASSUME NEW op, NEW a, NEW to \in Statuses, Stored(i),
             Begin(r, op, "write", i, a, StatusDraft(rows[i], to), StatusSet(to))
      PROVE  TermsSound(r)'
  <2>1. StatusDraft(rows[i], to).price = rows[i].price /\ StatusDraft(rows[i], to).end = rows[i].end
        /\ StatusDraft(rows[i], to).start = rows[i].start
    BY <1>2, <1>6 DEF StatusDraft, Row
  <2> QED
    BY <1>3, <1>6, <2>1
<1>7. ASSUME NEW c \in Customers, CancelByCustomer(r, i, c) PROVE TermsSound(r)'
  BY <1>6, <1>7 DEF CancelByCustomer, Readable, Statuses
<1>8. ASSUME NEW actor, NEW to \in Statuses, SetStatus(r, i, actor, to) PROVE TermsSound(r)'
  BY <1>6, <1>8 DEF SetStatus, Readable
<1>9. ASSUME NEW e \in Employees, Reassign(r, i, e) PROVE TermsSound(r)'
  <2> DEFINE d == ReassignDraft(rows[i], e)
  <2>1. d.price = rows[i].price /\ d.end = rows[i].end /\ d.start = rows[i].start
    BY <1>2, <1>9 DEF Reassign, Readable, ReassignDraft, Row
  <2> HIDE DEF d
  <2>2. Begin(r, "reassign", "roster", i, Nil, d, {"employee", "key"})
    BY <1>9 DEF Reassign, d
  <2> QED
    BY <1>3, <2>1, <2>2
<1>10. ASSUME NEW s \in Services \cup {Nil}, NEW c \in Customers \cup {Nil},
              NEW t \in Times \cup {Nil}, EditReservation(r, i, s, c, t)
       PROVE  TermsSound(r)'
  <2> DEFINE d == EditDraft(rows[i], s, c, t)
             F == EditSet(rows[i], s, c, t)
  <2>1. rows[i] \in Row
    BY <1>2, <1>10 DEF EditReservation, Readable
  <2>2. s # Nil => "service" \in F
    BY DEF EditSet
  <2>3. s = Nil => d.price = rows[i].price /\ d.end - d.start = rows[i].end - rows[i].start
    BY <2>1, EditKeepsTerms
  <2> HIDE DEF d, F
  <2>4. Begin(r, "edit", "write", i, Nil, d, F)
    BY <1>10 DEF EditReservation, d, F
  <2> QED
    BY <1>3, <2>2, <2>3, <2>4
<1> QED
  BY <1>4, <1>5, <1>7, <1>8, <1>9, <1>10 DEF HandlerStart

LEMMA NextKeepsTermsInv ==
  ASSUME Inv, TermsInv, [Next]_vars
  PROVE  TermsInv'
<1> USE DEF Inv
<1> SUFFICES ASSUME NEW q \in Requests, ~Idle(q)' PROVE TermsSound(q)'
  BY DEF TermsInv
<1>1. CASE Idle(q)
  BY <1>1, HasStarted, TermsStart
<1>2. CASE ~Idle(q)
  <2>1. /\ reqs'[q].op = reqs[q].op /\ reqs'[q].id = reqs[q].id
        /\ reqs'[q].draft = reqs[q].draft /\ reqs'[q].set = reqs[q].set
    BY <1>2, CarriesOn
  <2>2. rows'[reqs[q].id] = rows[reqs[q].id]
    <3>1. ASSUME NEW r \in Requests, Create(r) \/ UpdateFields(r) \/ UpdateAndReleaseSlot(r),
                 rows' # rows
          PROVE  rows'[reqs[q].id] = rows[reqs[q].id]
      <4>1. ~Idle(r) /\ Done(r) /\ \A k \in Ids \ {reqs[r].id} : rows'[k] = rows[k]
        BY <3>1, FieldsWritten
      <4>2. r # q
        BY <4>1, DoneIsTyped DEF Idle, TypeInv
      <4>3. reqs[q].id # reqs[r].id /\ reqs[q].id \in Ids
        BY <1>2, <4>1, <4>2, BusyIsRequest DEF SerialInv, HandlerGood, TypeInv
      <4> QED
        BY <4>1, <4>3
    <3> QED
      BY <3>1, OnlyWritesWrite
  <2>3. TermsSound(q)
    BY <1>2 DEF TermsInv
  <2> QED
    BY <2>1, <2>2, <2>3 DEF TermsSound, Inserting
<1> QED
  BY <1>1, <1>2

\* The price and the length of a job are what was agreed: moving it, handing it over
\* and changing the price list leave them alone, and a correction changes them only
\* when it names the service.
THEOREM TermsAreKept == ASSUME OneAtATime PROVE Spec => TermsMoveOnlyByService
<1>1. Init => TermsInv
  BY DEF Init, TermsInv, Idle
<1>2. Inv /\ TermsInv /\ [Next]_vars => TermsInv'
  BY NextKeepsTermsInv
<1>3. ASSUME Inv, TermsInv, [Next]_vars, NEW i \in Ids, Stored(i),
             \/ rows'[i].price # rows[i].price
             \/ rows'[i].end - rows'[i].start # rows[i].end - rows[i].start
      PROVE  \E r \in Requests :
               ~Idle(r) /\ reqs[r].op = "edit" /\ reqs[r].id = i /\ "service" \in reqs[r].set
  <2>1. rows'[i] # rows[i] /\ rows' # rows
    BY <1>3
  <2>2. PICK r \in Requests : Create(r) \/ UpdateFields(r) \/ UpdateAndReleaseSlot(r)
    BY <1>3, <2>1, OnlyWritesWrite
  <2>3. /\ reqs[r].id \in Ids /\ HandlerGood(r)
        /\ rows' = [rows EXCEPT ![reqs[r].id] = Written(r)]
    BY <1>3, <2>1, <2>2, RowAsDrafted DEF Inv
  <2>4. i = reqs[r].id /\ rows'[i] = Written(r)
    BY <1>3, <2>1, <2>3 DEF Inv, TypeInv, TypeOK
  <2>5. ~Idle(r) /\ reqs[r].draft \in Row /\ ~Inserting(r)
    BY <1>3, <2>2, <2>3, <2>4, BusyIsRequest
    DEF Inv, TypeInv, Create, UpdateFields, UpdateAndReleaseSlot, HandlerGood
  <2>6. /\ Written(r).price = reqs[r].draft.price /\ Written(r).start = reqs[r].draft.start
        /\ Written(r).end = reqs[r].draft.end
    BY <2>5 DEF Written, Row
  <2>7. TermsSound(r)
    BY <1>3, <2>5 DEF TermsInv
  <2> QED
    BY <1>3, <2>4, <2>5, <2>6, <2>7 DEF TermsSound
<1>4. Inv /\ TermsInv /\ [Next]_vars =>
        [\A i \in Ids :
           /\ Stored(i)
           /\ \/ rows'[i].price # rows[i].price
              \/ rows'[i].end - rows'[i].start # rows[i].end - rows[i].start
           => \E r \in Requests :
                /\ ~Idle(r) /\ reqs[r].op = "edit" /\ reqs[r].id = i
                /\ "service" \in reqs[r].set]_rows
  BY <1>3
<1> QED
  BY <1>1, <1>2, <1>4, Serial, PTL DEF Spec, TermsMoveOnlyByService
==============================================================================
