-------------------------------- MODULE Slots --------------------------------
(***************************************************************************)
(* The scheduling rules of internal/service/slots.go: pure functions over  *)
(* half-open time ranges.  Times are naturals (the code compares           *)
(* instants, it never looks inside one), an interval is a record and the   *)
(* slices of shifts and of busy ranges are sets, since neither order nor   *)
(* multiplicity reaches a result.                                          *)
(***************************************************************************)
EXTENDS Integers, FiniteSets

Interval == [start : Nat, end : Nat]

\* Whether two half-open ranges share any time.
Overlaps(i, o) == i.start < o.end /\ o.start < i.end

OverlapsAny(candidate, busy) == \E b \in busy : Overlaps(candidate, b)

\* The first half of FitsInShift: a job of some length, inside one shift.
RosterCovers(shifts, job) ==
  /\ job.start < job.end
  /\ \E s \in shifts : s.start <= job.start /\ job.end <= s.end

\* The check made when a booking is taken: inside one shift, clear of the rest.
FitsInShift(shifts, busy, job) ==
  RosterCovers(shifts, job) /\ ~OverlapsAny(job, busy)

\* The start times a shift is divided into: shift.start, one step apart, each
\* leaving room for the whole job.
Grid(shift, duration, step) ==
  {t \in {shift.start + k * step : k \in 0 .. (shift.end - shift.start)} :
      t + duration <= shift.end}

\* The grid times that pass both tests of the loop.
Bookable(shift, busy, duration, step, notBefore) ==
  {t \in Grid(shift, duration, step) :
      /\ notBefore <= t
      /\ ~OverlapsAny([start |-> t, end |-> t + duration], busy)}

\* The starts offered to a customer: the first maxSlots of them, and none at
\* all for a shift, a duration or a step that makes no sense.
FreeSlots(shift, busy, duration, step, notBefore, maxSlots) ==
  IF duration = 0 \/ step = 0 \/ shift.end <= shift.start
    THEN {}
    ELSE LET free == Bookable(shift, busy, duration, step, notBefore)
         IN  {t \in free : Cardinality({u \in free : u < t}) < maxSlots}
==============================================================================
