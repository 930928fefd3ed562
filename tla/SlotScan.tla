------------------------------- MODULE SlotScan -------------------------------
(***************************************************************************)
(* The loop of FreeSlots in internal/service/slots.go, one iteration a     *)
(* step.  Slots.FreeSlots is what it should return; the loop finds it by   *)
(* walking the shift with a cap on what it has found.                      *)
(***************************************************************************)
EXTENDS Slots

CONSTANTS
  Shifts,       \* the shifts the function is called with
  Busies,       \* the sets of busy ranges it is called with
  Durations,
  Steps,
  NotBefores,
  MaxSlots      \* maxSlotsPerShift

ASSUME InputAssumption ==
  /\ Shifts \subseteq Interval
  /\ Busies \subseteq SUBSET Interval
  /\ Durations \subseteq Nat
  /\ Steps \subseteq Nat
  /\ NotBefores \subseteq Nat
  /\ MaxSlots \in Nat \ {0}

VARIABLES
  args,         \* what the function was called with
  t,            \* the loop variable
  out,          \* the starts found; they are found in order, each once
  running       \* whether the loop is still going

vars == <<args, t, out, running>>

Args == [shift : Shifts, busy : Busies, duration : Durations, step : Steps,
         notBefore : NotBefores]

TypeOK ==
  /\ args \in Args
  /\ t \in Nat
  /\ out \in SUBSET Nat
  /\ running \in BOOLEAN

\* The definitions named ...Fault are the mistakes the checks are tried
\* against: none of them is used by the specification.

\* A step of nothing let through.
SensibleFault(a) == a.duration > 0 /\ a.shift.start < a.shift.end

\* The guard at the top: anything else offers nothing.
Sensible(a) == a.duration > 0 /\ a.step > 0 /\ a.shift.start < a.shift.end

Init ==
  /\ args \in Args
  /\ t = args.shift.start
  /\ out = {}
  /\ running = Sensible(args)

Candidate == [start |-> t, end |-> t + args.duration]

\* The condition of the loop: the whole job still fits.
Room == t + args.duration <= args.shift.end

FullFault == Cardinality(out) > MaxSlots

Full == Cardinality(out) >= MaxSlots

\* Neither of the two continue statements applies.
Offerable == args.notBefore <= t /\ ~OverlapsAny(Candidate, args.busy)

Iterate ==
  /\ running
  /\ Room /\ ~Full
  /\ out' = IF Offerable THEN out \cup {t} ELSE out
  /\ t' = t + args.step
  /\ UNCHANGED <<args, running>>

Return ==
  /\ running
  /\ ~Room \/ Full
  /\ running' = FALSE
  /\ UNCHANGED <<args, t, out>>

Next == Iterate \/ Return

\* A function call runs on until it returns.
Spec == Init /\ [][Next]_vars /\ WF_vars(Next)

------------------------------------------------------------------------------

Expected ==
  FreeSlots(args.shift, args.busy, args.duration, args.step, args.notBefore, MaxSlots)

\* What is returned is what the definition says: the first MaxSlots bookable
\* starts of the grid, none skipped and none past them.
ReturnsFreeSlots == ~running => out = Expected

\* Whatever is offered passes the test made when it is booked (FitsInShift),
\* against the same shift and bookings, and is not in the past.
OfferedFits ==
  \A u \in out :
    /\ args.notBefore <= u
    /\ FitsInShift({args.shift}, args.busy, [start |-> u, end |-> u + args.duration])

\* The loop ends for every input: a step of zero never enters it.
Returns == <>~running
==============================================================================
