------------------------------ MODULE TimeClock ------------------------------
(***************************************************************************)
(* What attendance promises, with every operation one atomic step: an      *)
(* employee is off the clock or on it since some instant, and what has     *)
(* been put on a timesheet stays as it is.  Module Attendance says how the *)
(* handlers keep it.                                                       *)
(***************************************************************************)
CONSTANTS
  Employees,
  Entries,      \* the identities of the stretches of work ever recorded
  Times,
  Paid,         \* what a stretch from one instant to another is paid as
  Nil           \* off the clock; no sheet

VARIABLES
  onClock,      \* Employees to [entry, since], or Nil
  sheets        \* Entries to [employee, minutes], or Nil

clock == <<onClock, sheets>>

Init ==
  /\ onClock = [e \in Employees |-> Nil]
  /\ sheets = [i \in Entries |-> Nil]

\* Only someone who is off the clock comes on it.
ClockOn(e, i, t) ==
  /\ onClock[e] = Nil
  /\ sheets[i] = Nil
  /\ onClock' = [onClock EXCEPT ![e] = [entry |-> i, since |-> t]]
  /\ UNCHANGED sheets

\* Only someone who is on the clock leaves it, and is paid from when they came.
ClockOff(e, t) ==
  /\ onClock[e] # Nil
  /\ sheets[onClock[e].entry] = Nil
  /\ onClock' = [onClock EXCEPT ![e] = Nil]
  /\ sheets' = [sheets EXCEPT ![onClock[e].entry] =
                  [employee |-> e, minutes |-> Paid[<<onClock[e].since, t>>]]]

Next ==
  \E e \in Employees, t \in Times :
    ClockOff(e, t) \/ \E i \in Entries : ClockOn(e, i, t)

Spec == Init /\ [][Next]_clock
==============================================================================
