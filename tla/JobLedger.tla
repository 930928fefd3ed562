------------------------------ MODULE JobLedger ------------------------------
(***************************************************************************)
(* What the reservation service promises, with every operation one atomic  *)
(* step: the life of a job, who may be doing it, and one open job per      *)
(* employee and start instant.  The promise is the one stated by           *)
(* allowedTransition, by Reassign and by the slot_key of                   *)
(* models.Reservation; module Reservations says how the handlers keep it.  *)
(***************************************************************************)
EXTENDS JobStates

CONSTANTS
  Ids,          \* the identities of the jobs ever recorded
  Employees,
  Times,
  Nil           \* the absence of a job

VARIABLE job    \* job[i] is Nil until the job is recorded

\* No job other than i is open for employee e at instant t.
SlotFree(i, e, t) ==
  \A k \in Ids \ {i} :
    job[k] # Nil => ~(IsOpen(job[k].status) /\ job[k].employee = e /\ job[k].start = t)

Init == job = [i \in Ids |-> Nil]

\* A booking, or a walk-in that is already under way.
Take(i, e, t) ==
  /\ job[i] = Nil
  /\ SlotFree(i, e, t)
  /\ \E s \in {"booked", "in_progress"} :
       job' = [job EXCEPT ![i] = [status |-> s, employee |-> e, start |-> t]]

Advance(i, to) ==
  /\ job[i] # Nil
  /\ AllowedTransition(job[i].status, to)
  /\ job' = [job EXCEPT ![i].status = to]

HandOver(i, e) ==
  /\ job[i] # Nil
  /\ IsOpen(job[i].status)
  /\ SlotFree(i, e, job[i].start)
  /\ job' = [job EXCEPT ![i].employee = e]

\* A manager's correction of the start, finished work included.
Correct(i, t) ==
  /\ job[i] # Nil
  /\ IsBlocking(job[i].status)
  /\ IsOpen(job[i].status) => SlotFree(i, job[i].employee, t)
  /\ job' = [job EXCEPT ![i].start = t]

Next ==
  \E i \in Ids :
    \/ \E e \in Employees, t \in Times : Take(i, e, t)
    \/ \E to \in Statuses : Advance(i, to)
    \/ \E e \in Employees : HandOver(i, e)
    \/ \E t \in Times : Correct(i, t)

Spec == Init /\ [][Next]_job
==============================================================================
