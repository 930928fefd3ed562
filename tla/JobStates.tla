------------------------------ MODULE JobStates ------------------------------
(***************************************************************************)
(* The states of a job and the moves between them: models/reservation.go   *)
(* and allowedTransition in service/reservation_service.go.                *)
(***************************************************************************)

Statuses == {"booked", "in_progress", "completed", "cancelled", "no_show"}

\* Reservation.Blocking, and blockingStatuses: still occupies its time.
IsBlocking(status) == status \notin {"cancelled", "no_show"}

\* Reservation.Open: live, so reassignable and cancellable.
IsOpen(status) == status \in {"booked", "in_progress"}

AllowedTransition(from, to) ==
  \/ from = "booked" /\ to \in Statuses \ {"booked"}
  \/ from = "in_progress" /\ to \in {"completed", "cancelled"}
==============================================================================
