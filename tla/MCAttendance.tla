---------------------------- MODULE MCAttendance ----------------------------
(***************************************************************************)
(* A small instance of Attendance.                                         *)
(***************************************************************************)
EXTENDS Attendance, TLC

Symmetry == Permutations(Ids) \cup Permutations(Requests) \cup Permutations(Employees)
==============================================================================
