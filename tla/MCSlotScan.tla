------------------------------ MODULE MCSlotScan ------------------------------
(***************************************************************************)
(* SlotScan over every shift and every pair of busy ranges of a short day. *)
(***************************************************************************)
EXTENDS SlotScan

CONSTANT LastInstant

Ranges == [start : 0 .. LastInstant, end : 0 .. LastInstant]

\* Inverted and empty shifts are inputs too; a booking has some length.
Bookings == {b \in Ranges : b.start < b.end}

BusyInputs == {{b, c} : b, c \in Bookings} \cup {{}}
==============================================================================
