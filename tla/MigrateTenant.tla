---------------------------- MODULE MigrateTenant ----------------------------
(***************************************************************************)
(* cmd/migrate-tenant: rows written before there were tenants are given    *)
(* one, and the keys of the two unique indexes, slot_key of a reservation  *)
(* and open_key of a time entry, are rebuilt with the tenant in them.      *)
(*                                                                         *)
(* The command goes collection by collection and row by row, may stop      *)
(* anywhere and is run again; the service goes on booking, moving and      *)
(* releasing meanwhile, here an operation at a time: what crossing ones do *)
(* to each other is in Reservations and Attendance.                        *)
(***************************************************************************)
EXTENDS Integers, FiniteSets

CONSTANTS
  Rows,         \* _ids in the two collections, each given out once
  Tenants,
  Slots,        \* what a key is about: an employee and, for a booking, a start
  Owner,        \* the tenant of each slot's employee
  First,        \* the tenant the business was before it had one
  Nil

\* The collections, in the order the command takes them.
Kinds == {"reservations", "time_entries"}

VARIABLES
  rows,         \* Rows to a row, or Nil
  prog,         \* the command: where it is, or Nil when it does not run
  finished,     \* history: a run for First that wrote has got to its end
  outdated      \* history: rows whose key the command wrote from a slot they had left

vars == <<rows, prog, finished, outdated>>

\* Open: booked or in progress; running.  Completed work keeps its key, everything
\* else that is over has lost it: cancelled, not shown up for, clocked out.
Statuses == {"open", "completed", "released"}

\* SlotKey and OpenKey of models/keys.go; the old form named no tenant.
Key(tenant, slot) == <<tenant, slot>>

Keys == {Key(t, s) : t \in Tenants \cup {Nil}, s \in Slots}

Row ==
  [kind : Kinds, status : Statuses, tenant : Tenants \cup {Nil}, slot : Slots,
   key : Keys \cup {Nil}]

Program ==
  [at : {"backfill", "find", "rewrite"}, kind : Kinds, tenant : Tenants, dry : BOOLEAN,
   todo : SUBSET [id : Rows, slot : Slots, key : Keys \cup {Nil}]]

TypeOK ==
  /\ rows \in [Rows -> Row \cup {Nil}]
  /\ prog \in Program \cup {Nil}
  /\ finished \in BOOLEAN
  /\ outdated \subseteq Rows

Stored(i) == rows[i] # Nil

Live(i) == Stored(i) /\ rows[i].key # Nil

Open(i) == Stored(i) /\ rows[i].status = "open"

\* What a row of slot s can be whose keys name tenant t: completed work that was
\* corrected keeps the key of the time it was booked for.
Written(t, s) ==
  {[kind |-> k, status |-> "open", tenant |-> t, slot |-> s, key |-> Key(t, s)] : k \in Kinds}
    \cup {[kind |-> k, status |-> "released", tenant |-> t, slot |-> s, key |-> Nil] : k \in Kinds}
    \cup {[kind |-> "reservations", status |-> "completed", tenant |-> t, slot |-> s,
           key |-> Key(t, x)] : x \in {y \in Slots : Owner[y] = Owner[s]}}

\* A row from before, or one the service has written since.
Old(s) == Written(Nil, s)
New(s) == Written(Owner[s], s)

\* The unique sparse index of each collection, as it meets key x on row i.
KeyFree(i, kind, x) ==
  \A j \in Rows \ {i} : Live(j) /\ rows[j].kind = kind => rows[j].key # x

Init ==
  /\ rows \in [Rows -> (UNION {Old(s) : s \in {x \in Slots : Owner[x] = First}})
                         \cup (UNION {New(s) : s \in {x \in Slots : Owner[x] # First}}) \cup {Nil}]
  /\ \A i \in Rows : Live(i) => KeyFree(i, rows[i].kind, rows[i].key)
  /\ prog = Nil
  /\ finished = FALSE
  /\ outdated = {}

------------------------------------------------------------------------------
(* The service, at its database.                                           *)

\* A booking or a clock-in; one that meets its key is refused.
Insert(i, kind, s) ==
  /\ ~Stored(i)
  /\ KeyFree(i, kind, Key(Owner[s], s))
  /\ rows' = [rows EXCEPT ![i] =
       [kind |-> kind, status |-> "open", tenant |-> Owner[s], slot |-> s,
        key |-> Key(Owner[s], s)]]
  /\ UNCHANGED <<prog, finished, outdated>>

\* The service reaches rows that have a tenant.
Reached(i) == Stored(i) /\ rows[i].tenant # Nil

\* A cancellation, a no-show or a clock-out.
Release(i) ==
  /\ Reached(i) /\ Open(i)
  /\ rows' = [rows EXCEPT ![i].status = "released", ![i].key = Nil]
  /\ UNCHANGED <<prog, finished, outdated>>

\* A job is done; its key stays.
Complete(i) ==
  /\ Reached(i) /\ Open(i) /\ rows[i].kind = "reservations"
  /\ rows' = [rows EXCEPT ![i].status = "completed"]
  /\ UNCHANGED <<prog, finished, outdated>>

\* An open job goes to another employee (Reassign) or another time (EditReservation),
\* and its key with it.
Move(i, s) ==
  /\ Reached(i) /\ Open(i) /\ rows[i].kind = "reservations" /\ Owner[s] = rows[i].tenant
  /\ KeyFree(i, "reservations", Key(rows[i].tenant, s))
  /\ rows' = [rows EXCEPT ![i].slot = s, ![i].key = Key(rows[i].tenant, s)]
  /\ outdated' = outdated \ {i}
  /\ UNCHANGED <<prog, finished>>

\* EditReservation of completed work moves the time alone.
Correct(i, s) ==
  /\ Reached(i) /\ rows[i].status = "completed" /\ Owner[s] = rows[i].tenant
  /\ rows' = [rows EXCEPT ![i].slot = s]
  /\ UNCHANGED <<prog, finished, outdated>>

------------------------------------------------------------------------------
(* The command.                                                            *)

At(step) == prog # Nil /\ prog.at = step

Todo == IF prog = Nil THEN {} ELSE prog.todo

Run(tenant, dry) ==
  /\ prog = Nil
  /\ prog' = [at |-> "backfill", kind |-> "reservations", tenant |-> tenant, dry |-> dry,
              todo |-> {}]
  /\ UNCHANGED <<rows, finished, outdated>>

\* orphanFilter: no tenant at all.
Orphan(i) == Stored(i) /\ rows[i].tenant = Nil

\* The UpdateMany of one collection.
Backfill ==
  /\ At("backfill")
  /\ rows' = [i \in Rows |->
       IF ~prog.dry /\ Orphan(i) /\ rows[i].kind = prog.kind
         THEN [rows[i] EXCEPT !.tenant = prog.tenant] ELSE rows[i]]
  /\ prog' = IF prog.kind = "reservations"
               THEN [prog EXCEPT !.kind = "time_entries"]
               ELSE [prog EXCEPT !.at = "find", !.kind = "reservations"]
  /\ UNCHANGED <<finished, outdated>>

\* A row that holds nothing is read too.
KeyedFault(i) == Stored(i)

\* The filter of the two rebuilds: the key exists.  It says nothing of a tenant.
Keyed(i) == Live(i)

\* The Find of rebuildSlotKeys or rebuildOpenKeys, and what the cursor decodes: it is
\* looked at from here on in the place of the row.
Find ==
  /\ At("find")
  /\ prog' = [prog EXCEPT !.at = "rewrite",
       !.todo = {[id |-> i, slot |-> rows[i].slot, key |-> rows[i].key] :
                   i \in {j \in Rows : Keyed(j) /\ rows[j].kind = prog.kind}}]
  /\ UNCHANGED <<rows, finished, outdated>>

\* Of the row as it was read.
Wanted(x) == Key(prog.tenant, x.slot)

\* The row is written by its id, whatever became of it since it was read.
WriteKey(x) ==
  /\ KeyFree(x.id, prog.kind, Wanted(x))
  /\ rows' = [rows EXCEPT ![x.id].key = Wanted(x)]
  /\ outdated' = IF rows[x.id].slot = x.slot THEN outdated \ {x.id} ELSE outdated \cup {x.id}
  /\ prog' = [prog EXCEPT !.todo = @ \ {x}]

\* One row of the cursor.  A duplicate key stops the command.
Rewrite(x) ==
  /\ At("rewrite")
  /\ IF prog.dry \/ x.key = Wanted(x)
       THEN UNCHANGED <<rows, outdated>> /\ prog' = [prog EXCEPT !.todo = @ \ {x}]
       ELSE \/ WriteKey(x)
            \/ /\ ~KeyFree(x.id, prog.kind, Wanted(x))
               /\ prog' = Nil /\ UNCHANGED <<rows, outdated>>
  /\ UNCHANGED finished

\* The end of the command; a dry run has seen to nothing.
End ==
  /\ prog' = Nil
  /\ finished' = (finished \/ (~prog.dry /\ prog.tenant = First))

\* The open keys are forgotten.
RebuiltFault ==
  /\ At("rewrite") /\ prog.todo = {}
  /\ End
  /\ UNCHANGED <<rows, outdated>>

\* The cursor is at its end.
Rebuilt ==
  /\ At("rewrite") /\ prog.todo = {}
  /\ IF prog.kind = "reservations"
       THEN prog' = [prog EXCEPT !.at = "find", !.kind = "time_entries"] /\ UNCHANGED finished
       ELSE End
  /\ UNCHANGED <<rows, outdated>>

\* Killed, timed out or cut off from the database.
Stop ==
  /\ prog # Nil
  /\ prog' = Nil
  /\ UNCHANGED <<rows, finished, outdated>>

Serves(i) ==
  \/ \E kind \in Kinds, s \in Slots : Insert(i, kind, s)
  \/ Release(i) \/ Complete(i)
  \/ \E s \in Slots : Move(i, s) \/ Correct(i, s)

Next ==
  \/ \E i \in Rows : Serves(i)
  \/ \E tenant \in Tenants, dry \in BOOLEAN : Run(tenant, dry)
  \/ Backfill \/ Find \/ Rebuilt \/ Stop
  \/ \E x \in Todo : Rewrite(x)

Spec == Init /\ [][Next]_vars

------------------------------------------------------------------------------
(* What the command promises.                                              *)

\* The key of row i is of the form the service writes, and an open row, unless the
\* command wrote over a move it had not seen, holds its own slot and shares it with
\* no other.
Protected(i) ==
  /\ rows[i].key # Nil => \E s \in Slots : rows[i].key = Key(rows[i].tenant, s)
  /\ Open(i) /\ i \notin outdated =>
       /\ rows[i].key = Key(rows[i].tenant, rows[i].slot)
       /\ \A j \in Rows \ {i} : Open(j) /\ j \notin outdated /\ rows[j].kind = rows[i].kind
                                  => rows[j].slot # rows[i].slot

\* However often it was stopped and run again: once a run got to its end no row is
\* left without a tenant and every row is protected.  The one exception is an open job
\* handed over or moved between being read by the command and being rewritten, and it
\* ends with the next move or the next run that finds the job at rest.
FinishedMeansProtected == finished =>
  \A i \in Rows : Stored(i) => rows[i].tenant # Nil /\ Protected(i)

\* What the index on the key is there for ("forbidding two live ones", models/keys.go),
\* once a run got to its end.  A job moved under the cursor breaks it.
NoTwoInOneSlot == finished =>
  \A i, j \in Rows : i # j /\ Open(i) /\ Open(j) /\ rows[i].kind = rows[j].kind
                       => rows[i].slot # rows[j].slot

\* A key that is absent stays absent.  The one exception is a row released
\* between being read by the command and being rewritten: its slot is blocked
\* again, and nothing will release it.
StaysAbsent == \A i \in Rows : Stored(i) /\ ~Live(i) /\ Live(i)' =>
  At("rewrite") /\ \E x \in prog.todo : x.id = i /\ x.key # Nil

AbsentKeyStaysAbsent == [][StaysAbsent]_vars

\* "A row already carrying a different tenant is somebody else's and is left
\* alone" (cmd/migrate-tenant/main.go).
OthersAreLeftAlone == [][
  prog # Nil /\ prog' # prog =>
    \A i \in Rows : Stored(i) /\ rows[i].tenant \notin {Nil, prog.tenant} => rows'[i] = rows[i]]_vars
==============================================================================
