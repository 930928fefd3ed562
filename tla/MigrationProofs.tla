--------------------------- MODULE MigrationProofs ----------------------------
(***************************************************************************)
(* Theorems about the two migrations that are checked side by side with the*)
(* other parts, for any number of rows and any values of the constants.    *)
(***************************************************************************)
EXTENDS SideBySideProofs

------------------------------------------------------------------------------
(* MigrateTenant.                                                          *)

\* The command holds only rows that exist and had a key when they were read.
TodoSound == \A x \in Tenant!Todo : x.key # Nil /\ Tenant!Stored(x.id)

\* An open row has a key, whoever wrote it.
OpenKeyed == \A i \in Rows : Tenant!Open(i) => tRows[i].key # Nil

TenantTypes == Tenant!TypeOK /\ TodoSound /\ OpenKeyed

\* With one business, the keys there can be: of the form from before, and of today's.
OldKeys == {Tenant!Key(Nil, s) : s \in Slots}

NewKeys == {Tenant!Key(First, s) : s \in Slots}

KeyOf(i) == Tenant!Key(First, tRows[i].slot)

OldKey(i) == Tenant!Key(Nil, tRows[i].slot)

\* An open row holds the slot it is in, unless the command wrote over its move.
OpenSound == \A i \in Rows :
  Tenant!Open(i) /\ i \notin tOutdated => tRows[i].key \in {OldKey(i), KeyOf(i)}

RowsSound ==
  /\ \A i \in Rows : Tenant!Stored(i) => tRows[i].key \in {Nil} \cup OldKeys \cup NewKeys
  /\ \A i, j \in Rows : i # j /\ Tenant!Live(i) /\ Tenant!Live(j) /\ tRows[i].kind = tRows[j].kind
       => tRows[i].key # tRows[j].key

Owned(i) == tRows[i].tenant # Nil

Rekeyed(i) == tRows[i].key \notin OldKeys

\* How far a run that writes has got.
Backfilled(kind) == \A i \in Rows : Tenant!Stored(i) /\ tRows[i].kind = kind => Owned(i)

Rebuilt(kind) == \A i \in Rows : Tenant!Stored(i) /\ tRows[i].kind = kind => Rekeyed(i)

ProgressMade == tProg # Nil /\ ~tProg.dry =>
  /\ tProg.at # "backfill" \/ tProg.kind = "time_entries" => Backfilled("reservations")
  /\ tProg.at # "backfill" => Backfilled("time_entries")
  /\ tProg.at # "backfill" /\ tProg.kind = "time_entries" => Rebuilt("reservations")
  /\ tProg.at = "rewrite" => \A i \in Rows :
       Tenant!Stored(i) /\ tRows[i].kind = tProg.kind /\ ~Rekeyed(i)
         => \E x \in tProg.todo : x.id = i

\* A row the command takes for rebuilt is.
TodoFresh ==
  /\ tProg # Nil /\ tProg.at # "rewrite" => tProg.todo = {}
  /\ \A x \in Tenant!Todo : /\ tRows[x.id].kind = tProg.kind
                            /\ x.key \notin OldKeys => Rekeyed(x.id)

TenantInv ==
  /\ TenantTypes /\ RowsSound /\ OpenSound /\ ProgressMade /\ TodoFresh
  /\ tFinished => \A i \in Rows : Tenant!Stored(i) => Owned(i) /\ Rekeyed(i)

\* What the types say of the command.
LEMMA TenantProgram ==
  ASSUME Tenant!TypeOK, tProg # Nil
  PROVE  /\ tProg \in Tenant!Program
         /\ tProg.at \in {"backfill", "find", "rewrite"} /\ tProg.kind \in Tenant!Kinds
         /\ tProg.tenant \in Businesses /\ tProg.dry \in BOOLEAN
         /\ tProg.todo \in SUBSET [id : Rows, slot : Slots, key : Tenant!Keys \cup {Nil}]
BY DEF Tenant!TypeOK, Tenant!Program

LEMMA TenantRow ==
  ASSUME Tenant!TypeOK, NEW i \in Rows, Tenant!Stored(i)
  PROVE  /\ tRows[i] \in Tenant!Row
         /\ tRows[i].kind \in Tenant!Kinds /\ tRows[i].tenant \in Businesses \cup {Nil}
         /\ tRows[i].slot \in Slots /\ tRows[i].key \in Tenant!Keys \cup {Nil}
BY DEF Tenant!TypeOK, Tenant!Row, Tenant!Stored

\* What each step does to row i, and to no other.
LEMMA TenantWrites ==
  ASSUME Tenant!TypeOK, NEW i \in Rows, NEW new \in Tenant!Row, tRows' = [tRows EXCEPT ![i] = new]
  PROVE  /\ tRows' \in [Rows -> Tenant!Row \cup {Nil}]
         /\ tRows'[i] = new /\ new # Nil
         /\ \A j \in Rows : j # i => tRows'[j] = tRows[j]
BY TenantAssumption DEF Tenant!TypeOK

LEMMA KeyTyped ==
  ASSUME NEW tenant \in Businesses \cup {Nil}, NEW s \in Slots
  PROVE  Tenant!Key(tenant, s) \in Tenant!Keys /\ Tenant!Key(tenant, s) # Nil
<1>1. Tenant!Key(tenant, s) \in Tenant!Keys
  BY DEF Tenant!Keys
<1> QED
  BY <1>1, TenantAssumption

\* A step of the service.
LEMMA InsertRow ==
  ASSUME TenantTypes, NEW i \in Rows, NEW kind \in Tenant!Kinds, NEW s \in Slots,
         Tenant!Insert(i, kind, s)
  PROVE  /\ tRows' \in [Rows -> Tenant!Row \cup {Nil}]
         /\ tRows'[i] # Nil /\ tRows'[i].kind = kind /\ tRows'[i].tenant = Owner[s]
         /\ tRows'[i].slot = s /\ tRows'[i].key = Tenant!Key(Owner[s], s) /\ tRows'[i].key # Nil
         /\ \A j \in Rows : j # i => tRows'[j] = tRows[j]
         /\ tRows[i] = Nil /\ Tenant!KeyFree(i, kind, Tenant!Key(Owner[s], s))
         /\ tProg' = tProg /\ tFinished' = tFinished /\ tOutdated' = tOutdated
<1> DEFINE new == [kind |-> kind, status |-> "open", tenant |-> Owner[s], slot |-> s,
                   key |-> Tenant!Key(Owner[s], s)]
<1>1. Owner[s] \in Businesses
  BY TenantAssumption
<1>2. new \in Tenant!Row /\ new.key # Nil
  BY <1>1, KeyTyped DEF Tenant!Row, Tenant!Statuses
<1>3. /\ tRows' = [tRows EXCEPT ![i] = new] /\ tProg' = tProg /\ tFinished' = tFinished
      /\ tOutdated' = tOutdated
      /\ tRows[i] = Nil /\ Tenant!KeyFree(i, kind, Tenant!Key(Owner[s], s))
  BY DEF Tenant!Insert, Tenant!Stored
<1>4. /\ tRows' \in [Rows -> Tenant!Row \cup {Nil}]
      /\ tRows'[i] = new /\ new # Nil
      /\ \A j \in Rows : j # i => tRows'[j] = tRows[j]
  BY <1>2, <1>3, TenantWrites DEF TenantTypes
<1> QED
  BY <1>2, <1>3, <1>4

\* A row that is closed, by a cancellation or by its completion.
LEMMA CloseRow ==
  ASSUME TenantTypes, NEW i \in Rows, Tenant!Release(i) \/ Tenant!Complete(i)
  PROVE  /\ tRows' \in [Rows -> Tenant!Row \cup {Nil}]
         /\ tRows[i] # Nil /\ tRows'[i] # Nil /\ tRows'[i].kind = tRows[i].kind
         /\ tRows'[i].tenant = tRows[i].tenant /\ tRows'[i].status # "open"
         /\ tRows'[i].key \in {Nil, tRows[i].key}
         /\ \A j \in Rows : j # i => tRows'[j] = tRows[j]
         /\ tProg' = tProg /\ tFinished' = tFinished /\ tOutdated' = tOutdated
<1> DEFINE released == [tRows[i] EXCEPT !.status = "released", !.key = Nil]
           completed == [tRows[i] EXCEPT !.status = "completed"]
<1>1. /\ Tenant!Stored(i) /\ tProg' = tProg /\ tFinished' = tFinished /\ tOutdated' = tOutdated
      /\ \E new \in {released, completed} : tRows' = [tRows EXCEPT ![i] = new]
  BY DEF Tenant!Release, Tenant!Complete, Tenant!Open
<1>2. tRows[i] \in Tenant!Row
  BY <1>1, TenantRow DEF TenantTypes
<1>3. /\ released \in Tenant!Row /\ released.kind = tRows[i].kind /\ released.tenant = tRows[i].tenant
      /\ released.status = "released" /\ released.key = Nil
      /\ completed \in Tenant!Row /\ completed.kind = tRows[i].kind /\ completed.tenant = tRows[i].tenant
      /\ completed.status = "completed" /\ completed.key = tRows[i].key
  BY <1>2 DEF Tenant!Row, Tenant!Statuses
<1> HIDE DEF released, completed
<1>4. PICK new \in {released, completed} : tRows' = [tRows EXCEPT ![i] = new]
  BY <1>1
<1>5. /\ tRows' \in [Rows -> Tenant!Row \cup {Nil}]
      /\ tRows'[i] = new /\ new # Nil
      /\ \A j \in Rows : j # i => tRows'[j] = tRows[j]
  BY <1>3, <1>4, TenantWrites DEF TenantTypes
<1> QED
  BY <1>1, <1>3, <1>5 DEF Tenant!Stored

\* An open job that is handed over or moved.
LEMMA MoveRow ==
  ASSUME TenantTypes, NEW i \in Rows, NEW s \in Slots, Tenant!Move(i, s)
  PROVE  /\ tRows' \in [Rows -> Tenant!Row \cup {Nil}]
         /\ Tenant!Open(i) /\ tRows[i].tenant = Owner[s]
         /\ tRows'[i] # Nil /\ tRows'[i].kind = tRows[i].kind /\ tRows'[i].tenant = Owner[s]
         /\ tRows'[i].slot = s /\ tRows'[i].key = Tenant!Key(Owner[s], s) /\ tRows'[i].key # Nil
         /\ \A j \in Rows : j # i => tRows'[j] = tRows[j]
         /\ Tenant!KeyFree(i, tRows[i].kind, Tenant!Key(Owner[s], s))
         /\ tProg' = tProg /\ tFinished' = tFinished /\ tOutdated' = tOutdated \ {i}
<1> DEFINE new == [tRows[i] EXCEPT !.slot = s, !.key = Tenant!Key(Owner[s], s)]
<1>1. /\ Tenant!Open(i) /\ Tenant!Stored(i) /\ tRows[i].tenant = Owner[s]
      /\ Tenant!KeyFree(i, tRows[i].kind, Tenant!Key(Owner[s], s))
      /\ tRows' = [tRows EXCEPT ![i] = new]
      /\ tProg' = tProg /\ tFinished' = tFinished /\ tOutdated' = tOutdated \ {i}
  BY DEF Tenant!Move, Tenant!Open
<1>2. tRows[i] \in Tenant!Row /\ Owner[s] \in Businesses
  BY <1>1, TenantRow, TenantAssumption DEF TenantTypes
<1>3. Tenant!Key(Owner[s], s) \in Tenant!Keys /\ Tenant!Key(Owner[s], s) # Nil
  BY <1>2, KeyTyped
<1>4. /\ new \in Tenant!Row /\ new.kind = tRows[i].kind /\ new.tenant = Owner[s]
      /\ new.slot = s /\ new.key = Tenant!Key(Owner[s], s)
  BY <1>1, <1>2, <1>3 DEF Tenant!Row
<1> HIDE DEF new
<1>5. /\ tRows' \in [Rows -> Tenant!Row \cup {Nil}]
      /\ tRows'[i] = new /\ new # Nil
      /\ \A j \in Rows : j # i => tRows'[j] = tRows[j]
  BY <1>1, <1>4, TenantWrites DEF TenantTypes
<1> QED
  BY <1>1, <1>3, <1>4, <1>5

\* Completed work whose time is corrected.
LEMMA CorrectRow ==
  ASSUME TenantTypes, NEW i \in Rows, NEW s \in Slots, Tenant!Correct(i, s)
  PROVE  /\ tRows' \in [Rows -> Tenant!Row \cup {Nil}]
         /\ tRows[i] # Nil /\ tRows'[i] # Nil /\ tRows'[i].kind = tRows[i].kind
         /\ tRows'[i].tenant = tRows[i].tenant /\ tRows'[i].status # "open"
         /\ tRows'[i].key = tRows[i].key
         /\ \A j \in Rows : j # i => tRows'[j] = tRows[j]
         /\ tProg' = tProg /\ tFinished' = tFinished /\ tOutdated' = tOutdated
<1> DEFINE new == [tRows[i] EXCEPT !.slot = s]
<1>1. /\ Tenant!Stored(i) /\ tRows[i].status = "completed" /\ tRows' = [tRows EXCEPT ![i] = new]
      /\ tProg' = tProg /\ tFinished' = tFinished /\ tOutdated' = tOutdated
  BY DEF Tenant!Correct, Tenant!Reached
<1>2. tRows[i] \in Tenant!Row
  BY <1>1, TenantRow DEF TenantTypes
<1>3. /\ new \in Tenant!Row /\ new.kind = tRows[i].kind /\ new.tenant = tRows[i].tenant
      /\ new.status = "completed" /\ new.key = tRows[i].key
  BY <1>1, <1>2 DEF Tenant!Row
<1> HIDE DEF new
<1>4. /\ tRows' \in [Rows -> Tenant!Row \cup {Nil}]
      /\ tRows'[i] = new /\ new # Nil
      /\ \A j \in Rows : j # i => tRows'[j] = tRows[j]
  BY <1>1, <1>3, TenantWrites DEF TenantTypes
<1> QED
  BY <1>1, <1>3, <1>4 DEF Tenant!Stored

\* The update of one collection.
LEMMA BackfillRows ==
  ASSUME TenantTypes, Tenant!Backfill
  PROVE  /\ tRows' \in [Rows -> Tenant!Row \cup {Nil}]
         /\ \A i \in Rows :
              /\ tRows'[i] = Nil <=> tRows[i] = Nil
              /\ tRows[i] # Nil =>
                   /\ tRows'[i].kind = tRows[i].kind /\ tRows'[i].slot = tRows[i].slot
                   /\ tRows'[i].key = tRows[i].key /\ tRows'[i].status = tRows[i].status
                   /\ tRows'[i].tenant =
                        IF ~tProg.dry /\ tRows[i].tenant = Nil /\ tRows[i].kind = tProg.kind
                          THEN tProg.tenant ELSE tRows[i].tenant
         /\ tProg # Nil /\ tProg.at = "backfill" /\ tProg' \in Tenant!Program
         /\ tProg'.todo = tProg.todo /\ tProg'.dry = tProg.dry /\ tProg'.tenant = tProg.tenant
         /\ \/ tProg.kind = "reservations" /\ tProg'.at = "backfill" /\ tProg'.kind = "time_entries"
            \/ tProg.kind = "time_entries" /\ tProg'.at = "find" /\ tProg'.kind = "reservations"
         /\ tFinished' = tFinished /\ tOutdated' = tOutdated
<1>1. tProg # Nil /\ tProg.at = "backfill" /\ tFinished' = tFinished /\ tOutdated' = tOutdated
  BY DEF Tenant!Backfill, Tenant!At
<1>2. /\ tProg \in Tenant!Program /\ tProg.kind \in Tenant!Kinds /\ tProg.tenant \in Businesses
      /\ tRows \in [Rows -> Tenant!Row \cup {Nil}]
  BY <1>1, TenantProgram DEF TenantTypes, Tenant!TypeOK
<1>3. tRows' = [i \in Rows |->
        IF ~tProg.dry /\ Tenant!Orphan(i) /\ tRows[i].kind = tProg.kind
          THEN [tRows[i] EXCEPT !.tenant = tProg.tenant] ELSE tRows[i]]
  BY DEF Tenant!Backfill
<1>4. ASSUME NEW i \in Rows, tRows[i] # Nil
      PROVE  LET new == [tRows[i] EXCEPT !.tenant = tProg.tenant]
             IN /\ tRows[i] \in Tenant!Row /\ new \in Tenant!Row /\ new.kind = tRows[i].kind
                /\ new.slot = tRows[i].slot /\ new.key = tRows[i].key /\ new.tenant = tProg.tenant
                /\ new.status = tRows[i].status
  <2>1. tRows[i] \in Tenant!Row
    BY <1>2, <1>4
  <2> QED
    BY <1>2, <2>1 DEF Tenant!Row
<1>5. \A i \in Rows :
        /\ tRows'[i] \in Tenant!Row \cup {Nil}
        /\ tRows'[i] = Nil <=> tRows[i] = Nil
        /\ tRows[i] # Nil =>
             /\ tRows'[i].kind = tRows[i].kind /\ tRows'[i].slot = tRows[i].slot
             /\ tRows'[i].key = tRows[i].key /\ tRows'[i].status = tRows[i].status
             /\ tRows'[i].tenant =
                  IF ~tProg.dry /\ tRows[i].tenant = Nil /\ tRows[i].kind = tProg.kind
                    THEN tProg.tenant ELSE tRows[i].tenant
  BY <1>3, <1>4, TenantAssumption DEF Tenant!Orphan, Tenant!Stored
<1>6. tRows' \in [Rows -> Tenant!Row \cup {Nil}]
  BY <1>3, <1>5
<1>7. /\ tProg' \in Tenant!Program
      /\ tProg'.todo = tProg.todo /\ tProg'.dry = tProg.dry /\ tProg'.tenant = tProg.tenant
      /\ \/ tProg.kind = "reservations" /\ tProg'.at = "backfill" /\ tProg'.kind = "time_entries"
         \/ tProg.kind = "time_entries" /\ tProg'.at = "find" /\ tProg'.kind = "reservations"
  BY <1>1, <1>2 DEF Tenant!Backfill, Tenant!Program, Tenant!Kinds
<1> QED
  BY <1>1, <1>5, <1>6, <1>7

\* The Find of one rebuild.
LEMMA FindRows ==
  ASSUME TenantTypes, Tenant!Find
  PROVE  /\ tRows' = tRows /\ tFinished' = tFinished /\ tOutdated' = tOutdated
         /\ tProg # Nil /\ tProg.at = "find" /\ tProg' \in Tenant!Program /\ tProg'.at = "rewrite"
         /\ tProg'.kind = tProg.kind /\ tProg'.dry = tProg.dry /\ tProg'.tenant = tProg.tenant
         /\ tProg'.todo = {[id |-> i, slot |-> tRows[i].slot, key |-> tRows[i].key] :
                             i \in {j \in Rows : Tenant!Live(j) /\ tRows[j].kind = tProg.kind}}
<1> DEFINE found == {[id |-> i, slot |-> tRows[i].slot, key |-> tRows[i].key] :
                       i \in {j \in Rows : Tenant!Live(j) /\ tRows[j].kind = tProg.kind}}
<1>1. /\ tProg # Nil /\ tProg.at = "find" /\ tRows' = tRows /\ tFinished' = tFinished
      /\ tOutdated' = tOutdated
      /\ tProg' = [tProg EXCEPT !.at = "rewrite", !.todo = found]
  BY DEF Tenant!Find, Tenant!At, Tenant!Keyed
<1>2. found \in SUBSET [id : Rows, slot : Slots, key : Tenant!Keys \cup {Nil}]
  <2>1. \A i \in Rows : Tenant!Live(i) =>
          tRows[i].slot \in Slots /\ tRows[i].key \in Tenant!Keys \cup {Nil}
    BY TenantRow DEF TenantTypes, Tenant!Live
  <2> QED
    BY <2>1
<1>3. tProg \in Tenant!Program
  BY <1>1, TenantProgram DEF TenantTypes
<1> HIDE DEF found
<1>4. /\ tProg' \in Tenant!Program /\ tProg'.at = "rewrite" /\ tProg'.todo = found
      /\ tProg'.kind = tProg.kind /\ tProg'.dry = tProg.dry /\ tProg'.tenant = tProg.tenant
  BY <1>1, <1>2, <1>3 DEF Tenant!Program
<1> QED
  BY <1>1, <1>4 DEF found

\* One row of the cursor.
LEMMA RewriteRow ==
  ASSUME TenantTypes, NEW x \in Tenant!Todo, Tenant!Rewrite(x)
  PROVE  /\ tProg # Nil /\ tProg.at = "rewrite" /\ x \in tProg.todo /\ x.id \in Rows /\ tRows[x.id] # Nil
         /\ x.slot \in Slots /\ tFinished' = tFinished
         /\ \/ /\ tRows' = tRows /\ tOutdated' = tOutdated
               /\ \/ tProg' = Nil
                  \/ /\ tProg.dry \/ x.key = Tenant!Wanted(x)
                     /\ tProg' # Nil
            \/ /\ tRows' \in [Rows -> Tenant!Row \cup {Nil}]
               /\ tRows'[x.id] # Nil /\ tRows'[x.id].kind = tRows[x.id].kind
               /\ tRows'[x.id].tenant = tRows[x.id].tenant /\ tRows'[x.id].slot = tRows[x.id].slot
               /\ tRows'[x.id].key = Tenant!Wanted(x) /\ tRows'[x.id].key # Nil
               /\ \A j \in Rows : j # x.id => tRows'[j] = tRows[j]
               /\ tOutdated' = IF tRows[x.id].slot = x.slot
                                 THEN tOutdated \ {x.id} ELSE tOutdated \cup {x.id}
               /\ Tenant!KeyFree(x.id, tProg.kind, Tenant!Wanted(x))
               /\ tProg' # Nil
         /\ tProg' # Nil =>
              /\ tProg' \in Tenant!Program /\ tProg'.at = "rewrite" /\ tProg'.kind = tProg.kind
              /\ tProg'.dry = tProg.dry /\ tProg'.tenant = tProg.tenant /\ tProg'.todo = tProg.todo \ {x}
<1>1. /\ tProg # Nil /\ tProg.at = "rewrite" /\ x \in tProg.todo /\ tFinished' = tFinished
  BY DEF Tenant!Rewrite, Tenant!At, Tenant!Todo
<1>2. /\ tProg \in Tenant!Program /\ tProg.tenant \in Businesses
      /\ tProg.todo \in SUBSET [id : Rows, slot : Slots, key : Tenant!Keys \cup {Nil}]
  BY <1>1, TenantProgram DEF TenantTypes
<1>3. x.id \in Rows /\ x.slot \in Slots /\ Tenant!Stored(x.id)
  BY <1>1, <1>2 DEF TenantTypes, TodoSound
<1>4. tRows[x.id] \in Tenant!Row
  BY <1>3, TenantRow DEF TenantTypes
<1> DEFINE next == [tProg EXCEPT !.todo = @ \ {x}]
           new == [tRows[x.id] EXCEPT !.key = Tenant!Wanted(x)]
<1>5. /\ next \in Tenant!Program /\ next.at = "rewrite" /\ next.kind = tProg.kind
      /\ next.dry = tProg.dry /\ next.tenant = tProg.tenant /\ next.todo = tProg.todo \ {x}
      /\ next # Nil
  <2>1. tProg.todo \ {x} \in SUBSET [id : Rows, slot : Slots, key : Tenant!Keys \cup {Nil}]
    BY <1>2
  <2>2. /\ next \in Tenant!Program /\ next.at = "rewrite" /\ next.kind = tProg.kind
        /\ next.dry = tProg.dry /\ next.tenant = tProg.tenant /\ next.todo = tProg.todo \ {x}
    BY <1>1, <1>2, <2>1 DEF Tenant!Program
  <2> QED
    BY <2>2, TenantAssumption
<1>6. Tenant!Wanted(x) \in Tenant!Keys /\ Tenant!Wanted(x) # Nil
  BY <1>2, <1>3, KeyTyped DEF Tenant!Wanted
<1>7. /\ new \in Tenant!Row /\ new.kind = tRows[x.id].kind /\ new.tenant = tRows[x.id].tenant
      /\ new.slot = tRows[x.id].slot /\ new.key = Tenant!Wanted(x)
  BY <1>4, <1>6 DEF Tenant!Row
<1>8. \/ tRows' = tRows /\ tOutdated' = tOutdated /\ tProg' = Nil
      \/ /\ tRows' = tRows /\ tOutdated' = tOutdated /\ tProg' = next
         /\ tProg.dry \/ x.key = Tenant!Wanted(x)
      \/ /\ tRows' = [tRows EXCEPT ![x.id] = new] /\ tProg' = next
         /\ tOutdated' = IF tRows[x.id].slot = x.slot
                           THEN tOutdated \ {x.id} ELSE tOutdated \cup {x.id}
         /\ Tenant!KeyFree(x.id, tProg.kind, Tenant!Wanted(x))
  BY DEF Tenant!Rewrite, Tenant!WriteKey
<1> HIDE DEF next, new
<1>9. CASE tRows' = tRows /\ tOutdated' = tOutdated /\ tProg' = Nil
  BY <1>1, <1>3, <1>9 DEF Tenant!Stored
<1>10. CASE /\ tRows' = tRows /\ tOutdated' = tOutdated /\ tProg' = next
            /\ tProg.dry \/ x.key = Tenant!Wanted(x)
  BY <1>1, <1>3, <1>5, <1>10 DEF Tenant!Stored
<1>11. CASE /\ tRows' = [tRows EXCEPT ![x.id] = new] /\ tProg' = next
            /\ tOutdated' = IF tRows[x.id].slot = x.slot
                              THEN tOutdated \ {x.id} ELSE tOutdated \cup {x.id}
            /\ Tenant!KeyFree(x.id, tProg.kind, Tenant!Wanted(x))
  <2>1. /\ tRows' \in [Rows -> Tenant!Row \cup {Nil}]
        /\ tRows'[x.id] = new /\ new # Nil
        /\ \A j \in Rows : j # x.id => tRows'[j] = tRows[j]
    BY <1>3, <1>7, <1>11, TenantWrites DEF TenantTypes
  <2> QED
    BY <1>1, <1>3, <1>5, <1>6, <1>7, <1>11, <2>1 DEF Tenant!Stored
<1> QED
  BY <1>8, <1>9, <1>10, <1>11

\* The end of one rebuild, or of the command.
LEMMA RebuiltEnds ==
  ASSUME TenantTypes, Tenant!Rebuilt
  PROVE  /\ tRows' = tRows /\ tProg # Nil /\ tProg.at = "rewrite" /\ tProg.todo = {}
         /\ tOutdated' = tOutdated
         /\ \/ /\ tProg.kind = "reservations" /\ tFinished' = tFinished
               /\ tProg' \in Tenant!Program /\ tProg'.at = "find" /\ tProg'.kind = "time_entries"
               /\ tProg'.dry = tProg.dry /\ tProg'.tenant = tProg.tenant /\ tProg'.todo = {}
            \/ /\ tProg.kind = "time_entries" /\ tProg' = Nil
               /\ tFinished' = (tFinished \/ (~tProg.dry /\ tProg.tenant = First))
<1>1. /\ tProg # Nil /\ tProg.at = "rewrite" /\ tProg.todo = {} /\ tRows' = tRows
      /\ tOutdated' = tOutdated
  BY DEF Tenant!Rebuilt, Tenant!At
<1>2. tProg \in Tenant!Program /\ tProg.kind \in Tenant!Kinds
  BY <1>1, TenantProgram DEF TenantTypes
<1>3. CASE tProg.kind = "reservations"
  BY <1>1, <1>2, <1>3 DEF Tenant!Rebuilt, Tenant!Program, Tenant!Kinds
<1>4. CASE tProg.kind = "time_entries"
  BY <1>1, <1>4 DEF Tenant!Rebuilt, Tenant!End
<1> QED
  BY <1>2, <1>3, <1>4 DEF Tenant!Kinds

LEMMA RunStarts ==
  ASSUME NEW tenant \in Businesses, NEW dry \in BOOLEAN, Tenant!Run(tenant, dry)
  PROVE  /\ tRows' = tRows /\ tFinished' = tFinished /\ tOutdated' = tOutdated
         /\ tProg' \in Tenant!Program /\ tProg'.at = "backfill" /\ tProg'.kind = "reservations"
         /\ tProg'.todo = {}
BY DEF Tenant!Run, Tenant!Program, Tenant!Kinds

\* Whatever the businesses: the types hold, and an absent key stays absent.
LEMMA TenantTypesStep ==
  ASSUME TenantTypes, Tenant!Next
  PROVE  TenantTypes' /\ Tenant!StaysAbsent
<1>1. ASSUME tRows' \in [Rows -> Tenant!Row \cup {Nil}],
             tProg' \in Tenant!Program \cup {Nil}, tFinished' \in BOOLEAN, tOutdated' \subseteq Rows,
             \A i \in Rows : tRows[i] # Nil => tRows'[i] # Nil,
             \A i \in Rows : tRows'[i] # Nil /\ tRows'[i].status = "open" =>
               \/ tRows'[i].key # Nil
               \/ tRows[i] # Nil /\ tRows'[i].status = tRows[i].status /\ tRows'[i].key = tRows[i].key,
             tProg' # Nil => \A x \in tProg'.todo : x \in Tenant!Todo \/ (x.key # Nil /\ tRows[x.id] # Nil)
      PROVE  TenantTypes'
  <2>1. Tenant!TypeOK'
    BY <1>1 DEF Tenant!TypeOK
  <2>2. ASSUME NEW x \in Tenant!Todo' PROVE x.key # Nil /\ tRows'[x.id] # Nil
    <3>1. tProg' # Nil /\ x \in tProg'.todo
      BY <2>2 DEF Tenant!Todo
    <3>2. x.id \in Rows
      BY <1>1, <3>1 DEF Tenant!Program
    <3> QED
      BY <1>1, <3>1, <3>2 DEF TenantTypes, TodoSound, Tenant!Stored
  <2>3. TodoSound'
    BY <2>2 DEF TodoSound, Tenant!Stored
  <2>4. OpenKeyed'
    BY <1>1 DEF OpenKeyed, TenantTypes, Tenant!Open, Tenant!Stored
  <2> QED
    BY <2>1, <2>3, <2>4 DEF TenantTypes
<1>2. /\ tRows \in [Rows -> Tenant!Row \cup {Nil}] /\ tFinished \in BOOLEAN
      /\ tProg \in Tenant!Program \cup {Nil} /\ tOutdated \subseteq Rows
  BY DEF TenantTypes, Tenant!TypeOK
<1>3. tProg # Nil => Tenant!Todo = tProg.todo
  BY DEF Tenant!Todo
<1>4. ASSUME NEW i \in Rows, Tenant!Serves(i)
      PROVE  TenantTypes' /\ Tenant!StaysAbsent
  <2>1. ASSUME NEW kind \in Tenant!Kinds, NEW s \in Slots, Tenant!Insert(i, kind, s)
        PROVE  TenantTypes' /\ Tenant!StaysAbsent
    <3>1. /\ tRows' \in [Rows -> Tenant!Row \cup {Nil}] /\ tRows[i] = Nil /\ tRows'[i].key # Nil
          /\ \A j \in Rows : j # i => tRows'[j] = tRows[j]
          /\ tProg' = tProg /\ tFinished' = tFinished /\ tOutdated' = tOutdated
      BY <2>1, InsertRow
    <3> QED
      BY <1>1, <1>2, <1>3, <3>1 DEF Tenant!StaysAbsent, Tenant!Live, Tenant!Stored
  <2>2. CASE Tenant!Release(i) \/ Tenant!Complete(i)
    <3>1. /\ tRows' \in [Rows -> Tenant!Row \cup {Nil}] /\ tRows'[i] # Nil /\ tRows[i] # Nil
          /\ tRows'[i].status # "open" /\ tRows'[i].key \in {Nil, tRows[i].key}
          /\ \A j \in Rows : j # i => tRows'[j] = tRows[j]
          /\ tProg' = tProg /\ tFinished' = tFinished /\ tOutdated' = tOutdated
      BY <2>2, CloseRow
    <3> QED
      BY <1>1, <1>2, <1>3, <3>1 DEF Tenant!StaysAbsent, Tenant!Live, Tenant!Stored
  <2>3. ASSUME NEW s \in Slots, Tenant!Move(i, s)
        PROVE  TenantTypes' /\ Tenant!StaysAbsent
    <3>1. /\ tRows' \in [Rows -> Tenant!Row \cup {Nil}] /\ tRows'[i] # Nil /\ Tenant!Open(i)
          /\ tRows'[i].key # Nil
          /\ \A j \in Rows : j # i => tRows'[j] = tRows[j]
          /\ tProg' = tProg /\ tFinished' = tFinished /\ tOutdated' = tOutdated \ {i}
      BY <2>3, MoveRow
    <3>2. tRows[i].key # Nil
      BY <3>1 DEF TenantTypes, OpenKeyed
    <3> QED
      BY <1>1, <1>2, <1>3, <3>1, <3>2 DEF Tenant!StaysAbsent, Tenant!Live, Tenant!Stored
  <2>4. ASSUME NEW s \in Slots, Tenant!Correct(i, s)
        PROVE  TenantTypes' /\ Tenant!StaysAbsent
    <3>1. /\ tRows' \in [Rows -> Tenant!Row \cup {Nil}] /\ tRows'[i] # Nil /\ tRows[i] # Nil
          /\ tRows'[i].status # "open" /\ tRows'[i].key = tRows[i].key
          /\ \A j \in Rows : j # i => tRows'[j] = tRows[j]
          /\ tProg' = tProg /\ tFinished' = tFinished /\ tOutdated' = tOutdated
      BY <2>4, CorrectRow
    <3> QED
      BY <1>1, <1>2, <1>3, <3>1 DEF Tenant!StaysAbsent, Tenant!Live, Tenant!Stored
  <2> QED
    BY <1>4, <2>1, <2>2, <2>3, <2>4 DEF Tenant!Serves
<1>5. CASE \E tenant \in Businesses, dry \in BOOLEAN : Tenant!Run(tenant, dry)
  <2>1. /\ tRows' = tRows /\ tFinished' = tFinished /\ tOutdated' = tOutdated
        /\ tProg' \in Tenant!Program /\ tProg'.todo = {}
    BY <1>5, RunStarts
  <2> QED
    BY <1>1, <1>2, <2>1 DEF Tenant!StaysAbsent, Tenant!Live, Tenant!Stored
<1>6. CASE Tenant!Backfill
  <2>1. /\ tRows' \in [Rows -> Tenant!Row \cup {Nil}]
        /\ \A i \in Rows : /\ tRows'[i] = Nil <=> tRows[i] = Nil
                           /\ tRows[i] # Nil => /\ tRows'[i].key = tRows[i].key
                                                /\ tRows'[i].status = tRows[i].status
        /\ tProg # Nil /\ tProg' \in Tenant!Program /\ tProg'.todo = tProg.todo
        /\ tFinished' = tFinished /\ tOutdated' = tOutdated
    BY <1>6, BackfillRows
  <2> QED
    BY <1>1, <1>2, <1>3, <2>1 DEF Tenant!StaysAbsent, Tenant!Live, Tenant!Stored
<1>7. CASE Tenant!Find
  <2>1. /\ tRows' = tRows /\ tFinished' = tFinished /\ tOutdated' = tOutdated
        /\ tProg' \in Tenant!Program
        /\ tProg'.todo = {[id |-> i, slot |-> tRows[i].slot, key |-> tRows[i].key] :
                            i \in {j \in Rows : Tenant!Live(j) /\ tRows[j].kind = tProg.kind}}
    BY <1>7, FindRows
  <2>2. \A x \in tProg'.todo : x.key # Nil /\ tRows[x.id] # Nil
    BY <2>1 DEF Tenant!Live, Tenant!Stored
  <2> QED
    BY <1>1, <1>2, <2>1, <2>2 DEF Tenant!StaysAbsent, Tenant!Live, Tenant!Stored
<1>8. CASE \E x \in Tenant!Todo : Tenant!Rewrite(x)
  <2>1. PICK x \in Tenant!Todo : Tenant!Rewrite(x)
    BY <1>8
  <2>2. /\ tProg # Nil /\ tProg.at = "rewrite" /\ x \in tProg.todo /\ x.key # Nil
        /\ x.id \in Rows /\ tFinished' = tFinished /\ tOutdated' \subseteq Rows
        /\ tRows' \in [Rows -> Tenant!Row \cup {Nil}]
        /\ \A i \in Rows : tRows[i] # Nil => tRows'[i] # Nil
        /\ tRows' = tRows \/ tRows'[x.id].key # Nil
        /\ \A j \in Rows : j # x.id => tRows'[j] = tRows[j]
        /\ tProg' # Nil => tProg' \in Tenant!Program /\ tProg'.todo = tProg.todo \ {x}
    BY <1>2, <2>1, RewriteRow DEF TenantTypes, TodoSound
  <2>3. Tenant!StaysAbsent
    BY <2>2 DEF Tenant!StaysAbsent, Tenant!Live, Tenant!Stored, Tenant!At
  <2> QED
    BY <1>1, <1>2, <1>3, <2>2, <2>3
<1>9. CASE Tenant!Rebuilt
  <2>1. /\ tRows' = tRows /\ tFinished' \in BOOLEAN /\ tOutdated' = tOutdated
        /\ tProg' = Nil \/ (tProg' \in Tenant!Program /\ tProg'.todo = {})
    BY <1>2, <1>9, RebuiltEnds
  <2> QED
    BY <1>1, <1>2, <2>1 DEF Tenant!StaysAbsent, Tenant!Live, Tenant!Stored
<1>10. CASE Tenant!Stop
  <2>1. tRows' = tRows /\ tFinished' = tFinished /\ tOutdated' = tOutdated /\ tProg' = Nil
    BY <1>10 DEF Tenant!Stop
  <2> QED
    BY <1>1, <1>2, <2>1 DEF Tenant!StaysAbsent, Tenant!Live, Tenant!Stored
<1> QED
  BY <1>4, <1>5, <1>6, <1>7, <1>8, <1>9, <1>10 DEF Tenant!Next

\* The two forms of a key are two.
LEMMA KeysDiffer ==
  /\ Nil \notin OldKeys /\ Nil \notin NewKeys
  /\ OldKeys \cap NewKeys = {}
<1>1. \A s \in Slots : Tenant!Key(Nil, s) # Nil /\ Tenant!Key(First, s) # Nil
  BY KeyTyped, TenantAssumption
<1>2. \A s, r \in Slots : Tenant!Key(Nil, s) # Tenant!Key(First, r)
  BY TenantAssumption DEF Tenant!Key
<1> QED
  BY <1>1, <1>2 DEF OldKeys, NewKeys

LEMMA KeysOf ==
  ASSUME Tenant!TypeOK, NEW i \in Rows, tRows[i] # Nil
  PROVE  OldKey(i) \in OldKeys /\ KeyOf(i) \in NewKeys
BY TenantRow DEF Tenant!Stored, OldKey, KeyOf, OldKeys, NewKeys

\* What becomes of a row of the one business in a step, whoever takes it.
RowMoves(i) ==
  \/ tRows[i] = Nil /\ tRows'[i] = Nil
  \/ /\ tRows'[i] # Nil
     /\ tRows[i] # Nil => tRows'[i].kind = tRows[i].kind
     /\ tRows'[i].tenant = First \/ (tRows[i] # Nil /\ tRows'[i].tenant = tRows[i].tenant)
     /\ tRows'[i].key \in {Nil} \cup NewKeys \/ (tRows[i] # Nil /\ tRows'[i].key = tRows[i].key)
     /\ tRows'[i].status = "open" /\ i \notin tOutdated' =>
          \/ tRows'[i].key = KeyOf(i)'
          \/ /\ tRows[i] # Nil /\ tRows[i].status = "open" /\ i \notin tOutdated
             /\ tRows'[i].key = tRows[i].key /\ tRows'[i].slot = tRows[i].slot

LEMMA SameRowMoves ==
  ASSUME NEW i \in Rows, tRows'[i] = tRows[i], i \in tOutdated => i \in tOutdated'
  PROVE  RowMoves(i)
BY DEF RowMoves

\* A row is never disowned, and gets no key of the old form.
LEMMA MovesKeep ==
  ASSUME RowsSound, OpenSound, NEW i \in Rows, RowMoves(i), tRows'[i] # Nil
  PROVE  /\ tRows'[i].key \in {Nil} \cup OldKeys \cup NewKeys
         /\ tRows'[i].status = "open" /\ i \notin tOutdated' => tRows'[i].key \in {OldKey(i)', KeyOf(i)'}
         /\ Owned(i)' \/ (tRows[i] # Nil /\ ~Owned(i) /\ tRows'[i].kind = tRows[i].kind)
         /\ Rekeyed(i)' \/ (tRows[i] # Nil /\ ~Rekeyed(i) /\ tRows'[i].kind = tRows[i].kind)
         /\ tRows[i] # Nil => tRows'[i].kind = tRows[i].kind
<1>1. tRows[i] # Nil => tRows[i].key \in {Nil} \cup OldKeys \cup NewKeys
  BY DEF RowsSound, Tenant!Stored
<1>2. /\ tRows'[i].key \in {Nil} \cup OldKeys \cup NewKeys
      /\ Owned(i)' \/ (tRows[i] # Nil /\ ~Owned(i) /\ tRows'[i].kind = tRows[i].kind)
      /\ Rekeyed(i)' \/ (tRows[i] # Nil /\ ~Rekeyed(i) /\ tRows'[i].kind = tRows[i].kind)
      /\ tRows[i] # Nil => tRows'[i].kind = tRows[i].kind
  BY <1>1, KeysDiffer, TenantAssumption DEF RowMoves, Owned, Rekeyed
<1>3. tRows'[i].status = "open" /\ i \notin tOutdated' => tRows'[i].key \in {OldKey(i)', KeyOf(i)'}
  BY DEF RowMoves, OpenSound, Tenant!Open, Tenant!Stored, OldKey, KeyOf
<1> QED
  BY <1>2, <1>3

\* So what a run has done is not undone.
LEMMA ProgressKept ==
  ASSUME RowsSound, OpenSound, \A i \in Rows : RowMoves(i)
  PROVE  /\ \A kind : Backfilled(kind) => Backfilled(kind)'
         /\ \A kind : Rebuilt(kind) => Rebuilt(kind)'
         /\ (\A i \in Rows : Tenant!Stored(i) => Owned(i) /\ Rekeyed(i))
              => (\A i \in Rows : Tenant!Stored(i) => Owned(i) /\ Rekeyed(i))'
         /\ (\A i \in Rows : Tenant!Stored(i) => tRows[i].key \in {Nil} \cup OldKeys \cup NewKeys)'
         /\ OpenSound'
<1>1. \A i \in Rows : tRows'[i] # Nil =>
         /\ tRows'[i].key \in {Nil} \cup OldKeys \cup NewKeys
         /\ tRows'[i].status = "open" /\ i \notin tOutdated' => tRows'[i].key \in {OldKey(i)', KeyOf(i)'}
         /\ Owned(i)' \/ (tRows[i] # Nil /\ ~Owned(i) /\ tRows'[i].kind = tRows[i].kind)
         /\ Rekeyed(i)' \/ (tRows[i] # Nil /\ ~Rekeyed(i) /\ tRows'[i].kind = tRows[i].kind)
  BY MovesKeep
<1>2. ASSUME NEW kind, Backfilled(kind) PROVE Backfilled(kind)'
  BY <1>1, <1>2 DEF Backfilled, Tenant!Stored
<1>3. ASSUME NEW kind, Rebuilt(kind) PROVE Rebuilt(kind)'
  BY <1>1, <1>3 DEF Rebuilt, Tenant!Stored
<1>4. OpenSound'
  BY <1>1 DEF OpenSound, Tenant!Open, Tenant!Stored
<1>5. (\A i \in Rows : Tenant!Stored(i) => tRows[i].key \in {Nil} \cup OldKeys \cup NewKeys)'
  BY <1>1 DEF Tenant!Stored, OldKeys, NewKeys
<1> QED
  BY <1>1, <1>2, <1>3, <1>4, <1>5 DEF Tenant!Stored

\* The rows of the two collections that hold one key.
Distinct == \A i, j \in Rows :
  i # j /\ tRows[i] # Nil /\ tRows[j] # Nil /\ tRows[i].key # Nil /\ tRows[j].key # Nil
    /\ tRows[i].kind = tRows[j].kind => tRows[i].key # tRows[j].key

\* One row takes a key that is free.
LEMMA DistinctKept ==
  ASSUME Distinct, NEW i \in Rows, NEW kind, NEW key,
         \A j \in Rows : j # i => tRows'[j] = tRows[j],
         tRows'[i].kind = kind /\ tRows'[i].key = key,
         key = Nil \/ Tenant!KeyFree(i, kind, key)
  PROVE  Distinct'
BY DEF Distinct, Tenant!KeyFree, Tenant!Live, Tenant!Stored

\* Or keeps the one it has, or loses it.
LEMMA DistinctStays ==
  ASSUME Distinct, NEW i \in Rows, tRows[i] # Nil, tRows'[i].kind = tRows[i].kind,
         \A j \in Rows : j # i => tRows'[j] = tRows[j],
         tRows'[i].key \in {Nil, tRows[i].key}
  PROVE  Distinct'
BY DEF Distinct

\* A step of the service.
LEMMA TenantServes ==
  ASSUME TenantInv, TenantTypes', \A i \in Rows : RowMoves(i), Distinct',
         tProg' = tProg, tFinished' = tFinished
  PROVE  TenantInv'
<1>1. TenantTypes /\ RowsSound /\ OpenSound /\ ProgressMade /\ TodoFresh
  BY DEF TenantInv
<1>2. RowsSound' /\ OpenSound'
  BY <1>1, ProgressKept DEF RowsSound, Distinct, Tenant!Live, Tenant!Stored
<1>3. ProgressMade'
  <2> SUFFICES ASSUME tProg # Nil, ~tProg.dry
               PROVE  ProgressMade'
    BY DEF ProgressMade
  <2>1. ASSUME tProg.at = "rewrite", NEW i \in Rows, tRows'[i] # Nil, tRows'[i].kind = tProg.kind,
               ~Rekeyed(i)'
        PROVE  \E x \in tProg.todo : x.id = i
    <3>1. tRows[i] # Nil /\ ~Rekeyed(i) /\ tRows[i].kind = tProg.kind
      BY <1>1, <2>1, MovesKeep
    <3> QED
      BY <1>1, <2>1, <3>1 DEF ProgressMade, Tenant!Stored
  <2>2. /\ tProg.at # "backfill" \/ tProg.kind = "time_entries" => Backfilled("reservations")'
        /\ tProg.at # "backfill" => Backfilled("time_entries")'
        /\ tProg.at # "backfill" /\ tProg.kind = "time_entries" => Rebuilt("reservations")'
    BY <1>1, ProgressKept DEF ProgressMade
  <2> QED
    BY <2>1, <2>2 DEF ProgressMade, Tenant!Stored
<1>4. TodoFresh'
  <2>1. Tenant!Todo' = Tenant!Todo
    BY DEF Tenant!Todo
  <2>2. ASSUME NEW x \in Tenant!Todo
        PROVE  /\ tRows'[x.id].kind = tProg.kind
               /\ x.key \notin OldKeys => Rekeyed(x.id)'
    <3>1. x.id \in Rows /\ tRows[x.id] # Nil
      BY <1>1, TenantProgram DEF TenantTypes, TodoSound, Tenant!Stored, Tenant!Todo
    <3>2. tRows'[x.id] # Nil /\ tRows[x.id].kind = tProg.kind /\ (x.key \notin OldKeys => Rekeyed(x.id))
      BY <1>1, <3>1 DEF RowMoves, TodoFresh
    <3> QED
      BY <1>1, <3>1, <3>2, MovesKeep
  <2> QED
    BY <1>1, <2>1, <2>2 DEF TodoFresh, OldKeys
<1>5. tFinished' => (\A i \in Rows : Tenant!Stored(i) => Owned(i) /\ Rekeyed(i))'
  BY <1>1, ProgressKept DEF TenantInv
<1> QED
  BY <1>2, <1>3, <1>4, <1>5 DEF TenantInv

LEMMA SoundIsDistinct == RowsSound => Distinct
BY DEF RowsSound, Distinct, Tenant!Live, Tenant!Stored

\* Every step of the service on one row of the one business.
LEMMA ServesKeeps ==
  ASSUME Businesses = {First}, TenantInv, TenantTypes', NEW i \in Rows, Tenant!Serves(i)
  PROVE  TenantInv'
<1>1. TenantTypes /\ Distinct /\ Tenant!TypeOK /\ Tenant!TypeOK'
  BY SoundIsDistinct DEF TenantInv, TenantTypes
<1>2. \A s \in Slots : Owner[s] = First
  BY TenantAssumption
<1>3. ASSUME NEW kind \in Tenant!Kinds, NEW s \in Slots, Tenant!Insert(i, kind, s)
      PROVE  TenantInv'
  <2>1. /\ tRows'[i] # Nil /\ tRows'[i].kind = kind /\ tRows'[i].tenant = First
        /\ tRows'[i].slot = s /\ tRows'[i].key = Tenant!Key(First, s)
        /\ \A j \in Rows : j # i => tRows'[j] = tRows[j]
        /\ tRows[i] = Nil /\ Tenant!KeyFree(i, kind, Tenant!Key(First, s))
        /\ tProg' = tProg /\ tFinished' = tFinished /\ tOutdated' = tOutdated
    BY <1>1, <1>2, <1>3, InsertRow
  <2>2. RowMoves(i)
    BY <2>1 DEF RowMoves, KeyOf, NewKeys
  <2>3. \A j \in Rows : RowMoves(j)
    BY <2>1, <2>2, SameRowMoves
  <2>4. Distinct'
    BY <1>1, <2>1, DistinctKept
  <2> QED
    BY <2>1, <2>3, <2>4, TenantServes
<1>4. CASE Tenant!Release(i) \/ Tenant!Complete(i)
  <2>1. /\ tRows[i] # Nil /\ tRows'[i] # Nil /\ tRows'[i].kind = tRows[i].kind
        /\ tRows'[i].tenant = tRows[i].tenant /\ tRows'[i].status # "open"
        /\ tRows'[i].key \in {Nil, tRows[i].key}
        /\ \A j \in Rows : j # i => tRows'[j] = tRows[j]
        /\ tProg' = tProg /\ tFinished' = tFinished /\ tOutdated' = tOutdated
    BY <1>1, <1>4, CloseRow
  <2>2. RowMoves(i)
    BY <2>1 DEF RowMoves
  <2>3. \A j \in Rows : RowMoves(j)
    BY <2>1, <2>2, SameRowMoves
  <2>4. Distinct'
    BY <1>1, <2>1, DistinctStays
  <2> QED
    BY <2>1, <2>3, <2>4, TenantServes
<1>5. ASSUME NEW s \in Slots, Tenant!Move(i, s)
      PROVE  TenantInv'
  <2>1. /\ tRows'[i] # Nil /\ tRows'[i].kind = tRows[i].kind /\ tRows'[i].tenant = First
        /\ tRows'[i].slot = s /\ tRows'[i].key = Tenant!Key(First, s)
        /\ \A j \in Rows : j # i => tRows'[j] = tRows[j]
        /\ Tenant!KeyFree(i, tRows[i].kind, Tenant!Key(First, s))
        /\ tProg' = tProg /\ tFinished' = tFinished /\ tOutdated' = tOutdated \ {i}
    BY <1>1, <1>2, <1>5, MoveRow
  <2>2. RowMoves(i)
    BY <2>1 DEF RowMoves, KeyOf, NewKeys
  <2>3. \A j \in Rows : RowMoves(j)
    BY <2>1, <2>2, SameRowMoves
  <2>4. Distinct'
    BY <1>1, <2>1, DistinctKept
  <2> QED
    BY <2>1, <2>3, <2>4, TenantServes
<1>6. ASSUME NEW s \in Slots, Tenant!Correct(i, s)
      PROVE  TenantInv'
  <2>1. /\ tRows[i] # Nil /\ tRows'[i] # Nil /\ tRows'[i].kind = tRows[i].kind
        /\ tRows'[i].tenant = tRows[i].tenant /\ tRows'[i].status # "open"
        /\ tRows'[i].key = tRows[i].key
        /\ \A j \in Rows : j # i => tRows'[j] = tRows[j]
        /\ tProg' = tProg /\ tFinished' = tFinished /\ tOutdated' = tOutdated
    BY <1>1, <1>6, CorrectRow
  <2>2. RowMoves(i)
    BY <2>1 DEF RowMoves
  <2>3. \A j \in Rows : RowMoves(j)
    BY <2>1, <2>2, SameRowMoves
  <2>4. Distinct'
    BY <1>1, <2>1, DistinctStays
  <2> QED
    BY <2>1, <2>3, <2>4, TenantServes
<1> QED
  BY <1>3, <1>4, <1>5, <1>6 DEF Tenant!Serves

\* Every step of one business keeps the invariant.
LEMMA TenantStep ==
  ASSUME Businesses = {First}, TenantInv, Tenant!Next
  PROVE  TenantInv'
<1>1. TenantTypes /\ RowsSound /\ OpenSound /\ ProgressMade /\ TodoFresh /\ Distinct /\ Tenant!TypeOK
  BY SoundIsDistinct DEF TenantInv, TenantTypes
<1>2. TenantTypes'
  BY <1>1, TenantTypesStep
<1>3. tProg # Nil => tProg.tenant = First
  BY <1>1, TenantProgram
<1>4. ASSUME NEW i \in Rows, tRows[i] # Nil
      PROVE  tRows[i].kind \in Tenant!Kinds
  BY <1>1, <1>4, TenantRow DEF Tenant!Stored
<1>5. CASE \E i \in Rows : Tenant!Serves(i)
  BY <1>2, <1>5, ServesKeeps
<1>6. ASSUME tRows' = tRows, tFinished' = tFinished, tOutdated' = tOutdated, ProgressMade', TodoFresh'
      PROVE  TenantInv'
  BY <1>1, <1>2, <1>6 DEF TenantInv, RowsSound, OpenSound, Tenant!Open, Tenant!Live, Tenant!Stored,
     KeyOf, OldKey, OldKeys, NewKeys, Owned, Rekeyed
<1>7. CASE \E tenant \in Businesses, dry \in BOOLEAN : Tenant!Run(tenant, dry)
  <2>1. /\ tRows' = tRows /\ tFinished' = tFinished /\ tOutdated' = tOutdated /\ tProg'.todo = {}
        /\ tProg'.at = "backfill" /\ tProg'.kind = "reservations"
    BY <1>7, RunStarts
  <2> QED
    BY <1>6, <2>1 DEF ProgressMade, TodoFresh, Tenant!Todo
<1>8. CASE Tenant!Stop
  BY <1>6, <1>8 DEF Tenant!Stop, ProgressMade, TodoFresh, Tenant!Todo
<1>9. CASE Tenant!Find
  <2>1. /\ tRows' = tRows /\ tFinished' = tFinished /\ tOutdated' = tOutdated
        /\ tProg # Nil /\ tProg.at = "find" /\ tProg'.at = "rewrite"
        /\ tProg'.kind = tProg.kind /\ tProg'.dry = tProg.dry
        /\ tProg'.todo = {[id |-> i, slot |-> tRows[i].slot, key |-> tRows[i].key] :
                            i \in {j \in Rows : Tenant!Live(j) /\ tRows[j].kind = tProg.kind}}
        /\ tProg' # Nil
    BY <1>1, <1>9, FindRows, TenantAssumption
  <2>2. \A i \in Rows : (Rekeyed(i)' <=> Rekeyed(i)) /\ (Owned(i)' <=> Owned(i))
    BY <2>1 DEF Rekeyed, Owned, OldKeys
  <2>3. ASSUME ~tProg.dry PROVE ProgressMade'
    <3>1. /\ Backfilled("reservations")' /\ Backfilled("time_entries")'
          /\ tProg.kind = "time_entries" => Rebuilt("reservations")'
      BY <1>1, <2>1, <2>2, <2>3 DEF ProgressMade, Backfilled, Rebuilt, Tenant!Stored
    <3>2. ASSUME NEW i \in Rows, tRows[i] # Nil, tRows[i].kind = tProg.kind, ~Rekeyed(i)
          PROVE  \E x \in tProg'.todo : x.id = i
      <4>1. tRows[i].key # Nil
        BY <3>2, KeysDiffer DEF Rekeyed
      <4>2. [id |-> i, slot |-> tRows[i].slot, key |-> tRows[i].key] \in tProg'.todo
        BY <2>1, <3>2, <4>1 DEF Tenant!Live, Tenant!Stored
      <4> QED
        BY <4>2
    <3> QED
      BY <2>1, <2>2, <3>1, <3>2 DEF ProgressMade, Tenant!Stored
  <2>4. ProgressMade'
    BY <2>1, <2>3 DEF ProgressMade
  <2>5. ASSUME NEW x \in tProg'.todo
        PROVE  /\ x.id \in Rows /\ tRows[x.id].kind = tProg.kind
               /\ x.key \notin OldKeys => Rekeyed(x.id)
    BY <2>1 DEF Rekeyed
  <2>6. TodoFresh'
    BY <2>1, <2>2, <2>5 DEF TodoFresh, Tenant!Todo, OldKeys
  <2> QED
    BY <1>6, <2>1, <2>4, <2>6
<1>10. CASE Tenant!Rebuilt
  <2>1. /\ tRows' = tRows /\ tProg # Nil /\ tProg.at = "rewrite" /\ tProg.todo = {}
        /\ tOutdated' = tOutdated
        /\ \/ /\ tProg.kind = "reservations" /\ tFinished' = tFinished /\ tProg' # Nil
              /\ tProg'.at = "find" /\ tProg'.kind = "time_entries"
              /\ tProg'.dry = tProg.dry /\ tProg'.todo = {}
           \/ /\ tProg.kind = "time_entries" /\ tProg' = Nil
              /\ tFinished' = (tFinished \/ (~tProg.dry /\ tProg.tenant = First))
    BY <1>1, <1>10, RebuiltEnds, TenantAssumption
  <2>2. \A i \in Rows : (Rekeyed(i)' <=> Rekeyed(i)) /\ (Owned(i)' <=> Owned(i))
    BY <2>1 DEF Rekeyed, Owned, OldKeys
  <2>3. ~tProg.dry => Backfilled("reservations") /\ Backfilled("time_entries") /\ Rebuilt(tProg.kind)
    BY <1>1, <2>1 DEF ProgressMade, Rebuilt
  <2>4. TodoFresh'
    BY <2>1 DEF TodoFresh, Tenant!Todo
  <2>5. CASE tProg.kind = "reservations"
    <3>1. ProgressMade'
      BY <2>1, <2>2, <2>3, <2>5 DEF ProgressMade, Backfilled, Rebuilt, Tenant!Stored
    <3> QED
      BY <1>6, <2>1, <2>4, <2>5, <3>1
  <2>6. CASE tProg.kind = "time_entries"
    <3>1. ProgressMade'
      BY <2>1, <2>6 DEF ProgressMade
    <3>2. RowsSound' /\ OpenSound'
      BY <1>1, <2>1 DEF RowsSound, OpenSound, Tenant!Open, Tenant!Live, Tenant!Stored,
         KeyOf, OldKey, OldKeys, NewKeys
    <3>3. ASSUME tFinished', NEW i \in Rows, tRows[i] # Nil PROVE Owned(i) /\ Rekeyed(i)
      <4>1. CASE tFinished
        BY <3>3, <4>1 DEF TenantInv, Tenant!Stored
      <4>2. CASE ~tProg.dry
        <5>1. Backfilled("reservations") /\ Backfilled("time_entries")
              /\ Rebuilt("reservations") /\ Rebuilt("time_entries")
          BY <1>1, <2>1, <2>3, <2>6, <4>2 DEF ProgressMade
        <5> QED
          BY <1>4, <3>3, <5>1 DEF Backfilled, Rebuilt, Tenant!Stored, Tenant!Kinds
      <4> QED
        BY <2>1, <2>6, <3>3, <4>1, <4>2
    <3> QED
      BY <1>2, <2>1, <2>2, <2>4, <3>1, <3>2, <3>3 DEF TenantInv, Tenant!Stored
  <2> QED
    BY <2>1, <2>5, <2>6
<1>11. CASE Tenant!Backfill
  <2>1. /\ \A i \in Rows :
             /\ tRows'[i] = Nil <=> tRows[i] = Nil
             /\ tRows[i] # Nil =>
                  /\ tRows'[i].kind = tRows[i].kind /\ tRows'[i].slot = tRows[i].slot
                  /\ tRows'[i].key = tRows[i].key /\ tRows'[i].status = tRows[i].status
                  /\ tRows'[i].tenant =
                       IF ~tProg.dry /\ tRows[i].tenant = Nil /\ tRows[i].kind = tProg.kind
                         THEN First ELSE tRows[i].tenant
        /\ tProg # Nil /\ tProg.at = "backfill" /\ tProg' # Nil
        /\ tProg'.todo = tProg.todo /\ tProg'.dry = tProg.dry
        /\ \/ tProg.kind = "reservations" /\ tProg'.at = "backfill" /\ tProg'.kind = "time_entries"
           \/ tProg.kind = "time_entries" /\ tProg'.at = "find" /\ tProg'.kind = "reservations"
        /\ tFinished' = tFinished /\ tOutdated' = tOutdated
    BY <1>1, <1>3, <1>11, BackfillRows, TenantAssumption
  <2>2. \A i \in Rows : RowMoves(i)
    BY <2>1 DEF RowMoves
  <2>3. Distinct'
    BY <1>1, <2>1 DEF Distinct
  <2>4. /\ \A kind : Backfilled(kind) => Backfilled(kind)'
        /\ (\A i \in Rows : Tenant!Stored(i) => Owned(i) /\ Rekeyed(i))
             => (\A i \in Rows : Tenant!Stored(i) => Owned(i) /\ Rekeyed(i))'
        /\ (\A i \in Rows : Tenant!Stored(i) => tRows[i].key \in {Nil} \cup OldKeys \cup NewKeys)'
        /\ OpenSound'
    BY <1>1, <2>2, ProgressKept
  <2>5. RowsSound'
    BY <2>3, <2>4 DEF RowsSound, Distinct, Tenant!Live, Tenant!Stored
  <2>6. TodoFresh'
    BY <1>1, <2>1 DEF TodoFresh, Tenant!Todo
  <2>7. ~tProg.dry => \A kind : kind = tProg.kind => Backfilled(kind)'
    BY <2>1, TenantAssumption DEF Backfilled, Owned, Tenant!Stored
  <2>8. ProgressMade'
    BY <1>1, <2>1, <2>4, <2>7 DEF ProgressMade
  <2> QED
    BY <1>2, <2>1, <2>4, <2>5, <2>6, <2>8 DEF TenantInv
<1>12. CASE \E x \in Tenant!Todo : Tenant!Rewrite(x)
  <2>1. PICK x \in Tenant!Todo : Tenant!Rewrite(x)
    BY <1>12
  <2>2. /\ tProg # Nil /\ tProg.at = "rewrite" /\ x \in tProg.todo /\ x.id \in Rows /\ tRows[x.id] # Nil
        /\ tFinished' = tFinished /\ Tenant!Wanted(x) = Tenant!Key(First, x.slot)
        /\ Tenant!Wanted(x) \in NewKeys /\ tRows[x.id].kind = tProg.kind
        /\ x.key \notin OldKeys => Rekeyed(x.id)
    BY <1>1, <1>3, <2>1, RewriteRow DEF Tenant!Wanted, NewKeys, TodoFresh
  <2>3. CASE tProg' = Nil /\ tRows' = tRows /\ tOutdated' = tOutdated
    BY <1>6, <2>2, <2>3 DEF ProgressMade, TodoFresh, Tenant!Todo
  <2>4. CASE tProg' # Nil
    <3>1. /\ \/ /\ tRows' = tRows /\ tOutdated' = tOutdated
                /\ tProg.dry \/ x.key = Tenant!Wanted(x)
             \/ /\ tRows'[x.id] # Nil /\ tRows'[x.id].kind = tRows[x.id].kind
                /\ tRows'[x.id].tenant = tRows[x.id].tenant /\ tRows'[x.id].slot = tRows[x.id].slot
                /\ tRows'[x.id].key = Tenant!Wanted(x)
                /\ \A j \in Rows : j # x.id => tRows'[j] = tRows[j]
                /\ tOutdated' = IF tRows[x.id].slot = x.slot
                                  THEN tOutdated \ {x.id} ELSE tOutdated \cup {x.id}
                /\ Tenant!KeyFree(x.id, tProg.kind, Tenant!Wanted(x))
          /\ tProg'.at = "rewrite" /\ tProg'.kind = tProg.kind
          /\ tProg'.dry = tProg.dry /\ tProg'.todo = tProg.todo \ {x}
      BY <1>1, <2>1, <2>2, <2>4, RewriteRow
    <3>2. \A j \in Rows : RowMoves(j)
      <4>1. CASE tRows' = tRows /\ tOutdated' = tOutdated
        BY <4>1, SameRowMoves
      <4>2. CASE /\ tRows'[x.id] # Nil /\ tRows'[x.id].kind = tRows[x.id].kind
                 /\ tRows'[x.id].tenant = tRows[x.id].tenant
                 /\ tRows'[x.id].slot = tRows[x.id].slot
                 /\ tRows'[x.id].key = Tenant!Wanted(x)
                 /\ \A j \in Rows : j # x.id => tRows'[j] = tRows[j]
                 /\ tOutdated' = IF tRows[x.id].slot = x.slot
                                   THEN tOutdated \ {x.id} ELSE tOutdated \cup {x.id}
        <5>1. x.id \notin tOutdated' => tRows'[x.id].slot = x.slot
          BY <4>2
        <5>2. x.id \notin tOutdated' => tRows'[x.id].key = KeyOf(x.id)'
          BY <2>2, <4>2, <5>1 DEF KeyOf
        <5>3. RowMoves(x.id)
          BY <2>2, <4>2, <5>2 DEF RowMoves
        <5>4. ASSUME NEW j \in Rows, j # x.id PROVE RowMoves(j)
          BY <4>2, <5>4, SameRowMoves
        <5> QED
          BY <5>3, <5>4
      <4> QED
        BY <3>1, <4>1, <4>2
    <3>3. Distinct'
      <4>1. CASE tRows' = tRows
        BY <1>1, <4>1 DEF Distinct
      <4>2. CASE tRows' # tRows
        BY <1>1, <2>2, <3>1, <4>2, DistinctKept
      <4> QED
        BY <4>1, <4>2
    <3>4. /\ \A kind : Backfilled(kind) => Backfilled(kind)'
          /\ \A kind : Rebuilt(kind) => Rebuilt(kind)'
          /\ (\A i \in Rows : Tenant!Stored(i) => Owned(i) /\ Rekeyed(i))
               => (\A i \in Rows : Tenant!Stored(i) => Owned(i) /\ Rekeyed(i))'
          /\ (\A i \in Rows : Tenant!Stored(i) => tRows[i].key \in {Nil} \cup OldKeys \cup NewKeys)'
          /\ OpenSound'
      BY <1>1, <3>2, ProgressKept
    <3>5. RowsSound'
      BY <3>3, <3>4 DEF RowsSound, Distinct, Tenant!Live, Tenant!Stored
    <3>6. ASSUME NEW i \in Rows, tRows'[i] # Nil
          PROVE  /\ Rekeyed(i)' \/ (tRows[i] # Nil /\ ~Rekeyed(i) /\ tRows'[i].kind = tRows[i].kind)
                 /\ tRows[i] # Nil => tRows'[i].kind = tRows[i].kind
      BY <1>1, <3>2, <3>6, MovesKeep
    <3>7. ~tProg.dry => \A i \in Rows : i = x.id => Rekeyed(i)'
      <4>1. CASE tRows' = tRows
        <5>1. ~tProg.dry => x.key \notin OldKeys \/ tRows'[x.id].key = Tenant!Wanted(x)
          BY <2>2, <3>1, KeysDiffer
        <5> QED
          BY <2>2, <4>1, <5>1, KeysDiffer DEF Rekeyed, OldKeys
      <4>2. CASE tRows' # tRows
        <5>1. tRows'[x.id].key \notin OldKeys
          BY <2>2, <3>1, <4>2, KeysDiffer
        <5> QED
          BY <5>1 DEF Rekeyed, OldKeys
      <4> QED
        BY <4>1, <4>2
    <3>8. ASSUME ~tProg.dry, NEW i \in Rows, tRows'[i] # Nil, tRows'[i].kind = tProg.kind, ~Rekeyed(i)'
          PROVE  \E y \in tProg.todo \ {x} : y.id = i
      <4>1. tRows[i] # Nil /\ ~Rekeyed(i) /\ tRows[i].kind = tProg.kind
        BY <3>6, <3>8
      <4>2. PICK y \in tProg.todo : y.id = i
        BY <1>1, <2>2, <3>8, <4>1 DEF ProgressMade, Tenant!Stored
      <4>3. i # x.id
        BY <3>7, <3>8
      <4> QED
        BY <4>2, <4>3
    <3>9. ProgressMade'
      <4>1. ~tProg.dry => /\ Backfilled("reservations")' /\ Backfilled("time_entries")'
                          /\ tProg.kind = "time_entries" => Rebuilt("reservations")'
        BY <1>1, <2>2, <3>4 DEF ProgressMade
      <4> QED
        BY <3>1, <3>8, <4>1 DEF ProgressMade, Tenant!Stored
    <3>10. ASSUME NEW y \in tProg.todo
           PROVE  tRows'[y.id].kind = tProg.kind /\ (y.key \notin OldKeys => Rekeyed(y.id)')
      <4>1. y.id \in Rows /\ tRows[y.id] # Nil
        BY <1>1, <2>2, TenantProgram DEF TenantTypes, TodoSound, Tenant!Stored, Tenant!Todo
      <4>2. tRows[y.id].kind = tProg.kind /\ (y.key \notin OldKeys => Rekeyed(y.id))
        BY <1>1, <2>2 DEF TodoFresh, Tenant!Todo
      <4>3. tRows'[y.id] # Nil
        BY <3>2, <4>1 DEF RowMoves
      <4> QED
        BY <3>6, <4>1, <4>2, <4>3
    <3>11. TodoFresh'
      BY <2>4, <3>1, <3>10 DEF TodoFresh, Tenant!Todo, OldKeys
    <3> QED
      BY <1>2, <2>2, <3>4, <3>5, <3>9, <3>11 DEF TenantInv
  <2> QED
    BY <1>1, <2>1, <2>3, <2>4, RewriteRow
<1> QED
  BY <1>5, <1>7, <1>8, <1>9, <1>10, <1>11, <1>12 DEF Tenant!Next

LEMMA TenantStutters == UNCHANGED tVars => (TenantTypes => TenantTypes') /\ (TenantInv => TenantInv')
BY DEF tVars, TenantTypes, TodoSound, OpenKeyed, TenantInv, RowsSound, OpenSound, ProgressMade,
  TodoFresh, Tenant!TypeOK, Tenant!Todo, Tenant!Open, Tenant!Live, Tenant!Stored,
  KeyOf, OldKey, OldKeys, NewKeys, Owned, Rekeyed, Backfilled, Rebuilt

\* A row whose keys name one tenant, as the database can hold it at the start.
LEMMA WrittenIs ==
  ASSUME NEW tenant \in Businesses \cup {Nil}, NEW s \in Slots, NEW row \in Tenant!Written(tenant, s)
  PROVE  /\ row \in Tenant!Row
         /\ row.status = "open" => row.key = Tenant!Key(tenant, row.slot) /\ row.key # Nil
         /\ row.key = Nil \/ \E x \in Slots : row.key = Tenant!Key(tenant, x)
<1>1. \A x \in Slots : Tenant!Key(tenant, x) \in Tenant!Keys /\ Tenant!Key(tenant, x) # Nil
  BY KeyTyped
<1>2. CASE \E k \in Tenant!Kinds :
             row = [kind |-> k, status |-> "open", tenant |-> tenant, slot |-> s,
                    key |-> Tenant!Key(tenant, s)]
  BY <1>1, <1>2 DEF Tenant!Row, Tenant!Statuses
<1>3. CASE \E k \in Tenant!Kinds :
             row = [kind |-> k, status |-> "released", tenant |-> tenant, slot |-> s, key |-> Nil]
  BY <1>3 DEF Tenant!Row, Tenant!Statuses
<1>4. CASE \E x \in Slots :
             row = [kind |-> "reservations", status |-> "completed", tenant |-> tenant, slot |-> s,
                    key |-> Tenant!Key(tenant, x)]
  BY <1>1, <1>4 DEF Tenant!Row, Tenant!Statuses, Tenant!Kinds
<1> QED
  BY <1>2, <1>3, <1>4 DEF Tenant!Written

LEMMA TenantInit ==
  ASSUME Tenant!Init
  PROVE  TenantTypes /\ (Businesses = {First} => TenantInv)
<1>1. /\ tProg = Nil /\ tFinished = FALSE /\ tOutdated = {}
      /\ \A i \in Rows : tRows[i] # Nil => Tenant!KeyFree(i, tRows[i].kind, tRows[i].key) \/ tRows[i].key = Nil
  BY DEF Tenant!Init, Tenant!Live, Tenant!Stored
<1>2. /\ tRows = [i \in Rows |-> tRows[i]]
      /\ \A i \in Rows : tRows[i] # Nil =>
           \E s \in Slots : tRows[i] \in Tenant!Old(s) \/ tRows[i] \in Tenant!New(s)
  <2> DEFINE old == UNION {Tenant!Old(s) : s \in {x \in Slots : Owner[x] = First}}
             new == UNION {Tenant!New(s) : s \in {x \in Slots : Owner[x] # First}}
  <2>1. \A y \in old \cup new : \E s \in Slots : y \in Tenant!Old(s) \/ y \in Tenant!New(s)
    OBVIOUS
  <2>2. tRows \in [Rows -> old \cup new \cup {Nil}]
    BY DEF Tenant!Init
  <2> HIDE DEF old, new
  <2> QED
    BY <2>1, <2>2
<1>3. ASSUME NEW i \in Rows, tRows[i] # Nil
      PROVE  \E tenant \in Businesses \cup {Nil} :
               /\ tRows[i] \in Tenant!Row
               /\ tRows[i].status = "open" =>
                    tRows[i].key = Tenant!Key(tenant, tRows[i].slot) /\ tRows[i].key # Nil
               /\ tRows[i].key = Nil \/ \E x \in Slots : tRows[i].key = Tenant!Key(tenant, x)
  <2>1. PICK s \in Slots : tRows[i] \in Tenant!Written(Nil, s) \/ tRows[i] \in Tenant!Written(Owner[s], s)
    BY <1>2, <1>3 DEF Tenant!Old, Tenant!New
  <2>2. Owner[s] \in Businesses
    BY TenantAssumption
  <2> QED
    BY <2>1, <2>2, WrittenIs
<1>4. tRows \in [Rows -> Tenant!Row \cup {Nil}]
  BY <1>2, <1>3
<1>5. OpenKeyed
  BY <1>3 DEF OpenKeyed, Tenant!Open, Tenant!Stored
<1>6. TenantTypes
  BY <1>1, <1>4, <1>5 DEF TenantTypes, TodoSound, Tenant!TypeOK, Tenant!Todo
<1>7. Distinct
  BY <1>1 DEF Distinct, Tenant!KeyFree, Tenant!Live, Tenant!Stored
<1>8. ASSUME Businesses = {First} PROVE RowsSound /\ OpenSound
  <2>1. ASSUME NEW i \in Rows, tRows[i] # Nil
        PROVE  /\ tRows[i].key \in {Nil} \cup OldKeys \cup NewKeys
               /\ tRows[i].status = "open" => tRows[i].key \in {OldKey(i), KeyOf(i)}
    BY <1>3, <1>8, <2>1 DEF OldKeys, NewKeys, OldKey, KeyOf
  <2> QED
    BY <1>7, <2>1 DEF RowsSound, OpenSound, Distinct, Tenant!Open, Tenant!Live, Tenant!Stored
<1> QED
  BY <1>1, <1>6, <1>8 DEF TenantInv, ProgressMade, TodoFresh, Tenant!Todo

LEMMA TenantTypesHold == Spec => [](part = "tenant" => TenantTypes)
<1>1. Init => (part = "tenant" => TenantTypes)
  BY TenantInit DEF Init
<1>2. (part = "tenant" => TenantTypes) /\ [Next]_vars => (part = "tenant" => TenantTypes)'
  BY TenantTypesStep, TenantStutters DEF Next, vars
<1> QED
  BY <1>1, <1>2, PTL DEF Spec

\* A key that is absent comes back only on a row released under the cursor,
\* however many businesses there are.
THEOREM AbsentKeysStayAbsent == Spec => AbsentKeyStaysAbsent
<1>1. (part = "tenant" => TenantTypes) /\ [Next]_vars => [part = "tenant" => Tenant!StaysAbsent]_vars
  BY TenantTypesStep DEF Next
<1> QED
  BY <1>1, TenantTypesHold, PTL DEF Spec, AbsentKeyStaysAbsent

\* With one business, a run that got to its end leaves every row protected: only an
\* open job moved under the cursor may hold another slot than its own.
THEOREM FinishedIsProtected == ASSUME Businesses = {First} PROVE Spec => []FinishedMeansProtected
<1>1. Init => (part = "tenant" => TenantInv)
  BY TenantInit DEF Init
<1>2. (part = "tenant" => TenantInv) /\ [Next]_vars => (part = "tenant" => TenantInv)'
  BY TenantStep, TenantStutters DEF Next, vars
<1>3. TenantInv => Tenant!FinishedMeansProtected
  <2> SUFFICES ASSUME TenantInv, tFinished, NEW i \in Rows, tRows[i] # Nil
               PROVE  tRows[i].tenant # Nil /\ Tenant!Protected(i)
    BY DEF Tenant!FinishedMeansProtected, Tenant!Stored
  <2>1. Tenant!TypeOK /\ Distinct
    BY SoundIsDistinct DEF TenantInv, TenantTypes
  <2>2. ASSUME NEW k \in Rows, tRows[k] # Nil
        PROVE  /\ tRows[k].tenant = First /\ tRows[k].key \in {Nil} \cup NewKeys
               /\ Tenant!Open(k) /\ k \notin tOutdated => tRows[k].key = KeyOf(k) /\ tRows[k].key # Nil
    <3>1. Owned(k) /\ tRows[k].key \notin OldKeys /\ tRows[k].key \in {Nil} \cup OldKeys \cup NewKeys
      BY <2>2 DEF TenantInv, RowsSound, Tenant!Stored, Rekeyed
    <3>2. tRows[k].tenant \in Businesses \cup {Nil}
      BY <2>1, <2>2, TenantRow DEF Tenant!Stored
    <3>3. OldKey(k) \in OldKeys /\ KeyOf(k) # Nil
      BY <2>1, <2>2, KeysOf, KeysDiffer
    <3>4. Tenant!Open(k) /\ k \notin tOutdated => tRows[k].key \in {OldKey(k), KeyOf(k)}
      BY DEF TenantInv, OpenSound
    <3> QED
      BY <3>1, <3>2, <3>3, <3>4 DEF Owned
  <2>3. ASSUME Tenant!Open(i), i \notin tOutdated, NEW j \in Rows \ {i}, Tenant!Open(j),
               j \notin tOutdated, tRows[j].kind = tRows[i].kind, tRows[j].slot = tRows[i].slot
        PROVE  FALSE
    <3>1. tRows[j] # Nil
      BY <2>3 DEF Tenant!Open, Tenant!Stored
    <3>2. tRows[i].key = KeyOf(i) /\ tRows[i].key # Nil /\ tRows[j].key = KeyOf(j)
      BY <2>2, <2>3, <3>1
    <3>3. tRows[i].key = tRows[j].key
      BY <2>3, <3>2 DEF KeyOf
    <3> QED
      BY <2>1, <2>3, <3>1, <3>2, <3>3 DEF Distinct
  <2>4. tRows[i].tenant = First /\ tRows[i].key \in {Nil} \cup NewKeys
    BY <2>2
  <2>5. tRows[i].key # Nil => \E s \in Slots : tRows[i].key = Tenant!Key(tRows[i].tenant, s)
    BY <2>4 DEF NewKeys
  <2>6. Tenant!Open(i) /\ i \notin tOutdated =>
          tRows[i].key = Tenant!Key(tRows[i].tenant, tRows[i].slot)
    BY <2>2, <2>4 DEF KeyOf
  <2> QED
    BY <2>3, <2>4, <2>5, <2>6, TenantAssumption DEF Tenant!Protected
<1>4. (part = "tenant" => TenantInv) => FinishedMeansProtected
  BY <1>3 DEF FinishedMeansProtected
<1> QED
  BY <1>1, <1>2, <1>4, PTL DEF Spec

------------------------------------------------------------------------------
(* MigrateGuest.                                                           *)

\* A row knows its account by both of today's keys.
Keyed(u) == u.login = Guest!LoginKey(u) /\ u.contact = Guest!ContactKey(u)

AllKeyed == \A i \in Users : Guest!Stored(i) => Keyed(gUsers[i])

\* A key of a row is missing or right, and only an account with an address can
\* lack one: who has none was made by the service of today.
UsersSound == \A i \in Users : Guest!Stored(i) =>
  /\ gUsers[i].contact \in {Nil, Guest!ContactKey(gUsers[i])}
  /\ gUsers[i].email = Nil => Keyed(gUsers[i])

\* What was read of row x.id can be old, but only an address that has been added
\* since is not in it; and that row has its keys already.
StillRight(x) ==
  LET u == gUsers[x.id]
  IN /\ Guest!Stored(x.id)
     /\ x.row.tenant = u.tenant /\ x.row.role = u.role /\ x.row.phone = u.phone
     /\ x.row.email = u.email \/ (x.row.email = Nil /\ Keyed(u))

\* How far the command has got.
GuestProgress == gProg # Nil =>
  /\ \A x \in gProg.todo : StillRight(x)
  /\ gProg.at \in {"read", "write"} => \A i \in Users :
       Guest!Stored(i) /\ ~Keyed(gUsers[i]) => \E x \in gProg.todo : x.id = i
  /\ gProg.at \notin {"read", "write"} => AllKeyed
  /\ gProg.at \notin {"read", "write", "login_key"} => "login_key" \in gIndexes
  /\ gProg.at \in {"drop email_per_tenant", "drop email_1"} => "contact_key" \in gIndexes
  /\ gProg.at = "drop email_1" => "email_per_tenant" \notin gIndexes

\* The old index keeps the addresses apart until the new one does.
Covered == "email_per_tenant" \in gIndexes \/ ("login_key" \in gIndexes /\ AllKeyed)

IndexesHold == \A index \in gIndexes : Guest!CanIndex(index)

GuestInv ==
  /\ Guest!TypeOK /\ IndexesHold /\ UsersSound /\ GuestProgress /\ Covered
  /\ gFinished => gIndexes = {"login_key", "contact_key"} /\ AllKeyed

\* What the types say of the command and of a row.
LEMMA GuestProgram ==
  ASSUME Guest!TypeOK, gProg # Nil
  PROVE  /\ gProg \in Guest!Program /\ gProg.at \in Guest!Steps
         /\ \A x \in gProg.todo : x.id \in Users /\ x.row \in Guest!Row
BY DEF Guest!TypeOK, Guest!Program

LEMMA GuestRow ==
  ASSUME Guest!TypeOK, NEW i \in Users, Guest!Stored(i)
  PROVE  /\ gUsers[i] \in Guest!Row
         /\ gUsers[i].tenant \in Tenants /\ gUsers[i].email \in Emails \cup {Nil}
         /\ gUsers[i].role \in {"customer", "staff"} /\ gUsers[i].phone \in Phones \cup {Nil}
BY DEF Guest!TypeOK, Guest!Row, Guest!Stored

\* The command goes on to another step, and holds the rows it held.
LEMMA GuestMovesOn ==
  ASSUME Guest!TypeOK, gProg # Nil, NEW step \in Guest!Steps, gProg' = [gProg EXCEPT !.at = step]
  PROVE  gProg' \in Guest!Program /\ gProg'.at = step /\ gProg'.todo = gProg.todo
BY GuestProgram DEF Guest!Program

\* A row written past the indexes leaves every index in force.
LEMMA AcceptedRow ==
  ASSUME Guest!TypeOK, IndexesHold, NEW i \in Users, NEW new \in Guest!Row, Guest!Accepts(i, new),
         gUsers' = [gUsers EXCEPT ![i] = new], gIndexes' = gIndexes
  PROVE  /\ gUsers' \in [Users -> Guest!Row \cup {Nil}]
         /\ gUsers'[i] = new /\ new # Nil
         /\ \A j \in Users : j # i => gUsers'[j] = gUsers[j]
         /\ IndexesHold'
<1>1. /\ gUsers' \in [Users -> Guest!Row \cup {Nil}]
      /\ gUsers'[i] = new /\ new # Nil
      /\ \A j \in Users : j # i => gUsers'[j] = gUsers[j]
  BY GuestAssumption DEF Guest!TypeOK
<1>2. ASSUME NEW index \in gIndexes, NEW j \in Users, NEW k \in Users,
             gUsers'[j] # Nil, gUsers'[k] # Nil, j # k
      PROVE  Guest!Apart(index, gUsers'[j], gUsers'[k])
  <2>1. CASE j # i /\ k # i
    <3>1. Guest!Apart(index, gUsers[j], gUsers[k])
      BY <1>1, <1>2, <2>1 DEF IndexesHold, Guest!CanIndex, Guest!Stored
    <3> QED
      BY <1>1, <2>1, <3>1
  <2>2. CASE j = i
    <3>1. Guest!Apart(index, new, gUsers[k])
      BY <1>1, <1>2, <2>2 DEF Guest!Accepts, Guest!Stored
    <3> QED
      BY <1>1, <1>2, <2>2, <3>1
  <2>3. CASE k = i
    <3>1. Guest!Apart(index, new, gUsers[j])
      BY <1>1, <1>2, <2>3 DEF Guest!Accepts, Guest!Stored
    <3>2. Guest!Apart(index, gUsers[j], new)
      BY <3>1 DEF Guest!Apart
    <3> QED
      BY <1>1, <1>2, <2>3, <3>2
  <2> QED
    BY <2>1, <2>2, <2>3
<1>3. IndexesHold'
  BY <1>2 DEF IndexesHold, Guest!CanIndex, Guest!Stored
<1> QED
  BY <1>1, <1>3

\* A row made or changed so that it has its keys, and is otherwise what it was or
\* has got an address: nothing the command relies on is lost.
LEMMA KeyedRow ==
  ASSUME GuestInv, NEW i \in Users, NEW new \in Guest!Row, Guest!Accepts(i, new),
         gUsers' = [gUsers EXCEPT ![i] = new], gIndexes' = gIndexes, gFinished' = gFinished,
         Keyed(new),
         Guest!Stored(i) =>
           /\ new.tenant = gUsers[i].tenant /\ new.role = gUsers[i].role
           /\ new.phone = gUsers[i].phone
           /\ new.email = gUsers[i].email \/ gUsers[i].email = Nil
  PROVE  /\ gUsers' \in [Users -> Guest!Row \cup {Nil}]
         /\ gUsers'[i] = new /\ new # Nil
         /\ \A j \in Users : j # i => gUsers'[j] = gUsers[j]
         /\ IndexesHold' /\ UsersSound' /\ Covered' /\ (AllKeyed => AllKeyed')
         /\ \A x : x.id \in Users /\ StillRight(x) => StillRight(x)'
<1>1. /\ gUsers' \in [Users -> Guest!Row \cup {Nil}]
      /\ gUsers'[i] = new /\ new # Nil
      /\ \A j \in Users : j # i => gUsers'[j] = gUsers[j]
      /\ IndexesHold'
  BY AcceptedRow DEF GuestInv
<1>2. UsersSound'
  <2>1. ASSUME NEW j \in Users, gUsers'[j] # Nil
        PROVE  /\ gUsers'[j].contact \in {Nil, Guest!ContactKey(gUsers'[j])}
               /\ gUsers'[j].email = Nil => Keyed(gUsers'[j])
    <3>1. CASE j = i
      BY <1>1, <3>1 DEF Keyed
    <3>2. CASE j # i
      BY <1>1, <2>1, <3>2 DEF GuestInv, UsersSound, Guest!Stored
    <3> QED
      BY <3>1, <3>2
  <2> QED
    BY <2>1 DEF UsersSound, Guest!Stored, Keyed, Guest!ContactKey, Guest!LoginKey, Guest!Key
<1>3. ASSUME AllKeyed PROVE AllKeyed'
  <2>1. \A j \in Users : gUsers'[j] # Nil => Keyed(gUsers'[j])
    BY <1>1, <1>3 DEF AllKeyed, Guest!Stored
  <2> QED
    BY <2>1 DEF AllKeyed, Guest!Stored, Keyed, Guest!ContactKey, Guest!LoginKey, Guest!Key
<1>4. Covered'
  BY <1>3 DEF GuestInv, Covered
<1>5. ASSUME NEW x, x.id \in Users, StillRight(x) PROVE StillRight(x)'
  <2> DEFINE u == gUsers[x.id]
             v == gUsers'[x.id]
  <2>1. /\ u # Nil /\ x.row.tenant = u.tenant /\ x.row.role = u.role /\ x.row.phone = u.phone
        /\ x.row.email = u.email \/ (x.row.email = Nil /\ Keyed(u))
    BY <1>5 DEF StillRight, Guest!Stored
  <2>2. CASE x.id # i
    <3>1. v = u
      BY <1>1, <1>5, <2>2
    <3> QED
      BY <2>1, <3>1 DEF StillRight, Guest!Stored, Keyed, Guest!ContactKey, Guest!LoginKey, Guest!Key
  <2>3. CASE x.id = i
    <3>1. v = new
      BY <1>1, <2>3
    <3>2. /\ new.tenant = u.tenant /\ new.role = u.role /\ new.phone = u.phone
          /\ new.email = u.email \/ u.email = Nil
      BY <2>1, <2>3 DEF Guest!Stored
    <3>3. /\ v # Nil /\ x.row.tenant = v.tenant /\ x.row.role = v.role /\ x.row.phone = v.phone
          /\ x.row.email = v.email \/ (x.row.email = Nil /\ Keyed(v))
      BY <1>1, <2>1, <3>1, <3>2
    <3> QED
      BY <3>3 DEF StillRight, Guest!Stored, Keyed, Guest!ContactKey, Guest!LoginKey, Guest!Key
  <2> QED
    BY <2>2, <2>3
<1> QED
  BY <1>1, <1>2, <1>3, <1>4, <1>5

\* The same when the service writes: the command has not moved.
LEMMA ServiceRow ==
  ASSUME GuestInv, NEW i \in Users, NEW new \in Guest!Row, Guest!Accepts(i, new),
         gUsers' = [gUsers EXCEPT ![i] = new], gIndexes' = gIndexes, gFinished' = gFinished,
         gProg' = gProg, Keyed(new),
         Guest!Stored(i) =>
           /\ new.tenant = gUsers[i].tenant /\ new.role = gUsers[i].role
           /\ new.phone = gUsers[i].phone
           /\ new.email = gUsers[i].email \/ gUsers[i].email = Nil
  PROVE  GuestInv'
<1>1. /\ gUsers' \in [Users -> Guest!Row \cup {Nil}]
      /\ gUsers'[i] = new /\ new # Nil
      /\ \A j \in Users : j # i => gUsers'[j] = gUsers[j]
      /\ IndexesHold' /\ UsersSound' /\ Covered' /\ (AllKeyed => AllKeyed')
      /\ \A x : x.id \in Users /\ StillRight(x) => StillRight(x)'
  BY KeyedRow
<1>2. Guest!TypeOK'
  BY <1>1 DEF GuestInv, Guest!TypeOK
<1>3. GuestProgress'
  <2> SUFFICES ASSUME gProg # Nil PROVE GuestProgress'
    BY DEF GuestProgress
  <2>1. \A x \in gProg.todo : StillRight(x)'
    BY <1>1, GuestProgram DEF GuestInv, GuestProgress
  <2>2. ASSUME gProg.at \in {"read", "write"}, NEW j \in Users, gUsers'[j] # Nil, ~Keyed(gUsers'[j])
        PROVE  \E x \in gProg.todo : x.id = j
    BY <1>1, <2>2 DEF GuestInv, GuestProgress, Guest!Stored
  <2>3. gProg.at \in {"read", "write"} => \A j \in Users :
          Guest!Stored(j)' /\ ~Keyed(gUsers[j])' => \E x \in gProg.todo : x.id = j
    BY <2>2 DEF Guest!Stored, Keyed, Guest!ContactKey, Guest!LoginKey, Guest!Key
  <2> QED
    BY <1>1, <2>1, <2>3 DEF GuestInv, GuestProgress
<1> QED
  BY <1>1, <1>2, <1>3 DEF GuestInv

\* A step that writes no row.
LEMMA UsersStay ==
  ASSUME GuestInv, gUsers' = gUsers, gIndexes' \subseteq Guest!Indexes,
         gProg' \in Guest!Program \cup {Nil}, gFinished' \in BOOLEAN,
         \A index \in gIndexes' : index \in gIndexes \/ Guest!CanIndex(index),
         "email_per_tenant" \in gIndexes' \/ ("login_key" \in gIndexes' /\ AllKeyed),
         gFinished' => gIndexes' = {"login_key", "contact_key"} /\ AllKeyed,
         gProg' # Nil =>
           /\ \A x \in gProg'.todo : x.id \in Users /\ StillRight(x)
           /\ gProg'.at \in {"read", "write"} => \A i \in Users :
                Guest!Stored(i) /\ ~Keyed(gUsers[i]) => \E x \in gProg'.todo : x.id = i
           /\ gProg'.at \notin {"read", "write"} => AllKeyed
           /\ gProg'.at \notin {"read", "write", "login_key"} => "login_key" \in gIndexes'
           /\ gProg'.at \in {"drop email_per_tenant", "drop email_1"} => "contact_key" \in gIndexes'
           /\ gProg'.at = "drop email_1" => "email_per_tenant" \notin gIndexes'
  PROVE  GuestInv'
<1>1. Guest!TypeOK'
  BY DEF GuestInv, Guest!TypeOK
<1>2. AllKeyed => AllKeyed'
  BY DEF AllKeyed, Guest!Stored, Keyed, Guest!ContactKey, Guest!LoginKey, Guest!Key
<1>3. UsersSound'
  BY DEF GuestInv, UsersSound, Guest!Stored, Keyed, Guest!ContactKey, Guest!LoginKey, Guest!Key
<1>4. \A index \in gIndexes' : \A i, j \in Users :
        gUsers[i] # Nil /\ gUsers[j] # Nil /\ i # j => Guest!Apart(index, gUsers[i], gUsers[j])
  BY DEF GuestInv, IndexesHold, Guest!CanIndex, Guest!Stored
<1>5. IndexesHold'
  BY <1>4 DEF IndexesHold, Guest!CanIndex, Guest!Stored
<1>6. Covered'
  BY <1>2 DEF Covered
<1>7. \A x : x.id \in Users /\ StillRight(x) => StillRight(x)'
  BY DEF StillRight, Guest!Stored, Keyed, Guest!ContactKey, Guest!LoginKey, Guest!Key
<1>8. gProg' # Nil /\ gProg'.at \in {"read", "write"} => \A i \in Users :
        Guest!Stored(i)' /\ ~Keyed(gUsers[i])' => \E x \in gProg'.todo : x.id = i
  BY DEF Guest!Stored, Keyed, Guest!ContactKey, Guest!LoginKey, Guest!Key
<1>9. GuestProgress'
  BY <1>2, <1>7, <1>8 DEF GuestProgress
<1> QED
  BY <1>1, <1>2, <1>3, <1>5, <1>6, <1>9 DEF GuestInv

LEMMA NoCommand ==
  ASSUME GuestInv, gUsers' = gUsers, gIndexes' = gIndexes, gProg' = Nil, gFinished' = gFinished
  PROVE  GuestInv'
BY UsersStay DEF GuestInv, Guest!TypeOK, Covered

LEMMA InsertsKeyed ==
  ASSUME GuestInv, NEW i \in Users, NEW u \in Guest!Today, Guest!Insert(i, u)
  PROVE  GuestInv'
<1>1. /\ ~Guest!Stored(i) /\ Guest!Accepts(i, u) /\ gUsers' = [gUsers EXCEPT ![i] = u]
      /\ gIndexes' = gIndexes /\ gProg' = gProg /\ gFinished' = gFinished
  BY DEF Guest!Insert
<1>2. u \in Guest!Row /\ Keyed(u)
  BY DEF Guest!Today, Keyed
<1> QED
  BY <1>1, <1>2, ServiceRow

LEMMA UpgradesKeyed ==
  ASSUME GuestInv, NEW i \in Users, NEW email \in Emails, Guest!UpgradeGuest(i, email)
  PROVE  GuestInv'
<1> DEFINE new == [gUsers[i] EXCEPT !.email = email, !.login = Guest!Key(gUsers[i].tenant, email)]
<1>1. /\ Guest!Stored(i) /\ gUsers[i].email = Nil
      /\ Guest!Accepts(i, new) /\ gUsers' = [gUsers EXCEPT ![i] = new]
      /\ gIndexes' = gIndexes /\ gProg' = gProg /\ gFinished' = gFinished
  BY DEF Guest!UpgradeGuest
<1>2. gUsers[i] \in Guest!Row /\ gUsers[i].tenant \in Tenants
  BY <1>1, GuestRow DEF GuestInv
<1>3. Keyed(gUsers[i])
  BY <1>1 DEF GuestInv, UsersSound
<1>4. Guest!Key(gUsers[i].tenant, email) \in Guest!Keys(Emails)
  BY <1>2 DEF Guest!Keys
<1>5. /\ new \in Guest!Row /\ new.tenant = gUsers[i].tenant /\ new.role = gUsers[i].role
      /\ new.phone = gUsers[i].phone /\ new.contact = gUsers[i].contact
      /\ new.email = email /\ new.login = Guest!Key(gUsers[i].tenant, email)
  BY <1>2, <1>4 DEF Guest!Row
<1>6. Keyed(new)
  BY <1>3, <1>5 DEF Keyed, Guest!LoginKey, Guest!ContactKey
<1> HIDE DEF new
<1> QED
  BY <1>1, <1>5, <1>6, ServiceRow

LEMMA EnsuresIndexes ==
  ASSUME GuestInv, Guest!EnsureIndexes
  PROVE  GuestInv'
<1>1. /\ gUsers' = gUsers /\ gProg' = gProg /\ gFinished' = gFinished
      /\ gIndexes' = gIndexes \cup {"login_key", "contact_key"}
      /\ Guest!CanIndex("login_key") /\ Guest!CanIndex("contact_key")
  BY DEF Guest!EnsureIndexes
<1>2. gProg # Nil => \A x \in gProg.todo : x.id \in Users
  BY GuestProgram DEF GuestInv
<1>3. /\ gIndexes' \subseteq Guest!Indexes /\ gProg \in Guest!Program \cup {Nil}
      /\ gFinished \in BOOLEAN
  BY <1>1 DEF GuestInv, Guest!TypeOK, Guest!Indexes
<1>4. \A index \in gIndexes' : index \in gIndexes \/ Guest!CanIndex(index)
  BY <1>1
<1>5. gFinished' => gIndexes' = {"login_key", "contact_key"} /\ AllKeyed
  BY <1>1 DEF GuestInv
<1>6. "email_per_tenant" \in gIndexes' \/ ("login_key" \in gIndexes' /\ AllKeyed)
  BY <1>1 DEF GuestInv, Covered
<1>7. gProg' # Nil =>
        /\ \A x \in gProg'.todo : x.id \in Users /\ StillRight(x)
        /\ gProg'.at \in {"read", "write"} => \A i \in Users :
             Guest!Stored(i) /\ ~Keyed(gUsers[i]) => \E x \in gProg'.todo : x.id = i
        /\ gProg'.at \notin {"read", "write"} => AllKeyed
        /\ gProg'.at \notin {"read", "write", "login_key"} => "login_key" \in gIndexes'
        /\ gProg'.at \in {"drop email_per_tenant", "drop email_1"} => "contact_key" \in gIndexes'
        /\ gProg'.at = "drop email_1" => "email_per_tenant" \notin gIndexes'
  BY <1>1, <1>2 DEF GuestInv, GuestProgress
<1> QED
  BY <1>1, <1>3, <1>4, <1>5, <1>6, <1>7, UsersStay

LEMMA ReadsUsers ==
  ASSUME GuestInv, Guest!Read
  PROVE  GuestInv'
<1> DEFINE all == {[id |-> i, row |-> gUsers[i]] : i \in {j \in Users : Guest!Stored(j)}}
<1>1. /\ gProg' = [at |-> "read", todo |-> all]
      /\ gUsers' = gUsers /\ gIndexes' = gIndexes /\ gFinished' = gFinished
  BY DEF Guest!Read
<1>2. \A x \in all : x.id \in Users /\ x.row = gUsers[x.id] /\ Guest!Stored(x.id) /\ x.row \in Guest!Row
  BY GuestRow DEF GuestInv
<1>3. \A x \in all : x \in [id : Users, row : Guest!Row] /\ StillRight(x)
  BY <1>2, GuestRow DEF GuestInv, StillRight
<1>4. ASSUME NEW i \in Users, Guest!Stored(i) PROVE \E x \in all : x.id = i
  <2>1. [id |-> i, row |-> gUsers[i]] \in all
    BY <1>4
  <2> QED
    BY <2>1
<1> HIDE DEF all
<1>5. gProg' \in Guest!Program /\ gProg'.at = "read" /\ gProg'.todo = all
  BY <1>1, <1>3 DEF Guest!Program, Guest!Steps
<1> QED
  BY <1>1, <1>2, <1>3, <1>4, <1>5, UsersStay DEF GuestInv, Guest!TypeOK, Covered

LEMMA ChecksKeys ==
  ASSUME GuestInv, Guest!Check
  PROVE  GuestInv'
<1>1. /\ gProg # Nil /\ gProg.at = "read"
      /\ gUsers' = gUsers /\ gIndexes' = gIndexes /\ gFinished' = gFinished
      /\ gProg' = Nil \/ gProg' = [gProg EXCEPT !.at = "write"]
  BY DEF Guest!Check, Guest!At, Guest!Goes
<1>2. CASE gProg' = Nil
  BY <1>1, <1>2, NoCommand
<1>3. CASE gProg' = [gProg EXCEPT !.at = "write"]
  <2>1. gProg' \in Guest!Program /\ gProg'.at = "write" /\ gProg'.todo = gProg.todo
    BY <1>1, <1>3, GuestMovesOn DEF GuestInv, Guest!Steps
  <2>2. \A x \in gProg.todo : x.id \in Users
    BY <1>1, GuestProgram DEF GuestInv
  <2> QED
    BY <1>1, <2>1, <2>2, UsersStay DEF GuestInv, Guest!TypeOK, Covered, GuestProgress
<1> QED
  BY <1>1, <1>2, <1>3

LEMMA AllWritten ==
  ASSUME GuestInv, Guest!Written
  PROVE  GuestInv'
<1>1. /\ gProg # Nil /\ gProg.at = "write" /\ gProg.todo = {}
      /\ gUsers' = gUsers /\ gIndexes' = gIndexes /\ gFinished' = gFinished
      /\ gProg' = [gProg EXCEPT !.at = "login_key"]
  BY DEF Guest!Written, Guest!At, Guest!Goes
<1>2. gProg' \in Guest!Program /\ gProg'.at = "login_key" /\ gProg'.todo = {}
  BY <1>1, GuestMovesOn DEF GuestInv, Guest!Steps
<1>3. AllKeyed
  BY <1>1 DEF GuestInv, GuestProgress, AllKeyed
<1> QED
  BY <1>1, <1>2, <1>3, UsersStay DEF GuestInv, Guest!TypeOK, Covered

\* What a row gets from what was read of it is its keys.
LEMMA WritesKeys ==
  ASSUME GuestInv, NEW x \in Guest!Todo, Guest!Write(x)
  PROVE  GuestInv'
<1> DEFINE u == gUsers[x.id]
           new == Guest!WithKeys(u, x.row)
           login == IF Guest!LoginKey(x.row) = Nil THEN u.login ELSE Guest!LoginKey(x.row)
           contact == IF Guest!ContactKey(x.row) = Nil THEN u.contact ELSE Guest!ContactKey(x.row)
<1>1. /\ gProg # Nil /\ gProg.at = "write" /\ x \in gProg.todo
      /\ gIndexes' = gIndexes /\ gFinished' = gFinished
      /\ \/ /\ Guest!Accepts(x.id, new) /\ gUsers' = [gUsers EXCEPT ![x.id] = new]
            /\ gProg' = [gProg EXCEPT !.todo = @ \ {x}]
         \/ gUsers' = gUsers /\ gProg' = Nil
  BY DEF Guest!Write, Guest!At, Guest!Todo
<1>2. CASE gUsers' = gUsers /\ gProg' = Nil
  BY <1>1, <1>2, NoCommand
<1>3. CASE /\ Guest!Accepts(x.id, new) /\ gUsers' = [gUsers EXCEPT ![x.id] = new]
           /\ gProg' = [gProg EXCEPT !.todo = @ \ {x}]
  <2>1. x.id \in Users /\ x.row \in Guest!Row /\ StillRight(x)
    BY <1>1, GuestProgram DEF GuestInv, GuestProgress
  <2>2. /\ Guest!Stored(x.id) /\ u \in Guest!Row
        /\ x.row.tenant = u.tenant /\ x.row.role = u.role /\ x.row.phone = u.phone
        /\ x.row.email = u.email \/ (x.row.email = Nil /\ Keyed(u))
    BY <2>1, GuestRow DEF GuestInv, StillRight
  <2>3. /\ Guest!LoginKey(x.row) \in Guest!Keys(Emails)
        /\ Guest!ContactKey(x.row) \in Guest!Keys(Phones)
    BY <2>1 DEF Guest!Row, Guest!LoginKey, Guest!ContactKey, Guest!Key, Guest!Keys
  <2>4. u.login \in Guest!Keys(Emails) /\ u.contact \in Guest!Keys(Phones)
    BY <2>2 DEF Guest!Row
  <2>5. /\ new \in Guest!Row /\ new.tenant = u.tenant /\ new.role = u.role /\ new.phone = u.phone
        /\ new.email = u.email /\ new.login = login /\ new.contact = contact
    BY <2>2, <2>3, <2>4 DEF Guest!WithKeys, Guest!Row
  <2>6. contact = Guest!ContactKey(u)
    <3>1. Guest!ContactKey(x.row) = Guest!ContactKey(u)
      BY <2>2 DEF Guest!ContactKey
    <3>2. u.contact \in {Nil, Guest!ContactKey(u)}
      BY <2>1, <2>2 DEF GuestInv, UsersSound
    <3> QED
      BY <3>1, <3>2
  <2>7. login = Guest!LoginKey(u)
    <3>1. CASE u.email = Nil \/ x.row.email = Nil
      <4>1. u.login = Guest!LoginKey(u)
        BY <2>1, <2>2, <3>1 DEF GuestInv, UsersSound, Keyed
      <4>2. Guest!LoginKey(x.row) = Nil \/ Guest!LoginKey(x.row) = Guest!LoginKey(u)
        BY <2>2, <3>1 DEF Guest!LoginKey, Guest!Key
      <4> QED
        BY <4>1, <4>2
    <3>2. CASE u.email # Nil /\ x.row.email # Nil
      <4>1. x.row.email = u.email /\ u.tenant \in Tenants /\ u.email \in Emails
        BY <2>2, <3>2 DEF Guest!Row
      <4>2. Guest!LoginKey(x.row) = Guest!LoginKey(u) /\ Guest!LoginKey(u) # Nil
        BY <2>2, <3>2, <4>1, GuestAssumption DEF Guest!LoginKey, Guest!Key
      <4> QED
        BY <4>2
    <3> QED
      BY <3>1, <3>2
  <2>8. Keyed(new)
    BY <2>5, <2>6, <2>7 DEF Keyed, Guest!LoginKey, Guest!ContactKey
  <2> HIDE DEF new, login, contact
  <2>9. /\ gUsers' \in [Users -> Guest!Row \cup {Nil}]
        /\ gUsers'[x.id] = new /\ new # Nil
        /\ \A j \in Users : j # x.id => gUsers'[j] = gUsers[j]
        /\ IndexesHold' /\ UsersSound' /\ Covered' /\ (AllKeyed => AllKeyed')
        /\ \A y : y.id \in Users /\ StillRight(y) => StillRight(y)'
    BY <1>1, <1>3, <2>1, <2>2, <2>5, <2>8, KeyedRow
  <2>10. /\ gProg' \in Guest!Program /\ gProg'.at = "write" /\ gProg'.todo = gProg.todo \ {x}
    BY <1>1, <1>3, GuestProgram DEF GuestInv, Guest!Program
  <2>11. Guest!TypeOK'
    BY <1>1, <2>9, <2>10 DEF GuestInv, Guest!TypeOK
  <2>12. \A y \in gProg'.todo : StillRight(y)'
    BY <1>1, <2>9, <2>10, GuestProgram DEF GuestInv, GuestProgress
  <2>13. ASSUME NEW i \in Users, gUsers'[i] # Nil, ~Keyed(gUsers'[i])
         PROVE  \E y \in gProg'.todo : y.id = i
    <3>1. i # x.id
      BY <2>8, <2>9, <2>13
    <3>2. gUsers[i] # Nil /\ ~Keyed(gUsers[i])
      BY <2>9, <2>13, <3>1
    <3>3. PICK y \in gProg.todo : y.id = i
      BY <1>1, <3>2 DEF GuestInv, GuestProgress, Guest!Stored
    <3> QED
      BY <2>10, <3>1, <3>3
  <2>14. \A i \in Users : Guest!Stored(i)' /\ ~Keyed(gUsers[i])' => \E y \in gProg'.todo : y.id = i
    BY <2>13 DEF Guest!Stored, Keyed, Guest!ContactKey, Guest!LoginKey, Guest!Key
  <2>15. GuestProgress'
    BY <2>10, <2>12, <2>14 DEF GuestProgress
  <2> QED
    BY <1>1, <2>9, <2>11, <2>15 DEF GuestInv
<1> QED
  BY <1>1, <1>2, <1>3

\* One of the steps after the rows are written: the index they leave is made, or
\* the one they drop was not needed any more.
LEMMA StepsOn ==
  ASSUME GuestInv, gProg # Nil, gProg.at \notin {"read", "write"}, NEW next \in Guest!Steps,
         next \notin {"read", "write"}, gUsers' = gUsers, gFinished' = gFinished,
         gProg' = [gProg EXCEPT !.at = next], gIndexes' \subseteq Guest!Indexes,
         "login_key" \in gIndexes',
         next \in {"drop email_per_tenant", "drop email_1"} => "contact_key" \in gIndexes',
         next = "drop email_1" => "email_per_tenant" \notin gIndexes',
         \A index \in gIndexes' : index \in gIndexes \/ Guest!CanIndex(index),
         gFinished => gIndexes' = gIndexes
  PROVE  GuestInv'
<1>1. gProg' \in Guest!Program /\ gProg'.at = next /\ gProg'.todo = gProg.todo
  BY GuestMovesOn DEF GuestInv
<1>2. AllKeyed /\ \A x \in gProg.todo : x.id \in Users /\ StillRight(x)
  BY GuestProgram DEF GuestInv, GuestProgress
<1> QED
  BY <1>1, <1>2, UsersStay DEF GuestInv, Guest!TypeOK

LEMMA MakesLoginIndex ==
  ASSUME GuestInv, Guest!CreateIndex("login_key")
  PROVE  GuestInv'
<1>1. /\ gProg # Nil /\ gProg.at = "login_key" /\ gUsers' = gUsers /\ gFinished' = gFinished
      /\ \/ /\ gIndexes' = gIndexes \cup {"login_key"} /\ Guest!CanIndex("login_key")
            /\ gProg' = [gProg EXCEPT !.at = "contact_key"]
         \/ gIndexes' = gIndexes /\ gProg' = Nil
  BY GuestAssumption DEF Guest!CreateIndex, Guest!At, Guest!Then, Guest!NextStep, Guest!Goes, Guest!Steps
<1>2. CASE gIndexes' = gIndexes /\ gProg' = Nil
  BY <1>1, <1>2, NoCommand
<1>3. CASE /\ gIndexes' = gIndexes \cup {"login_key"} /\ Guest!CanIndex("login_key")
           /\ gProg' = [gProg EXCEPT !.at = "contact_key"]
  <2>1. gIndexes' \subseteq Guest!Indexes /\ (gFinished => gIndexes' = gIndexes)
    BY <1>3 DEF GuestInv, Guest!TypeOK, Guest!Indexes
  <2> QED
    BY <1>1, <1>3, <2>1, StepsOn DEF Guest!Steps
<1> QED
  BY <1>1, <1>2, <1>3

LEMMA MakesContactIndex ==
  ASSUME GuestInv, Guest!CreateIndex("contact_key")
  PROVE  GuestInv'
<1>1. /\ gProg # Nil /\ gProg.at = "contact_key" /\ gUsers' = gUsers /\ gFinished' = gFinished
      /\ \/ /\ gIndexes' = gIndexes \cup {"contact_key"} /\ Guest!CanIndex("contact_key")
            /\ gProg' = [gProg EXCEPT !.at = "drop email_per_tenant"]
         \/ gIndexes' = gIndexes /\ gProg' = Nil
  BY GuestAssumption DEF Guest!CreateIndex, Guest!At, Guest!Then, Guest!NextStep, Guest!Goes, Guest!Steps
<1>2. CASE gIndexes' = gIndexes /\ gProg' = Nil
  BY <1>1, <1>2, NoCommand
<1>3. CASE /\ gIndexes' = gIndexes \cup {"contact_key"} /\ Guest!CanIndex("contact_key")
           /\ gProg' = [gProg EXCEPT !.at = "drop email_per_tenant"]
  <2>1. gIndexes' \subseteq Guest!Indexes /\ (gFinished => gIndexes' = gIndexes)
    BY <1>3 DEF GuestInv, Guest!TypeOK, Guest!Indexes
  <2>2. "login_key" \in gIndexes
    BY <1>1 DEF GuestInv, GuestProgress
  <2> QED
    BY <1>1, <1>3, <2>1, <2>2, StepsOn DEF Guest!Steps
<1> QED
  BY <1>1, <1>2, <1>3

LEMMA DropsTheOld ==
  ASSUME GuestInv, Guest!DropIndex("email_per_tenant", "drop email_per_tenant")
  PROVE  GuestInv'
<1>1. /\ gProg # Nil /\ gProg.at = "drop email_per_tenant" /\ gUsers' = gUsers
      /\ gIndexes' = gIndexes \ {"email_per_tenant"} /\ gFinished' = gFinished
      /\ gProg' = [gProg EXCEPT !.at = "drop email_1"]
  BY GuestAssumption DEF Guest!DropIndex, Guest!At, Guest!Then, Guest!NextStep, Guest!Goes, Guest!Steps
<1>2. "login_key" \in gIndexes /\ "contact_key" \in gIndexes
  BY <1>1 DEF GuestInv, GuestProgress
<1>3. gIndexes' \subseteq Guest!Indexes /\ (gFinished => gIndexes' = gIndexes)
  BY <1>1 DEF GuestInv, Guest!TypeOK
<1> QED
  BY <1>1, <1>2, <1>3, StepsOn DEF Guest!Steps

LEMMA DropsTheStale ==
  ASSUME GuestInv, Guest!DropIndex("email_1", "drop email_1")
  PROVE  GuestInv'
<1>1. /\ gProg # Nil /\ gProg.at = "drop email_1" /\ gUsers' = gUsers
      /\ gIndexes' = gIndexes \ {"email_1"} /\ gProg' = Nil /\ gFinished' = TRUE
  BY DEF Guest!DropIndex, Guest!At, Guest!Then, Guest!NextStep, Guest!Goes
<1>2. /\ "login_key" \in gIndexes /\ "contact_key" \in gIndexes
      /\ "email_per_tenant" \notin gIndexes /\ AllKeyed
  BY <1>1 DEF GuestInv, GuestProgress
<1>3. gIndexes' \subseteq Guest!Indexes /\ gIndexes' = {"login_key", "contact_key"}
  BY <1>1, <1>2 DEF GuestInv, Guest!TypeOK, Guest!Indexes
<1> QED
  BY <1>1, <1>2, <1>3, UsersStay

LEMMA GuestNext ==
  ASSUME GuestInv, Guest!Next
  PROVE  GuestInv'
<1>1. Guest!Stop => GuestInv'
  BY NoCommand DEF Guest!Stop
<1> QED
  BY <1>1, InsertsKeyed, UpgradesKeyed, EnsuresIndexes, ReadsUsers, ChecksKeys, AllWritten, WritesKeys,
     MakesLoginIndex, MakesContactIndex, DropsTheOld, DropsTheStale DEF Guest!Next

LEMMA GuestStep == (part = "guest" => GuestInv) /\ [Next]_vars => (part = "guest" => GuestInv)'
<1> SUFFICES ASSUME GuestInv, [Next]_vars, part' = "guest", part = "guest"
             PROVE  GuestInv'
  BY DEF Next, vars
<1>1. CASE Guest!Next
  BY <1>1, GuestNext
<1>2. CASE UNCHANGED gVars
  <2>1. /\ gUsers' = gUsers /\ gIndexes' = gIndexes /\ gProg' = gProg /\ gFinished' = gFinished
    BY <1>2 DEF gVars
  <2>2. gProg # Nil => \A x \in gProg.todo : x.id \in Users
    BY GuestProgram DEF GuestInv
  <2> QED
    BY <2>1, <2>2, UsersStay DEF GuestInv, Guest!TypeOK, Covered, GuestProgress
<1> QED
  BY <1>1, <1>2 DEF Next, vars

LEMMA GuestInvariant == Spec => [](part = "guest" => GuestInv)
<1>1. Init => (part = "guest" => GuestInv)
  <2> SUFFICES ASSUME Init, part = "guest" PROVE GuestInv
    OBVIOUS
  <2>1. /\ gUsers \in [Users -> Guest!Before \cup {Nil}] /\ gProg = Nil /\ gFinished = FALSE
        /\ gIndexes \in {{"email_per_tenant"}, {"email_per_tenant", "email_1"}}
        /\ \A index \in gIndexes : Guest!CanIndex(index)
    BY DEF Init, Guest!Init
  <2>2. Guest!TypeOK
    BY <2>1 DEF Guest!TypeOK, Guest!Before, Guest!Indexes
  <2>3. UsersSound
    BY <2>1 DEF UsersSound, Guest!Before, Guest!Stored
  <2> QED
    BY <2>1, <2>2, <2>3 DEF GuestInv, IndexesHold, GuestProgress, Covered
<1> QED
  BY <1>1, GuestStep, PTL DEF Spec

\* cmd/migrate-guest: at every step of the command, wherever it stops, and with the
\* service writing, one business has one account per address: the old index holds
\* until every row has its key and the new index is there.
LEMMA GuestsApart == ASSUME GuestInv PROVE Guest!OneLoginPerEmail
<1> SUFFICES ASSUME NEW i \in Users, NEW j \in Users, Guest!Stored(i), Guest!Stored(j),
                    gUsers[i].email # Nil, gUsers[j].email # Nil, i # j,
                    gUsers[i].tenant = gUsers[j].tenant, gUsers[i].email = gUsers[j].email
             PROVE  FALSE
  BY DEF Guest!OneLoginPerEmail
<1> DEFINE u == gUsers[i]
           v == gUsers[j]
<1>1. u.tenant \in Tenants /\ u.email \in Emails
  BY GuestRow DEF GuestInv
<1>2. <<u.tenant, u.email>> # Nil
  BY <1>1, GuestAssumption
<1>3. CASE "email_per_tenant" \in gIndexes
  <2>1. Guest!Apart("email_per_tenant", u, v)
    BY <1>3 DEF GuestInv, IndexesHold, Guest!CanIndex
  <2>2. Guest!Entry("email_per_tenant", u) = <<u.tenant, u.email>>
    BY DEF Guest!Entry
  <2>3. Guest!Entry("email_per_tenant", v) = <<u.tenant, u.email>>
    BY DEF Guest!Entry
  <2> QED
    BY <1>2, <2>1, <2>2, <2>3 DEF Guest!Apart
<1>4. CASE "login_key" \in gIndexes /\ AllKeyed
  <2>1. Guest!Apart("login_key", u, v)
    BY <1>4 DEF GuestInv, IndexesHold, Guest!CanIndex
  <2>2. u.login = <<u.tenant, u.email>> /\ v.login = <<u.tenant, u.email>>
    BY <1>4 DEF AllKeyed, Keyed, Guest!LoginKey, Guest!Key
  <2>3. Guest!Entry("login_key", u) = u.login /\ Guest!Entry("login_key", v) = v.login
    BY DEF Guest!Entry
  <2> QED
    BY <1>2, <2>1, <2>2, <2>3 DEF Guest!Apart
<1> QED
  BY <1>3, <1>4 DEF GuestInv, Covered

\* One business has one account per address: when processes start up together and
\* register the first manager, and at every step of the migration of the keys, wherever
\* it stops and whatever the service writes meanwhile (staff_service.go,
\* cmd/migrate-guest/main.go).
THEOREM AddressesStayApart == Spec => []OneLoginPerEmail
<1>1. (part = "staff" => StaffInv) /\ (part = "guest" => GuestInv) => OneLoginPerEmail
  BY GuestsApart DEF OneLoginPerEmail, StaffInv
<1> QED
  BY <1>1, StaffInvariant, GuestInvariant, PTL

\* A run of cmd/migrate-guest that got to its end leaves today's two indexes and
\* nothing else, and every account known by today's keys; it stays so whatever runs
\* afterwards (main.go).
THEOREM FinishedServesGuests == Spec => []FinishedMeansGuests
<1>1. (part = "guest" => GuestInv) => FinishedMeansGuests
  BY DEF FinishedMeansGuests, GuestInv, Guest!FinishedMeansGuests, AllKeyed, Keyed
<1> QED
  BY <1>1, GuestInvariant, PTL
\* Every part keeps its types: a price, a length and a fence stay within their bounds
\* through every sequence of partial updates (catalogue_service.go), a file has its
\* two copies or none (media_service.go), a row has every key or Nil where the
\* migrations leave it.
THEOREM TypesHold == Spec => []TypeOK
<1>1. /\ part = "catalogue" => Catalogue!TypeOK
      /\ part = "media" => MediaInv
      /\ part = "staff" => StaffInv
      /\ DayGood
      /\ part = "limiter" => LimiterInv
      /\ part = "tenant" => TenantTypes
      /\ part = "guest" => GuestInv
      => TypeOK
  BY DEF TypeOK, MediaInv, StaffInv, DayGood, DayInv, LimiterInv, TenantTypes, GuestInv
<1> QED
  BY <1>1, CatalogueInvariant, MediaInvariant, StaffInvariant, DayInvariant, LimiterInvariant,
     TenantTypesHold, GuestInvariant, PTL
==============================================================================
