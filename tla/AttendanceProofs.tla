--------------------------- MODULE AttendanceProofs ---------------------------
(***************************************************************************)
(* Theorems about Attendance, for any number of entries, handlers,         *)
(* employees and instants.                                                 *)
(***************************************************************************)
EXTENDS Attendance, TLAPS

\* No two entries hold one open_key.
KeysUnique ==
  \A i, k \in Ids :
    i # k /\ Stored(i) /\ Stored(k) /\ entries[i].key # Nil => entries[i].key # entries[k].key

\* What a clock-in under way is about to insert: an identity of its own, and an
\* entry that is running, keyed and on site.
InsertSound(r) ==
  /\ ~Stored(reqs[r].id)
  /\ \A q \in Requests \ {r} : ~Idle(q) => reqs[q].id # reqs[r].id
  /\ reqs[r].entry.key = OpenKey(reqs[r].entry.employee)
  /\ reqs[r].entry.out = Nil
  /\ reqs[r].entry.worked = 0
  /\ \E radius \in Radii : 2 * reqs[r].entry.inDistance <= radius + 1

InsertsSound ==
  \A r \in Requests : ~Idle(r) /\ reqs[r].op = "in" => InsertSound(r)

\* What a clock-out under way is about to write fits the entry it read: the
\* start of an entry never moves, so the minutes stay right however late the
\* write comes.
CloseSound ==
  \A r \in Requests :
    ~Idle(r) /\ reqs[r].op = "out" =>
      /\ Stored(reqs[r].id)
      /\ reqs[r].worked = Minutes(entries[reqs[r].id].in, reqs[r].at)

Inv ==
  /\ TypeOK
  /\ KeysUnique /\ KeyMeansRunning /\ PaidAsMeasured /\ StartedOnSite
  /\ InsertsSound /\ CloseSound

------------------------------------------------------------------------------
(* Operators.                                                              *)

\* Division of naturals.
LEMMA DivNat ==
  ASSUME NEW n \in Nat, NEW m \in Nat \ {0}
  PROVE  n \div m \in Nat
OBVIOUS

\* What is paid is never less than nothing.
LEMMA MinutesNat ==
  ASSUME NEW from \in Times, NEW to \in Times
  PROVE  Minutes(from, to) \in Nat
<1>1. from \in Nat /\ to \in Nat /\ PerMinute \in Nat \ {0}
  BY ConfigAssumption DEF Times
<1>2. 2 * PerMinute \in Nat \ {0}
  BY <1>1
<1>3. CASE to < from
  BY <1>3, <1>1 DEF Minutes
<1>4. CASE ~(to < from)
  <2>1. 2 * (to - from) + PerMinute \in Nat
    BY <1>1, <1>4
  <2>2. (2 * (to - from) + PerMinute) \div (2 * PerMinute) \in Nat
    BY <2>1, <1>2, DivNat
  <2>3. QED
    BY <2>2, <1>4 DEF Minutes
<1>5. QED
  BY <1>3, <1>4

\* A rounded distance is at most half a metre too long.
LEMMA RoundClose ==
  ASSUME NEW d \in Nat
  PROVE  Round(d) \in Nat /\ 2 * Round(d) <= d + 1
BY DEF Round

\* A handler that is not idle is a request of its kind.
LEMMA BusyIsRequest ==
  ASSUME TypeOK, NEW r \in Requests, ~Idle(r)
  PROVE  /\ reqs[r] \in Request
         /\ reqs[r].id \in Ids
         /\ reqs[r].op \in {"in", "out"}
         /\ reqs[r].op = "in" => reqs[r].entry \in Entry
         /\ reqs[r].op = "out" => /\ reqs[r].at \in Times
                                  /\ reqs[r].distance \in Nat \cup {-1}
                                  /\ reqs[r].worked \in Nat
<1>1. reqs[r] \in Request
  BY DEF TypeOK, Idle
<1>2. QED
  BY <1>1 DEF Request

LEMMA StoredIsEntry ==
  ASSUME TypeOK, NEW i \in Ids, Stored(i)
  PROVE  entries[i] \in Entry
BY DEF TypeOK, Stored

------------------------------------------------------------------------------
(* The inductive invariant, one lemma for each kind of step.               *)

LEMMA InitInv == Init => Inv
<1> SUFFICES ASSUME Init
             PROVE  Inv
  OBVIOUS
<1>1. TypeOK
  BY ConfigAssumption DEF Init, TypeOK, Times
<1>2. \A i \in Ids : ~Stored(i)
  BY DEF Init, Stored
<1>3. \A r \in Requests : Idle(r)
  BY DEF Init, Idle
<1>4. QED
  BY <1>1, <1>2, <1>3 DEF Inv, KeysUnique, KeyMeansRunning, PaidAsMeasured, StartedOnSite,
     InsertsSound, CloseSound

\* Starting a handler.
LEMMA StartKeepsInv ==
  ASSUME Inv, NEW r \in Requests, NEW i \in Ids, NEW e \in Employees,
         NEW d \in Distances \cup {Nil},
         ClockOut(r, i, e, d) \/ \E l \in Locations : ClockIn(r, i, e, l, d)
  PROVE  Inv'
<1> USE DEF Inv
<1>1. entries' = entries /\ now' = now /\ sites' = sites
  BY DEF ClockOut, ClockIn
<1>2. \A q \in Requests \ {r} : reqs'[q] = reqs[q]
  BY DEF ClockOut, ClockIn, TypeOK
<1>3. Idle(r)
  BY DEF ClockOut, ClockIn
<1>4. /\ KeysUnique' /\ KeyMeansRunning' /\ PaidAsMeasured' /\ StartedOnSite'
  BY <1>1 DEF KeysUnique, KeyMeansRunning, PaidAsMeasured, StartedOnSite, Stored, Running
<1>5. CASE ClockOut(r, i, e, d)
  <2> DEFINE new == [op |-> "out", id |-> i, at |-> now,
                     distance |-> IF d = Nil THEN -1 ELSE Round(d),
                     worked |-> Minutes(entries[i].in, now)]
  <2>1. reqs' = [reqs EXCEPT ![r] = new]
    BY <1>5 DEF ClockOut
  <2>2. Stored(i) /\ entries[i] \in Entry
    BY <1>5, StoredIsEntry DEF ClockOut, IsOpenOf
  <2>3. Minutes(entries[i].in, now) \in Nat
    BY <2>2, MinutesNat DEF Entry, TypeOK
  <2>4. d # Nil => Round(d) \in Nat
    BY ConfigAssumption, RoundClose
  <2>5. new \in Request
    BY <2>3, <2>4 DEF Request, TypeOK
  <2>6. new # Nil
    BY <2>5, NilAssumption
  <2>7. reqs'[r] = new
    BY <2>1 DEF TypeOK
  <2>8. TypeOK'
    BY <2>1, <2>5, <1>1 DEF TypeOK
  <2>9. InsertsSound'
    <3> SUFFICES ASSUME NEW p \in Requests, ~Idle(p)', reqs'[p].op = "in"
                 PROVE  InsertSound(p)'
      BY DEF InsertsSound
    <3>1. p # r /\ reqs'[p] = reqs[p] /\ ~Idle(p)
      BY <2>7, <1>2 DEF Idle
    <3>2. ~Stored(reqs[p].id) /\ reqs[p].id # i
      BY <3>1, <2>2 DEF InsertsSound, InsertSound
    <3>3. QED
      BY <3>1, <3>2, <1>1, <1>2, <2>7 DEF InsertsSound, InsertSound, Stored, Idle
  <2>10. CloseSound'
    BY <2>2, <2>7, <1>1, <1>2 DEF CloseSound, Stored, Idle
  <2>11. QED
    BY <1>4, <2>8, <2>9, <2>10
<1>6. ASSUME NEW l \in Locations, ClockIn(r, i, e, l, d)
      PROVE  Inv'
  <2> DEFINE entry == [employee |-> e, location |-> l, in |-> now, inDistance |-> Round(d),
                       key |-> OpenKey(e), out |-> Nil, outDistance |-> Nil, worked |-> 0]
             new == [op |-> "in", id |-> i, entry |-> entry]
  <2>1. reqs' = [reqs EXCEPT ![r] = new] /\ Fresh(i)
    BY <1>6 DEF ClockIn
  <2>2. d \in Nat /\ Round(d) \in Nat /\ 2 * Round(d) <= d + 1
    BY <1>6, ConfigAssumption, RoundClose DEF ClockIn
  <2>3. sites[l].radius \in Radii /\ d <= sites[l].radius /\ sites[l].radius \in Nat
    BY <1>6, ConfigAssumption DEF ClockIn, InFence, TypeOK, Site
  <2>4. entry \in Entry
    BY <2>2 DEF Entry, TypeOK
  <2>5. new \in Request
    BY <2>4 DEF Request
  <2>6. new # Nil
    BY <2>5, NilAssumption
  <2>7. reqs'[r] = new
    BY <2>1 DEF TypeOK
  <2>8. TypeOK'
    BY <2>1, <2>5, <1>1 DEF TypeOK
  <2>9. InsertsSound'
    <3> SUFFICES ASSUME NEW p \in Requests, ~Idle(p)', reqs'[p].op = "in"
                 PROVE  InsertSound(p)'
      BY DEF InsertsSound
    <3>1. CASE p = r
      <4>1. \A q \in Requests \ {p} : ~Idle(q)' => reqs'[q].id # i
        BY <3>1, <1>2, <2>1 DEF Fresh, Idle
      <4>2. 2 * Round(d) <= sites[l].radius + 1
        BY <2>2, <2>3
      <4>3. ~Stored(i)'
        BY <2>1, <1>1 DEF Fresh, Stored
      <4>4. QED
        BY <3>1, <2>7, <4>1, <4>2, <4>3, <2>3 DEF InsertSound
    <3>2. CASE p # r
      <4>1. reqs'[p] = reqs[p] /\ ~Idle(p)
        BY <3>2, <1>2 DEF Idle
      <4>2. reqs[p].id # i
        BY <4>1, <2>1 DEF Fresh
      <4>3. QED
        BY <3>2, <4>1, <4>2, <1>1, <1>2, <2>7 DEF InsertsSound, InsertSound, Stored, Idle
    <3>3. QED
      BY <3>1, <3>2
  <2>10. CloseSound'
    BY <2>7, <1>1, <1>2 DEF CloseSound, Stored, Idle
  <2>11. QED
    BY <1>4, <2>8, <2>9, <2>10
<1>7. QED
  BY <1>5, <1>6

\* A clock-in is inserted, or the index refuses it.
LEMMA CreateKeepsInv ==
  ASSUME Inv, NEW r \in Requests, Create(r)
  PROVE  Inv'
<1> USE DEF Inv
<1> DEFINE j == reqs[r].id
           entry == reqs[r].entry
<1>1. ~Idle(r) /\ reqs[r].op = "in" /\ j \in Ids /\ entry \in Entry /\ entry # Nil
  BY BusyIsRequest, NilAssumption DEF Create
<1>2. reqs'[r] = Nil /\ \A q \in Requests \ {r} : reqs'[q] = reqs[q]
  BY DEF Create, Done, TypeOK
<1>3. InsertSound(r)
  BY <1>1 DEF InsertsSound
<1>4. entry.key # Nil
  BY <1>1, <1>3, NilAssumption DEF InsertSound, Entry
<1>5. CASE ~KeyFree(j, entry.key)
  <2>1. entries' = entries
    BY <1>5 DEF Create
  <2>2. TypeOK'
    BY <2>1 DEF Create, Done, TypeOK
  <2>3. QED
    BY <2>1, <2>2, <1>2 DEF KeysUnique, KeyMeansRunning, PaidAsMeasured, StartedOnSite,
       InsertsSound, InsertSound, CloseSound, Stored, Running, Idle
<1>6. CASE KeyFree(j, entry.key)
  <2>1. entries' = [entries EXCEPT ![j] = entry]
    BY <1>6 DEF Create
  <2>2. entries'[j] = entry /\ \A i \in Ids \ {j} : entries'[i] = entries[i]
    BY <2>1, <1>1 DEF TypeOK
  <2>3. TypeOK'
    BY <2>1, <1>1 DEF Create, Done, TypeOK
  <2>4. KeysUnique'
    BY <1>1, <1>4, <1>6, <2>2 DEF KeysUnique, KeyFree, Stored
  <2>5. KeyMeansRunning'
    BY <1>1, <1>3, <2>2 DEF KeyMeansRunning, InsertSound, Stored, Running
  <2>6. PaidAsMeasured'
    BY <1>1, <1>3, <2>2 DEF PaidAsMeasured, InsertSound, Stored, Running
  <2>7. StartedOnSite'
    BY <1>1, <1>3, <2>2 DEF StartedOnSite, InsertSound, Stored
  <2>8. InsertsSound'
    <3> SUFFICES ASSUME NEW p \in Requests, ~Idle(p)', reqs'[p].op = "in"
                 PROVE  InsertSound(p)'
      BY DEF InsertsSound
    <3>1. p # r /\ reqs'[p] = reqs[p] /\ ~Idle(p)
      BY <1>2 DEF Idle
    <3>2. InsertSound(p) /\ reqs[p].id # j /\ reqs[p].id \in Ids
      BY <3>1, <1>1, BusyIsRequest DEF InsertsSound, InsertSound
    <3>3. QED
      BY <3>1, <3>2, <2>2, <1>2 DEF InsertSound, Stored, Idle
  <2>9. CloseSound'
    <3> SUFFICES ASSUME NEW p \in Requests, ~Idle(p)', reqs'[p].op = "out"
                 PROVE  /\ Stored(reqs[p].id)'
                        /\ reqs'[p].worked = Minutes(entries'[reqs'[p].id].in, reqs'[p].at)
      BY DEF CloseSound
    <3>1. p # r /\ reqs'[p] = reqs[p] /\ ~Idle(p)
      BY <1>2 DEF Idle
    <3>2. Stored(reqs[p].id) /\ reqs[p].id # j /\ reqs[p].id \in Ids
      BY <3>1, <1>3, BusyIsRequest DEF CloseSound, InsertSound
    <3>3. QED
      BY <3>1, <3>2, <2>2 DEF CloseSound, Stored
  <2>10. QED
    BY <2>3, <2>4, <2>5, <2>6, <2>7, <2>8, <2>9
<1>7. QED
  BY <1>5, <1>6

\* An entry is closed, or it no longer is the open one that was read.
LEMMA CloseKeepsInv ==
  ASSUME Inv, NEW r \in Requests, Close(r)
  PROVE  Inv'
<1> USE DEF Inv
<1> DEFINE j == reqs[r].id
<1>1. ~Idle(r) /\ reqs[r].op = "out" /\ j \in Ids
  BY BusyIsRequest DEF Close
<1>2. /\ reqs[r].at \in Times /\ reqs[r].distance \in Nat \cup {-1} /\ reqs[r].worked \in Nat
  BY <1>1, BusyIsRequest
<1>3. reqs'[r] = Nil /\ \A q \in Requests \ {r} : reqs'[q] = reqs[q]
  BY DEF Close, Done, TypeOK
<1>4. CASE ~StillOpen(j)
  <2>1. entries' = entries
    BY <1>4 DEF Close
  <2>2. TypeOK'
    BY <2>1 DEF Close, Done, TypeOK
  <2>3. QED
    BY <2>1, <2>2, <1>3 DEF KeysUnique, KeyMeansRunning, PaidAsMeasured, StartedOnSite,
       InsertsSound, InsertSound, CloseSound, Stored, Running, Idle
<1>5. CASE StillOpen(j)
  <2> DEFINE closed == Closed(entries[j], reqs[r])
  <2>1. Stored(j) /\ entries[j] \in Entry
    BY <1>1, <1>5, StoredIsEntry DEF StillOpen
  <2>2. /\ closed \in Entry
        /\ closed.key = Nil /\ closed.out = reqs[r].at /\ closed.worked = reqs[r].worked
        /\ closed.in = entries[j].in /\ closed.inDistance = entries[j].inDistance
        /\ closed.employee = entries[j].employee
    BY <2>1, <1>2 DEF Closed, Entry
  <2>3. entries' = [entries EXCEPT ![j] = closed]
    BY <1>5 DEF Close
  <2>4. entries'[j] = closed /\ \A i \in Ids \ {j} : entries'[i] = entries[i]
    BY <2>3, <1>1 DEF TypeOK
  <2>5. closed # Nil /\ closed.out # Nil
    BY <2>2, <1>2, NilAssumption
  <2>6. TypeOK'
    BY <2>3, <2>2 DEF Close, Done, TypeOK
  <2>7. \A i \in Ids : Stored(i)' = Stored(i)
    BY <2>1, <2>4, <2>5 DEF Stored
  <2>8. KeysUnique'
    BY <2>2, <2>4, <2>7 DEF KeysUnique
  <2>9. KeyMeansRunning'
    BY <2>2, <2>4, <2>5, <2>7 DEF KeyMeansRunning, Running
  <2>10. PaidAsMeasured'
    <3>1. closed.worked >= 0 /\ closed.worked = Minutes(closed.in, closed.out)
      BY <1>1, <1>2, <2>2 DEF CloseSound
    <3>2. QED
      BY <3>1, <2>4, <2>5, <2>7 DEF PaidAsMeasured, Running
  <2>11. StartedOnSite'
    BY <2>1, <2>2, <2>4, <2>7 DEF StartedOnSite
  <2>12. InsertsSound'
    <3> SUFFICES ASSUME NEW p \in Requests, ~Idle(p)', reqs'[p].op = "in"
                 PROVE  InsertSound(p)'
      BY DEF InsertsSound
    <3>1. p # r /\ reqs'[p] = reqs[p] /\ ~Idle(p)
      BY <1>3 DEF Idle
    <3>2. InsertSound(p) /\ reqs[p].id \in Ids
      BY <3>1, BusyIsRequest DEF InsertsSound
    <3>3. QED
      BY <3>1, <3>2, <2>7, <1>3 DEF InsertSound, Idle
  <2>13. CloseSound'
    <3> SUFFICES ASSUME NEW p \in Requests, ~Idle(p)', reqs'[p].op = "out"
                 PROVE  /\ Stored(reqs[p].id)'
                        /\ reqs'[p].worked = Minutes(entries'[reqs'[p].id].in, reqs'[p].at)
      BY DEF CloseSound
    <3>1. p # r /\ reqs'[p] = reqs[p] /\ ~Idle(p) /\ reqs[p].id \in Ids
      BY <1>3, BusyIsRequest DEF Idle
    <3>2. entries'[reqs[p].id].in = entries[reqs[p].id].in
      BY <3>1, <2>2, <2>4
    <3>3. QED
      BY <3>1, <3>2, <2>7 DEF CloseSound
  <2>14. QED
    BY <2>6, <2>8, <2>9, <2>10, <2>11, <2>12, <2>13
<1>6. QED
  BY <1>4, <1>5

\* The steps that write no entry and start no handler.
LEMMA QuietKeepsInv ==
  ASSUME Inv,
         \/ \E r \in Requests : Abandon(r)
         \/ ClockMoves \/ SiteChanges
         \/ UNCHANGED vars
  PROVE  Inv'
<1> USE DEF Inv
<1>1. entries' = entries
  BY DEF Abandon, ClockMoves, SiteChanges, vars
<1>2. \A q \in Requests : reqs'[q] = reqs[q] \/ reqs'[q] = Nil
  BY DEF Abandon, Done, ClockMoves, SiteChanges, vars, TypeOK
<1>3. TypeOK'
  <2>1. CASE \E r \in Requests : Abandon(r)
    BY <2>1 DEF TypeOK, Abandon, Done
  <2>2. CASE ClockMoves
    BY <2>2 DEF TypeOK, ClockMoves
  <2>3. CASE SiteChanges
    BY <2>3 DEF TypeOK, SiteChanges
  <2>4. CASE UNCHANGED vars
    BY <2>4 DEF TypeOK, vars
  <2>5. QED
    BY <2>1, <2>2, <2>3, <2>4
<1>4. /\ KeysUnique' /\ KeyMeansRunning' /\ PaidAsMeasured' /\ StartedOnSite'
  BY <1>1 DEF KeysUnique, KeyMeansRunning, PaidAsMeasured, StartedOnSite, Stored, Running
<1>5. InsertsSound'
  BY <1>1, <1>2 DEF InsertsSound, InsertSound, Stored, Idle
<1>6. CloseSound'
  BY <1>1, <1>2 DEF CloseSound, Stored, Idle
<1>7. QED
  BY <1>3, <1>4, <1>5, <1>6

LEMMA NextKeepsInv ==
  ASSUME Inv, [Next]_vars
  PROVE  Inv'
<1>1. CASE \E r \in Requests : Create(r)
  BY <1>1, CreateKeepsInv
<1>2. CASE \E r \in Requests : Close(r)
  BY <1>2, CloseKeepsInv
<1>3. CASE \E r \in Requests, i \in Ids, e \in Employees, d \in Distances \cup {Nil} :
             ClockOut(r, i, e, d) \/ \E l \in Locations : ClockIn(r, i, e, l, d)
  BY <1>3, StartKeepsInv
<1>4. CASE (\E r \in Requests : Abandon(r)) \/ ClockMoves \/ SiteChanges \/ UNCHANGED vars
  BY <1>4, QuietKeepsInv
<1>5. QED
  BY <1>1, <1>2, <1>3, <1>4 DEF Next

\* Everything the inductive invariant says holds of every reachable state.
THEOREM Attending == Spec => []Inv
<1>1. Init => Inv
  BY InitInv
<1>2. Inv /\ [Next]_vars => Inv'
  BY NextKeepsInv
<1>3. QED
  BY <1>1, <1>2, PTL DEF Spec

------------------------------------------------------------------------------
(* What the time entries promise.                                          *)

\* An entry is running exactly while it has its key, so the index on the keys
\* leaves an employee one running entry.
LEMMA OneRunning == Inv => OneRunningEntry
<1> SUFFICES ASSUME Inv, NEW i \in Ids, NEW k \in Ids, i # k, Running(i), Running(k)
             PROVE  entries[i].employee # entries[k].employee
  BY DEF OneRunningEntry
<1>1. entries[i].key = OpenKey(entries[i].employee) /\ entries[k].key = OpenKey(entries[k].employee)
  BY DEF Inv, KeyMeansRunning, Running
<1>2. entries[i].employee \in Employees
  BY StoredIsEntry DEF Inv, Running, Entry
<1>3. entries[i].key # Nil
  BY <1>1, <1>2, NilAssumption
<1>4. QED
  BY <1>1, <1>3 DEF Inv, KeysUnique, Running

\* An employee never has two running entries, however many taps arrive together.
THEOREM OneEntryRuns == Spec => []OneRunningEntry
BY Attending, OneRunning, PTL

\* The key and the clock-out time of an entry never disagree.
THEOREM KeyFollowsState == Spec => []KeyMeansRunning
<1>1. Inv => KeyMeansRunning
  BY DEF Inv
<1>2. QED
  BY <1>1, Attending, PTL

\* A closed entry is paid for its own two ends, whatever the clock did.
THEOREM PayFollowsClock == Spec => []PaidAsMeasured
<1>1. Inv => PaidAsMeasured
  BY DEF Inv
<1>2. QED
  BY <1>1, Attending, PTL

\* Nobody starts work outside the widest fence.
THEOREM StartsOnSite == Spec => []StartedOnSite
<1>1. Inv => StartedOnSite
  BY DEF Inv
<1>2. QED
  BY <1>1, Attending, PTL

\* Only two steps write, and neither writes an entry that is closed.
LEMMA ClosedStands ==
  ASSUME Inv, [Next]_vars
  PROVE  \A i \in Ids : Stored(i) /\ ~Running(i) => entries'[i] = entries[i]
<1> USE DEF Inv
<1>1. ASSUME NEW r \in Requests, Create(r)
      PROVE  \A i \in Ids : Stored(i) => entries'[i] = entries[i]
  <2>1. ~Stored(reqs[r].id)
    BY <1>1 DEF Create, InsertsSound, InsertSound
  <2>2. QED
    BY <1>1, <2>1 DEF Create, TypeOK
<1>2. ASSUME NEW r \in Requests, Close(r)
      PROVE  \A i \in Ids : Stored(i) /\ ~Running(i) => entries'[i] = entries[i]
  <2>1. reqs[r].id \in Ids
    BY <1>2, BusyIsRequest DEF Close
  <2>2. StillOpen(reqs[r].id) => Running(reqs[r].id)
    BY <2>1 DEF StillOpen, KeyMeansRunning
  <2>3. QED
    BY <1>2, <2>2 DEF Close, TypeOK
<1>3. CASE ~\E r \in Requests : Create(r) \/ Close(r)
  <2>1. entries' = entries
    BY <1>3 DEF Next, vars, ClockIn, ClockOut, Abandon, ClockMoves, SiteChanges
  <2>2. QED
    BY <2>1
<1>4. QED
  BY <1>1, <1>2, <1>3

\* A finished shift is never changed after the fact.
THEOREM ClosedStaysFinal == Spec => ClosedIsFinal
<1>1. Inv /\ [Next]_vars
        => [\A i \in Ids : Stored(i) /\ ~Running(i) => entries'[i] = entries[i]]_entries
  BY ClosedStands
<1>2. QED
  BY <1>1, Attending, PTL DEF Spec, ClosedIsFinal

------------------------------------------------------------------------------
(* The time clock.                                                         *)

\* Since only one entry runs, the employee's entry on the clock is that one.
LEMMA OnClockIs ==
  ASSUME OneRunningEntry, NEW e \in Employees, NEW i \in Ids,
         Running(i), entries[i].employee = e
  PROVE  OnClock(e) = [entry |-> i, since |-> entries[i].in]
<1> DEFINE k == CHOOSE k \in Ids : Running(k) /\ entries[k].employee = e
<1>1. k \in Ids /\ Running(k) /\ entries[k].employee = e
  OBVIOUS
<1>2. k = i
  BY <1>1 DEF OneRunningEntry
<1>3. OnClock(e) = [entry |-> k, since |-> entries[k].in]
  BY DEF OnClock
<1>4. QED
  BY <1>2, <1>3

LEMMA OffClock ==
  ASSUME NEW e \in Employees, \A i \in Ids : Running(i) => entries[i].employee # e
  PROVE  OnClock(e) = Nil
BY DEF OnClock

\* An employee whose running entry stands as it was stays on the clock, or off.
LEMMA OnClockStands ==
  ASSUME OneRunningEntry, OneRunningEntry', NEW e \in Employees,
         \A i \in Ids : \/ entries'[i] = entries[i]
                        \/ /\ Running(i) => entries[i].employee # e
                           /\ Running(i)' => entries'[i].employee # e
  PROVE  OnClock(e)' = OnClock(e)
<1>1. \A i \in Ids : (Running(i) /\ entries[i].employee = e)
                      <=> (Running(i)' /\ entries'[i].employee = e)
  BY DEF Running, Stored
<1>2. CASE \E i \in Ids : Running(i) /\ entries[i].employee = e
  <2>1. PICK i \in Ids : Running(i) /\ entries[i].employee = e
    BY <1>2
  <2>2. OnClock(e) = [entry |-> i, since |-> entries[i].in]
    BY <2>1, OnClockIs
  <2>3. Running(i)' /\ entries'[i].employee = e /\ entries'[i] = entries[i]
    BY <1>1, <2>1
  <2>4. \E k \in Ids : Running(k)' /\ entries'[k].employee = e
    BY <2>3
  <2>5. OnClock(e)' = [entry |-> i, since |-> entries'[i].in]
    <3> DEFINE c == CHOOSE c \in Ids :
                      (entries'[c] # Nil /\ entries'[c].out = Nil) /\ entries'[c].employee = e
    <3>1. PICK k \in Ids : k = c
      BY <2>4 DEF Running, Stored
    <3>2. Running(k)' /\ entries'[k].employee = e
      BY <2>4, <3>1 DEF Running, Stored
    <3>3. k = i
      BY <2>3, <3>2 DEF OneRunningEntry
    <3>4. OnClock(e)' = [entry |-> c, since |-> entries'[c].in]
      BY <2>4 DEF OnClock, Running, Stored
    <3>5. QED
      BY <3>1, <3>3, <3>4
  <2>6. QED
    BY <2>2, <2>3, <2>5
<1>3. CASE ~\E i \in Ids : Running(i) /\ entries[i].employee = e
  <2>1. OnClock(e) = Nil
    BY <1>3 DEF OnClock
  <2>2. OnClock(e)' = Nil
    BY <1>1, <1>3 DEF OnClock
  <2>3. QED
    BY <2>1, <2>2
<1>4. QED
  BY <1>2, <1>3

LEMMA OneRuns == ASSUME Inv, Inv' PROVE OneRunningEntry /\ OneRunningEntry'
BY OneRunning, PTL

LEMMA ClockInit == Init => Clock!Init
<1> SUFFICES ASSUME Init
             PROVE  Clock!Init
  OBVIOUS
<1>1. \A i \in Ids : ~Stored(i)
  BY DEF Init, Stored
<1>2. \A e \in Employees : OnClock(e) = Nil
  BY <1>1 DEF OnClock, Running
<1>3. \A i \in Ids : Sheet(i) = Nil
  BY <1>1 DEF Sheet
<1>4. QED
  BY <1>2, <1>3 DEF Clock!Init

\* A step that writes no entry leaves the clock as it is.
LEMMA ClockStutters ==
  ASSUME Inv, Inv', entries' = entries
  PROVE  UNCHANGED Clock!clock
<1>1. OneRunningEntry /\ OneRunningEntry'
  BY OneRuns
<1>2. \A e \in Employees : OnClock(e)' = OnClock(e)
  BY <1>1, OnClockStands
<1>3. \A i \in Ids : Sheet(i)' = Sheet(i)
  BY DEF Sheet, Stored, Running
<1>4. QED
  BY <1>2, <1>3 DEF Clock!clock

\* An insertion puts its employee on the clock, who was off it.
LEMMA CreateClocksOn ==
  ASSUME Inv, Inv', NEW r \in Requests, NEW j \in Ids, NEW e \in Employees, Create(r),
         reqs[r].id = j, reqs[r].entry.employee = e
  PROVE  [Clock!Next]_(Clock!clock)
<1> USE DEF Inv
<1> DEFINE entry == reqs[r].entry
<1>1. entry \in Entry /\ entry # Nil /\ entry.employee = e /\ entry.in \in Times /\ InsertSound(r)
  BY BusyIsRequest, NilAssumption DEF Create, InsertsSound, Entry
<1>2. CASE entries' = entries
  BY <1>2, ClockStutters
<1>3. CASE entries' # entries
  <2>1. KeyFree(j, entry.key) /\ entries' = [entries EXCEPT ![j] = entry]
    BY <1>3 DEF Create
  <2>2. entries'[j] = entry /\ \A i \in Ids \ {j} : entries'[i] = entries[i]
    BY <2>1, <1>1 DEF TypeOK
  <2>3. ~Stored(j) /\ entry.key = OpenKey(e) /\ entry.out = Nil
    BY <1>1 DEF InsertSound
  <2>4. \A i \in Ids : Running(i) => entries[i].employee # e
    BY <2>1, <2>3 DEF KeyFree, KeyMeansRunning, Running
  <2>5. OneRunningEntry /\ OneRunningEntry'
    BY OneRuns
  <2>6. OnClock(e) = Nil
    BY <1>1, <2>4, OffClock
  <2>7. Running(j)'
    BY <1>1, <2>2, <2>3 DEF Running, Stored
  <2>8. OnClock(e)' = [entry |-> j, since |-> entry.in]
    <3> DEFINE c == CHOOSE c \in Ids :
                      (entries'[c] # Nil /\ entries'[c].out = Nil) /\ entries'[c].employee = e
    <3>1. PICK k \in Ids : k = c
      BY <1>1, <2>2, <2>7 DEF Running, Stored
    <3>2. Running(k)' /\ entries'[k].employee = e
      BY <1>1, <2>2, <2>7, <3>1 DEF Running, Stored
    <3>3. k = j
      BY <1>1, <2>2, <2>5, <2>7, <3>2 DEF OneRunningEntry
    <3>4. OnClock(e)' = [entry |-> c, since |-> entries'[c].in]
      BY <1>1, <2>2, <2>7 DEF OnClock, Running, Stored
    <3>5. QED
      BY <3>1, <3>3, <3>4, <2>2
  <2>9. \A f \in Employees \ {e} : OnClock(f)' = OnClock(f)
    <3> TAKE f \in Employees \ {e}
    <3>1. \A i \in Ids : \/ entries'[i] = entries[i]
                         \/ /\ Running(i) => entries[i].employee # f
                            /\ Running(i)' => entries'[i].employee # f
      BY <2>2, <2>3 DEF Running
    <3>2. QED
      BY <3>1, <2>5, OnClockStands
  <2>10. Sheet(j) = Nil /\ \A i \in Ids : Sheet(i)' = Sheet(i)
    BY <2>2, <2>3, <2>7 DEF Sheet, Stored, Running
  <2>11. Clock!ClockOn(e, j, entry.in)
    <3>1. [f \in Employees |-> OnClock(f)]'
            = [[f \in Employees |-> OnClock(f)] EXCEPT ![e] = [entry |-> j, since |-> entry.in]]
      BY <1>1, <2>8, <2>9
    <3>2. QED
      BY <1>1, <2>6, <2>10, <3>1 DEF Clock!ClockOn
  <2>12. QED
    BY <1>1, <2>11 DEF Clock!Next
<1>4. QED
  BY <1>2, <1>3

\* A close takes the employee of the entry off the clock and onto a timesheet.
LEMMA CloseClocksOff ==
  ASSUME Inv, Inv', NEW r \in Requests, NEW j \in Ids, NEW e \in Employees, Close(r),
         reqs[r].id = j, entries[j].employee = e
  PROVE  [Clock!Next]_(Clock!clock)
<1> USE DEF Inv
<1> DEFINE closed == Closed(entries[j], reqs[r])
<1>1. ~Idle(r) /\ reqs[r].op = "out" /\ reqs[r].at \in Times
  BY BusyIsRequest DEF Close
<1>2. CASE entries' = entries
  BY <1>2, ClockStutters
<1>3. CASE entries' # entries
  <2>1. StillOpen(j) /\ entries' = [entries EXCEPT ![j] = closed]
    BY <1>3 DEF Close
  <2>2. entries'[j] = closed /\ \A i \in Ids \ {j} : entries'[i] = entries[i]
    BY <2>1, <1>1 DEF TypeOK
  <2>3. entries[j] \in Entry /\ Running(j) /\ e \in Employees /\ entries[j].in \in Times
    BY <1>1, <2>1, StoredIsEntry DEF StillOpen, KeyMeansRunning, Entry
  <2>4. closed.out = reqs[r].at /\ closed.worked = reqs[r].worked /\ closed.employee = e
    BY <2>3 DEF Closed, Entry
  <2>5. Stored(j)' /\ ~Running(j)'
    <3>1. closed \in Entry
      BY <1>1, <2>3, BusyIsRequest DEF Closed, Entry
    <3>2. closed # Nil /\ closed.out # Nil
      BY <3>1, <2>4, <1>1, NilAssumption
    <3>3. QED
      BY <2>2, <3>2 DEF Stored, Running
  <2>6. OneRunningEntry /\ OneRunningEntry'
    BY OneRuns
  <2>7. OnClock(e) = [entry |-> j, since |-> entries[j].in]
    BY <1>1, <2>3, <2>6, OnClockIs
  <2>8. OnClock(e)' = Nil
    <3>1. \A i \in Ids : ~(Running(i)' /\ entries'[i].employee = e)
      BY <1>1, <2>2, <2>3, <2>5, <2>6 DEF OneRunningEntry, Running, Stored
    <3>2. QED
      BY <3>1 DEF OnClock
  <2>9. \A f \in Employees \ {e} : OnClock(f)' = OnClock(f)
    <3> TAKE f \in Employees \ {e}
    <3>1. \A i \in Ids : \/ entries'[i] = entries[i]
                         \/ /\ Running(i) => entries[i].employee # f
                            /\ Running(i)' => entries'[i].employee # f
      BY <2>2, <2>5
    <3>2. QED
      BY <3>1, <2>6, OnClockStands
  <2>10. /\ Sheet(j) = Nil
         /\ Sheet(j)' = [employee |-> e, minutes |-> reqs[r].worked]
         /\ \A i \in Ids \ {j} : Sheet(i)' = Sheet(i)
    BY <2>2, <2>3, <2>4, <2>5 DEF Sheet, Stored, Running
  <2>11. reqs[r].worked =
                           [span \in Times \X Times |-> Minutes(span[1], span[2])]
                             [<<entries[j].in, reqs[r].at>>]
    BY <1>1, <2>3 DEF CloseSound
  <2>12. Clock!ClockOff(e, reqs[r].at)
    <3> DEFINE on == [f \in Employees |-> OnClock(f)]
               sheet == [i \in Ids |-> Sheet(i)]
    <3>1. on' = [on EXCEPT ![e] = Nil]
      BY <2>3, <2>8, <2>9
    <3>2. sheet' = [sheet EXCEPT ![j] = [employee |-> e, minutes |-> reqs[r].worked]]
      BY <1>1, <2>10
    <3>3. on[e] = [entry |-> j, since |-> entries[j].in] /\ on[e].entry = j
          /\ on[e].since = entries[j].in
      BY <2>3, <2>7
    <3>4. on[e] # Nil
      BY <3>3, <1>1, <2>3, NilAssumption
    <3>5. QED
      BY <1>1, <2>10, <2>11, <3>1, <3>2, <3>3, <3>4 DEF Clock!ClockOff
  <2>13. QED
    BY <1>1, <2>3, <2>12 DEF Clock!Next
<1>4. QED
  BY <1>2, <1>3

LEMMA ClockStep ==
  ASSUME Inv, Inv', [Next]_vars
  PROVE  [Clock!Next]_(Clock!clock)
<1>1. ASSUME NEW r \in Requests, Create(r)
      PROVE  [Clock!Next]_(Clock!clock)
  <2>1. reqs[r].id \in Ids /\ reqs[r].entry.employee \in Employees
    BY <1>1, BusyIsRequest DEF Inv, Create, Entry
  <2>2. QED
    BY <1>1, <2>1, CreateClocksOn
<1>2. ASSUME NEW r \in Requests, Close(r)
      PROVE  [Clock!Next]_(Clock!clock)
  <2>1. reqs[r].id \in Ids /\ Stored(reqs[r].id)
    BY <1>2, BusyIsRequest DEF Inv, Close, CloseSound
  <2>2. entries[reqs[r].id].employee \in Employees
    BY <2>1, StoredIsEntry DEF Inv, Entry
  <2>3. QED
    BY <1>2, <2>1, <2>2, CloseClocksOff
<1>3. CASE ~\E r \in Requests : Create(r) \/ Close(r)
  <2>1. entries' = entries
    BY <1>3 DEF Next, vars, ClockIn, ClockOut, Abandon, ClockMoves, SiteChanges
  <2>2. QED
    BY <2>1, ClockStutters
<1>4. QED
  BY <1>1, <1>2, <1>3

\* Every step of the handlers is a step of the atomic time clock, or a stutter.
THEOREM ImplementsClock == Spec => KeepsTheClock
<1>1. Init => Clock!Init
  BY ClockInit
<1>2. Inv /\ Inv' /\ [Next]_vars => [Clock!Next]_(Clock!clock)
  BY ClockStep
<1>3. QED
  BY <1>1, <1>2, Attending, PTL DEF Spec, KeepsTheClock, Clock!Spec
==============================================================================
