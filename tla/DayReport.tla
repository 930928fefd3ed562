------------------------------ MODULE DayReport ------------------------------
(***************************************************************************)
(* What a day earned: Daily and AggregateDaily of                          *)
(* internal/service/report_service.go, DayRange of internal/service/       *)
(* slots.go and the two queries the report is made from.                   *)
(*                                                                         *)
(* The report is built in two loops over what the queries returned, a wash *)
(* or a time entry a step; the rows of the employees are made as they are  *)
(* met.  Earned and Worked say what should come out.                       *)
(***************************************************************************)
EXTENDS Integers, FiniteSets, Sequences, FiniteSetsExt, SequencesExt

CONSTANTS
  Employees,    \* numbers, in the order of their hex ids
  Washes,       \* the reservations a business can have
  Entries,      \* the time entries it can have
  Midnights,    \* the instants at which a day begins; days need not be equally long
  LastInstant

\* models.Reservation and models.TimeEntry, as far as a report reads them.
Wash == [id : Nat, employee : Employees, completed : BOOLEAN, at : 0 .. LastInstant,
         price : Nat, bonus : Nat]
TimeEntry == [id : Nat, employee : Employees, in : 0 .. LastInstant, running : BOOLEAN,
              worked : Nat]

VARIABLES
  books,        \* the washes and entries in the database, and the instant asked about
  washes,       \* of the completed washes of the day, those not seen yet
  entries,      \* of the entries of the day, those not seen yet
  lines,        \* byEmployee: from the employees met to their rows
  totals,       \* the report's own sums
  list          \* report.Employees; empty until the end

vars == <<books, washes, entries, lines, totals, list>>

------------------------------------------------------------------------------

\* A day of the usual length, measured from its midnight.
DayRangeFault(t) ==
  LET start == Max({m \in Midnights : m <= t})
  IN [start |-> start, end |-> start + Min({m \in Midnights : m > 0})]

\* DayRange: from a midnight to the next.
DayRange(t) ==
  [start |-> Max({m \in Midnights : m <= t}), end |-> Min({m \in Midnights : m > t})]

Within(t, range) == range.start <= t /\ t < range.end

\* ReservationRepo.CompletedBetween: by completion, not by booking.
CompletedBetween(all, range) == {w \in all : w.completed /\ Within(w.at, range)}

\* TimeEntryRepo.List: by the clock-in, wherever the clock-out was.
Listed(all, range) == {e \in all : Within(e.in, range)}

Nothing == [washes |-> 0, revenue |-> 0, bonus |-> 0, worked |-> 0]

\* get: the row of an employee, made when it is not there.
Get(e) == IF e \in DOMAIN lines THEN lines[e] ELSE Nothing

Put(e, row) == [x \in (DOMAIN lines) \cup {e} |-> IF x = e THEN row ELSE lines[x]]

Init ==
  /\ books \in [washes : Washes, entries : Entries, day : 0 .. LastInstant]
  /\ washes = CompletedBetween(books.washes, DayRange(books.day))
  /\ entries = Listed(books.entries, DayRange(books.day))
  /\ lines = << >>
  /\ totals = [washes |-> 0, revenue |-> 0, bonus |-> 0]
  /\ list = << >>

\* The first loop.
CountWash(w) ==
  /\ w \in washes
  /\ washes' = washes \ {w}
  /\ lines' = Put(w.employee, [Get(w.employee) EXCEPT
       !.washes = @ + 1, !.revenue = @ + w.price, !.bonus = @ + w.bonus])
  /\ totals' = [washes |-> totals.washes + 1, revenue |-> totals.revenue + w.price,
                bonus |-> totals.bonus + w.bonus]
  /\ UNCHANGED <<books, entries, list>>

\* The second loop.  Whoever was on site has a row, with no wash and with no hours
\* yet if need be.
CountEntry(e) ==
  /\ washes = {} /\ e \in entries
  /\ entries' = entries \ {e}
  /\ lines' = Put(e.employee,
       IF e.running THEN Get(e.employee) ELSE [Get(e.employee) EXCEPT !.worked = @ + e.worked])
  /\ UNCHANGED <<books, washes, totals, list>>

\* Highest revenue first, then by id.
Before(a, b) ==
  \/ lines[a].revenue > lines[b].revenue
  \/ lines[a].revenue = lines[b].revenue /\ a < b

\* The sort at the end.
Sort ==
  /\ washes = {} /\ entries = {} /\ list = << >> /\ lines # << >>
  /\ list' \in SetToSeqs(DOMAIN lines)
  /\ \A i, j \in DOMAIN list' : i < j => Before(list'[i], list'[j])
  /\ UNCHANGED <<books, washes, entries, lines, totals>>

Next ==
  \/ \E w \in washes : CountWash(w)
  \/ \E e \in entries : CountEntry(e)
  \/ Sort

Spec == Init /\ [][Next]_vars

------------------------------------------------------------------------------

TypeOK ==
  /\ books.washes \subseteq Wash /\ books.entries \subseteq TimeEntry
  /\ washes \subseteq books.washes /\ entries \subseteq books.entries
  /\ DOMAIN lines \subseteq Employees
  /\ \A e \in DOMAIN lines : lines[e] \in [washes : Nat, revenue : Nat, bonus : Nat, worked : Nat]
  /\ totals \in [washes : Nat, revenue : Nat, bonus : Nat]
  /\ list \in Seq(Employees)

\* The sum of the values of f.
SumOf(f) == MapThenSumSet(LAMBDA x : f[x], DOMAIN f)

\* The sum of one field over a set of rows.
Total(rows, field) == SumOf([x \in rows |-> x[field]])

\* The washes and entries of employee e in the day, by the calendar alone: those
\* after the last midnight before the instant asked about that are not after the
\* next one.
SameDay(t, u) == \A m \in Midnights : m <= t <=> m <= u

Earned(e) == {w \in books.washes : w.employee = e /\ w.completed /\ SameDay(w.at, books.day)}
Worked(e) == {x \in books.entries : x.employee = e /\ SameDay(x.in, books.day)}

\* What comes out is what was completed that day and nothing else: for everybody
\* who was on site or washed a car, and nobody else, their washes, their bonus and
\* their hours, those still running left out; once each, nobody above somebody who
\* earned more; and the day's sums are the sums over them.
ReportsTheDay == list # << >> =>
  /\ {list[i] : i \in DOMAIN list} = {e \in Employees : Earned(e) \cup Worked(e) # {}}
  /\ \A i, j \in DOMAIN list : i < j =>
       list[i] # list[j] /\ lines[list[i]].revenue >= lines[list[j]].revenue
  /\ \A f \in {"washes", "revenue", "bonus"} :
       totals[f] = SumOf([e \in DOMAIN lines |-> lines[e][f]])
  /\ \A e \in Employees : e \in DOMAIN lines => lines[e] =
       [washes |-> Cardinality(Earned(e)), revenue |-> Total(Earned(e), "price"),
        bonus |-> Total(Earned(e), "bonus"),
        worked |-> Total({x \in Worked(e) : ~x.running}, "worked")]
==============================================================================
