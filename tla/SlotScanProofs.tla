---------------------------- MODULE SlotScanProofs ----------------------------
(***************************************************************************)
(* The loop of FreeSlots returns the definition of FreeSlots, for every    *)
(* shift, bookings, duration, step, time of asking and cap.                *)
(***************************************************************************)
EXTENDS SlotScan, FiniteSetTheorems, TLAPS

\* What could be offered at all, the cap apart.
Free == Bookable(args.shift, args.busy, args.duration, args.step, args.notBefore)

\* The loop variable is k steps into the shift.
OnGrid == \E k \in Nat : t = args.shift.start + k * args.step

\* What was found is what could be found before t, and no more than the cap.
Inv ==
  /\ TypeOK
  /\ Sensible(args) =>
       /\ OnGrid
       /\ out = {u \in Free : u < t}
       /\ Cardinality(out) <= MaxSlots
       /\ ~running => ~Room \/ Full
  /\ ~Sensible(args) => out = {} /\ ~running

------------------------------------------------------------------------------
(* Operators.                                                              *)

\* Multiples of a step are a step apart.
LEMMA NextMultiple ==
  ASSUME NEW s \in Nat \ {0}, NEW k \in Nat, NEW m \in Nat,
         k * s <= m * s, m * s < k * s + s
  PROVE  m = k
<1>1. CASE m >= k + 1
  <2>1. PICK d \in Nat : m = k + 1 + d
    <3>1. m - (k + 1) \in Nat /\ m = k + 1 + (m - (k + 1))
      BY <1>1
    <3>2. QED
      BY <3>1
  <2>2. m * s = k * s + s + d * s
    BY <2>1
  <2>3. d * s >= 0
    BY <2>1
  <2>4. k * s \in Nat /\ d * s \in Nat /\ m * s \in Nat
    BY <2>1
  <2>5. QED
    BY <2>2, <2>3, <2>4
<1>2. CASE m + 1 <= k
  <2>1. PICK d \in Nat : k = m + 1 + d
    <3>1. k - (m + 1) \in Nat /\ k = m + 1 + (k - (m + 1))
      BY <1>2
    <3>2. QED
      BY <3>1
  <2>2. k * s = m * s + s + d * s
    BY <2>1
  <2>3. k * s \in Nat /\ d * s \in Nat /\ m * s \in Nat
    BY <2>1
  <2>4. QED
    BY <2>2, <2>3
<1>3. QED
  BY <1>1, <1>2

\* A number of steps is no longer than the steps themselves.
LEMMA StepsCount ==
  ASSUME NEW s \in Nat \ {0}, NEW k \in Nat
  PROVE  k <= k * s /\ k * s \in Nat
<1>1. s - 1 \in Nat /\ k * s = k + k * (s - 1)
  OBVIOUS
<1>2. k * (s - 1) \in Nat
  BY <1>1
<1>3. QED
  BY <1>1, <1>2

LEMMA ArgsTyped ==
  ASSUME TypeOK
  PROVE  /\ args.shift \in Interval /\ args.shift.start \in Nat /\ args.shift.end \in Nat
         /\ args.busy \in SUBSET Interval
         /\ args.duration \in Nat /\ args.step \in Nat /\ args.notBefore \in Nat
BY InputAssumption DEF TypeOK, Args, Interval

\* What could be offered lies in the shift, so there is finitely much of it.
LEMMA FreeFinite ==
  ASSUME TypeOK
  PROVE  /\ IsFiniteSet(Free)
         /\ Free \subseteq Nat
         /\ \A u \in Free : args.shift.start <= u /\ u + args.duration <= args.shift.end
<1> DEFINE lo == args.shift.start
           hi == args.shift.end
<1>1. ASSUME NEW u \in Free
      PROVE  u \in Nat /\ lo <= u /\ u + args.duration <= hi
  <2>1. PICK k \in 0 .. (hi - lo) : u = lo + k * args.step /\ u + args.duration <= hi
    BY DEF Free, Bookable, Grid
  <2>2. k * args.step \in Nat
    BY <2>1, ArgsTyped
  <2>3. QED
    BY <2>1, <2>2, ArgsTyped
<1>2. Free \in SUBSET (lo .. hi)
  BY <1>1, ArgsTyped
<1>3. IsFiniteSet(lo .. hi)
  <2>1. lo \in Int /\ hi \in Int
    BY ArgsTyped
  <2> HIDE DEF lo, hi
  <2>2. QED
    BY <2>1, FS_Interval
<1>4. QED
  BY <1>1, <1>2, <1>3, FS_Subset

\* The bookable starts before the next step are those before t, and t itself if
\* the iteration at t offers it.
LEMMA IterationFinds ==
  ASSUME TypeOK, Sensible(args), OnGrid, Room
  PROVE  {u \in Free : u < t + args.step}
           = {u \in Free : u < t} \cup (IF Offerable THEN {t} ELSE {})
<1> DEFINE lo == args.shift.start
           hi == args.shift.end
           s == args.step
<1>1. PICK k \in Nat : t = lo + k * s
  BY DEF OnGrid
<1>2. s \in Nat \ {0} /\ lo \in Nat /\ hi \in Nat /\ t \in Nat /\ args.duration \in Nat
  BY ArgsTyped DEF Sensible, TypeOK
<1>3. k <= k * s /\ k * s \in Nat
  BY <1>2, StepsCount
<1>4. k \in 0 .. (hi - lo)
  BY <1>1, <1>2, <1>3 DEF Room
<1>5. t \in Free <=> Offerable
  <2>1. t \in Grid(args.shift, args.duration, s)
    BY <1>1, <1>4 DEF Grid, Room
  <2>2. QED
    BY <2>1 DEF Free, Bookable, Offerable, Candidate
<1>6. ASSUME NEW u \in Free, u < t + s, ~(u < t)
      PROVE  u = t
  <2>1. PICK m \in 0 .. (hi - lo) : u = lo + m * s
    BY DEF Free, Bookable, Grid
  <2>2. m \in Nat /\ m * s \in Nat
    BY <2>1, <1>2
  <2>3. k * s <= m * s /\ m * s < k * s + s
    BY <1>1, <1>2, <1>3, <1>6, <2>1, <2>2
  <2>4. m = k
    BY <1>2, <2>2, <2>3, NextMultiple
  <2>5. QED
    BY <1>1, <2>1, <2>4
<1>7. \A u \in Free : u \in Nat
  BY FreeFinite
<1>8. QED
  BY <1>2, <1>5, <1>6, <1>7

------------------------------------------------------------------------------
(* The loop invariant.                                                     *)

LEMMA InitInv == Init => Inv
<1> SUFFICES ASSUME Init
             PROVE  Inv
  OBVIOUS
<1>1. TypeOK
  BY InputAssumption DEF Init, TypeOK, Args, Interval, Sensible
<1>2. \A u \in Free : ~(u < t)
  BY <1>1, FreeFinite, ArgsTyped DEF Init
<1>3. OnGrid
  <2>1. t = args.shift.start + 0 * args.step
    BY <1>1, ArgsTyped DEF Init
  <2>2. QED
    BY <2>1 DEF OnGrid
<1>4. Cardinality(out) <= MaxSlots
  BY FS_EmptySet, InputAssumption DEF Init
<1>5. QED
  BY <1>1, <1>2, <1>3, <1>4 DEF Init, Inv

LEMMA IterateKeepsInv == Inv /\ Iterate => Inv'
<1> SUFFICES ASSUME Inv, Iterate
             PROVE  Inv'
  OBVIOUS
<1>1. Sensible(args) /\ Sensible(args)'
  BY DEF Inv, Iterate, Sensible
<1>2. args.step \in Nat \ {0} /\ t \in Nat
  BY <1>1, ArgsTyped DEF Inv, Sensible, TypeOK
<1>3. TypeOK'
  BY <1>2 DEF Inv, Iterate, TypeOK
<1>4. Free' = Free
  BY DEF Iterate, Free
<1>5. OnGrid'
  <2>1. PICK k \in Nat : t = args.shift.start + k * args.step
    BY <1>1 DEF Inv, OnGrid
  <2>2. args.shift.start \in Nat /\ k * args.step \in Nat /\ (k + 1) * args.step = k * args.step + args.step
    BY <1>2, ArgsTyped DEF Inv
  <2>3. t' = args.shift.start + (k + 1) * args.step
    BY <2>1, <2>2, <1>2 DEF Iterate
  <2>4. QED
    BY <2>3 DEF Iterate, OnGrid
<1>6. out' = {u \in Free : u < t + args.step}
  BY <1>1, IterationFinds DEF Inv, Iterate
<1>7. out' = {u \in Free' : u < t'}
  BY <1>4, <1>6 DEF Iterate
<1>8. Cardinality(out') <= MaxSlots
  <2>1. out \in SUBSET Free /\ IsFiniteSet(out)
    BY <1>1, FreeFinite, FS_Subset DEF Inv
  <2>2. Cardinality(out) \in Nat /\ Cardinality(out) < MaxSlots
    BY <2>1, FS_CardinalityType, InputAssumption DEF Iterate, Full
  <2>3. Cardinality(out \cup {t}) <= Cardinality(out) + 1
    BY <2>1, <2>2, FS_AddElement
  <2>4. out' = out \/ out' = out \cup {t}
    BY DEF Iterate
  <2>5. Cardinality(out') = Cardinality(out) \/ Cardinality(out') = Cardinality(out \cup {t})
    BY <2>4
  <2>6. Cardinality(out \cup {t}) \in Nat
    BY <2>1, FS_AddElement, FS_CardinalityType
  <2>7. QED
    BY <2>2, <2>3, <2>5, <2>6, InputAssumption
<1>9. running'
  BY DEF Iterate
<1>10. QED
  BY <1>1, <1>3, <1>5, <1>7, <1>8, <1>9 DEF Inv

LEMMA ReturnKeepsInv == Inv /\ Return => Inv'
BY DEF Inv, Return, TypeOK, Sensible, OnGrid, Free, Room, Full

\* The loop invariant holds throughout.
THEOREM Scanning == Spec => []Inv
<1>1. Init => Inv
  BY InitInv
<1>2. Inv /\ [Next]_vars => Inv'
  <2>1. Inv /\ UNCHANGED vars => Inv'
    BY DEF Inv, vars, TypeOK, Sensible, OnGrid, Free, Room, Full
  <2>2. QED
    BY <2>1, IterateKeepsInv, ReturnKeepsInv DEF Next
<1>3. QED
  BY <1>1, <1>2, PTL DEF Spec

------------------------------------------------------------------------------
(* What is returned.                                                       *)

\* Walked to the end, or stopped by the cap: either way what was found is the
\* first MaxSlots of what could be offered.
LEMMA FoundIsExpected == Inv => ReturnsFreeSlots
<1> SUFFICES ASSUME Inv, ~running
             PROVE  out = Expected
  BY DEF ReturnsFreeSlots
<1> DEFINE Before(x) == {u \in Free : u < x}
<1>1. TypeOK /\ t \in Nat
  BY DEF Inv, TypeOK
<1>2. CASE ~Sensible(args)
  BY <1>2, <1>1, ArgsTyped DEF Inv, Expected, FreeSlots, Sensible
<1>3. CASE Sensible(args)
  <2>1. Expected = {x \in Free : Cardinality(Before(x)) < MaxSlots}
    BY <1>3, <1>1, ArgsTyped DEF Sensible, Expected, FreeSlots, Free
  <2>2. out = Before(t) /\ (~Room \/ Full) /\ Cardinality(out) <= MaxSlots
    BY <1>3 DEF Inv
  <2>3. \A x \in Free : x \in Nat /\ x + args.duration <= args.shift.end
    BY <1>1, FreeFinite
  <2>4. IsFiniteSet(Free) /\ IsFiniteSet(out) /\ Cardinality(out) \in Nat /\ MaxSlots \in Nat
    BY <1>1, <2>2, FreeFinite, FS_Subset, FS_CardinalityType, InputAssumption
  <2>5. ASSUME NEW x \in out
        PROVE  Cardinality(Before(x)) < MaxSlots
    <3>1. Before(x) \in SUBSET out /\ x \notin Before(x)
      BY <2>2, <2>3, <1>1
    <3>2. Cardinality(Before(x)) <= Cardinality(out) /\ Cardinality(Before(x)) # Cardinality(out)
      BY <3>1, <2>4, <2>5, FS_Subset
    <3>3. Cardinality(Before(x)) \in Nat
      BY <3>1, <2>4, FS_Subset, FS_CardinalityType
    <3>4. QED
      BY <2>2, <2>4, <3>2, <3>3
  <2>6. ASSUME NEW x \in Free, x \notin out
        PROVE  ~(Cardinality(Before(x)) < MaxSlots)
    <3>1. t <= x
      BY <2>2, <2>3, <2>6, <1>1
    <3>2. Room
      BY <3>1, <2>3, <1>1, ArgsTyped DEF Room
    <3>3. Cardinality(out) = MaxSlots
      BY <3>2, <2>2, <2>4 DEF Full
    <3>4. out \in SUBSET Before(x) /\ IsFiniteSet(Before(x))
      BY <2>2, <2>3, <2>4, <3>1, <1>1, FS_Subset
    <3>5. Cardinality(out) <= Cardinality(Before(x)) /\ Cardinality(Before(x)) \in Nat
      BY <3>4, FS_Subset, FS_CardinalityType
    <3>6. QED
      BY <2>4, <3>3, <3>5
  <2>7. out \subseteq Free
    BY <2>2
  <2>8. QED
    BY <2>1, <2>5, <2>6, <2>7
<1>4. QED
  BY <1>2, <1>3

\* Whenever the loop of FreeSlots returns, it returns the definition of it.
THEOREM ScanIsRight == Spec => []ReturnsFreeSlots
BY Scanning, FoundIsExpected, PTL

LEMMA FoundFits == Inv => OfferedFits
<1> SUFFICES ASSUME Inv, NEW u \in out
             PROVE  /\ args.notBefore <= u
                    /\ FitsInShift({args.shift}, args.busy, [start |-> u, end |-> u + args.duration])
  BY DEF OfferedFits
<1>1. TypeOK /\ Sensible(args) /\ u \in Free
  BY DEF Inv
<1>2. args.shift.start <= u /\ u + args.duration <= args.shift.end /\ u \in Nat
  BY <1>1, FreeFinite
<1>3. u < u + args.duration
  BY <1>1, <1>2, ArgsTyped DEF Sensible
<1>4. args.notBefore <= u /\ ~OverlapsAny([start |-> u, end |-> u + args.duration], args.busy)
  BY <1>1 DEF Free, Bookable
<1>5. QED
  BY <1>2, <1>3, <1>4 DEF FitsInShift, RosterCovers

\* Whatever is offered would be accepted against the same shift and bookings.
THEOREM OffersFit == Spec => []OfferedFits
BY Scanning, FoundFits, PTL
==============================================================================
