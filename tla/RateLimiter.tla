----------------------------- MODULE RateLimiter -----------------------------
(***************************************************************************)
(* The token bucket of one client and one group of routes: Limit and the   *)
(* janitor of internal/middleware/ratelimit.go.                            *)
(*                                                                         *)
(* A request reads the clock before it takes the lock, so requests reach   *)
(* the bucket with stamps out of order, and the refill for one that is late*)
(* is negative.  The janitor forgets a bucket that has been idle, and who  *)
(* comes back starts full.                                                 *)
(*                                                                         *)
(* Tokens are counted in parts: an instant refills Rate parts and a request*)
(* costs Cost.                                                             *)
(***************************************************************************)
EXTENDS Integers, FiniteSets

CONSTANTS
  Requests,     \* requests of this client that can be under way at one time
  Rate, Cost, Burst,
  IdleTime,     \* how long the janitor lets a bucket lie
  Stall,        \* bound: the longest a request waits between clock and lock
  Horizon,      \* bound: the last instant
  MaxGrants,    \* bound: grants of one stamp that are told apart
  Nil

VARIABLES
  bucket,       \* [tokens, last], or Nil
  arrived,      \* Requests to the stamp it read, or Nil
  now,
  granted       \* history: the requests let through, each by its stamp and its number
                \* among those of that stamp

vars == <<bucket, arrived, now, granted>>

Capacity == Burst * Cost

TypeOK ==
  /\ bucket \in [tokens : Int, last : 0 .. Horizon] \cup {Nil}
  /\ arrived \in [Requests -> (0 .. Horizon) \cup {Nil}]
  /\ now \in 0 .. Horizon
  /\ granted \subseteq (0 .. Horizon) \X (1 .. MaxGrants)

Init ==
  /\ bucket = Nil
  /\ arrived = [r \in Requests |-> Nil]
  /\ now = 0
  /\ granted = {}

\* Every request that waits is served before it has waited Stall.
Tick ==
  /\ now < Horizon
  /\ \A r \in Requests : arrived[r] # Nil => now - arrived[r] < Stall
  /\ now' = now + 1
  /\ UNCHANGED <<bucket, arrived, granted>>

Arrive(r) ==
  /\ arrived[r] = Nil
  /\ arrived' = [arrived EXCEPT ![r] = now]
  /\ UNCHANGED <<bucket, now, granted>>

Least(a, b) == IF a < b THEN a ELSE b

\* The lazy refill, from full for a bucket that is not there.
Refilled(at) ==
  IF bucket = Nil THEN Capacity
  ELSE Least(Capacity, bucket.tokens + (at - bucket.last) * Rate)

\* One more request of this stamp is let through.
Grant(at) == \E n \in 1 .. MaxGrants :
  /\ <<at, n>> \notin granted /\ \A m \in 1 .. n - 1 : <<at, m>> \in granted
  /\ granted' = granted \cup {<<at, n>>}

\* What happens under the lock: refill, then grant or refuse.
Limit(r) ==
  /\ arrived[r] # Nil
  /\ LET at == arrived[r]
         tokens == Refilled(at)
     IN IF tokens < Cost
          THEN /\ bucket' = [tokens |-> tokens, last |-> at]
               /\ UNCHANGED granted
          ELSE /\ bucket' = [tokens |-> tokens - Cost, last |-> at]
               /\ Grant(at)
  /\ arrived' = [arrived EXCEPT ![r] = Nil]
  /\ UNCHANGED now

\* A bucket is forgotten as soon as it has rested at all.
ForgettableFault == bucket # Nil /\ now > bucket.last

Forgettable == bucket # Nil /\ now - bucket.last > IdleTime

\* The janitor.
Forget ==
  /\ Forgettable
  /\ bucket' = Nil
  /\ UNCHANGED <<arrived, now, granted>>

Next == Tick \/ Forget \/ \E r \in Requests : Arrive(r) \/ Limit(r)

Spec == Init /\ [][Next]_vars

------------------------------------------------------------------------------

\* The limit itself: of the requests that arrived in a stretch of time, at most
\* the burst and what the stretch refills are let through, whatever the order in
\* which they got the lock and whatever the janitor forgot meanwhile.
WithinRate == \A s, e \in 0 .. Horizon : s <= e =>
  Cardinality({g \in granted : g[1] \in s .. e}) * Cost <= Capacity + Rate * (e - s)
==============================================================================
