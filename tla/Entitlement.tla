----------------------------- MODULE Entitlement -----------------------------
(***************************************************************************)
(* Which business a request belongs to and what its plan permits: the      *)
(* platform client of internal/entitlement/client.go, its cache and its    *)
(* janitor, and the gate of internal/middleware/tenant.go that every       *)
(* request of the API passes.                                              *)
(*                                                                         *)
(* Lookups of one key overlap freely: the lock is held for one read or one *)
(* write of the cache, never while the platform is asked.  The platform is *)
(* another program: here it is a word on each key that changes at will and *)
(* an answer that may fail to arrive.                                      *)
(***************************************************************************)
EXTENDS Integers, FiniteSets

CONSTANTS
  Keys,         \* tenant API keys
  Calls,        \* requests that can be in hand at one time
  Words,        \* the entitlements the platform may serve
  Module,       \* the product this service is
  TTL,          \* how long an answer is used without asking again
  Grace,        \* how much longer while the platform cannot be asked
  Timeout,      \* how long one question may take
  Horizon,      \* bound: the last instant of the clock
  Unknown,      \* the platform does not know the key
  Unreachable,  \* nobody could say
  Nil           \* no entry, no request, no time

Times == 0 .. Horizon

Statuses == {"active", "trialing", "past_due", "canceled", "unknown"}

\* What of models' Entitlement the gate looks at: whether there is a tenant id, the
\* billing status, when the paid period ends (Nil: none is tracked), the products.
Entitlements ==
  [tenant : BOOLEAN, status : Statuses, ends : Times \cup {Nil}, modules : SUBSET STRING]

\* What the platform can say of a key, and what ForKey can return.
Said == Words \cup {Unknown}
Answers == Said \cup {Unreachable}

Outcomes == {"admitted", "unauthorized", "unavailable", "internal", "module", "subscription"}

\* A request at the gate: where it stands, the answer it holds, whether that is Stale,
\* when it came, and when it was decided and how: as a read (FALSE) and as a write.
Call ==
  [key : Keys, answer : Answers, stale : BOOLEAN, asked : Times, at : Times,
   step : {"fetch", "got", "failed", "clear", "mark", "answered", "decided"},
   outcome : [BOOLEAN -> Outcomes] \cup {Nil}]

ASSUME NilAssumption ==
  /\ Nil \notin Times
  /\ Nil \notin Call
  /\ Nil \notin [answer : Words, at : Times]
  /\ Nil \notin [BOOLEAN -> Outcomes]

ASSUME AnswerAssumption ==
  /\ Unknown \notin Words
  /\ Unreachable \notin Words
  /\ Unknown # Unreachable

ASSUME ConfigAssumption ==
  /\ Words \subseteq Entitlements
  /\ {TTL, Grace, Timeout, Horizon} \subseteq Nat

VARIABLES
  platform,     \* Keys to [word, since]: what it says, and since when
  cache,        \* Keys to [answer, at], or Nil
  degraded,     \* whether degradedSince is set
  calls,        \* Calls to Call, or Nil
  now,          \* the monotonic clock
  heard         \* history: the cache as it would be without a janitor

vars == <<platform, cache, degraded, calls, now, heard>>

Entry == [answer : Words, at : Times]

TypeOK ==
  /\ platform \in [Keys -> [word : Said, since : Times]]
  /\ cache \in [Keys -> Entry \cup {Nil}]
  /\ degraded \in BOOLEAN
  /\ calls \in [Calls -> Call \cup {Nil}]
  /\ now \in Times
  /\ heard \in [Keys -> Entry \cup {Nil}]

Init ==
  /\ platform \in [Keys -> [word : Said, since : {0}]]
  /\ cache = [k \in Keys |-> Nil]
  /\ degraded = FALSE
  /\ calls = [c \in Calls |-> Nil]
  /\ now = 0
  /\ heard = [k \in Keys |-> Nil]

------------------------------------------------------------------------------
(* The entitlement, and what the gate makes of it.                         *)

\* Entitlement.Active: paying, and not past the period that was paid for.
Active(e, t) ==
  /\ e.status \in {"active", "trialing"}
  /\ e.ends # Nil => t < e.ends

\* Entitlement.HasModule: a plan that names no product is not held to any.
HasModule(e) == e.modules = {} \/ Module \in e.modules

\* RequireActiveSubscription: reads pass, and so does a tenant whose subscription
\* has not been set up yet.
MayWrite(e, t) == e.status = "unknown" \/ Active(e, t)

\* Require, then RequireActiveSubscription: the first refusal that applies.
Verdict(a, write, t) ==
  IF a = Unknown THEN "unauthorized"
  ELSE IF a = Unreachable THEN "unavailable"
  ELSE IF ~a.tenant THEN "internal"
  ELSE IF ~HasModule(a) THEN "module"
  ELSE IF write /\ ~MayWrite(a, t) THEN "subscription"
  ELSE "admitted"

Gate(a, t) == [write \in BOOLEAN |-> Verdict(a, write, t)]

------------------------------------------------------------------------------
(* The client.                                                             *)

\* How old an entry may be and still be served.
Within(entry, age) == entry # Nil /\ now - entry.at <= age

At(c, step) == calls[c] # Nil /\ calls[c].step = step

\* The definitions named ...Fault are the mistakes the checks are tried
\* against: none of them is used by the specification.

\* The cache answers whatever it holds.
FreshFault(k) == cache[k] # Nil

\* Client.fresh.
Fresh(k) == Within(cache[k], TTL)

\* Client.stale.
Usable(k) == Within(cache[k], TTL + Grace)

\* ForKey up to its first read: a fresh entry is the answer, anything else is asked
\* of the platform.
Lookup(c, k) ==
  /\ calls[c] = Nil
  /\ calls' = [calls EXCEPT ![c] =
       [key |-> k, stale |-> FALSE,
        step   |-> IF Fresh(k) THEN "answered" ELSE "fetch",
        answer |-> IF Fresh(k) THEN cache[k].answer ELSE Unreachable,
        asked  |-> now, at |-> now, outcome |-> Nil]]
  /\ UNCHANGED <<platform, cache, degraded, now, heard>>

\* The platform looks up its word and sends it: 200 with an entitlement, or 401 or 403
\* in the domain TENANT.  The answer is on its way until Store or Forget.
Reply(c) ==
  /\ At(c, "fetch")
  /\ calls' = [calls EXCEPT ![c].step = "got", ![c].answer = platform[calls[c].key].word]
  /\ UNCHANGED <<platform, cache, degraded, now, heard>>

\* Everything else fetch can return, whether or not the platform has answered: no
\* connection, a timeout, a cancelled request, a 5xx, our own service key refused, a
\* body that does not decode.
Fail(c) ==
  /\ At(c, "fetch") \/ At(c, "got")
  /\ calls' = [calls EXCEPT ![c].step = "failed", ![c].answer = Unreachable]
  /\ UNCHANGED <<platform, cache, degraded, now, heard>>

\* Client.store: the entry is as old as its arrival, not as the platform's word.
Store(c) ==
  /\ At(c, "got")
  /\ calls[c].answer # Unknown
  /\ LET entry == [answer |-> calls[c].answer, at |-> now]
     IN  /\ cache' = [cache EXCEPT ![calls[c].key] = entry]
         /\ heard' = [heard EXCEPT ![calls[c].key] = entry]
  /\ calls' = [calls EXCEPT ![c].step = "clear"]
  /\ UNCHANGED <<platform, degraded, now>>

\* The mark stays after a success.
ClearDegradedFault(c) ==
  /\ At(c, "clear")
  /\ calls' = [calls EXCEPT ![c].step = "answered"]
  /\ UNCHANGED <<platform, cache, degraded, now, heard>>

\* Client.clearDegraded, under a lock of its own.
ClearDegraded(c) ==
  /\ At(c, "clear")
  /\ degraded' = FALSE
  /\ calls' = [calls EXCEPT ![c].step = "answered"]
  /\ UNCHANGED <<platform, cache, now, heard>>

\* Client.forget: an unknown key is an answer, and nothing is kept of it.
Forget(c) ==
  /\ At(c, "got")
  /\ calls[c].answer = Unknown
  /\ cache' = [cache EXCEPT ![calls[c].key] = Nil]
  /\ heard' = [heard EXCEPT ![calls[c].key] = Nil]
  /\ calls' = [calls EXCEPT ![c].step = "answered"]
  /\ UNCHANGED <<platform, degraded, now>>

\* Only a cached answer ends the lookup.
FallBackFault(c) ==
  /\ At(c, "failed")
  /\ Usable(calls[c].key)
  /\ calls' = [calls EXCEPT ![c].step = "mark", ![c].stale = TRUE,
                            ![c].answer = cache[calls[c].key].answer]
  /\ UNCHANGED <<platform, cache, degraded, now, heard>>

\* The question could not be answered: the last known answer while it may be served,
\* or none.
FallBack(c) ==
  /\ At(c, "failed")
  /\ LET k == calls[c].key
     IN  calls' = [calls EXCEPT ![c].step = "mark", ![c].stale = Usable(k),
                     ![c].answer = IF Usable(k) THEN cache[k].answer ELSE Unreachable]
  /\ UNCHANGED <<platform, cache, degraded, now, heard>>

\* Client.markDegraded, under a lock of its own.
MarkDegraded(c) ==
  /\ At(c, "mark")
  /\ degraded' = TRUE
  /\ calls' = [calls EXCEPT ![c].step = "answered"]
  /\ UNCHANGED <<platform, cache, now, heard>>

\* An entry no longer fresh is dropped.
TooOldFault(entry) == now - entry.at > TTL

TooOld(entry) == now - entry.at > TTL + Grace

\* One tick of Client.janitor.
Janitor ==
  /\ cache' = [k \in Keys |-> IF cache[k] # Nil /\ TooOld(cache[k]) THEN Nil ELSE cache[k]]
  /\ UNCHANGED <<platform, degraded, calls, now, heard>>

------------------------------------------------------------------------------
(* The gate, and the world.                                                *)

\* Tenant.Require and RequireActiveSubscription on what ForKey returned.
Decide(c) ==
  /\ At(c, "answered")
  /\ calls' = [calls EXCEPT ![c].step = "decided", ![c].at = now,
                 ![c].outcome = Gate(calls[c].answer, now)]
  /\ UNCHANGED <<platform, cache, degraded, now, heard>>

\* The request is over.
Finish(c) ==
  /\ At(c, "decided")
  /\ calls' = [calls EXCEPT ![c] = Nil]
  /\ UNCHANGED <<platform, cache, degraded, now, heard>>

\* A key is issued or revoked, a plan changes, a period is paid or lapses.
PlatformChanges(k, word) ==
  /\ platform[k].word # word
  /\ platform' = [platform EXCEPT ![k] = [word |-> word, since |-> now]]
  /\ UNCHANGED <<cache, degraded, calls, now, heard>>

\* A request takes time only while the platform is asked, up to http.Client.Timeout
\* (the body included, so both before and after the platform has looked up its word),
\* and after it has passed the gate: ForKey and the two middlewares do nothing else
\* that waits.
Waits(c) ==
  \/ calls[c] = Nil
  \/ At(c, "decided")
  \/ (At(c, "fetch") \/ At(c, "got")) /\ now - calls[c].asked < Timeout

Tick ==
  /\ now < Horizon
  /\ \A c \in Calls : Waits(c)
  /\ now' = now + 1
  /\ UNCHANGED <<platform, cache, degraded, calls, heard>>

\* What a request does of itself once it is at the gate.
Advance(c) ==
  \/ Reply(c) \/ Fail(c) \/ Store(c) \/ ClearDegraded(c) \/ Forget(c)
  \/ FallBack(c) \/ MarkDegraded(c) \/ Decide(c)

Next ==
  \/ \E c \in Calls :
       \/ Advance(c) \/ Finish(c)
       \/ \E k \in Keys : Lookup(c, k)
  \/ \E k \in Keys, word \in Said : PlatformChanges(k, word)
  \/ Janitor \/ Tick

\* A question ends, by an answer or by its timeout, and nothing that follows it waits
\* for anybody.
Fairness == \A c \in Calls : WF_vars(Advance(c))

Spec == Init /\ [][Next]_vars

FairSpec == Spec /\ Fairness

------------------------------------------------------------------------------
(* What the client and the gate promise.                                   *)

\* How far behind the platform an answer may be.
Lag(call) == TTL + Timeout + IF call.stale THEN Grace ELSE 0

\* Once the platform has said the same of a key for longer than an answer can lag
\* behind, the gate does with a request what the platform's own word calls for, or
\* answers 503: no revoked key, unpaid plan or missing product gets in on an old
\* answer, and no tenant is refused on one (Require: "NEVER 402", client.go: "rather
\* than serving an entitlement from an hour ago forever").
GateFollowsPlatform ==
  \A c \in Calls :
    At(c, "decided") /\ calls[c].answer # Unreachable =>
      LET p == platform[calls[c].key]
      IN  calls[c].at - p.since > Lag(calls[c]) => calls[c].outcome = Gate(p.word, calls[c].at)

\* A tenant the platform vouched for, and has not disowned since, is not turned away
\* for an outage before the grace window ends, however the janitor and other lookups
\* of the key interleave (ForKey: "Serve last-known state").
OutageTolerated ==
  [][\A c \in Calls :
       At(c, "failed") /\ calls'[c] # calls[c] /\ calls'[c].answer = Unreachable
         => ~Within(heard[calls[c].key], TTL + Grace)]_vars

\* No request waits at the gate for ever, whatever the platform does (NewClient: "a
\* platform that is slow must degrade to cache quickly").
EveryRequestDecided ==
  \A c \in Calls : calls[c] # Nil ~> (calls[c] = Nil \/ At(c, "decided"))

\* When questions have stopped failing and answers keep coming, the link stops being
\* reported as degraded, although lookups that failed before may still be marking it.
DegradedEnds ==
  (<>[](\A c \in Calls : ~At(c, "failed")) /\ []<>(\E c \in Calls : At(c, "clear")))
    => <>[]~degraded

\* What the comment in ForKey wants of a key the platform disowned ("Cache nothing",
\* or else "a revoked key [would] keep working"): once one request has been refused
\* for it, no request that comes later gets an entitlement, unless the platform
\* knows the key again.
RefusedStaysRefused ==
  \A c, d \in Calls :
    /\ At(c, "decided") /\ calls[c].answer = Unknown
    /\ At(d, "decided") /\ calls[d].answer \in Words
    /\ calls[d].key = calls[c].key
    /\ calls[d].asked > calls[c].at
    => LET p == platform[calls[c].key]
       IN  p.word # Unknown \/ p.since > calls[c].at
==============================================================================
