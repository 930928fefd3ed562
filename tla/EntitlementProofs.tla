-------------------------- MODULE EntitlementProofs --------------------------
(***************************************************************************)
(* Theorems about Entitlement, for any number of keys and overlapping      *)
(* lookups and any times to live.                                          *)
(***************************************************************************)
EXTENDS Entitlement, TLAPS

\* What the platform says of a key it began to say in the past.
PlatformPast == \A k \in Keys : platform[k].since <= now

\* An entry that differs from what the platform says was true when its question was
\* asked, so the platform changed its word after that.
CacheFollows ==
  \A k \in Keys :
    cache[k] # Nil =>
      /\ cache[k].at <= now
      /\ cache[k].answer # platform[k].word => cache[k].at - Timeout <= platform[k].since

\* The janitor takes only what could not be served any more.
HeardFollows ==
  \A k \in Keys :
    /\ heard[k] # Nil => heard[k].at <= now
    /\ cache[k] # heard[k] => cache[k] = Nil /\ ~Within(heard[k], TTL + Grace)

\* The call has no answer, or the one the platform would give.
UpToDate(c) == calls[c].answer \in {platform[calls[c].key].word, Unreachable}

\* What a request carries, step by step.
CallSound(c) ==
  LET call  == calls[c]
      since == platform[call.key].since
  IN  /\ call.asked <= now
      /\ call.step \in {"fetch", "failed"} => call.answer = Unreachable /\ ~call.stale
      /\ call.step = "got" => call.answer \in Said /\ ~call.stale
      /\ call.step \in {"fetch", "got"} => now - call.asked <= Timeout
      /\ call.step = "got" /\ ~UpToDate(c) => call.asked <= since
      /\ call.step \in {"clear", "mark", "answered"} /\ ~UpToDate(c) => now - since <= Lag(call)
      /\ call.step = "decided" =>
           /\ call.at <= now
           /\ call.outcome = Gate(call.answer, call.at)
           /\ ~UpToDate(c) => call.at - since <= Lag(call)

CallsSound == \A c \in Calls : calls[c] # Nil => CallSound(c)

Inv == TypeOK /\ PlatformPast /\ CacheFollows /\ HeardFollows /\ CallsSound

------------------------------------------------------------------------------
(* Operators.                                                              *)

\* The gate has an outcome for every answer, as a read and as a write.
LEMMA GateType ==
  ASSUME NEW a, NEW t
  PROVE  Gate(a, t) \in [BOOLEAN -> Outcomes]
<1>1. \A write \in BOOLEAN : Verdict(a, write, t) \in Outcomes
  BY DEF Verdict, Outcomes
<1>2. QED
  BY <1>1 DEF Gate

LEMMA CallTyped ==
  ASSUME TypeOK, NEW c \in Calls, calls[c] # Nil
  PROVE  /\ calls[c] \in Call
         /\ calls[c].key \in Keys
         /\ calls[c].answer \in Answers
         /\ calls[c].stale \in BOOLEAN
         /\ calls[c].asked \in Times
         /\ calls[c].at \in Times
         /\ calls[c].outcome \in [BOOLEAN -> Outcomes] \cup {Nil}
         /\ calls[c].step \in {"fetch", "got", "failed", "clear", "mark", "answered", "decided"}
<1>1. calls[c] \in Call
  BY DEF TypeOK
<1>2. QED
  BY <1>1 DEF Call

LEMMA PlatformTyped ==
  ASSUME TypeOK, NEW k \in Keys
  PROVE  /\ platform[k].word \in Said
         /\ platform[k].since \in Times
BY DEF TypeOK

LEMMA EntryTyped ==
  ASSUME TypeOK, NEW k \in Keys
  PROVE  /\ cache[k] # Nil => /\ cache[k] \in Entry
                              /\ cache[k].answer \in Words
                              /\ cache[k].at \in Times
         /\ heard[k] # Nil => /\ heard[k] \in Entry
                              /\ heard[k].at \in Times
BY DEF TypeOK, Entry

LEMMA EntryIsNotNil ==
  ASSUME NEW a \in Words, NEW t \in Times
  PROVE  /\ [answer |-> a, at |-> t] \in Entry
         /\ [answer |-> a, at |-> t] # Nil
<1>1. [answer |-> a, at |-> t] \in [answer : Words, at : Times]
  OBVIOUS
<1>2. QED
  BY <1>1, NilAssumption DEF Entry

\* The bounds are numbers, and so are the instants.
LEMMA Numbers ==
  /\ TTL \in Nat /\ Grace \in Nat /\ Timeout \in Nat /\ Horizon \in Nat
  /\ Times \subseteq Nat
  /\ 0 \in Times
BY ConfigAssumption DEF Times

\* How far an answer may lag behind is a number.
LEMMA LagIs ==
  ASSUME TypeOK, NEW c \in Calls, calls[c] # Nil
  PROVE  /\ Lag(calls[c]) \in Nat
         /\ Lag(calls[c]) >= TTL + Timeout
         /\ calls[c].stale => Lag(calls[c]) = TTL + Timeout + Grace
<1>1. calls[c].stale \in BOOLEAN
  BY CallTyped
<1>2. QED
  BY <1>1, Numbers DEF Lag

------------------------------------------------------------------------------
(* The inductive invariant, one lemma for each kind of step.               *)

LEMMA InitInv == Init => Inv
<1> SUFFICES ASSUME Init
             PROVE  Inv
  OBVIOUS
<1>1. TypeOK
  BY Numbers DEF Init, TypeOK
<1>2. PlatformPast
  BY DEF Init, PlatformPast
<1>3. CacheFollows /\ HeardFollows /\ CallsSound
  BY DEF Init, CacheFollows, HeardFollows, CallsSound
<1>4. QED
  BY <1>1, <1>2, <1>3 DEF Inv

\* A step that changes one request, and neither the platform nor the clock, leaves
\* the other requests sound.
LEMMA OneCallChanges ==
  ASSUME Inv, NEW c \in Calls, NEW call \in Call,
         calls' = [calls EXCEPT ![c] = call],
         platform' = platform, now' = now,
         CallSound(c)'
  PROVE  /\ calls' \in [Calls -> Call \cup {Nil}]
         /\ CallsSound'
<1> USE DEF Inv
<1>1. calls' \in [Calls -> Call \cup {Nil}]
  BY DEF TypeOK
<1>2. ASSUME NEW d \in Calls, calls'[d] # Nil
      PROVE  CallSound(d)'
  <2>1. CASE d = c
    BY <2>1
  <2>2. CASE d # c
    <3>1. calls'[d] = calls[d]
      BY <2>2 DEF TypeOK
    <3>2. CallSound(d)
      BY <3>1, <1>2 DEF CallsSound
    <3>3. QED
      BY <3>1, <3>2 DEF CallSound, UpToDate
  <2>3. QED
    BY <2>1, <2>2
<1>3. QED
  BY <1>1, <1>2 DEF CallsSound

\* A step that leaves the platform, the cache and the clock alone.
LEMMA CacheStays ==
  ASSUME Inv, platform' = platform, cache' = cache, now' = now, heard' = heard
  PROVE  PlatformPast' /\ CacheFollows' /\ HeardFollows'
<1>1. PlatformPast'
  BY DEF Inv, PlatformPast
<1>2. CacheFollows'
  BY DEF Inv, CacheFollows
<1>3. HeardFollows'
  BY DEF Inv, HeardFollows, Within
<1>4. QED
  BY <1>1, <1>2, <1>3

\* The answer is the platform's word at this moment.
LEMMA ReplyKeeps ==
  ASSUME Inv, NEW c \in Calls, Reply(c)
  PROVE  Inv'
<1> USE DEF Inv
<1> DEFINE call == [calls[c] EXCEPT !.step = "got", !.answer = platform[calls[c].key].word]
<1>1. calls[c] # Nil /\ CallSound(c)
  BY DEF Reply, At, CallsSound
<1>2. call \in Call
  BY <1>1, CallTyped, PlatformTyped DEF Call, Answers
<1>3. calls' = [calls EXCEPT ![c] = call]
  BY <1>1 DEF Reply, TypeOK
<1>4. /\ platform' = platform /\ cache' = cache /\ now' = now /\ heard' = heard
      /\ degraded' \in BOOLEAN
  BY DEF Reply, TypeOK
<1>5. calls'[c] = call
  BY <1>3 DEF TypeOK
<1>6. CallSound(c)'
  <2>1. call.key = calls[c].key /\ call.answer = platform[call.key].word /\ call.answer \in Said
    BY <1>1, CallTyped, PlatformTyped DEF Call
  <2>2. call.step = "got" /\ call.stale = calls[c].stale /\ call.asked = calls[c].asked
    BY <1>1, CallTyped DEF Call
  <2>3. calls[c].step = "fetch"
    BY DEF Reply, At
  <2>4. UpToDate(c)'
    BY <1>4, <1>5, <2>1 DEF UpToDate
  <2>5. QED
    BY <1>1, <1>4, <1>5, <2>1, <2>2, <2>3, <2>4 DEF CallSound
<1>7. calls' \in [Calls -> Call \cup {Nil}] /\ CallsSound'
  BY <1>2, <1>3, <1>4, <1>6, OneCallChanges
<1>8. TypeOK'
  BY <1>4, <1>7 DEF TypeOK
<1>9. PlatformPast' /\ CacheFollows' /\ HeardFollows'
  BY <1>4, CacheStays
<1>10. QED
  BY <1>7, <1>8, <1>9

\* A failure says nothing, whatever the platform had said.
LEMMA FailKeeps ==
  ASSUME Inv, NEW c \in Calls, Fail(c)
  PROVE  Inv'
<1> USE DEF Inv
<1> DEFINE call == [calls[c] EXCEPT !.step = "failed", !.answer = Unreachable]
<1>1. calls[c] # Nil /\ CallSound(c)
  BY DEF Fail, At, CallsSound
<1>2. call \in Call
  BY <1>1, CallTyped DEF Call, Answers
<1>3. calls' = [calls EXCEPT ![c] = call]
  BY <1>1 DEF Fail, TypeOK
<1>4. /\ platform' = platform /\ cache' = cache /\ now' = now /\ heard' = heard
      /\ degraded' \in BOOLEAN
  BY DEF Fail, TypeOK
<1>5. calls'[c] = call
  BY <1>3 DEF TypeOK
<1>6. CallSound(c)'
  <2>1. /\ call.key = calls[c].key /\ call.answer = Unreachable
        /\ call.step = "failed" /\ call.stale = calls[c].stale /\ call.asked = calls[c].asked
    BY <1>1, CallTyped DEF Call
  <2>2. calls[c].step \in {"fetch", "got"}
    BY DEF Fail, At
  <2>3. QED
    BY <1>1, <1>4, <1>5, <2>1, <2>2 DEF CallSound
<1>7. calls' \in [Calls -> Call \cup {Nil}] /\ CallsSound'
  BY <1>2, <1>3, <1>4, <1>6, OneCallChanges
<1>8. TypeOK'
  BY <1>4, <1>7 DEF TypeOK
<1>9. PlatformPast' /\ CacheFollows' /\ HeardFollows'
  BY <1>4, CacheStays
<1>10. QED
  BY <1>7, <1>8, <1>9

\* Clearing the mark changes no answer.
LEMMA ClearDegradedKeeps ==
  ASSUME Inv, NEW c \in Calls, ClearDegraded(c)
  PROVE  Inv'
<1> USE DEF Inv
<1> DEFINE call == [calls[c] EXCEPT !.step = "answered"]
<1>1. calls[c] # Nil /\ CallSound(c)
  BY DEF ClearDegraded, At, CallsSound
<1>2. call \in Call
  BY <1>1, CallTyped DEF Call
<1>3. calls' = [calls EXCEPT ![c] = call]
  BY <1>1 DEF ClearDegraded, TypeOK
<1>4. /\ platform' = platform /\ cache' = cache /\ now' = now /\ heard' = heard
      /\ degraded' \in BOOLEAN
  BY DEF ClearDegraded, TypeOK
<1>5. calls'[c] = call
  BY <1>3 DEF TypeOK
<1>6. CallSound(c)'
  <2>1. /\ call.key = calls[c].key /\ call.answer = calls[c].answer
        /\ call.step = "answered" /\ call.stale = calls[c].stale /\ call.asked = calls[c].asked
    BY <1>1, CallTyped DEF Call
  <2>2. calls[c].step = "clear"
    BY DEF ClearDegraded, At
  <2>3. UpToDate(c)' <=> UpToDate(c)
    BY <1>4, <1>5, <2>1 DEF UpToDate
  <2>4. Lag(calls'[c]) = Lag(calls[c])
    BY <1>5, <2>1 DEF Lag
  <2>5. QED
    BY <1>1, <1>4, <1>5, <2>1, <2>2, <2>3, <2>4 DEF CallSound
<1>7. calls' \in [Calls -> Call \cup {Nil}] /\ CallsSound'
  BY <1>2, <1>3, <1>4, <1>6, OneCallChanges
<1>8. TypeOK'
  BY <1>4, <1>7 DEF TypeOK
<1>9. PlatformPast' /\ CacheFollows' /\ HeardFollows'
  BY <1>4, CacheStays
<1>10. QED
  BY <1>7, <1>8, <1>9

\* Setting it changes none either.
LEMMA MarkDegradedKeeps ==
  ASSUME Inv, NEW c \in Calls, MarkDegraded(c)
  PROVE  Inv'
<1> USE DEF Inv
<1> DEFINE call == [calls[c] EXCEPT !.step = "answered"]
<1>1. calls[c] # Nil /\ CallSound(c)
  BY DEF MarkDegraded, At, CallsSound
<1>2. call \in Call
  BY <1>1, CallTyped DEF Call
<1>3. calls' = [calls EXCEPT ![c] = call]
  BY <1>1 DEF MarkDegraded, TypeOK
<1>4. /\ platform' = platform /\ cache' = cache /\ now' = now /\ heard' = heard
      /\ degraded' \in BOOLEAN
  BY DEF MarkDegraded, TypeOK
<1>5. calls'[c] = call
  BY <1>3 DEF TypeOK
<1>6. CallSound(c)'
  <2>1. /\ call.key = calls[c].key /\ call.answer = calls[c].answer
        /\ call.step = "answered" /\ call.stale = calls[c].stale /\ call.asked = calls[c].asked
    BY <1>1, CallTyped DEF Call
  <2>2. calls[c].step = "mark"
    BY DEF MarkDegraded, At
  <2>3. UpToDate(c)' <=> UpToDate(c)
    BY <1>4, <1>5, <2>1 DEF UpToDate
  <2>4. Lag(calls'[c]) = Lag(calls[c])
    BY <1>5, <2>1 DEF Lag
  <2>5. QED
    BY <1>1, <1>4, <1>5, <2>1, <2>2, <2>3, <2>4 DEF CallSound
<1>7. calls' \in [Calls -> Call \cup {Nil}] /\ CallsSound'
  BY <1>2, <1>3, <1>4, <1>6, OneCallChanges
<1>8. TypeOK'
  BY <1>4, <1>7 DEF TypeOK
<1>9. PlatformPast' /\ CacheFollows' /\ HeardFollows'
  BY <1>4, CacheStays
<1>10. QED
  BY <1>7, <1>8, <1>9

\* The gate decides on the answer at this moment.
LEMMA DecideKeeps ==
  ASSUME Inv, NEW c \in Calls, Decide(c)
  PROVE  Inv'
<1> USE DEF Inv
<1> DEFINE call == [calls[c] EXCEPT !.step = "decided", !.at = now, !.outcome = Gate(calls[c].answer, now)]
<1>1. calls[c] # Nil /\ CallSound(c)
  BY DEF Decide, At, CallsSound
<1>2. call \in Call
  <2>1. Gate(calls[c].answer, now) \in [BOOLEAN -> Outcomes]
    BY GateType
  <2>2. QED
    BY <1>1, <2>1, CallTyped DEF Call, TypeOK
<1>3. calls' = [calls EXCEPT ![c] = call]
  BY <1>1 DEF Decide, TypeOK
<1>4. /\ platform' = platform /\ cache' = cache /\ now' = now /\ heard' = heard
      /\ degraded' \in BOOLEAN
  BY DEF Decide, TypeOK
<1>5. calls'[c] = call
  BY <1>3 DEF TypeOK
<1>6. CallSound(c)'
  <2>1. /\ call.key = calls[c].key /\ call.answer = calls[c].answer
        /\ call.step = "decided" /\ call.stale = calls[c].stale /\ call.asked = calls[c].asked
        /\ call.at = now /\ call.outcome = Gate(calls[c].answer, now)
    BY <1>1, CallTyped DEF Call
  <2>2. calls[c].step = "answered"
    BY DEF Decide, At
  <2>3. UpToDate(c)' <=> UpToDate(c)
    BY <1>4, <1>5, <2>1 DEF UpToDate
  <2>4. Lag(calls'[c]) = Lag(calls[c])
    BY <1>5, <2>1 DEF Lag
  <2>5. call.outcome = Gate(call.answer, call.at) /\ call.at <= now
    BY <2>1, Numbers DEF TypeOK
  <2>6. QED
    BY <1>1, <1>4, <1>5, <2>1, <2>2, <2>3, <2>4, <2>5 DEF CallSound
<1>7. calls' \in [Calls -> Call \cup {Nil}] /\ CallsSound'
  BY <1>2, <1>3, <1>4, <1>6, OneCallChanges
<1>8. TypeOK'
  BY <1>4, <1>7 DEF TypeOK
<1>9. PlatformPast' /\ CacheFollows' /\ HeardFollows'
  BY <1>4, CacheStays
<1>10. QED
  BY <1>7, <1>8, <1>9

\* A lookup served from a fresh entry, or about to ask.
LEMMA LookupKeeps ==
  ASSUME Inv, NEW c \in Calls, NEW k \in Keys, Lookup(c, k)
  PROVE  Inv'
<1> USE DEF Inv
<1> DEFINE call == [key |-> k, stale |-> FALSE,
                    step   |-> IF Fresh(k) THEN "answered" ELSE "fetch",
                    answer |-> IF Fresh(k) THEN cache[k].answer ELSE Unreachable,
                    asked  |-> now, at |-> now, outcome |-> Nil]
<1>1. Fresh(k) => /\ cache[k] # Nil /\ cache[k].answer \in Words
                  /\ cache[k].at \in Times /\ now - cache[k].at <= TTL
  BY EntryTyped DEF Fresh, Within
<1>2. call \in Call
  <2>1. now \in Times
    BY DEF TypeOK
  <2>2. CASE Fresh(k)
    BY <1>1, <2>1, <2>2 DEF Call, Answers, Said
  <2>3. CASE ~Fresh(k)
    BY <2>1, <2>3 DEF Call, Answers
  <2>4. QED
    BY <2>2, <2>3
<1>3. calls' = [calls EXCEPT ![c] = call]
  BY DEF Lookup
<1>4. /\ platform' = platform /\ cache' = cache /\ now' = now /\ heard' = heard
      /\ degraded' = degraded
  BY DEF Lookup
<1>5. calls'[c] = call
  BY <1>3 DEF TypeOK
<1>6. CallSound(c)'
  <2>1. now \in Nat /\ TTL \in Nat /\ Timeout \in Nat
    BY Numbers DEF TypeOK
  <2>2. CASE ~Fresh(k)
    BY <1>4, <1>5, <2>1, <2>2 DEF CallSound
  <2>3. CASE Fresh(k)
    <3>1. call.step = "answered" /\ call.asked = now /\ call.answer = cache[k].answer /\ call.key = k
          /\ call.stale = FALSE
      BY <2>3
    <3>2. call.answer # platform[k].word => cache[k].at - Timeout <= platform[k].since
      BY <3>1, <1>1, <2>3 DEF CacheFollows
    <3>3. platform[k].since \in Nat /\ (Fresh(k) => cache[k].at \in Nat)
      BY <1>1, PlatformTyped, Numbers
    <3>4. call.answer # platform[k].word => now - platform[k].since <= TTL + Timeout
      BY <1>1, <2>1, <2>3, <3>2, <3>3
    <3>5. Lag(calls'[c]) = TTL + Timeout
      BY <1>5, <3>1, <2>1 DEF Lag
    <3>6. ~UpToDate(c)' => call.answer # platform[k].word
      BY <1>4, <1>5, <3>1 DEF UpToDate
    <3>7. QED
      BY <1>4, <1>5, <2>1, <3>1, <3>4, <3>5, <3>6 DEF CallSound
  <2>4. QED
    BY <2>2, <2>3
<1>7. calls' \in [Calls -> Call \cup {Nil}] /\ CallsSound'
  BY <1>2, <1>3, <1>4, <1>6, OneCallChanges
<1>8. TypeOK'
  BY <1>4, <1>7 DEF TypeOK
<1>9. PlatformPast' /\ CacheFollows' /\ HeardFollows'
  BY <1>4, CacheStays
<1>10. QED
  BY <1>7, <1>8, <1>9

\* The last known answer, within the grace window.
LEMMA FallBackKeeps ==
  ASSUME Inv, NEW c \in Calls, FallBack(c)
  PROVE  Inv'
<1> USE DEF Inv
<1> DEFINE k == calls[c].key
           call == [calls[c] EXCEPT !.step = "mark", !.stale = Usable(k),
                      !.answer = IF Usable(k) THEN cache[k].answer ELSE Unreachable]
<1>1. calls[c] # Nil /\ CallSound(c) /\ k \in Keys
  BY CallTyped DEF FallBack, At, CallsSound
<1>2. Usable(k) => /\ cache[k] # Nil /\ cache[k].answer \in Words
                   /\ cache[k].at \in Times /\ now - cache[k].at <= TTL + Grace
  BY <1>1, EntryTyped DEF Usable, Within
<1>3. Usable(k) \in BOOLEAN
  BY DEF Usable, Within
<1>4. call \in Call
  <2>1. (IF Usable(k) THEN cache[k].answer ELSE Unreachable) \in Answers
    BY <1>2 DEF Answers, Said
  <2>2. QED
    BY <1>1, <1>3, <2>1, CallTyped DEF Call
<1>5. calls' = [calls EXCEPT ![c] = call]
  BY <1>1 DEF FallBack, TypeOK
<1>6. /\ platform' = platform /\ cache' = cache /\ now' = now /\ heard' = heard
      /\ degraded' = degraded
  BY DEF FallBack
<1>7. calls'[c] = call
  BY <1>5 DEF TypeOK
<1>8. CallSound(c)'
  <2>1. /\ call.key = k /\ call.step = "mark" /\ call.stale = Usable(k)
        /\ call.asked = calls[c].asked
        /\ call.answer = IF Usable(k) THEN cache[k].answer ELSE Unreachable
    BY <1>1, CallTyped DEF Call
  <2>2. now \in Nat /\ TTL \in Nat /\ Timeout \in Nat /\ Grace \in Nat
    BY Numbers DEF TypeOK
  <2>3. CASE ~Usable(k)
    <3>1. UpToDate(c)'
      BY <1>6, <1>7, <2>1, <2>3 DEF UpToDate
    <3>2. QED
      BY <1>1, <1>6, <1>7, <2>1, <3>1 DEF CallSound
  <2>4. CASE Usable(k)
    <3>1. call.answer # platform[k].word => cache[k].at - Timeout <= platform[k].since
      BY <1>1, <1>2, <2>1, <2>4 DEF CacheFollows
    <3>2. platform[k].since \in Nat /\ cache[k].at \in Nat
      BY <1>1, <1>2, <2>4, PlatformTyped, Numbers
    <3>3. call.answer # platform[k].word => now - platform[k].since <= TTL + Timeout + Grace
      BY <1>2, <2>2, <2>4, <3>1, <3>2
    <3>4. Lag(calls'[c]) = TTL + Timeout + Grace
      BY <1>7, <2>1, <2>2, <2>4 DEF Lag
    <3>5. ~UpToDate(c)' => call.answer # platform[k].word
      BY <1>6, <1>7, <2>1 DEF UpToDate
    <3>6. QED
      BY <1>1, <1>6, <1>7, <2>1, <3>3, <3>4, <3>5 DEF CallSound
  <2>5. QED
    BY <2>3, <2>4
<1>9. calls' \in [Calls -> Call \cup {Nil}] /\ CallsSound'
  BY <1>4, <1>5, <1>6, <1>8, OneCallChanges
<1>10. TypeOK'
  BY <1>6, <1>9 DEF TypeOK
<1>11. PlatformPast' /\ CacheFollows' /\ HeardFollows'
  BY <1>6, CacheStays
<1>12. QED
  BY <1>9, <1>10, <1>11

\* An answer is stored at most one Timeout after its question was asked.
LEMMA StoreKeeps ==
  ASSUME Inv, NEW c \in Calls, Store(c)
  PROVE  Inv'
<1> USE DEF Inv
<1> DEFINE call  == [calls[c] EXCEPT !.step = "clear"]
           k     == calls[c].key
           entry == [answer |-> calls[c].answer, at |-> now]
<1>1. calls[c] # Nil /\ CallSound(c) /\ k \in Keys /\ calls[c].step = "got"
  BY CallTyped DEF Store, At, CallsSound
<1>2. calls[c].answer \in Words /\ ~calls[c].stale
  BY <1>1 DEF CallSound, Said, Store
<1>3. entry \in Entry /\ entry # Nil
  BY <1>2, EntryIsNotNil DEF TypeOK
<1>4. call \in Call
  BY <1>1, CallTyped DEF Call
<1>5. calls' = [calls EXCEPT ![c] = call]
  BY <1>1 DEF Store, TypeOK
<1>6. /\ platform' = platform /\ now' = now /\ degraded' = degraded
      /\ cache' = [cache EXCEPT ![k] = entry]
      /\ heard' = [heard EXCEPT ![k] = entry]
  BY DEF Store
<1>7. calls'[c] = call
  BY <1>5 DEF TypeOK
<1>8. /\ now \in Nat /\ TTL \in Nat /\ Timeout \in Nat /\ Grace \in Nat
      /\ calls[c].asked \in Nat /\ platform[k].since \in Nat
  BY <1>1, CallTyped, PlatformTyped, Numbers DEF TypeOK
<1>9. calls[c].answer # platform[k].word => calls[c].asked <= platform[k].since
  BY <1>1, <1>2, AnswerAssumption DEF CallSound, UpToDate
<1>10. now - calls[c].asked <= Timeout
  BY <1>1 DEF CallSound
<1>11. CallSound(c)'
  <2>1. /\ call.key = k /\ call.answer = calls[c].answer
        /\ call.step = "clear" /\ call.stale = calls[c].stale /\ call.asked = calls[c].asked
    BY <1>1, CallTyped DEF Call
  <2>2. ~UpToDate(c)' => call.answer # platform[k].word
    BY <1>6, <1>7, <2>1 DEF UpToDate
  <2>3. Lag(calls'[c]) = TTL + Timeout
    BY <1>2, <1>7, <1>8, <2>1 DEF Lag
  <2>4. call.answer # platform[k].word => now - platform[k].since <= TTL + Timeout
    BY <1>8, <1>9, <1>10, <2>1
  <2>5. QED
    BY <1>1, <1>6, <1>7, <2>1, <2>2, <2>3, <2>4 DEF CallSound
<1>12. calls' \in [Calls -> Call \cup {Nil}] /\ CallsSound'
  BY <1>4, <1>5, <1>6, <1>11, OneCallChanges
<1>13. TypeOK'
  BY <1>1, <1>3, <1>6, <1>12 DEF TypeOK
<1>14. PlatformPast'
  BY <1>6 DEF PlatformPast
<1>15. CacheFollows'
  <2>1. ASSUME NEW j \in Keys, cache'[j] # Nil
        PROVE  /\ cache'[j].at <= now
               /\ cache'[j].answer # platform[j].word => cache'[j].at - Timeout <= platform[j].since
    <3>1. CASE j = k
      <4>1. cache'[j] = entry
        BY <1>6, <3>1 DEF TypeOK
      <4>2. QED
        BY <3>1, <4>1, <1>8, <1>9, <1>10
    <3>2. CASE j # k
      <4>1. cache'[j] = cache[j]
        BY <1>6, <3>2 DEF TypeOK
      <4>2. QED
        BY <2>1, <4>1 DEF CacheFollows
    <3>3. QED
      BY <3>1, <3>2
  <2>2. QED
    BY <1>6, <2>1 DEF CacheFollows
<1>16. HeardFollows'
  <2>1. ASSUME NEW j \in Keys
        PROVE  /\ heard'[j] # Nil => heard'[j].at <= now
               /\ cache'[j] # heard'[j] => cache'[j] = Nil /\ ~Within(heard[j], TTL + Grace)'
    <3>1. CASE j = k
      <4>1. cache'[j] = entry /\ heard'[j] = entry
        BY <1>6, <3>1 DEF TypeOK
      <4>2. QED
        BY <4>1, <1>8
    <3>2. CASE j # k
      <4>1. cache'[j] = cache[j] /\ heard'[j] = heard[j]
        BY <1>6, <3>2 DEF TypeOK
      <4>2. QED
        BY <4>1, <1>6 DEF HeardFollows, Within
    <3>3. QED
      BY <3>1, <3>2
  <2>2. QED
    BY <1>6, <2>1 DEF HeardFollows
<1>17. QED
  BY <1>12, <1>13, <1>14, <1>15, <1>16

\* A refusal leaves nothing of the key.
LEMMA ForgetKeeps ==
  ASSUME Inv, NEW c \in Calls, Forget(c)
  PROVE  Inv'
<1> USE DEF Inv
<1> DEFINE call  == [calls[c] EXCEPT !.step = "answered"]
           k     == calls[c].key
<1>1. calls[c] # Nil /\ CallSound(c) /\ k \in Keys /\ calls[c].step = "got"
  BY CallTyped DEF Forget, At, CallsSound
<1>2. calls[c].answer = Unknown /\ ~calls[c].stale
  BY <1>1 DEF CallSound, Forget
<1>3. call \in Call
  BY <1>1, CallTyped DEF Call
<1>4. calls' = [calls EXCEPT ![c] = call]
  BY <1>1 DEF Forget, TypeOK
<1>5. /\ platform' = platform /\ now' = now /\ degraded' = degraded
      /\ cache' = [cache EXCEPT ![k] = Nil]
      /\ heard' = [heard EXCEPT ![k] = Nil]
  BY DEF Forget
<1>6. calls'[c] = call
  BY <1>4 DEF TypeOK
<1>7. /\ now \in Nat /\ TTL \in Nat /\ Timeout \in Nat
      /\ calls[c].asked \in Nat /\ platform[k].since \in Nat
  BY <1>1, CallTyped, PlatformTyped, Numbers DEF TypeOK
<1>8. CallSound(c)'
  <2>1. /\ call.key = k /\ call.answer = calls[c].answer
        /\ call.step = "answered" /\ call.stale = calls[c].stale /\ call.asked = calls[c].asked
    BY <1>1, CallTyped DEF Call
  <2>2. UpToDate(c)' <=> UpToDate(c)
    BY <1>5, <1>6, <2>1 DEF UpToDate
  <2>3. Lag(calls'[c]) = TTL + Timeout
    BY <1>2, <1>6, <1>7, <2>1 DEF Lag
  <2>4. ~UpToDate(c) => now - platform[k].since <= TTL + Timeout
    BY <1>1, <1>7 DEF CallSound
  <2>5. QED
    BY <1>1, <1>5, <1>6, <2>1, <2>2, <2>3, <2>4 DEF CallSound
<1>9. calls' \in [Calls -> Call \cup {Nil}] /\ CallsSound'
  BY <1>3, <1>4, <1>5, <1>8, OneCallChanges
<1>10. TypeOK'
  BY <1>1, <1>5, <1>9 DEF TypeOK
<1>11. PlatformPast'
  BY <1>5 DEF PlatformPast
<1>12. \A j \in Keys : \/ cache'[j] = Nil /\ heard'[j] = Nil
                       \/ cache'[j] = cache[j] /\ heard'[j] = heard[j]
  BY <1>5 DEF TypeOK
<1>13. CacheFollows'
  BY <1>5, <1>12 DEF CacheFollows
<1>14. HeardFollows'
  BY <1>5, <1>12 DEF HeardFollows, Within
<1>15. QED
  BY <1>9, <1>10, <1>11, <1>13, <1>14

\* A request that is over carries nothing.
LEMMA FinishKeeps ==
  ASSUME Inv, NEW c \in Calls, Finish(c)
  PROVE  Inv'
<1> USE DEF Inv
<1>1. /\ platform' = platform /\ cache' = cache /\ now' = now /\ heard' = heard
      /\ degraded' = degraded
      /\ calls' = [calls EXCEPT ![c] = Nil]
  BY DEF Finish
<1>2. TypeOK'
  BY <1>1 DEF TypeOK
<1>3. ASSUME NEW d \in Calls, calls'[d] # Nil
      PROVE  CallSound(d)'
  <2>1. calls'[d] = calls[d] /\ calls[d] # Nil
    BY <1>1, <1>3 DEF TypeOK
  <2>2. QED
    BY <1>1, <2>1 DEF CallsSound, CallSound, UpToDate
<1>4. PlatformPast' /\ CacheFollows' /\ HeardFollows'
  BY <1>1, CacheStays
<1>5. QED
  BY <1>2, <1>3, <1>4 DEF CallsSound

\* A new word of the platform is the reason why what is older differs from it.
LEMMA PlatformKeeps ==
  ASSUME Inv, NEW k \in Keys, NEW word \in Said, PlatformChanges(k, word)
  PROVE  Inv'
<1> USE DEF Inv
<1>1. /\ cache' = cache /\ degraded' = degraded /\ calls' = calls /\ now' = now /\ heard' = heard
      /\ platform' = [platform EXCEPT ![k] = [word |-> word, since |-> now]]
  BY DEF PlatformChanges
<1>2. TypeOK'
  BY <1>1 DEF TypeOK
<1>3. \A j \in Keys : \/ platform'[j] = platform[j]
                      \/ platform'[j].since = now
  BY <1>1 DEF TypeOK
<1>4. now \in Nat /\ TTL \in Nat /\ Timeout \in Nat /\ Grace \in Nat
  BY Numbers DEF TypeOK
<1>5. PlatformPast'
  BY <1>1, <1>3, <1>4 DEF PlatformPast
<1>6. CacheFollows'
  <2>1. ASSUME NEW j \in Keys, cache[j] # Nil
        PROVE  /\ cache[j].at <= now
               /\ cache[j].answer # platform'[j].word => cache[j].at - Timeout <= platform'[j].since
    <3>1. cache[j].at <= now /\ cache[j].at \in Nat
      BY <2>1, EntryTyped, Numbers DEF CacheFollows
    <3>2. CASE platform'[j] = platform[j]
      BY <2>1, <3>2 DEF CacheFollows
    <3>3. CASE platform'[j].since = now
      BY <1>4, <3>1, <3>3
    <3>4. QED
      BY <1>3, <3>2, <3>3
  <2>2. QED
    BY <1>1, <2>1 DEF CacheFollows
<1>7. HeardFollows'
  BY <1>1 DEF HeardFollows, Within
<1>8. ASSUME NEW c \in Calls, calls[c] # Nil
      PROVE  CallSound(c)'
  <2>1. CallSound(c) /\ calls[c].key \in Keys
    BY <1>8, CallTyped DEF CallsSound
  <2>2. CASE platform'[calls[c].key] = platform[calls[c].key]
    BY <1>1, <2>1, <2>2 DEF CallSound, UpToDate
  <2>3. CASE platform'[calls[c].key].since = now
    <3>1. Lag(calls[c]) \in Nat /\ calls[c].at \in Nat /\ calls[c].asked \in Nat
      BY <1>8, LagIs, CallTyped, Numbers
    <3>2. calls[c].step = "decided" => calls[c].at - now <= Lag(calls[c])
      BY <1>4, <2>1, <3>1 DEF CallSound
    <3>3. now - now <= Lag(calls[c])
      BY <1>4, <3>1
    <3>4. QED
      BY <1>1, <2>1, <2>3, <3>2, <3>3 DEF CallSound
  <2>4. QED
    BY <1>3, <2>1, <2>2, <2>3
<1>9. CallsSound'
  BY <1>1, <1>8 DEF CallsSound
<1>10. QED
  BY <1>2, <1>5, <1>6, <1>7, <1>9

\* The janitor drops what is past the grace window.
LEMMA JanitorKeeps ==
  ASSUME Inv, Janitor
  PROVE  Inv'
<1> USE DEF Inv
<1>1. /\ platform' = platform /\ degraded' = degraded /\ calls' = calls /\ now' = now
      /\ heard' = heard
      /\ cache' = [k \in Keys |-> IF cache[k] # Nil /\ TooOld(cache[k]) THEN Nil ELSE cache[k]]
  BY DEF Janitor
<1>2. \A k \in Keys : \/ cache'[k] = cache[k]
                      \/ cache'[k] = Nil /\ cache[k] # Nil /\ TooOld(cache[k])
  BY <1>1
<1>3. TypeOK'
  <2>1. cache' \in [Keys -> Entry \cup {Nil}]
    BY <1>1 DEF TypeOK
  <2>2. QED
    BY <1>1, <2>1 DEF TypeOK
<1>4. PlatformPast'
  BY <1>1 DEF PlatformPast
<1>5. CacheFollows'
  BY <1>1, <1>2 DEF CacheFollows
<1>6. HeardFollows'
  <2>1. ASSUME NEW k \in Keys
        PROVE  /\ heard[k] # Nil => heard[k].at <= now
               /\ cache'[k] # heard[k] => cache'[k] = Nil /\ ~Within(heard[k], TTL + Grace)
    <3>1. CASE cache'[k] = cache[k]
      BY <3>1 DEF HeardFollows
    <3>2. CASE cache'[k] = Nil /\ cache[k] # Nil /\ TooOld(cache[k])
      <4>1. heard[k] = cache[k]
        BY <3>2 DEF HeardFollows
      <4>2. now \in Nat /\ TTL \in Nat /\ Grace \in Nat
        BY Numbers DEF TypeOK
      <4>3. heard[k].at \in Nat
        <5>1. heard[k] # Nil
          BY <3>2, <4>1
        <5>2. heard[k].at \in Times
          BY <5>1, EntryTyped
        <5>3. QED
          BY <5>2, Numbers
      <4>4. ~(now - heard[k].at <= TTL + Grace)
        BY <3>2, <4>1, <4>2, <4>3 DEF TooOld
      <4>5. QED
        BY <3>2, <4>4 DEF HeardFollows, Within
    <3>3. QED
      BY <1>2, <3>1, <3>2
  <2>2. QED
    BY <1>1, <2>1 DEF HeardFollows, Within
<1>7. CallsSound'
  BY <1>1 DEF CallsSound, CallSound, UpToDate
<1>8. QED
  BY <1>3, <1>4, <1>5, <1>6, <1>7

\* The clock moves only while every request waits, for the platform or for its handler.
LEMMA TickKeeps ==
  ASSUME Inv, Tick
  PROVE  Inv'
<1> USE DEF Inv
<1>1. /\ platform' = platform /\ cache' = cache /\ degraded' = degraded /\ calls' = calls
      /\ heard' = heard /\ now' = now + 1
  BY DEF Tick
<1>2. now \in Nat /\ TTL \in Nat /\ Timeout \in Nat /\ Grace \in Nat
  BY Numbers DEF TypeOK
<1>3. now' \in Times
  BY <1>2, Numbers DEF Tick, Times
<1>4. TypeOK'
  BY <1>1, <1>3 DEF TypeOK
<1>5. PlatformPast'
  <2>1. \A k \in Keys : platform[k].since \in Nat
    BY PlatformTyped, Numbers
  <2>2. QED
    BY <1>1, <1>2, <2>1 DEF PlatformPast
<1>6. CacheFollows'
  <2>1. \A k \in Keys : cache[k] # Nil => cache[k].at \in Nat
    BY EntryTyped, Numbers
  <2>2. QED
    BY <1>1, <1>2, <2>1 DEF CacheFollows
<1>7. HeardFollows'
  <2>1. \A k \in Keys : heard[k] # Nil => heard[k].at \in Nat
    BY EntryTyped, Numbers
  <2>2. \A k \in Keys : ~Within(heard[k], TTL + Grace) => ~Within(heard[k], TTL + Grace)'
    BY <1>1, <1>2, <2>1 DEF Within
  <2>3. \A k \in Keys : heard[k] # Nil => heard[k].at <= now'
    BY <1>1, <1>2, <2>1 DEF HeardFollows
  <2>4. QED
    BY <1>1, <2>2, <2>3 DEF HeardFollows
<1>8. ASSUME NEW c \in Calls, calls[c] # Nil
      PROVE  CallSound(c)'
  <2>1. CallSound(c) /\ Waits(c) /\ calls[c].asked \in Nat /\ calls[c].at \in Nat
    BY <1>8, CallTyped, Numbers DEF CallsSound, Tick
  <2>2. UpToDate(c)' <=> UpToDate(c)
    BY <1>1 DEF UpToDate
  <2>3. CASE calls[c].step = "decided"
    BY <1>1, <1>2, <2>1, <2>2, <2>3 DEF CallSound
  <2>4. CASE calls[c].step \in {"fetch", "got"} /\ now - calls[c].asked < Timeout
    BY <1>1, <1>2, <2>1, <2>2, <2>4 DEF CallSound
  <2>5. QED
    BY <1>8, <2>1, <2>3, <2>4 DEF Waits, At
<1>9. CallsSound'
  BY <1>1, <1>8 DEF CallsSound
<1>10. QED
  BY <1>4, <1>5, <1>6, <1>7, <1>9

LEMMA StepInv == Inv /\ [Next]_vars => Inv'
<1> SUFFICES ASSUME Inv, [Next]_vars
             PROVE  Inv'
  OBVIOUS
<1>1. ASSUME NEW c \in Calls, Advance(c)
      PROVE  Inv'
  BY <1>1, ReplyKeeps, FailKeeps, StoreKeeps, ClearDegradedKeeps, ForgetKeeps,
     FallBackKeeps, MarkDegradedKeeps, DecideKeeps DEF Advance
<1>2. ASSUME NEW c \in Calls, Finish(c)
      PROVE  Inv'
  BY <1>2, FinishKeeps
<1>3. ASSUME NEW c \in Calls, NEW k \in Keys, Lookup(c, k)
      PROVE  Inv'
  BY <1>3, LookupKeeps
<1>4. ASSUME NEW k \in Keys, NEW word \in Said, PlatformChanges(k, word)
      PROVE  Inv'
  BY <1>4, PlatformKeeps
<1>5. CASE Janitor
  BY <1>5, JanitorKeeps
<1>6. CASE Tick
  BY <1>6, TickKeeps
<1>7. CASE UNCHANGED vars
  <2>1. TypeOK' /\ platform' = platform /\ cache' = cache /\ now' = now /\ heard' = heard
        /\ calls' = calls
    BY <1>7 DEF vars, Inv, TypeOK
  <2>2. CallsSound'
    BY <2>1 DEF Inv, CallsSound, CallSound, UpToDate
  <2>3. QED
    BY <2>1, <2>2, CacheStays DEF Inv
<1>8. QED
  BY <1>1, <1>2, <1>3, <1>4, <1>5, <1>6, <1>7 DEF Next

LEMMA Invariance == Spec => []Inv
<1>1. QED
  BY InitInv, StepInv, PTL DEF Spec

------------------------------------------------------------------------------
(* The theorems.                                                           *)

\* The cache, the requests and the degraded mark keep their types; in particular a
\* refusal is never kept in the cache.
THEOREM TypeCorrect == Spec => []TypeOK
<1>1. Inv => TypeOK
  BY DEF Inv
<1>2. QED
  BY <1>1, Invariance, PTL

\* Once the platform has said the same of a key for longer than an answer can lag, the
\* gate does what that word calls for or answers 503, for any number of overlapping
\* lookups and any TTL, grace window and timeout.
THEOREM GateFollows == Spec => []GateFollowsPlatform
<1>1. Inv => GateFollowsPlatform
  <2> SUFFICES ASSUME Inv, NEW c \in Calls, At(c, "decided"), calls[c].answer # Unreachable,
                      calls[c].at - platform[calls[c].key].since > Lag(calls[c])
               PROVE  calls[c].outcome = Gate(platform[calls[c].key].word, calls[c].at)
    BY DEF GateFollowsPlatform
  <2>1. calls[c] # Nil /\ CallSound(c)
    BY DEF At, Inv, CallsSound
  <2>2. /\ calls[c].at \in Nat /\ platform[calls[c].key].since \in Nat
        /\ Lag(calls[c]) \in Nat
    BY <2>1, CallTyped, PlatformTyped, LagIs, Numbers DEF Inv
  <2>3. UpToDate(c)
    BY <2>1, <2>2 DEF CallSound, At
  <2>4. calls[c].answer = platform[calls[c].key].word
    BY <2>3 DEF UpToDate
  <2>5. QED
    BY <2>1, <2>4 DEF CallSound, At
<1>2. QED
  BY <1>1, Invariance, PTL

\* No tenant the platform vouched for within the grace window is turned away because
\* it cannot be asked, whatever the janitor and other lookups do in between.
THEOREM OutagesTolerated == Spec => OutageTolerated
<1> DEFINE Refused(c) == At(c, "failed") /\ calls'[c] # calls[c] /\ calls'[c].answer = Unreachable
           Step == \A c \in Calls :
                     Refused(c) => ~Within(heard[calls[c].key], TTL + Grace)
<1>1. ASSUME Inv, [Next]_vars, NEW c \in Calls, Refused(c)
      PROVE  ~Within(heard[calls[c].key], TTL + Grace)
  <2> USE DEF Inv
  <2>1. calls[c] # Nil /\ calls[c].step = "failed" /\ calls[c].key \in Keys
    BY <1>1, CallTyped DEF At
  <2>2. FallBack(c)
    <3>1. ASSUME NEW d \in Calls, Advance(d) \/ Finish(d) \/ \E k \in Keys : Lookup(d, k)
          PROVE  d = c
      <4>1. d # c => calls'[c] = calls[c]
        BY <1>1, <3>1 DEF Advance, Finish, Lookup, Reply, Fail, Store, ClearDegraded, Forget,
           FallBack, MarkDegraded, Decide, TypeOK
      <4>2. QED
        BY <1>1, <4>1
    <3>2. ~(\E k \in Keys, word \in Said : PlatformChanges(k, word)) /\ ~Janitor /\ ~Tick
          /\ ~UNCHANGED vars
      BY <1>1 DEF PlatformChanges, Janitor, Tick, vars
    <3>3. Advance(c) \/ Finish(c) \/ \E k \in Keys : Lookup(c, k)
      BY <1>1, <3>1, <3>2 DEF Next
    <3>4. QED
      BY <2>1, <3>3 DEF Advance, Finish, Lookup, Reply, Fail, Store, ClearDegraded, Forget,
         MarkDegraded, Decide, At
  <2>3. ~Usable(calls[c].key)
    <3>1. SUFFICES ASSUME Usable(calls[c].key)
                   PROVE  FALSE
      OBVIOUS
    <3>2. cache[calls[c].key].answer \in Words
      BY <1>1, <2>1, <3>1, EntryTyped DEF Usable, Within
    <3>3. calls'[c].answer = cache[calls[c].key].answer
      BY <1>1, <2>1, <2>2, <3>1, CallTyped DEF FallBack, TypeOK, Call
    <3>4. QED
      BY <1>1, <3>2, <3>3, AnswerAssumption
  <2>4. QED
    BY <1>1, <2>1, <2>3 DEF Usable, HeardFollows, Within
<1>2. Inv /\ [Next]_vars => [Step]_vars
  BY <1>1
<1>3. QED
  BY <1>2, Invariance, PTL DEF Spec, OutageTolerated
==============================================================================
