----------------------------- MODULE SideBySide ------------------------------
(***************************************************************************)
(* The parts that share nothing with one another, side by side: a behaviour*)
(* is one of Media, of Staff, of Catalogue, of DayReport, of RateLimiter,  *)
(* of MigrateTenant or of MigrateGuest, chosen at the start, and the       *)
(* variables of the others are Nil throughout.  The states of the parts add*)
(* up instead of multiplying.                                              *)
(*                                                                         *)
(* What the parts' constants satisfy is assumed here, where the parameters *)
(* of all the instances are declared.                                      *)
(***************************************************************************)
EXTENDS Integers, FiniteSets

CONSTANTS
  Requests,                               \* of Media, Staff and RateLimiter
  Pictures, PictureRoles, Locales, Limits,  \* of Media
  Accounts, Addresses, Processes,         \* of Staff
  Services, Sites, Amounts, Minutes, Radii,             \* of Catalogue
  Employees, Washes, Entries, Midnights, LastInstant,   \* of DayReport
  Rate, Cost, Burst, IdleTime, Stall, Horizon, MaxGrants,  \* of RateLimiter
  Rows, Businesses, Slots, Owner, First,  \* of MigrateTenant
  Users, Tenants, Emails, Phones,         \* of MigrateGuest
  Nil

VARIABLES
  part,
  mRows, mFiles, mReqs, mUnanswered, mStrays, mUndemoted,
  sUsers, sIndexed, sProcs, sTokens, sReqs,
  cServices, cSites,
  dBooks, dWashes, dEntries, dLines, dTotals, dList,
  rBucket, rArrived, rNow, rGranted,
  tRows, tProg, tFinished, tOutdated,
  gUsers, gIndexes, gProg, gFinished

mVars == <<mRows, mFiles, mReqs, mUnanswered, mStrays, mUndemoted>>
sVars == <<sUsers, sIndexed, sProcs, sTokens, sReqs>>
cVars == <<cServices, cSites>>
dVars == <<dBooks, dWashes, dEntries, dLines, dTotals, dList>>
rVars == <<rBucket, rArrived, rNow, rGranted>>
tVars == <<tRows, tProg, tFinished, tOutdated>>
gVars == <<gUsers, gIndexes, gProg, gFinished>>

vars == <<part, mVars, sVars, cVars, dVars, rVars, tVars, gVars>>

------------------------------------------------------------------------------

Media == INSTANCE Media WITH
  Roles <- PictureRoles,
  rows <- mRows, files <- mFiles, reqs <- mReqs, unanswered <- mUnanswered,
  strays <- mStrays, undemoted <- mUndemoted

Staff == INSTANCE Staff WITH
  Users <- Accounts, Emails <- Addresses,
  users <- sUsers, indexed <- sIndexed, procs <- sProcs, tokens <- sTokens, reqs <- sReqs

Catalogue == INSTANCE Catalogue WITH services <- cServices, sites <- cSites

Day == INSTANCE DayReport WITH
  books <- dBooks, washes <- dWashes, entries <- dEntries, lines <- dLines,
  totals <- dTotals, list <- dList

Limiter == INSTANCE RateLimiter WITH
  bucket <- rBucket, arrived <- rArrived, now <- rNow, granted <- rGranted

Tenant == INSTANCE MigrateTenant WITH
  Tenants <- Businesses, rows <- tRows, prog <- tProg, finished <- tFinished, outdated <- tOutdated

Guest == INSTANCE MigrateGuest WITH
  users <- gUsers, indexes <- gIndexes, prog <- gProg, finished <- gFinished

\* What a request can bring to the catalogue is a number.
ASSUME CatalogueAssumption == Amounts \subseteq Int /\ Minutes \subseteq Int /\ Radii \subseteq Int

\* A picture demoted goes to the gallery.
ASSUME MediaAssumption ==
  /\ "gallery" \in PictureRoles
  /\ Nil \notin Media!Row /\ Nil \notin Media!Request
  /\ Nil \notin PictureRoles

ASSUME StaffAssumption == Nil \notin Staff!Account /\ Nil \notin Staff!Request

ASSUME TenantAssumption ==
  /\ First \in Businesses /\ Nil \notin Businesses /\ Owner \in [Slots -> Businesses]
  /\ Nil \notin Tenant!Row /\ Nil \notin Tenant!Keys /\ Nil \notin Tenant!Program

ASSUME GuestAssumption ==
  /\ Nil \notin Guest!Row /\ Nil \notin Guest!Steps
  /\ \A t \in Tenants, x \in Emails \cup {Nil} : <<t, x>> # Nil

\* A business has finitely many rows; every instant it can ask about is after some
\* midnight and before another.
ASSUME DayAssumption ==
  /\ LastInstant \in Nat /\ Midnights \subseteq Nat
  /\ 0 \in Midnights /\ \E m \in Midnights : m > LastInstant
  /\ \A all \in Washes : IsFiniteSet(all) /\ all \subseteq Day!Wash
  /\ \A all \in Entries : IsFiniteSet(all) /\ all \subseteq Day!TimeEntry

\* A bucket that nobody came to for longer than IdleTime has refilled to full, also
\* by the clock of a request that has been waiting for the lock.
ASSUME LimiterAssumption ==
  /\ Rate \in Nat /\ Cost \in Nat \ {0} /\ Burst \in Nat \ {0} /\ IdleTime \in Nat /\ Stall \in Nat
  /\ Horizon \in Nat /\ MaxGrants \in Nat
  /\ Rate * (IdleTime + 1 - 2 * Stall) >= Burst * Cost
  /\ Nil \notin 0 .. Horizon /\ Nil \notin [tokens : Int, last : 0 .. Horizon]

------------------------------------------------------------------------------

\* The variables of a part that is not looked at.
NoMedia ==
  /\ mRows = Nil /\ mFiles = Nil /\ mReqs = Nil
  /\ mUnanswered = Nil /\ mStrays = Nil /\ mUndemoted = Nil
NoStaff == sUsers = Nil /\ sIndexed = Nil /\ sProcs = Nil /\ sTokens = Nil /\ sReqs = Nil
NoCatalogue == cServices = Nil /\ cSites = Nil
NoDay ==
  /\ dBooks = Nil /\ dWashes = Nil /\ dEntries = Nil
  /\ dLines = Nil /\ dTotals = Nil /\ dList = Nil
NoLimiter == rBucket = Nil /\ rArrived = Nil /\ rNow = Nil /\ rGranted = Nil
NoTenant == tRows = Nil /\ tProg = Nil /\ tFinished = Nil /\ tOutdated = Nil
NoGuest == gUsers = Nil /\ gIndexes = Nil /\ gProg = Nil /\ gFinished = Nil

Init ==
  /\ part \in {"media", "staff", "catalogue", "day", "limiter", "tenant", "guest"}
  /\ IF part = "media" THEN Media!Init ELSE NoMedia
  /\ IF part = "staff" THEN Staff!Init ELSE NoStaff
  /\ IF part = "catalogue" THEN Catalogue!Init ELSE NoCatalogue
  /\ IF part = "day" THEN Day!Init ELSE NoDay
  /\ IF part = "limiter" THEN Limiter!Init ELSE NoLimiter
  /\ IF part = "tenant" THEN Tenant!Init ELSE NoTenant
  /\ IF part = "guest" THEN Guest!Init ELSE NoGuest

Next ==
  \/ part = "media" /\ Media!Next /\ UNCHANGED <<part, sVars, cVars, dVars, rVars, tVars, gVars>>
  \/ part = "staff" /\ Staff!Next /\ UNCHANGED <<part, mVars, cVars, dVars, rVars, tVars, gVars>>
  \/ part = "catalogue" /\ Catalogue!Next /\ UNCHANGED <<part, mVars, sVars, dVars, rVars, tVars, gVars>>
  \/ part = "day" /\ Day!Next /\ UNCHANGED <<part, mVars, sVars, cVars, rVars, tVars, gVars>>
  \/ part = "limiter" /\ Limiter!Next /\ UNCHANGED <<part, mVars, sVars, cVars, dVars, tVars, gVars>>
  \/ part = "tenant" /\ Tenant!Next /\ UNCHANGED <<part, mVars, sVars, cVars, dVars, rVars, gVars>>
  \/ part = "guest" /\ Guest!Next /\ UNCHANGED <<part, mVars, sVars, cVars, dVars, rVars, tVars>>

Spec == Init /\ [][Next]_vars

------------------------------------------------------------------------------
(* The properties of the parts, each stated in its module.                 *)

\* Every part keeps its types; for the catalogue that is the bounds of a price, a
\* length and a fence through every sequence of partial updates.
TypeOK ==
  /\ part = "media" => Media!TypeOK
  /\ part = "staff" => Staff!TypeOK
  /\ part = "catalogue" => Catalogue!TypeOK
  /\ part = "day" => Day!TypeOK
  /\ part = "limiter" => Limiter!TypeOK
  /\ part = "tenant" => Tenant!TypeOK
  /\ part = "guest" => Guest!TypeOK

\* A picture's row has its file (media_service.go).
RowsHaveFiles == part = "media" => Media!RowsHaveFiles

\* No file is left behind while the image host answers (media_service.go).
FilesAreAccountedFor == part = "media" => Media!FilesAreAccountedFor

\* Two pictures share a singular role only until one is demoted (media_service.go).
OneHolderUnlessPending == part = "media" => Media!OneHolderUnlessPending

\* A picture keeps a description in some language (media_service.go).
Described == part = "media" => Media!Described

\* One account per address: through start-ups that race (staff_service.go) and
\* through every step of the migration of the keys (cmd/migrate-guest).
OneLoginPerEmail ==
  /\ part = "staff" => Staff!OneLoginPerEmail
  /\ part = "guest" => Guest!OneLoginPerEmail

\* Only two suspensions that cross lock a business out (staff_service.go).
LockedOutOnlyByCrossing == [][part = "staff" => Staff!ByCrossing]_vars

\* A lock-out holds against every token and every restart (middleware/auth.go).
StaysLockedOut == [][part = "staff" => Staff!Stays]_vars

\* A bonus above the price comes only of an update of one amount (catalog_service.go).
LossComesByOneAmount == [][part = "catalogue" => Catalogue!ByOneAmount]_vars

\* The report says what was completed that day and nothing else (report_service.go).
ReportsTheDay == part = "day" => Day!ReportsTheDay

\* No stretch of time lets through more than the burst and its refill (ratelimit.go).
WithinRate == part = "limiter" => Limiter!WithinRate

\* A finished run leaves every row a tenant and the service's keys, but for a job moved
\* under the cursor (cmd/migrate-tenant).
FinishedMeansProtected == part = "tenant" => Tenant!FinishedMeansProtected

\* A key comes back only on a row released under the cursor (cmd/migrate-tenant).
AbsentKeyStaysAbsent == [][part = "tenant" => Tenant!StaysAbsent]_vars

\* A finished run leaves today's keys and indexes alone (cmd/migrate-guest).
FinishedMeansGuests == part = "guest" => Guest!FinishedMeansGuests
==============================================================================
