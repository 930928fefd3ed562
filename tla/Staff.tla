-------------------------------- MODULE Staff --------------------------------
(***************************************************************************)
(* Who may do a manager's work in one business: the first manager, made by *)
(* whichever process starts first (EnsureBootstrapManager of               *)
(* internal/service/staff_service.go, called by internal/bootstrap), the   *)
(* staff managers create and suspend, and the check every request of       *)
(* theirs passes (Auth.Require of internal/middleware/auth.go).            *)
(*                                                                         *)
(* A process makes the indexes before it counts managers and counts before *)
(* it creates one; a request is admitted on what the account was when it   *)
(* was read and writes later.                                              *)
(***************************************************************************)
EXTENDS Integers, FiniteSets

CONSTANTS
  Users,        \* ObjectIDs of accounts, each given out once
  Emails,       \* addresses as stored, lower case and trimmed
  Processes,    \* instances of the server
  Requests,     \* handlers that can be running at one time
  Nil

VARIABLES
  users,        \* the collection: Users to an account, or Nil
  indexed,      \* whether one_login_per_email_per_tenant_v2 exists
  procs,        \* Processes to where start-up is and the address it was given
  tokens,       \* the accounts somebody holds an unexpired token of
  reqs          \* Requests to a handler between admission and write, or Nil

vars == <<users, indexed, procs, tokens, reqs>>

Roles == {"manager", "employee", "customer"}

\* models.User.  Guests, who have no address, are in module Customers.
Account == [role : Roles, email : Emails, status : {"active", "suspended"}]

Process == [at : {"down", "indexes", "count", "create", "serving"}, email : Emails \cup {Nil}]

Request ==
  [actor : Users, op : {"status"}, id : Users, status : {"active", "suspended"}]
    \cup [actor : Users, op : {"create"}, id : Users, account : Account]

TypeOK ==
  /\ users \in [Users -> Account \cup {Nil}]
  /\ indexed \in BOOLEAN
  /\ procs \in [Processes -> Process]
  /\ tokens \subseteq Users
  /\ reqs \in [Requests -> Request \cup {Nil}]

Down == [at |-> "down", email |-> Nil]

Init ==
  /\ users = [u \in Users |-> Nil]
  /\ indexed = FALSE
  /\ procs = [i \in Processes |-> Down]
  /\ tokens = {}
  /\ reqs = [r \in Requests |-> Nil]

Stored(u) == users[u] # Nil

Managers == {u \in Users : Stored(u) /\ users[u].role = "manager"}

ActiveManagers == {u \in Managers : users[u].status = "active"}

Idle(r) == reqs[r] = Nil

Fresh(u) ==
  /\ ~Stored(u)
  /\ \A q \in Requests : ~Idle(q) => reqs[q].id # u

Serving == \E i \in Processes : procs[i].at = "serving"

\* The unique sparse index on login_key, once it exists.
KeyFree(email) == indexed => \A u \in Users : Stored(u) => users[u].email # email

\* UserRepo.Create; a duplicate writes nothing.
Create(u, account) ==
  users' = IF KeyFree(account.email) THEN [users EXCEPT ![u] = account] ELSE users

------------------------------------------------------------------------------
(* Start-up.                                                               *)

Moves(i, at) == procs' = [procs EXCEPT ![i].at = at]

\* bootstrap.New.  The address is the process's own configuration; Nil when it
\* names no manager.
Start(i, email) ==
  /\ procs[i].at = "down"
  /\ procs' = [procs EXCEPT ![i] = [at |-> "indexes", email |-> email]]
  /\ UNCHANGED <<users, indexed, tokens, reqs>>

\* The index is made after the manager: whoever starts first counts without it.
EnsureIndexesFault(i) ==
  /\ procs[i].at = "indexes"
  /\ indexed' = (\E u \in Users : Stored(u))
  /\ Moves(i, IF procs[i].email = Nil THEN "serving" ELSE "count")
  /\ UNCHANGED <<users, tokens, reqs>>

\* EnsureIndexes.  Two rows with one address would keep the process from
\* starting at all.
EnsureIndexes(i) ==
  /\ procs[i].at = "indexes"
  /\ \A u, v \in {x \in Users : Stored(x)} : u # v => users[u].email # users[v].email
  /\ indexed' = TRUE
  /\ Moves(i, IF procs[i].email = Nil THEN "serving" ELSE "count")
  /\ UNCHANGED <<users, tokens, reqs>>

\* EnsureBootstrapManager: CountByRole.
CountManagers(i) ==
  /\ procs[i].at = "count"
  /\ Moves(i, IF Managers = {} THEN "create" ELSE "serving")
  /\ UNCHANGED <<users, indexed, tokens, reqs>>

\* EnsureBootstrapManager: Create.  An error is logged and the process serves.
CreateBootstrapManager(i, u) ==
  /\ procs[i].at = "create"
  /\ Fresh(u)
  /\ Create(u, [role |-> "manager", email |-> procs[i].email, status |-> "active"])
  /\ Moves(i, "serving")
  /\ UNCHANGED <<indexed, tokens, reqs>>

\* The process ends, by a signal, a failed start or a crash.
Stop(i) ==
  /\ procs[i].at # "down"
  /\ procs' = [procs EXCEPT ![i] = Down]
  /\ UNCHANGED <<users, indexed, tokens, reqs>>

------------------------------------------------------------------------------
(* Sessions.                                                               *)

\* AuthService.Register, for a customer (module Customers has its steps).
Register(u, email) ==
  /\ Serving /\ Fresh(u)
  /\ Create(u, [role |-> "customer", email |-> email, status |-> "active"])
  /\ UNCHANGED <<indexed, procs, tokens, reqs>>

\* AuthService.Login, with the right password.
Login(u) ==
  /\ Serving
  /\ Stored(u) /\ users[u].status = "active"
  /\ tokens' = tokens \cup {u}
  /\ UNCHANGED <<users, indexed, procs, reqs>>

Expire(u) ==
  /\ u \in tokens
  /\ tokens' = tokens \ {u}
  /\ UNCHANGED <<users, indexed, procs, reqs>>

\* The token alone is believed.
RequireManagerFault(a) == a \in tokens /\ a \in Managers

\* Auth.Require(RoleManager): the token names the account, the row decides.
RequireManager(a) == a \in tokens /\ a \in ActiveManagers

------------------------------------------------------------------------------
(* The staff service, behind RequireManager.                               *)

\* Anybody may be suspended.
MaySetStatusFault(a, u, status) == TRUE

\* SetStatus's own rule.
MaySetStatus(a, u, status) == a # u \/ status # "suspended"

BeginSetStatus(r, a, u, status) ==
  /\ Serving /\ Idle(r)
  /\ RequireManager(a)
  /\ MaySetStatus(a, u, status)
  /\ reqs' = [reqs EXCEPT ![r] = [actor |-> a, op |-> "status", id |-> u, status |-> status]]
  /\ UNCHANGED <<users, indexed, procs, tokens>>

\* StaffService.Create.  An employee's home location is looked up among rows that
\* are never deleted.
BeginCreate(r, a, u, role, email) ==
  /\ Serving /\ Idle(r) /\ Fresh(u)
  /\ RequireManager(a)
  /\ role # "customer"
  /\ reqs' = [reqs EXCEPT ![r] =
       [actor |-> a, op |-> "create", id |-> u,
        account |-> [role |-> role, email |-> email, status |-> "active"]]]
  /\ UNCHANGED <<users, indexed, procs, tokens>>

\* UserRepo.UpdateStatus or UserRepo.Create.
Write(r) ==
  /\ ~Idle(r)
  /\ IF reqs[r].op = "create"
       THEN Create(reqs[r].id, reqs[r].account)
       ELSE users' = IF Stored(reqs[r].id)
                       THEN [users EXCEPT ![reqs[r].id].status = reqs[r].status] ELSE users
  /\ reqs' = [reqs EXCEPT ![r] = Nil]
  /\ UNCHANGED <<indexed, procs, tokens>>

Abandon(r) ==
  /\ ~Idle(r)
  /\ reqs' = [reqs EXCEPT ![r] = Nil]
  /\ UNCHANGED <<users, indexed, procs, tokens>>

Next ==
  \/ \E i \in Processes :
       \/ \E email \in Emails \cup {Nil} : Start(i, email)
       \/ EnsureIndexes(i) \/ CountManagers(i)
       \/ \E u \in Users : CreateBootstrapManager(i, u)
       \/ Stop(i)
  \/ \E u \in Users : (\E email \in Emails : Register(u, email)) \/ Login(u) \/ Expire(u)
  \/ \E r \in Requests :
       \/ \E a, u \in Users, status \in {"active", "suspended"} : BeginSetStatus(r, a, u, status)
       \/ \E a, u \in Users, role \in Roles, email \in Emails : BeginCreate(r, a, u, role, email)
       \/ Write(r) \/ Abandon(r)

Spec == Init /\ [][Next]_vars

------------------------------------------------------------------------------
(* What the staff accounts promise.                                        *)

\* One account per address, whatever its role and whoever makes it: processes
\* that start together on an empty database, both counting no manager and both
\* configured with one address, do not leave two first managers.
OneLoginPerEmail == \A u, v \in {x \in Users : Stored(x)} :
  users[u].email = users[v].email => u = v

\* The business is locked out of its back office only by a manager who was
\* suspended between being admitted and writing: two who suspend each other at
\* one time.  One at a time, somebody is always left.
ByCrossing ==
  ActiveManagers # {} /\ ActiveManagers' = {}
    => \E r \in Requests : /\ ~Idle(r) /\ reqs'[r] = Nil
                           /\ reqs[r].actor \notin ActiveManagers

LockedOutOnlyByCrossing == [][ByCrossing]_vars

\* A suspension holds against every token, whenever it was issued: with no manager
\* active and nothing admitted earlier under way, no manager's request is admitted,
\* no restart makes a new manager, and only the database can let the business in.
LockedOut ==
  /\ Managers # {} /\ ActiveManagers = {}
  /\ \A r \in Requests : Idle(r)
  /\ \A i \in Processes : procs[i].at # "create"

Stays == LockedOut => LockedOut'

StaysLockedOut == [][Stays]_vars
==============================================================================
