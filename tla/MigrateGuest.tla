---------------------------- MODULE MigrateGuest -----------------------------
(***************************************************************************)
(* cmd/migrate-guest: the unique indexes on an address are replaced by one *)
(* on a key that guests, who have no address, are not in.                  *)
(*                                                                         *)
(* The command looks for conflicts, fills the keys in row by row, makes the*)
(* new indexes and drops the old ones, in that order; it may stop anywhere *)
(* and is run again, and the service, whose start makes the new indexes    *)
(* too, goes on writing customers meanwhile.                               *)
(***************************************************************************)
EXTENDS Integers, FiniteSets

CONSTANTS
  Users,        \* _ids in the collection, each given out once
  Tenants,
  Emails,       \* addresses as stored; Nil stands for the empty one
  Phones,       \* as stored; Nil for none
  Nil

\* oldIndex, staleGlobalIndex, and the two indexes of today.
Indexes == {"email_per_tenant", "email_1", "login_key", "contact_key"}

VARIABLES
  users,        \* Users to a row, or Nil
  indexes,      \* those that exist
  prog,         \* the command: where it is, or Nil when it does not run
  finished      \* history: a run has got to its end

vars == <<users, indexes, prog, finished>>

\* LoginKey and ContactKey of models/keys.go: absent for what is absent.
Key(tenant, x) == IF x = Nil THEN Nil ELSE <<tenant, x>>

LoginKey(u) == Key(u.tenant, u.email)
ContactKey(u) == IF u.role = "customer" THEN Key(u.tenant, u.phone) ELSE Nil

Made(key, u) == IF key = "login_key" THEN LoginKey(u) ELSE ContactKey(u)

Keys(X) == {Key(t, x) : t \in Tenants, x \in X} \cup {Nil}

Row == [tenant : Tenants, role : {"customer", "staff"}, email : Emails \cup {Nil},
        phone : Phones \cup {Nil}, login : Keys(Emails), contact : Keys(Phones)]

Steps == {"read", "write", "login_key", "contact_key", "drop email_per_tenant", "drop email_1"}

\* The command holds the rows as it read them.
Program == [at : Steps, todo : SUBSET [id : Users, row : Row]]

TypeOK ==
  /\ users \in [Users -> Row \cup {Nil}]
  /\ indexes \subseteq Indexes
  /\ prog \in Program \cup {Nil}
  /\ finished \in BOOLEAN

Stored(i) == users[i] # Nil

\* What an index keeps apart.  The old ones know no absent address: every guest
\* has the same one.
Entry(index, u) ==
  CASE index = "email_per_tenant" -> <<u.tenant, u.email>>
    [] index = "email_1" -> <<u.email>>
    [] index = "login_key" -> u.login
    [] index = "contact_key" -> u.contact

Apart(index, u, v) == Entry(index, u) = Nil \/ Entry(index, u) # Entry(index, v)

\* The indexes, as they meet row u under _id i.
Accepts(i, u) == \A index \in indexes, j \in Users \ {i} : Stored(j) => Apart(index, u, users[j])

\* An index can be made over rows that it would have accepted.
CanIndex(index) ==
  \A i, j \in {k \in Users : Stored(k)} : i # j => Apart(index, users[i], users[j])

\* A database from before: no keys, and the indexes of its time.
Before == {u \in Row : u.login = Nil /\ u.contact = Nil /\ u.email # Nil}

Init ==
  /\ users \in [Users -> Before \cup {Nil}]
  /\ indexes \in {{"email_per_tenant"}, {"email_per_tenant", "email_1"}}
  /\ \A index \in indexes : CanIndex(index)
  /\ prog = Nil
  /\ finished = FALSE

------------------------------------------------------------------------------
(* The service.                                                            *)

\* EnsureIndexes, when a process starts.
EnsureIndexes ==
  /\ \A index \in {"login_key", "contact_key"} : CanIndex(index)
  /\ indexes' = indexes \cup {"login_key", "contact_key"}
  /\ UNCHANGED <<users, prog, finished>>

\* What UserRepo.Create makes of a registration, a guest or a colleague: the keys
\* are set there, and only a guest has no address.
Today == {u \in Row :
  /\ u.login = LoginKey(u) /\ u.contact = ContactKey(u)
  /\ u.role = "staff" => u.email # Nil}

\* UserRepo.Create.
Insert(i, u) ==
  /\ ~Stored(i)
  /\ Accepts(i, u)
  /\ users' = [users EXCEPT ![i] = u]
  /\ UNCHANGED <<indexes, prog, finished>>

\* UserRepo.UpgradeGuest.
UpgradeGuest(i, email) ==
  /\ Stored(i) /\ users[i].role = "customer" /\ users[i].email = Nil
  /\ LET u == [users[i] EXCEPT !.email = email, !.login = Key(users[i].tenant, email)]
     IN Accepts(i, u) /\ users' = [users EXCEPT ![i] = u]
  /\ UNCHANGED <<indexes, prog, finished>>

------------------------------------------------------------------------------
(* The command.                                                            *)

At(step) == prog # Nil /\ prog.at = step

Todo == IF prog = Nil THEN {} ELSE prog.todo

Goes(step) == prog' = [prog EXCEPT !.at = step]

\* All rows, read at once.
Read ==
  /\ prog = Nil
  /\ prog' = [at |-> "read",
              todo |-> {[id |-> i, row |-> users[i]] : i \in {j \in Users : Stored(j)}}]
  /\ UNCHANGED <<users, indexes, finished>>

\* Rows of which two would have one key: report.
Conflicts(rows, key) == {x \in rows : Made(key, x.row) # Nil /\
                           \E y \in rows \ {x} : Made(key, y.row) = Made(key, x.row)}

\* A conflict is for a person to resolve; a dry run ends here as well.
Check ==
  /\ At("read")
  /\ \/ /\ Conflicts(prog.todo, "login_key") \cup Conflicts(prog.todo, "contact_key") = {}
        /\ Goes("write")
     \/ prog' = Nil
  /\ UNCHANGED <<users, indexes, finished>>

\* Only who can sign in gets a key.
WithKeysFault(u, row) ==
  [u EXCEPT !.login = IF LoginKey(row) = Nil THEN @ ELSE LoginKey(row)]

\* The $set of one row; a key that would be empty is not set.
WithKeys(u, row) ==
  [u EXCEPT !.login = IF LoginKey(row) = Nil THEN @ ELSE LoginKey(row),
            !.contact = IF ContactKey(row) = Nil THEN @ ELSE ContactKey(row)]

\* UpdateByID, on what the row is by now.  A duplicate key stops the command.
Write(x) ==
  /\ At("write")
  /\ LET u == WithKeys(users[x.id], x.row)
     IN IF Accepts(x.id, u)
          THEN /\ users' = [users EXCEPT ![x.id] = u]
               /\ prog' = [prog EXCEPT !.todo = @ \ {x}]
          ELSE UNCHANGED users /\ prog' = Nil
  /\ UNCHANGED <<indexes, finished>>

Written ==
  /\ At("write") /\ prog.todo = {}
  /\ Goes("login_key")
  /\ UNCHANGED <<users, indexes, finished>>

NextStep(step) ==
  CASE step = "login_key" -> "contact_key"
    [] step = "contact_key" -> "drop email_per_tenant"
    [] step = "drop email_per_tenant" -> "drop email_1"
    [] step = "drop email_1" -> Nil

Then(step) ==
  IF NextStep(step) = Nil
    THEN prog' = Nil /\ finished' = TRUE
    ELSE Goes(NextStep(step)) /\ UNCHANGED finished

\* Indexes().CreateOne; when it cannot, nothing has been dropped yet.
CreateIndex(index) ==
  /\ At(index)
  /\ IF CanIndex(index)
       THEN indexes' = indexes \cup {index} /\ Then(index)
       ELSE prog' = Nil /\ UNCHANGED <<indexes, finished>>
  /\ UNCHANGED users

\* Indexes().DropOne; one that is not there is no error.
DropIndex(index, step) ==
  /\ At(step)
  /\ indexes' = indexes \ {index}
  /\ Then(step)
  /\ UNCHANGED users

Stop ==
  /\ prog # Nil
  /\ prog' = Nil
  /\ UNCHANGED <<users, indexes, finished>>

Next ==
  \/ EnsureIndexes
  \/ \E i \in Users : \/ \E u \in Today : Insert(i, u)
                      \/ \E email \in Emails : UpgradeGuest(i, email)
  \/ Read \/ Check \/ Written \/ Stop
  \/ \E x \in Todo : Write(x)
  \/ CreateIndex("login_key") \/ CreateIndex("contact_key")
  \/ DropIndex("email_per_tenant", "drop email_per_tenant")
  \/ DropIndex("email_1", "drop email_1")

Spec == Init /\ [][Next]_vars

------------------------------------------------------------------------------
(* What the migration promises.                                            *)

\* "Dropping first would leave a window with no uniqueness constraint on email at
\* all" (cmd/migrate-guest/main.go): at every step of it, at every place it can
\* stop, and with the service writing, one business has one account per address.
OneLoginPerEmail == \A i, j \in {k \in Users : Stored(k) /\ users[k].email # Nil} :
  users[i].tenant = users[j].tenant /\ users[i].email = users[j].email => i = j

\* Once the command got to its end, the indexes of today know every account by
\* its address and every customer by their number, and keep nothing else apart: a
\* business can have a second guest.
FinishedMeansGuests == finished =>
  /\ indexes = {"login_key", "contact_key"}
  /\ \A i \in Users : Stored(i) =>
       users[i].login = LoginKey(users[i]) /\ users[i].contact = ContactKey(users[i])
==============================================================================
