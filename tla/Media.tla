-------------------------------- MODULE Media --------------------------------
(***************************************************************************)
(* The pictures of one business: Upload, Update and Delete of              *)
(* internal/service/media_service.go over repository/media_repo.go.        *)
(*                                                                         *)
(* A picture is in two places, a row in the database and a file at the     *)
(* image host, and nothing makes the two one write.  The order of the calls*)
(* is all there is: a file is sent before its row is inserted, a row is    *)
(* deleted before its file.  A role only one picture may have is given     *)
(* first and taken from the others after.                                  *)
(***************************************************************************)
EXTENDS Integers, FiniteSets

CONSTANTS
  Pictures,     \* names of files, a random UUID each, and of their rows
  Requests,     \* handlers that can be running at one time
  Roles,        \* those in use of "hero", "about" and "gallery"
  Locales,      \* languages a picture can be described in
  Limits,       \* ceilings a plan can put on the gallery; Nil when it names none
  Nil

VARIABLES
  rows,         \* the collection: Pictures to a row, or Nil
  files,        \* the pictures the host stores
  reqs,         \* Requests to a handler between two of its calls, or Nil
  unanswered,   \* history: pictures whose insertion was made and not answered
  strays,       \* history: pictures a call to the host failed for, or was never made
  undemoted     \* history: roles given with no demotion to follow

vars == <<rows, files, reqs, unanswered, strays, undemoted>>

\* MediaRole.Singular.
Singular(role) == role # "gallery"

\* models.Media: alt is the set of the languages it has a description in.
Row == [role : Roles, alt : SUBSET Locales]

Request ==
  [step : {"send", "insert"}, id : Pictures, row : Row]
    \cup [step : {"delete", "destroy"}, id : Pictures]
    \cup [step : {"demote"}, id : Pictures, role : Roles]
    \cup [step : {"update"}, id : Pictures, role : Roles \cup {Nil},
          alt : (SUBSET Locales) \cup {Nil}]

TypeOK ==
  /\ rows \in [Pictures -> Row \cup {Nil}]
  /\ files \subseteq Pictures
  /\ reqs \in [Requests -> Request \cup {Nil}]
  /\ unanswered \subseteq Pictures
  /\ strays \subseteq Pictures
  /\ undemoted \subseteq Roles

Init ==
  /\ rows = [p \in Pictures |-> Nil]
  /\ files = {}
  /\ reqs = [r \in Requests |-> Nil]
  /\ unanswered = {}
  /\ strays = {}
  /\ undemoted = {}

Stored(p) == rows[p] # Nil

Holders(role) == {p \in Pictures : Stored(p) /\ rows[p].role = role}

Idle(r) == reqs[r] = Nil

At(r, step) == ~Idle(r) /\ reqs[r].step = step

Goes(r, request) == reqs' = [reqs EXCEPT ![r] = request]

Done(r) == Goes(r, Nil)

\* uuid.NewString and NewObjectID: a name nothing has had yet.
Fresh(p) ==
  /\ ~Stored(p)
  /\ p \notin files \cup strays
  /\ \A q \in Requests : ~Idle(q) => reqs[q].id # p

------------------------------------------------------------------------------
(* Upload.                                                                 *)

\* Entitlement.Within: a plan that names no ceiling puts none.
Within(limit, current) == limit # Nil => current < limit

\* checkLimit: only the gallery is capped.
WithinLimit(role, limit) == ~Singular(role) => Within(limit, Cardinality(Holders(role)))

\* Checked before a byte is read: the role, the description, the limit.
Upload(r, p, row, limit) ==
  /\ Idle(r) /\ Fresh(p)
  /\ row.alt # {}
  /\ WithinLimit(row.role, limit)
  /\ Goes(r, [step |-> "send", id |-> p, row |-> row])
  /\ UNCHANGED <<rows, files, unanswered, strays, undemoted>>

\* The host takes the file.  One that turned out too long is to be destroyed,
\* and so is one whose row cannot be made.
Send(r) ==
  /\ At(r, "send")
  /\ files' = files \cup {reqs[r].id}
  /\ \/ Goes(r, [reqs[r] EXCEPT !.step = "insert"])
     \/ Goes(r, [step |-> "destroy", id |-> reqs[r].id])
  /\ UNCHANGED <<rows, unanswered, strays, undemoted>>

\* The host refuses, or stores the file and cannot say so.
SendFails(r) ==
  /\ At(r, "send")
  /\ \/ UNCHANGED <<files, strays>>
     \/ /\ files' = files \cup {reqs[r].id}
        /\ strays' = strays \cup {reqs[r].id}
  /\ Done(r)
  /\ UNCHANGED <<rows, unanswered, undemoted>>

\* The handler answers as soon as a role is given.
PromoteFault(r, p, role) == Done(r)

\* What follows a write that gave picture p its role.
Promote(r, p, role) ==
  IF role # Nil /\ Singular(role)
    THEN Goes(r, [step |-> "demote", id |-> p, role |-> role])
    ELSE Done(r)

\* MediaRepo.Create.
Create(r) ==
  /\ At(r, "insert")
  /\ rows' = [rows EXCEPT ![reqs[r].id] = reqs[r].row]
  /\ Promote(r, reqs[r].id, reqs[r].row.role)
  /\ UNCHANGED <<files, unanswered, strays, undemoted>>

\* The insertion failed and the file is left where it is.
CreateFailsFault(r) ==
  /\ At(r, "insert")
  /\ Done(r)
  /\ UNCHANGED <<rows, files, unanswered, strays, undemoted>>

\* The insertion is an error to the handler, who undoes the upload; the row may
\* have been written all the same.
CreateFails(r) ==
  /\ At(r, "insert")
  /\ \/ UNCHANGED <<rows, unanswered, undemoted>>
     \/ /\ rows' = [rows EXCEPT ![reqs[r].id] = reqs[r].row]
        /\ unanswered' = unanswered \cup {reqs[r].id}
        /\ undemoted' = undemoted \cup ({reqs[r].row.role} \ {"gallery"})
  /\ Goes(r, [step |-> "destroy", id |-> reqs[r].id])
  /\ UNCHANGED <<files, strays>>

\* MediaRepo.DemoteRole, one UpdateMany: whoever else has the role goes to the
\* gallery, whatever its limit.
DemoteRole(r) ==
  /\ At(r, "demote")
  /\ rows' = [p \in Pictures |->
       IF p \in Holders(reqs[r].role) \ {reqs[r].id}
         THEN [rows[p] EXCEPT !.role = "gallery"] ELSE rows[p]]
  /\ undemoted' = undemoted \ {reqs[r].role}
  /\ Done(r)
  /\ UNCHANGED <<files, unanswered, strays>>

------------------------------------------------------------------------------
(* Update.                                                                 *)

\* The description as it was read, with the languages the patch names filled or
\* emptied.
Patched(alt, touched, filled) == (alt \ touched) \cup filled

\* FindByID and the rules.  A patch names a role, languages, or both; the
\* description is written whole.
Update(r, p, role, touched, filled) ==
  /\ Idle(r)
  /\ Stored(p)
  /\ role # Nil \/ touched # {}
  /\ touched # {} => Patched(rows[p].alt, touched, filled) # {}
  /\ Goes(r, [step |-> "update", id |-> p, role |-> role,
              alt |-> IF touched = {} THEN Nil ELSE Patched(rows[p].alt, touched, filled)])
  /\ UNCHANGED <<rows, files, unanswered, strays, undemoted>>

\* Each language is written by itself, over whatever is stored by now.
MergeFault(row, role, alt) ==
  [role |-> IF role = Nil THEN row.role ELSE role,
   alt |-> IF alt = Nil THEN row.alt ELSE row.alt \cap alt]

\* $set of the fields the patch named.
Merge(row, role, alt) ==
  [role |-> IF role = Nil THEN row.role ELSE role,
   alt |-> IF alt = Nil THEN row.alt ELSE alt]

\* MediaRepo.Update.  A row deleted meanwhile matches nothing.
WriteUpdate(r) ==
  /\ At(r, "update")
  /\ IF Stored(reqs[r].id)
       THEN /\ rows' = [rows EXCEPT ![reqs[r].id] = Merge(@, reqs[r].role, reqs[r].alt)]
            /\ Promote(r, reqs[r].id, reqs[r].role)
       ELSE Done(r) /\ UNCHANGED rows
  /\ UNCHANGED <<files, unanswered, strays, undemoted>>

------------------------------------------------------------------------------
(* Delete.                                                                 *)

\* The file goes first, and the row when the host has answered.
DeleteFault(r, p) ==
  /\ Idle(r)
  /\ Stored(p)
  /\ files' = files \ {p}
  /\ Goes(r, [step |-> "delete", id |-> p])
  /\ UNCHANGED <<rows, unanswered, strays, undemoted>>

\* FindByID.
Delete(r, p) ==
  /\ Idle(r)
  /\ Stored(p)
  /\ Goes(r, [step |-> "delete", id |-> p])
  /\ UNCHANGED <<rows, files, unanswered, strays, undemoted>>

\* MediaRepo.Delete.  Whoever deleted it first destroys its file.
DeleteRow(r) ==
  /\ At(r, "delete")
  /\ rows' = [rows EXCEPT ![reqs[r].id] = Nil]
  /\ IF Stored(reqs[r].id) THEN Goes(r, [reqs[r] EXCEPT !.step = "destroy"]) ELSE Done(r)
  /\ UNCHANGED <<files, unanswered, strays, undemoted>>

\* uploader.Destroy, whose error nobody looks at.
Destroy(r) ==
  /\ At(r, "destroy")
  /\ \/ files' = files \ {reqs[r].id} /\ UNCHANGED strays
     \/ strays' = strays \cup {reqs[r].id} /\ UNCHANGED files
  /\ Done(r)
  /\ UNCHANGED <<rows, unanswered, undemoted>>

------------------------------------------------------------------------------

\* The process dies, or the client goes and takes the request's context with
\* it: no later call is made, nor would it succeed.
Abandon(r) ==
  /\ ~Idle(r)
  /\ strays' = IF reqs[r].step \in {"insert", "destroy"}
                 THEN strays \cup {reqs[r].id} ELSE strays
  /\ undemoted' = IF reqs[r].step = "demote"
                    THEN undemoted \cup {reqs[r].role} ELSE undemoted
  /\ Done(r)
  /\ UNCHANGED <<rows, files, unanswered>>

Next == \E r \in Requests :
  \/ \E p \in Pictures, row \in Row, limit \in Limits : Upload(r, p, row, limit)
  \/ Send(r) \/ SendFails(r) \/ Create(r) \/ CreateFails(r)
  \/ \E p \in Pictures, role \in Roles \cup {Nil}, touched \in SUBSET Locales :
       \E filled \in SUBSET touched : Update(r, p, role, touched, filled)
  \/ WriteUpdate(r) \/ DemoteRole(r)
  \/ \E p \in Pictures : Delete(r, p)
  \/ DeleteRow(r) \/ Destroy(r)
  \/ Abandon(r)

Spec == Init /\ [][Next]_vars

------------------------------------------------------------------------------
(* What the pictures promise.                                              *)

\* No page shows a picture whose file is gone: a row always has its file.  The
\* one way out of it is an insertion that was made, reported as failed, and
\* answered by destroying the file.
RowsHaveFiles == \A p \in Pictures : Stored(p) => p \in files \cup unanswered

\* A file at the host has a row, or a handler that will see to it, or is one a
\* call to the host failed for: no course of requests in which the host answers
\* leaves a file behind.
InHand(p) == \E r \in Requests :
  /\ ~Idle(r)
  /\ reqs[r].id = p
  /\ reqs[r].step \in {"insert", "destroy"}

FilesAreAccountedFor == \A p \in files : Stored(p) \/ InHand(p) \/ p \in strays

\* Two pictures have a role meant for one only until a handler that gave it has
\* demoted the others, or when one died before it did.
OneHolderUnlessPending == \A role \in {x \in Roles : Singular(x)} :
  \/ Cardinality(Holders(role)) <= 1
  \/ role \in undemoted
  \/ \E r \in Requests : At(r, "demote") /\ reqs[r].role = role

\* Every picture keeps a description in some language, though two managers each
\* empty a different one from the same reading.
Described == \A p \in Pictures : Stored(p) => rows[p].alt # {}
==============================================================================
