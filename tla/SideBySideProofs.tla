--------------------------- MODULE SideBySideProofs ---------------------------
(***************************************************************************)
(* Theorems about the parts that are checked side by side, for every value *)
(* of their constants.                                                     *)
(***************************************************************************)
EXTENDS SideBySide, TLAPS, FiniteSetTheorems, WellFoundedInduction, SequenceTheorems

------------------------------------------------------------------------------
(* Catalogue.                                                              *)

LEMMA CatalogueInit == Catalogue!Init => Catalogue!TypeOK
BY DEF Catalogue!Init, Catalogue!TypeOK

\* The two writes of a service: types hold, and a loss comes of one amount alone.
LEMMA ServiceStep ==
  ASSUME Catalogue!TypeOK, NEW s \in Services,
         NEW in \in [minutes : Minutes, price : Amounts, bonus : Amounts, active : Catalogue!Flags],
         Catalogue!CreateWashService(s, in) \/ Catalogue!UpdateWashService(s, in)
  PROVE  Catalogue!TypeOK' /\ Catalogue!ByOneAmount
<1>1. in.minutes \in Int /\ in.price \in Int /\ in.bonus \in Int /\ in.active \in BOOLEAN \cup {Nil}
  BY CatalogueAssumption DEF Catalogue!Flags
<1>2. \A t \in Services : cServices[t] # Nil =>
        /\ cServices[t].minutes \in 1 .. 480 /\ cServices[t].price \in Nat \ {0}
        /\ cServices[t].bonus \in Nat /\ cServices[t].active \in BOOLEAN
  BY DEF Catalogue!TypeOK, Catalogue!WashService
<1>3. ASSUME NEW m, NEW p, NEW b, NEW a,
             cServices' = [cServices EXCEPT ![s] = [minutes |-> m, price |-> p, bonus |-> b, active |-> a]],
             cSites' = cSites,
             m \in 1 .. 480, p \in Nat \ {0}, b \in Nat, a \in BOOLEAN,
             b > p => cServices[s] # Nil /\ (cServices[s].price = p \/ cServices[s].bonus = b)
      PROVE  Catalogue!TypeOK' /\ Catalogue!ByOneAmount
  <2> DEFINE row == [minutes |-> m, price |-> p, bonus |-> b, active |-> a]
  <2>1. row \in Catalogue!WashService
    BY <1>3 DEF Catalogue!WashService
  <2>2. Catalogue!TypeOK'
    <3> HIDE DEF row
    <3> QED
      BY <1>3, <2>1 DEF Catalogue!TypeOK, row
  <2>3. cServices'[s] = row /\ \A t \in Services : t # s => cServices'[t] = cServices[t]
    BY <1>3 DEF Catalogue!TypeOK
  <2>4. ASSUME NEW t \in Services, ~Catalogue!LosesMoney(t), Catalogue!LosesMoney(t)'
        PROVE  /\ cServices[t] # Nil
               /\ cServices[t].price = cServices'[t].price \/ cServices[t].bonus = cServices'[t].bonus
    <3>1. t = s
      BY <2>3, <2>4 DEF Catalogue!LosesMoney
    <3>2. row.bonus > row.price
      BY <2>3, <2>4, <3>1 DEF Catalogue!LosesMoney
    <3> QED
      BY <1>3, <2>3, <3>1, <3>2
  <2> QED
    BY <2>2, <2>4 DEF Catalogue!ByOneAmount
<1>4. CASE Catalogue!CreateWashService(s, in)
  <2>1. /\ cServices' = [cServices EXCEPT ![s] =
             [minutes |-> in.minutes, price |-> in.price, bonus |-> in.bonus,
              active |-> Catalogue!SetFlag(in.active, TRUE)]]
        /\ cSites' = cSites
    BY <1>4 DEF Catalogue!CreateWashService, Catalogue!InsertService
  <2>2. in.minutes \in 1 .. 480 /\ in.price > 0 /\ in.bonus >= 0 /\ in.bonus <= in.price
    BY <1>1, <1>4 DEF Catalogue!CreateWashService, Catalogue!ValidService
  <2>3. Catalogue!SetFlag(in.active, TRUE) \in BOOLEAN
    BY <1>1 DEF Catalogue!SetFlag
  <2>4. in.price \in Nat \ {0} /\ in.bonus \in Nat /\ ~(in.bonus > in.price)
    BY <1>1, <2>2
  <2> QED
    BY <1>3, <2>1, <2>2, <2>3, <2>4
<1>5. CASE Catalogue!UpdateWashService(s, in)
  <2> DEFINE m == Catalogue!Set(in.minutes, cServices[s].minutes)
             p == Catalogue!Set(in.price, cServices[s].price)
             b == Catalogue!Set(in.bonus, cServices[s].bonus)
             a == Catalogue!SetFlag(in.active, cServices[s].active)
  <2>1. /\ cServices' = [cServices EXCEPT ![s] = [minutes |-> m, price |-> p, bonus |-> b, active |-> a]]
        /\ cSites' = cSites
        /\ cServices[s] # Nil
    BY <1>5 DEF Catalogue!UpdateWashService, Catalogue!SetService
  <2>2. /\ in.minutes >= 0 /\ in.minutes <= 480 /\ in.price >= 0 /\ in.bonus >= 0
        /\ in.price > 0 => in.bonus <= in.price
    BY <1>5 DEF Catalogue!UpdateWashService, Catalogue!ValidService
  <2>3. /\ cServices[s].minutes \in 1 .. 480 /\ cServices[s].price \in Nat \ {0}
        /\ cServices[s].bonus \in Nat /\ cServices[s].active \in BOOLEAN
    BY <1>2, <2>1
  <2>4. m \in 1 .. 480
    BY <1>1, <2>2, <2>3 DEF Catalogue!Set
  <2>5. p \in Nat \ {0} /\ ((p = in.price /\ in.price > 0) \/ p = cServices[s].price)
    BY <1>1, <2>2, <2>3 DEF Catalogue!Set
  <2>6. b \in Nat /\ (b = in.bonus \/ b = cServices[s].bonus)
    BY <1>1, <2>2, <2>3 DEF Catalogue!Set
  <2>7. a \in BOOLEAN
    BY <1>1, <2>3 DEF Catalogue!SetFlag
  <2> HIDE DEF m, p, b, a
  <2>8. b > p => cServices[s].price = p \/ cServices[s].bonus = b
    BY <1>1, <2>2, <2>5, <2>6
  <2> QED
    BY <1>3, <2>1, <2>4, <2>5, <2>6, <2>7, <2>8
<1> QED
  BY <1>4, <1>5

LEMMA SiteStep ==
  ASSUME Catalogue!TypeOK, NEW l \in Sites, NEW radius \in Radii, NEW active \in Catalogue!Flags,
         Catalogue!CreateLocation(l, radius, active) \/ Catalogue!UpdateLocation(l, radius, active)
  PROVE  Catalogue!TypeOK' /\ cServices' = cServices
<1>1. radius \in Int /\ active \in BOOLEAN \cup {Nil}
  BY CatalogueAssumption DEF Catalogue!Flags
<1>2. ASSUME NEW f \in 25 .. 1000, NEW a \in BOOLEAN,
             cSites' = [cSites EXCEPT ![l] = [radius |-> f, active |-> a]], cServices' = cServices
      PROVE  Catalogue!TypeOK'
  <2>1. [radius |-> f, active |-> a] \in Catalogue!Location
    BY DEF Catalogue!Location
  <2> QED
    BY <1>2, <2>1 DEF Catalogue!TypeOK
<1>3. CASE Catalogue!CreateLocation(l, radius, active)
  <2>1. radius \in 25 .. 1000
    BY <1>1, <1>3 DEF Catalogue!CreateLocation, Catalogue!ValidRadius
  <2>2. Catalogue!SetFlag(active, TRUE) \in BOOLEAN
    BY <1>1 DEF Catalogue!SetFlag
  <2> QED
    BY <1>2, <1>3, <2>1, <2>2 DEF Catalogue!CreateLocation, Catalogue!InsertSite
<1>4. CASE Catalogue!UpdateLocation(l, radius, active)
  <2>1. cSites[l].radius \in 25 .. 1000 /\ cSites[l].active \in BOOLEAN
    BY <1>4 DEF Catalogue!UpdateLocation, Catalogue!SetSite, Catalogue!TypeOK, Catalogue!Location
  <2>2. /\ Catalogue!Set(radius, cSites[l].radius) \in 25 .. 1000
        /\ Catalogue!SetFlag(active, cSites[l].active) \in BOOLEAN
    BY <1>1, <1>4, <2>1 DEF Catalogue!UpdateLocation, Catalogue!AcceptedRadius,
      Catalogue!ValidRadius, Catalogue!Set, Catalogue!SetFlag
  <2> QED
    BY <1>2, <1>4, <2>2 DEF Catalogue!UpdateLocation, Catalogue!SetSite
<1> QED
  BY <1>3, <1>4 DEF Catalogue!CreateLocation, Catalogue!InsertSite,
    Catalogue!UpdateLocation, Catalogue!SetSite

LEMMA CatalogueStep ==
  ASSUME Catalogue!TypeOK, Catalogue!Next
  PROVE  Catalogue!TypeOK' /\ Catalogue!ByOneAmount
<1>1. cServices' = cServices => Catalogue!ByOneAmount
  BY DEF Catalogue!ByOneAmount, Catalogue!LosesMoney
<1> QED
  BY <1>1, ServiceStep, SiteStep DEF Catalogue!Next

\* The bounds of every item and fence hold through any sequence of updates.
LEMMA CatalogueInvariant == Spec => [](part = "catalogue" => Catalogue!TypeOK)
<1>1. Init => (part = "catalogue" => Catalogue!TypeOK)
  BY CatalogueInit DEF Init
<1>2. (part = "catalogue" => Catalogue!TypeOK) /\ [Next]_vars
        => (part = "catalogue" => Catalogue!TypeOK)'
  <2>1. UNCHANGED cVars /\ Catalogue!TypeOK => Catalogue!TypeOK'
    BY DEF cVars, Catalogue!TypeOK
  <2> QED
    BY <2>1, CatalogueStep DEF Next, vars
<1> QED
  BY <1>1, <1>2, PTL DEF Spec

\* A wash comes to cost more than it earns only by an update of one amount.
THEOREM LossIsOfOneAmount == Spec => LossComesByOneAmount
<1>1. (part = "catalogue" => Catalogue!TypeOK) /\ [Next]_vars
        => [part = "catalogue" => Catalogue!ByOneAmount]_vars
  BY CatalogueStep DEF Next
<1> QED
  BY <1>1, CatalogueInvariant, PTL DEF Spec, LossComesByOneAmount

------------------------------------------------------------------------------
(* Media.                                                                  *)

\* What a handler of the pictures knows between two of its calls.  The name of a
\* picture that is being uploaded is nobody else's; a file is destroyed only when
\* its row is gone, or when the insertion of its row was not answered.
MediaSound(r) ==
  /\ Media!At(r, "send") \/ Media!At(r, "insert") =>
       /\ ~Media!Stored(mReqs[r].id)
       /\ mReqs[r].row.alt # {}
       /\ \A q \in Requests \ {r} : ~Media!Idle(q) => mReqs[q].id # mReqs[r].id
  /\ Media!At(r, "insert") => mReqs[r].id \in mFiles
  /\ Media!At(r, "destroy") => ~Media!Stored(mReqs[r].id) \/ mReqs[r].id \in mUnanswered
  /\ Media!At(r, "update") => mReqs[r].alt = Nil \/ mReqs[r].alt # {}

\* OneHolderUnlessPending, without counting.
Alone(role) == \A p, q \in Media!Holders(role) : p = q

Pending(role) ==
  role \in mUndemoted \/ \E r \in Requests : Media!At(r, "demote") /\ mReqs[r].role = role

RolesInv == \A role \in PictureRoles : Media!Singular(role) => Alone(role) \/ Pending(role)

MediaInv ==
  /\ Media!TypeOK
  /\ \A r \in Requests : MediaSound(r)
  /\ Media!RowsHaveFiles /\ Media!FilesAreAccountedFor /\ Media!Described
  /\ RolesInv

\* What the kinds of a request of the pictures carry.
LEMMA MediaRequests ==
  ASSUME Media!TypeOK, NEW r \in Requests, ~Media!Idle(r)
  PROVE  /\ mReqs[r].id \in Pictures
         /\ mReqs[r].step \in {"send", "insert", "delete", "destroy", "demote", "update"}
         /\ mReqs[r].step \in {"send", "insert"} =>
              mReqs[r] \in [step : {"send", "insert"}, id : Pictures, row : Media!Row]
         /\ mReqs[r].step \in {"delete", "destroy"} =>
              mReqs[r] \in [step : {"delete", "destroy"}, id : Pictures]
         /\ mReqs[r].step = "demote" =>
              mReqs[r] \in [step : {"demote"}, id : Pictures, role : PictureRoles]
         /\ mReqs[r].step = "update" =>
              mReqs[r] \in [step : {"update"}, id : Pictures, role : PictureRoles \cup {Nil},
                            alt : (SUBSET Locales) \cup {Nil}]
<1>1. mReqs[r] \in Media!Request
  BY DEF Media!TypeOK, Media!Idle
<1> QED
  BY <1>1 DEF Media!Request

\* A handler goes on to its next call.
LEMMA MediaGoes ==
  ASSUME Media!TypeOK, NEW r \in Requests, NEW q \in Media!Request \cup {Nil}, Media!Goes(r, q)
  PROVE  /\ mReqs' \in [Requests -> Media!Request \cup {Nil}]
         /\ mReqs'[r] = q
         /\ \A o \in Requests : o # r => mReqs'[o] = mReqs[o]
BY DEF Media!TypeOK, Media!Goes

\* What no step of handler r takes from the others.
LEMMA MediaOthers ==
  ASSUME Media!TypeOK, \A o \in Requests : MediaSound(o), NEW r \in Requests,
         \A o \in Requests : o # r => mReqs'[o] = mReqs[o],
         \A p \in Pictures : mRows'[p] # Nil =>
           mRows[p] # Nil \/ (Media!At(r, "insert") /\ p = mReqs[r].id),
         mReqs'[r] # Nil =>
           \/ mReqs[r] # Nil /\ mReqs'[r].id = mReqs[r].id
           \/ \A o \in Requests : mReqs[o] # Nil =>
                mReqs[o].id # mReqs'[r].id \/ mRows[mReqs[o].id] # Nil,
         \A p \in mFiles : p \in mFiles' \/ (Media!At(r, "destroy") /\ p = mReqs[r].id),
         mUnanswered \subseteq mUnanswered',
         NEW o \in Requests, o # r
  PROVE  MediaSound(o)'
<1>1. CASE mReqs[o] = Nil
  BY <1>1 DEF MediaSound, Media!At, Media!Idle
<1>2. CASE mReqs[o] # Nil
  <2>1. mReqs[o].id \in Pictures
    BY <1>2, MediaRequests DEF Media!Idle
  <2>2. MediaSound(o) /\ MediaSound(r)
    OBVIOUS
  <2>3. mReqs[o].step \in {"send", "insert"} =>
          /\ mRows'[mReqs[o].id] = Nil
          /\ mReqs[o].row.alt # {}
          /\ \A q \in Requests \ {o} : mReqs'[q] # Nil => mReqs'[q].id # mReqs[o].id
    BY <1>2, <2>1, <2>2 DEF MediaSound, Media!At, Media!Idle, Media!Stored
  <2>4. mReqs[o].step = "insert" => mReqs[o].id \in mFiles'
    BY <1>2, <2>2 DEF MediaSound, Media!At, Media!Idle, Media!Stored
  <2>5. mReqs[o].step = "destroy" => mRows'[mReqs[o].id] = Nil \/ mReqs[o].id \in mUnanswered'
    BY <1>2, <2>1, <2>2 DEF MediaSound, Media!At, Media!Idle, Media!Stored
  <2>6. mReqs[o].step = "update" => mReqs[o].alt = Nil \/ mReqs[o].alt # {}
    BY <1>2, <2>2 DEF MediaSound, Media!At, Media!Idle
  <2> QED
    BY <2>3, <2>4, <2>5, <2>6 DEF MediaSound, Media!At, Media!Idle, Media!Stored
<1> QED
  BY <1>1, <1>2

\* A demotion that is due stays due.
LEMMA PendingStays ==
  ASSUME NEW r \in Requests, \A o \in Requests : o # r => mReqs'[o] = mReqs[o],
         Media!At(r, "demote") => mReqs[r].role \in mUndemoted',
         mUndemoted \subseteq mUndemoted',
         NEW role, Pending(role)
  PROVE  Pending(role)'
BY DEF Pending, Media!At, Media!Idle

\* Nobody gets a role without a demotion to follow.
LEMMA RolesKept ==
  ASSUME RolesInv,
         \A role \in PictureRoles : Media!Singular(role) =>
           Pending(role)' \/ (Media!Holders(role)' \subseteq Media!Holders(role) /\ ~Pending(role))
  PROVE  RolesInv'
BY DEF RolesInv, Alone, Media!Singular

\* A handler begins, goes on or ends with the rows as they are.
LEMMA RowsUntouched ==
  ASSUME MediaInv, NEW r \in Requests, mRows' = mRows,
         \A o \in Requests : o # r => mReqs'[o] = mReqs[o],
         Media!At(r, "demote") => mReqs[r].role \in mUndemoted',
         mUndemoted \subseteq mUndemoted', mUnanswered \subseteq mUnanswered',
         \A p \in mFiles : p \in mFiles' \/ mRows[p] = Nil \/ p \in mUnanswered
  PROVE  Media!RowsHaveFiles' /\ Media!Described' /\ RolesInv'
<1>1. Media!RowsHaveFiles'
  BY DEF MediaInv, Media!RowsHaveFiles, Media!Stored
<1>2. Media!Described'
  BY DEF MediaInv, Media!Described, Media!Stored
<1>3. \A role \in PictureRoles : Media!Holders(role)' = Media!Holders(role)
  BY DEF Media!Holders, Media!Stored
<1>4. RolesInv'
  BY <1>3, PendingStays, RolesKept DEF MediaInv
<1> QED
  BY <1>1, <1>2, <1>4

\* A handler makes its first note.
LEMMA MediaBegan ==
  ASSUME MediaInv, NEW r \in Requests, mReqs[r] = Nil,
         NEW p \in Pictures, NEW new \in Media!Request, Media!Goes(r, new), new.id = p,
         \/ new.step = "send" /\ new.row.alt # {} /\ Media!Fresh(p)
         \/ new.step = "update" /\ (new.alt = Nil \/ new.alt # {}) /\ Media!Stored(p)
         \/ new.step = "delete" /\ Media!Stored(p),
         UNCHANGED <<mRows, mFiles, mUnanswered, mStrays, mUndemoted>>
  PROVE  MediaInv'
<1>1. new # Nil
  BY MediaAssumption
<1>2. /\ mReqs' \in [Requests -> Media!Request \cup {Nil}]
      /\ mReqs'[r] = new
      /\ \A o \in Requests : o # r => mReqs'[o] = mReqs[o]
  BY MediaGoes DEF MediaInv
<1>3. Media!TypeOK'
  BY <1>2 DEF MediaInv, Media!TypeOK
<1>4. MediaSound(r)'
  <2>1. CASE new.step = "send" /\ new.row.alt # {} /\ Media!Fresh(p)
    BY <1>2, <2>1 DEF MediaSound, Media!At, Media!Idle, Media!Fresh, Media!Stored
  <2>2. CASE new.step = "update" /\ (new.alt = Nil \/ new.alt # {})
    BY <1>2, <2>2 DEF MediaSound, Media!At
  <2>3. CASE new.step = "delete"
    BY <1>2, <2>3 DEF MediaSound, Media!At
  <2> QED
    BY <2>1, <2>2, <2>3
<1>5. \A o \in Requests : MediaSound(o)'
  <2>1. \A o \in Requests : mReqs[o] # Nil => mReqs[o].id # p \/ mRows[mReqs[o].id] # Nil
    BY DEF Media!Fresh, Media!Idle, Media!Stored
  <2> QED
    BY <1>1, <1>2, <1>4, <2>1, MediaOthers DEF MediaInv
<1>6. Media!RowsHaveFiles' /\ Media!Described' /\ RolesInv'
  BY <1>2, RowsUntouched DEF Media!At, Media!Idle
<1>7. Media!FilesAreAccountedFor'
  BY <1>2 DEF MediaInv, Media!FilesAreAccountedFor, Media!InHand, Media!Stored, Media!Idle
<1> QED
  BY <1>3, <1>5, <1>6, <1>7 DEF MediaInv

\* Upload, Update and Delete up to their first call.
LEMMA MediaBegins ==
  ASSUME MediaInv, NEW r \in Requests, NEW p \in Pictures,
         \/ \E row \in Media!Row, limit \in Limits : Media!Upload(r, p, row, limit)
         \/ \E role \in PictureRoles \cup {Nil}, touched \in SUBSET Locales :
              \E filled \in SUBSET touched : Media!Update(r, p, role, touched, filled)
         \/ Media!Delete(r, p)
  PROVE  MediaInv'
<1>1. ASSUME NEW row \in Media!Row, NEW limit \in Limits, Media!Upload(r, p, row, limit)
      PROVE  MediaInv'
  <2> DEFINE new == [step |-> "send", id |-> p, row |-> row]
  <2>1. new \in Media!Request /\ new.id = p /\ new.step = "send" /\ new.row = row
    BY DEF Media!Request
  <2>2. /\ mReqs[r] = Nil /\ Media!Goes(r, new) /\ row.alt # {} /\ Media!Fresh(p)
        /\ UNCHANGED <<mRows, mFiles, mUnanswered, mStrays, mUndemoted>>
    BY <1>1 DEF Media!Upload, Media!Idle
  <2> QED
    BY <2>1, <2>2, MediaBegan
<1>2. ASSUME NEW role \in PictureRoles \cup {Nil}, NEW touched \in SUBSET Locales,
             NEW filled \in SUBSET touched, Media!Update(r, p, role, touched, filled)
      PROVE  MediaInv'
  <2> DEFINE alt == IF touched = {} THEN Nil ELSE Media!Patched(mRows[p].alt, touched, filled)
             new == [step |-> "update", id |-> p, role |-> role, alt |-> alt]
  <2>1. /\ mReqs[r] = Nil /\ Media!Goes(r, new) /\ Media!Stored(p) /\ (alt = Nil \/ alt # {})
        /\ UNCHANGED <<mRows, mFiles, mUnanswered, mStrays, mUndemoted>>
    BY <1>2 DEF Media!Update, Media!Idle
  <2>2. mRows[p].alt \in SUBSET Locales
    BY <2>1 DEF MediaInv, Media!TypeOK, Media!Row, Media!Stored
  <2>3. alt \in (SUBSET Locales) \cup {Nil}
    BY <2>2 DEF Media!Patched
  <2> HIDE DEF alt
  <2>4. new \in Media!Request /\ new.id = p /\ new.step = "update" /\ new.alt = alt
    BY <2>3 DEF Media!Request
  <2> QED
    BY <2>1, <2>4, MediaBegan
<1>3. CASE Media!Delete(r, p)
  <2> DEFINE new == [step |-> "delete", id |-> p]
  <2>1. new \in Media!Request /\ new.id = p /\ new.step = "delete"
    BY DEF Media!Request
  <2>2. /\ mReqs[r] = Nil /\ Media!Goes(r, new) /\ Media!Stored(p)
        /\ UNCHANGED <<mRows, mFiles, mUnanswered, mStrays, mUndemoted>>
    BY <1>3 DEF Media!Delete, Media!Idle
  <2> QED
    BY <2>1, <2>2, MediaBegan
<1> QED
  BY <1>1, <1>2, <1>3

\* A call to the image host, and the end of a handler.
LEMMA MediaAtTheHost ==
  ASSUME MediaInv, NEW r \in Requests,
         Media!Send(r) \/ Media!SendFails(r) \/ Media!Destroy(r) \/ Media!Abandon(r)
  PROVE  MediaInv'
<1>1. mReqs[r] # Nil /\ mRows' = mRows /\ mUnanswered' = mUnanswered
  BY DEF Media!Send, Media!SendFails, Media!Destroy, Media!Abandon, Media!At, Media!Idle
<1>2. mReqs[r].id \in Pictures /\ MediaSound(r) /\ Media!TypeOK
  BY <1>1, MediaRequests DEF MediaInv, Media!Idle
<1>3. PICK new \in Media!Request \cup {Nil} :
        /\ Media!Goes(r, new)
        /\ \/ new = Nil /\ (Media!SendFails(r) \/ Media!Destroy(r) \/ Media!Abandon(r))
           \/ /\ new # Nil /\ new.id = mReqs[r].id /\ mReqs[r].step = "send"
              /\ mReqs[r].id \in mFiles'
              /\ \/ new.step = "insert" /\ new.row = mReqs[r].row
                 \/ new.step = "destroy"
  <2>1. CASE Media!Send(r)
    <3>1. mReqs[r] \in [step : {"send", "insert"}, id : Pictures, row : Media!Row]
      BY <1>1, <1>2, <2>1, MediaRequests DEF Media!Send, Media!At
    <3>2. PICK new : /\ Media!Goes(r, new) /\ mReqs[r].id \in mFiles'
                     /\ \/ new = [mReqs[r] EXCEPT !.step = "insert"]
                        \/ new = [step |-> "destroy", id |-> mReqs[r].id]
      BY <2>1 DEF Media!Send
    <3>3. CASE new = [mReqs[r] EXCEPT !.step = "insert"]
      <4>1. /\ new \in [step : {"send", "insert"}, id : Pictures, row : Media!Row]
            /\ new.step = "insert" /\ new.id = mReqs[r].id /\ new.row = mReqs[r].row
        BY <3>1, <3>3
      <4>2. new \in Media!Request
        BY <4>1 DEF Media!Request
      <4> QED
        BY <2>1, <3>2, <4>1, <4>2, MediaAssumption DEF Media!Send, Media!At
    <3>4. CASE new = [step |-> "destroy", id |-> mReqs[r].id]
      <4>1. new \in Media!Request /\ new.step = "destroy" /\ new.id = mReqs[r].id
        BY <1>2, <3>4 DEF Media!Request
      <4> QED
        BY <2>1, <3>2, <4>1, MediaAssumption DEF Media!Send, Media!At
    <3> QED
      BY <3>2, <3>3, <3>4
  <2>2. CASE Media!SendFails(r) \/ Media!Destroy(r) \/ Media!Abandon(r)
    BY <2>2 DEF Media!SendFails, Media!Destroy, Media!Abandon, Media!Done
  <2> QED
    BY <2>1, <2>2
<1>4. /\ mReqs' \in [Requests -> Media!Request \cup {Nil}]
      /\ mReqs'[r] = new
      /\ \A o \in Requests : o # r => mReqs'[o] = mReqs[o]
  BY <1>2, <1>3, MediaGoes
<1>5. /\ mFiles' \subseteq mFiles \cup {mReqs[r].id}
      /\ mStrays \subseteq mStrays' /\ mStrays' \subseteq mStrays \cup {mReqs[r].id}
      /\ mUndemoted \subseteq mUndemoted'
      /\ Media!At(r, "demote") => mReqs[r].role \in mUndemoted'
      /\ mUndemoted' \subseteq PictureRoles
  <2>1. mReqs[r].step = "demote" => mReqs[r].role \in PictureRoles
    BY <1>1, <1>2, MediaRequests DEF Media!Idle
  <2> QED
    BY <1>2, <2>1 DEF Media!Send, Media!SendFails, Media!Destroy, Media!Abandon, Media!At, Media!Idle,
      Media!TypeOK
<1>6. \A p \in mFiles : p \in mFiles' \/ (mReqs[r].step = "destroy" /\ p = mReqs[r].id)
  BY DEF Media!Send, Media!SendFails, Media!Destroy, Media!Abandon, Media!At
<1>7. Media!TypeOK'
  BY <1>1, <1>2, <1>4, <1>5 DEF Media!TypeOK
<1>8. MediaSound(r)'
  <2>1. CASE new = Nil
    BY <1>4, <2>1 DEF MediaSound, Media!At, Media!Idle
  <2>2. CASE new # Nil
    BY <1>1, <1>2, <1>3, <1>4, <2>2 DEF MediaSound, Media!At, Media!Idle, Media!Stored
  <2> QED
    BY <2>1, <2>2
<1>9. \A o \in Requests : MediaSound(o)'
  BY <1>1, <1>2, <1>3, <1>4, <1>6, <1>8, MediaOthers DEF MediaInv, Media!At, Media!Idle
<1>10. Media!RowsHaveFiles' /\ Media!Described' /\ RolesInv'
  <2>1. mReqs[r].step = "destroy" => mRows[mReqs[r].id] = Nil \/ mReqs[r].id \in mUnanswered
    BY <1>1, <1>2 DEF MediaSound, Media!At, Media!Idle, Media!Stored
  <2> QED
    BY <1>1, <1>4, <1>5, <1>6, <2>1, RowsUntouched
<1>11. Media!FilesAreAccountedFor'
  <2> SUFFICES ASSUME NEW p \in mFiles', mRows'[p] = Nil, p \notin mStrays'
               PROVE  Media!InHand(p)'
    BY DEF Media!FilesAreAccountedFor, Media!Stored
  <2>1. CASE p = mReqs[r].id /\ new # Nil
    BY <1>3, <1>4, <2>1 DEF Media!InHand, Media!Idle
  <2>2. CASE p = mReqs[r].id /\ new = Nil
    <3>1. p \in mFiles /\ mReqs[r].step \notin {"insert", "destroy"}
      BY <1>3, <2>2 DEF Media!SendFails, Media!Destroy, Media!Abandon, Media!At
    <3>2. PICK o \in Requests : mReqs[o] # Nil /\ mReqs[o].id = p /\ mReqs[o].step \in {"insert", "destroy"}
      BY <1>1, <1>5, <3>1 DEF MediaInv, Media!FilesAreAccountedFor, Media!InHand, Media!Stored, Media!Idle
    <3> QED
      BY <1>4, <3>1, <3>2 DEF Media!InHand, Media!Idle
  <2>3. CASE p # mReqs[r].id
    <3>1. PICK o \in Requests : mReqs[o] # Nil /\ mReqs[o].id = p /\ mReqs[o].step \in {"insert", "destroy"}
      BY <1>1, <1>5, <2>3 DEF MediaInv, Media!FilesAreAccountedFor, Media!InHand, Media!Stored, Media!Idle
    <3> QED
      BY <1>4, <2>3, <3>1 DEF Media!InHand, Media!Idle
  <2> QED
    BY <2>1, <2>2, <2>3
<1> QED
  BY <1>7, <1>9, <1>10, <1>11 DEF MediaInv

\* What follows a write that gave a role.
LEMMA MediaPromotes ==
  ASSUME Media!TypeOK, NEW r \in Requests, NEW p \in Pictures, NEW role \in PictureRoles \cup {Nil},
         Media!Promote(r, p, role)
  PROVE  /\ mReqs' \in [Requests -> Media!Request \cup {Nil}]
         /\ \A o \in Requests : o # r => mReqs'[o] = mReqs[o]
         /\ \/ mReqs'[r] = Nil
            \/ mReqs'[r] # Nil /\ mReqs'[r].step = "demote" /\ mReqs'[r].id = p /\ mReqs'[r].role = role
         /\ role # Nil /\ Media!Singular(role) => mReqs'[r] # Nil
<1>1. CASE role # Nil /\ Media!Singular(role)
  <2>1. [step |-> "demote", id |-> p, role |-> role] \in Media!Request
    BY <1>1 DEF Media!Request
  <2>2. [step |-> "demote", id |-> p, role |-> role] # Nil
    BY <2>1, MediaAssumption
  <2> QED
    BY <1>1, <2>1, <2>2, MediaGoes DEF Media!Promote
<1>2. CASE ~(role # Nil /\ Media!Singular(role))
  BY <1>2, MediaGoes DEF Media!Promote, Media!Done
<1> QED
  BY <1>1, <1>2

\* The insertion of a row, answered or not.
LEMMA MediaInserts ==
  ASSUME MediaInv, NEW r \in Requests, Media!Create(r) \/ Media!CreateFails(r)
  PROVE  MediaInv'
<1> DEFINE id == mReqs[r].id
           row == mReqs[r].row
<1>1. /\ mReqs[r] # Nil /\ mReqs[r].step = "insert" /\ id \in Pictures /\ row \in Media!Row
      /\ row.role \in PictureRoles /\ row # Nil /\ row.role # Nil
  <2>1. mReqs[r] # Nil /\ mReqs[r].step = "insert"
    BY DEF Media!Create, Media!CreateFails, Media!At, Media!Idle
  <2>2. mReqs[r] \in [step : {"send", "insert"}, id : Pictures, row : Media!Row]
    BY <2>1, MediaRequests DEF MediaInv, Media!Idle
  <2> QED
    BY <2>1, <2>2, MediaAssumption DEF Media!Row
<1>2. /\ mRows[id] = Nil /\ row.alt # {} /\ id \in mFiles
      /\ \A q \in Requests \ {r} : mReqs[q] # Nil => mReqs[q].id # id
  BY <1>1 DEF MediaInv, MediaSound, Media!At, Media!Idle, Media!Stored
<1>3. /\ mReqs' \in [Requests -> Media!Request \cup {Nil}]
      /\ \A o \in Requests : o # r => mReqs'[o] = mReqs[o]
      /\ mReqs'[r] = Nil \/ (mReqs'[r] # Nil /\ mReqs'[r].id = id /\ mReqs'[r].step \in {"demote", "destroy"})
  <2>1. CASE Media!Create(r)
    BY <1>1, <2>1, MediaPromotes DEF Media!Create, MediaInv
  <2>2. CASE Media!CreateFails(r)
    <3>1. [step |-> "destroy", id |-> id] \in Media!Request
      BY <1>1 DEF Media!Request
    <3> QED
      BY <2>2, <3>1, MediaGoes, MediaAssumption DEF Media!CreateFails, MediaInv
  <2> QED
    BY <2>1, <2>2
<1>4. /\ mFiles' = mFiles /\ mStrays' = mStrays
      /\ mUnanswered \subseteq mUnanswered' /\ mUndemoted \subseteq mUndemoted'
      /\ mUnanswered' \subseteq Pictures /\ mUndemoted' \subseteq PictureRoles
  BY <1>1 DEF Media!Create, Media!CreateFails, MediaInv, Media!TypeOK
<1>5. \/ mRows' = mRows
      \/ mRows' = [mRows EXCEPT ![id] = row]
  BY DEF Media!Create, Media!CreateFails
<1>6. mReqs'[r] # Nil /\ mReqs'[r].step = "destroy" => mRows'[id] = Nil \/ id \in mUnanswered'
  <2>1. CASE Media!Create(r)
    BY <1>1, <2>1, MediaPromotes DEF Media!Create, MediaInv
  <2>2. CASE Media!CreateFails(r)
    BY <1>1, <1>2, <2>2 DEF Media!CreateFails
  <2> QED
    BY <2>1, <2>2
<1>7. Media!TypeOK'
  BY <1>1, <1>3, <1>4, <1>5 DEF MediaInv, Media!TypeOK
<1>8. mRows \in [Pictures -> Media!Row \cup {Nil}] /\ MediaSound(r)
  BY DEF MediaInv, Media!TypeOK
<1>9. \A p \in Pictures : p # id => mRows'[p] = mRows[p]
  BY <1>5, <1>8
<1>10. mRows'[id] = Nil \/ mRows'[id] = row
  BY <1>1, <1>2, <1>5, <1>8
<1>11. MediaSound(r)'
  BY <1>3, <1>6 DEF MediaSound, Media!At, Media!Idle, Media!Stored
<1>12. \A o \in Requests : MediaSound(o)'
  BY <1>1, <1>3, <1>4, <1>9, <1>11, MediaOthers DEF MediaInv, Media!At, Media!Idle
<1>13. Media!RowsHaveFiles' /\ Media!Described'
  BY <1>2, <1>4, <1>9, <1>10 DEF MediaInv, Media!RowsHaveFiles, Media!Described, Media!Stored
<1>14. Media!FilesAreAccountedFor'
  <2> SUFFICES ASSUME NEW p \in mFiles, mRows'[p] = Nil, p \notin mStrays
               PROVE  Media!InHand(p)'
    BY <1>4 DEF Media!FilesAreAccountedFor, Media!Stored
  <2>1. CASE p = id
    <3>1. ~Media!Create(r)
      BY <1>1, <1>8, <2>1 DEF Media!Create
    <3>2. mReqs'[r] # Nil /\ mReqs'[r].step = "destroy"
      <4>1. [step |-> "destroy", id |-> id] \in Media!Request
        BY <1>1 DEF Media!Request
      <4> QED
        BY <3>1, <4>1, MediaGoes, MediaAssumption DEF Media!CreateFails, MediaInv
    <3> QED
      BY <1>3, <2>1, <3>2 DEF Media!InHand, Media!Idle
  <2>2. CASE p # id
    <3>1. p \in Pictures
      BY DEF MediaInv, Media!TypeOK
    <3>2. PICK o \in Requests : mReqs[o] # Nil /\ mReqs[o].id = p /\ mReqs[o].step \in {"insert", "destroy"}
      BY <1>9, <2>2, <3>1 DEF MediaInv, Media!FilesAreAccountedFor, Media!InHand, Media!Stored, Media!Idle
    <3> QED
      BY <1>3, <2>2, <3>2 DEF Media!InHand, Media!Idle
  <2> QED
    BY <2>1, <2>2
<1>15. RolesInv'
  <2>1. ~Media!At(r, "demote")
    BY <1>1 DEF Media!At
  <2>2. ASSUME NEW role \in PictureRoles, Pending(role) PROVE Pending(role)'
    BY <1>3, <1>4, <2>1, <2>2, PendingStays
  <2>3. ASSUME NEW role \in PictureRoles, Media!Singular(role), role = row.role, mRows'[id] # Nil
        PROVE  Pending(role)'
    <3>1. CASE Media!Create(r)
      <4>1. mReqs'[r] # Nil /\ mReqs'[r].step = "demote" /\ mReqs'[r].role = role
        BY <1>1, <2>3, <3>1, MediaPromotes DEF Media!Create, MediaInv
      <4> QED
        BY <4>1 DEF Pending, Media!At, Media!Idle
    <3>2. CASE Media!CreateFails(r)
      BY <1>2, <2>3, <3>2 DEF Media!CreateFails, Pending, Media!Singular
    <3> QED
      BY <3>1, <3>2
  <2>4. ASSUME NEW role \in PictureRoles, role # row.role \/ mRows'[id] = Nil
        PROVE  Media!Holders(role)' \subseteq Media!Holders(role)
    BY <1>9, <1>10, <2>4 DEF Media!Holders, Media!Stored
  <2> QED
    BY <2>2, <2>3, <2>4, RolesKept DEF MediaInv
<1> QED
  BY <1>7, <1>12, <1>13, <1>14, <1>15 DEF MediaInv

\* The other writes to rows: a patch, a demotion, a deletion.
LEMMA MediaRewrites ==
  ASSUME MediaInv, NEW r \in Requests, Media!WriteUpdate(r) \/ Media!DemoteRole(r)
  PROVE  MediaInv'
<1> DEFINE id == mReqs[r].id
<1>1. /\ mReqs[r] # Nil /\ id \in Pictures /\ mReqs[r].step \in {"update", "demote"}
      /\ mReqs[r].role \in PictureRoles \cup {Nil}
      /\ mReqs[r].step = "demote" => mReqs[r].role \in PictureRoles
      /\ mReqs[r].step = "update" => /\ mReqs[r].alt \in (SUBSET Locales) \cup {Nil}
                                     /\ mReqs[r].alt = Nil \/ mReqs[r].alt # {}
  <2>1. mReqs[r] # Nil /\ mReqs[r].step \in {"update", "demote"}
    BY DEF Media!WriteUpdate, Media!DemoteRole, Media!At, Media!Idle
  <2>2. mReqs[r].step = "update" => mReqs[r].alt = Nil \/ mReqs[r].alt # {}
    BY <2>1 DEF MediaInv, MediaSound, Media!At, Media!Idle
  <2> QED
    BY <2>1, <2>2, MediaRequests DEF MediaInv, Media!Idle
<1>2. mRows \in [Pictures -> Media!Row \cup {Nil}] /\ Media!TypeOK
  BY DEF MediaInv, Media!TypeOK
<1>3. \A p \in Pictures : mRows[p] # Nil =>
        mRows[p].role \in PictureRoles /\ mRows[p].alt \in SUBSET Locales /\ mRows[p].alt # {}
  BY <1>2 DEF Media!Row, MediaInv, Media!Described, Media!Stored
<1>4. /\ mFiles' = mFiles /\ mStrays' = mStrays /\ mUnanswered' = mUnanswered
      /\ mUndemoted' \subseteq mUndemoted
  BY DEF Media!WriteUpdate, Media!DemoteRole
<1>5. /\ mReqs' \in [Requests -> Media!Request \cup {Nil}]
      /\ \A o \in Requests : o # r => mReqs'[o] = mReqs[o]
      /\ mReqs'[r] = Nil \/ (mReqs'[r] # Nil /\ mReqs'[r].step = "demote" /\ mReqs'[r].id = id)
  <2>1. CASE Media!WriteUpdate(r) /\ Media!Stored(id)
    BY <1>1, <1>2, <2>1, MediaPromotes DEF Media!WriteUpdate
  <2>2. CASE Media!Done(r)
    BY <1>2, <2>2, MediaGoes DEF Media!Done
  <2> QED
    BY <2>1, <2>2 DEF Media!WriteUpdate, Media!DemoteRole
<1>6. ASSUME NEW p \in Pictures
      PROVE  /\ mRows'[p] = Nil <=> mRows[p] = Nil
             /\ mRows'[p] # Nil => mRows'[p] \in Media!Row /\ mRows'[p].alt # {}
  <2>1. CASE Media!WriteUpdate(r)
    <3>1. CASE p = id /\ Media!Stored(id)
      <4>1. mRows'[p] = Media!Merge(mRows[p], mReqs[r].role, mReqs[r].alt)
        BY <1>2, <2>1, <3>1 DEF Media!WriteUpdate
      <4>2. mReqs[r].step = "update"
        BY <2>1 DEF Media!WriteUpdate, Media!At
      <4>3. Media!Merge(mRows[p], mReqs[r].role, mReqs[r].alt) \in Media!Row
        BY <1>1, <1>3, <3>1, <4>2 DEF Media!Merge, Media!Row, Media!Stored
      <4>4. Media!Merge(mRows[p], mReqs[r].role, mReqs[r].alt).alt # {}
        BY <1>1, <1>3, <3>1, <4>2 DEF Media!Merge, Media!Stored
      <4> QED
        BY <3>1, <4>1, <4>3, <4>4, MediaAssumption DEF Media!Stored
    <3>2. CASE p # id \/ ~Media!Stored(id)
      BY <1>2, <1>3, <2>1, <3>2 DEF Media!WriteUpdate
    <3> QED
      BY <3>1, <3>2
  <2>2. CASE Media!DemoteRole(r)
    <3>1. CASE p \in Media!Holders(mReqs[r].role) \ {id}
      <4>1. mRows'[p] = [mRows[p] EXCEPT !.role = "gallery"]
        BY <2>2, <3>1 DEF Media!DemoteRole
      <4>2. mRows[p] # Nil /\ mRows[p] \in Media!Row
        BY <1>2, <3>1 DEF Media!Holders, Media!Stored
      <4>3. mRows'[p] \in Media!Row /\ mRows'[p].alt = mRows[p].alt
        BY <4>1, <4>2, MediaAssumption DEF Media!Row
      <4> QED
        BY <1>3, <4>2, <4>3, MediaAssumption
    <3>2. CASE p \notin Media!Holders(mReqs[r].role) \ {id}
      BY <1>2, <1>3, <2>2, <3>2 DEF Media!DemoteRole
    <3> QED
      BY <3>1, <3>2
  <2> QED
    BY <2>1, <2>2
<1>7. Media!TypeOK'
  <2>1. mRows' \in [Pictures -> Media!Row \cup {Nil}]
    <3>1. CASE Media!WriteUpdate(r)
      <4>1. mRows' = mRows \/ mRows' = [mRows EXCEPT ![id] = Media!Merge(@, mReqs[r].role, mReqs[r].alt)]
        BY <3>1 DEF Media!WriteUpdate
      <4> QED
        BY <1>1, <1>2, <1>6, <4>1
    <3>2. CASE Media!DemoteRole(r)
      <4>1. mRows' = [p \in Pictures |-> mRows'[p]]
        BY <3>2 DEF Media!DemoteRole
      <4>2. \A p \in Pictures : mRows'[p] \in Media!Row \cup {Nil}
        BY <1>6
      <4> QED
        BY <4>1, <4>2
    <3> QED
      BY <3>1, <3>2
  <2> QED
    BY <1>2, <1>4, <1>5, <2>1 DEF Media!TypeOK
<1>8. MediaSound(r)'
  BY <1>5 DEF MediaSound, Media!At, Media!Idle
<1>9. \A o \in Requests : MediaSound(o)'
  BY <1>1, <1>4, <1>5, <1>6, <1>8, MediaOthers DEF MediaInv
<1>10. Media!RowsHaveFiles' /\ Media!Described'
  BY <1>4, <1>6 DEF MediaInv, Media!RowsHaveFiles, Media!Described, Media!Stored
<1>11. Media!FilesAreAccountedFor'
  <2>1. mFiles \subseteq Pictures
    BY <1>2 DEF Media!TypeOK
  <2>2. ASSUME NEW p \in mFiles, Media!InHand(p)
        PROVE  Media!InHand(p)'
    BY <1>1, <1>5, <2>2 DEF Media!InHand, Media!Idle
  <2> QED
    BY <1>4, <1>6, <2>1, <2>2 DEF MediaInv, Media!FilesAreAccountedFor, Media!Stored
<1>12. RolesInv'
  <2>1. CASE Media!WriteUpdate(r)
    <3>1. mReqs[r].step = "update" /\ mUndemoted' = mUndemoted
      BY <2>1 DEF Media!WriteUpdate, Media!At
    <3>2. ASSUME NEW role \in PictureRoles, Pending(role) PROVE Pending(role)'
      BY <1>5, <3>1, <3>2, PendingStays DEF Media!At
    <3>3. ASSUME NEW role \in PictureRoles, Media!Singular(role), role = mReqs[r].role, Media!Stored(id)
          PROVE  Pending(role)'
      <4>1. mReqs'[r] # Nil /\ mReqs'[r].step = "demote" /\ mReqs'[r].role = role
        BY <1>1, <1>2, <2>1, <3>3, MediaPromotes, MediaAssumption DEF Media!WriteUpdate
      <4> QED
        BY <4>1 DEF Pending, Media!At, Media!Idle
    <3>4. ASSUME NEW role \in PictureRoles, role # mReqs[r].role \/ ~Media!Stored(id)
          PROVE  Media!Holders(role)' \subseteq Media!Holders(role)
      <4>1. \A p \in Pictures : mRows'[p] = mRows[p]
              \/ (p = id /\ Media!Stored(id) /\ mRows'[p] = Media!Merge(mRows[p], mReqs[r].role, mReqs[r].alt))
        BY <1>2, <2>1 DEF Media!WriteUpdate
      <4>2. Media!Merge(mRows[id], mReqs[r].role, mReqs[r].alt).role \in {mRows[id].role, mReqs[r].role}
        BY DEF Media!Merge
      <4>3. ASSUME NEW p \in Pictures, mRows'[p] # Nil, mRows'[p].role = role
            PROVE  mRows[p] # Nil /\ mRows[p].role = role
        BY <1>6, <3>4, <4>1, <4>2, <4>3 DEF Media!Stored
      <4> QED
        BY <4>3 DEF Media!Holders, Media!Stored
    <3> QED
      BY <3>2, <3>3, <3>4, RolesKept DEF MediaInv
  <2>2. CASE Media!DemoteRole(r)
    <3> DEFINE given == mReqs[r].role
    <3>1. mReqs[r].step = "demote" /\ given \in PictureRoles /\ mUndemoted' = mUndemoted \ {given}
      BY <1>1, <2>2 DEF Media!DemoteRole, Media!At
    <3>2. \A p \in Pictures : mRows'[p] =
            IF p \in Media!Holders(given) \ {id} THEN [mRows[p] EXCEPT !.role = "gallery"] ELSE mRows[p]
      BY <2>2 DEF Media!DemoteRole
    <3>3. \A p \in Media!Holders(given) \ {id} : mRows'[p].role = "gallery"
      <4> SUFFICES ASSUME NEW p \in Media!Holders(given) \ {id} PROVE mRows'[p].role = "gallery"
        OBVIOUS
      <4>1. p \in Pictures /\ mRows[p] \in Media!Row
        BY <1>2 DEF Media!Holders, Media!Stored
      <4> QED
        BY <3>2, <4>1 DEF Media!Row
    <3>4. ASSUME NEW role \in PictureRoles, Media!Singular(role)
          PROVE  Media!Holders(role)' \subseteq Media!Holders(role)
      <4>1. ASSUME NEW p \in Media!Holders(role)' PROVE p \in Media!Holders(role)
        <5>1. p \in Pictures /\ mRows'[p] # Nil /\ mRows'[p].role = role
          BY <4>1 DEF Media!Holders, Media!Stored
        <5>2. p \notin Media!Holders(given) \ {id}
          BY <3>3, <3>4, <5>1 DEF Media!Singular
        <5> QED
          BY <3>2, <5>1, <5>2 DEF Media!Holders, Media!Stored
      <4> QED
        BY <4>1
    <3>5. ASSUME NEW role \in PictureRoles, role = given, Media!Singular(role), NEW p \in Media!Holders(role)'
          PROVE  p = id
      <4>1. p \in Pictures /\ mRows'[p] # Nil /\ mRows'[p].role = role
        BY <3>5 DEF Media!Holders, Media!Stored
      <4>2. p \in Media!Holders(role)
        BY <3>4, <3>5
      <4> QED
        BY <3>3, <3>5, <4>1, <4>2 DEF Media!Singular
    <3>6. ASSUME NEW role \in PictureRoles, role # given, Pending(role) PROVE Pending(role)'
      BY <1>5, <3>1, <3>6 DEF Pending, Media!At, Media!Idle
    <3>7. ASSUME NEW role \in PictureRoles, Media!Singular(role)
          PROVE  (Alone(role) \/ Pending(role))'
      <4>1. CASE role = given
        <5>1. \A p, q \in Media!Holders(role)' : p = q
          BY <3>5, <3>7, <4>1
        <5> QED
          BY <5>1 DEF Alone
      <4>2. CASE role # given
        BY <3>4, <3>6, <3>7, <4>2 DEF MediaInv, RolesInv, Alone
      <4> QED
        BY <4>1, <4>2
    <3> QED
      BY <3>7 DEF RolesInv, Media!Singular
  <2> QED
    BY <2>1, <2>2
<1> QED
  BY <1>7, <1>9, <1>10, <1>11, <1>12 DEF MediaInv

LEMMA MediaDeletes ==
  ASSUME MediaInv, NEW r \in Requests, Media!DeleteRow(r)
  PROVE  MediaInv'
<1> DEFINE id == mReqs[r].id
<1>1. /\ mReqs[r] # Nil /\ id \in Pictures /\ mReqs[r].step = "delete"
      /\ mReqs[r] \in [step : {"delete", "destroy"}, id : Pictures]
  <2>1. mReqs[r] # Nil /\ mReqs[r].step = "delete"
    BY DEF Media!DeleteRow, Media!At, Media!Idle
  <2> QED
    BY <2>1, MediaRequests DEF MediaInv, Media!Idle
<1>2. mRows \in [Pictures -> Media!Row \cup {Nil}] /\ Media!TypeOK
  BY DEF MediaInv, Media!TypeOK
<1>3. /\ mRows' = [mRows EXCEPT ![id] = Nil] /\ mFiles' = mFiles /\ mStrays' = mStrays
      /\ mUnanswered' = mUnanswered /\ mUndemoted' = mUndemoted
  BY DEF Media!DeleteRow
<1>4. mRows'[id] = Nil /\ \A p \in Pictures : p # id => mRows'[p] = mRows[p]
  BY <1>1, <1>2, <1>3
<1>5. /\ mReqs' \in [Requests -> Media!Request \cup {Nil}]
      /\ \A o \in Requests : o # r => mReqs'[o] = mReqs[o]
      /\ mReqs'[r] = Nil \/ (mReqs'[r] # Nil /\ mReqs'[r].step = "destroy" /\ mReqs'[r].id = id)
      /\ mRows[id] # Nil => mReqs'[r] # Nil
  <2> DEFINE new == [mReqs[r] EXCEPT !.step = "destroy"]
  <2>1. new \in [step : {"delete", "destroy"}, id : Pictures] /\ new.step = "destroy" /\ new.id = id
    BY <1>1
  <2>2. new \in Media!Request
    BY <2>1 DEF Media!Request
  <2>3. IF mRows[id] # Nil THEN Media!Goes(r, new) ELSE Media!Goes(r, Nil)
    BY DEF Media!DeleteRow, Media!Stored, Media!Done
  <2> HIDE DEF new
  <2> QED
    BY <1>2, <2>1, <2>2, <2>3, MediaGoes, MediaAssumption
<1>6. Media!TypeOK'
  BY <1>1, <1>2, <1>3, <1>5 DEF Media!TypeOK
<1>7. MediaSound(r)'
  BY <1>4, <1>5 DEF MediaSound, Media!At, Media!Idle, Media!Stored
<1>8. \A o \in Requests : MediaSound(o)'
  BY <1>1, <1>3, <1>4, <1>5, <1>7, MediaOthers DEF MediaInv
<1>9. Media!RowsHaveFiles' /\ Media!Described'
  BY <1>3, <1>4 DEF MediaInv, Media!RowsHaveFiles, Media!Described, Media!Stored
<1>10. Media!FilesAreAccountedFor'
  <2>1. mFiles \subseteq Pictures
    BY <1>2 DEF Media!TypeOK
  <2>2. ASSUME NEW p \in mFiles, Media!InHand(p)
        PROVE  Media!InHand(p)'
    BY <1>1, <1>5, <2>2 DEF Media!InHand, Media!Idle
  <2>3. ASSUME NEW p, p = id, mRows[id] # Nil
        PROVE  Media!InHand(p)'
    BY <1>5, <2>3 DEF Media!InHand, Media!Idle
  <2> QED
    BY <1>3, <1>4, <2>1, <2>2, <2>3 DEF MediaInv, Media!FilesAreAccountedFor, Media!Stored
<1>11. RolesInv'
  <2>1. ASSUME NEW role \in PictureRoles, Pending(role) PROVE Pending(role)'
    BY <1>1, <1>3, <1>5, <2>1, PendingStays DEF Media!At
  <2>2. ASSUME NEW role \in PictureRoles PROVE Media!Holders(role)' \subseteq Media!Holders(role)
    BY <1>4 DEF Media!Holders, Media!Stored
  <2> QED
    BY <2>1, <2>2, RolesKept DEF MediaInv
<1> QED
  BY <1>6, <1>8, <1>9, <1>10, <1>11 DEF MediaInv

\* The module's Cardinality is everybody's.
LEMMA MediaCounts == ASSUME NEW S PROVE Media!Cardinality(S) = Cardinality(S)
BY DEF Media!Cardinality, Cardinality

LEMMA MediaStutters == MediaInv /\ UNCHANGED mVars => MediaInv'
<1> SUFFICES ASSUME MediaInv, UNCHANGED mVars PROVE MediaInv'
  OBVIOUS
<1> USE DEF mVars
<1>1. Media!TypeOK'
  BY DEF MediaInv, Media!TypeOK
<1>2. (\A r \in Requests : MediaSound(r))'
  BY DEF MediaInv, MediaSound, Media!At, Media!Idle, Media!Stored
<1>3. (Media!RowsHaveFiles /\ Media!FilesAreAccountedFor /\ Media!Described)'
  BY DEF MediaInv, Media!RowsHaveFiles, Media!FilesAreAccountedFor, Media!Described, Media!InHand,
    Media!Idle, Media!Stored
<1>4. RolesInv'
  BY DEF MediaInv, RolesInv, Alone, Pending, Media!Singular, Media!Holders, Media!At, Media!Idle,
    Media!Stored
<1> QED
  BY <1>1, <1>2, <1>3, <1>4 DEF MediaInv

LEMMA MediaStep == MediaInv /\ Media!Next => MediaInv'
<1> SUFFICES ASSUME MediaInv, Media!Next PROVE MediaInv'
  OBVIOUS
<1>1. PICK r \in Requests :
        \/ \E p \in Pictures, row \in Media!Row, limit \in Limits : Media!Upload(r, p, row, limit)
        \/ Media!Send(r) \/ Media!SendFails(r) \/ Media!Create(r) \/ Media!CreateFails(r)
        \/ \E p \in Pictures, role \in PictureRoles \cup {Nil}, touched \in SUBSET Locales :
             \E filled \in SUBSET touched : Media!Update(r, p, role, touched, filled)
        \/ Media!WriteUpdate(r) \/ Media!DemoteRole(r)
        \/ \E p \in Pictures : Media!Delete(r, p)
        \/ Media!DeleteRow(r) \/ Media!Destroy(r)
        \/ Media!Abandon(r)
  BY DEF Media!Next
<1> QED
  BY <1>1, MediaBegins, MediaAtTheHost, MediaInserts, MediaRewrites, MediaDeletes

LEMMA MediaInvariant == Spec => [](part = "media" => MediaInv)
<1>1. Init => (part = "media" => MediaInv)
  BY DEF Init, MediaInv, MediaSound, RolesInv, Alone, Media!Init, Media!TypeOK, Media!RowsHaveFiles,
    Media!FilesAreAccountedFor, Media!Described, Media!Holders, Media!Stored, Media!At, Media!Idle
<1>2. (part = "media" => MediaInv) /\ [Next]_vars => (part = "media" => MediaInv)'
  BY MediaStep, MediaStutters DEF Next, vars
<1> QED
  BY <1>1, <1>2, PTL DEF Spec

\* A page never shows a picture whose file is gone, through failures and races.
THEOREM RowsKeepTheirFiles == Spec => []RowsHaveFiles
<1>1. (part = "media" => MediaInv) => RowsHaveFiles
  BY DEF MediaInv, RowsHaveFiles
<1> QED
  BY <1>1, MediaInvariant, PTL

\* While the image host answers, no course of requests leaves a file behind.
THEOREM NoFileIsLeft == Spec => []FilesAreAccountedFor
<1>1. (part = "media" => MediaInv) => FilesAreAccountedFor
  BY DEF MediaInv, FilesAreAccountedFor
<1> QED
  BY <1>1, MediaInvariant, PTL

\* Two pictures share a role meant for one only while a demotion is due.
THEOREM OneHolderOrPending == Spec => []OneHolderUnlessPending
<1>1. ASSUME MediaInv, NEW role \in PictureRoles, Alone(role)
      PROVE  Cardinality(Media!Holders(role)) <= 1
  <2> DEFINE S == Media!Holders(role)
  <2>1. CASE S = {}
    BY <2>1, FS_EmptySet
  <2>2. CASE S # {}
    <3>1. PICK p : S = {p}
      BY <1>1, <2>2 DEF Alone
    <3> QED
      BY <3>1, FS_Singleton
  <2> QED
    BY <2>1, <2>2
<1>2. (part = "media" => MediaInv) => OneHolderUnlessPending
  <2>1. ASSUME MediaInv, NEW role \in PictureRoles, Media!Singular(role)
        PROVE  Cardinality(Media!Holders(role)) <= 1 \/ Pending(role)
    BY <1>1, <2>1 DEF MediaInv, RolesInv
  <2>2. MediaInv => Media!OneHolderUnlessPending
    BY <2>1, MediaCounts DEF Media!OneHolderUnlessPending, Pending
  <2> QED
    BY <2>2 DEF OneHolderUnlessPending
<1> QED
  BY <1>2, MediaInvariant, PTL

\* Every picture keeps a description in some language.
THEOREM PicturesAreDescribed == Spec => []Described
<1>1. (part = "media" => MediaInv) => Described
  BY DEF MediaInv, Described
<1> QED
  BY <1>1, MediaInvariant, PTL

------------------------------------------------------------------------------
(* Staff.                                                                  *)

\* Before the index there is nothing at all; a process that means to create a
\* manager was told an address.
StartSound ==
  /\ \/ sIndexed = TRUE
     \/ /\ \A u \in Accounts : ~Staff!Stored(u)
        /\ \A i \in Processes : sProcs[i].at \in {"down", "indexes"}
        /\ \A r \in Requests : Staff!Idle(r)
  /\ \A i \in Processes : sProcs[i].at \in {"count", "create"} => sProcs[i].email \in Addresses

Creates(r) == ~Staff!Idle(r) /\ sReqs[r].op = "create"

\* A handler creates under an id that is nobody's, and does not suspend its own
\* manager.
StaffSound ==
  /\ \A r \in Requests : Creates(r) => ~Staff!Stored(sReqs[r].id)
  /\ \A r, q \in Requests : r # q /\ Creates(r) /\ Creates(q) => sReqs[r].id # sReqs[q].id
  /\ \A r \in Requests : ~Staff!Idle(r) /\ sReqs[r].op = "status" =>
       sReqs[r].actor # sReqs[r].id \/ sReqs[r].status # "suspended"

StaffInv == Staff!TypeOK /\ StartSound /\ StaffSound /\ Staff!OneLoginPerEmail

LEMMA StaffRequests ==
  ASSUME Staff!TypeOK, NEW r \in Requests, ~Staff!Idle(r)
  PROVE  /\ sReqs[r] # Nil /\ sReqs[r].op \in {"status", "create"}
         /\ sReqs[r].actor \in Accounts /\ sReqs[r].id \in Accounts
         /\ sReqs[r].op = "status" => sReqs[r].status \in {"active", "suspended"}
         /\ sReqs[r].op = "create" => sReqs[r].account \in Staff!Account
<1>1. sReqs[r] \in Staff!Request /\ sReqs[r] # Nil
  BY DEF Staff!TypeOK, Staff!Idle
<1> QED
  BY <1>1 DEF Staff!Request

\* An account comes into being, or a duplicate changes nothing.
LEMMA StaffCreates ==
  ASSUME StaffInv, sIndexed, NEW u \in Accounts, ~Staff!Stored(u), NEW account \in Staff!Account,
         Staff!Create(u, account)
  PROVE  /\ sUsers' \in [Accounts -> Staff!Account \cup {Nil}]
         /\ \A v \in Accounts : v # u => sUsers'[v] = sUsers[v]
         /\ sUsers'[u] \in {Nil, account}
         /\ Staff!OneLoginPerEmail'
         /\ Staff!ActiveManagers \subseteq Staff!ActiveManagers'
<1>1. sUsers \in [Accounts -> Staff!Account \cup {Nil}] /\ sUsers[u] = Nil
  BY DEF StaffInv, Staff!TypeOK, Staff!Stored
<1>2. /\ sUsers' \in [Accounts -> Staff!Account \cup {Nil}]
      /\ \A v \in Accounts : v # u => sUsers'[v] = sUsers[v]
      /\ \/ sUsers'[u] = Nil
         \/ /\ sUsers'[u] = account
            /\ \A v \in Accounts : sUsers[v] # Nil => sUsers[v].email # account.email
  BY <1>1 DEF Staff!Create, Staff!KeyFree, Staff!Stored
<1>3. Staff!OneLoginPerEmail'
  <2> SUFFICES ASSUME NEW v \in Accounts, NEW w \in Accounts, sUsers'[v] # Nil, sUsers'[w] # Nil,
                      sUsers'[v].email = sUsers'[w].email
               PROVE  v = w
    BY DEF Staff!OneLoginPerEmail, Staff!Stored
  <2>1. \A x, y \in Accounts : sUsers[x] # Nil /\ sUsers[y] # Nil /\ sUsers[x].email = sUsers[y].email => x = y
    BY DEF StaffInv, Staff!OneLoginPerEmail, Staff!Stored
  <2> QED
    BY <1>2, <2>1
<1>4. Staff!ActiveManagers \subseteq Staff!ActiveManagers'
  BY <1>1, <1>2 DEF Staff!ActiveManagers, Staff!Managers, Staff!Stored
<1> QED
  BY <1>2, <1>3, <1>4

\* With the rows as they are, what they promise is kept.
LEMMA StaffRowsKept ==
  ASSUME Staff!OneLoginPerEmail, sUsers' = sUsers
  PROVE  /\ Staff!OneLoginPerEmail'
         /\ Staff!Managers' = Staff!Managers /\ Staff!ActiveManagers' = Staff!ActiveManagers
BY DEF Staff!OneLoginPerEmail, Staff!Managers, Staff!ActiveManagers, Staff!Stored

\* A process starts, counts or stops.
LEMMA StaffStarts ==
  ASSUME StaffInv, NEW i \in Processes,
         \/ \E email \in Addresses \cup {Nil} : Staff!Start(i, email)
         \/ Staff!EnsureIndexes(i) \/ Staff!CountManagers(i) \/ Staff!Stop(i)
  PROVE  StaffInv' /\ Staff!ByCrossing /\ Staff!Stays
<1>1. sUsers' = sUsers /\ sTokens' = sTokens /\ sReqs' = sReqs
  BY DEF Staff!Start, Staff!EnsureIndexes, Staff!CountManagers, Staff!Stop
<1>2. sProcs \in [Processes -> Staff!Process] /\ sIndexed \in BOOLEAN
  BY DEF StaffInv, Staff!TypeOK
<1>3. sProcs[i].at \in {"down", "indexes", "count", "create", "serving"} /\ sProcs[i].email \in Addresses \cup {Nil}
  BY <1>2 DEF Staff!Process
<1>4. PICK new \in Staff!Process :
        /\ sProcs' = [sProcs EXCEPT ![i] = new]
        /\ \/ new.at \in {"down", "indexes"} /\ sIndexed' = sIndexed
           \/ new.at \in {"count", "serving"} /\ sIndexed' = TRUE
              /\ (new.at = "count" => new.email \in Addresses)
           \/ sProcs[i].at = "count" /\ new.at \in {"create", "serving"} /\ new.email = sProcs[i].email
              /\ sIndexed' = sIndexed /\ (new.at = "create" => Staff!Managers = {})
  <2>1. ASSUME NEW email \in Addresses \cup {Nil}, Staff!Start(i, email)
        PROVE  /\ [at |-> "indexes", email |-> email] \in Staff!Process
               /\ sProcs' = [sProcs EXCEPT ![i] = [at |-> "indexes", email |-> email]]
               /\ sIndexed' = sIndexed
    BY <2>1 DEF Staff!Start, Staff!Process
  <2>2. ASSUME Staff!Stop(i)
        PROVE  /\ Staff!Down \in Staff!Process /\ Staff!Down.at = "down"
               /\ sProcs' = [sProcs EXCEPT ![i] = Staff!Down]
               /\ sIndexed' = sIndexed
    BY <2>2 DEF Staff!Stop, Staff!Process, Staff!Down
  <2>3. ASSUME NEW at \in {"down", "indexes", "count", "create", "serving"}, Staff!Moves(i, at)
        PROVE  /\ [sProcs[i] EXCEPT !.at = at] \in Staff!Process
               /\ [sProcs[i] EXCEPT !.at = at].at = at
               /\ [sProcs[i] EXCEPT !.at = at].email = sProcs[i].email
               /\ sProcs' = [sProcs EXCEPT ![i] = [sProcs[i] EXCEPT !.at = at]]
    BY <1>2, <2>3 DEF Staff!Moves, Staff!Process
  <2>4. CASE Staff!EnsureIndexes(i)
    BY <1>3, <2>3, <2>4 DEF Staff!EnsureIndexes
  <2>5. CASE Staff!CountManagers(i)
    BY <1>3, <2>3, <2>5 DEF Staff!CountManagers
  <2> QED
    BY <2>1, <2>2, <2>4, <2>5
<1>5. /\ sProcs' \in [Processes -> Staff!Process]
      /\ sProcs'[i] = new /\ \A j \in Processes : j # i => sProcs'[j] = sProcs[j]
  BY <1>2, <1>4
<1>6. sIndexed' \in BOOLEAN /\ (sIndexed = TRUE => sIndexed' = TRUE)
  BY <1>2, <1>4
<1>7. Staff!TypeOK'
  BY <1>1, <1>5, <1>6 DEF StaffInv, Staff!TypeOK
<1>8. StartSound'
  <2>1. \A j \in Processes : sProcs'[j].at \in {"count", "create"} => sProcs'[j].email \in Addresses
    BY <1>4, <1>5 DEF StaffInv, StartSound
  <2>2. CASE sIndexed' = TRUE
    BY <2>1, <2>2 DEF StartSound
  <2>3. CASE sIndexed' # TRUE
    <3>1. /\ \A u \in Accounts : ~Staff!Stored(u)
          /\ \A j \in Processes : sProcs[j].at \in {"down", "indexes"}
          /\ \A r \in Requests : Staff!Idle(r)
      BY <1>6, <2>3 DEF StaffInv, StartSound
    <3>2. \A j \in Processes : sProcs'[j].at \in {"down", "indexes"}
      BY <1>4, <1>5, <2>3, <3>1
    <3> QED
      BY <1>1, <2>1, <3>1, <3>2 DEF StartSound, Staff!Stored, Staff!Idle
  <2> QED
    BY <2>2, <2>3
<1>9. StaffSound'
  BY <1>1 DEF StaffInv, StaffSound, Creates, Staff!Idle, Staff!Stored
<1>10. /\ Staff!OneLoginPerEmail'
       /\ Staff!Managers' = Staff!Managers /\ Staff!ActiveManagers' = Staff!ActiveManagers
  BY <1>1, StaffRowsKept DEF StaffInv
<1>11. Staff!Stays
  BY <1>1, <1>4, <1>5, <1>10 DEF Staff!Stays, Staff!LockedOut, Staff!Idle
<1> QED
  BY <1>7, <1>8, <1>9, <1>10, <1>11 DEF StaffInv, Staff!ByCrossing

\* The first manager, or a customer.
LEMMA StaffJoins ==
  ASSUME StaffInv, NEW u \in Accounts,
         \/ \E i \in Processes : Staff!CreateBootstrapManager(i, u)
         \/ \E email \in Addresses : Staff!Register(u, email)
  PROVE  StaffInv' /\ Staff!ByCrossing /\ Staff!Stays
<1>1. /\ sIndexed' = sIndexed /\ sTokens' = sTokens /\ sReqs' = sReqs
      /\ ~Staff!Stored(u) /\ \A q \in Requests : ~Staff!Idle(q) => sReqs[q].id # u
  BY DEF Staff!CreateBootstrapManager, Staff!Register, Staff!Fresh
<1>2. sProcs \in [Processes -> Staff!Process]
  BY DEF StaffInv, Staff!TypeOK
<1>3. sIndexed = TRUE
  BY DEF StaffInv, StartSound, Staff!CreateBootstrapManager, Staff!Register, Staff!Serving
<1>4. PICK account \in Staff!Account :
        /\ Staff!Create(u, account)
        /\ account.role = "customer" \/ \E i \in Processes : sProcs[i].at = "create"
  <2>1. ASSUME NEW i \in Processes, Staff!CreateBootstrapManager(i, u)
        PROVE  /\ [role |-> "manager", email |-> sProcs[i].email, status |-> "active"] \in Staff!Account
               /\ Staff!Create(u, [role |-> "manager", email |-> sProcs[i].email, status |-> "active"])
               /\ sProcs[i].at = "create"
    BY <2>1 DEF StaffInv, StartSound, Staff!CreateBootstrapManager, Staff!Account, Staff!Roles
  <2>2. ASSUME NEW email \in Addresses, Staff!Register(u, email)
        PROVE  /\ [role |-> "customer", email |-> email, status |-> "active"] \in Staff!Account
               /\ Staff!Create(u, [role |-> "customer", email |-> email, status |-> "active"])
    BY <2>2 DEF Staff!Register, Staff!Account, Staff!Roles
  <2> QED
    BY <2>1, <2>2
<1>5. /\ sUsers' \in [Accounts -> Staff!Account \cup {Nil}]
      /\ \A v \in Accounts : v # u => sUsers'[v] = sUsers[v]
      /\ sUsers'[u] \in {Nil, account}
      /\ Staff!OneLoginPerEmail'
      /\ Staff!ActiveManagers \subseteq Staff!ActiveManagers'
  BY <1>1, <1>3, <1>4, StaffCreates
<1>6. /\ sProcs' \in [Processes -> Staff!Process]
      /\ \A j \in Processes : sProcs'[j] = sProcs[j] \/ sProcs'[j].at = "serving"
  <2>1. CASE sProcs' = sProcs
    BY <1>2, <2>1
  <2>2. ASSUME NEW i \in Processes, Staff!Moves(i, "serving")
        PROVE  /\ sProcs' \in [Processes -> Staff!Process]
               /\ \A j \in Processes : sProcs'[j] = sProcs[j] \/ sProcs'[j].at = "serving"
    BY <1>2, <2>2 DEF Staff!Moves, Staff!Process
  <2> QED
    BY <2>1, <2>2 DEF Staff!CreateBootstrapManager, Staff!Register
<1>7. Staff!TypeOK'
  BY <1>1, <1>5, <1>6 DEF StaffInv, Staff!TypeOK
<1>8. StartSound'
  BY <1>1, <1>3, <1>6 DEF StaffInv, StartSound
<1>9. StaffSound'
  <2>1. \A r \in Requests : ~Staff!Idle(r) => sReqs[r].id \in Accounts
    BY StaffRequests DEF StaffInv
  <2> QED
    BY <1>1, <1>5, <2>1 DEF StaffInv, StaffSound, Creates, Staff!Idle, Staff!Stored
<1>10. Staff!Stays
  <2> SUFFICES ASSUME Staff!LockedOut PROVE Staff!LockedOut'
    BY DEF Staff!Stays
  <2>1. account.role = "customer" /\ account # Nil
    BY <1>4, StaffAssumption DEF Staff!LockedOut
  <2>2. Staff!Managers' = Staff!Managers
    BY <1>1, <1>5, <2>1 DEF Staff!Managers, Staff!Stored
  <2>3. Staff!ActiveManagers' = Staff!ActiveManagers
    BY <1>1, <1>5, <2>1 DEF Staff!ActiveManagers, Staff!Managers, Staff!Stored
  <2> QED
    BY <1>1, <1>6, <2>2, <2>3 DEF Staff!LockedOut, Staff!Idle
<1> QED
  BY <1>5, <1>7, <1>8, <1>9, <1>10 DEF StaffInv, Staff!ByCrossing

\* A token is issued or expires.
LEMMA StaffTokens ==
  ASSUME StaffInv, NEW u \in Accounts, Staff!Login(u) \/ Staff!Expire(u)
  PROVE  StaffInv' /\ Staff!ByCrossing /\ Staff!Stays
<1>1. /\ sUsers' = sUsers /\ sIndexed' = sIndexed /\ sProcs' = sProcs /\ sReqs' = sReqs
      /\ sTokens' \subseteq sTokens \cup {u}
  BY DEF Staff!Login, Staff!Expire
<1>2. Staff!TypeOK'
  BY <1>1 DEF StaffInv, Staff!TypeOK
<1>3. StartSound' /\ StaffSound'
  BY <1>1 DEF StaffInv, StartSound, StaffSound, Creates, Staff!Idle, Staff!Stored
<1>4. /\ Staff!OneLoginPerEmail'
      /\ Staff!Managers' = Staff!Managers /\ Staff!ActiveManagers' = Staff!ActiveManagers
  BY <1>1, StaffRowsKept DEF StaffInv
<1> QED
  BY <1>1, <1>2, <1>3, <1>4 DEF StaffInv, Staff!ByCrossing, Staff!Stays, Staff!LockedOut, Staff!Idle

\* A manager's request is admitted.
LEMMA StaffBegins ==
  ASSUME StaffInv, NEW r \in Requests, NEW a \in Accounts, NEW u \in Accounts,
         \/ \E status \in {"active", "suspended"} : Staff!BeginSetStatus(r, a, u, status)
         \/ \E role \in Staff!Roles, email \in Addresses : Staff!BeginCreate(r, a, u, role, email)
  PROVE  StaffInv' /\ Staff!ByCrossing /\ Staff!Stays
<1>1. /\ sUsers' = sUsers /\ sIndexed' = sIndexed /\ sProcs' = sProcs /\ sTokens' = sTokens
      /\ Staff!Idle(r) /\ Staff!Serving /\ a \in Staff!ActiveManagers
  BY DEF Staff!BeginSetStatus, Staff!BeginCreate, Staff!RequireManager
<1>2. sReqs \in [Requests -> Staff!Request \cup {Nil}]
  BY DEF StaffInv, Staff!TypeOK
<1>3. PICK new \in Staff!Request :
        /\ sReqs' = [sReqs EXCEPT ![r] = new]
        /\ \/ new.op = "status" /\ (new.actor # new.id \/ new.status # "suspended")
           \/ new.op = "create" /\ new.id = u /\ Staff!Fresh(u)
  <2>1. ASSUME NEW status \in {"active", "suspended"}, Staff!BeginSetStatus(r, a, u, status)
        PROVE  \E new \in Staff!Request :
                 /\ sReqs' = [sReqs EXCEPT ![r] = new]
                 /\ new.op = "status" /\ (new.actor # new.id \/ new.status # "suspended")
    <3> DEFINE new == [actor |-> a, op |-> "status", id |-> u, status |-> status]
    <3>1. /\ new \in Staff!Request /\ new.op = "status"
          /\ new.actor = a /\ new.id = u /\ new.status = status
      BY DEF Staff!Request
    <3>2. sReqs' = [sReqs EXCEPT ![r] = new] /\ (a # u \/ status # "suspended")
      BY <2>1 DEF Staff!BeginSetStatus, Staff!MaySetStatus
    <3> HIDE DEF new
    <3> QED
      BY <3>1, <3>2
  <2>2. ASSUME NEW role \in Staff!Roles, NEW email \in Addresses, Staff!BeginCreate(r, a, u, role, email)
        PROVE  \E new \in Staff!Request :
                 /\ sReqs' = [sReqs EXCEPT ![r] = new]
                 /\ new.op = "create" /\ new.id = u /\ Staff!Fresh(u)
    <3> DEFINE new == [actor |-> a, op |-> "create", id |-> u,
                       account |-> [role |-> role, email |-> email, status |-> "active"]]
    <3>1. new \in Staff!Request /\ new.op = "create" /\ new.id = u
      BY DEF Staff!Request, Staff!Account
    <3>2. sReqs' = [sReqs EXCEPT ![r] = new] /\ Staff!Fresh(u)
      BY <2>2 DEF Staff!BeginCreate
    <3> HIDE DEF new
    <3> QED
      BY <3>1, <3>2
  <2> QED
    BY <2>1, <2>2
<1>4. /\ sReqs' \in [Requests -> Staff!Request \cup {Nil}]
      /\ sReqs'[r] = new /\ \A q \in Requests : q # r => sReqs'[q] = sReqs[q]
  BY <1>2, <1>3
<1>5. Staff!TypeOK'
  BY <1>1, <1>4 DEF StaffInv, Staff!TypeOK
<1>6. StartSound'
  <2>1. sIndexed = TRUE
    BY <1>1 DEF StaffInv, StartSound, Staff!Serving
  <2> QED
    BY <1>1, <2>1 DEF StaffInv, StartSound
<1>7. StaffSound'
  BY <1>1, <1>3, <1>4 DEF StaffInv, StaffSound, Creates, Staff!Idle, Staff!Stored, Staff!Fresh
<1>8. /\ Staff!OneLoginPerEmail'
      /\ Staff!Managers' = Staff!Managers /\ Staff!ActiveManagers' = Staff!ActiveManagers
  BY <1>1, StaffRowsKept DEF StaffInv
<1>9. Staff!Stays
  BY <1>1 DEF Staff!Stays, Staff!LockedOut
<1> QED
  BY <1>5, <1>6, <1>7, <1>8, <1>9 DEF StaffInv, Staff!ByCrossing

\* A request writes, or comes to nothing.
LEMMA StaffEnds ==
  ASSUME StaffInv, NEW r \in Requests, Staff!Write(r) \/ Staff!Abandon(r)
  PROVE  StaffInv' /\ Staff!ByCrossing /\ Staff!Stays
<1> DEFINE id == sReqs[r].id
<1>1. /\ sIndexed' = sIndexed /\ sProcs' = sProcs /\ sTokens' = sTokens
      /\ ~Staff!Idle(r) /\ sReqs' = [sReqs EXCEPT ![r] = Nil]
  BY DEF Staff!Write, Staff!Abandon
<1>2. /\ sReqs[r] # Nil /\ sReqs[r].op \in {"status", "create"}
      /\ sReqs[r].actor \in Accounts /\ id \in Accounts
      /\ sReqs[r].op = "status" => sReqs[r].status \in {"active", "suspended"}
      /\ sReqs[r].op = "create" => sReqs[r].account \in Staff!Account
  BY <1>1, StaffRequests DEF StaffInv
<1>3. /\ sReqs' \in [Requests -> Staff!Request \cup {Nil}]
      /\ sReqs'[r] = Nil /\ \A q \in Requests : q # r => sReqs'[q] = sReqs[q]
  BY <1>1 DEF StaffInv, Staff!TypeOK
<1>4. sIndexed = TRUE
  BY <1>1 DEF StaffInv, StartSound
<1>5. sUsers \in [Accounts -> Staff!Account \cup {Nil}]
  BY DEF StaffInv, Staff!TypeOK
<1>6. Staff!Stays
  BY <1>1 DEF Staff!Stays, Staff!LockedOut
<1>7. StartSound'
  BY <1>1, <1>4 DEF StaffInv, StartSound
<1>8. ASSUME sUsers' \in [Accounts -> Staff!Account \cup {Nil}],
             \A v \in Accounts : sUsers'[v] # Nil =>
               sUsers[v] # Nil \/ (v = id /\ sReqs[r].op = "create"),
             Staff!OneLoginPerEmail'
      PROVE  StaffInv'
  <2>1. Staff!TypeOK'
    BY <1>1, <1>3, <1>8 DEF StaffInv, Staff!TypeOK
  <2>2. \A q \in Requests : ~Staff!Idle(q) => sReqs[q].id \in Accounts
    BY StaffRequests DEF StaffInv
  <2>3. StaffSound'
    BY <1>1, <1>3, <1>8, <2>2 DEF StaffInv, StaffSound, Creates, Staff!Idle, Staff!Stored
  <2> QED
    BY <1>7, <1>8, <2>1, <2>3 DEF StaffInv
<1>9. CASE sUsers' = sUsers
  BY <1>5, <1>6, <1>8, <1>9, StaffRowsKept DEF StaffInv, Staff!ByCrossing
<1>10. CASE sReqs[r].op = "create" /\ Staff!Write(r)
  <2>1. Staff!Create(id, sReqs[r].account)
    BY <1>10 DEF Staff!Write
  <2>2. ~Staff!Stored(id)
    BY <1>1, <1>10 DEF StaffInv, StaffSound, Creates
  <2>3. /\ sUsers' \in [Accounts -> Staff!Account \cup {Nil}]
        /\ \A v \in Accounts : v # id => sUsers'[v] = sUsers[v]
        /\ Staff!OneLoginPerEmail'
        /\ Staff!ActiveManagers \subseteq Staff!ActiveManagers'
    BY <1>2, <1>4, <1>10, <2>1, <2>2, StaffCreates
  <2> QED
    BY <1>6, <1>8, <1>10, <2>3 DEF Staff!ByCrossing
<1>11. CASE sReqs[r].op = "status" /\ Staff!Stored(id)
              /\ sUsers' = [sUsers EXCEPT ![id].status = sReqs[r].status]
  <2>1. sUsers[id] \in Staff!Account /\ sUsers[id] # Nil
    BY <1>2, <1>5, <1>11 DEF Staff!Stored
  <2>2. /\ sUsers'[id] \in Staff!Account /\ sUsers'[id].status = sReqs[r].status
        /\ sUsers'[id].email = sUsers[id].email /\ sUsers'[id].role = sUsers[id].role
        /\ \A v \in Accounts : v # id => sUsers'[v] = sUsers[v]
        /\ sUsers' \in [Accounts -> Staff!Account \cup {Nil}]
    BY <1>2, <1>5, <1>11, <2>1 DEF Staff!Account
  <2>3. Staff!OneLoginPerEmail'
    BY <1>2, <2>1, <2>2 DEF StaffInv, Staff!OneLoginPerEmail, Staff!Stored
  <2>4. Staff!ByCrossing
    <3> SUFFICES ASSUME Staff!ActiveManagers # {}, Staff!ActiveManagers' = {},
                        sReqs[r].actor \in Staff!ActiveManagers
                 PROVE  FALSE
      BY <1>1, <1>3 DEF Staff!ByCrossing
    <3>1. sReqs[r].actor # id \/ sReqs[r].status # "suspended"
      BY <1>1, <1>11 DEF StaffInv, StaffSound
    <3>2. ASSUME sReqs[r].actor # id PROVE FALSE
      BY <1>2, <2>2, <3>2 DEF Staff!ActiveManagers, Staff!Managers, Staff!Stored
    <3>3. ASSUME sReqs[r].actor = id, sReqs[r].status = "active" PROVE FALSE
      BY <1>2, <2>1, <2>2, <3>3, StaffAssumption DEF Staff!ActiveManagers, Staff!Managers, Staff!Stored
    <3> QED
      BY <1>2, <1>11, <3>1, <3>2, <3>3
  <2> QED
    BY <1>6, <1>8, <2>1, <2>2, <2>3, <2>4
<1> QED
  BY <1>2, <1>9, <1>10, <1>11 DEF Staff!Write, Staff!Abandon

LEMMA StaffStutters == StaffInv /\ UNCHANGED sVars => StaffInv'
BY DEF sVars, StaffInv, Staff!TypeOK, StartSound, StaffSound, Creates, Staff!OneLoginPerEmail,
  Staff!Idle, Staff!Stored

LEMMA StaffStep == StaffInv /\ Staff!Next => StaffInv' /\ Staff!ByCrossing /\ Staff!Stays
BY StaffStarts, StaffJoins, StaffTokens, StaffBegins, StaffEnds DEF Staff!Next

LEMMA StaffInvariant == Spec => [](part = "staff" => StaffInv)
<1>1. Init => (part = "staff" => StaffInv)
  <2>1. Staff!Init => Staff!TypeOK
    <3>1. Staff!Down \in Staff!Process
      BY DEF Staff!Down, Staff!Process
    <3> QED
      BY <3>1 DEF Staff!Init, Staff!TypeOK
  <2>2. Staff!Init => StartSound
    BY DEF StartSound, Staff!Init, Staff!Idle, Staff!Stored, Staff!Down
  <2>3. Staff!Init => StaffSound /\ Staff!OneLoginPerEmail
    BY DEF StaffSound, Creates, Staff!OneLoginPerEmail, Staff!Init, Staff!Idle, Staff!Stored
  <2> QED
    BY <2>1, <2>2, <2>3 DEF Init, StaffInv
<1>2. (part = "staff" => StaffInv) /\ [Next]_vars => (part = "staff" => StaffInv)'
  BY StaffStep, StaffStutters DEF Next, vars
<1> QED
  BY <1>1, <1>2, PTL DEF Spec

\* Only two suspensions that cross lock a business out.
THEOREM OnlyCrossingLocksOut == Spec => LockedOutOnlyByCrossing
<1>1. (part = "staff" => StaffInv) /\ [Next]_vars => [part = "staff" => Staff!ByCrossing]_vars
  BY StaffStep DEF Next
<1> QED
  BY <1>1, StaffInvariant, PTL DEF Spec, LockedOutOnlyByCrossing

\* A lock-out holds against every token and every restart.
THEOREM LockOutStays == Spec => StaysLockedOut
<1>1. (part = "staff" => StaffInv) /\ [Next]_vars => [part = "staff" => Staff!Stays]_vars
  BY StaffStep DEF Next
<1> QED
  BY <1>1, StaffInvariant, PTL DEF Spec, StaysLockedOut

------------------------------------------------------------------------------
(* RateLimiter.                                                            *)

\* The requests let through of those that arrived from s to e.
Served(s, e) == {g \in rGranted : g[1] \in s .. e}

Spent(s, e) == Cost * Cardinality(Served(s, e))

\* A request waits for the lock no longer than Stall.
ArrivedLately == \A r \in Requests : rArrived[r] # Nil =>
  rArrived[r] <= rNow /\ rNow - rArrived[r] <= Stall

\* A bucket in debt is one that has met a late stamp: it is out of debt by now, and
\* it never was further in debt than what the delay refills.
DebtIsPaid == rBucket # Nil =>
  /\ rBucket.last <= rNow
  /\ rBucket.tokens + Rate * (rNow - rBucket.last) >= 0
  /\ rBucket.tokens + Rate * Stall >= 0

\* What was spent from s on and what is left came of the burst and the refill
\* since s; when the bucket is forgotten, the refill alone has paid for it, by the
\* clock of every request that will find it gone.
Balanced ==
  /\ rBucket # Nil => \A s \in 0 .. Horizon : Served(s, Horizon) # {} =>
       Spent(s, Horizon) + rBucket.tokens <= Limiter!Capacity + Rate * (rBucket.last - s)
  /\ rBucket = Nil => \A s \in 0 .. Horizon : Served(s, Horizon) # {} =>
       /\ Spent(s, Horizon) <= Rate * (rNow - s)
       /\ \A r \in Requests : rArrived[r] # Nil => Spent(s, Horizon) <= Rate * (rArrived[r] - s)

InRate == \A s, e \in 0 .. Horizon : s <= e => Spent(s, e) <= Limiter!Capacity + Rate * (e - s)

LimiterInv == Limiter!TypeOK /\ ArrivedLately /\ DebtIsPaid /\ Balanced /\ InRate

LEMMA RateGrows ==
  ASSUME NEW a \in Int, NEW b \in Int, a <= b
  PROVE  Rate * a \in Int /\ Rate * b \in Int /\ Rate * a <= Rate * b
<1>1. Rate \in Nat
  BY LimiterAssumption
<1>2. b - a \in Nat /\ b = a + (b - a)
  OBVIOUS
<1>3. Rate * (b - a) >= 0
  BY <1>1, <1>2
<1>4. Rate * b = Rate * a + Rate * (b - a)
  BY <1>1
<1> QED
  BY <1>1, <1>3, <1>4

\* The stamps and the counts are numbers.
LEMMA ServedCounts ==
  ASSUME Limiter!TypeOK, NEW s \in Int, NEW e \in Int
  PROVE  /\ IsFiniteSet(rGranted) /\ IsFiniteSet(Served(s, e))
         /\ Cardinality(Served(s, e)) \in Nat /\ Spent(s, e) \in Int
         /\ Served(s, e) = {} => Spent(s, e) = 0
<1>1. IsFiniteSet(0 .. Horizon) /\ IsFiniteSet(1 .. MaxGrants)
  BY LimiterAssumption, FS_Interval
<1>2. IsFiniteSet((0 .. Horizon) \X (1 .. MaxGrants))
  BY <1>1, FS_Product
<1>3. IsFiniteSet(rGranted)
  BY <1>2, FS_Subset DEF Limiter!TypeOK
<1>4. IsFiniteSet(Served(s, e))
  BY <1>3, FS_Subset DEF Served
<1>5. Cardinality(Served(s, e)) \in Nat
  BY <1>4, FS_CardinalityType
<1>6. Spent(s, e) \in Int
  BY <1>5, LimiterAssumption DEF Spent
<1>7. Served(s, e) = {} => Spent(s, e) = 0
  BY <1>5, FS_EmptySet, LimiterAssumption DEF Spent
<1> QED
  BY <1>3, <1>4, <1>5, <1>6, <1>7

\* A longer stretch holds more.
LEMMA ServedGrows ==
  ASSUME Limiter!TypeOK, NEW s \in Int, NEW e \in Int, NEW f \in Int, e <= f
  PROVE  /\ Served(s, e) \subseteq Served(s, f) /\ Spent(s, e) <= Spent(s, f)
<1>1. Served(s, e) \subseteq Served(s, f)
  BY DEF Served, Limiter!TypeOK
<1>2. Cardinality(Served(s, e)) <= Cardinality(Served(s, f))
  BY <1>1, ServedCounts, FS_Subset
<1>3. /\ Cardinality(Served(s, e)) \in Nat /\ Cardinality(Served(s, f)) \in Nat
      /\ Cost \in Nat
  BY ServedCounts, LimiterAssumption
<1> DEFINE c == Cardinality(Served(s, e))
           d == Cardinality(Served(s, f))
<1>4. Cost * (d - c) >= 0
  BY <1>2, <1>3
<1>5. Cost * d = Cost * c + Cost * (d - c)
  BY <1>3
<1> QED
  BY <1>1, <1>3, <1>4, <1>5 DEF Spent

\* One more request is let through, and counts where its stamp is.
LEMMA GrantCounts ==
  ASSUME Limiter!TypeOK, NEW at \in 0 .. Horizon, Limiter!Grant(at)
  PROVE  /\ rGranted' \subseteq (0 .. Horizon) \X (1 .. MaxGrants)
         /\ \A s, e \in 0 .. Horizon :
              /\ Spent(s, e)' = Spent(s, e) + (IF at \in s .. e THEN Cost ELSE 0)
              /\ at \notin s .. e => Served(s, e)' = Served(s, e)
<1>1. PICK n \in 1 .. MaxGrants : <<at, n>> \notin rGranted /\ rGranted' = rGranted \cup {<<at, n>>}
  BY DEF Limiter!Grant
<1>2. rGranted' \subseteq (0 .. Horizon) \X (1 .. MaxGrants)
  BY <1>1 DEF Limiter!TypeOK
<1>3. ASSUME NEW s \in 0 .. Horizon, NEW e \in 0 .. Horizon
      PROVE  /\ Spent(s, e)' = Spent(s, e) + (IF at \in s .. e THEN Cost ELSE 0)
             /\ at \notin s .. e => Served(s, e)' = Served(s, e)
  <2> s \in Int /\ e \in Int
    OBVIOUS
  <2>1. /\ IsFiniteSet(Served(s, e)) /\ Cardinality(Served(s, e)) \in Nat /\ Cost \in Nat
        /\ Spent(s, e) \in Int
    <3>1. /\ IsFiniteSet(Served(s, e)) /\ Cardinality(Served(s, e)) \in Nat /\ Spent(s, e) \in Int
      BY ServedCounts
    <3> QED
      BY <3>1, LimiterAssumption
  <2>2. CASE at \notin s .. e
    <3>1. Served(s, e)' = Served(s, e)
      BY <1>1, <2>2 DEF Served
    <3> QED
      BY <2>1, <2>2, <3>1 DEF Spent
  <2>3. CASE at \in s .. e
    <3>1. Served(s, e)' = Served(s, e) \cup {<<at, n>>}
      BY <1>1, <2>3 DEF Served
    <3>2. <<at, n>> \notin Served(s, e)
      BY <1>1 DEF Served
    <3>3. Cardinality(Served(s, e)') = Cardinality(Served(s, e)) + 1
      BY <2>1, <3>1, <3>2, FS_AddElement
    <3>4. Cost * (Cardinality(Served(s, e)) + 1) = Cost * Cardinality(Served(s, e)) + Cost
      BY <2>1
    <3> QED
      BY <2>1, <2>3, <3>3, <3>4 DEF Spent
  <2> QED
    BY <2>2, <2>3
<1> QED
  BY <1>2, <1>3

\* What holds of the numbers of a bucket.
LEMMA LimiterNumbers ==
  ASSUME Limiter!TypeOK
  PROVE  /\ Rate \in Nat /\ Cost \in Nat /\ Horizon \in Nat /\ Stall \in Nat /\ IdleTime \in Nat
         /\ Limiter!Capacity \in Int /\ Limiter!Capacity >= Cost
         /\ Limiter!Capacity <= Rate * (IdleTime + 1 - 2 * Stall)
         /\ rNow \in Int
         /\ rBucket # Nil => rBucket.tokens \in Int /\ rBucket.last \in Int
         /\ \A r \in Requests : rArrived[r] # Nil => rArrived[r] \in 0 .. Horizon
<1>1. Burst * Cost >= Cost
  <2>1. Burst \in Nat /\ Burst >= 1 /\ Cost \in Nat
    BY LimiterAssumption
  <2>2. (Burst - 1) * Cost >= 0
    BY <2>1
  <2>3. Burst * Cost = (Burst - 1) * Cost + Cost
    BY <2>1
  <2> QED
    BY <2>1, <2>2, <2>3
<1>2. Burst * Cost \in Int
  BY LimiterAssumption
<1> QED
  BY <1>1, <1>2, LimiterAssumption DEF Limiter!TypeOK, Limiter!Capacity

\* While nothing is let through, what was stays counted.
LEMMA NoGrantCounts ==
  ASSUME rGranted' = rGranted
  PROVE  /\ \A s, e : Served(s, e)' = Served(s, e) /\ Spent(s, e)' = Spent(s, e)
         /\ InRate => InRate'
BY DEF Served, Spent, InRate

LEMMA Ticks ==
  ASSUME LimiterInv, Limiter!Tick
  PROVE  LimiterInv'
<1>1. /\ rNow < Horizon /\ rNow' = rNow + 1
      /\ \A r \in Requests : rArrived[r] # Nil => rNow - rArrived[r] < Stall
      /\ rBucket' = rBucket /\ rArrived' = rArrived /\ rGranted' = rGranted
  BY DEF Limiter!Tick
<1>2. /\ Rate \in Nat /\ Horizon \in Nat /\ Stall \in Nat /\ rNow \in Int
      /\ rBucket # Nil => rBucket.tokens \in Int /\ rBucket.last \in Int
      /\ \A r \in Requests : rArrived[r] # Nil => rArrived[r] \in 0 .. Horizon
  BY LimiterNumbers DEF LimiterInv
<1>3. Limiter!TypeOK'
  BY <1>1, <1>2 DEF LimiterInv, Limiter!TypeOK
<1>4. ArrivedLately'
  <2>1. \A r \in Requests : rArrived[r] # Nil => rArrived[r] <= rNow + 1 /\ rNow + 1 - rArrived[r] <= Stall
    BY <1>1, <1>2 DEF LimiterInv, ArrivedLately
  <2> QED
    BY <1>1, <1>2, <2>1 DEF ArrivedLately
<1>5. DebtIsPaid'
  <2> SUFFICES ASSUME rBucket # Nil
               PROVE  /\ rBucket.last <= rNow + 1
                      /\ rBucket.tokens + Rate * (rNow + 1 - rBucket.last) >= 0
                      /\ rBucket.tokens + Rate * Stall >= 0
    BY <1>1, <1>2 DEF DebtIsPaid
  <2>1. Rate * (rNow - rBucket.last) <= Rate * (rNow + 1 - rBucket.last)
    <3>1. rNow - rBucket.last \in Int /\ rNow + 1 - rBucket.last \in Int
      BY <1>2
    <3> QED
      BY <1>2, <3>1, RateGrows
  <2> QED
    BY <1>2, <2>1, RateGrows DEF LimiterInv, DebtIsPaid
<1>6. Balanced'
  <2>1. ASSUME rBucket = Nil, NEW s \in 0 .. Horizon, Served(s, Horizon) # {}
        PROVE  Spent(s, Horizon) <= Rate * (rNow + 1 - s)
    <3>1. rNow - s \in Int /\ rNow + 1 - s \in Int /\ rNow - s <= rNow + 1 - s
      BY <1>2
    <3>2. Rate * (rNow - s) \in Int /\ Rate * (rNow + 1 - s) \in Int
          /\ Rate * (rNow - s) <= Rate * (rNow + 1 - s)
      BY <3>1, RateGrows
    <3>3. Spent(s, Horizon) \in Int
      <4>1. s \in Int /\ Horizon \in Int
        BY <1>2
      <4> QED
        BY <4>1, ServedCounts DEF LimiterInv
    <3>4. Spent(s, Horizon) <= Rate * (rNow - s)
      BY <2>1 DEF LimiterInv, Balanced
    <3> QED
      BY <3>2, <3>3, <3>4
  <2> QED
    BY <1>1, <1>2, <2>1, NoGrantCounts DEF LimiterInv, Balanced
<1> QED
  BY <1>1, <1>3, <1>4, <1>5, <1>6, NoGrantCounts DEF LimiterInv

LEMMA Arrives ==
  ASSUME LimiterInv, NEW r \in Requests, Limiter!Arrive(r)
  PROVE  LimiterInv'
<1>1. /\ rArrived' = [rArrived EXCEPT ![r] = rNow]
      /\ rBucket' = rBucket /\ rNow' = rNow /\ rGranted' = rGranted
  BY DEF Limiter!Arrive
<1>2. Stall \in Nat /\ rNow \in 0 .. Horizon /\ rNow \in Int
  BY LimiterNumbers DEF LimiterInv, Limiter!TypeOK
<1>3. /\ rArrived' \in [Requests -> (0 .. Horizon) \cup {Nil}]
      /\ rArrived'[r] = rNow /\ \A q \in Requests : q # r => rArrived'[q] = rArrived[q]
  BY <1>1, <1>2 DEF LimiterInv, Limiter!TypeOK
<1>4. Limiter!TypeOK'
  BY <1>1, <1>3 DEF LimiterInv, Limiter!TypeOK
<1>5. ArrivedLately'
  <2>1. rNow - rNow <= Stall
    BY <1>2
  <2> QED
    BY <1>1, <1>2, <1>3, <2>1 DEF LimiterInv, ArrivedLately
<1>6. DebtIsPaid'
  BY <1>1 DEF LimiterInv, DebtIsPaid
<1>7. Balanced'
  BY <1>1, <1>3, NoGrantCounts DEF LimiterInv, Balanced
<1> QED
  BY <1>1, <1>4, <1>5, <1>6, <1>7, NoGrantCounts DEF LimiterInv

\* The janitor's wait covers a full refill and the delay of a request.
LEMMA Forgets ==
  ASSUME LimiterInv, Limiter!Forget
  PROVE  LimiterInv'
<1>1. /\ rBucket # Nil /\ rNow - rBucket.last > IdleTime /\ rBucket' = Nil
      /\ rArrived' = rArrived /\ rNow' = rNow /\ rGranted' = rGranted
  BY DEF Limiter!Forget, Limiter!Forgettable
<1> DEFINE tokens == rBucket.tokens
           last == rBucket.last
           cap == Limiter!Capacity
<1>2. /\ Rate \in Nat /\ Horizon \in Nat /\ Stall \in Nat /\ IdleTime \in Nat /\ rNow \in Int
      /\ tokens \in Int /\ last \in Int /\ cap \in Int
      /\ cap <= Rate * (IdleTime + 1 - 2 * Stall)
      /\ \A r \in Requests : rArrived[r] # Nil => rArrived[r] \in Int
  BY <1>1, LimiterNumbers DEF LimiterInv
<1>3. ASSUME NEW s \in 0 .. Horizon, Served(s, Horizon) # {}, NEW at \in Int, rNow - at <= Stall
      PROVE  Spent(s, Horizon) <= Rate * (at - s)
  <2>1. s \in Int /\ Horizon \in Int /\ Spent(s, Horizon) \in Int
    <3>1. s \in Int /\ Horizon \in Int
      BY <1>2
    <3> QED
      BY <3>1, ServedCounts DEF LimiterInv
  <2>2. Spent(s, Horizon) + tokens <= cap + Rate * (last - s)
    BY <1>1, <1>3 DEF LimiterInv, Balanced
  <2>3. tokens + Rate * Stall >= 0
    BY <1>1 DEF LimiterInv, DebtIsPaid
  <2> DEFINE due == last + IdleTime + 1 - Stall - s
  <2>4. due \in Int /\ at - s \in Int /\ due <= at - s
    BY <1>1, <1>2, <1>3, <2>1
  <2>5. Rate * due = Rate * (last - s) + Rate * Stall + Rate * (IdleTime + 1 - 2 * Stall)
    BY <1>2, <2>1
  <2>6. Rate * due <= Rate * (at - s) /\ Rate * (at - s) \in Int /\ Rate * due \in Int
    BY <2>4, RateGrows
  <2>7. Rate * (last - s) \in Int /\ Rate * Stall \in Int /\ Rate * (IdleTime + 1 - 2 * Stall) \in Int
    BY <1>2, <2>1
  <2> HIDE DEF tokens, last, cap, due
  <2> QED
    BY <1>2, <2>1, <2>2, <2>3, <2>5, <2>6, <2>7
<1>4. Balanced'
  <2>1. rNow - rNow <= Stall
    BY <1>2
  <2>2. \A r \in Requests : rArrived[r] # Nil => rArrived[r] \in Int /\ rNow - rArrived[r] <= Stall
    BY <1>2 DEF LimiterInv, ArrivedLately
  <2> QED
    BY <1>1, <1>2, <1>3, <2>1, <2>2, NoGrantCounts DEF Balanced
<1>5. Limiter!TypeOK' /\ ArrivedLately' /\ DebtIsPaid'
  BY <1>1 DEF LimiterInv, Limiter!TypeOK, ArrivedLately, DebtIsPaid
<1> QED
  BY <1>1, <1>4, <1>5, NoGrantCounts DEF LimiterInv

\* Refill and grant, or refuse.
LEMMA LimitsRequest ==
  ASSUME LimiterInv, NEW r \in Requests, Limiter!Limit(r)
  PROVE  LimiterInv'
<1> DEFINE at == rArrived[r]
           tokens == Limiter!Refilled(at)
           last == rBucket.last
           old == rBucket.tokens
           cap == Limiter!Capacity
<1>1. /\ at # Nil /\ rNow' = rNow /\ rArrived' = [rArrived EXCEPT ![r] = Nil]
      /\ \/ /\ tokens < Cost /\ rGranted' = rGranted
            /\ rBucket' = [tokens |-> tokens, last |-> at]
         \/ /\ ~(tokens < Cost) /\ Limiter!Grant(at)
            /\ rBucket' = [tokens |-> tokens - Cost, last |-> at]
  BY DEF Limiter!Limit
<1>2. /\ Rate \in Nat /\ Cost \in Nat /\ Horizon \in Nat /\ Stall \in Nat /\ rNow \in Int
      /\ cap \in Int /\ cap >= Cost
      /\ rBucket # Nil => old \in Int /\ last \in Int
      /\ at \in 0 .. Horizon /\ at \in Int
      /\ at <= rNow /\ rNow - at <= Stall
  BY <1>1, LimiterNumbers DEF LimiterInv, ArrivedLately
<1>3. /\ rBucket = Nil => tokens = cap
      /\ rBucket # Nil => tokens = cap \/ tokens = old + Rate * (at - last)
      /\ rBucket # Nil => tokens <= old + Rate * (at - last)
      /\ tokens \in Int /\ tokens <= cap
  <2>1. CASE rBucket = Nil
    BY <1>2, <2>1 DEF Limiter!Refilled
  <2>2. CASE rBucket # Nil
    <3>1. (at - last) * Rate = Rate * (at - last) /\ Rate * (at - last) \in Int
      BY <1>2, <2>2
    <3>2. tokens = Limiter!Least(cap, old + Rate * (at - last))
      BY <2>2, <3>1 DEF Limiter!Refilled
    <3> QED
      BY <1>2, <2>2, <3>1, <3>2 DEF Limiter!Least
  <2> QED
    BY <2>1, <2>2
<1>4. PICK left \in Int :
        /\ rBucket' = [tokens |-> left, last |-> at]
        /\ \/ tokens < Cost /\ rGranted' = rGranted /\ left = tokens
           \/ tokens >= Cost /\ Limiter!Grant(at) /\ left = tokens - Cost
  <2>1. CASE tokens < Cost
    BY <1>1, <1>2, <1>3, <2>1
  <2>2. CASE ~(tokens < Cost)
    <3>1. tokens - Cost \in Int /\ tokens >= Cost
      BY <1>2, <1>3, <2>2
    <3> QED
      BY <1>1, <2>2, <3>1
  <2> QED
    BY <2>1, <2>2
<1>5. /\ rBucket' # Nil /\ rBucket'.tokens = left /\ rBucket'.last = at
      /\ rBucket' \in [tokens : Int, last : 0 .. Horizon]
  BY <1>2, <1>4, LimiterAssumption
<1>6. /\ rArrived' \in [Requests -> (0 .. Horizon) \cup {Nil}]
      /\ \A q \in Requests : rArrived'[q] # Nil => rArrived'[q] = rArrived[q]
  BY <1>1 DEF LimiterInv, Limiter!TypeOK
<1>7. rGranted' \subseteq (0 .. Horizon) \X (1 .. MaxGrants)
  BY <1>2, <1>4, GrantCounts DEF LimiterInv, Limiter!TypeOK
<1>8. Limiter!TypeOK'
  BY <1>1, <1>5, <1>6, <1>7 DEF LimiterInv, Limiter!TypeOK
<1>9. ArrivedLately'
  BY <1>1, <1>6 DEF LimiterInv, ArrivedLately
<1>10. left + Rate * (rNow - at) >= 0 /\ left + Rate * Stall >= 0
  <2>1. /\ rNow - at \in Int /\ 0 <= rNow - at /\ Rate * 0 = 0
    BY <1>2
  <2>2. /\ 0 <= Rate * (rNow - at) /\ Rate * (rNow - at) <= Rate * Stall
        /\ Rate * (rNow - at) \in Int /\ Rate * Stall \in Int
    BY <1>2, <2>1, RateGrows
  <2>3. CASE left >= 0
    BY <2>2, <2>3
  <2>4. CASE left < 0
    <3>1. left = tokens /\ rBucket # Nil /\ tokens = old + Rate * (at - last)
      BY <1>2, <1>3, <1>4, <2>4
    <3>2. old + Rate * (rNow - last) >= 0
      BY <3>1 DEF LimiterInv, DebtIsPaid
    <3>3. Rate * (at - last) + Rate * (rNow - at) = Rate * (rNow - last)
      BY <1>2, <3>1
    <3>4. Rate * (at - last) \in Int /\ Rate * (rNow - last) \in Int
      BY <1>2, <3>1
    <3> QED
      BY <1>2, <2>2, <3>1, <3>2, <3>3, <3>4
  <2> QED
    BY <2>3, <2>4
<1>11. DebtIsPaid'
  BY <1>1, <1>2, <1>5, <1>10 DEF DebtIsPaid
<1>12. ASSUME NEW s \in 0 .. Horizon, Served(s, Horizon)' # {}
       PROVE  Spent(s, Horizon)' + left <= cap + Rate * (at - s)
  <2>1. s \in Int /\ Horizon \in Int /\ Horizon \in 0 .. Horizon
    BY <1>2
  <2>2. /\ Spent(s, Horizon) \in Int /\ Rate * (at - s) \in Int
        /\ Served(s, Horizon) = {} => Spent(s, Horizon) = 0
    <3>1. Rate * (at - s) \in Int
      BY <1>2, <2>1
    <3>2. Spent(s, Horizon) \in Int /\ (Served(s, Horizon) = {} => Spent(s, Horizon) = 0)
      BY <2>1, ServedCounts DEF LimiterInv
    <3> QED
      BY <3>1, <3>2
  <2>3. Served(s, Horizon) # {} => Spent(s, Horizon) + tokens <= cap + Rate * (at - s)
    <3>1. CASE rBucket = Nil /\ Served(s, Horizon) # {}
      <4>1. Spent(s, Horizon) <= Rate * (at - s)
        BY <1>1, <3>1 DEF LimiterInv, Balanced
      <4> QED
        BY <1>2, <1>3, <2>2, <3>1, <4>1
    <3>2. CASE rBucket # Nil /\ Served(s, Horizon) # {}
      <4>1. Spent(s, Horizon) + old <= cap + Rate * (last - s)
        BY <3>2 DEF LimiterInv, Balanced
      <4>2. Rate * (last - s) + Rate * (at - last) = Rate * (at - s)
        BY <1>2, <2>1, <3>2
      <4>3. Rate * (last - s) \in Int /\ Rate * (at - last) \in Int
        BY <1>2, <2>1, <3>2
      <4> QED
        BY <1>2, <1>3, <2>2, <3>2, <4>1, <4>2, <4>3
    <3> QED
      BY <3>1, <3>2
  <2>4. CASE rGranted' = rGranted /\ left = tokens
    <3>1. Served(s, Horizon)' = Served(s, Horizon) /\ Spent(s, Horizon)' = Spent(s, Horizon)
      BY <2>4 DEF Served, Spent
    <3> QED
      BY <1>12, <2>3, <2>4, <3>1
  <2>5. CASE Limiter!Grant(at) /\ left = tokens - Cost
    <3>1. /\ Spent(s, Horizon)' = Spent(s, Horizon) + (IF at \in s .. Horizon THEN Cost ELSE 0)
          /\ at \notin s .. Horizon => Served(s, Horizon)' = Served(s, Horizon)
      BY <1>2, <2>1, <2>5, GrantCounts DEF LimiterInv
    <3>2. CASE Served(s, Horizon) # {}
      BY <1>2, <1>3, <2>2, <2>3, <2>5, <3>1, <3>2
    <3>3. CASE Served(s, Horizon) = {}
      <4>1. at \in s .. Horizon
        BY <1>12, <3>1, <3>3
      <4>2. Spent(s, Horizon)' = Cost
        BY <1>2, <2>2, <3>1, <3>3, <4>1
      <4>3. 0 <= at - s /\ at - s \in Int /\ Rate * 0 = 0
        BY <1>2, <2>1, <4>1
      <4>4. 0 <= Rate * (at - s)
        BY <4>3, RateGrows
      <4> QED
        BY <1>2, <1>3, <2>2, <2>5, <4>2, <4>4
    <3> QED
      BY <3>2, <3>3
  <2> QED
    BY <1>4, <2>4, <2>5
<1> HIDE DEF tokens, last, old, cap
<1>13. Balanced'
  <2>1. cap' = cap
    BY DEF cap, Limiter!Capacity
  <2> QED
    BY <1>5, <1>12 DEF Balanced, cap, Limiter!Capacity
<1>14. InRate'
  <2>1. CASE rGranted' = rGranted
    BY <2>1, NoGrantCounts DEF LimiterInv
  <2>2. CASE tokens >= Cost /\ Limiter!Grant(at) /\ left = tokens - Cost
    <3>1. ASSUME NEW s \in 0 .. Horizon, NEW e \in 0 .. Horizon, s <= e
          PROVE  Spent(s, e)' <= cap + Rate * (e - s)
      <4>1. s \in Int /\ e \in Int /\ Horizon \in Int /\ e <= Horizon /\ Horizon \in 0 .. Horizon
        BY <1>2
      <4>2. /\ Spent(s, e)' = Spent(s, e) + (IF at \in s .. e THEN Cost ELSE 0)
            /\ Spent(s, Horizon)' = Spent(s, Horizon) + (IF at \in s .. Horizon THEN Cost ELSE 0)
            /\ at \notin s .. Horizon => Served(s, Horizon)' = Served(s, Horizon)
        BY <1>2, <2>2, <4>1, GrantCounts DEF LimiterInv
      <4>3. /\ Spent(s, e) \in Int /\ Spent(s, Horizon) \in Int /\ Spent(s, e) <= Spent(s, Horizon)
        BY <4>1, ServedCounts, ServedGrows DEF LimiterInv
      <4>4. CASE at \notin s .. e
        <5>1. Spent(s, e) <= cap + Rate * (e - s)
          BY <3>1 DEF LimiterInv, InRate, cap
        <5> QED
          BY <4>2, <4>3, <4>4, <5>1
      <4>5. CASE at \in s .. e
        <5>1. at \in s .. Horizon
          BY <4>1, <4>5
        <5>2. Served(s, Horizon)' # {}
          <6>1. PICK n : rGranted' = rGranted \cup {<<at, n>>}
            BY <2>2 DEF Limiter!Grant
          <6>2. <<at, n>> \in {g \in rGranted' : g[1] \in s .. Horizon}
            BY <5>1, <6>1
          <6> QED
            BY <6>2 DEF Served
        <5>3. Spent(s, Horizon)' + left <= cap + Rate * (at - s)
          BY <1>12, <5>2
        <5>4. at - s \in Int /\ e - s \in Int /\ at - s <= e - s
          BY <1>2, <4>1, <4>5
        <5>5. Rate * (at - s) \in Int /\ Rate * (e - s) \in Int /\ Rate * (at - s) <= Rate * (e - s)
          BY <5>4, RateGrows
        <5>6. left >= 0
          BY <1>2, <1>3, <2>2
        <5> QED
          BY <1>2, <4>2, <4>3, <4>5, <5>1, <5>3, <5>5, <5>6
      <4> QED
        BY <4>4, <4>5
    <3> QED
      BY <3>1 DEF InRate, cap, Limiter!Capacity
  <2> QED
    BY <1>4, <2>1, <2>2
<1> QED
  BY <1>8, <1>9, <1>11, <1>13, <1>14 DEF LimiterInv

LEMMA LimiterStep ==
  ASSUME LimiterInv, Limiter!Next
  PROVE  LimiterInv'
BY Ticks, Arrives, Forgets, LimitsRequest DEF Limiter!Next

LEMMA LimiterInvariant == Spec => [](part = "limiter" => LimiterInv)
<1>1. Init => (part = "limiter" => LimiterInv)
  <2> SUFFICES ASSUME Init, part = "limiter" PROVE LimiterInv
    OBVIOUS
  <2>1. /\ rBucket = Nil /\ rArrived = [r \in Requests |-> Nil] /\ rNow = 0 /\ rGranted = {}
    BY DEF Init, Limiter!Init
  <2>2. Limiter!TypeOK
    BY <2>1, LimiterAssumption DEF Limiter!TypeOK
  <2>3. \A s, e \in Int : Served(s, e) = {} /\ Spent(s, e) = 0
    <3>1. \A s, e \in Int : Served(s, e) = {}
      BY <2>1 DEF Served
    <3> QED
      BY <2>2, <3>1, ServedCounts
  <2>4. \A s \in 0 .. Horizon : s \in Int
    BY LimiterAssumption
  <2>5. InRate
    <3>1. ASSUME NEW s \in 0 .. Horizon, NEW e \in 0 .. Horizon, s <= e
          PROVE  Spent(s, e) <= Limiter!Capacity + Rate * (e - s)
      <4>1. e - s \in Int /\ 0 <= e - s /\ Rate * 0 = 0
        BY <3>1, LimiterAssumption
      <4>2. 0 <= Rate * (e - s) /\ Rate * (e - s) \in Int
        BY <4>1, RateGrows
      <4>3. Limiter!Capacity \in Int /\ Limiter!Capacity >= Cost /\ Cost \in Nat
        BY <2>2, LimiterNumbers
      <4>4. Spent(s, e) = 0
        BY <2>3, <2>4
      <4> QED
        BY <4>2, <4>3, <4>4
    <3> QED
      BY <3>1 DEF InRate
  <2>6. Horizon \in Int
    BY LimiterAssumption
  <2>7. Balanced
    BY <2>1, <2>3, <2>4, <2>6 DEF Balanced
  <2> QED
    BY <2>1, <2>2, <2>5, <2>7 DEF LimiterInv, ArrivedLately, DebtIsPaid
<1>2. (part = "limiter" => LimiterInv) /\ [Next]_vars => (part = "limiter" => LimiterInv)'
  <2> SUFFICES ASSUME LimiterInv, [Next]_vars, part = "limiter", part' = "limiter" PROVE LimiterInv'
    BY DEF Next, vars
  <2>1. CASE Limiter!Next
    BY <2>1, LimiterStep
  <2>2. CASE UNCHANGED rVars
    BY <2>2, NoGrantCounts
    DEF rVars, LimiterInv, Limiter!TypeOK, ArrivedLately, DebtIsPaid, Balanced
  <2> QED
    BY <2>1, <2>2 DEF Next, vars
<1> QED
  BY <1>1, <1>2, PTL DEF Spec

\* The module's Cardinality is everybody's.
LEMMA LimiterCounts == ASSUME NEW S PROVE Limiter!Cardinality(S) = Cardinality(S)
BY DEF Limiter!Cardinality, Cardinality

\* The limit itself: whatever the order in which requests got the lock, and whatever
\* the janitor forgot meanwhile, of those that arrived in any stretch of time at most
\* the burst and the refill of that stretch got through (ratelimit.go).
THEOREM RateIsKept == Spec => []WithinRate
<1>1. ASSUME LimiterInv PROVE Limiter!WithinRate
  <2> SUFFICES ASSUME NEW s \in 0 .. Horizon, NEW e \in 0 .. Horizon, s <= e
               PROVE  Cardinality({g \in rGranted : g[1] \in s .. e}) * Cost
                        <= Limiter!Capacity + Rate * (e - s)
    BY LimiterCounts DEF Limiter!WithinRate
  <2>1. Spent(s, e) <= Limiter!Capacity + Rate * (e - s)
    BY <1>1 DEF LimiterInv, InRate
  <2>2. s \in Int /\ e \in Int /\ Cost \in Int
    BY LimiterAssumption
  <2>3. Cardinality(Served(s, e)) \in Int
    BY <1>1, <2>2, ServedCounts DEF LimiterInv
  <2> QED
    BY <2>1, <2>2, <2>3 DEF Spent, Served
<1>2. (part = "limiter" => LimiterInv) => WithinRate
  BY <1>1 DEF WithinRate
<1> QED
  BY <1>2, LimiterInvariant, PTL

------------------------------------------------------------------------------
(* DayReport.  Its sums are folds over sets; the operator that adds up a   *)
(* finite set is picked out by what it satisfies, and what is said of it   *)
(* is proved by induction over the parts of the set.                       *)

Member(s) == CHOOSE x \in s : TRUE

\* g adds F up over every part of S, a member at a time.
Adds(g, F, S) ==
  g = [s \in SUBSET S |-> IF s = {} THEN 0 ELSE F[Member(s)] + g[s \ {Member(s)}]]

\* Induction over the parts of a finite set.
LEMMA PartsInduction ==
  ASSUME NEW S, IsFiniteSet(S), NEW Good,
         ASSUME NEW T \in SUBSET S, \A U \in SUBSET T : U # T => U \in Good
         PROVE  T \in Good
  PROVE  \A T \in SUBSET S : T \in Good
<1> DEFINE Bad == (SUBSET S) \ Good
           R == StrictSubsetOrdering(S)
<1>1. IsWellFoundedOn(R, FiniteSubsetsOf(S))
  BY FS_StrictSubsetOrderingWellFounded
<1>2. Bad \subseteq FiniteSubsetsOf(S)
  BY FS_Subset DEF FiniteSubsetsOf
<1>3. ASSUME NEW T \in SUBSET S, NEW U \in SUBSET T, U # T PROVE <<U, T>> \in R
  BY <1>3 DEF StrictSubsetOrdering
<1> HIDE DEF Bad, R
<1>4. ASSUME Bad # {} PROVE FALSE
  <2>1. \E T \in Bad : \A U \in Bad : ~ (<<U, T>> \in R)
    BY <1>1, <1>2, <1>4, WFMin
  <2>2. PICK T \in Bad : \A U \in Bad : ~ (<<U, T>> \in R)
    BY <2>1
  <2>3. T \in SUBSET S /\ T \notin Good
    BY DEF Bad
  <2>4. ASSUME NEW U \in SUBSET T, U # T, U \notin Good PROVE FALSE
    <3>1. U \in Bad
      BY <2>3, <2>4 DEF Bad
    <3>2. <<U, T>> \in R
      BY <1>3, <2>3, <2>4
    <3> QED
      BY <2>2, <3>1, <3>2
  <2> QED
    BY <2>3, <2>4
<1> QED
  BY <1>4 DEF Bad

\* A sum depends on nothing but what is added.
LEMMA AddsUnique ==
  ASSUME NEW S, IsFiniteSet(S), NEW F, NEW G, NEW g, NEW h, NEW T, S \subseteq T, NEW V, S \subseteq V,
         Adds(g, F, T), Adds(h, G, V), \A x \in S : F[x] = G[x]
  PROVE  g[S] = h[S]
<1> DEFINE Good == {U \in SUBSET S : g[U] = h[U]}
<1>1. ASSUME NEW U \in SUBSET S, \A W \in SUBSET U : W # U => W \in Good PROVE U \in Good
  <2>1. /\ g[U] = IF U = {} THEN 0 ELSE F[Member(U)] + g[U \ {Member(U)}]
        /\ h[U] = IF U = {} THEN 0 ELSE G[Member(U)] + h[U \ {Member(U)}]
    BY DEF Adds
  <2>2. CASE U = {}
    BY <2>1, <2>2
  <2>3. CASE U # {}
    <3>1. Member(U) \in U
      BY <2>3 DEF Member
    <3>2. g[U \ {Member(U)}] = h[U \ {Member(U)}]
      BY <1>1, <3>1
    <3>3. F[Member(U)] = G[Member(U)]
      BY <3>1
    <3> QED
      BY <2>1, <2>3, <3>2, <3>3
  <2> QED
    BY <2>2, <2>3
<1> HIDE DEF Good
<1>2. \A U \in SUBSET S : U \in Good
  BY <1>1, PartsInduction
<1>3. S \in Good
  BY <1>2
<1> QED
  BY <1>3 DEF Good

\* Over a finite set there is one.
LEMMA AddsExists ==
  ASSUME NEW S, IsFiniteSet(S), NEW F
  PROVE  \E g : Adds(g, F, S)
<1> DEFINE Good == {U \in SUBSET S : \E g : Adds(g, F, U)}
<1>1. ASSUME NEW U \in SUBSET S, \A W \in SUBSET U : W # U => W \in Good PROVE U \in Good
  <2> DEFINE below(s) == CHOOSE g : Adds(g, F, s)
             h == [s \in SUBSET U |->
                     IF s = {} THEN 0 ELSE F[Member(s)] + below(s \ {Member(s)})[s \ {Member(s)}]]
  <2>1. ASSUME NEW s \in SUBSET U, s # {}
        PROVE  h[s \ {Member(s)}] = below(s \ {Member(s)})[s \ {Member(s)}]
    <3> DEFINE w == s \ {Member(s)}
               v == w \ {Member(w)}
    <3>1. Member(s) \in s /\ w \in SUBSET U /\ w # U
      <4>1. Member(s) \in s
        BY <2>1 DEF Member
      <4> QED
        BY <4>1
    <3>2. w \in Good
      BY <1>1, <3>1
    <3>3. Adds(below(w), F, w)
      BY <3>2
    <3>4. below(w)[w] = IF w = {} THEN 0 ELSE F[Member(w)] + below(w)[v]
      BY <3>3 DEF Adds
    <3>5. h[w] = IF w = {} THEN 0 ELSE F[Member(w)] + below(v)[v]
      BY <3>1
    <3>6. ASSUME w # {} PROVE below(v)[v] = below(w)[v]
      <4>1. Member(w) \in w
        BY <3>6 DEF Member
      <4>2. v \in SUBSET U /\ v # U
        BY <3>1, <4>1
      <4>3. v \in Good
        BY <1>1, <4>2
      <4>4. Adds(below(v), F, v)
        BY <4>3
      <4>5. v \subseteq w /\ v \subseteq v /\ IsFiniteSet(v)
        BY <3>1, FS_Subset
      <4> HIDE DEF below, v, w, h
      <4> QED
        BY <3>3, <4>4, <4>5, AddsUnique
    <3> HIDE DEF below, h, v
    <3> QED
      BY <3>4, <3>5, <3>6
  <2>2. Adds(h, F, U)
    <3> HIDE DEF below
    <3>1. \A s \in SUBSET U :
            h[s] = IF s = {} THEN 0 ELSE F[Member(s)] + h[s \ {Member(s)}]
      BY <2>1
    <3>2. h = [s \in SUBSET U |-> h[s]]
      OBVIOUS
    <3> HIDE DEF h
    <3>3. h = [s \in SUBSET U |-> IF s = {} THEN 0 ELSE F[Member(s)] + h[s \ {Member(s)}]]
      BY <3>1, <3>2
    <3> QED
      BY <3>3 DEF Adds
  <2> QED
    BY <2>2
<1> HIDE DEF Good
<1>2. \A U \in SUBSET S : U \in Good
  BY <1>1, PartsInduction
<1>3. S \in Good
  BY <1>2
<1> QED
  BY <1>3 DEF Good

SumOver(F, S) == (CHOOSE g : Adds(g, F, S))[S]

LEMMA SumIs ==
  ASSUME NEW S, IsFiniteSet(S), NEW F, NEW g, Adds(g, F, S)
  PROVE  SumOver(F, S) = g[S]
<1> DEFINE h == CHOOSE k : Adds(k, F, S)
<1>1. Adds(h, F, S)
  OBVIOUS
<1>2. SumOver(F, S) = h[S]
  BY DEF SumOver
<1> HIDE DEF h
<1>3. h[S] = g[S]
  BY <1>1, AddsUnique
<1> QED
  BY <1>2, <1>3

LEMMA SumSame ==
  ASSUME NEW S, IsFiniteSet(S), NEW F, NEW G, \A x \in S : F[x] = G[x]
  PROVE  SumOver(F, S) = SumOver(G, S)
<1>1. PICK g : Adds(g, F, S)
  BY AddsExists
<1>2. PICK h : Adds(h, G, S)
  BY AddsExists
<1>3. g[S] = h[S]
  BY <1>1, <1>2, AddsUnique
<1> QED
  BY <1>1, <1>2, <1>3, SumIs

LEMMA SumStep ==
  ASSUME NEW S, IsFiniteSet(S), NEW F
  PROVE  /\ S = {} => SumOver(F, S) = 0
         /\ S # {} => /\ Member(S) \in S
                      /\ SumOver(F, S) = F[Member(S)] + SumOver(F, S \ {Member(S)})
<1> DEFINE rest == S \ {Member(S)}
<1>1. S # {} => Member(S) \in S
  BY DEF Member
<1>2. PICK g : Adds(g, F, S)
  BY AddsExists
<1>3. SumOver(F, S) = g[S]
  BY <1>2, SumIs
<1>4. g[S] = IF S = {} THEN 0 ELSE F[Member(S)] + g[rest]
  BY <1>2 DEF Adds
<1>5. IsFiniteSet(rest) /\ rest \subseteq S /\ rest \subseteq rest
  BY FS_Subset
<1> HIDE DEF rest
<1>6. PICK h : Adds(h, F, rest)
  BY <1>5, AddsExists
<1>7. SumOver(F, rest) = h[rest]
  BY <1>5, <1>6, SumIs
<1>8. g[rest] = h[rest]
  BY <1>2, <1>5, <1>6, AddsUnique
<1> QED
  BY <1>1, <1>3, <1>4, <1>7, <1>8 DEF rest

LEMMA SumIsInt ==
  ASSUME NEW S, IsFiniteSet(S), NEW F, \A x \in S : F[x] \in Int
  PROVE  SumOver(F, S) \in Int /\ ((\A x \in S : F[x] >= 0) => SumOver(F, S) >= 0)
<1> DEFINE Fine(T) == /\ SumOver(F, T) \in Int
                      /\ (\A x \in S : F[x] >= 0) => SumOver(F, T) >= 0
           Good == {T \in SUBSET S : Fine(T)}
<1>1. ASSUME NEW T \in SUBSET S, \A U \in SUBSET T : U # T => U \in Good PROVE T \in Good
  <2>1. IsFiniteSet(T)
    BY FS_Subset
  <2>2. CASE T = {}
    BY <2>1, <2>2, SumStep
  <2>3. CASE T # {}
    <3>1. Member(T) \in T /\ SumOver(F, T) = F[Member(T)] + SumOver(F, T \ {Member(T)})
      BY <2>1, <2>3, SumStep
    <3>2. Fine(T \ {Member(T)}) /\ F[Member(T)] \in Int /\ Member(T) \in S
      BY <1>1, <3>1
    <3> QED
      BY <3>1, <3>2
  <2> QED
    BY <2>2, <2>3
<1> HIDE DEF Good
<1>2. S \in Good
  BY <1>1, PartsInduction
<1> QED
  BY <1>2 DEF Good

\* One more member adds its own, whichever it is.
LEMMA SumAdd ==
  ASSUME NEW S, IsFiniteSet(S), NEW F, NEW x, x \notin S, \A y \in S \cup {x} : F[y] \in Int
  PROVE  SumOver(F, S \cup {x}) = SumOver(F, S) + F[x]
<1> DEFINE W == S \cup {x}
           Good == {T \in SUBSET W : \A y \in W \ T : SumOver(F, T \cup {y}) = SumOver(F, T) + F[y]}
<1>1. IsFiniteSet(W)
  BY FS_AddElement
<1>2. ASSUME NEW T \in SUBSET W, \A U \in SUBSET T : U # T => U \in Good PROVE T \in Good
  <2> SUFFICES ASSUME NEW y \in W, y \notin T PROVE SumOver(F, T \cup {y}) = SumOver(F, T) + F[y]
    OBVIOUS
  <2> DEFINE V == T \cup {y}
             m == Member(V)
  <2>1. IsFiniteSet(V) /\ V # {} /\ IsFiniteSet(T)
    BY <1>1, FS_Subset
  <2>2. m \in V /\ SumOver(F, V) = F[m] + SumOver(F, V \ {m})
    BY <2>1, SumStep
  <2>3. \A z \in W : F[z] \in Int
    OBVIOUS
  <2>4. \A U \in SUBSET W : SumOver(F, U) \in Int
    BY <1>1, <2>3, FS_Subset, SumIsInt
  <2>5. CASE m = y
    <3>1. V \ {m} = T
      BY <2>5
    <3>2. SumOver(F, T) \in Int /\ F[y] \in Int
      BY <2>3, <2>4
    <3>3. SumOver(F, V) = F[y] + SumOver(F, T)
      BY <2>2, <2>5, <3>1
    <3> HIDE DEF m
    <3> QED
      BY <3>2, <3>3
  <2>6. CASE m # y
    <3> DEFINE rest == T \ {m}
    <3>1. m \in T /\ V \ {m} = rest \cup {y} /\ rest \cup {m} = T /\ rest \in SUBSET T /\ rest # T
      BY <2>2, <2>6
    <3>2. rest \in Good /\ y \in W \ rest /\ m \in W \ rest
      BY <1>2, <3>1
    <3>3. SumOver(F, rest \cup {y}) = SumOver(F, rest) + F[y] /\ SumOver(F, rest \cup {m}) = SumOver(F, rest) + F[m]
      BY <3>2
    <3>4. SumOver(F, rest) \in Int /\ F[y] \in Int /\ F[m] \in Int
      BY <2>3, <2>4, <3>2
    <3>5. SumOver(F, V) = F[m] + (SumOver(F, rest) + F[y])
      BY <2>2, <3>1, <3>3
    <3>6. SumOver(F, T) = SumOver(F, rest) + F[m]
      BY <3>1, <3>3
    <3> HIDE DEF rest, m
    <3> QED
      BY <3>4, <3>5, <3>6
  <2> QED
    BY <2>5, <2>6
<1> HIDE DEF Good
<1>3. S \in Good
  BY <1>1, <1>2, PartsInduction
<1> QED
  BY <1>3 DEF Good

\* One value changes, or is new.
LEMMA SumUpdate ==
  ASSUME NEW S, IsFiniteSet(S), NEW F, NEW G, NEW x,
         \A y \in S : F[y] \in Int, \A y \in S \cup {x} : G[y] \in Int,
         \A y \in S \ {x} : G[y] = F[y]
  PROVE  SumOver(G, S \cup {x}) = SumOver(F, S) - (IF x \in S THEN F[x] ELSE 0) + G[x]
<1> DEFINE rest == S \ {x}
<1>1. /\ rest \cup {x} = S \cup {x} /\ (x \in S => rest \cup {x} = S) /\ (x \notin S => rest = S)
  OBVIOUS
<1>2. IsFiniteSet(rest) /\ x \notin rest
  BY FS_Subset
<1>3. \A y \in rest : F[y] \in Int /\ G[y] \in Int /\ F[y] = G[y]
  OBVIOUS
<1>4. G[x] \in Int /\ (x \in S => F[x] \in Int)
  OBVIOUS
<1> HIDE DEF rest
<1>5. SumOver(G, rest \cup {x}) = SumOver(G, rest) + G[x]
  <2>1. \A y \in rest \cup {x} : G[y] \in Int
    BY <1>3, <1>4
  <2> QED
    BY <1>2, <2>1, SumAdd
<1>6. SumOver(G, rest) = SumOver(F, rest) /\ SumOver(F, rest) \in Int
  BY <1>3, <1>2, SumSame, SumIsInt
<1>7. CASE x \in S
  <2>1. \A y \in rest \cup {x} : F[y] \in Int
    BY <1>3, <1>4, <1>7
  <2>2. SumOver(F, rest \cup {x}) = SumOver(F, rest) + F[x]
    BY <1>2, <2>1, SumAdd
  <2>3. SumOver(F, S) = SumOver(F, rest) + F[x]
    BY <1>1, <1>7, <2>2
  <2>4. SumOver(G, S \cup {x}) = SumOver(F, rest) + G[x]
    BY <1>1, <1>5, <1>6
  <2>5. F[x] \in Int
    BY <1>4, <1>7
  <2> QED
    BY <1>4, <1>6, <1>7, <2>3, <2>4, <2>5
<1>8. CASE x \notin S
  BY <1>1, <1>4, <1>5, <1>6, <1>8
<1> QED
  BY <1>7, <1>8

\* The sums of the report are these.
LEMMA SumOfIsSum ==
  ASSUME NEW S, IsFiniteSet(S), NEW f, DOMAIN f = S
  PROVE  Day!SumOf(f) = SumOver(f, S)
<1> DEFINE Added(g) == [s \in SUBSET S |->
             IF s = {} THEN 0 ELSE f[CHOOSE x \in s : TRUE] + g[s \ {CHOOSE x \in s : TRUE}]]
           iter == CHOOSE g : g = Added(g)
<1>1. Day!SumOf(f) = iter[S]
  BY DEF Day!SumOf, Day!MapThenSumSet, Day!MapThenFoldSet
<1>2. \A g : Adds(g, f, S) <=> g = Added(g)
  BY DEF Adds, Member
<1> HIDE DEF Added
<1>3. iter = Added(iter)
  BY <1>2, AddsExists
<1> HIDE DEF iter
<1> QED
  BY <1>1, <1>2, <1>3, SumIs

\* A finite set of numbers has a greatest and a least.
LEMMA FiniteBounds ==
  ASSUME NEW S, IsFiniteSet(S), S \subseteq Int, S # {}
  PROVE  /\ \E x \in S : \A y \in S : x >= y
         /\ \E x \in S : \A y \in S : x <= y
<1> DEFINE Good == {T \in SUBSET S : T # {} => /\ \E x \in T : \A y \in T : x >= y
                                              /\ \E x \in T : \A y \in T : x <= y}
<1>1. ASSUME NEW T \in SUBSET S, \A U \in SUBSET T : U # T => U \in Good PROVE T \in Good
  <2> SUFFICES ASSUME NEW z \in T PROVE /\ \E x \in T : \A y \in T : x >= y
                                        /\ \E x \in T : \A y \in T : x <= y
    OBVIOUS
  <2> DEFINE U == T \ {z}
  <2>1. U \in Good
    BY <1>1
  <2>2. T \subseteq Int
    OBVIOUS
  <2>3. CASE U = {}
    BY <2>2, <2>3
  <2>4. CASE U # {}
    <3>1. PICK a \in U, b \in U : \A y \in U : a >= y /\ b <= y
      BY <2>1, <2>4
    <3>2. \E x \in T : \A y \in T : x >= y
      <4>1. CASE z >= a
        BY <2>2, <3>1, <4>1
      <4>2. CASE ~(z >= a)
        BY <2>2, <3>1, <4>2
      <4> QED
        BY <4>1, <4>2
    <3>3. \E x \in T : \A y \in T : x <= y
      <4>1. CASE z <= b
        BY <2>2, <3>1, <4>1
      <4>2. CASE ~(z <= b)
        BY <2>2, <3>1, <4>2
      <4> QED
        BY <4>1, <4>2
    <3> QED
      BY <3>2, <3>3
  <2> QED
    BY <2>3, <2>4
<1> HIDE DEF Good
<1>2. S \in Good
  BY <1>1, PartsInduction
<1> QED
  BY <1>2 DEF Good

\* What the report is to be made of, and what of it has been counted.
DayWashes == Day!CompletedBetween(dBooks.washes, Day!DayRange(dBooks.day))
DayEntries == Day!Listed(dBooks.entries, Day!DayRange(dBooks.day))

Counted == DayWashes \ dWashes
Clocked == DayEntries \ dEntries

CountedOf(e) == {w \in Counted : w.employee = e}
ClockedOf(e) == {x \in Clocked : x.employee = e}
StoppedOf(e) == {x \in ClockedOf(e) : ~x.running}

\* The row of an employee after what was counted.
LineOf(e) ==
  [washes |-> Cardinality(CountedOf(e)), revenue |-> Day!Total(CountedOf(e), "price"),
   bonus |-> Day!Total(CountedOf(e), "bonus"), worked |-> Day!Total(StoppedOf(e), "worked")]

DaySound ==
  /\ dBooks.washes \in Washes /\ dBooks.entries \in Entries /\ dBooks.day \in 0 .. LastInstant
  /\ dWashes \subseteq DayWashes /\ dEntries \subseteq DayEntries

LinesSound ==
  /\ IsFiniteSet(DOMAIN dLines)
  /\ DOMAIN dLines = {e \in Employees : CountedOf(e) \cup ClockedOf(e) # {}}
  /\ \A e \in DOMAIN dLines : dLines[e] = LineOf(e)

FieldSum(h, f) == Day!SumOf([e \in DOMAIN h |-> h[e][f]])

SumsSound == \A f \in {"washes", "revenue", "bonus"} : dTotals[f] = FieldSum(dLines, f)

ListSound == dList # << >> =>
  /\ dWashes = {} /\ dEntries = {}
  /\ {dList[i] : i \in DOMAIN dList} = DOMAIN dLines
  /\ \A i, j \in DOMAIN dList : i < j =>
       dList[i] # dList[j] /\ dLines[dList[i]].revenue >= dLines[dList[j]].revenue

DayInv == Day!TypeOK /\ DaySound /\ LinesSound /\ SumsSound /\ ListSound

LEMMA TotalIsSum ==
  ASSUME NEW S, IsFiniteSet(S), NEW f
  PROVE  Day!Total(S, f) = SumOver([x \in S |-> x[f]], S)
BY SumOfIsSum DEF Day!Total

\* One more row adds its own.
LEMMA TotalAdds ==
  ASSUME NEW S, IsFiniteSet(S), NEW f, NEW x, x \notin S, \A y \in S \cup {x} : y[f] \in Int
  PROVE  Day!Total(S \cup {x}, f) = Day!Total(S, f) + x[f]
<1> DEFINE F == [y \in S \cup {x} |-> y[f]]
           G == [y \in S |-> y[f]]
<1>1. IsFiniteSet(S \cup {x})
  BY FS_AddElement
<1>2. Day!Total(S \cup {x}, f) = SumOver(F, S \cup {x}) /\ Day!Total(S, f) = SumOver(G, S)
  BY <1>1, TotalIsSum
<1>3. (\A y \in S : F[y] = G[y]) /\ F[x] = x[f]
  OBVIOUS
<1>6. \A y \in S \cup {x} : F[y] \in Int
  OBVIOUS
<1> HIDE DEF F, G
<1>4. SumOver(F, S) = SumOver(G, S)
  BY <1>3, SumSame
<1>5. SumOver(F, S \cup {x}) = SumOver(F, S) + F[x]
  BY <1>6, SumAdd
<1> QED
  BY <1>2, <1>3, <1>4, <1>5

LEMMA TotalIsNat ==
  ASSUME NEW S, IsFiniteSet(S), NEW f, \A y \in S : y[f] \in Nat
  PROVE  Day!Total(S, f) \in Nat /\ (S = {} => Day!Total(S, f) = 0)
<1> DEFINE G == [y \in S |-> y[f]]
<1>1. \A y \in S : G[y] \in Int /\ G[y] >= 0
  OBVIOUS
<1>2. Day!Total(S, f) = SumOver(G, S)
  BY TotalIsSum
<1> HIDE DEF G
<1>3. SumOver(G, S) \in Int /\ SumOver(G, S) >= 0
  BY <1>1, SumIsInt
<1>4. S = {} => SumOver(G, S) = 0
  BY SumStep
<1> QED
  BY <1>2, <1>3, <1>4

\* The module's Cardinality is everybody's.
LEMMA DayCounts == ASSUME NEW S PROVE Day!Cardinality(S) = Cardinality(S)
BY DEF Day!Cardinality, Cardinality

\* What is counted are rows, finitely many.
LEMMA DayRows ==
  ASSUME DaySound
  PROVE  /\ IsFiniteSet(DayWashes) /\ DayWashes \subseteq dBooks.washes
         /\ IsFiniteSet(DayEntries) /\ DayEntries \subseteq dBooks.entries
         /\ dBooks.washes \subseteq Day!Wash /\ dBooks.entries \subseteq Day!TimeEntry
         /\ \A w \in DayWashes : w.employee \in Employees /\ w["price"] \in Nat /\ w["bonus"] \in Nat
         /\ \A x \in DayEntries : /\ x.employee \in Employees /\ x.running \in BOOLEAN
                                  /\ x["worked"] \in Nat
<1>1. /\ IsFiniteSet(dBooks.washes) /\ dBooks.washes \subseteq Day!Wash
      /\ IsFiniteSet(dBooks.entries) /\ dBooks.entries \subseteq Day!TimeEntry
  BY DayAssumption DEF DaySound
<1>2. DayWashes \subseteq dBooks.washes /\ DayEntries \subseteq dBooks.entries
  BY DEF DayWashes, DayEntries, Day!CompletedBetween, Day!Listed
<1>3. IsFiniteSet(DayWashes) /\ IsFiniteSet(DayEntries)
  BY <1>1, <1>2, FS_Subset
<1>4. \A w \in DayWashes : w.employee \in Employees /\ w["price"] \in Nat /\ w["bonus"] \in Nat
  BY <1>1, <1>2 DEF Day!Wash
<1>5. \A x \in DayEntries : x.employee \in Employees /\ x.running \in BOOLEAN /\ x["worked"] \in Nat
  BY <1>1, <1>2 DEF Day!TimeEntry
<1> QED
  BY <1>1, <1>2, <1>3, <1>4, <1>5

LEMMA LineTypes ==
  ASSUME DaySound, NEW e
  PROVE  /\ IsFiniteSet(CountedOf(e)) /\ IsFiniteSet(ClockedOf(e)) /\ IsFiniteSet(StoppedOf(e))
         /\ \A w \in CountedOf(e) : w["price"] \in Nat /\ w["bonus"] \in Nat
         /\ \A x \in ClockedOf(e) : x["worked"] \in Nat
         /\ LineOf(e) \in [washes : Nat, revenue : Nat, bonus : Nat, worked : Nat]
         /\ CountedOf(e) \cup ClockedOf(e) = {} => LineOf(e) = Day!Nothing
<1>1. /\ CountedOf(e) \subseteq DayWashes /\ ClockedOf(e) \subseteq DayEntries
      /\ StoppedOf(e) \subseteq ClockedOf(e)
  BY DEF CountedOf, ClockedOf, StoppedOf, Counted, Clocked
<1>2. IsFiniteSet(CountedOf(e)) /\ IsFiniteSet(ClockedOf(e))
  BY <1>1, DayRows, FS_Subset
<1>3. IsFiniteSet(StoppedOf(e))
  BY <1>1, <1>2, FS_Subset
<1>4. /\ \A w \in CountedOf(e) : w["price"] \in Nat /\ w["bonus"] \in Nat
      /\ \A x \in ClockedOf(e) : x["worked"] \in Nat
  BY <1>1, DayRows
<1>5. /\ Cardinality(CountedOf(e)) \in Nat /\ (CountedOf(e) = {} => Cardinality(CountedOf(e)) = 0)
  BY <1>2, FS_CardinalityType, FS_EmptySet
<1>6. /\ Day!Total(CountedOf(e), "price") \in Nat
      /\ CountedOf(e) = {} => Day!Total(CountedOf(e), "price") = 0
  BY <1>2, <1>4, TotalIsNat
<1>7. /\ Day!Total(CountedOf(e), "bonus") \in Nat
      /\ CountedOf(e) = {} => Day!Total(CountedOf(e), "bonus") = 0
  BY <1>2, <1>4, TotalIsNat
<1>8. /\ Day!Total(StoppedOf(e), "worked") \in Nat
      /\ StoppedOf(e) = {} => Day!Total(StoppedOf(e), "worked") = 0
  BY <1>1, <1>3, <1>4, TotalIsNat
<1>9. LineOf(e) \in [washes : Nat, revenue : Nat, bonus : Nat, worked : Nat]
  BY <1>5, <1>6, <1>7, <1>8 DEF LineOf
<1>10. CountedOf(e) \cup ClockedOf(e) = {} => LineOf(e) = Day!Nothing
  BY <1>1, <1>5, <1>6, <1>7, <1>8 DEF LineOf, Day!Nothing
<1> QED
  BY <1>2, <1>3, <1>4, <1>9, <1>10

\* The row of an employee is what was counted for them, made or not.
LEMMA GetIsLine ==
  ASSUME DaySound, LinesSound, NEW e \in Employees
  PROVE  Day!Get(e) = LineOf(e)
<1>1. CASE e \in DOMAIN dLines
  BY <1>1 DEF LinesSound, Day!Get
<1>2. CASE e \notin DOMAIN dLines
  <2>1. CountedOf(e) \cup ClockedOf(e) = {}
    BY <1>2 DEF LinesSound
  <2> QED
    BY <1>2, <2>1, LineTypes DEF Day!Get
<1> QED
  BY <1>1, <1>2

\* A row put in its place, and the sums over the rows.
LEMMA PutRow ==
  ASSUME NEW a, NEW row, dLines' = Day!Put(a, row), IsFiniteSet(DOMAIN dLines)
  PROVE  /\ DOMAIN dLines' = (DOMAIN dLines) \cup {a} /\ IsFiniteSet(DOMAIN dLines')
         /\ dLines'[a] = row
         /\ \A e \in DOMAIN dLines : e # a => dLines'[e] = dLines[e]
<1>1. IsFiniteSet((DOMAIN dLines) \cup {a})
  BY FS_AddElement
<1> QED
  BY <1>1 DEF Day!Put

\* k is h with another row, or a new one, for a.
OneRow(h, k, a, f) ==
  /\ IsFiniteSet(DOMAIN h) /\ DOMAIN k = (DOMAIN h) \cup {a} /\ k[a][f] \in Int
  /\ \A e \in DOMAIN h : h[e][f] \in Int /\ (e # a => k[e] = h[e])

LEMMA SumsAfterPut ==
  ASSUME NEW h, NEW k, NEW a, NEW f, OneRow(h, k, a, f)
  PROVE  FieldSum(k, f) = FieldSum(h, f) - (IF a \in DOMAIN h THEN h[a][f] ELSE 0) + k[a][f]
<1>0. /\ IsFiniteSet(DOMAIN h) /\ DOMAIN k = (DOMAIN h) \cup {a} /\ k[a][f] \in Int
      /\ \A e \in DOMAIN h : h[e][f] \in Int /\ (e # a => k[e] = h[e])
  BY DEF OneRow
<1> DEFINE D == DOMAIN h
           E == DOMAIN k
           F == [e \in D |-> h[e][f]]
           G == [e \in E |-> k[e][f]]
<1>1. IsFiniteSet(D) /\ IsFiniteSet(E)
  BY <1>0, FS_AddElement
<1>2. Day!SumOf(F) = SumOver(F, D) /\ Day!SumOf(G) = SumOver(G, E)
  BY <1>1, SumOfIsSum
<1>3. \A y \in D : F[y] \in Int
  BY <1>0
<1>4. \A y \in D \cup {a} : G[y] \in Int
  BY <1>0
<1>5. \A y \in D \ {a} : G[y] = F[y]
  BY <1>0
<1>6. G[a] = k[a][f] /\ (a \in D => F[a] = h[a][f]) /\ E = D \cup {a}
  BY <1>0
<1> HIDE DEF D, E, F, G
<1>7. SumOver(G, D \cup {a}) = SumOver(F, D) - (IF a \in D THEN F[a] ELSE 0) + G[a]
  BY <1>1, <1>3, <1>4, <1>5, SumUpdate
<1>8. Day!SumOf(G) = Day!SumOf(F) - (IF a \in D THEN h[a][f] ELSE 0) + k[a][f]
  BY <1>2, <1>6, <1>7
<1> QED
  BY <1>8 DEF D, E, F, G, FieldSum

\* DayRange is the day of the calendar.
LEMMA DayRangeIsTheDay ==
  ASSUME NEW d \in 0 .. LastInstant, NEW t \in 0 .. LastInstant
  PROVE  Day!Within(t, Day!DayRange(d)) <=> Day!SameDay(t, d)
<1> DEFINE Past == {m \in Midnights : m <= d}
           Coming == {m \in Midnights : m > d}
<1>1. LastInstant \in Nat /\ Midnights \subseteq Nat /\ d \in Nat /\ t \in Nat
  BY DayAssumption
<1>2. \E x \in Past : \A y \in Past : x >= y
  <2>1. Past \subseteq 0 .. d /\ 0 \in Past
    <3>1. \A m \in Past : m \in Nat /\ m <= d
      BY <1>1
    <3>2. 0 \in Midnights /\ 0 <= d
      BY <1>1, DayAssumption
    <3>3. 0 \in Past
      BY <3>2
    <3> HIDE DEF Past
    <3>4. \A m \in Past : m \in 0 .. d
      BY <1>1, <3>1
    <3> QED
      BY <3>3, <3>4
  <2>2. IsFiniteSet(Past)
    <3>1. IsFiniteSet(0 .. d)
      BY <1>1, FS_Interval
    <3> HIDE DEF Past
    <3> QED
      BY <2>1, <3>1, FS_Subset
  <2> HIDE DEF Past
  <2>3. Past \subseteq Int /\ Past # {}
    BY <2>1
  <2> QED
    BY <2>2, <2>3, FiniteBounds
<1>3. \E x \in Coming : \A y \in Coming : x <= y
  <2>1. PICK last \in Midnights : last > LastInstant
    BY DayAssumption
  <2> DEFINE Near == {m \in Coming : m <= last}
  <2>2. last \in Near /\ Near \subseteq 0 .. last /\ last \in Nat
    <3>1. last \in Nat /\ last > d
      BY <1>1, <2>1
    <3>2. \A m \in Near : m \in Nat /\ m <= last
      BY <1>1
    <3>3. last \in Near
      BY <2>1, <3>1
    <3> HIDE DEF Near
    <3>4. \A m \in Near : m \in 0 .. last
      BY <3>1, <3>2
    <3> QED
      BY <3>1, <3>3, <3>4
  <2>3. IsFiniteSet(Near)
    <3>1. IsFiniteSet(0 .. last)
      BY <2>2, FS_Interval
    <3> HIDE DEF Near
    <3> QED
      BY <2>2, <3>1, FS_Subset
  <2>4. Near \subseteq Int /\ Near # {}
    BY <2>2
  <2>5. \E x \in Near : \A y \in Near : x <= y
    <3> HIDE DEF Near
    <3> QED
      BY <2>3, <2>4, FiniteBounds
  <2>6. PICK x \in Near : \A y \in Near : x <= y
    BY <2>5
  <2>7. ASSUME NEW y \in Coming PROVE x <= y
    <3>1. x \in Nat /\ y \in Nat /\ x <= last
      BY <1>1, <2>6
    <3>2. CASE y <= last
      BY <2>6, <3>2
    <3>3. CASE ~(y <= last)
      BY <2>2, <3>1, <3>3
    <3> QED
      BY <3>2, <3>3
  <2> QED
    BY <2>6, <2>7
<1> DEFINE start == Day!Max(Past)
           end == Day!Min(Coming)
<1>4. start \in Past /\ \A y \in Past : start >= y
  BY <1>2 DEF Day!Max
<1>5. end \in Coming /\ \A y \in Coming : end <= y
  BY <1>3 DEF Day!Min
<1>6. Day!Within(t, Day!DayRange(d)) <=> start <= t /\ t < end
  BY DEF Day!Within, Day!DayRange
<1> HIDE DEF start, end
<1>7. start \in Nat /\ end \in Nat /\ start <= d /\ end > d /\ start \in Midnights /\ end \in Midnights
  BY <1>1, <1>4, <1>5
<1>8. ASSUME start <= t, t < end, NEW m \in Midnights PROVE m <= t <=> m <= d
  <2>1. m \in Nat
    BY <1>1
  <2>2. CASE m <= d
    <3>1. start >= m
      BY <1>4, <2>2
    <3> QED
      BY <1>1, <1>7, <1>8, <2>1, <2>2, <3>1
  <2>3. CASE ~(m <= d)
    <3>1. end <= m
      BY <1>1, <1>5, <2>1, <2>3
    <3> QED
      BY <1>1, <1>7, <1>8, <2>1, <2>3, <3>1
  <2> QED
    BY <2>2, <2>3
<1>9. ASSUME Day!SameDay(t, d) PROVE start <= t /\ t < end
  BY <1>1, <1>7, <1>9 DEF Day!SameDay
<1> QED
  BY <1>6, <1>8, <1>9 DEF Day!SameDay

\* A wash counted is one more of its washer's, and of nobody else's.
LEMMA CountedMore ==
  ASSUME DaySound, NEW w \in dWashes, Day!CountWash(w)
  PROVE  /\ w \in DayWashes /\ w.employee \in Employees /\ DaySound'
         /\ \A e : ClockedOf(e)' = ClockedOf(e)
         /\ \A e : e # w.employee => CountedOf(e)' = CountedOf(e)
         /\ CountedOf(w.employee)' = CountedOf(w.employee) \cup {w}
         /\ w \notin CountedOf(w.employee)
<1>1. w \in DayWashes /\ w.employee \in Employees
  BY DayRows DEF DaySound
<1>2. /\ dWashes' = dWashes \ {w}
      /\ dBooks' = dBooks /\ dEntries' = dEntries
  BY DEF Day!CountWash
<1>3. DayWashes' = DayWashes /\ DayEntries' = DayEntries
  BY <1>2 DEF DayWashes, DayEntries
<1>4. Counted' = Counted \cup {w} /\ w \notin Counted /\ Clocked' = Clocked
  BY <1>1, <1>2, <1>3 DEF Counted, Clocked
<1>5. DaySound'
  BY <1>2, <1>3 DEF DaySound
<1> QED
  BY <1>1, <1>4, <1>5 DEF CountedOf, ClockedOf

\* An entry is one more of whoever clocked in.
LEMMA ClockedMore ==
  ASSUME DaySound, NEW x \in dEntries, Day!CountEntry(x)
  PROVE  /\ x \in DayEntries /\ x.employee \in Employees /\ DaySound'
         /\ \A e : CountedOf(e)' = CountedOf(e)
         /\ \A e : e # x.employee => ClockedOf(e)' = ClockedOf(e)
         /\ ClockedOf(x.employee)' = ClockedOf(x.employee) \cup {x}
         /\ x \notin ClockedOf(x.employee)
<1>1. x \in DayEntries /\ x.employee \in Employees
  BY DayRows DEF DaySound
<1>2. /\ dEntries' = dEntries \ {x}
      /\ dBooks' = dBooks /\ dWashes' = dWashes
  BY DEF Day!CountEntry
<1>3. DayWashes' = DayWashes /\ DayEntries' = DayEntries
  BY <1>2 DEF DayWashes, DayEntries
<1>4. Clocked' = Clocked \cup {x} /\ x \notin Clocked /\ Counted' = Counted
  BY <1>1, <1>2, <1>3 DEF Counted, Clocked
<1>5. DaySound'
  BY <1>2, <1>3 DEF DaySound
<1> QED
  BY <1>1, <1>4, <1>5 DEF CountedOf, ClockedOf

LEMMA LineStays ==
  ASSUME NEW e, CountedOf(e)' = CountedOf(e), ClockedOf(e)' = ClockedOf(e)
  PROVE  LineOf(e)' = LineOf(e)
<1>1. StoppedOf(e)' = StoppedOf(e)
  BY DEF StoppedOf
<1> QED
  BY <1>1 DEF LineOf

\* The rows are right again once the row of the one employee concerned is.
LEMMA RowsAgain ==
  ASSUME DaySound, DaySound', LinesSound, NEW a \in Employees,
         dLines' = Day!Put(a, LineOf(a)'),
         (CountedOf(a) \cup ClockedOf(a))' # {},
         \A e : e # a => CountedOf(e)' = CountedOf(e) /\ ClockedOf(e)' = ClockedOf(e)
  PROVE  /\ LinesSound'
         /\ DOMAIN dLines' = (DOMAIN dLines) \cup {a} /\ dLines'[a] = LineOf(a)'
         /\ \A e \in DOMAIN dLines : e # a => dLines'[e] = dLines[e]
<1>1. IsFiniteSet(DOMAIN dLines)
  BY DEF LinesSound
<1>2. /\ DOMAIN dLines' = (DOMAIN dLines) \cup {a} /\ IsFiniteSet(DOMAIN dLines')
      /\ dLines'[a] = LineOf(a)'
      /\ \A e \in DOMAIN dLines : e # a => dLines'[e] = dLines[e]
  BY <1>1, PutRow
<1>3. \A e : e # a => LineOf(e)' = LineOf(e)
  BY LineStays
<1>4. \A e \in DOMAIN dLines' : dLines'[e] = LineOf(e)'
  BY <1>2, <1>3 DEF LinesSound
<1>5. DOMAIN dLines' = {e \in Employees : (CountedOf(e) \cup ClockedOf(e))' # {}}
  <2>1. ASSUME NEW e \in Employees
        PROVE  e \in DOMAIN dLines' <=> (CountedOf(e) \cup ClockedOf(e))' # {}
    <3>1. CASE e = a
      BY <1>2, <3>1
    <3>2. CASE e # a
      BY <1>2, <3>2 DEF LinesSound
    <3> QED
      BY <3>1, <3>2
  <2>2. DOMAIN dLines' \subseteq Employees
    BY <1>2 DEF LinesSound
  <2> QED
    BY <2>1, <2>2
<1> QED
  BY <1>2, <1>4, <1>5 DEF LinesSound

LEMMA RowPlusWash ==
  ASSUME NEW r \in [washes : Nat, revenue : Nat, bonus : Nat, worked : Nat],
         NEW x \in [washes : Nat, revenue : Nat, bonus : Nat, worked : Nat],
         NEW p \in Nat, NEW o \in Nat,
         x.washes = r.washes + 1, x.revenue = r.revenue + p, x.bonus = r.bonus + o,
         x.worked = r.worked
  PROVE  [r EXCEPT !.washes = @ + 1, !.revenue = @ + p, !.bonus = @ + o] = x
<1> DEFINE y == [r EXCEPT !.washes = @ + 1, !.revenue = @ + p, !.bonus = @ + o]
<1>1. /\ y \in [washes : Nat, revenue : Nat, bonus : Nat, worked : Nat]
      /\ y.washes = x.washes /\ y.revenue = x.revenue /\ y.bonus = x.bonus /\ y.worked = x.worked
  OBVIOUS
<1> HIDE DEF y
<1>2. y = x
  BY <1>1
<1> QED
  BY <1>2 DEF y

\* What a wash adds to the row of its washer.
LEMMA WashedLine ==
  ASSUME DaySound, LinesSound, NEW w \in dWashes, Day!CountWash(w)
  PROVE  /\ dLines' = Day!Put(w.employee, LineOf(w.employee)')
         /\ LineOf(w.employee)'.washes = LineOf(w.employee).washes + 1
         /\ LineOf(w.employee)'.revenue = LineOf(w.employee).revenue + w.price
         /\ LineOf(w.employee)'.bonus = LineOf(w.employee).bonus + w.bonus
<1> DEFINE a == w.employee
<1>1. /\ w \in DayWashes /\ a \in Employees /\ ClockedOf(a)' = ClockedOf(a)
      /\ CountedOf(a)' = CountedOf(a) \cup {w} /\ w \notin CountedOf(a)
  BY CountedMore
<1>2. w["price"] \in Nat /\ w["bonus"] \in Nat
  BY <1>1, DayRows
<1>3. /\ IsFiniteSet(CountedOf(a))
      /\ \A y \in CountedOf(a) \cup {w} : y["price"] \in Int
      /\ \A y \in CountedOf(a) \cup {w} : y["bonus"] \in Int
  BY <1>2, LineTypes
<1>4. Cardinality(CountedOf(a) \cup {w}) = Cardinality(CountedOf(a)) + 1
  BY <1>1, <1>3, FS_AddElement
<1>5. Day!Total(CountedOf(a) \cup {w}, "price") = Day!Total(CountedOf(a), "price") + w["price"]
  BY <1>1, <1>3, TotalAdds
<1>6. Day!Total(CountedOf(a) \cup {w}, "bonus") = Day!Total(CountedOf(a), "bonus") + w["bonus"]
  BY <1>1, <1>3, TotalAdds
<1>7. StoppedOf(a)' = StoppedOf(a)
  BY <1>1 DEF StoppedOf
<1>8. LineOf(a)' = [washes |-> Cardinality(CountedOf(a)) + 1,
                    revenue |-> Day!Total(CountedOf(a), "price") + w["price"],
                    bonus |-> Day!Total(CountedOf(a), "bonus") + w["bonus"],
                    worked |-> Day!Total(StoppedOf(a), "worked")]
  BY <1>1, <1>4, <1>5, <1>6, <1>7 DEF LineOf
<1>9. Day!Get(a) = LineOf(a)
  BY <1>1, GetIsLine
<1>10. dLines' = Day!Put(a, [LineOf(a) EXCEPT
         !.washes = @ + 1, !.revenue = @ + w.price, !.bonus = @ + w.bonus])
  BY <1>9 DEF Day!CountWash
<1>11. [LineOf(a) EXCEPT !.washes = @ + 1, !.revenue = @ + w.price, !.bonus = @ + w.bonus]
         = LineOf(a)'
  <2>1. LineOf(a) \in [washes : Nat, revenue : Nat, bonus : Nat, worked : Nat]
    BY LineTypes
  <2>2. /\ LineOf(a)'.washes = LineOf(a).washes + 1
        /\ LineOf(a)'.revenue = LineOf(a).revenue + w.price
        /\ LineOf(a)'.bonus = LineOf(a).bonus + w.bonus
        /\ LineOf(a)'.worked = LineOf(a).worked
    BY <1>8 DEF LineOf
  <2>3. LineOf(a)' = [washes |-> LineOf(a).washes + 1, revenue |-> LineOf(a).revenue + w.price,
                      bonus |-> LineOf(a).bonus + w.bonus, worked |-> LineOf(a).worked]
    BY <1>8 DEF LineOf
  <2> HIDE DEF a
  <2>4. LineOf(a)' \in [washes : Nat, revenue : Nat, bonus : Nat, worked : Nat]
    BY <1>2, <2>1, <2>3
  <2> QED
    BY <1>2, <2>1, <2>2, <2>4, RowPlusWash
<1>12. /\ LineOf(a)'.washes = LineOf(a).washes + 1
       /\ LineOf(a)'.revenue = LineOf(a).revenue + w.price
       /\ LineOf(a)'.bonus = LineOf(a).bonus + w.bonus
  BY <1>8 DEF LineOf
<1> QED
  BY <1>10, <1>11, <1>12

\* What an entry adds: its hours, when it was clocked out.
LEMMA WorkedLine ==
  ASSUME DaySound, LinesSound, NEW x \in dEntries, Day!CountEntry(x)
  PROVE  /\ dLines' = Day!Put(x.employee, LineOf(x.employee)')
         /\ LineOf(x.employee)'.washes = LineOf(x.employee).washes
         /\ LineOf(x.employee)'.revenue = LineOf(x.employee).revenue
         /\ LineOf(x.employee)'.bonus = LineOf(x.employee).bonus
<1> DEFINE a == x.employee
<1>1. /\ x \in DayEntries /\ a \in Employees /\ CountedOf(a)' = CountedOf(a)
      /\ ClockedOf(a)' = ClockedOf(a) \cup {x} /\ x \notin ClockedOf(a)
  BY ClockedMore
<1>2. x["worked"] \in Nat /\ x.running \in BOOLEAN
  BY <1>1, DayRows
<1>3. IsFiniteSet(StoppedOf(a)) /\ \A y \in StoppedOf(a) \cup {x} : y["worked"] \in Int
  BY <1>2, LineTypes DEF StoppedOf
<1>4. Day!Get(a) = LineOf(a)
  BY <1>1, GetIsLine
<1>5. dLines' = Day!Put(a, IF x.running THEN LineOf(a) ELSE [LineOf(a) EXCEPT !.worked = @ + x.worked])
  BY <1>4 DEF Day!CountEntry
<1>6. LineOf(a)' = [LineOf(a) EXCEPT !.worked = Day!Total(StoppedOf(a), "worked")']
  BY <1>1 DEF LineOf
<1>7. CASE x.running
  <2>1. StoppedOf(a)' = StoppedOf(a)
    BY <1>1, <1>7 DEF StoppedOf
  <2>2. LineOf(a)' = LineOf(a)
    BY <1>1, <2>1 DEF LineOf
  <2> QED
    BY <1>5, <1>7, <2>2
<1>8. CASE ~x.running
  <2>1. StoppedOf(a)' = StoppedOf(a) \cup {x} /\ x \notin StoppedOf(a)
    BY <1>1, <1>8 DEF StoppedOf
  <2>2. Day!Total(StoppedOf(a) \cup {x}, "worked") = Day!Total(StoppedOf(a), "worked") + x["worked"]
    BY <1>3, <2>1, TotalAdds
  <2>3. LineOf(a)' = [LineOf(a) EXCEPT !.worked = @ + x.worked]
    BY <1>1, <2>1, <2>2 DEF LineOf
  <2>4. /\ LineOf(a)'.washes = LineOf(a).washes
        /\ LineOf(a)'.revenue = LineOf(a).revenue
        /\ LineOf(a)'.bonus = LineOf(a).bonus
    BY <1>1 DEF LineOf
  <2> QED
    BY <1>5, <1>8, <2>3, <2>4
<1> QED
  BY <1>2, <1>7, <1>8

\* What the sums gain is what the row of the one employee concerned gains.
LEMMA SumsAgain ==
  ASSUME DaySound, LinesSound, SumsSound, NEW a \in Employees, NEW f \in {"washes", "revenue", "bonus"},
         DOMAIN dLines' = (DOMAIN dLines) \cup {a}, dLines'[a] = LineOf(a)', LineOf(a)'[f] \in Int,
         \A e \in DOMAIN dLines : e # a => dLines'[e] = dLines[e]
  PROVE  FieldSum(dLines', f) = dTotals[f] - LineOf(a)[f] + LineOf(a)'[f]
<1>1. IsFiniteSet(DOMAIN dLines) /\ dTotals[f] = FieldSum(dLines, f)
  BY DEF LinesSound, SumsSound
<1>2. \A e \in DOMAIN dLines : dLines[e][f] \in Int
  <2>1. ASSUME NEW e \in DOMAIN dLines PROVE dLines[e][f] \in Int
    <3>1. LineOf(e) \in [washes : Nat, revenue : Nat, bonus : Nat, worked : Nat]
      BY LineTypes
    <3> QED
      BY <3>1 DEF LinesSound
  <2> QED
    BY <2>1
<1>3. (IF a \in DOMAIN dLines THEN dLines[a][f] ELSE 0) = LineOf(a)[f]
  <2>1. a \in DOMAIN dLines => dLines[a] = LineOf(a)
    BY DEF LinesSound
  <2>2. a \notin DOMAIN dLines => LineOf(a)[f] = 0
    <3>1. SUFFICES ASSUME a \notin DOMAIN dLines PROVE LineOf(a)[f] = 0
      OBVIOUS
    <3>2. CountedOf(a) \cup ClockedOf(a) = {}
      BY <3>1 DEF LinesSound
    <3>3. LineOf(a) = Day!Nothing
      BY <3>2, LineTypes
    <3> QED
      BY <3>3 DEF Day!Nothing
  <2> QED
    BY <2>1, <2>2
<1>4. dLines'[a][f] \in Int
  OBVIOUS
<1>6. \A e \in DOMAIN dLines : dLines[e][f] \in Int /\ (e # a => dLines'[e] = dLines[e])
  BY <1>2
<1>5. FieldSum(dLines', f) = FieldSum(dLines, f)
        - (IF a \in DOMAIN dLines THEN dLines[a][f] ELSE 0) + dLines'[a][f]
  <2>1. OneRow(dLines, dLines', a, f)
    BY <1>1, <1>4, <1>6 DEF OneRow
  <2> QED
    BY <2>1, SumsAfterPut
<1> QED
  BY <1>1, <1>3, <1>5

LEMMA DayTypes ==
  ASSUME Day!TypeOK PROVE dTotals \in [washes : Nat, revenue : Nat, bonus : Nat]
BY DEF Day!TypeOK

\* The types of the rows come with the rows.
LEMMA RowsAreTyped ==
  /\ DaySound /\ LinesSound
  /\ dTotals \in [washes : Nat, revenue : Nat, bonus : Nat] /\ dList \in Seq(Employees)
  => Day!TypeOK
<1> SUFFICES ASSUME DaySound, LinesSound,
                    dTotals \in [washes : Nat, revenue : Nat, bonus : Nat],
                    dList \in Seq(Employees)
             PROVE  Day!TypeOK
  OBVIOUS
<1>1. /\ dBooks.washes \subseteq Day!Wash /\ dBooks.entries \subseteq Day!TimeEntry
      /\ dWashes \subseteq dBooks.washes /\ dEntries \subseteq dBooks.entries
  BY DayRows DEF DaySound
<1>2. DOMAIN dLines \subseteq Employees
  BY DEF LinesSound
<1>3. \A e \in DOMAIN dLines :
        dLines[e] \in [washes : Nat, revenue : Nat, bonus : Nat, worked : Nat]
  BY LineTypes DEF LinesSound
<1> QED
  BY <1>1, <1>2, <1>3 DEF Day!TypeOK

LEMMA WashKeepsDay == ASSUME DayInv, NEW w \in dWashes, Day!CountWash(w) PROVE DayInv'
<1> DEFINE a == w.employee
<1>1. Day!TypeOK /\ DaySound /\ LinesSound /\ SumsSound /\ ListSound
  BY DEF DayInv
<1>2. /\ w \in DayWashes /\ a \in Employees /\ DaySound'
      /\ \A e : ClockedOf(e)' = ClockedOf(e)
      /\ \A e : e # a => CountedOf(e)' = CountedOf(e)
      /\ CountedOf(a)' = CountedOf(a) \cup {w}
  BY <1>1, CountedMore
<1>3. /\ dLines' = Day!Put(a, LineOf(a)')
      /\ LineOf(a)'.washes = LineOf(a).washes + 1
      /\ LineOf(a)'.revenue = LineOf(a).revenue + w.price
      /\ LineOf(a)'.bonus = LineOf(a).bonus + w.bonus
  BY <1>1, WashedLine
<1>4. (CountedOf(a) \cup ClockedOf(a))' # {}
  BY <1>2
<1> HIDE DEF a
<1>5. /\ LinesSound'
      /\ DOMAIN dLines' = (DOMAIN dLines) \cup {a} /\ dLines'[a] = LineOf(a)'
      /\ \A e \in DOMAIN dLines : e # a => dLines'[e] = dLines[e]
  <2>1. \A e : e # a => CountedOf(e)' = CountedOf(e) /\ ClockedOf(e)' = ClockedOf(e)
    BY <1>2
  <2> QED
    BY <1>1, <1>2, <1>3, <1>4, <2>1, RowsAgain
<1>6. /\ w.price \in Nat /\ w.bonus \in Nat
      /\ LineOf(a) \in [washes : Nat, revenue : Nat, bonus : Nat, worked : Nat]
  BY <1>1, <1>2, DayRows, LineTypes
<1>7. dTotals' = [washes |-> dTotals.washes + 1, revenue |-> dTotals.revenue + w.price,
                  bonus |-> dTotals.bonus + w.bonus]
  BY DEF Day!CountWash
<1>8. dTotals \in [washes : Nat, revenue : Nat, bonus : Nat]
  BY <1>1, DayTypes
<1>9. SumsSound'
  <2>1. ASSUME NEW f \in {"washes", "revenue", "bonus"}
        PROVE  /\ LineOf(a)'[f] \in Int
               /\ dTotals'[f] = dTotals[f] - LineOf(a)[f] + LineOf(a)'[f]
    <3>1. CASE f = "washes"
      BY <1>3, <1>6, <1>7, <1>8, <3>1
    <3>2. CASE f = "revenue"
      BY <1>3, <1>6, <1>7, <1>8, <3>2
    <3>3. CASE f = "bonus"
      BY <1>3, <1>6, <1>7, <1>8, <3>3
    <3> QED
      BY <2>1, <3>1, <3>2, <3>3
  <2>2. ASSUME NEW f \in {"washes", "revenue", "bonus"}
        PROVE  dTotals'[f] = FieldSum(dLines', f)
    BY <1>1, <1>2, <1>5, <2>1, <2>2, SumsAgain
  <2> QED
    BY <2>2 DEF SumsSound
<1>10. dList = << >> /\ dList' = dList /\ dTotals' \in [washes : Nat, revenue : Nat, bonus : Nat]
  BY <1>1, <1>6, <1>7, <1>8 DEF Day!CountWash, ListSound
<1>11. Day!TypeOK'
  <2>1. dList' \in Seq(Employees)
    BY <1>1, <1>10 DEF Day!TypeOK
  <2>2. (/\ DaySound /\ LinesSound
         /\ dTotals \in [washes : Nat, revenue : Nat, bonus : Nat] /\ dList \in Seq(Employees))'
    BY <1>2, <1>5, <1>10, <2>1
  <2>3. (/\ DaySound /\ LinesSound
         /\ dTotals \in [washes : Nat, revenue : Nat, bonus : Nat] /\ dList \in Seq(Employees))'
          => Day!TypeOK'
    BY RowsAreTyped, PTL
  <2> QED
    BY <2>2, <2>3
<1> QED
  BY <1>2, <1>5, <1>9, <1>10, <1>11 DEF DayInv, ListSound

LEMMA EntryKeepsDay == ASSUME DayInv, NEW x \in dEntries, Day!CountEntry(x) PROVE DayInv'
<1> DEFINE a == x.employee
<1>1. Day!TypeOK /\ DaySound /\ LinesSound /\ SumsSound /\ ListSound
  BY DEF DayInv
<1>2. /\ x \in DayEntries /\ a \in Employees /\ DaySound'
      /\ \A e : CountedOf(e)' = CountedOf(e)
      /\ \A e : e # a => ClockedOf(e)' = ClockedOf(e)
      /\ ClockedOf(a)' = ClockedOf(a) \cup {x}
  BY <1>1, ClockedMore
<1>3. /\ dLines' = Day!Put(a, LineOf(a)')
      /\ LineOf(a)'.washes = LineOf(a).washes
      /\ LineOf(a)'.revenue = LineOf(a).revenue
      /\ LineOf(a)'.bonus = LineOf(a).bonus
  BY <1>1, WorkedLine
<1>4. (CountedOf(a) \cup ClockedOf(a))' # {}
  BY <1>2
<1> HIDE DEF a
<1>5. /\ LinesSound'
      /\ DOMAIN dLines' = (DOMAIN dLines) \cup {a} /\ dLines'[a] = LineOf(a)'
      /\ \A e \in DOMAIN dLines : e # a => dLines'[e] = dLines[e]
  <2>1. \A e : e # a => CountedOf(e)' = CountedOf(e) /\ ClockedOf(e)' = ClockedOf(e)
    BY <1>2
  <2> QED
    BY <1>1, <1>2, <1>3, <1>4, <2>1, RowsAgain
<1>6. LineOf(a) \in [washes : Nat, revenue : Nat, bonus : Nat, worked : Nat]
  BY <1>1, LineTypes
<1>7. dTotals' = dTotals /\ dTotals \in [washes : Nat, revenue : Nat, bonus : Nat]
  BY <1>1, DayTypes DEF Day!CountEntry
<1>9. SumsSound'
  <2>1. ASSUME NEW f \in {"washes", "revenue", "bonus"}
        PROVE  LineOf(a)'[f] \in Int /\ LineOf(a)'[f] = LineOf(a)[f] /\ dTotals[f] \in Int
    BY <1>3, <1>6, <1>7, <2>1
  <2>2. ASSUME NEW f \in {"washes", "revenue", "bonus"}
        PROVE  dTotals'[f] = FieldSum(dLines', f)
    <3>1. LineOf(a)'[f] \in Int /\ LineOf(a)'[f] = LineOf(a)[f] /\ dTotals[f] \in Int
      BY <2>1, <2>2
    <3>2. FieldSum(dLines', f) = dTotals[f] - LineOf(a)[f] + LineOf(a)'[f]
      BY <1>1, <1>2, <1>5, <2>2, <3>1, SumsAgain
    <3> QED
      BY <1>7, <3>1, <3>2
  <2> QED
    BY <2>2 DEF SumsSound
<1>10. dList = << >> /\ dList' = dList
  BY <1>1 DEF Day!CountEntry, ListSound
<1>11. Day!TypeOK'
  <2>1. dList' \in Seq(Employees)
    BY <1>1, <1>10 DEF Day!TypeOK
  <2>2. (/\ DaySound /\ LinesSound
         /\ dTotals \in [washes : Nat, revenue : Nat, bonus : Nat] /\ dList \in Seq(Employees))'
    BY <1>2, <1>5, <1>7, <2>1
  <2>3. (/\ DaySound /\ LinesSound
         /\ dTotals \in [washes : Nat, revenue : Nat, bonus : Nat] /\ dList \in Seq(Employees))'
          => Day!TypeOK'
    BY RowsAreTyped, PTL
  <2> QED
    BY <2>2, <2>3
<1> QED
  BY <1>2, <1>5, <1>9, <1>10, <1>11 DEF DayInv, ListSound

\* A sequence of as many different members as there are has them all.
LEMMA OnceEach ==
  ASSUME NEW S, IsFiniteSet(S), NEW q \in Day!SetToSeqs(S)
  PROVE  /\ q \in Seq(S) /\ DOMAIN q \subseteq Nat
         /\ {q[i] : i \in DOMAIN q} = S
         /\ \A i, j \in DOMAIN q : i # j => q[i] # q[j]
<1> DEFINE n == Cardinality(S)
           D == 1 .. n
<1>1. n \in Nat
  BY FS_CardinalityType
<1>2. q \in [D -> S] /\ \A i, j \in D : i # j => q[i] # q[j]
  BY DayCounts DEF Day!SetToSeqs
<1>3. IsFiniteSet(D) /\ Cardinality(D) = n
  BY <1>1, FS_Interval
<1>4. q \in Seq(S)
  BY <1>1, <1>2
<1>5. D \subseteq Nat
  OBVIOUS
<1> HIDE DEF D
<1>6. q \in Injection(D, S)
  BY <1>2 DEF Injection, IsInjective
<1>7. q \in Surjection(D, S)
  BY <1>3, <1>6, FS_Injection
<1>8. {q[i] : i \in D} = S
  BY <1>2, <1>7 DEF Surjection
<1> QED
  BY <1>2, <1>4, <1>5, <1>8

\* Nothing of the sums moves while nothing is counted.
LEMMA SameRows ==
  ASSUME DaySound, LinesSound, SumsSound, dBooks' = dBooks, dWashes' = dWashes,
         dEntries' = dEntries, dLines' = dLines, dTotals' = dTotals
  PROVE  DaySound' /\ LinesSound' /\ SumsSound'
<1>1. DayWashes' = DayWashes /\ DayEntries' = DayEntries
  BY DEF DayWashes, DayEntries
<1>2. Counted' = Counted /\ Clocked' = Clocked
  BY <1>1 DEF Counted, Clocked
<1>3. \A e : CountedOf(e)' = CountedOf(e) /\ ClockedOf(e)' = ClockedOf(e)
  BY <1>2 DEF CountedOf, ClockedOf
<1>4. \A e : LineOf(e)' = LineOf(e)
  BY <1>3, LineStays
<1>5. DaySound'
  BY <1>1 DEF DaySound
<1>6. LinesSound'
  BY <1>3, <1>4 DEF LinesSound
<1>7. SumsSound'
  BY DEF SumsSound
<1> QED
  BY <1>5, <1>6, <1>7

LEMMA SortKeepsDay == ASSUME DayInv, Day!Sort PROVE DayInv'
<1>1. Day!TypeOK /\ DaySound /\ LinesSound /\ SumsSound
  BY DEF DayInv
<1>2. /\ dWashes = {} /\ dEntries = {} /\ dList' \in Day!SetToSeqs(DOMAIN dLines)
      /\ \A i, j \in DOMAIN dList' : i < j => Day!Before(dList'[i], dList'[j])
      /\ dBooks' = dBooks /\ dWashes' = dWashes /\ dEntries' = dEntries
      /\ dLines' = dLines /\ dTotals' = dTotals
  BY DEF Day!Sort
<1>3. IsFiniteSet(DOMAIN dLines) /\ DOMAIN dLines \subseteq Employees
  BY <1>1 DEF LinesSound
<1>4. /\ dList' \in Seq(DOMAIN dLines) /\ DOMAIN dList' \subseteq Nat
      /\ {dList'[i] : i \in DOMAIN dList'} = DOMAIN dLines
      /\ \A i, j \in DOMAIN dList' : i # j => dList'[i] # dList'[j]
  BY <1>2, <1>3, OnceEach
<1>5. dList' \in Seq(Employees)
  BY <1>3, <1>4, SeqMonotonic
<1>6. Day!TypeOK'
  BY <1>1, <1>2, <1>5 DEF Day!TypeOK
<1>7. DaySound' /\ LinesSound' /\ SumsSound'
  BY <1>1, <1>2, SameRows
<1>8. ASSUME NEW i \in DOMAIN dList', NEW j \in DOMAIN dList', i < j
      PROVE  dList'[i] # dList'[j] /\ dLines[dList'[i]].revenue >= dLines[dList'[j]].revenue
  <2> DEFINE a == dList'[i]
             b == dList'[j]
  <2>1. i \in Nat /\ j \in Nat /\ a # b /\ a \in DOMAIN dLines /\ b \in DOMAIN dLines
    BY <1>4, <1>8
  <2>2. dLines[a].revenue > dLines[b].revenue \/ dLines[a].revenue = dLines[b].revenue
    BY <1>2, <1>8 DEF Day!Before
  <2>3. dLines[a].revenue \in Nat /\ dLines[b].revenue \in Nat
    BY <1>1, <2>1 DEF Day!TypeOK
  <2> QED
    BY <2>1, <2>2, <2>3
<1>9. ListSound'
  BY <1>2, <1>4, <1>8 DEF ListSound
<1> QED
  BY <1>6, <1>7, <1>9 DEF DayInv

LEMMA DayStarts == ASSUME Day!Init PROVE DayInv
<1>1. /\ dBooks.washes \in Washes /\ dBooks.entries \in Entries /\ dBooks.day \in 0 .. LastInstant
      /\ dWashes = DayWashes /\ dEntries = DayEntries
      /\ dLines = << >> /\ dTotals = [washes |-> 0, revenue |-> 0, bonus |-> 0] /\ dList = << >>
  BY DEF Day!Init, DayWashes, DayEntries
<1>2. DaySound /\ ListSound
  BY <1>1 DEF DaySound, ListSound
<1>3. DOMAIN dLines = {}
  BY <1>1
<1>4. \A e : CountedOf(e) = {} /\ ClockedOf(e) = {}
  BY <1>1 DEF CountedOf, ClockedOf, Counted, Clocked
<1>5. LinesSound
  BY <1>3, <1>4, FS_EmptySet DEF LinesSound
<1>6. SumsSound
  <2>1. ASSUME NEW f \in {"washes", "revenue", "bonus"} PROVE FieldSum(dLines, f) = 0
    <3> DEFINE F == [e \in DOMAIN dLines |-> dLines[e][f]]
    <3>1. DOMAIN F = {} /\ IsFiniteSet({})
      BY <1>3, FS_EmptySet
    <3>2. FieldSum(dLines, f) = Day!SumOf(F)
      BY DEF FieldSum
    <3> HIDE DEF F
    <3>3. Day!SumOf(F) = SumOver(F, {})
      BY <3>1, SumOfIsSum
    <3>4. SumOver(F, {}) = 0
      BY <3>1, SumStep
    <3> QED
      BY <3>2, <3>3, <3>4
  <2> QED
    BY <1>1, <2>1 DEF SumsSound
<1>7. Day!TypeOK
  <2>1. << >> \in Seq(Employees)
    OBVIOUS
  <2>2. dTotals \in [washes : Nat, revenue : Nat, bonus : Nat] /\ dList \in Seq(Employees)
    BY <1>1, <2>1
  <2> QED
    BY <1>2, <1>5, <2>2, RowsAreTyped
<1> QED
  BY <1>2, <1>5, <1>6, <1>7 DEF DayInv

DayGood == part = "day" => DayInv

LEMMA DayInvariant == Spec => []DayGood
<1>1. ASSUME Init PROVE DayGood
  BY <1>1, DayStarts DEF Init, DayGood
<1>2. ASSUME DayGood, [Next]_vars PROVE DayGood'
  <2> SUFFICES ASSUME part' = "day" PROVE DayInv'
    BY DEF DayGood
  <2>1. part = "day" /\ DayInv
    BY <1>2 DEF Next, vars, DayGood
  <2>2. CASE UNCHANGED vars
    <3>1. UNCHANGED <<dBooks, dWashes, dEntries, dLines, dTotals, dList>>
      BY <2>2 DEF vars, dVars
    <3> QED
      <4>1. DaySound' /\ LinesSound' /\ SumsSound'
        BY <2>1, <3>1, SameRows DEF DayInv
      <4> QED
        BY <2>1, <3>1, <4>1 DEF DayInv, Day!TypeOK, ListSound
  <2>3. CASE Day!Next
    BY <2>1, <2>3, WashKeepsDay, EntryKeepsDay, SortKeepsDay DEF Day!Next
  <2> QED
    BY <1>2, <2>1, <2>2, <2>3 DEF Next
<1> QED
  BY <1>1, <1>2, PTL DEF Spec

\* What comes out of the two loops and the sort of AggregateDaily is what the
\* day's completed washes and entries are, for everybody who was there.
THEOREM TheDayIsReported == Spec => []ReportsTheDay
<1>1. ASSUME DayGood PROVE ReportsTheDay
  <2> SUFFICES ASSUME DayInv, dList # << >> PROVE Day!ReportsTheDay
    BY <1>1 DEF DayGood, ReportsTheDay, Day!ReportsTheDay
  <2>1. Day!TypeOK /\ DaySound /\ LinesSound /\ SumsSound
        /\ dWashes = {} /\ dEntries = {}
        /\ {dList[i] : i \in DOMAIN dList} = DOMAIN dLines
        /\ \A i, j \in DOMAIN dList : i < j =>
             dList[i] # dList[j] /\ dLines[dList[i]].revenue >= dLines[dList[j]].revenue
    BY DEF DayInv, ListSound
  <2>2. Counted = DayWashes /\ Clocked = DayEntries
    BY <2>1 DEF Counted, Clocked
  <2>3. dBooks.day \in 0 .. LastInstant
    BY <2>1 DEF DaySound
  <2>4. \A w \in dBooks.washes : Day!Within(w.at, Day!DayRange(dBooks.day)) <=> Day!SameDay(w.at, dBooks.day)
    <3>1. \A w \in dBooks.washes : w.at \in 0 .. LastInstant
      BY <2>1 DEF Day!TypeOK, Day!Wash
    <3> QED
      BY <2>3, <3>1, DayRangeIsTheDay
  <2>5. \A x \in dBooks.entries : Day!Within(x.in, Day!DayRange(dBooks.day)) <=> Day!SameDay(x.in, dBooks.day)
    <3>1. \A x \in dBooks.entries : x.in \in 0 .. LastInstant
      BY <2>1 DEF Day!TypeOK, Day!TimeEntry
    <3> QED
      BY <2>3, <3>1, DayRangeIsTheDay
  <2>6. ASSUME NEW e PROVE CountedOf(e) = Day!Earned(e)
    BY <2>2, <2>4 DEF CountedOf, Day!Earned, DayWashes, Day!CompletedBetween
  <2>7. ASSUME NEW e PROVE ClockedOf(e) = Day!Worked(e)
    BY <2>2, <2>5 DEF ClockedOf, Day!Worked, DayEntries, Day!Listed
  <2>8. \A f \in {"washes", "revenue", "bonus"} :
          dTotals[f] = Day!SumOf([e \in DOMAIN dLines |-> dLines[e][f]])
    BY <2>1 DEF SumsSound, FieldSum
  <2>9. DOMAIN dLines = {e \in Employees : Day!Earned(e) \cup Day!Worked(e) # {}}
    BY <2>1, <2>6, <2>7 DEF LinesSound
  <2>10. ASSUME NEW e \in DOMAIN dLines
         PROVE  dLines[e] =
           [washes |-> Day!Cardinality(Day!Earned(e)), revenue |-> Day!Total(Day!Earned(e), "price"),
            bonus |-> Day!Total(Day!Earned(e), "bonus"),
            worked |-> Day!Total({x \in Day!Worked(e) : ~x.running}, "worked")]
    BY <2>1, <2>6, <2>7, DayCounts DEF LinesSound, LineOf, StoppedOf
  <2> QED
    BY <2>1, <2>8, <2>9, <2>10 DEF Day!ReportsTheDay
<1>2. DayGood => ReportsTheDay
  BY <1>1
<1> QED
  BY <1>2, DayInvariant, PTL
==============================================================================
