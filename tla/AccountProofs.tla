---------------------------- MODULE AccountProofs ----------------------------
(***************************************************************************)
(* The safety of UserAccount and Provisioning for any number of requests,  *)
(* registrations and failures.                                             *)
(***************************************************************************)
EXTENDS UserAccount, TLAPS

-----------------------------------------------------------------------------
(* How the backend starts.                                                 *)

\* What a step begins with; an administrator only if no call failed so far.
MadeInv ==
    /\ boot \notin {"login", "realm", "dead"} => "realm" \in made
    /\ boot \notin {"login", "realm", "client", "dead"} => "client" \in made
    /\ boot \notin {"login", "realm", "client", "role", "dead"} => "role" \in made
    /\ boot \in {"setPassword", "update", "sync"} => "admin" \in made
    /\ clean /\ boot \in {"assign", "serving"} => "admin" \in made /\ "password" \in made
    /\ clean /\ boot = "serving" => "adminRole" \in made

TriesInv == boot = "login" => tries < Tries

BootInv == ProvisioningOK /\ TriesInv /\ MadeInv

LEMMA BootInit == Init => BootInv
  BY ProvisioningAssumption
     DEF Init, BootInv, ProvisioningOK, TriesInv, MadeInv, Steps, Realm, Admin

LEMMA MakesFact ==
    ASSUME BootInv, NEW step, NEW x \in Realm \cup Admin,
           NEW next \in (Steps \cup {"serving"}) \ {"login"},
           NEW b \in (Steps \cup {"serving", "dead"}) \ {"login"}, Makes(step, x, next, b)
    PROVE  ProvisioningOK' /\ TriesInv'
<1> USE DEF Makes, BootInv, ProvisioningOK
<1>1. boot' \in (Steps \cup {"serving", "dead"}) \ {"login"}
  OBVIOUS
<1>2. tries' = tries /\ made' \subseteq Realm \cup Admin
  OBVIOUS
<1>3. clean' \in BOOLEAN
  OBVIOUS
<1>4. budget' \in Nat
  BY DEF Fails
<1> QED
  BY <1>1, <1>2, <1>3, <1>4 DEF TriesInv

LEMMA BootNext == BootInv /\ [Next]_vars => BootInv'
<1> SUFFICES ASSUME BootInv, [Next]_vars PROVE BootInv'
  OBVIOUS
<1> USE DEF BootInv, Steps
<1>1. CASE Login
  <2>1. tries' \in 0 .. Tries /\ TriesInv'
    BY <1>1, ProvisioningAssumption DEF Login, ProvisioningOK, TriesInv
  <2>2. boot' \in {"login", "realm", "dead"} /\ made' = made
    BY <1>1 DEF Login
  <2>3. clean' \in BOOLEAN
    BY <1>1 DEF Login, ProvisioningOK
  <2>4. budget' \in Nat
    BY <1>1 DEF Login, ProvisioningOK, Fails
  <2>5. ProvisioningOK'
    BY <2>1, <2>2, <2>3, <2>4 DEF ProvisioningOK, Realm
  <2>6. MadeInv'
    BY <2>2 DEF MadeInv
  <2> QED
    BY <2>1, <2>5, <2>6
<1>2. CASE EnsureRealm \/ EnsureClient \/ EnsureRealmRole
  <2>1. ProvisioningOK' /\ TriesInv'
    BY <1>2, MakesFact DEF EnsureRealm, EnsureClient, EnsureRealmRole, Realm
  <2>2. MadeInv'
    BY <1>2 DEF EnsureRealm, EnsureClient, EnsureRealmRole, Makes, MadeInv
  <2> QED
    BY <2>1, <2>2
<1>3. CASE FindAdmin
  <2>1. ProvisioningOK' /\ TriesInv'
    <3>1. boot' \in {"update", "serving"} /\ tries' = tries /\ made' = made
      BY <1>3 DEF FindAdmin
    <3>2. clean' \in BOOLEAN
      BY <1>3 DEF FindAdmin, ProvisioningOK
    <3>3. budget' \in Nat
      BY <1>3 DEF FindAdmin, Fails, ProvisioningOK
    <3> QED
      BY <3>1, <3>2, <3>3 DEF ProvisioningOK, TriesInv
  <2>2. MadeInv'
    BY <1>3 DEF FindAdmin, MadeInv
  <2> QED
    BY <2>1, <2>2
<1>4. CASE CreateAdmin \/ SetPassword \/ UpdateAdmin \/ SyncPassword \/ AssignRole
  <2>1. ProvisioningOK' /\ TriesInv'
    BY <1>4, MakesFact
       DEF CreateAdmin, SetPassword, UpdateAdmin, SyncPassword, AssignRole, Admin
  <2>2. MadeInv'
    BY <1>4 DEF CreateAdmin, SetPassword, UpdateAdmin, SyncPassword, AssignRole,
                Makes, MadeInv, ProvisioningOK
  <2> QED
    BY <2>1, <2>2
<1>5. CASE Start
  BY <1>5, ProvisioningAssumption DEF Start, ProvisioningOK, TriesInv, MadeInv
<1>6. CASE Crash
  BY <1>6 DEF Crash, Fails, ProvisioningOK, TriesInv, MadeInv
<1>7. CASE UNCHANGED booting /\ budget' \in Nat
  BY <1>7 DEF booting, ProvisioningOK, TriesInv, MadeInv
<1>8. UNCHANGED budget \/ Fails => budget' \in Nat
  BY DEF Fails, ProvisioningOK
<1>9. ASSUME NEW w \in Workers, CreateUser(w) \/ Loading(w) \/ Serves(w)
      PROVE  UNCHANGED booting /\ (UNCHANGED budget \/ Fails)
  BY <1>9 DEF CreateUser, Loading, Serves, Loads, LoadToApprove, LoadToForce, LoadToResend,
     LoadToActivate, SetUserPassword, Insert, Undo, SaveApproved, SaveRenewed,
     SaveForced, Writes, EnableApproved, EnableForced, EnableActivating, Enables,
     EnableWorks, EnableFails, DeleteUser, SaveActivated, Commit, Begins, Goes,
     Ends, Works, DbFails, KcFails
<1>10. Cleans \/ Lapse \/ UNCHANGED vars => UNCHANGED booting /\ (UNCHANGED budget \/ Fails)
  BY DEF Cleans, LoadExpired, DeleteExpiredUser, DeleteExpiredRow, DeleteUser,
     Lapse, Begins, Goes, Ends, Works, DbFails, KcFails, vars
<1> QED
  BY <1>1, <1>2, <1>3, <1>4, <1>5, <1>6, <1>7, <1>8, <1>9, <1>10
     DEF Next, Booting, Boots

-----------------------------------------------------------------------------
(* Rows.                                                                   *)

\* A row in every state the handlers leave it in.
Sound(r) ==
    /\ r.link # "none" => r.approved
    /\ r.activated => r.approved
    /\ r.approved /\ ~r.activated => r.link # "none"

Known == {r \in Row : r.kid <= kids /\ Sound(r)}

PC == {"idle"} \cup Registering \cup Changing \cup Cleaning
Held == {"approved", "commit"}
Keeping == {"resend", "force", "forced", "activate", "activated"}

LEMMA NoRowFact == NoRow \notin Row /\ NoRow \notin Known
  BY AccountAssumption DEF Row, Link, Known

\* What a handler makes of a row is a row of the same user.
LEMMA RowFacts ==
    ASSUME NEW r \in Known
    PROVE  /\ Approved(r) \in Known /\ Approved(r).kid = r.kid
           /\ ~r.activated => ~Approved(r).activated
           /\ r.approved => Renewed(r) \in Known /\ Activated(r) \in Known
           /\ Renewed(r).kid = r.kid /\ Activated(r).kid = r.kid
           /\ ~r.activated => ~Renewed(r).activated
  BY DEF Known, Row, Link, Sound, Approved, Renewed, Activated

LEMMA NewRowFact ==
    ASSUME NEW k \in 1 .. Kids
    PROVE  /\ NewRow(k) \in Row /\ NewRow(k).kid = k /\ Sound(NewRow(k))
           /\ ~NewRow(k).approved
  BY AccountAssumption DEF NewRow, Row, Link, Sound

LEMMA LapseFact ==
    ASSUME NEW r \in Known, r.link = "good"
    PROVE  /\ [r EXCEPT !.link = "lapsed"] \in Known
           /\ [r EXCEPT !.link = "lapsed"].kid = r.kid
           /\ [r EXCEPT !.link = "lapsed"].activated = r.activated
  BY DEF Known, Row, Link, Sound

Meets == \E v \in Workers : pc[Cleaner] \in Cleaning /\ pc[v] \in Changing

\* A worker goes on; the others stay where they are.
LEMMA BeginsFact ==
    ASSUME pc \in [All -> PC], copy \in [All -> Known \cup {NoRow}],
           NEW w \in All, NEW l \in PC, NEW r, Begins(w, l, r)
    PROVE  /\ pc' \in [All -> PC] /\ pc'[w] = l /\ copy'[w] = r
           /\ \A v \in All \ {w} : pc'[v] = pc[v] /\ copy'[v] = copy[v]
           /\ \A S : copy \in [All -> S] /\ r \in S => copy' \in [All -> S]
           /\ UNCHANGED <<booting, crashed>>
           /\ mixed => mixed'
           /\ Meets' => mixed'
<1>1. /\ pc' \in [All -> PC] /\ pc'[w] = l /\ copy'[w] = r
      /\ \A v \in All \ {w} : pc'[v] = pc[v] /\ copy'[v] = copy[v]
      /\ \A S : copy \in [All -> S] /\ r \in S => copy' \in [All -> S]
  BY DEF Begins
<1>2. UNCHANGED <<booting, crashed>>
  BY DEF Begins
<1>3. mixed' = (mixed \/ Meets')
  BY DEF Begins, Meets
<1> QED
  BY <1>1, <1>2, <1>3

\* What a worker has read or made fits what it is about to do.
StageOK(l, r) ==
    /\ l \notin Cleaning
    /\ l \in Registering => ~r.approved
    /\ l \in Keeping => r.approved
    /\ l \in {"approve", "resend"} => ~r.activated

WorkInv ==
    /\ pc \in [All -> PC]
    /\ copy \in [All -> Known \cup {NoRow}]
    /\ \A w \in All : copy[w] = NoRow <=> pc[w] = "idle"
    /\ \A w \in Workers : StageOK(pc[w], copy[w])
    /\ pc[Cleaner] \in {"idle"} \cup Cleaning

StoreInv ==
    /\ row \in Known \cup {NoRow}
    /\ draft \in Known \cup {NoRow}
    /\ lock \in Workers \cup {Nobody}
    /\ lock = Nobody <=> draft = NoRow

\* A transaction that has written is about to commit, and its row is the one
\* that is there, if one is.
LockInv ==
    /\ \A w \in Workers : pc[w] \in Held <=> lock = w
    /\ lock # Nobody /\ row # NoRow => row.kid = draft.kid

DataInv == KeycloakOK /\ StoreInv /\ WorkInv /\ LockInv

LEMMA IdleStage == \A r : StageOK("idle", r)
  BY DEF StageOK, Cleaning, Registering, Keeping

\* What Begins has to keep of WorkInv.
LEMMA BeginsKeeps ==
    ASSUME WorkInv, KeycloakOK, KeycloakOK', kids' >= kids,
           NEW w \in All, NEW l \in PC, NEW r \in Known' \cup {NoRow},
           r = NoRow <=> l = "idle",
           w \in Workers => StageOK(l, r),
           w = Cleaner => l \in {"idle"} \cup Cleaning,
           Begins(w, l, r)
    PROVE  WorkInv'
<1>1. Known \subseteq Known'
  BY DEF Known, KeycloakOK, Row
<1>2. /\ pc' \in [All -> PC] /\ pc'[w] = l
      /\ \A v \in All \ {w} : pc'[v] = pc[v]
  BY DEF Begins, WorkInv
<1>3. /\ copy' \in [All -> Known' \cup {NoRow}] /\ copy'[w] = r
      /\ \A v \in All \ {w} : copy'[v] = copy[v]
  BY <1>1 DEF Begins, WorkInv
<1>4. \A v \in All : copy'[v] = NoRow <=> pc'[v] = "idle"
  BY <1>2, <1>3 DEF WorkInv
<1>5. \A v \in Workers : StageOK(pc'[v], copy'[v])
  BY <1>2, <1>3 DEF WorkInv, All
<1>6. pc'[Cleaner] \in {"idle"} \cup Cleaning
  BY <1>2 DEF WorkInv, All
<1> QED
  BY <1>2, <1>3, <1>4, <1>5, <1>6 DEF WorkInv

\* The end of a request, which held no lock or gives it back.
LEMMA EndsKeeps ==
    ASSUME WorkInv, KeycloakOK, KeycloakOK', kids' >= kids, NEW w \in All, Ends(w)
    PROVE  WorkInv'
  BY BeginsKeeps, IdleStage DEF Ends, PC

LEMMA GoesKeeps ==
    ASSUME WorkInv, KeycloakOK, KeycloakOK', kids' >= kids,
           NEW w \in Workers, NEW l \in PC \ {"idle"}, pc[w] # "idle",
           StageOK(l, copy[w]), Goes(w, l)
    PROVE  WorkInv'
<1>1. copy[w] \in Known /\ w \in All
  BY DEF WorkInv, All
<1>2. copy[w] \in Known'
  BY <1>1 DEF Known, KeycloakOK, Row
<1>3. copy[w] # NoRow /\ w # Cleaner
  BY <1>1, NoRowFact, AccountAssumption
<1> QED
  BY <1>1, <1>2, <1>3, BeginsKeeps DEF Goes

\* Steps that leave the lock, the draft and the row alone keep LockInv when
\* the worker was and is where no lock is held.
LEMMA LockKeeps ==
    ASSUME LockInv, WorkInv, NEW w \in All, NEW l \in PC, NEW r, Begins(w, l, r),
           UNCHANGED store, l \in Held <=> pc[w] \in Held
    PROVE  LockInv'
<1>1. pc'[w] = l /\ \A v \in All \ {w} : pc'[v] = pc[v]
  BY DEF Begins, WorkInv
<1> QED
  BY <1>1 DEF LockInv, store, All

LEMMA KnownGrows ==
    ASSUME KeycloakOK, KeycloakOK', kids' >= kids
    PROVE  Known \subseteq Known'
  BY DEF Known, KeycloakOK, Row

\* A request that goes on or ends without a write.
LEMMA Moves ==
    ASSUME DataInv, KeycloakOK', kids' >= kids, UNCHANGED store, NEW w \in Workers,
           \/ pc[w] \notin Held /\ Ends(w)
           \/ \E l \in PC \ {"idle"} : /\ pc[w] # "idle" /\ StageOK(l, copy[w])
                                       /\ l \in Held <=> pc[w] \in Held
                                       /\ Goes(w, l)
    PROVE  DataInv'
<1> USE DEF DataInv
<1>1. w \in All /\ "idle" \in PC \ Held
  BY DEF All, PC, Held
<1>2. WorkInv'
  BY <1>1, EndsKeeps, GoesKeeps
<1>3. LockInv'
  BY <1>1, LockKeeps DEF Ends, Goes
<1>4. StoreInv'
  BY KnownGrows DEF StoreInv, store
<1> QED
  BY <1>2, <1>3, <1>4

LEMMA CreateUserKeeps ==
    ASSUME DataInv, NEW w \in Workers, CreateUser(w) PROVE DataInv'
<1> USE DEF DataInv
<1>1. KeycloakOK' /\ kids' \in 1 .. Kids /\ kids' >= kids
  <2>1. kids < Kids /\ kids' = kids + 1 /\ user' = kids' /\ enabled' = FALSE
    BY DEF CreateUser
  <2>2. kids' \in 1 .. Kids /\ kids' >= kids /\ kids' \in 0 .. Kids
    BY <2>1, AccountAssumption DEF KeycloakOK
  <2>3. enabled' \in BOOLEAN
    BY <2>1
  <2> QED
    BY <2>1, <2>2, <2>3 DEF KeycloakOK
<1>2. CASE Ends(w)
  BY <1>1, <1>2, Moves DEF CreateUser, At, Held
<1>3. CASE Begins(w, "password", NewRow(kids'))
  <2> DEFINE r == NewRow(kids')
  <2>1. r \in Known' /\ ~r.approved
    BY <1>1, NewRowFact DEF Known
  <2>2. "password" \in PC \ Held /\ StageOK("password", r) /\ w \in All /\ w # Cleaner
    BY <2>1, AccountAssumption
       DEF PC, Registering, Held, StageOK, Cleaning, Keeping, All
  <2>3. r # NoRow
    BY <2>1, NoRowFact DEF Known
  <2> HIDE DEF r
  <2>4. WorkInv'
    BY <1>1, <1>3, <2>1, <2>2, <2>3, BeginsKeeps DEF r
  <2>5. LockInv'
    BY <1>3, <2>2, LockKeeps DEF CreateUser, At, Held
  <2>6. StoreInv'
    BY <1>1, KnownGrows DEF StoreInv, CreateUser, store
  <2> QED
    BY <1>1, <2>4, <2>5, <2>6
<1> QED
  BY <1>2, <1>3 DEF CreateUser

LEMMA KeycloakFact ==
    ASSUME KeycloakOK, NEW k,
           \/ DeletedUser(k) \/ Enabled(k) \/ UNCHANGED keycloak
    PROVE  KeycloakOK' /\ kids' >= kids
<1>1. CASE DeletedUser(k)
  <2>1. enabled' \in BOOLEAN
    BY <1>1, Zenon DEF DeletedUser
  <2>2. user' \in {user, Nobody} /\ kids' = kids
    BY <1>1 DEF DeletedUser
  <2> QED
    BY <2>1, <2>2 DEF KeycloakOK
<1>2. CASE Enabled(k)
  BY <1>2 DEF KeycloakOK, Enabled
<1>3. CASE UNCHANGED keycloak
  BY <1>3 DEF KeycloakOK, keycloak
<1> QED
  BY <1>1, <1>2, <1>3

LEMMA DeleteUserFact ==
    ASSUME KeycloakOK, NEW k, DeleteUser(k)
    PROVE  KeycloakOK' /\ kids' >= kids
  BY KeycloakFact DEF DeleteUser

LEMMA EnableUserFact ==
    ASSUME KeycloakOK, NEW k, EnableWorks(k) \/ EnableFails(k)
    PROVE  KeycloakOK' /\ kids' >= kids
  BY KeycloakFact DEF EnableWorks, EnableFails

LEMMA LoadsKeeps ==
    ASSUME DataInv, NEW w \in Workers, Loading(w) PROVE DataInv'
<1> USE DEF DataInv
<1>1. PICK l \in {"approve", "force", "resend", "activate"} :
          Loads(w, l) /\ StageOK(l, row)
  <2>1. row \in Known \/ row = NoRow
    BY DEF StoreInv
  <2> QED
    BY <2>1 DEF Loading, LoadToApprove, LoadToForce, LoadToResend, LoadToActivate, Loads,
        StageOK, Cleaning, Registering, Keeping, Known, Sound
<1>2. /\ row \in Known /\ row # NoRow /\ KeycloakOK' /\ kids' >= kids
      /\ UNCHANGED store /\ pc[w] = "idle" /\ Begins(w, l, row)
  BY <1>1 DEF Loads, At, StoreInv, keycloak, KeycloakOK
<1>3. l \in PC \ Held /\ l # "idle" /\ w \in All /\ w # Cleaner
  BY AccountAssumption DEF PC, Held, Changing, All
<1>4. WorkInv'
  BY <1>1, <1>2, <1>3, KnownGrows, BeginsKeeps
<1>5. LockInv'
  BY <1>2, <1>3, LockKeeps DEF Held
<1>6. StoreInv'
  BY <1>2, KnownGrows DEF StoreInv, store
<1> QED
  BY <1>2, <1>4, <1>5, <1>6

LEMMA WritesKeeps ==
    ASSUME DataInv, NEW w \in Workers, NEW from, from # "idle", from \notin Held,
           NEW r \in Known, r.kid = copy[w].kid,
           NEW next \in Held, Writes(w, from, r, next)
    PROVE  DataInv'
<1> USE DEF DataInv
<1>1. /\ pc[w] = from /\ lock = Nobody /\ row' = row
      /\ KeycloakOK' /\ kids' >= kids /\ w \in All
  BY DEF Writes, At, Free, KeycloakOK, keycloak, All
<1>2. CASE lock' = w /\ draft' = r /\ Goes(w, next) /\ (row # NoRow => row.kid = r.kid)
  <2>1. StageOK(next, copy[w]) /\ next \in PC \ {"idle"}
    BY DEF Held, StageOK, Cleaning, Registering, Keeping, PC, Changing
  <2>2. WorkInv'
    BY <1>1, <1>2, <2>1, GoesKeeps
  <2>3. StoreInv'
    BY <1>1, <1>2, KnownGrows, NoRowFact, AccountAssumption DEF StoreInv
  <2>4. pc'[w] = next /\ \A v \in All \ {w} : pc'[v] = pc[v]
    BY <1>1, <1>2 DEF Goes, Begins, WorkInv
  <2>5. LockInv'
    BY <1>1, <1>2, <2>4, AccountAssumption DEF LockInv, All
  <2> QED
    BY <1>1, <2>2, <2>3, <2>5
<1>3. CASE UNCHANGED <<lock, draft>> /\ Ends(w)
  BY <1>1, <1>3, Moves DEF store
<1> QED
  BY <1>2, <1>3 DEF Writes, Saves

\* The row may change while nobody holds its lock.
LEMMA WriteEndsKeeps ==
    ASSUME DataInv, NEW w \in All, lock = Nobody, row' \in Known \cup {NoRow},
           UNCHANGED <<lock, draft, keycloak>>, Ends(w)
    PROVE  DataInv'
<1> USE DEF DataInv
<1>1. KeycloakOK' /\ kids' >= kids
  BY DEF KeycloakOK, keycloak
<1>2. WorkInv'
  BY <1>1, EndsKeeps
<1>3. StoreInv'
  BY <1>1, KnownGrows DEF StoreInv
<1>4. pc'[w] = "idle" /\ \A v \in All \ {w} : pc'[v] = pc[v]
  BY DEF Ends, Begins, WorkInv
<1>5. LockInv'
  BY <1>4, AccountAssumption DEF LockInv, All, Held
<1> QED
  BY <1>1, <1>2, <1>3, <1>5

LEMMA RegisterKeeps ==
    ASSUME DataInv, NEW w \in Workers, SetUserPassword(w) \/ Insert(w) \/ Undo(w)
    PROVE  DataInv'
<1> USE DEF DataInv
<1>1. w \in All /\ pc[w] \in Registering /\ pc[w] \notin Held /\ pc[w] # "idle"
  BY DEF SetUserPassword, Insert, Undo, At, All, Registering, Held
<1>2. copy[w] \in Known /\ \A l \in Registering : StageOK(l, copy[w])
  BY <1>1 DEF WorkInv, StageOK, Registering, Cleaning, Keeping
<1>3. \A l \in Registering : l \in PC \ {"idle"} /\ l \notin Held
  BY DEF PC, Registering, Held
<1>4. UNCHANGED keycloak => KeycloakOK' /\ kids' >= kids
  BY DEF KeycloakOK, keycloak
<1>5. CASE SetUserPassword(w)
  BY <1>1, <1>2, <1>3, <1>4, <1>5, Moves DEF SetUserPassword, Registering
<1>6. CASE Undo(w)
  BY <1>1, <1>6, DeleteUserFact, Moves DEF Undo
<1>7. CASE Insert(w)
  <2>1. CASE Goes(w, "undo")
    <3>1. UNCHANGED store /\ UNCHANGED keycloak
      BY <1>1, <1>7, <2>1 DEF Insert, store, Goes, Ends, Begins, WorkInv
    <3> QED
      BY <1>1, <1>2, <1>3, <1>4, <2>1, <3>1, Moves DEF Registering
  <2>2. CASE Ends(w) /\ row' = copy[w]
    BY <1>1, <1>2, <1>7, <2>2, WriteEndsKeeps DEF Insert, Free
  <2> QED
    BY <1>7, <2>1, <2>2 DEF Insert
<1> QED
  BY <1>5, <1>6, <1>7

LEMMA EnablesKeeps ==
    ASSUME DataInv, NEW w \in Workers,
           EnableApproved(w) \/ EnableForced(w) \/ EnableActivating(w)
    PROVE  DataInv'
<1> USE DEF DataInv
<1>1. pc[w] \in Changing /\ copy[w] \in Known /\ StageOK(pc[w], copy[w])
  BY DEF EnableApproved, EnableForced, EnableActivating, Enables, At, WorkInv,
         All, Changing
<1>2. UNCHANGED store /\ KeycloakOK' /\ kids' >= kids
  BY EnableUserFact DEF EnableApproved, EnableForced, EnableActivating, Enables
<1>3. CASE EnableApproved(w)
  <2>1. "commit" \in PC \ {"idle"} /\ "commit" \in Held /\ StageOK("commit", copy[w])
    BY DEF PC, Changing, Held, StageOK, Cleaning, Registering, Keeping
  <2> QED
    BY <1>2, <1>3, <2>1, Moves DEF EnableApproved, Enables, At, Held
<1>4. CASE EnableForced(w)
  <2>1. "forced" \in PC \ {"idle"} /\ "forced" \notin Held /\ StageOK("forced", copy[w])
    BY <1>1, <1>4 DEF EnableForced, Enables, At, PC, Changing, Held, StageOK,
                      Cleaning, Registering, Keeping
  <2> QED
    BY <1>2, <1>4, <2>1, Moves DEF EnableForced, Enables, At, Held
<1>5. CASE EnableActivating(w)
  <2>1. "activated" \in PC \ {"idle"} /\ "activated" \notin Held
        /\ StageOK("activated", copy[w])
    BY <1>1, <1>5 DEF EnableActivating, Enables, At, PC, Changing, Held, StageOK,
                      Cleaning, Registering, Keeping
  <2> QED
    BY <1>2, <1>5, <2>1, Moves DEF EnableActivating, Enables, At, Held
<1> QED
  BY <1>3, <1>4, <1>5

LEMMA SavesKeeps ==
    ASSUME DataInv, NEW w \in Workers,
           SaveApproved(w) \/ SaveRenewed(w) \/ SaveForced(w) \/ SaveActivated(w)
    PROVE  DataInv'
<1> USE DEF DataInv
<1>1. pc[w] \in Changing /\ pc[w] # "idle" /\ w \in All
  BY DEF SaveApproved, SaveRenewed, SaveForced, SaveActivated, Writes, At, All, Changing
<1>2. copy[w] \in Known /\ StageOK(pc[w], copy[w])
  BY <1>1 DEF WorkInv
<1>3. CASE SaveApproved(w)
  BY <1>2, <1>3, RowFacts, WritesKeeps DEF SaveApproved, Held
<1>4. CASE SaveRenewed(w)
  <2>1. copy[w].approved
    BY <1>2, <1>4 DEF SaveRenewed, Writes, At, StageOK, Keeping
  <2> QED
    BY <1>2, <1>4, <2>1, RowFacts, WritesKeeps DEF SaveRenewed, Held
<1>5. CASE SaveForced(w)
  <2>1. copy[w].approved
    BY <1>2, <1>5 DEF SaveForced, Writes, At, StageOK, Keeping
  <2> QED
    BY <1>2, <1>5, <2>1, RowFacts, WritesKeeps DEF SaveForced, Held
<1>6. CASE SaveActivated(w)
  <2>1. copy[w].approved
    BY <1>2, <1>6 DEF SaveActivated, At, StageOK, Keeping
  <2>2. Activated(copy[w]) \in Known
    BY <1>2, <2>1, RowFacts
  <2>3. row' \in Known \cup {NoRow}
    BY <1>6, <2>2 DEF SaveActivated, StoreInv
  <2> QED
    BY <1>1, <1>6, <2>3, WriteEndsKeeps DEF SaveActivated, Free
<1> QED
  BY <1>3, <1>4, <1>5, <1>6

LEMMA CommitKeeps ==
    ASSUME DataInv, NEW w \in Workers, Commit(w) PROVE DataInv'
<1> USE DEF DataInv
<1>1. lock = w /\ KeycloakOK' /\ kids' >= kids /\ w \in All
  BY DEF Commit, At, LockInv, Held, KeycloakOK, keycloak, All
<1>2. WorkInv'
  BY <1>1, EndsKeeps DEF Commit
<1>3. StoreInv'
  BY <1>1, KnownGrows DEF Commit, StoreInv
<1>4. pc'[w] = "idle" /\ \A v \in All \ {w} : pc'[v] = pc[v]
  BY <1>1 DEF Commit, Ends, Begins, WorkInv
<1>5. LockInv'
  BY <1>1, <1>4, AccountAssumption DEF Commit, LockInv, All, Held
<1> QED
  BY <1>1, <1>2, <1>3, <1>5

LEMMA CleansKeeps == ASSUME DataInv, Cleans PROVE DataInv'
<1> USE DEF DataInv
<1>1. Cleaner \in All /\ Cleaner \notin Workers
  BY AccountAssumption DEF All
<1>2. CASE LoadExpired
  <2>1. /\ row \in Known /\ row # NoRow /\ KeycloakOK' /\ kids' >= kids
        /\ UNCHANGED store /\ pc[Cleaner] = "idle" /\ Begins(Cleaner, "deleteUser", row)
    BY <1>2 DEF LoadExpired, Lapsed, At, StoreInv, keycloak, KeycloakOK
  <2>2. "deleteUser" \in PC \ Held /\ "deleteUser" \in Cleaning
    BY DEF PC, Held, Cleaning
  <2>3. WorkInv'
    BY <1>1, <2>1, <2>2, KnownGrows, BeginsKeeps
  <2>4. LockInv'
    BY <1>1, <2>1, <2>2, LockKeeps DEF Held
  <2>5. StoreInv'
    BY <2>1, KnownGrows DEF StoreInv, store
  <2> QED
    BY <2>1, <2>3, <2>4, <2>5
<1>3. CASE DeleteExpiredUser
  <2>1. /\ KeycloakOK' /\ kids' >= kids /\ UNCHANGED store /\ pc[Cleaner] = "deleteUser"
        /\ Begins(Cleaner, "deleteRow", copy[Cleaner])
    BY <1>3, DeleteUserFact DEF DeleteExpiredUser, At, Goes
  <2>2. "deleteRow" \in PC \ Held /\ "deleteRow" \in Cleaning /\ "deleteUser" \notin Held
    BY DEF PC, Held, Cleaning
  <2>3. copy[Cleaner] \in Known /\ copy[Cleaner] # NoRow
    BY <1>1, <2>1 DEF WorkInv
  <2>4. WorkInv'
    BY <1>1, <2>1, <2>2, <2>3, KnownGrows, BeginsKeeps
  <2>5. LockInv'
    BY <1>1, <2>1, <2>2, LockKeeps
  <2>6. StoreInv'
    BY <2>1, KnownGrows DEF StoreInv, store
  <2> QED
    BY <2>1, <2>4, <2>5, <2>6
<1>4. CASE DeleteExpiredRow
  <2>1. row' \in Known \cup {NoRow}
    BY <1>4 DEF DeleteExpiredRow, StoreInv
  <2> QED
    BY <1>1, <1>4, <2>1, WriteEndsKeeps DEF DeleteExpiredRow, Free
<1> QED
  BY <1>2, <1>3, <1>4 DEF Cleans

LEMMA LapseKeeps == ASSUME DataInv, Lapse PROVE DataInv'
<1> USE DEF DataInv
<1>1. UNCHANGED <<lock, draft, keycloak, pc, copy>> /\ KeycloakOK' /\ Known' = Known
  BY DEF Lapse, keycloak, work, KeycloakOK, Known
<1>2. row \in Known /\ row # NoRow /\ row' \in Known /\ row' # NoRow /\ row'.kid = row.kid
  BY LapseFact, NoRowFact DEF Lapse, StoreInv
<1>3. StoreInv' /\ LockInv'
  BY <1>1, <1>2 DEF StoreInv, LockInv
<1>4. WorkInv'
  BY <1>1 DEF WorkInv
<1> QED
  BY <1>1, <1>3, <1>4

LEMMA CrashKeeps == ASSUME DataInv, Crash PROVE DataInv'
<1> USE DEF DataInv
<1>1. KeycloakOK' /\ Known' = Known /\ row' = row
  BY DEF Crash, keycloak, KeycloakOK, Known
<1>2. \A w \in All : pc'[w] = "idle" /\ copy'[w] = NoRow
  BY DEF Crash
<1>3. StoreInv'
  BY <1>1 DEF Crash, StoreInv
<1>4. LockInv'
  BY <1>2, AccountAssumption DEF Crash, LockInv, All, Held
<1>5. WorkInv'
  <2>1. pc' \in [All -> PC] /\ copy' \in [All -> Known' \cup {NoRow}]
    BY DEF Crash, PC
  <2> QED
    BY <1>2, <2>1, IdleStage DEF WorkInv, All
<1> QED
  BY <1>1, <1>3, <1>4, <1>5

LEMMA StutterKeeps ==
    ASSUME DataInv, UNCHANGED <<store, keycloak, work>> PROVE DataInv'
  BY DEF DataInv, StoreInv, WorkInv, LockInv, KeycloakOK, Known, store, keycloak, work

LEMMA DataInit == Init => DataInv
<1> SUFFICES ASSUME Init PROVE DataInv
  OBVIOUS
<1>1. StoreInv
  BY DEF Init, StoreInv
<1>4. KeycloakOK
  <2>1. enabled = FALSE /\ user = Nobody /\ kids = 0 /\ 0 \in 0 .. Kids
    BY AccountAssumption DEF Init
  <2> QED
    BY <2>1 DEF KeycloakOK
<1>2. WorkInv
  BY IdleStage DEF Init, WorkInv, PC, All
<1>3. LockInv
  BY AccountAssumption DEF Init, LockInv, All, Held
<1> QED
  BY <1>1, <1>4, <1>2, <1>3 DEF DataInv

LEMMA DataNext == DataInv /\ [Next]_vars => DataInv'
<1> SUFFICES ASSUME DataInv, [Next]_vars PROVE DataInv'
  OBVIOUS
<1>1. ASSUME NEW w \in Workers, CreateUser(w) \/ Loading(w) \/ Serves(w)
      PROVE  DataInv'
  BY <1>1, CreateUserKeeps, LoadsKeeps, RegisterKeeps, EnablesKeeps, SavesKeeps,
     CommitKeeps DEF Serves
<1>2. CASE Booting \/ UNCHANGED vars
  BY <1>2, StutterKeeps DEF Booting, vars
<1> QED
  BY <1>1, <1>2, CleansKeeps, LapseKeeps, CrashKeeps DEF Next

LEMMA HistoryNext == HistoryOK /\ [Next]_vars => HistoryOK'
<1> SUFFICES ASSUME HistoryOK, [Next]_vars PROVE HistoryOK'
  OBVIOUS
<1>1. ASSUME NEW w \in All, NEW l, NEW r, Begins(w, l, r), kcFailed' \in BOOLEAN
      PROVE  HistoryOK'
  <2>1. crashed' \in BOOLEAN
    BY <1>1 DEF Begins, HistoryOK
  <2>2. mixed' = (mixed \/ Meets')
    BY <1>1 DEF Begins, Meets
  <2>3. mixed' \in BOOLEAN
    BY <2>2
  <2> QED
    BY <1>1, <2>1, <2>3 DEF HistoryOK
<1>2. ASSUME NEW w \in Workers, CreateUser(w) \/ Loading(w) \/ Serves(w)
      PROVE  HistoryOK'
  <2>1. kcFailed' \in {kcFailed, TRUE}
    BY <1>2 DEF CreateUser, Loading, Serves, Loads, LoadToApprove, LoadToForce,
       LoadToResend, LoadToActivate, SetUserPassword, Insert, Undo, SaveApproved,
       SaveRenewed, SaveForced, Writes, EnableApproved, EnableForced,
       EnableActivating, Enables, EnableWorks, EnableFails, DeleteUser,
       SaveActivated, Commit, Works, DbFails, KcFails
  <2>2. \E l, r : Begins(w, l, r)
    BY <1>2 DEF CreateUser, Loading, Serves, Loads, LoadToApprove, LoadToForce,
       LoadToResend, LoadToActivate, SetUserPassword, Insert, Undo, SaveApproved,
       SaveRenewed, SaveForced, Writes, EnableApproved, EnableForced,
       EnableActivating, Enables, SaveActivated, Commit, Goes, Ends
  <2>3. w \in All /\ kcFailed' \in BOOLEAN
    BY <2>1 DEF All, HistoryOK
  <2> QED
    BY <1>1, <2>2, <2>3
<1>3. CASE Cleans
  <2>1. kcFailed' \in {kcFailed, TRUE}
    BY <1>3 DEF Cleans, LoadExpired, DeleteExpiredUser, DeleteExpiredRow, DeleteUser,
       Works, DbFails, KcFails
  <2>2. \E l, r : Begins(Cleaner, l, r)
    BY <1>3 DEF Cleans, LoadExpired, DeleteExpiredUser, DeleteExpiredRow, Goes, Ends
  <2>3. Cleaner \in All /\ kcFailed' \in BOOLEAN
    BY <2>1 DEF All, HistoryOK
  <2> QED
    BY <1>1, <2>2, <2>3
<1>4. CASE Crash
  BY <1>4 DEF Crash, HistoryOK
<1>5. CASE Lapse \/ Booting \/ UNCHANGED vars
  BY <1>5 DEF Lapse, Booting, vars, history, HistoryOK
<1> QED
  BY <1>2, <1>3, <1>4, <1>5 DEF Next

TypeInv == BootInv /\ DataInv /\ HistoryOK

LEMMA TypeInit == Init => TypeInv
  BY BootInit, DataInit DEF TypeInv, Init, HistoryOK

LEMMA TypeNext == TypeInv /\ [Next]_vars => TypeInv'
  BY BootNext, DataNext, HistoryNext DEF TypeInv

LEMMA TypeInvariant == Spec => []TypeInv
  BY TypeInit, TypeNext, PTL DEF Spec

\* Types, and a transaction holds a lock exactly when it has written, through
\* failures of the commit and crashes.
THEOREM AccountTypes == Spec => []TypeOK
<1>1. Known \subseteq Row
  BY DEF Known
<1>2. TypeInv => TypeOK
  BY <1>1 DEF TypeInv, TypeOK, BootInv, DataInv, StoreInv, WorkInv, StoreOK, WorkOK, PC
<1> QED
  BY <1>2, TypeInvariant, PTL

\* The backend serves only over a complete realm, whichever calls failed and
\* wherever earlier starts stopped.
THEOREM AccountServesProvisioned == Spec => []ServesProvisioned
<1>1. TypeInv => ServesProvisioned
  BY DEF TypeInv, BootInv, MadeInv, ServesProvisioned, Realm
<1> QED
  BY <1>1, TypeInvariant, PTL

\* A start in which no call fails completes the administrator.
THEOREM AccountCleanStartHeals == Spec => []CleanStartHeals
<1>1. TypeInv => CleanStartHeals
  BY DEF TypeInv, BootInv, MadeInv, CleanStartHeals, Admin
<1> QED
  BY <1>1, TypeInvariant, PTL

\* No account is approved, not activated and without a link that can lapse,
\* however many requests overlap.
THEOREM AccountNoLimbo == Spec => []NoLimbo
<1>1. TypeInv => NoLimbo
  BY DEF TypeInv, DataInv, StoreInv, Known, Sound, NoLimbo
<1> QED
  BY <1>1, TypeInvariant, PTL

-----------------------------------------------------------------------------
(* Users in Keycloak and their rows.                                       *)

LoggedIn(r) == user = r.kid /\ enabled

\* Until its row is inserted nobody else knows the user a request has created.
PrivateInv ==
    \A w \in Workers : pc[w] \in Registering =>
        /\ row # NoRow => row.kid # copy[w].kid
        /\ draft # NoRow => draft.kid # copy[w].kid
        /\ \A v \in All \ {w} : copy[v] # NoRow => copy[v].kid # copy[w].kid

\* The cleanup deletes a row after the user, and users do not come back.
OrphanInv ==
    /\ NoOrphan
    /\ ~kcFailed /\ pc[Cleaner] = "deleteRow" => user # copy[Cleaner].kid

\* Whatever says "activated" belongs to an enabled user, and the cleanup is
\* after none of it.
LoginInv ==
    /\ Meets => mixed
    /\ ~mixed =>
         /\ row # NoRow /\ row.activated => LoggedIn(row)
         /\ draft # NoRow /\ draft.activated => LoggedIn(draft)
         /\ \A w \in Workers : pc[w] \in {"forced", "activated"} => LoggedIn(copy[w])
         /\ pc[Cleaner] \in Cleaning /\ row # NoRow /\ row.kid = copy[Cleaner].kid
              => ~row.activated

SafeInv == PrivateInv /\ OrphanInv /\ LoginInv

IInv == DataInv /\ SafeInv

LEMMA Begun ==
    ASSUME DataInv, NEW w \in All, NEW l \in PC, NEW r, Begins(w, l, r)
    PROVE  /\ pc'[w] = l /\ copy'[w] = r
           /\ \A v \in All \ {w} : pc'[v] = pc[v] /\ copy'[v] = copy[v]
           /\ crashed' = crashed
           /\ mixed => mixed'
           /\ Meets' => mixed'
  BY BeginsFact DEF DataInv, WorkInv

\* A request goes on with what it has, or ends, and Keycloak has the same user
\* as before.  If it gives up a registration then because of Keycloak.
LEMMA QuietMove ==
    ASSUME IInv, NEW w \in Workers, UNCHANGED store, user' = user, enabled => enabled',
           kcFailed => kcFailed',
           \/ Ends(w) /\ (pc[w] \in Registering => kcFailed')
           \/ \E l \in PC \ {"idle"} : 
                /\ Goes(w, l) /\ pc[w] # "idle"
                /\ l \in Registering <=> pc[w] \in Registering
                /\ l \in {"forced", "activated"} => user = copy[w].kid /\ enabled'
    PROVE  SafeInv'
<1> USE DEF IInv, SafeInv
<1>1. w \in All /\ Cleaner \in All /\ Cleaner # w /\ Workers \subseteq All
  BY AccountAssumption DEF All
<1>2. PICK l \in PC :
        /\ Begins(w, l, IF l = "idle" THEN NoRow ELSE copy[w])
        /\ l \in Registering => pc[w] \in Registering
        /\ pc[w] \in Registering => l \in Registering \/ kcFailed'
        /\ l \in {"forced", "activated"} => user = copy[w].kid /\ enabled'
  BY DEF Goes, Ends, PC, Registering
<1>3. /\ pc'[w] = l /\ copy'[w] = (IF l = "idle" THEN NoRow ELSE copy[w])
      /\ \A v \in All \ {w} : pc'[v] = pc[v] /\ copy'[v] = copy[v]
      /\ crashed' = crashed
      /\ mixed => mixed'
      /\ Meets' => mixed'
  BY <1>1, <1>2, Begun
<1>4. row' = row /\ draft' = draft
  BY DEF store
<1>5. PrivateInv'
  BY <1>1, <1>2, <1>3, <1>4 DEF PrivateInv, Registering
<1>6. OrphanInv'
  BY <1>1, <1>2, <1>3, <1>4 DEF OrphanInv, NoOrphan, Registering
<1>7. LoginInv'
  BY <1>1, <1>2, <1>3, <1>4 DEF LoginInv, LoggedIn
<1> QED
  BY <1>5, <1>6, <1>7

\* A request ends with the row its own, over the same user if there was a row.
LEMMA RowWrite ==
    ASSUME IInv, NEW w \in Workers, Ends(w), UNCHANGED <<draft, keycloak>>,
           kcFailed' = kcFailed,
           copy[w] \in Known, row' \in Known, row'.kid = copy[w].kid,
           row # NoRow => row.kid = copy[w].kid,
           row'.activated => pc[w] \in Changing /\ (~mixed => LoggedIn(copy[w]))
    PROVE  SafeInv'
<1> USE DEF IInv, SafeInv
<1>1. w \in All /\ Cleaner \in All /\ Cleaner # w /\ Workers \subseteq All
  BY AccountAssumption DEF All
<1>3. /\ pc'[w] = "idle" /\ copy'[w] = NoRow
      /\ \A v \in All \ {w} : pc'[v] = pc[v] /\ copy'[v] = copy[v]
      /\ crashed' = crashed
      /\ mixed => mixed'
      /\ Meets' => mixed'
  BY <1>1, Begun DEF Ends, PC
<1>4. user' = user /\ enabled' = enabled /\ draft' = draft
  BY DEF keycloak
<1>5. row' # NoRow /\ copy[w] # NoRow
  BY NoRowFact DEF Known
<1>6. PrivateInv'
  BY <1>1, <1>3, <1>4, <1>5 DEF PrivateInv, Registering
<1>7. OrphanInv'
  BY <1>1, <1>3, <1>4, <1>5 DEF OrphanInv, NoOrphan
<1>8. LoginInv'
  <2>1. pc[w] \in Changing /\ pc[Cleaner] \in Cleaning => mixed
    BY DEF LoginInv, Meets
  <2> QED
    BY <1>1, <1>3, <1>4, <1>5, <2>1 DEF LoginInv, LoggedIn
<1> QED
  BY <1>6, <1>7, <1>8

LEMMA CreateUserSafe ==
    ASSUME IInv, NEW w \in Workers, CreateUser(w) PROVE SafeInv'
<1> USE DEF IInv, SafeInv
<1>1. w \in All /\ Cleaner \in All /\ Cleaner # w /\ Workers \subseteq All
  BY AccountAssumption DEF All
<1>2. /\ kids' = kids + 1 /\ kids' \in 1 .. Kids /\ user' = kids' /\ user = Nobody
      /\ row' = row /\ draft' = draft /\ pc[w] = "idle"
      /\ kcFailed => kcFailed'
  BY AccountAssumption
     DEF CreateUser, At, store, DataInv, KeycloakOK, Works, KcFails
<1>s. row' = row /\ draft' = draft
  BY <1>2
<1>3. \A k \in Nat : user # k
  BY <1>2, AccountAssumption
<1>4. \A r \in Known : r.kid < kids' /\ r.kid # kids' /\ r.kid \in Nat /\ ~LoggedIn(r)
  BY <1>2, <1>3 DEF Known, DataInv, KeycloakOK, Row, LoggedIn
<1> DEFINE Choice(l, r) ==
        /\ Begins(w, l, r)
        /\ l = "idle" => r = NoRow /\ kcFailed'
        /\ l = "password" => r # NoRow /\ r.kid = kids' /\ ~r.activated
<1>c. PICK l \in {"idle", "password"} : \E r : Choice(l, r)
  <2>1. ~NewRow(kids').activated
    BY DEF NewRow
  <2> QED
    BY <1>2, <2>1, NewRowFact, NoRowFact DEF CreateUser, Ends, KcFails
<1>5. PICK r : Choice(l, r)
  BY <1>c
<1>6. /\ pc'[w] = l /\ copy'[w] = r
      /\ \A v \in All \ {w} : pc'[v] = pc[v] /\ copy'[v] = copy[v]
      /\ crashed' = crashed
      /\ mixed => mixed'
      /\ Meets' => mixed'
  BY <1>1, <1>c, <1>5, Begun DEF PC, Registering
<1>7. /\ row # NoRow => row \in Known
      /\ draft # NoRow => draft \in Known
      /\ \A v \in All : copy[v] # NoRow => copy[v] \in Known
      /\ \A v \in Workers : pc[v] # "idle" => copy[v] \in Known
      /\ pc[Cleaner] # "idle" => copy[Cleaner] \in Known
  BY <1>1 DEF DataInv, StoreInv, WorkInv
<1>k. /\ row # NoRow => row.kid # kids'
      /\ draft # NoRow => draft.kid # kids'
      /\ \A v \in All : copy[v] # NoRow => copy[v].kid # kids'
  BY <1>4, <1>7
<1>l. /\ row # NoRow => ~LoggedIn(row)
      /\ draft # NoRow => ~LoggedIn(draft)
      /\ \A v \in Workers : pc[v] # "idle" => ~LoggedIn(copy[v])
  BY <1>4, <1>7
<1>8. PrivateInv'
  <2>1. ASSUME NEW v \in Workers \ {w}, pc'[v] \in Registering
        PROVE  /\ row' # NoRow => row'.kid # copy'[v].kid
               /\ draft' # NoRow => draft'.kid # copy'[v].kid
               /\ \A u \in All \ {v} : copy'[u] # NoRow => copy'[u].kid # copy'[v].kid
    <3>1. pc[v] \in Registering /\ copy'[v] = copy[v] /\ copy[v].kid # kids'
      BY <1>1, <1>6, <1>7, <1>k, <2>1, NoRowFact DEF Registering
    <3>2. r # NoRow => r.kid # copy[v].kid
      BY <1>c, <1>5, <3>1
    <3>3. /\ row # NoRow => row.kid # copy[v].kid
          /\ draft # NoRow => draft.kid # copy[v].kid
          /\ \A u \in All \ {v} : copy[u] # NoRow => copy[u].kid # copy[v].kid
      BY <3>1 DEF PrivateInv
    <3>4. ASSUME NEW u \in All \ {v}, copy'[u] # NoRow
          PROVE  copy'[u].kid # copy[v].kid
      <4>1. CASE u = w
        BY <1>6, <3>2, <3>4, <4>1
      <4>2. CASE u # w
        BY <1>6, <3>3, <3>4, <4>2
      <4> QED
        BY <4>1, <4>2
    <3> QED
      BY <1>s, <3>1, <3>3, <3>4
  <2>2. ASSUME pc'[w] \in Registering
        PROVE  /\ row' # NoRow => row'.kid # copy'[w].kid
               /\ draft' # NoRow => draft'.kid # copy'[w].kid
               /\ \A u \in All \ {w} : copy'[u] # NoRow => copy'[u].kid # copy'[w].kid
    <3>1. copy'[w].kid = kids'
      BY <1>c, <1>5, <1>6, <2>2 DEF Registering
    <3>2. \A u \in All \ {w} : copy'[u] # NoRow => copy'[u].kid # kids'
      BY <1>6, <1>k
    <3> QED
      BY <1>s, <1>k, <3>1, <3>2
  <2> QED
    BY <2>1, <2>2 DEF PrivateInv
<1>9. OrphanInv'
  BY <1>1, <1>2, <1>4, <1>c, <1>5, <1>6, <1>7 DEF OrphanInv, NoOrphan, Registering
<1>10. LoginInv'
  <2>1. ~mixed' => /\ row # NoRow => ~row.activated
                   /\ draft # NoRow => ~draft.activated
    BY <1>6, <1>l DEF LoginInv
  <2>2. ~mixed' => \A v \in Workers : pc[v] \notin {"forced", "activated"}
    BY <1>6, <1>l DEF LoginInv
  <2> QED
    BY <1>1, <1>2, <1>c, <1>5, <1>6, <2>1, <2>2 DEF LoginInv
<1> QED
  BY <1>8, <1>9, <1>10

LEMMA UndoSafe ==
    ASSUME IInv, NEW w \in Workers, Undo(w) PROVE SafeInv'
<1> USE DEF IInv, SafeInv
<1>1. w \in All /\ Cleaner \in All /\ Cleaner # w /\ Workers \subseteq All
  BY AccountAssumption DEF All
<1>2. /\ pc[w] = "undo" /\ Ends(w) /\ row' = row /\ draft' = draft
      /\ kcFailed => kcFailed'
      /\ \/ user' = user /\ enabled' = enabled /\ kcFailed'
         \/ /\ user' = (IF user = copy[w].kid THEN Nobody ELSE user)
            /\ enabled' = (enabled /\ user # copy[w].kid)
  BY DEF Undo, At, DeleteUser, DeletedUser, store, keycloak, Works, KcFails
<1>3. /\ pc'[w] = "idle" /\ copy'[w] = NoRow
      /\ \A v \in All \ {w} : pc'[v] = pc[v] /\ copy'[v] = copy[v]
      /\ crashed' = crashed
      /\ mixed => mixed'
      /\ Meets' => mixed'
  BY <1>1, <1>2, Begun DEF Ends, PC
<1>4. /\ user # copy[w].kid => user' = user /\ (enabled => enabled')
      /\ kcFailed' \/ user' # copy[w].kid
  <2>1. copy[w].kid \in Nat
    BY <1>1, <1>2 DEF DataInv, WorkInv, Known, Row
  <2>2. user # copy[w].kid => user' = user
    BY <1>2
  <2>3. user # copy[w].kid => (enabled => enabled')
    BY <1>2
  <2>4. kcFailed' \/ user' # copy[w].kid
    BY <1>2, <2>1, AccountAssumption
  <2> QED
    BY <2>2, <2>3, <2>4
<1>5. PrivateInv'
  BY <1>1, <1>2, <1>3 DEF PrivateInv, Registering
<1>6. OrphanInv'
  <2>1. kcFailed' \/ user' = Nobody \/ user' = user
    BY <1>2
  <2>2. ~kcFailed' /\ pc[Cleaner] = "deleteRow" => user' # copy[Cleaner].kid
    <3>1. pc[Cleaner] = "deleteRow" => copy[Cleaner].kid \in Nat
      BY <1>1 DEF DataInv, WorkInv, Known, Row
    <3> QED
      BY <1>2, <2>1, <3>1, AccountAssumption DEF OrphanInv
  <2> QED
    BY <1>1, <1>2, <1>3, <1>4, <2>1, <2>2 DEF OrphanInv, NoOrphan, Registering
<1>7. LoginInv'
  <2>1. /\ row # NoRow => row.kid # copy[w].kid
        /\ draft # NoRow => draft.kid # copy[w].kid
        /\ \A v \in Workers \ {w} : copy[v] # NoRow => copy[v].kid # copy[w].kid
    BY <1>1, <1>2 DEF PrivateInv, Registering
  <2>2. \A v \in Workers : pc[v] # "idle" => copy[v] # NoRow
    BY <1>1 DEF DataInv, WorkInv
  <2> QED
    BY <1>1, <1>2, <1>3, <1>4, <2>1, <2>2 DEF LoginInv, LoggedIn
<1> QED
  BY <1>5, <1>6, <1>7

\* A request, or the cleanup, reads the row.
LEMMA LoadSafe ==
    ASSUME IInv, NEW w \in All, NEW l \in PC, l \notin Registering,
           l \notin {"forced", "activated", "deleteRow"}, pc[w] = "idle", row # NoRow,
           w = Cleaner => ~row.activated, w # Cleaner => l \notin Cleaning,
           UNCHANGED <<store, keycloak, kcFailed>>, Begins(w, l, row)
    PROVE  SafeInv'
<1> USE DEF IInv, SafeInv
<1>1. Cleaner \in All /\ Cleaner \notin Workers /\ Workers \subseteq All
  BY AccountAssumption DEF All
<1>2. /\ pc'[w] = l /\ copy'[w] = row
      /\ \A v \in All \ {w} : pc'[v] = pc[v] /\ copy'[v] = copy[v]
      /\ crashed' = crashed
      /\ mixed => mixed'
      /\ Meets' => mixed'
  BY Begun
<1>3. row' = row /\ draft' = draft /\ user' = user /\ enabled' = enabled
  BY DEF store, keycloak
<1>4. PrivateInv'
  BY <1>1, <1>2, <1>3 DEF PrivateInv
<1>5. OrphanInv'
  BY <1>1, <1>2, <1>3 DEF OrphanInv, NoOrphan, Registering
<1>6. LoginInv'
  BY <1>1, <1>2, <1>3 DEF LoginInv, LoggedIn
<1> QED
  BY <1>4, <1>5, <1>6

LEMMA WritesSafe ==
    ASSUME IInv, NEW w \in Workers, NEW from, from \in Changing, NEW r \in Known,
           r.kid = copy[w].kid,
           r.activated => from = "forced",
           NEW next \in Held, Writes(w, from, r, next)
    PROVE  SafeInv'
<1> USE DEF IInv, SafeInv
<1>1. w \in All /\ Cleaner \in All /\ Cleaner # w /\ Workers \subseteq All
  BY AccountAssumption DEF All
<1>2. /\ pc[w] = from /\ row' = row /\ user' = user /\ enabled' = enabled
      /\ kcFailed' = kcFailed
  BY DEF Writes, At, keycloak, Works, DbFails
<1>3. from \notin Registering /\ from # "idle" /\ next \notin Registering
      /\ next \notin {"forced", "activated"} /\ next \in PC \ {"idle"}
  BY DEF Changing, Registering, Held, PC
<1>4. CASE draft' = r /\ Goes(w, next)
  <2>1. /\ pc'[w] = next /\ \A v \in All : copy'[v] = copy[v]
        /\ \A v \in All \ {w} : pc'[v] = pc[v]
        /\ crashed' = crashed
        /\ mixed => mixed'
        /\ Meets' => mixed'
    BY <1>1, <1>3, <1>4, Begun DEF Goes
  <2>2. r # NoRow /\ copy[w] # NoRow
    BY <1>1, <1>2, <1>3, NoRowFact DEF DataInv, WorkInv
  <2>3. PrivateInv'
    BY <1>1, <1>2, <1>3, <1>4, <2>1, <2>2 DEF PrivateInv
  <2>4. OrphanInv'
    BY <1>1, <1>2, <1>3, <2>1 DEF OrphanInv, NoOrphan
  <2>5. LoginInv'
    BY <1>1, <1>2, <1>3, <1>4, <2>1, <2>2 DEF LoginInv, LoggedIn
  <2> QED
    BY <2>3, <2>4, <2>5
<1>5. CASE UNCHANGED <<lock, draft>> /\ Ends(w)
  BY <1>2, <1>3, <1>5, QuietMove DEF store
<1> QED
  BY <1>4, <1>5 DEF Writes

LEMMA CommitSafe ==
    ASSUME IInv, NEW w \in Workers, Commit(w) PROVE SafeInv'
<1> USE DEF IInv, SafeInv
<1>1. w \in All /\ Cleaner \in All /\ Cleaner # w /\ Workers \subseteq All
  BY AccountAssumption DEF All
<1>2. /\ pc[w] = "commit" /\ lock = w /\ Ends(w) /\ draft' = NoRow
      /\ user' = user /\ enabled' = enabled /\ kcFailed' = kcFailed
      /\ row' = draft \/ row' = row
  BY DEF Commit, At, keycloak, Works, DbFails, DataInv, LockInv, Held
<1>3. /\ pc'[w] = "idle" /\ copy'[w] = NoRow
      /\ \A v \in All \ {w} : pc'[v] = pc[v] /\ copy'[v] = copy[v]
      /\ crashed' = crashed
      /\ mixed => mixed'
      /\ Meets' => mixed'
  BY <1>1, <1>2, Begun DEF Ends, PC
<1>4. draft # NoRow /\ (row # NoRow => row.kid = draft.kid)
  BY <1>1, <1>2, AccountAssumption DEF DataInv, StoreInv, LockInv
<1>5. PrivateInv'
  BY <1>1, <1>2, <1>3 DEF PrivateInv, Registering
<1>6. OrphanInv'
  BY <1>1, <1>2, <1>3, <1>4 DEF OrphanInv, NoOrphan, Registering
<1>7. LoginInv'
  <2>1. pc[Cleaner] \in Cleaning => mixed
    BY <1>2 DEF LoginInv, Meets, Changing
  <2> QED
    BY <1>1, <1>2, <1>3, <1>4, <2>1 DEF LoginInv, LoggedIn
<1> QED
  BY <1>5, <1>6, <1>7

LEMMA RequestSafe ==
    ASSUME IInv, NEW w \in Workers, Loading(w) \/ Serves(w) PROVE SafeInv'
<1> USE DEF IInv
<1>1. w \in All /\ w # Cleaner
  BY AccountAssumption DEF All
<1>2. pc[w] # "idle" => copy[w] \in Known /\ StageOK(pc[w], copy[w])
  BY <1>1 DEF DataInv, WorkInv
<1>3. CASE Loading(w)
  <2>1. PICK l \in {"approve", "force", "resend", "activate"} : Loads(w, l)
    BY <1>3 DEF Loading, LoadToApprove, LoadToForce, LoadToResend, LoadToActivate
  <2>2. l \in PC /\ l \notin Registering /\ l \notin {"forced", "activated", "deleteRow"}
        /\ l \notin Cleaning
    BY DEF PC, Registering, Changing, Cleaning
  <2> QED
    BY <1>1, <2>1, <2>2, LoadSafe DEF Loads, At
<1>4. CASE SetUserPassword(w)
  <2>1. "insert" \in PC \ {"idle"} /\ "insert" \in Registering /\ pc[w] = "password"
        /\ "password" \in Registering
    BY <1>4 DEF SetUserPassword, At, PC, Registering
  <2> QED
    BY <1>4, <2>1, QuietMove DEF SetUserPassword, keycloak, Works, KcFails
<1>5. CASE Insert(w)
  <2>1. pc[w] = "insert" /\ kcFailed' = kcFailed /\ UNCHANGED <<lock, draft, keycloak>>
    BY <1>5 DEF Insert, At, Works, DbFails
  <2>2. CASE row = NoRow /\ row' = copy[w] /\ Ends(w)
    <3>1. ~copy[w].activated
      BY <1>2, <2>1 DEF StageOK, Registering, Known, Sound
    <3> QED
      BY <1>2, <2>1, <2>2, <3>1, RowWrite
  <2>3. CASE UNCHANGED row /\ Goes(w, "undo")
    <3>1. "undo" \in PC \ {"idle"} /\ "undo" \in Registering /\ "insert" \in Registering
      BY DEF PC, Registering
    <3> QED
      BY <2>1, <2>3, <3>1, QuietMove DEF store, keycloak
  <2> QED
    BY <1>5, <2>2, <2>3 DEF Insert
<1>6. CASE EnableApproved(w) \/ EnableForced(w) \/ EnableActivating(w)
  <2>1. PICK from \in {"approved", "force", "activate"}, l \in {"commit", "forced", "activated"},
             m \in {"commit", "idle"} : Enables(w, from, l, m)
    BY <1>6 DEF EnableApproved, EnableForced, EnableActivating
  <2>2. pc[w] = from /\ pc[w] # "idle" /\ pc[w] \notin Registering /\ UNCHANGED store
    BY <2>1 DEF Enables, At, Registering
  <2>3. l \in PC \ {"idle"} /\ l \notin Registering /\ m \in PC /\ m \notin Registering
        /\ m \notin {"forced", "activated"}
    BY DEF PC, Registering, Changing
  <2>4. CASE EnableWorks(copy[w].kid) /\ Goes(w, l)
    <3>1. user' = user /\ user = copy[w].kid /\ enabled' /\ kcFailed' = kcFailed
      BY <2>4 DEF EnableWorks, Enabled, Works
    <3> QED
      BY <2>2, <2>3, <2>4, <3>1, QuietMove
  <2>5. CASE EnableFails(copy[w].kid) /\ (Ends(w) \/ (m # "idle" /\ Goes(w, m)))
    <3>1. user' = user /\ (kcFailed => kcFailed')
      BY <2>5 DEF EnableFails, Enabled, KcFails, keycloak
    <3>2. enabled => enabled'
      BY <2>5 DEF EnableFails, Enabled, KcFails, keycloak
    <3> QED
      BY <2>2, <2>3, <2>5, <3>1, <3>2, QuietMove
  <2> QED
    BY <2>1, <2>4, <2>5 DEF Enables
<1>7. CASE SaveApproved(w) \/ SaveRenewed(w) \/ SaveForced(w)
  <2>1. pc[w] \in {"approve", "resend", "forced"}
    BY <1>7 DEF SaveApproved, SaveRenewed, SaveForced, Writes, At
  <2>2. copy[w] \in Known /\ StageOK(pc[w], copy[w])
    BY <1>2, <2>1
  <2>3. pc[w] \in Changing /\ (pc[w] # "forced" => ~copy[w].activated)
        /\ (pc[w] # "approve" => copy[w].approved)
    BY <2>1, <2>2 DEF StageOK, Changing, Keeping
  <2>4. PICK r \in Known, next \in Held :
             Writes(w, pc[w], r, next) /\ r.kid = copy[w].kid
             /\ (r.activated => pc[w] = "forced")
    <3>1. CASE SaveApproved(w)
      BY <2>2, <2>3, <3>1, RowFacts DEF SaveApproved, Writes, At, Held
    <3>2. CASE SaveRenewed(w)
      BY <2>2, <2>3, <3>2, RowFacts DEF SaveRenewed, Writes, At, Held
    <3>3. CASE SaveForced(w)
      BY <2>2, <2>3, <3>3, RowFacts DEF SaveForced, Writes, At, Held
    <3> QED
      BY <1>7, <3>1, <3>2, <3>3
  <2> QED
    BY <2>3, <2>4, WritesSafe
<1>8. CASE SaveActivated(w)
  <2>1. pc[w] = "activated" /\ copy[w] \in Known /\ copy[w].approved
    BY <1>2, <1>8 DEF SaveActivated, At, StageOK, Keeping
  <2>2. pc[w] \in Changing /\ pc[w] \notin Registering
    BY <2>1 DEF Changing, Registering
  <2>3. Ends(w) /\ UNCHANGED <<lock, draft, keycloak>> /\ kcFailed' = kcFailed
    BY <1>8 DEF SaveActivated, Works, DbFails
  <2>4. CASE UNCHANGED row
    BY <2>2, <2>3, <2>4, QuietMove DEF store, keycloak
  <2>5. CASE Saves(copy[w]) /\ row' = Activated(copy[w])
    <3>1. ~mixed => LoggedIn(copy[w])
      BY <2>1 DEF SafeInv, LoginInv
    <3>2. row' \in Known /\ row'.kid = copy[w].kid
      BY <2>1, <2>5, RowFacts
    <3> QED
      BY <2>1, <2>2, <2>3, <2>5, <3>1, <3>2, RowWrite DEF Saves
  <2> QED
    BY <1>8, <2>4, <2>5 DEF SaveActivated
<1> QED
  BY <1>3, <1>4, <1>5, <1>6, <1>7, <1>8, UndoSafe, CommitSafe DEF Serves

LEMMA CleansSafe == ASSUME IInv, Cleans PROVE SafeInv'
<1> USE DEF IInv, SafeInv
<1>1. Cleaner \in All /\ Cleaner \notin Workers /\ Workers \subseteq All
  BY AccountAssumption DEF All
<1>2. CASE LoadExpired
  <2>1. "deleteUser" \in PC /\ "deleteUser" \notin Registering
    BY DEF PC, Cleaning, Registering
  <2> QED
    BY <1>1, <1>2, <2>1, LoadSafe DEF LoadExpired, Lapsed, At
<1>3. CASE DeleteExpiredUser
  <2> DEFINE k == copy[Cleaner].kid
  <2>1. /\ pc[Cleaner] = "deleteUser" /\ Begins(Cleaner, "deleteRow", copy[Cleaner])
        /\ row' = row /\ draft' = draft
        /\ kcFailed => kcFailed'
        /\ \/ user' = user /\ enabled' = enabled /\ kcFailed'
           \/ user' = IF user = k THEN Nobody ELSE user
    BY <1>3 DEF DeleteExpiredUser, At, DeleteUser, DeletedUser, store, keycloak,
                Works, KcFails, Goes
  <2>2. /\ pc'[Cleaner] = "deleteRow" /\ copy' [Cleaner] = copy[Cleaner]
        /\ \A v \in All \ {Cleaner} : pc'[v] = pc[v] /\ copy'[v] = copy[v]
        /\ crashed' = crashed
        /\ mixed => mixed'
        /\ Meets' => mixed'
    BY <1>1, <2>1, Begun DEF PC, Cleaning
  <2>3. copy[Cleaner] \in Known /\ k \in Nat
    BY <1>1, <2>1 DEF DataInv, WorkInv, Known, Row
  <2>4. (kcFailed' \/ user' # k) /\ (user # k => user' = user)
        /\ (user' = user \/ user' = Nobody)
    BY <2>1, <2>3, AccountAssumption
  <2> HIDE DEF k
  <2>5. PrivateInv'
    BY <1>1, <2>1, <2>2 DEF PrivateInv
  <2>6. OrphanInv'
    BY <1>1, <2>1, <2>2, <2>4 DEF OrphanInv, NoOrphan, k
  <2>7. LoginInv'
    <3>1. ~mixed' => \A v \in Workers : pc[v] \notin Changing
      BY <1>1, <2>2 DEF Meets, Cleaning
    <3>2. ~mixed' => lock = Nobody
      BY <3>1 DEF DataInv, StoreInv, LockInv, Held, Changing
    <3>3. ~mixed' => draft = NoRow
      BY <3>2 DEF DataInv, StoreInv
    <3>4. ~mixed' => \A v \in Workers : pc[v] \notin {"forced", "activated"}
      BY <3>1 DEF Changing
    <3>5. ~mixed' /\ row # NoRow /\ row.kid = k => ~row.activated
      BY <2>1, <2>2 DEF LoginInv, Cleaning, k
    <3>6. ~mixed' /\ row # NoRow /\ row.activated => user = row.kid /\ enabled
      BY <2>2 DEF LoginInv, LoggedIn
    <3>7. user # k => enabled' = enabled
      BY <1>3 DEF DeleteExpiredUser, DeleteUser, DeletedUser, keycloak, KcFails, k,
                  DataInv, KeycloakOK
    <3>8. ~mixed' /\ row # NoRow /\ row.activated => user' = row.kid /\ enabled'
      BY <2>4, <3>5, <3>6, <3>7
    <3> QED
      BY <1>1, <2>1, <2>2, <3>3, <3>4, <3>5, <3>8 DEF LoginInv, LoggedIn, k
  <2> QED
    BY <2>5, <2>6, <2>7
<1>4. CASE DeleteExpiredRow
  <2>1. /\ pc[Cleaner] = "deleteRow" /\ Ends(Cleaner)
        /\ draft' = draft /\ user' = user /\ enabled' = enabled /\ kcFailed' = kcFailed
        /\ \/ row' = row
           \/ row' = NoRow /\ row.kid = copy[Cleaner].kid
    BY <1>4 DEF DeleteExpiredRow, At, keycloak, Works, DbFails
  <2>2. /\ pc'[Cleaner] = "idle" /\ copy' [Cleaner] = NoRow
        /\ \A v \in All \ {Cleaner} : pc'[v] = pc[v] /\ copy'[v] = copy[v]
        /\ crashed' = crashed
        /\ mixed => mixed'
        /\ Meets' => mixed'
    BY <1>1, <2>1, Begun DEF PC, Ends
  <2>3. PrivateInv'
    BY <1>1, <2>1, <2>2 DEF PrivateInv
  <2>4. OrphanInv'
    BY <1>1, <2>1, <2>2 DEF OrphanInv, NoOrphan
  <2>5. LoginInv'
    BY <1>1, <2>1, <2>2 DEF LoginInv, LoggedIn, Cleaning
  <2> QED
    BY <2>3, <2>4, <2>5
<1> QED
  BY <1>2, <1>3, <1>4 DEF Cleans

LEMMA OthersSafe ==
    ASSUME IInv, Lapse \/ Crash \/ Booting \/ UNCHANGED vars PROVE SafeInv'
<1> USE DEF IInv, SafeInv
<1>1. CASE Lapse
  <2>1. row \in Known /\ row # NoRow /\ row' # NoRow /\ row'.kid = row.kid
        /\ row'.activated = row.activated
    BY <1>1, LapseFact, NoRowFact DEF Lapse, DataInv, StoreInv
  <2>2. UNCHANGED <<draft, user, enabled, pc, copy, kcFailed, crashed, mixed>>
    BY <1>1 DEF Lapse, keycloak, work, history
  <2>3. PrivateInv'
    BY <2>1, <2>2 DEF PrivateInv
  <2>4. OrphanInv'
    BY <2>1, <2>2 DEF OrphanInv, NoOrphan
  <2>5. LoginInv'
    BY <2>1, <2>2 DEF LoginInv, LoggedIn, Meets
  <2> QED
    BY <2>3, <2>4, <2>5
<1>2. CASE Crash
  <2>1. /\ \A w \in All : pc'[w] = "idle"
        /\ UNCHANGED <<row, user, enabled, mixed>> /\ draft' = NoRow /\ crashed'
    BY <1>2 DEF Crash, keycloak
  <2>2. PrivateInv' /\ OrphanInv'
    BY <2>1 DEF PrivateInv, OrphanInv, NoOrphan, Registering, All
  <2>3. LoginInv'
    BY <2>1 DEF LoginInv, LoggedIn, Meets, Cleaning, All
  <2> QED
    BY <2>2, <2>3
<1>3. CASE Booting \/ UNCHANGED vars
  <2>1. UNCHANGED <<row, draft, user, enabled, pc, copy, kcFailed, crashed, mixed>>
    BY <1>3 DEF Booting, vars, store, keycloak, work, history
  <2> QED
    BY <2>1 DEF PrivateInv, OrphanInv, NoOrphan, LoginInv, LoggedIn, Meets
<1> QED
  BY <1>1, <1>2, <1>3

LEMMA SafeInit == Init => IInv
<1> SUFFICES ASSUME Init PROVE IInv
  OBVIOUS
<1>1. /\ \A w \in All : pc[w] = "idle" /\ copy[w] = NoRow
      /\ row = NoRow /\ draft = NoRow /\ user = Nobody
  BY DEF Init
<1>2. SafeInv
  BY <1>1 DEF SafeInv, PrivateInv, OrphanInv, NoOrphan, LoginInv, Meets,
              Registering, Cleaning, All
<1> QED
  BY <1>2, DataInit DEF IInv

LEMMA SafeNext == IInv /\ [Next]_vars => IInv'
<1> SUFFICES ASSUME IInv, [Next]_vars PROVE IInv'
  OBVIOUS
<1>1. SafeInv'
  BY CreateUserSafe, RequestSafe, CleansSafe, OthersSafe DEF Next
<1>2. DataInv'
  BY DataNext DEF IInv
<1> QED
  BY <1>1, <1>2 DEF IInv

LEMMA SafeInvariant == Spec => []IInv
  BY SafeInit, SafeNext, PTL DEF Spec

\* While Keycloak answers and the process lives no user is left behind there
\* without a row, however registrations overlap and the database fails.
THEOREM AccountNoOrphan == Spec => []NoOrphan
<1>1. IInv => NoOrphan
  BY DEF IInv, SafeInv, OrphanInv
<1> QED
  BY <1>1, SafeInvariant, PTL

\* As long as the cleanup meets no change of the account, whoever is activated
\* can log in: failures and crashes alone do not break that.
THEOREM AccountActivatedCanLogin == Spec => []ActivatedCanLogin
<1>1. IInv => ActivatedCanLogin
  BY DEF IInv, SafeInv, LoginInv, LoggedIn, ActivatedCanLogin
<1> QED
  BY <1>1, SafeInvariant, PTL
==============================================================================
