----------------------------- MODULE UserAccount -----------------------------
(***************************************************************************)
(* The account of one username: its row in the users table and its user in *)
(* Keycloak, which no transaction spans.  handlers/auth.go registers,      *)
(* approves, activates; the hourly loop of main.go deletes the accounts    *)
(* that were approved and not activated in time.                           *)
(*                                                                         *)
(* A worker is a request being served.  The three requests of an admin run *)
(* in the transaction ScopedDBMiddleware opens: a written row is locked    *)
(* and seen by others when it is committed, which is also what happens     *)
(* when the handler answers with an error.  Between two calls to the       *)
(* database or to Keycloak any other worker may run, each call may fail,   *)
(* and the process may crash and start again (Provisioning).               *)
(*                                                                         *)
(* The primary key of a row is made with its Keycloak id and names the     *)
(* same account, so the model has only the latter, kid.                    *)
(***************************************************************************)
EXTENDS Provisioning

CONSTANTS
    Workers,  \* requests that may be served at the same time
    Cleaner,  \* the goroutine of the hourly loop
    Kids,     \* bound: how many users may be created in Keycloak
    NoRow,    \* the row does not exist
    Nobody    \* no Keycloak user; no transaction

ASSUME AccountAssumption ==
    /\ Cleaner \notin Workers
    /\ Kids \in Nat
    /\ NoRow \notin [kid : 1 .. Kids, approved : BOOLEAN, activated : BOOLEAN,
                     link : {"none", "good", "lapsed"}]
    /\ Nobody \notin Nat \cup Workers

VARIABLES
    row,        \* the committed row of the username
    lock,       \* the transaction that has written it and not ended yet
    draft,      \* what that transaction has written
    user,       \* the Keycloak user of the username
    enabled,    \* whether that user is enabled
    kids,       \* how many users were created in Keycloak
    pc,
    copy,       \* the row it has read, or the one it has made to register
    kcFailed,   \* a call to Keycloak has failed
    crashed,    \* the process has crashed
    mixed       \* the cleanup has met an admin's or an activation request

store    == <<row, lock, draft>>
keycloak == <<user, enabled, kids>>
work     == <<pc, copy>>
history  == <<kcFailed, crashed, mixed>>
vars     == <<booting, budget, store, keycloak, work, history>>

All  == Workers \cup {Cleaner}
Link == {"none", "good", "lapsed"}
Row  == [kid : 1 .. Kids, approved : BOOLEAN, activated : BOOLEAN, link : Link]

Registering == {"password", "insert", "undo"}
Changing    == {"approve", "approved", "force", "forced", "activate",
                "activated", "resend", "commit"}
Cleaning    == {"deleteUser", "deleteRow"}

StoreOK ==
    /\ row \in Row \cup {NoRow}
    /\ draft \in Row \cup {NoRow}
    /\ lock \in Workers \cup {Nobody}
KeycloakOK ==
    /\ user \in (1 .. Kids) \cup {Nobody}
    /\ enabled \in BOOLEAN
    /\ kids \in 0 .. Kids
WorkOK ==
    /\ pc \in [All -> {"idle"} \cup Registering \cup Changing \cup Cleaning]
    /\ copy \in [All -> Row \cup {NoRow}]
HistoryOK == kcFailed \in BOOLEAN /\ crashed \in BOOLEAN /\ mixed \in BOOLEAN

\* Types, and a lock is held exactly by a transaction that has written.
TypeOK ==
    /\ ProvisioningOK /\ StoreOK /\ KeycloakOK /\ WorkOK /\ HistoryOK
    /\ lock = Nobody <=> draft = NoRow

-----------------------------------------------------------------------------
(* Steps of a worker.                                                      *)

Serving == boot = "serving"

At(w, l) == Serving /\ pc[w] = l

\* w goes on at l with r; it may now be that the cleanup meets a change.
Begins(w, l, r) ==
    /\ pc' = [pc EXCEPT ![w] = l]
    /\ copy' = [copy EXCEPT ![w] = r]
    /\ mixed' = (mixed \/ \E v \in Workers : /\ pc'[Cleaner] \in Cleaning
                                             /\ pc'[v] \in Changing)
    /\ UNCHANGED <<booting, crashed>>

Goes(w, l) == Begins(w, l, copy[w])
Ends(w) == Begins(w, "idle", NoRow)

\* A call to the database that fails; one to Keycloak.
DbFails == Fails /\ UNCHANGED kcFailed
KcFails == Fails /\ kcFailed' = TRUE
Works   == UNCHANGED <<budget, kcFailed>>

\* EnableUser: it may also fail after it did what was asked.
Enabled(k) == user = k /\ enabled' = TRUE /\ UNCHANGED <<user, kids>>

EnableWorks(k) == Enabled(k) /\ Works
EnableFails(k) == /\ \/ user # k /\ UNCHANGED <<keycloak, kcFailed, budget>>
                     \/ KcFails /\ (Enabled(k) \/ UNCHANGED keycloak)

DeletedUser(k) == /\ user' = IF user = k THEN Nobody ELSE user
                  /\ enabled' = (enabled /\ user # k)
                  /\ UNCHANGED kids

\* DeleteUser, whose error nobody looks at.
DeleteUser(k) == \/ DeletedUser(k) /\ Works
                 \/ KcFails /\ (DeletedUser(k) \/ UNCHANGED keycloak)

Free == lock = Nobody

\* db.Save of r: an update by primary key, and an insert if that finds no row,
\* which another row of the username then refuses.
Saves(r) == row # NoRow => row.kid = r.kid

-----------------------------------------------------------------------------
(* Register: outside of any transaction.                                   *)

NewRow(k) == [kid |-> k, approved |-> FALSE, activated |-> FALSE, link |-> "none"]

\* CreateUser refuses a name it has; when its answer is lost the user exists.
CreateUser(w) ==
    /\ At(w, "idle")
    /\ user = Nobody
    /\ kids < Kids
    /\ kids' = kids + 1
    /\ user' = kids'
    /\ enabled' = FALSE
    /\ \/ /\ Works
          /\ Begins(w, "password", NewRow(kids'))
       \/ /\ KcFails
          /\ Ends(w)
    /\ UNCHANGED store

\* SetPassword; when it fails the user stays in Keycloak.
SetUserPassword(w) ==
    /\ At(w, "password")
    /\ UNCHANGED <<store, keycloak>>
    /\ \/ Works /\ Goes(w, "insert")
       \/ KcFails /\ Ends(w)

F_InsertOnly(w) ==
    /\ At(w, "insert")
    /\ Free
    /\ UNCHANGED <<lock, draft, keycloak>>
    /\ \/ row = NoRow /\ row' = copy[w] /\ Works /\ Ends(w)
       \/ row # NoRow /\ UNCHANGED row /\ Works /\ Ends(w)
       \/ UNCHANGED row /\ DbFails /\ Ends(w)

\* The insert; a row of the username refuses it, and a failure of the database
\* leaves the row out.
Insert(w) ==
    /\ At(w, "insert")
    /\ Free
    /\ UNCHANGED <<lock, draft, keycloak>>
    /\ \/ row = NoRow /\ row' = copy[w] /\ Works /\ Ends(w)
       \/ row # NoRow /\ UNCHANGED row /\ Works /\ Goes(w, "undo")
       \/ UNCHANGED row /\ DbFails /\ Goes(w, "undo")

\* The insert failed: the user in Keycloak is deleted again.
Undo(w) ==
    /\ At(w, "undo")
    /\ DeleteUser(copy[w].kid)
    /\ UNCHANGED store
    /\ Ends(w)

-----------------------------------------------------------------------------
(* The admin's requests, in a transaction, and ActivateAccount, outside.   *)

Loads(w, l) ==
    /\ At(w, "idle")
    /\ row # NoRow
    /\ Begins(w, l, row)
    /\ UNCHANGED <<store, keycloak, budget, kcFailed>>

LoadToApprove(w)  == Loads(w, "approve") /\ ~row.approved
LoadToForce(w)    == Loads(w, "force") /\ row.approved /\ ~row.activated
LoadToResend(w)   == Loads(w, "resend") /\ row.approved /\ ~row.activated
LoadToActivate(w) == Loads(w, "activate") /\ row.link = "good"

Approved(r) == [r EXCEPT !.approved = TRUE, !.link = "good"]
Renewed(r)  == [r EXCEPT !.link = "good"]

F_Activated(r) == [r EXCEPT !.link = "none"]
Activated(r) == [r EXCEPT !.activated = TRUE, !.link = "none"]

\* A write in a transaction: it takes the row's lock, or the transaction is
\* over.  The answer is an error then, and nothing is left to commit.
Writes(w, from, r, next) ==
    /\ At(w, from)
    /\ Free
    /\ UNCHANGED <<row, keycloak>>
    /\ \/ /\ Saves(r)
          /\ lock' = w
          /\ draft' = r
          /\ Works
          /\ Goes(w, next)
       \/ /\ UNCHANGED <<lock, draft>>
          /\ \/ ~Saves(r) /\ Works
             \/ DbFails
          /\ Ends(w)

SaveApproved(w) == Writes(w, "approve", Approved(copy[w]), "approved")
SaveRenewed(w)  == Writes(w, "resend", Renewed(copy[w]), "commit")
SaveForced(w)   == Writes(w, "forced", Activated(copy[w]), "commit")

\* EnableUser on the way to l; its failure leads to m.
Enables(w, from, l, m) ==
    /\ At(w, from)
    /\ \/ EnableWorks(copy[w].kid) /\ Goes(w, l)
       \/ EnableFails(copy[w].kid) /\ IF m = "idle" THEN Ends(w) ELSE Goes(w, m)
    /\ UNCHANGED store

\* ApproveUser commits whether or not this works.
EnableApproved(w) == Enables(w, "approved", "commit", "commit")
EnableForced(w)   == Enables(w, "force", "forced", "idle")

F_EnableActivating(w) == Enables(w, "activate", "activated", "activated")
EnableActivating(w) == Enables(w, "activate", "activated", "idle")

\* A transaction whose commit failed and that nobody rolls back.
F_CommitOnce(w) ==
    /\ At(w, "commit")
    /\ \/ row' = draft /\ draft' = NoRow /\ Works
       \/ UNCHANGED <<row, draft>> /\ DbFails
    /\ lock' = Nobody
    /\ UNCHANGED keycloak
    /\ Ends(w)

\* The commit of ScopedDBMiddleware.
Commit(w) ==
    /\ At(w, "commit")
    /\ \/ row' = draft /\ Works
       \/ UNCHANGED row /\ DbFails
    /\ lock' = Nobody
    /\ draft' = NoRow
    /\ UNCHANGED keycloak
    /\ Ends(w)

\* ActivateAccount writes at once.
SaveActivated(w) ==
    /\ At(w, "activated")
    /\ Free
    /\ UNCHANGED <<lock, draft, keycloak>>
    /\ \/ Saves(copy[w]) /\ row' = Activated(copy[w]) /\ Works
       \/ ~Saves(copy[w]) /\ UNCHANGED row /\ Works
       \/ UNCHANGED row /\ DbFails
    /\ Ends(w)

-----------------------------------------------------------------------------
(* The hourly loop.                                                        *)

Lapsed == row # NoRow /\ row.approved /\ ~row.activated /\ row.link = "lapsed"

LoadExpired ==
    /\ At(Cleaner, "idle")
    /\ Lapsed
    /\ Begins(Cleaner, "deleteUser", row)
    /\ UNCHANGED <<store, keycloak, budget, kcFailed>>

\* A loop that goes on to the next user when Keycloak has no such user.
F_DeleteExpiredUser ==
    /\ At(Cleaner, "deleteUser")
    /\ UNCHANGED store
    /\ \/ user = copy[Cleaner].kid /\ DeleteUser(user) /\ Goes(Cleaner, "deleteRow")
       \/ /\ user # copy[Cleaner].kid
          /\ UNCHANGED keycloak /\ Works
          /\ Ends(Cleaner)

DeleteExpiredUser ==
    /\ At(Cleaner, "deleteUser")
    /\ DeleteUser(copy[Cleaner].kid)
    /\ UNCHANGED store
    /\ Goes(Cleaner, "deleteRow")

\* The row goes by its primary key, whatever it says now; it is taken to have no
\* machines, whose foreign key would refuse this.
DeleteExpiredRow ==
    /\ At(Cleaner, "deleteRow")
    /\ Free
    /\ \/ row' = (IF row # NoRow /\ row.kid = copy[Cleaner].kid THEN NoRow ELSE row)
          /\ Works
       \/ UNCHANGED row /\ DbFails
    /\ UNCHANGED <<lock, draft, keycloak>>
    /\ Ends(Cleaner)

-----------------------------------------------------------------------------
(* The specification.                                                      *)

\* The 24 hours of an activation link are over.
Lapse ==
    /\ row # NoRow
    /\ row.link = "good"
    /\ row' = [row EXCEPT !.link = "lapsed"]
    /\ UNCHANGED <<booting, budget, lock, draft, keycloak, work, history>>

\* The process dies: requests are lost and the database rolls back.
Crash ==
    /\ boot # "dead"
    /\ Fails
    /\ boot' = "dead"
    /\ crashed' = TRUE
    /\ lock' = Nobody
    /\ draft' = NoRow
    /\ pc' = [w \in All |-> "idle"]
    /\ copy' = [w \in All |-> NoRow]
    /\ UNCHANGED <<tries, made, clean, row, keycloak, kcFailed, mixed>>

Booting == (Boots \/ Start) /\ UNCHANGED <<store, keycloak, work, history>>

Loading(w)  == \/ LoadToApprove(w) \/ LoadToForce(w)
               \/ LoadToResend(w) \/ LoadToActivate(w)
Serves(w)   == \/ SetUserPassword(w) \/ Insert(w) \/ Undo(w)
               \/ SaveApproved(w) \/ EnableApproved(w) \/ SaveRenewed(w)
               \/ EnableForced(w) \/ SaveForced(w) \/ EnableActivating(w)
               \/ SaveActivated(w) \/ Commit(w)
Cleans      == LoadExpired \/ DeleteExpiredUser \/ DeleteExpiredRow

Init ==
    /\ boot = "login" /\ tries = 0 /\ made = {} /\ clean = TRUE
    /\ budget = Failures
    /\ row = NoRow /\ lock = Nobody /\ draft = NoRow
    /\ user = Nobody /\ enabled = FALSE /\ kids = 0
    /\ pc = [w \in All |-> "idle"]
    /\ copy = [w \in All |-> NoRow]
    /\ kcFailed = FALSE /\ crashed = FALSE /\ mixed = FALSE

Next ==
    \/ \E w \in Workers : CreateUser(w) \/ Loading(w) \/ Serves(w)
    \/ Cleans \/ Lapse \/ Crash \/ Booting

\* Requests that were begun go on, the loop comes round every hour and the
\* process is started again.  Nobody has to register, approve or activate.
Fairness ==
    /\ WF_vars(Booting)
    /\ WF_vars(Cleans)
    /\ \A w \in Workers : WF_vars(Serves(w))

Spec == Init /\ [][Next]_vars /\ Fairness

-----------------------------------------------------------------------------
(* Properties.                                                             *)

\* Nobody is approved, not activated and without a link that can lapse: such
\* an account could neither be activated by its owner nor be cleaned up.  This
\* holds however requests overlap, although each saves the whole row it read.
NoLimbo == row # NoRow /\ row.approved /\ ~row.activated => row.link # "none"

\* While Keycloak answers and the process lives, a user in Keycloak has a row or
\* is being registered: no failure of the database keeps the name taken.
NoOrphan ==
    ~kcFailed /\ ~crashed /\ user # Nobody =>
        \/ row # NoRow /\ row.kid = user
        \/ \E w \in Workers : pc[w] \in Registering /\ copy[w].kid = user

\* Whoever is activated can log in, whatever failed and crashed, as long as the
\* cleanup has not met a request that changes the account.
ActivatedCanLogin ==
    ~mixed /\ row # NoRow /\ row.activated => user = row.kid /\ enabled

\* An account that has lapsed does not stay: the cleanup removes it, also when
\* an attempt of it has failed half way, or the admin renews or activates it.
LapsedGoes == []<>~Lapsed
==============================================================================
