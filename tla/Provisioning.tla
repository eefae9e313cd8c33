---------------------------- MODULE Provisioning ----------------------------
(***************************************************************************)
(* How the backend starts: InitKeycloak of pkg/keycloak/keycloak.go logs   *)
(* in, makes the realm, the client and the admin role of TermViewer, and   *)
(* the first administrator.  What it made stays in Keycloak when the       *)
(* process ends, so the next start finds it half done.                     *)
(*                                                                         *)
(* Every call to Keycloak may fail; EnsureAdminToken, which each function  *)
(* begins with, is part of the call that follows it.                       *)
(***************************************************************************)
EXTENDS Integers

CONSTANTS
    Tries,    \* how often InitKeycloak tries to log in (10)
    Failures  \* bound: how many calls fail and processes crash in a behaviour

ASSUME ProvisioningAssumption == Tries \in Nat \ {0} /\ Failures \in Nat

VARIABLES
    boot,   \* how far the process is: a step of InitKeycloak, "serving" or "dead"
    tries,  \* the failed logins of this start
    made,   \* what exists in Keycloak
    clean,  \* no call has failed in this start
    budget  \* how many of the Failures may still happen

booting == <<boot, tries, made, clean>>
Realm == {"realm", "client", "role"}
Admin == {"admin", "password", "adminRole"}

Steps == Realm \cup {"login", "find", "setPassword", "update", "sync", "assign"}

ProvisioningOK ==
    /\ boot \in Steps \cup {"serving", "dead"}
    /\ tries \in 0 .. Tries
    /\ made \subseteq Realm \cup Admin
    /\ clean \in BOOLEAN
    /\ budget \in Nat

Fails == budget > 0 /\ budget' = budget - 1

\* The process starts again.
Start ==
    /\ boot = "dead"
    /\ boot' = "login"
    /\ tries' = 0
    /\ clean' = TRUE
    /\ UNCHANGED <<made, budget>>

\* LoginAdmin, with a pause after each failure; the last failure is fatal.
Login ==
    /\ boot = "login"
    /\ UNCHANGED made
    /\ \/ /\ boot' = "realm"
          /\ UNCHANGED <<tries, clean, budget>>
       \/ /\ Fails
          /\ clean' = FALSE
          /\ tries' = tries + 1
          /\ boot' = IF tries' = Tries THEN "dead" ELSE "login"

\* A step that makes x, or fails and goes to b.
Makes(step, x, next, b) ==
    /\ boot = step
    /\ UNCHANGED tries
    /\ \/ /\ made' = made \cup {x}
          /\ boot' = next
          /\ UNCHANGED <<clean, budget>>
       \/ /\ Fails
          /\ clean' = FALSE
          /\ boot' = b
          /\ UNCHANGED made

\* Failing to make the realm, the client or the role ends the process.
F_EnsureRealm == Makes("realm", "realm", "client", "client")

EnsureRealm == Makes("realm", "realm", "client", "dead")
EnsureClient == Makes("client", "client", "role", "dead")
EnsureRealmRole == Makes("role", "role", "find", "dead")

\* EnsureAdminUser; its failure is logged and the backend serves without it.
FindAdmin ==
    /\ boot = "find"
    /\ "admin" \in made
    /\ UNCHANGED <<tries, made>>
    /\ \/ /\ boot' = "update"
          /\ UNCHANGED <<clean, budget>>
       \/ /\ Fails
          /\ clean' = FALSE
          /\ boot' = "serving"

CreateAdmin == "admin" \notin made /\ Makes("find", "admin", "setPassword", "serving")
SetPassword == Makes("setPassword", "password", "assign", "serving")

\* An administrator that exists keeps the password he has.
F_SyncPassword ==
    /\ boot = "sync"
    /\ boot' = "assign"
    /\ UNCHANGED <<tries, made, clean, budget>>

\* An administrator that exists is enabled again and then gets his password, if
\* these calls work: they are warned of and not repeated.  Nobody has disabled
\* him here, so the first shows in clean only.
UpdateAdmin == Makes("update", "admin", "sync", "sync")
SyncPassword == Makes("sync", "password", "assign", "assign")
AssignRole == Makes("assign", "adminRole", "serving", "serving")

Boots == \/ Login \/ EnsureRealm \/ EnsureClient \/ EnsureRealmRole
         \/ FindAdmin \/ CreateAdmin \/ SetPassword
         \/ UpdateAdmin \/ SyncPassword \/ AssignRole

\* The backend never serves before the realm, the client and the role exist.
ServesProvisioned == boot = "serving" => Realm \subseteq made

\* A start without a failure leaves a complete administrator, whatever an
\* earlier start that failed half way has left behind.
CleanStartHeals == boot = "serving" /\ clean => Admin \subseteq made
==============================================================================
