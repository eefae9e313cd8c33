------------------------------ MODULE AppClient ------------------------------
(***************************************************************************)
(* The connection of an app, app/lib/terminal_client.dart: straight to an  *)
(* agent on the local network ("lan"), or through the backend to a machine *)
(* of its user ("relay") or to a shared one ("share").  It reconnects by   *)
(* itself and renews the credentials of a share session.                   *)
(*                                                                         *)
(* Dart runs one callback at a time, and connect() and its siblings reach  *)
(* their first await with the channel open, so every callback is one step. *)
(* On the local network the agent's door is part of the model: the rate    *)
(* limiter and the challenge of agent/pkg/server/wss.go.  The handler of a *)
(* channel the app gave up may still judge an answer that was under way.   *)
(***************************************************************************)
EXTENDS RateLimiter

CONSTANTS
    Asks,      \* bound: how often the user connects or disconnects
    Failures,  \* bound: how many channels and refresh requests fail
    None

ASSUME ClientAssumption ==
    /\ Asks \in Nat /\ Failures \in Nat
    /\ None \notin {"lan", "relay", "share", "right", "wrong",
                    "opening", "open", "asked", "in", "gone", "success", "failed"}

VARIABLES
    aim,       \* the kind of connection this client is used for
    pinned,    \* the request of the user named the certificate to expect
    lan,       \* _lastPassword, with _lastHost and _lastPort
    relay,     \* _lastRelayUrl and its companions are set
    share,     \* the share credentials are set, with what renews them
    pin,       \* _lastExpectedFingerprint, which the channel verifies, is set
    manual,    \* _isManualDisconnect
    timer,     \* _reconnectTimer is active
    line,      \* the subscribed channel: None, "opening" or "open"
    via,       \* what the channel leads to
    status,
    refresh,   \* _shareSessionRefreshTimer is active
    orphans,   \* refresh timers that are active and no longer in that variable
    asking,    \* refresh requests under way
    judge,     \* the agent's handler of the channel: None, "asked", "in", "gone"
    mail,      \* the auth_status on its way to the app
    ghosts,    \* handlers of earlier channels, by the answer they may judge
    asks, faults

wish     == <<aim, pinned>>
targets  == <<lan, relay, share, pin>>
channel  == <<line, via, status>>
renewal  == <<refresh, orphans, asking>>
door     == <<judge, mail, ghosts>>
bounds   == <<asks, faults>>
vars     == <<limiter, wish, targets, manual, timer, channel, renewal, door, bounds>>

Password == {"right", "wrong"}
Kind == {"lan", "relay", "share"}

AimOK ==
    /\ aim \in Kind \cup {None}
    /\ lan \in Password \cup {None}
    /\ relay \in BOOLEAN /\ share \in BOOLEAN
    /\ pin \in BOOLEAN /\ pinned \in BOOLEAN
LineOK ==
    /\ manual \in BOOLEAN
    /\ timer \in BOOLEAN
    /\ line \in {None, "opening", "open"}
    /\ via \in Kind \cup {None}
    /\ status \in {"disconnected", "connecting", "authenticating", "connected", "error"}
RenewalOK ==
    /\ refresh \in BOOLEAN
    /\ orphans \in Nat /\ asking \in Nat
DoorOK ==
    /\ judge \in {None, "asked", "in", "gone"}
    /\ mail \in {None, "success", "failed"}
    /\ ghosts \in [Password -> Nat]

\* Types, and an address is blocked exactly while its failures say so.
TypeOK == LimiterOK /\ AimOK /\ LineOK /\ RenewalOK /\ DoorOK

Init ==
    /\ LimiterInit
    /\ aim = None /\ pinned = FALSE
    /\ lan = None /\ relay = FALSE /\ share = FALSE /\ pin = FALSE
    /\ manual = FALSE /\ timer = FALSE
    /\ line = None /\ via = None /\ status = "disconnected"
    /\ refresh = FALSE /\ orphans = 0 /\ asking = 0
    /\ judge = None /\ mail = None /\ ghosts = [p \in Password |-> 0]
    /\ asks = 0 /\ faults = 0

-----------------------------------------------------------------------------
(* The channel.                                                            *)

\* The app lets go of its channel; the agent may not know yet.
Abandons ==
    /\ judge' = None
    /\ mail' = None
    /\ ghosts' = IF judge = "asked" THEN [ghosts EXCEPT ![lan] = @ + 1] ELSE ghosts

\* connect, connectToRelay and connectToShareSession from disconnect() on; f:
\* they were given a fingerprint.
Connects(k, f) ==
    /\ pin' = f
    /\ manual' = FALSE
    /\ timer' = FALSE
    /\ Abandons
    /\ line' = "opening"
    /\ via' = k
    /\ status' = IF k = "lan" THEN "authenticating" ELSE "connected"

\* _clearShareSessionTracking: the timer in the variable is cancelled.
ClearsShare == share' = FALSE /\ refresh' = FALSE

Connect(p, f) ==
    /\ lan' = p
    /\ relay' = FALSE
    /\ ClearsShare
    /\ Connects("lan", f)

ConnectToRelay(f) ==
    /\ relay' = TRUE
    /\ ClearsShare
    /\ UNCHANGED lan
    /\ Connects("relay", f)

ConnectToShareSession(f) ==
    /\ lan' = None
    /\ relay' = FALSE
    /\ share' = TRUE
    /\ refresh' = TRUE
    /\ Connects("share", f)

\* _handleDisconnect that leaves a channel that never opened to its caller.
F_HandleDisconnectOnlyOpen ==
    \/ (manual \/ timer) /\ UNCHANGED <<timer, status>>
    \/ ~manual /\ ~timer /\ timer' = (line = "open") /\ status' = "disconnected"

HandleDisconnect ==
    \/ (manual \/ timer) /\ UNCHANGED <<timer, status>>
    \/ ~manual /\ ~timer /\ timer' = TRUE /\ status' = "disconnected"

\* onError and onDone of the channel.
Over ==
    /\ line' = None
    /\ HandleDisconnect
    /\ Abandons
    /\ UNCHANGED <<wish, targets, manual, via, renewal, asks>>

-----------------------------------------------------------------------------
(* The user.                                                               *)

\* The screens use a client for one kind of connection only.
Asking(k) ==
    /\ asks < Asks
    /\ asks' = asks + 1
    /\ aim \in {None, k}
    /\ aim' = k
    /\ pinned' \in BOOLEAN
    /\ UNCHANGED <<limiter, orphans, asking, faults>>

AskLan == Asking("lan") /\ \E p \in Password : Connect(p, pinned')
AskRelay == Asking("relay") /\ ConnectToRelay(pinned')
AskShare == Asking("share") /\ ConnectToShareSession(pinned')

\* disconnect(), which a session_closed of the agent also calls.
F_DisconnectKeepsTimer ==
    /\ asks < Asks
    /\ asks' = asks + 1
    /\ manual' = TRUE
    /\ refresh' = FALSE
    /\ Abandons
    /\ line' = None
    /\ status' = "disconnected"
    /\ UNCHANGED <<limiter, wish, targets, timer, via, orphans, asking, faults>>

Disconnect ==
    /\ asks < Asks
    /\ asks' = asks + 1
    /\ manual' = TRUE
    /\ timer' = FALSE
    /\ refresh' = FALSE
    /\ Abandons
    /\ line' = None
    /\ status' = "disconnected"
    /\ UNCHANGED <<limiter, wish, targets, via, orphans, asking, faults>>

-----------------------------------------------------------------------------
(* The network and the agent's door.                                       *)

Faulty == faults < Failures /\ faults' = faults + 1

\* A channel through the backend is accepted.
Accepted ==
    /\ line = "opening"
    /\ via # "lan"
    /\ line' = "open"
    /\ UNCHANGED <<limiter, wish, targets, manual, timer, via, status, renewal,
                   door, bounds>>

\* makeTerminalHandler: the address is not blocked, and the handler starts; it
\* answers the auth_request the app has sent with a challenge.
DoorOpens ==
    /\ line = "opening"
    /\ via = "lan"
    /\ Admits
    /\ line' = "open"
    /\ judge' = "asked"
    /\ UNCHANGED <<wish, targets, manual, timer, via, status, renewal, mail,
                   ghosts, bounds>>

DoorShut ==
    /\ line = "opening"
    /\ via = "lan"
    /\ Refuses
    /\ Over
    /\ UNCHANGED faults

\* auth_response; a wrong one ends the handler.
Judges ==
    /\ judge = "asked"
    /\ \/ lan = "right" /\ Reset /\ judge' = "in" /\ mail' = "success"
       \/ lan = "wrong" /\ RecordFail /\ judge' = "gone" /\ mail' = "failed"
    /\ UNCHANGED <<wish, targets, manual, timer, channel, renewal, ghosts, bounds>>

\* A handler of an earlier channel judges the answer it had been sent, or finds
\* that its channel is closed.
GhostEnds ==
    \E p \in Password :
        /\ ghosts[p] > 0
        /\ ghosts' = [ghosts EXCEPT ![p] = @ - 1]
        /\ \/ p = "right" /\ Reset
           \/ p = "wrong" /\ RecordFail
           \/ UNCHANGED limiter
        /\ UNCHANGED <<wish, targets, manual, timer, channel, renewal, judge,
                       mail, bounds>>

\* The app reads auth_status.
AuthStatus ==
    /\ line = "open"
    /\ mail # None
    /\ mail' = None
    /\ status' = IF mail = "success" THEN "connected" ELSE "error"
    /\ UNCHANGED <<limiter, wish, targets, manual, timer, line, via, renewal,
                   judge, ghosts, bounds>>

\* The channel ends because the handler did or because the network fails, or it
\* never opens, as when the certificate is not the one it verifies.
LineEnds ==
    /\ line # None
    /\ \/ judge = "gone" /\ mail = None /\ UNCHANGED faults
       \/ Faulty
    /\ Over
    /\ UNCHANGED limiter

Tick ==
    /\ Elapses
    /\ UNCHANGED <<wish, targets, manual, timer, channel, renewal, door, bounds>>

-----------------------------------------------------------------------------
(* The timers.                                                             *)

\* _reconnect: share credentials come first, then the relay, then the agent, and
\* only the way to the agent is given the fingerprint again.
Reconnect ==
    /\ timer
    /\ ~manual
    /\ \/ share /\ ConnectToShareSession(FALSE)
       \/ ~share /\ relay /\ ConnectToRelay(FALSE)
       \/ ~share /\ ~relay /\ lan # None /\ Connect(lan, pin)
    /\ UNCHANGED <<limiter, wish, orphans, asking, bounds>>

\* A refresh timer fires: _refreshShareSessionCredentials up to its await.
RefreshFires ==
    /\ \/ refresh /\ refresh' = FALSE /\ UNCHANGED orphans
       \/ orphans > 0 /\ orphans' = orphans - 1 /\ UNCHANGED refresh
    /\ asking' = IF share /\ ~manual THEN asking + 1 ELSE asking
    /\ UNCHANGED <<limiter, wish, targets, manual, timer, channel, door, bounds>>

\* Its answer: new credentials, and a timer for the next.
RefreshAnswers ==
    /\ asking > 0
    /\ asking' = asking - 1
    /\ refresh' = (share /\ ~manual)
    /\ UNCHANGED <<limiter, wish, targets, manual, timer, channel, orphans,
                   door, bounds>>

\* A failure ends the renewal.
F_RefreshFailsForGood ==
    /\ asking > 0
    /\ Faulty
    /\ asking' = asking - 1
    /\ UNCHANGED <<refresh, orphans, limiter, wish, targets, manual, timer,
                   channel, door, asks>>

\* Its failure: another timer, while one that is active goes on.
RefreshFails ==
    /\ asking > 0
    /\ Faulty
    /\ asking' = asking - 1
    /\ refresh' = (refresh \/ ~manual)
    /\ orphans' = IF refresh /\ ~manual THEN orphans + 1 ELSE orphans
    /\ UNCHANGED <<limiter, wish, targets, manual, timer, channel,
                   door, asks>>

-----------------------------------------------------------------------------
(* The specification.                                                      *)

Network == \/ Accepted \/ DoorOpens \/ DoorShut \/ Judges
           \/ GhostEnds \/ AuthStatus \/ LineEnds
User == AskLan \/ AskRelay \/ AskShare \/ Disconnect
Renewing == RefreshFires \/ RefreshAnswers \/ RefreshFails

Next == Network \/ User \/ Renewing \/ Reconnect \/ Tick

\* Messages arrive or their channel ends, timers fire and time passes.
Fairness == WF_vars(Network) /\ WF_vars(Reconnect) /\ WF_vars(Tick)

Spec == Init /\ [][Next]_vars /\ Fairness

-----------------------------------------------------------------------------
(* Properties.                                                             *)

\* Who asked for a connection and did not end it has a channel, or a timer that
\* finds credentials to open one with: no order of failures, of requests and of
\* answers leaves the app without either.  A wrong password is left out: that
\* the app goes on trying it is what the code does and not what its docs say.
NotStranded ==
    aim # None /\ ~manual /\ lan # "wrong" =>
        line # None \/ (timer /\ (share \/ relay \/ lan # None))

\* Who ended it has neither: nothing that was under way connects again.
ManualStaysDown == manual => line = None /\ ~timer

\* A share session is renewed through every failure and reconnection.
RenewalGoesOn == aim = "share" /\ ~manual => refresh \/ asking > 0

\* Every channel verifies the certificate the user's request named, also those
\* the app opens by itself: SECURITY.md says so of every connection but the
\* first.  No screen calls connectToRelay, so its channels are left out.
PinnedChannels == line # None /\ via # "relay" /\ pinned => pin

\* An app with the right password gets in: the tries it makes while its address
\* is blocked do not make the block last.
RightPasswordGetsIn ==
    []<>(aim # "lan" \/ lan # "right" \/ manual \/ status = "connected")
==============================================================================
