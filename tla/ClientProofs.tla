----------------------------- MODULE ClientProofs -----------------------------
(***************************************************************************)
(* The safety of AppClient for any limits of the rate limiter and any      *)
(* number of requests of the user, failures and refresh timers.            *)
(***************************************************************************)
EXTENDS AppClient, TLAPS

\* The agent judges the answer of the channel that leads to it.
DoorInv ==
    /\ line # None => via \in Kind
    /\ line # None /\ via = "lan" => lan \in Password
    /\ judge # None => line # None /\ via = "lan"

TypeInv == TypeOK /\ DoorInv

\* A channel is not given up for: no timer runs and the user wants it.
LineInv ==
    /\ line # None => ~manual /\ ~timer
    /\ timer => ~manual

\* Before the user asks for anything there is nothing to return to.
NewInv ==
    aim = None => /\ ~share /\ ~relay /\ lan = None
                  /\ line = None /\ ~timer /\ asking = 0 /\ orphans = 0 /\ ~refresh

\* The credentials _reconnect takes are those of the kind that was asked for.
HeldInv ==
    /\ aim # None => share \/ relay \/ lan # None
    /\ share <=> aim = "share"

IInv == /\ TypeInv /\ LineInv /\ NewInv /\ HeldInv
        /\ NotStranded /\ RenewalGoesOn

LEMMA TypeInit == Init => TypeInv
<1> SUFFICES ASSUME Init PROVE TypeInv
  OBVIOUS
<1>1. LimiterOK
  <2>1. blocked = FALSE /\ ~(count >= MaxFails)
    BY LimiterAssumption DEF Init, LimiterInit
  <2>2. count \in Nat /\ rest \in 0 .. Duration
    BY LimiterAssumption DEF Init, LimiterInit
  <2> QED
    BY <2>1, <2>2 DEF LimiterOK
<1>2. AimOK /\ LineOK /\ RenewalOK /\ DoorOK /\ DoorInv
  BY DEF Init, AimOK, LineOK, RenewalOK, DoorOK, DoorInv, Kind, Password
<1> QED
  BY <1>1, <1>2 DEF TypeInv, TypeOK

LEMMA AimNext == AimOK /\ [Next]_vars => AimOK'
<1> SUFFICES ASSUME AimOK, [Next]_vars PROVE AimOK'
  OBVIOUS
<1> USE DEF AimOK, Kind
<1>1. CASE AskLan \/ AskRelay \/ AskShare
  <2>1. aim' \in Kind \cup {None} /\ pinned' \in BOOLEAN
    BY <1>1 DEF AskLan, AskRelay, AskShare, Asking
  <2>2. PICK f \in BOOLEAN :
            \/ \E p \in Password : Connect(p, f)
            \/ ConnectToRelay(f)
            \/ ConnectToShareSession(f)
    BY <1>1, <2>1 DEF AskLan, AskRelay, AskShare
  <2>3. pin' \in BOOLEAN /\ relay' \in BOOLEAN /\ share' \in BOOLEAN
    BY <2>2 DEF Connect, ConnectToRelay, ConnectToShareSession, ClearsShare, Connects
  <2>4. lan' \in Password \cup {None}
    BY <2>2 DEF Connect, ConnectToRelay, ConnectToShareSession
  <2> QED
    BY <2>1, <2>3, <2>4
<1>11. CASE Disconnect
  BY <1>11 DEF Disconnect, wish, targets
<1>2. CASE Network
  BY <1>2 DEF Network, Accepted, DoorOpens, DoorShut, Judges, GhostEnds,
     AuthStatus, LineEnds, Over, wish, targets
<1>3. CASE Renewing
  BY <1>3 DEF Renewing, RefreshFires, RefreshAnswers, RefreshFails, wish, targets
<1>4. CASE Reconnect
  BY <1>4 DEF Reconnect, Connect, ConnectToRelay, ConnectToShareSession,
     ClearsShare, Connects, wish
<1>5. CASE Tick \/ UNCHANGED vars
  BY <1>5 DEF Tick, vars, wish, targets
<1> QED
  BY <1>1, <1>11, <1>2, <1>3, <1>4, <1>5 DEF Next, User

LEMMA LineNext == LineOK /\ [Next]_vars => LineOK'
<1> SUFFICES ASSUME LineOK, [Next]_vars PROVE LineOK'
  OBVIOUS
<1> USE DEF LineOK, Kind
<1>1. CASE User
  BY <1>1 DEF User, AskLan, AskRelay, AskShare, Disconnect, Asking, Connect,
     ConnectToRelay, ConnectToShareSession, Connects
<1>2. CASE Network
  BY <1>2 DEF Network, Accepted, DoorOpens, DoorShut, Judges, GhostEnds,
     AuthStatus, LineEnds, Over, HandleDisconnect, channel
<1>3. CASE Renewing
  BY <1>3 DEF Renewing, RefreshFires, RefreshAnswers, RefreshFails, channel
<1>4. CASE Reconnect
  BY <1>4 DEF Reconnect, Connect, ConnectToRelay, ConnectToShareSession, Connects
<1>5. CASE Tick \/ UNCHANGED vars
  BY <1>5 DEF Tick, vars, channel
<1> QED
  BY <1>1, <1>2, <1>3, <1>4, <1>5 DEF Next

LEMMA RenewalNext == RenewalOK /\ [Next]_vars => RenewalOK'
<1> SUFFICES ASSUME RenewalOK, [Next]_vars PROVE RenewalOK'
  OBVIOUS
<1> USE DEF RenewalOK
<1>1. CASE User
  BY <1>1 DEF User, AskLan, AskRelay, AskShare, Disconnect, Asking, Connect,
     ConnectToRelay, ConnectToShareSession, ClearsShare
<1>2. CASE Network
  BY <1>2 DEF Network, Accepted, DoorOpens, DoorShut, Judges, GhostEnds,
     AuthStatus, LineEnds, Over, renewal
<1>3. CASE RefreshFires
  <2>1. asking' \in Nat
    BY <1>3 DEF RefreshFires
  <2>2. refresh' \in BOOLEAN
    BY <1>3 DEF RefreshFires
  <2>3. orphans' \in Nat
    BY <1>3 DEF RefreshFires
  <2> QED
    BY <2>1, <2>2, <2>3
<1>31. CASE RefreshAnswers
  <2>1. (share /\ ~manual) \in BOOLEAN
    OBVIOUS
  <2> QED
    BY <1>31, <2>1 DEF RefreshAnswers
<1>32. CASE RefreshFails
  <2>1. (refresh \/ ~manual) \in BOOLEAN
    OBVIOUS
  <2> QED
    BY <1>32, <2>1 DEF RefreshFails
<1>4. CASE Reconnect
  BY <1>4 DEF Reconnect, Connect, ConnectToRelay, ConnectToShareSession, ClearsShare
<1>5. CASE Tick \/ UNCHANGED vars
  BY <1>5 DEF Tick, vars, renewal
<1> QED
  BY <1>1, <1>2, <1>3, <1>31, <1>32, <1>4, <1>5 DEF Next, Renewing

LEMMA LimiterNext == LimiterOK /\ [Next]_vars => LimiterOK'
<1> SUFFICES ASSUME LimiterOK, [Next]_vars PROVE LimiterOK'
  OBVIOUS
<1> USE LimiterAssumption DEF LimiterOK
<1>a. UNCHANGED limiter => LimiterOK'
  BY DEF limiter
<1>1. Admits => LimiterOK'
  BY DEF Admits
<1>2. Reset => LimiterOK'
  BY DEF Reset
<1>3. RecordFail => LimiterOK'
  <2> SUFFICES ASSUME RecordFail PROVE LimiterOK'
    OBVIOUS
  <2>1. blocked' <=> count' >= MaxFails
    BY Zenon DEF RecordFail
  <2>2. count' \in Nat /\ rest' \in 0 .. Duration
    BY DEF RecordFail
  <2> QED
    BY <2>1, <2>2
<1>4. Elapses => LimiterOK'
  BY DEF Elapses
<1>5. \/ UNCHANGED limiter \/ Admits \/ Reset \/ RecordFail \/ Elapses
  BY DEF Next, User, Network, Renewing, AskLan, AskRelay, AskShare, Disconnect,
     Asking, Accepted, DoorOpens, DoorShut, Refuses, Judges, GhostEnds, AuthStatus,
     LineEnds, Tick, Reconnect, RefreshFires, RefreshAnswers, RefreshFails, vars
<1> QED
  BY <1>a, <1>1, <1>2, <1>3, <1>4, <1>5

\* A step of the door happens with the credentials of its channel.
LEMMA DoorNext == TypeInv /\ [Next]_vars => DoorOK' /\ DoorInv'
<1> SUFFICES ASSUME TypeInv, [Next]_vars PROVE DoorOK' /\ DoorInv'
  OBVIOUS
<1>a. None \notin {"lan", "relay", "share", "right", "wrong", "asked", "in", "gone",
                   "success", "failed", "opening", "open"}
  BY ClientAssumption
<1>b. DoorOK /\ DoorInv /\ lan \in Password \cup {None}
  BY DEF TypeInv, TypeOK, AimOK
<1> DEFINE Drops == Abandons => ghosts' \in [Password -> Nat] /\ judge' = None /\ mail' = None
<1>c. Drops
  BY <1>a, <1>b DEF DoorOK, DoorInv, Abandons
<1> HIDE DEF Drops
<1>1. CASE User
  BY <1>a, <1>b, <1>c, <1>1
     DEF User, AskLan, AskRelay, AskShare, Disconnect, Asking, Connect,
     ConnectToRelay, ConnectToShareSession, Connects, Drops, DoorOK, DoorInv, Kind
<1>2. CASE DoorShut \/ LineEnds
  BY <1>a, <1>b, <1>c, <1>2
     DEF DoorShut, LineEnds, Over, Drops, DoorOK, DoorInv
<1>3. CASE Accepted \/ DoorOpens \/ AuthStatus
  BY <1>a, <1>b, <1>3
     DEF Accepted, DoorOpens, AuthStatus, door, targets, DoorOK, DoorInv
<1>4. CASE Judges
  BY <1>a, <1>b, <1>4 DEF Judges, channel, targets, DoorOK, DoorInv
<1>5. CASE GhostEnds
  BY <1>a, <1>b, <1>5 DEF GhostEnds, channel, targets, DoorOK, DoorInv
<1>6. CASE Renewing
  BY <1>a, <1>b, <1>6
     DEF Renewing, RefreshFires, RefreshAnswers, RefreshFails, door, channel,
     targets, DoorOK, DoorInv
<1>7. CASE Reconnect
  BY <1>a, <1>b, <1>c, <1>7
     DEF Reconnect, Connect, ConnectToRelay, ConnectToShareSession, Connects,
     Drops, DoorOK, DoorInv, Kind
<1>8. CASE Tick \/ UNCHANGED vars
  BY <1>a, <1>b, <1>8 DEF Tick, vars, door, channel, targets, DoorOK, DoorInv
<1> QED
  BY <1>1, <1>2, <1>3, <1>4, <1>5, <1>6, <1>7, <1>8 DEF Next, Network

LEMMA TypeNext == TypeInv /\ [Next]_vars => TypeInv'
  BY AimNext, LineNext, RenewalNext, LimiterNext, DoorNext DEF TypeInv, TypeOK

LEMMA SafeInit == Init => IInv
  BY TypeInit, ClientAssumption DEF Init, IInv, LineInv, NewInv, HeldInv, NotStranded,
                  RenewalGoesOn

LEMMA SafeNext == IInv /\ [Next]_vars => IInv'
<1> SUFFICES ASSUME IInv, [Next]_vars PROVE IInv'
  OBVIOUS
<1>a. TypeInv'
  BY TypeNext DEF IInv
<1>b. AimOK /\ LineOK /\ RenewalOK /\ DoorInv
  BY DEF IInv, TypeInv, TypeOK
<1> DEFINE Rest == LineInv /\ NewInv /\ HeldInv /\ NotStranded /\ RenewalGoesOn
<1> SUFFICES Rest'
  BY <1>a DEF IInv
<1> USE <1>b, ClientAssumption
    DEF IInv, LineInv, NewInv, HeldInv, NotStranded, RenewalGoesOn,
        wish, targets, channel, renewal, AimOK, LineOK, RenewalOK,
        DoorInv, Kind, Password
<1>1. CASE AskLan
  BY <1>1 DEF AskLan, Asking, Connect, ClearsShare, Connects
<1>2. CASE AskRelay
  BY <1>2 DEF AskRelay, Asking, ConnectToRelay, ClearsShare, Connects
<1>3. CASE AskShare
  BY <1>3 DEF AskShare, Asking, ConnectToShareSession, Connects
<1>4. CASE Disconnect
  BY <1>4 DEF Disconnect
<1>5. CASE Accepted
  BY <1>5 DEF Accepted
<1>6. CASE DoorOpens
  BY <1>6 DEF DoorOpens
<1>7. CASE DoorShut
  BY <1>7 DEF DoorShut, Over, HandleDisconnect
<1>8. CASE Judges
  BY <1>8 DEF Judges
<1>9. CASE GhostEnds
  BY <1>9 DEF GhostEnds
<1>10. CASE AuthStatus
  BY <1>10 DEF AuthStatus
<1>11. CASE LineEnds
  BY <1>11 DEF LineEnds, Over, HandleDisconnect
<1>12. CASE Tick
  BY <1>12 DEF Tick
<1>13. CASE Reconnect
  <2>0. timer /\ ~manual /\ aim # None /\ UNCHANGED <<aim, orphans, asking>>
    BY <1>13 DEF Reconnect
  <2>1. line' # None /\ ~manual' /\ ~timer'
    BY <1>13 DEF Reconnect, Connect, ConnectToRelay, ConnectToShareSession, Connects
  <2>2. \/ share /\ share' /\ refresh'
        \/ ~share /\ relay /\ relay' /\ ~share' /\ UNCHANGED lan
        \/ ~share /\ ~relay /\ lan # None /\ UNCHANGED lan /\ ~share'
    BY <1>13 DEF Reconnect, Connect, ConnectToRelay, ConnectToShareSession,
               ClearsShare, Connects
  <2> QED
    BY <2>0, <2>1, <2>2
<1>14. CASE RefreshFires
  <2>1. UNCHANGED <<aim, lan, relay, share, manual, timer, line, via>>
    BY <1>14 DEF RefreshFires
  <2>2. refresh \/ orphans > 0
    BY <1>14 DEF RefreshFires
  <2>3. aim # None
    BY <2>2
  <2>4. RenewalGoesOn'
    BY <1>14, <2>1 DEF RefreshFires
  <2> QED
    BY <2>1, <2>3, <2>4
<1>15. CASE RefreshAnswers
  <2>1. UNCHANGED <<aim, lan, relay, share, manual, timer, line, via>>
    BY <1>15 DEF RefreshAnswers
  <2>2. aim # None
    BY <1>15 DEF RefreshAnswers
  <2>3. share /\ ~manual => refresh'
    BY <1>15 DEF RefreshAnswers
  <2> QED
    BY <2>1, <2>2, <2>3
<1>16. CASE RefreshFails
  <2>1. UNCHANGED <<aim, lan, relay, share, manual, timer, line, via>>
    BY <1>16 DEF RefreshFails
  <2>2. aim # None
    BY <1>16 DEF RefreshFails
  <2>3. ~manual => refresh'
    BY <1>16 DEF RefreshFails
  <2> QED
    BY <2>1, <2>2, <2>3
<1>17. CASE UNCHANGED vars
  BY <1>17 DEF vars
<1> QED
  BY <1>1, <1>2, <1>3, <1>4, <1>5, <1>6, <1>7, <1>8, <1>9, <1>10, <1>11,
     <1>12, <1>13, <1>14, <1>15, <1>16, <1>17 DEF Next, Network, User, Renewing

LEMMA SafeInv == Spec => []IInv
  BY SafeInit, SafeNext, PTL DEF Spec

\* The types, and an address is blocked exactly while its failures have reached
\* the limit, also when answers of several channels are judged out of order.
THEOREM ClientTypes == Spec => []TypeOK
<1>1. IInv => TypeOK
  BY DEF IInv, TypeInv
<1> QED
  BY <1>1, SafeInv, PTL

\* The app always has a channel or a timer that can open one, but for a wrong
\* password.
THEOREM ClientNotStranded == Spec => []NotStranded
<1>1. IInv => NotStranded
  BY DEF IInv
<1> QED
  BY <1>1, SafeInv, PTL

\* Nothing opens a channel after the user has disconnected.
THEOREM ClientStaysDown == Spec => []ManualStaysDown
<1>1. IInv => ManualStaysDown
  BY DEF IInv, LineInv, ManualStaysDown
<1> QED
  BY <1>1, SafeInv, PTL

\* The renewal of a share session never stops by itself.
THEOREM ClientRenews == Spec => []RenewalGoesOn
<1>1. IInv => RenewalGoesOn
  BY DEF IInv
<1> QED
  BY <1>1, SafeInv, PTL
==============================================================================
