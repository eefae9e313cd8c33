--------------------------- MODULE RelayRefinement ---------------------------
(***************************************************************************)
(* The relay engine implements RelayRoster and, in the second half,        *)
(* RelayPresence, for every value of the constants.  A registration takes  *)
(* effect on the roster when it installs the connection in the session it  *)
(* looked up, provided the engine still knows that session; otherwise the  *)
(* connection is turned away.                                              *)
(***************************************************************************)
EXTENDS RelayProofs

\* The values of the refinement mapping.
agentOf   == [m \in Clients |-> IF sessions[m] = NoConn THEN NoConn
                                ELSE agentConn[sessions[m]]]
membersOf == [m \in Clients |-> IF sessions[m] = NoConn THEN {}
                                ELSE apps[sessions[m]]]
Served    == {c \in Conns : hpc[c] \notin {"idle", "install"}}

\* A step the roster allows.
RosterStep == [Roster!Next]_(Roster!vars)

\* A step the roster does not see.
LEMMA Stutters ==
    ASSUME UNCHANGED <<agentOf, membersOf, Served>> PROVE RosterStep
  BY DEF RosterStep, agentOf, membersOf, Served, Roster!vars

\* The steps of the roster, in terms of the values of the mapping.
LEMMA JoinAgent ==
    ASSUME NEW a \in AgentConns, a \notin Served, Served' = Served \cup {a},
           agentOf' = [agentOf EXCEPT ![ClientOf[a]] = a], membersOf' = membersOf
    PROVE  RosterStep
  BY DEF RosterStep, agentOf, membersOf, Served, Roster!Next, Roster!AgentJoins

\* An app's join.
LEMMA JoinApp ==
    ASSUME NEW c \in AppConns, c \notin Served, Served' = Served \cup {c},
           membersOf' = [membersOf EXCEPT ![ClientOf[c]] =
                            {d \in @ : AppID[d] # AppID[c]} \cup {c}],
           agentOf' = agentOf
    PROVE  RosterStep
  BY DEF RosterStep, agentOf, membersOf, Served, Roster!Next, Roster!AppJoins

\* A registration in a session that ended, or a refused app.
LEMMA TurnAway ==
    ASSUME NEW c \in Conns, c \notin Served, Served' = Served \cup {c},
           membersOf' = membersOf, agentOf' = agentOf
    PROVE  RosterStep
  BY DEF RosterStep, agentOf, membersOf, Served, Roster!Next, Roster!TurnedAway, Conns

\* One app leaves.
LEMMA LeaveApp ==
    ASSUME NEW c \in AppConns, Served' = Served,
           c \in membersOf[ClientOf[c]],
           membersOf' = [membersOf EXCEPT ![ClientOf[c]] = @ \ {c}],
           agentOf' = agentOf
    PROVE  RosterStep
  BY DEF RosterStep, agentOf, membersOf, Served, Roster!Next, Roster!AppLeaves

\* The agent leaves with its apps.
LEMMA LeaveAgent ==
    ASSUME NEW a \in AgentConns, Served' = Served,
           agentOf[ClientOf[a]] = a,
           agentOf' = [agentOf EXCEPT ![ClientOf[a]] = NoConn],
           membersOf' = [membersOf EXCEPT ![ClientOf[a]] = {}]
    PROVE  RosterStep
  BY DEF RosterStep, agentOf, membersOf, Served, Roster!Next, Roster!AgentLeaves

\* cleanupApp removes a member or does what the roster does not see.
LEMMA LeaveStep ==
    ASSUME RegistryOK, OwnInv, NEW c \in AppConns, NEW s, LeaveSession(c, s),
           Served' = Served,
           (s \in Session /\ ClientOf[s] = ClientOf[c]) \/ s = NoConn
    PROVE  RosterStep
<1> DEFINE m == ClientOf[c]
<1>1. UNCHANGED <<sessions, agentConn>> /\ agentOf' = agentOf
  BY LeaveSessionEffect DEF agentOf
<1>2. CASE apps' = [apps EXCEPT ![s] = @ \ {c}] /\ s \in Session
           /\ sessions[m] = s /\ c \in apps[s]
  <2>1. /\ m \in Clients /\ s # NoConn
        /\ \A k \in Clients : sessions[k] = s => k = m
    BY <1>2, ConnFacts DEF OwnInv
  <2>2. c \in membersOf[m]
    BY <1>2, <2>1 DEF membersOf
  <2>3. membersOf' = [membersOf EXCEPT ![m] = @ \ {c}]
    BY <1>1, <1>2, <2>1 DEF membersOf, RegistryOK
  <2> QED
    BY <1>1, <2>2, <2>3, LeaveApp
<1>3. CASE apps' = [apps EXCEPT ![s] = @ \ {c}] /\ s \in Session
           /\ ClientOf[s] = m /\ sessions[m] # s
  <2>1. \A k \in Clients : sessions[k] # s
    BY <1>3, ConnFacts DEF OwnInv
  <2>2. membersOf' = membersOf
    BY <1>1, <1>3, <2>1 DEF membersOf, RegistryOK
  <2> QED
    BY <1>1, <2>2, Stutters
<1>4. CASE UNCHANGED apps
  BY <1>1, <1>4, Stutters DEF membersOf
<1>5. CASE apps' = [apps EXCEPT ![s] = @ \ {c}] /\ (s \in Session => c \notin apps[s])
  <2>1. apps' = apps
    BY <1>5 DEF RegistryOK
  <2> QED
    BY <2>1, <1>4
<1> QED
  BY <1>2, <1>3, <1>4, <1>5, LeaveSessionEffect, ConnFacts

\* Every action of the engine is a step of the roster or is not seen by it.
LEMMA RosterNext ==
    IInv /\ [Next]_vars => RosterStep
<1> SUFFICES ASSUME IInv, [Next]_vars PROVE RosterStep
  OBVIOUS
<1>0. OwnInv /\ FreshInv /\ RegistryOK /\ FindingOK /\ PcOK /\ HandlerOK
  BY DEF IInv, TypeInv, TypeOK
<1> USE <1>0, ConnFacts
<1> USE DEF registry, mutexes, socket, writing, finding, frame, HandlerAt, TickerAt, Return
<1>1. ASSUME NEW a \in AgentConns, RegisterLookup(a) PROVE RosterStep
  <2> DEFINE m == ClientOf[a]
  <2>1. CASE sessions[m] # NoConn
    <3>1. UNCHANGED <<sessions, agentConn, apps>>
      BY <1>1, <2>1 DEF RegisterLookup, RegistryOK
    <3>2. UNCHANGED Served
      BY <1>1 DEF RegisterLookup, Served, PcOK
    <3> QED
      BY <3>1, <3>2, Stutters DEF agentOf, membersOf
  <2>2. CASE sessions[m] = NoConn
    <3>1. sessions' = [sessions EXCEPT ![m] = a] /\ UNCHANGED <<agentConn, apps>>
      BY <1>1, <2>2 DEF RegisterLookup
    <3>2. agentConn[a] = NoConn /\ apps[a] = {} /\ a # NoConn /\ m \in Clients
      BY <1>1 DEF RegisterLookup, FreshInv
    <3>3. UNCHANGED <<agentOf, membersOf>>
      BY <2>2, <3>1, <3>2 DEF agentOf, membersOf, RegistryOK
    <3>4. UNCHANGED Served
      BY <1>1 DEF RegisterLookup, Served, PcOK
    <3> QED
      BY <3>3, <3>4, Stutters
  <2> QED
    BY <2>1, <2>2
<1>2. ASSUME NEW a \in AgentConns, RegisterInstall(a) PROVE RosterStep
  <2> DEFINE m == ClientOf[a]
             s == hs[a]
  <2>1. /\ s \in Session /\ ClientOf[s] = m /\ m \in Clients
        /\ \A k \in Clients : sessions[k] = s => k = m
    BY <1>2 DEF RegisterInstall, HandlerOK, OwnInv, RegistryOK
  <2>2. agentConn' = [agentConn EXCEPT ![s] = a] /\ UNCHANGED <<sessions, apps>>
    BY <1>2 DEF RegisterInstall
  <2>3. a \notin Served /\ Served' = Served \cup {a}
    BY <1>2 DEF RegisterInstall, Start, Served, PcOK
  <2>4. membersOf' = membersOf
    BY <2>2 DEF membersOf
  <2>5. CASE sessions[m] = s
    <3>1. agentOf' = [agentOf EXCEPT ![m] = a]
      BY <2>1, <2>2, <2>5 DEF agentOf, RegistryOK
    <3> QED
      BY <2>3, <2>4, <3>1, JoinAgent
  <2>6. CASE sessions[m] # s
    <3>1. agentOf' = agentOf
      BY <2>1, <2>2, <2>6 DEF agentOf, RegistryOK
    <3> QED
      BY <2>3, <2>4, <3>1, TurnAway
  <2> QED
    BY <2>5, <2>6
<1>3. ASSUME NEW c \in AppConns, ConnectRefused(c) PROVE RosterStep
  <2>1. c \notin Served /\ Served' = Served \cup {c}
    BY <1>3 DEF ConnectRefused, Served, PcOK
  <2>2. UNCHANGED <<agentOf, membersOf>>
    BY <1>3 DEF ConnectRefused, agentOf, membersOf
  <2> QED
    BY <2>1, <2>2, TurnAway
<1>4. ASSUME NEW c \in AppConns, ConnectLookup(c) PROVE RosterStep
  <2>1. UNCHANGED <<sessions, agentConn, apps>>
    BY <1>4 DEF ConnectLookup
  <2>2. UNCHANGED Served
    BY <1>4 DEF ConnectLookup, Served, PcOK
  <2> QED
    BY <2>1, <2>2, Stutters DEF agentOf, membersOf
<1>5. ASSUME NEW c \in AppConns, ConnectInstall(c) PROVE RosterStep
  <2> DEFINE m == ClientOf[c]
             s == hs[c]
  <2>1. /\ s \in Session /\ ClientOf[s] = m /\ m \in Clients
        /\ \A k \in Clients : sessions[k] = s => k = m
    BY <1>5 DEF ConnectInstall, HandlerOK, OwnInv, RegistryOK
  <2>2. /\ apps' = [apps EXCEPT ![s] = (@ \ Previous(c, s)) \cup {c}]
        /\ UNCHANGED <<sessions, agentConn>>
    BY <1>5 DEF ConnectInstall
  <2>3. c \notin Served /\ Served' = Served \cup {c}
    BY <1>5 DEF ConnectInstall, Start, Served, PcOK
  <2>4. agentOf' = agentOf
    BY <2>2 DEF agentOf
  <2>5. apps[s] \ Previous(c, s) = {d \in apps[s] : AppID[d] # AppID[c]}
    BY DEF Previous
  <2>6. CASE sessions[m] = s
    <3>1. membersOf' = [membersOf EXCEPT ![m] =
                           {d \in @ : AppID[d] # AppID[c]} \cup {c}]
      <4>1. membersOf[m] = apps[s] /\ membersOf'[m] = apps'[s]
        BY <2>1, <2>2, <2>6 DEF membersOf
      <4>2. \A k \in Clients : k # m => membersOf'[k] = membersOf[k]
        BY <2>1, <2>2 DEF membersOf, RegistryOK
      <4>3. apps'[s] = {d \in apps[s] : AppID[d] # AppID[c]} \cup {c}
        BY <2>1, <2>2, <2>5 DEF RegistryOK
      <4>4. membersOf' = [k \in Clients |-> membersOf'[k]]
        BY DEF membersOf
      <4>5. membersOf = [k \in Clients |-> membersOf[k]]
        BY DEF membersOf
      <4> QED
        BY <2>1, <4>1, <4>2, <4>3, <4>4, <4>5
    <3> QED
      BY <2>3, <2>4, <3>1, JoinApp
  <2>7. CASE sessions[m] # s
    <3>1. membersOf' = membersOf
      BY <2>1, <2>2, <2>7 DEF membersOf, RegistryOK
    <3> QED
      BY <2>3, <2>4, <3>1, TurnAway
  <2> QED
    BY <2>6, <2>7
<1>6. ASSUME NEW c \in Conns, ProxyLookup(c) PROVE RosterStep
  <2>1. UNCHANGED <<sessions, agentConn, apps>>
    BY <1>6 DEF ProxyLookup
  <2>2. UNCHANGED Served
    BY <1>6 DEF ProxyLookup, Served, PcOK
  <2> QED
    BY <2>1, <2>2, Stutters DEF agentOf, membersOf
<1>7. ASSUME NEW c \in Conns, ProxyCheck(c) PROVE RosterStep
  <2>1. UNCHANGED <<sessions, agentConn, apps>>
    BY <1>7 DEF ProxyCheck, StillCurrent
  <2>2. UNCHANGED Served
    BY <1>7 DEF ProxyCheck, StillCurrent, Served, PcOK
  <2> QED
    BY <2>1, <2>2, Stutters DEF agentOf, membersOf
<1>8. ASSUME NEW a \in AgentConns, ReadAgentFrame(a) PROVE RosterStep
  <2>1. UNCHANGED <<sessions, agentConn, apps>>
    BY <1>8 DEF ReadAgentFrame, Readable
  <2>2. UNCHANGED Served
    BY <1>8 DEF ReadAgentFrame, Readable, Served, PcOK
  <2> QED
    BY <2>1, <2>2, Stutters DEF agentOf, membersOf
<1>9. ASSUME NEW c \in AppConns, ReadAppFrame(c) PROVE RosterStep
  <2>1. UNCHANGED <<sessions, agentConn, apps>>
    BY <1>9 DEF ReadAppFrame, Readable, WriteBegins, WriteReturns
  <2>2. UNCHANGED Served
    BY <1>9 DEF ReadAppFrame, Readable, WriteBegins, WriteReturns, Served, PcOK
  <2> QED
    BY <2>1, <2>2, Stutters DEF agentOf, membersOf
<1>10. ASSUME NEW c \in AppConns, ReadAppDropped(c) PROVE RosterStep
  <2>1. UNCHANGED <<sessions, agentConn, apps>>
    BY <1>10 DEF ReadAppDropped, Readable
  <2>2. UNCHANGED Served
    BY <1>10 DEF ReadAppDropped, Readable, Served, PcOK
  <2> QED
    BY <2>1, <2>2, Stutters DEF agentOf, membersOf
<1>11. ASSUME NEW c \in AppConns, ReadAppPing(c) PROVE RosterStep
  <2>1. UNCHANGED <<sessions, agentConn, apps>>
    BY <1>11 DEF ReadAppPing, Readable, WriteBegins, WriteReturns
  <2>2. UNCHANGED Served
    BY <1>11 DEF ReadAppPing, Readable, WriteBegins, WriteReturns, Served, PcOK
  <2> QED
    BY <2>1, <2>2, Stutters DEF agentOf, membersOf
<1>12. ASSUME NEW a \in AgentConns, BroadcastLock(a) PROVE RosterStep
  <2>1. UNCHANGED <<sessions, agentConn, apps>>
    BY <1>12 DEF BroadcastLock, Lock
  <2>2. UNCHANGED Served
    BY <1>12 DEF BroadcastLock, Lock, Served, PcOK
  <2> QED
    BY <2>1, <2>2, Stutters DEF agentOf, membersOf
<1>13. ASSUME NEW a \in AgentConns, BroadcastNext(a) PROVE RosterStep
  <2>1. UNCHANGED <<sessions, agentConn, apps>>
    BY <1>13 DEF BroadcastNext, WriteBegins, WriteReturns
  <2>2. UNCHANGED Served
    BY <1>13 DEF BroadcastNext, WriteBegins, WriteReturns, Served, PcOK
  <2> QED
    BY <2>1, <2>2, Stutters DEF agentOf, membersOf
<1>14. ASSUME NEW a \in AgentConns, BroadcastUnlock(a) PROVE RosterStep
  <2>1. UNCHANGED <<sessions, agentConn, apps>>
    BY <1>14 DEF BroadcastUnlock, Unlock
  <2>2. UNCHANGED Served
    BY <1>14 DEF BroadcastUnlock, Unlock, Served, PcOK
  <2> QED
    BY <2>1, <2>2, Stutters DEF agentOf, membersOf
<1>15. ASSUME NEW c \in Conns, SendQueued(c) PROVE RosterStep
  <2>1. UNCHANGED <<sessions, agentConn, apps>>
    BY <1>15 DEF SendQueued, WriteReturns
  <2>2. UNCHANGED Served
    BY <1>15 DEF SendQueued, WriteReturns, Served, PcOK
  <2> QED
    BY <2>1, <2>2, Stutters DEF agentOf, membersOf
<1>16. ASSUME NEW c \in Conns, SendDropped(c) PROVE RosterStep
  <2>1. UNCHANGED <<sessions, agentConn, apps>>
    BY <1>16 DEF SendDropped, WriteReturns
  <2>2. UNCHANGED Served
    BY <1>16 DEF SendDropped, WriteReturns, Served, PcOK
  <2> QED
    BY <2>1, <2>2, Stutters DEF agentOf, membersOf
<1>17. ASSUME NEW c \in Conns, SendPanics(c) PROVE RosterStep
  <2>1. UNCHANGED <<sessions, agentConn, apps>>
    BY <1>17 DEF SendPanics
  <2>2. UNCHANGED Served
    BY <1>17 DEF SendPanics, Served, PcOK
  <2> QED
    BY <2>1, <2>2, Stutters DEF agentOf, membersOf
<1>18. ASSUME NEW a \in AgentConns, HandlerLocksEngine(a) PROVE RosterStep
  <2>1. UNCHANGED <<sessions, agentConn, apps>>
    BY <1>18 DEF HandlerLocksEngine, ReadFails
  <2>2. UNCHANGED Served
    BY <1>18 DEF HandlerLocksEngine, ReadFails, Served, PcOK
  <2> QED
    BY <2>1, <2>2, Stutters DEF agentOf, membersOf
<1>19. ASSUME NEW a \in AgentConns, HandlerCleansAgent(a) PROVE RosterStep
  <2>1. Served' = Served
    BY <1>19 DEF HandlerCleansAgent, Served, PcOK
  <2>2. CASE UNCHANGED registry
    BY <2>1, <2>2, Stutters DEF agentOf, membersOf, registry
  <2>3. ASSUME NEW s \in Session,
               agentConn[s] = a /\ s = sessions[ClientOf[a]],
               apps' = [apps EXCEPT ![s] = {}],
               agentConn' = [agentConn EXCEPT ![s] = NoConn],
               sessions' = [sessions EXCEPT ![ClientOf[a]] = NoConn]
        PROVE  RosterStep
    <3>1. /\ ClientOf[a] \in Clients /\ s # NoConn
          /\ \A k \in Clients : sessions[k] = s => k = ClientOf[a]
      BY <2>3 DEF OwnInv, RegistryOK
    <3>2. agentOf[ClientOf[a]] = a
      BY <2>3, <3>1 DEF agentOf
    <3>3. agentOf' = [agentOf EXCEPT ![ClientOf[a]] = NoConn]
      BY <2>3, <3>1 DEF agentOf, RegistryOK
    <3>4. membersOf' = [membersOf EXCEPT ![ClientOf[a]] = {}]
      BY <2>3, <3>1 DEF membersOf, RegistryOK
    <3> QED
      BY <2>1, <3>2, <3>3, <3>4, LeaveAgent
  <2>4. EndSession(a)
    BY <1>19 DEF HandlerCleansAgent
  <2> QED
    BY <2>2, <2>3, <2>4, EndSessionEffect DEF registry
<1>20. ASSUME NEW a \in AgentConns, TickerLocksEngine(a) PROVE RosterStep
  <2>1. UNCHANGED <<sessions, agentConn, apps>>
    BY <1>20 DEF TickerLocksEngine, PingFails
  <2>2. UNCHANGED Served
    BY <1>20 DEF TickerLocksEngine, PingFails, Served, PcOK
  <2> QED
    BY <2>1, <2>2, Stutters DEF agentOf, membersOf
<1>21. ASSUME NEW a \in AgentConns, TickerCleansAgent(a) PROVE RosterStep
  <2>1. Served' = Served
    BY <1>21 DEF TickerCleansAgent, Served, PcOK
  <2>2. CASE UNCHANGED registry
    BY <2>1, <2>2, Stutters DEF agentOf, membersOf, registry
  <2>3. ASSUME NEW s \in Session,
               agentConn[s] = a /\ s = sessions[ClientOf[a]],
               apps' = [apps EXCEPT ![s] = {}],
               agentConn' = [agentConn EXCEPT ![s] = NoConn],
               sessions' = [sessions EXCEPT ![ClientOf[a]] = NoConn]
        PROVE  RosterStep
    <3>1. /\ ClientOf[a] \in Clients /\ s # NoConn
          /\ \A k \in Clients : sessions[k] = s => k = ClientOf[a]
      BY <2>3 DEF OwnInv, RegistryOK
    <3>2. agentOf[ClientOf[a]] = a
      BY <2>3, <3>1 DEF agentOf
    <3>3. agentOf' = [agentOf EXCEPT ![ClientOf[a]] = NoConn]
      BY <2>3, <3>1 DEF agentOf, RegistryOK
    <3>4. membersOf' = [membersOf EXCEPT ![ClientOf[a]] = {}]
      BY <2>3, <3>1 DEF membersOf, RegistryOK
    <3> QED
      BY <2>1, <3>2, <3>3, <3>4, LeaveAgent
  <2>4. EndSession(a)
    BY <1>21 DEF TickerCleansAgent
  <2> QED
    BY <2>2, <2>3, <2>4, EndSessionEffect DEF registry
<1>22. ASSUME NEW c \in AppConns, HandlerLooksUp(c) PROVE RosterStep
  <2>1. UNCHANGED <<sessions, agentConn, apps>>
    BY <1>22 DEF HandlerLooksUp, ReadFails
  <2>2. UNCHANGED Served
    BY <1>22 DEF HandlerLooksUp, ReadFails, Served, PcOK
  <2> QED
    BY <2>1, <2>2, Stutters DEF agentOf, membersOf
<1>23. ASSUME NEW c \in AppConns, HandlerCleansApp(c) PROVE RosterStep
  <2>1. LeaveSession(c, hs[c])
    BY <1>23 DEF HandlerCleansApp
  <2>2. Served' = Served
    BY <1>23 DEF HandlerCleansApp, Served, PcOK
  <2>3. (hs[c] \in Session /\ ClientOf[hs[c]] = ClientOf[c]) \/ hs[c] = NoConn
    BY DEF OwnInv, FindingOK
  <2> QED
    BY <2>1, <2>2, <2>3, LeaveStep
<1>24. ASSUME NEW c \in AppConns, TickerLooksUp(c) PROVE RosterStep
  <2>1. UNCHANGED <<sessions, agentConn, apps>>
    BY <1>24 DEF TickerLooksUp, PingFails
  <2>2. UNCHANGED Served
    BY <1>24 DEF TickerLooksUp, PingFails, Served, PcOK
  <2> QED
    BY <2>1, <2>2, Stutters DEF agentOf, membersOf
<1>25. ASSUME NEW c \in AppConns, TickerCleansApp(c) PROVE RosterStep
  <2>1. LeaveSession(c, ts[c])
    BY <1>25 DEF TickerCleansApp
  <2>2. Served' = Served
    BY <1>25 DEF TickerCleansApp, Served, PcOK
  <2>3. (ts[c] \in Session /\ ClientOf[ts[c]] = ClientOf[c]) \/ ts[c] = NoConn
    BY DEF OwnInv, FindingOK
  <2> QED
    BY <2>1, <2>2, <2>3, LeaveStep
<1>26. ASSUME NEW c \in Conns, TickerStops(c) \/ WriteLoop(c) \/ Network(c) PROVE RosterStep
  <2>1. UNCHANGED <<sessions, agentConn, apps>>
    BY <1>26 DEF TickerStops, WriteLoop, WriterWrites, WriterFails, WriterEnds,
       Network, PeerStalls, PeerLeaves, ReadDeadline, NetAt
  <2>2. UNCHANGED Served
    BY <1>26 DEF TickerStops, WriteLoop, WriterWrites, WriterFails, WriterEnds,
       Network, PeerStalls, PeerLeaves, ReadDeadline, NetAt, Served, PcOK
  <2> QED
    BY <2>1, <2>2, Stutters DEF agentOf, membersOf
<1>27. CASE UNCHANGED vars
  BY <1>27, Stutters DEF vars, agentOf, membersOf, Served
<1> QED
  BY <1>1, <1>2, <1>3, <1>4, <1>5, <1>6, <1>7, <1>8, <1>9, <1>10, <1>11, <1>12,
     <1>13, <1>14, <1>15, <1>16, <1>17, <1>18, <1>19, <1>20, <1>21, <1>22, <1>23,
     <1>24, <1>25, <1>26, <1>27 DEF Next, AgentPeer, AppPeer, Handler,
     AgentHandler, AppHandler, Ticker

\* Every behaviour of the engine is one of the roster (relay.go:116-206,
\* 323-371): at most one agent, one app per address, apps leave with the agent.
THEOREM RelayImplementsRoster == Spec => ImplementsRoster
<1>1. Init => Roster!Init
  BY ConnFacts DEF Init, Roster!Init
<1>2. IInv /\ [Next]_vars => [Roster!Next]_(Roster!vars)
  BY RosterNext DEF RosterStep
<1> QED
  BY <1>1, <1>2, Invariance, PTL DEF Spec, ImplementsRoster, Roster!Spec


-----------------------------------------------------------------------------
(* The engine implements RelayPresence too.  An agent is there from the    *)
(* lookup that allocates a session on, an app from its installation; what  *)
(* happens in a session the engine has forgotten is not seen.              *)

\* The values of the refinement mapping.
upOf    == [m \in Clients |-> sessions[m] # NoConn]
watchOf == [m \in Clients |-> IF sessions[m] = NoConn THEN {}
                              ELSE {AppID[c] : c \in apps[sessions[m]]}]

\* A step the interface allows.
PresenceStep == [Presence!Next]_(Presence!vars)

\* One app per remote address.
AddressInv ==
    \A s \in Session : \A c, d \in apps[s] : AppID[c] = AppID[d] => c = d

\* A cleanup that still finds its app finds it in the session of the engine:
\* the end of a session takes its apps out.
LeavingInv ==
    \A c \in AppConns :
        /\ hpc[c] = "leaving" /\ c \in apps[hs[c]] => sessions[ClientOf[c]] = hs[c]
        /\ tpc[c] = "leaving" /\ c \in apps[ts[c]] => sessions[ClientOf[c]] = ts[c]
        /\ tpc[c] = "leaving" => ts[c] \in Session

\* A cleanup under way keeps its session; one that begins looks it up.
LEMMA LeavingSteps ==
    ASSUME TypeInv, OwnInv, [Next]_vars, NEW c \in AppConns
    PROVE  /\ hpc'[c] = "leaving" =>
                 \/ hpc[c] = "leaving" /\ hs'[c] = hs[c]
                 \/ hs'[c] = sessions[ClientOf[c]] /\ UNCHANGED registry
           /\ tpc'[c] = "leaving" =>
                 \/ tpc[c] = "leaving" /\ ts'[c] = ts[c]
                 \/ /\ ts'[c] = sessions[ClientOf[c]] /\ ts'[c] \in Session
                    /\ UNCHANGED registry
<1> DEFINE Kept == /\ hpc'[c] = "leaving" => hpc[c] = "leaving" /\ hs'[c] = hs[c]
                   /\ tpc'[c] = "leaving" => tpc[c] = "leaving" /\ ts'[c] = ts[c]
<1>0. RegistryOK /\ FindingOK /\ PcOK
  BY DEF TypeInv, TypeOK
<1> USE <1>0, ConnFacts
<1> USE DEF HandlerAt, TickerAt, Return, finding
<1>1. ASSUME NEW a \in AgentConns, RegisterLookup(a) \/ RegisterInstall(a) PROVE Kept
  BY <1>1 DEF RegisterLookup, RegisterInstall, Start, FindingOK, PcOK
<1>2. ASSUME NEW d \in AppConns,
             ConnectRefused(d) \/ ConnectLookup(d) \/ ConnectInstall(d)
      PROVE  Kept
  BY <1>2 DEF ConnectRefused, ConnectLookup, ConnectInstall, Start, FindingOK, PcOK
<1>3. ASSUME NEW d \in Conns, ProxyLookup(d) \/ ProxyCheck(d) PROVE Kept
  BY <1>3 DEF ProxyLookup, ProxyCheck, FindingOK, PcOK
<1>4. ASSUME NEW a \in AgentConns,
             \/ ReadAgentFrame(a) \/ BroadcastLock(a) \/ BroadcastNext(a)
             \/ BroadcastUnlock(a)
      PROVE  Kept
  BY <1>4 DEF ReadAgentFrame, BroadcastLock, BroadcastNext, WriteBegins, WriteReturns,
     BroadcastUnlock, PcOK
<1>5. ASSUME NEW d \in AppConns,
             ReadAppFrame(d) \/ ReadAppDropped(d) \/ ReadAppPing(d)
      PROVE  Kept
  BY <1>5 DEF ReadAppFrame, ReadAppDropped, ReadAppPing, WriteBegins, WriteReturns, PcOK
<1>6. ASSUME NEW d \in Conns, SendQueued(d) \/ SendDropped(d) \/ SendPanics(d)
      PROVE  Kept
  BY <1>6 DEF SendQueued, SendDropped, SendPanics, WriteReturns, PcOK
<1>7. ASSUME NEW d \in Conns, TickerStops(d) \/ WriteLoop(d) \/ Network(d)
      PROVE  Kept
  BY <1>7 DEF TickerStops, WriteLoop, WriterWrites, WriterFails, WriterEnds, Network,
     PeerStalls, PeerLeaves, ReadDeadline, NetAt, PcOK
<1>8. ASSUME NEW a \in AgentConns,
             \/ HandlerLocksEngine(a) \/ HandlerCleansAgent(a)
             \/ TickerLocksEngine(a) \/ TickerCleansAgent(a)
      PROVE  Kept
  BY <1>8 DEF HandlerLocksEngine, HandlerCleansAgent, TickerLocksEngine,
     TickerCleansAgent, FindingOK, PcOK
<1>9. ASSUME NEW d \in AppConns, HandlerCleansApp(d) \/ TickerCleansApp(d) PROVE Kept
  BY <1>9 DEF HandlerCleansApp, TickerCleansApp, FindingOK, PcOK
<1>10. ASSUME NEW d \in AppConns, HandlerLooksUp(d)
       PROVE  /\ UNCHANGED <<registry, ts, tpc>>
              /\ hpc'[c] = "leaving" =>
                    \/ hpc[c] = "leaving" /\ hs'[c] = hs[c]
                    \/ hs'[c] = sessions[ClientOf[c]]
  BY <1>10 DEF HandlerLooksUp, FindingOK, PcOK
<1>11. ASSUME NEW d \in AppConns, TickerLooksUp(d)
       PROVE  /\ UNCHANGED <<registry, hs, hpc>>
              /\ tpc'[c] = "leaving" =>
                    \/ tpc[c] = "leaving" /\ ts'[c] = ts[c]
                    \/ ts'[c] = sessions[ClientOf[c]] /\ ts'[c] \in Session
  BY <1>11 DEF TickerLooksUp, FindingOK, PcOK, RegistryOK
<1>12. CASE UNCHANGED vars
  BY <1>12 DEF vars
<1> QED
  BY <1>1, <1>2, <1>3, <1>4, <1>5, <1>6, <1>7, <1>8, <1>9, <1>10, <1>11, <1>12
  DEF Next, AgentPeer, AppPeer, Handler, AgentHandler, AppHandler, Ticker

\* ConnectApp takes the app with the same address out.
LEMMA AddressNext ==
    TypeInv /\ AddressInv /\ [Next]_vars => AddressInv'
<1> SUFFICES ASSUME TypeInv, AddressInv, [Next]_vars PROVE AddressInv'
  OBVIOUS
<1>0. RegistryOK
  BY DEF TypeInv, TypeOK
<1> USE <1>0 DEF AddressInv
<1>1. CASE UNCHANGED <<agentConn, apps, active>>
  BY <1>1
<1>2. ASSUME NEW a \in AgentConns, RegisterInstall(a) PROVE AddressInv'
  BY <1>2 DEF RegisterInstall
<1>3. ASSUME NEW c \in AppConns, ConnectInstall(c) PROVE AddressInv'
  <2>1. apps' = [apps EXCEPT ![hs[c]] = (@ \ Previous(c, hs[c])) \cup {c}]
    BY <1>3 DEF ConnectInstall
  <2> QED
    BY <2>1 DEF Previous, RegistryOK
<1>4. ASSUME NEW a \in AgentConns, EndSession(a) PROVE AddressInv'
  <2>1. UNCHANGED apps \/ \E s \in Session : apps' = [apps EXCEPT ![s] = {}]
    BY <1>4, EndSessionEffect DEF registry
  <2> QED
    BY <2>1 DEF RegistryOK
<1>5. ASSUME NEW c \in AppConns, NEW s, LeaveSession(c, s) PROVE AddressInv'
  BY <1>5, LeaveSessionEffect DEF RegistryOK
<1> QED
  BY <1>1, <1>2, <1>3, <1>4, <1>5, RegistrySteps

\* The apps of a session that ends are taken out of it, and no app that was
\* there before enters another one.
LEMMA LeavingNext ==
    TypeInv /\ OwnInv /\ LeavingInv /\ [Next]_vars => LeavingInv'
<1> SUFFICES ASSUME TypeInv, OwnInv, LeavingInv, [Next]_vars, NEW c \in AppConns
             PROVE  /\ hpc'[c] = "leaving" /\ c \in apps'[hs'[c]]
                          => sessions'[ClientOf[c]] = hs'[c]
                    /\ tpc'[c] = "leaving" /\ c \in apps'[ts'[c]]
                          => sessions'[ClientOf[c]] = ts'[c]
                    /\ tpc'[c] = "leaving" => ts'[c] \in Session
  BY DEF LeavingInv
<1> DEFINE Settled(s) == s \in Session /\ (c \in apps[s] => sessions[ClientOf[c]] = s)
           Here(s)    == s \in Session /\ c \in apps'[s] => sessions'[ClientOf[c]] = s
<1>0. RegistryOK /\ PcOK /\ HandlerOK /\ FindingOK
  BY DEF TypeInv, TypeOK
<1> USE <1>0, ConnFacts
<1>1. /\ hpc[c] = "leaving" => Settled(hs[c])
      /\ tpc[c] = "leaving" => Settled(ts[c])
  BY DEF LeavingInv, HandlerOK
<1>2. HandlerOK'
  BY NextType DEF TypeInv
<1>3. ASSUME hpc'[c] = "leaving" \/ tpc'[c] = "leaving", NEW s, Settled(s)
      PROVE  Here(s)
  <2>1. CASE UNCHANGED registry
    BY <1>3, <2>1 DEF registry
  <2>2. ASSUME NEW a \in AgentConns, RegisterLookup(a) PROVE Here(s)
    BY <1>3, <2>2 DEF RegisterLookup, RegistryOK
  <2>3. ASSUME NEW a \in AgentConns, RegisterInstall(a) PROVE Here(s)
    BY <1>3, <2>3 DEF RegisterInstall
  <2>4. ASSUME NEW d \in AppConns, ConnectInstall(d) PROVE Here(s)
    <3>1. c # d
      BY <1>3, <2>4 DEF ConnectInstall, Start, HandlerAt, TickerAt, PcOK
    <3>2. UNCHANGED sessions /\ (c \in apps'[s] => c \in apps[s])
      BY <1>3, <2>4, <3>1 DEF ConnectInstall, RegistryOK
    <3> QED
      BY <1>3, <3>2
  <2>5. ASSUME NEW a \in AgentConns, EndSession(a) PROVE Here(s)
    <3>1. CASE UNCHANGED registry
      BY <1>3, <3>1 DEF registry
    <3>2. ASSUME NEW t \in Session, t = sessions[ClientOf[a]],
                 apps' = [apps EXCEPT ![t] = {}],
                 sessions' = [sessions EXCEPT ![ClientOf[a]] = NoConn]
          PROVE  Here(s)
      BY <1>3, <3>2 DEF RegistryOK
    <3> QED
      BY <2>5, <3>1, <3>2, EndSessionEffect
  <2>6. ASSUME NEW d \in AppConns, NEW t, LeaveSession(d, t) PROVE Here(s)
    BY <1>3, <2>6, LeaveSessionEffect DEF RegistryOK
  <2> QED
    BY <2>1, <2>2, <2>3, <2>4, <2>5, <2>6, RegistryMoves
<1>4. hpc'[c] = "leaving" => Here(hs'[c])
  BY <1>1, <1>3, LeavingSteps DEF registry
<1>5. tpc'[c] = "leaving" => Here(ts'[c])
  BY <1>1, <1>3, LeavingSteps DEF registry
<1>6. /\ hpc'[c] = "leaving" => hs'[c] \in Session
      /\ tpc'[c] = "leaving" => ts'[c] \in Session
  BY <1>1, <1>2, LeavingSteps DEF HandlerOK
<1> QED
  BY <1>4, <1>5, <1>6

-----------------------------------------------------------------------------
(* The steps of the interface, in terms of the values of the mapping.      *)

\* A step the interface does not see.
LEMMA Unseen ==
    ASSUME UNCHANGED <<upOf, watchOf, jobs>> PROVE PresenceStep
  BY DEF PresenceStep, upOf, watchOf, Presence!vars

\* A session is allocated.
LEMMA AgentComes ==
    ASSUME NEW m \in Clients, ~upOf[m], upOf' = [upOf EXCEPT ![m] = TRUE],
           UNCHANGED <<watchOf, jobs>>
    PROVE  PresenceStep
  BY DEF PresenceStep, upOf, watchOf, Presence!Next, Presence!AgentConnects

\* A session ends.
LEMMA AgentGoes ==
    ASSUME NEW a \in AgentConns, upOf[ClientOf[a]],
           upOf' = [upOf EXCEPT ![ClientOf[a]] = FALSE],
           watchOf' = [watchOf EXCEPT ![ClientOf[a]] = {}],
           jobs' = [jobs EXCEPT ![a] = @ + 1]
    PROVE  PresenceStep
<1> DEFINE m == ClientOf[a]
           By == [k \in Clients |-> {b \in AgentConns : ClientOf[b] = k}]
<1>1. m \in Clients /\ a \in By[m]
  BY ConnFacts
<1>2. Presence!AgentLeaves(m)
  BY <1>1 DEF upOf, watchOf, Presence!AgentLeaves, Presence!Starts
<1> QED
  BY <1>1, <1>2 DEF PresenceStep, Presence!Next

\* An app joins.
LEMMA AppComes ==
    ASSUME NEW m \in Clients, NEW x \in AppIDs, upOf[m], x \notin watchOf[m],
           watchOf' = [watchOf EXCEPT ![m] = @ \cup {x}], UNCHANGED <<upOf, jobs>>
    PROVE  PresenceStep
  BY DEF PresenceStep, upOf, watchOf, Presence!Next, Presence!AppJoins

\* An app leaves.
LEMMA AppGoes ==
    ASSUME NEW c \in AppConns, AppID[c] \in watchOf[ClientOf[c]],
           watchOf' = [watchOf EXCEPT ![ClientOf[c]] = @ \ {AppID[c]}],
           jobs' = IF watchOf[ClientOf[c]] = {AppID[c]}
                   THEN [jobs EXCEPT ![c] = @ + 1] ELSE jobs,
           UNCHANGED upOf
    PROVE  PresenceStep
<1> DEFINE m == ClientOf[c]
           By == [k \in Clients |-> {d \in AppConns : ClientOf[d] = k}]
<1>1. m \in Clients /\ c \in By[m] /\ AppID[c] \in AppIDs
  BY ConnFacts, RelayAssumption
<1>2. Presence!AppLeaves(m, AppID[c])
  BY <1>1 DEF upOf, watchOf, Presence!AppLeaves, Presence!Starts
<1> QED
  BY <1>1, <1>2 DEF PresenceStep, Presence!Next

\* cleanupApp of a session of the engine or of none.
LEMMA LeaveSeen ==
    ASSUME RegistryOK, OwnInv, AddressInv, NEW c \in AppConns, NEW s \in Session,
           LeaveSession(c, s), c \in apps[s] => sessions[ClientOf[c]] = s
    PROVE  PresenceStep
<1> DEFINE m == ClientOf[c]
<1> USE ConnFacts
<1>1. UNCHANGED sessions /\ upOf' = upOf
  BY LeaveSessionEffect DEF upOf
<1>2. CASE c \notin apps[s]
  <2>1. UNCHANGED <<apps, jobs>>
    BY <1>2 DEF LeaveSession
  <2> QED
    BY <1>1, <2>1, Unseen DEF watchOf
<1>3. CASE c \in apps[s]
  <2>1. /\ m \in Clients /\ sessions[m] = s /\ s # NoConn
        /\ \A k \in Clients : sessions[k] = s => k = m
    BY <1>3 DEF OwnInv
  <2>2. /\ apps' = [apps EXCEPT ![s] = @ \ {c}]
        /\ jobs' = IF apps[s] = {c} THEN [jobs EXCEPT ![c] = @ + 1] ELSE jobs
    <3>1. jobs' = [jobs EXCEPT ![c] = IF apps[s] = {c} THEN @ + 1 ELSE @]
      BY <1>3 DEF LeaveSession, IsLastApp
    <3> QED
      BY <1>3, <3>1 DEF LeaveSession, RegistryOK
  <2>3. watchOf[m] = {AppID[d] : d \in apps[s]}
    BY <2>1 DEF watchOf
  <2>4. {AppID[d] : d \in apps[s] \ {c}} = {AppID[d] : d \in apps[s]} \ {AppID[c]}
    BY <1>3 DEF AddressInv
  <2>5. watchOf' = [watchOf EXCEPT ![m] = @ \ {AppID[c]}]
    <3>1. apps'[s] = apps[s] \ {c} /\ \A t \in Session : t # s => apps'[t] = apps[t]
      BY <2>2 DEF RegistryOK
    <3>2. watchOf'[m] = watchOf[m] \ {AppID[c]}
      BY <1>1, <2>1, <2>3, <2>4, <3>1 DEF watchOf
    <3>3. \A k \in Clients : k # m => watchOf'[k] = watchOf[k]
      BY <1>1, <2>1, <3>1 DEF watchOf, RegistryOK
    <3> QED
      BY <2>1, <3>2, <3>3 DEF watchOf
  <2>6. watchOf[m] = {AppID[c]} <=> apps[s] = {c}
    BY <1>3, <2>3 DEF AddressInv
  <2>7. AppID[c] \in watchOf[m]
    BY <1>3, <2>3
  <2> QED
    BY <1>1, <2>2, <2>5, <2>6, <2>7, AppGoes
<1> QED
  BY <1>2, <1>3

\* Every action of the engine is a step of the interface or is not seen by it.
LEMMA PresenceNext ==
    IInv /\ AddressInv /\ LeavingInv /\ [Next]_vars => PresenceStep
<1> SUFFICES ASSUME IInv, AddressInv, LeavingInv, [Next]_vars PROVE PresenceStep
  OBVIOUS
<1>0. OwnInv /\ FreshInv /\ MemberInv /\ RegistryOK /\ HandlerOK
  BY DEF IInv, TypeInv, TypeOK
<1> USE <1>0, ConnFacts
<1>1. CASE UNCHANGED registry
  BY <1>1, Unseen DEF registry, upOf, watchOf
<1>2. ASSUME NEW a \in AgentConns, RegisterLookup(a) PROVE PresenceStep
  <2> DEFINE m == ClientOf[a]
  <2>1. UNCHANGED <<apps, jobs>>
    BY <1>2 DEF RegisterLookup
  <2>2. CASE sessions[m] # NoConn
    <3>1. UNCHANGED sessions
      BY <1>2, <2>2 DEF RegisterLookup, RegistryOK
    <3> QED
      BY <2>1, <3>1, Unseen DEF upOf, watchOf
  <2>3. CASE sessions[m] = NoConn
    <3>1. /\ m \in Clients /\ a # NoConn /\ apps[a] = {}
          /\ sessions' = [sessions EXCEPT ![m] = a]
      BY <1>2, <2>3 DEF RegisterLookup, FreshInv
    <3>2. ~upOf[m] /\ upOf' = [upOf EXCEPT ![m] = TRUE]
      BY <2>3, <3>1 DEF upOf, RegistryOK
    <3>3. watchOf' = watchOf
      <4>1. watchOf'[m] = {} /\ watchOf[m] = {}
        BY <2>1, <2>3, <3>1 DEF watchOf, RegistryOK
      <4>2. \A k \in Clients : k # m => watchOf'[k] = watchOf[k]
        BY <2>1, <3>1 DEF watchOf, RegistryOK
      <4> QED
        BY <4>1, <4>2 DEF watchOf
    <3> QED
      BY <2>1, <3>1, <3>2, <3>3, AgentComes
  <2> QED
    BY <2>2, <2>3
<1>3. ASSUME NEW a \in AgentConns, RegisterInstall(a) PROVE PresenceStep
  BY <1>3, Unseen DEF RegisterInstall, upOf, watchOf
<1>4. ASSUME NEW c \in AppConns, ConnectInstall(c) PROVE PresenceStep
  <2> DEFINE m == ClientOf[c]
             s == hs[c]
  <2>1. /\ s \in Session /\ ClientOf[s] = m /\ m \in Clients
        /\ \A k \in Clients : sessions[k] = s => k = m
    BY <1>4 DEF ConnectInstall, HandlerOK, OwnInv, RegistryOK
  <2>2. /\ apps' = [apps EXCEPT ![s] = (@ \ Previous(c, s)) \cup {c}]
        /\ UNCHANGED <<sessions, jobs>> /\ upOf' = upOf
    BY <1>4 DEF ConnectInstall, upOf
  <2>3. CASE sessions[m] # s
    BY <2>1, <2>2, <2>3, Unseen DEF watchOf, RegistryOK
  <2>4. CASE sessions[m] = s
    <3>1. apps'[s] = (apps[s] \ Previous(c, s)) \cup {c}
      BY <2>1, <2>2 DEF RegistryOK
    <3>2. {AppID[d] : d \in apps'[s]} = {AppID[d] : d \in apps[s]} \cup {AppID[c]}
      BY <3>1 DEF Previous
    <3>3. watchOf' = [watchOf EXCEPT ![m] = @ \cup {AppID[c]}]
      <4>1. watchOf'[m] = watchOf[m] \cup {AppID[c]}
        BY <2>1, <2>2, <2>4, <3>2 DEF watchOf
      <4>2. \A k \in Clients : k # m => watchOf'[k] = watchOf[k]
        BY <2>1, <2>2 DEF watchOf, RegistryOK
      <4> QED
        BY <2>1, <4>1, <4>2 DEF watchOf
    <3>4. upOf[m] /\ AppID[c] \in AppIDs
      BY <2>1, <2>4, RelayAssumption DEF upOf
    <3>5. CASE AppID[c] \in watchOf[m]
      <4>1. watchOf[m] \cup {AppID[c]} = watchOf[m]
        BY <3>5
      <4>2. watchOf' = watchOf
        BY <3>3, <4>1 DEF watchOf
      <4> QED
        BY <2>2, <4>2, Unseen
    <3> QED
      BY <2>1, <2>2, <3>3, <3>4, <3>5, AppComes
  <2> QED
    BY <2>3, <2>4
<1>5. ASSUME NEW a \in AgentConns, EndSession(a) PROVE PresenceStep
  <2> DEFINE m == ClientOf[a]
  <2>1. CASE UNCHANGED registry
    BY <2>1, <1>1
  <2>2. ASSUME NEW s \in Session, s = sessions[m],
               apps' = [apps EXCEPT ![s] = {}],
               sessions' = [sessions EXCEPT ![m] = NoConn],
               jobs' = [jobs EXCEPT ![a] = @ + 1]
        PROVE  PresenceStep
    <3>1. /\ m \in Clients /\ s # NoConn
          /\ \A k \in Clients : sessions[k] = s => k = m
      BY <2>2 DEF OwnInv, RegistryOK
    <3>2. upOf[m] /\ upOf' = [upOf EXCEPT ![m] = FALSE]
      BY <2>2, <3>1 DEF upOf, RegistryOK
    <3>3. watchOf' = [watchOf EXCEPT ![m] = {}]
      BY <2>2, <3>1 DEF watchOf, RegistryOK
    <3> QED
      BY <2>2, <3>2, <3>3, AgentGoes
  <2> QED
    BY <1>5, <2>1, <2>2, EndSessionEffect
<1>6. ASSUME NEW c \in AppConns, LeaveSession(c, hs[c]), hpc[c] = "leaving"
      PROVE  PresenceStep
  BY <1>6, LeaveSeen DEF HandlerOK, LeavingInv
<1>7. ASSUME NEW c \in AppConns, LeaveSession(c, ts[c]), tpc[c] = "leaving"
      PROVE  PresenceStep
  BY <1>7, LeaveSeen DEF LeavingInv
<1> QED
  BY <1>1, <1>2, <1>3, <1>4, <1>5, <1>6, <1>7, RegistryMoves

\* Every behaviour of the engine is one of the interface the share sessions
\* see (relay.go:116-216, 323-372): each departure of an agent and each of a
\* last app starts one database task, and no other departure starts any.
THEOREM RelayImplementsPresence == Spec => ImplementsPresence
<1> DEFINE PInv == IInv /\ AddressInv /\ LeavingInv
<1>1. Init => Presence!Init
  <2> SUFFICES ASSUME Init PROVE Presence!Init
    OBVIOUS
  <2>1. upOf = [m \in Clients |-> FALSE]
    BY DEF Init, upOf
  <2>2. watchOf = [m \in Clients |-> {}]
    BY DEF Init, watchOf
  <2>3. jobs = [c \in Conns |-> 0]
    BY DEF Init
  <2> QED
    BY <2>1, <2>2, <2>3 DEF Presence!Init, upOf, watchOf
<1>2. Init => PInv
  <2>1. Init => AddressInv /\ LeavingInv
    BY ConnFacts DEF Init, AddressInv, LeavingInv
  <2> QED
    BY <2>1, InitIInv
<1>3. PInv /\ [Next]_vars => PInv'
  BY NextIInv, AddressNext, LeavingNext DEF IInv
<1>4. PInv /\ [Next]_vars => [Presence!Next]_(Presence!vars)
  BY PresenceNext DEF PresenceStep
<1> QED
  BY <1>1, <1>2, <1>3, <1>4, PTL DEF Spec, ImplementsPresence, Presence!Spec

=============================================================================
