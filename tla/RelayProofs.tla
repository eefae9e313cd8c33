----------------------------- MODULE RelayProofs -----------------------------
(***************************************************************************)
(* The safety theorems of the relay engine, for any number of machines,    *)
(* agents and apps, any capacity of MsgChan and any failures.              *)
(*                                                                         *)
(* The inductive invariant IInv is a conjunction of parts.  Each part has  *)
(* a lemma that says a step preserves it, with one case per action; the    *)
(* cases lean on other parts as the statement of the lemma says.           *)
(***************************************************************************)
EXTENDS RelayTypes

Broadcasting(a) == hpc[a] \in {"bcast", "send"}

\* A broadcasting agent holds the mutex of its session, and alone.
LockInv ==
    /\ \A a \in AgentConns : Broadcasting(a) => sessMu[hs[a]]
    /\ \A a, b \in AgentConns :
          a # b /\ Broadcasting(a) /\ Broadcasting(b) => hs[a] # hs[b]

\* A connected app is open and in the one session it was connected to.
MemberInv ==
    /\ \A s \in Session : \A c \in apps[s] :
          ~closed[c] /\ home[c] = s /\ hpc[c] \notin {"idle", "install"}
    /\ \A c \in AppConns :
          /\ hpc[c] \in {"idle", "install"} => ~closed[c]
          /\ hpc[c] = "install" => hs[c] = home[c]

\* What a broadcast has still to visit, and the app it visits, stay connected.
TodoInv ==
    \A a \in AgentConns :
        /\ Broadcasting(a) => todo[a] \subseteq apps[hs[a]]
        /\ hpc[a] = "send" => dest[a] \in apps[hs[a]]

\* A goroutine that cleans up has seen its network fail.
FailedInv ==
    \A c \in Conns :
        tpc[c] \in {"locked", "leaving"} \/ hpc[c] \in {"locked", "leaving"}
            => net[c] # "up"

\* A handler past its lookup: the session it is registered in is the one of
\* its client id; it has lost its place only with its network.
PlaceInv ==
    \A c \in Conns :
        /\ (hpc[c] = "check" \/ Relaying(c)) =>
              (Registered(c, hs[c]) => sessions[ClientOf[c]] = hs[c])
        /\ Relaying(c) /\ net[c] = "up" => Registered(c, hs[c])

\* Sessions are not shared between client ids.
OwnInv ==
    /\ \A m \in Clients : sessions[m] # NoConn => ClientOf[sessions[m]] = m
    /\ \A c \in Conns : /\ hs[c] # NoConn => ClientOf[hs[c]] = ClientOf[c]
                        /\ ts[c] # NoConn => ClientOf[ts[c]] = ClientOf[c]

\* A session that has not been allocated is empty and nobody refers to it.
FreshInv ==
    \A a \in AgentConns : hpc[a] = "idle" =>
        /\ agentConn[a] = NoConn /\ apps[a] = {}
        /\ \A m \in Clients : sessions[m] # a
        /\ \A c \in Conns : hs[c] # a

-----------------------------------------------------------------------------
(* The effect of the cleanups.                                             *)

\* cleanupAgent either ends the session of its agent or changes nothing.
LEMMA EndSessionEffect ==
    ASSUME RegistryOK, NEW a \in AgentConns, EndSession(a)
    PROVE  \/ UNCHANGED <<registry, closed>> /\ Orphans(a) = {}
           \/ \E s \in Session :
                /\ s = sessions[ClientOf[a]] /\ Free(s) /\ agentConn[s] = a
                /\ Orphans(a) = apps[s]
                /\ closed' = [c \in Conns |-> closed[c] \/ c \in apps[s]]
                /\ apps' = [apps EXCEPT ![s] = {}]
                /\ agentConn' = [agentConn EXCEPT ![s] = NoConn]
                /\ active' = [active EXCEPT ![s] = FALSE]
                /\ sessions' = [sessions EXCEPT ![ClientOf[a]] = NoConn]
                /\ jobs' = [jobs EXCEPT ![a] = @ + 1]
<1> DEFINE s == sessions[ClientOf[a]]
<1>1. CASE s # NoConn /\ agentConn[s] = a
  <2>1. s \in Session
    BY <1>1, ConnFacts DEF RegistryOK
  <2>2. /\ Free(s) /\ Orphans(a) = apps[s]
        /\ Close(apps[s])
        /\ apps' = [apps EXCEPT ![s] = {}]
        /\ agentConn' = [agentConn EXCEPT ![s] = NoConn]
        /\ active' = [active EXCEPT ![s] = FALSE]
        /\ sessions' = [sessions EXCEPT ![ClientOf[a]] = NoConn]
        /\ jobs' = [jobs EXCEPT ![a] = @ + 1]
    BY <1>1, Zenon DEF EndSession, Orphans, IsCurrentAgent, DeleteSession
  <2> QED
    BY <1>1, <2>1, <2>2 DEF Close
<1>2. CASE ~(s # NoConn /\ agentConn[s] = a)
  BY <1>2, Zenon DEF EndSession, Orphans, IsCurrentAgent
<1> QED
  BY <1>1, <1>2

\* cleanupApp removes at most its own connection.
LEMMA LeaveSessionEffect ==
    ASSUME RegistryOK, NEW c \in AppConns, NEW s, LeaveSession(c, s)
    PROVE  /\ Free(s) /\ UNCHANGED <<sessions, agentConn>>
           /\ apps' = [apps EXCEPT ![s] = @ \ {c}] \/ UNCHANGED apps
  BY DEF LeaveSession

\* Apps are closed only when they leave their session.
LEMMA MemberNext ==
    TypeInv /\ MemberInv /\ [Next]_vars => MemberInv'
<1> SUFFICES ASSUME TypeInv, MemberInv, [Next]_vars PROVE MemberInv'
  OBVIOUS
<1>0. RegistryOK /\ SocketOK /\ FindingOK /\ PcOK /\ HandlerOK
  BY DEF TypeInv, TypeOK
<1> USE <1>0, ConnFacts
<1> USE DEF registry, mutexes, socket, writing, finding, frame, HandlerAt, TickerAt, Return, NetDown, Close
<1>1. ASSUME NEW a \in AgentConns, RegisterLookup(a) PROVE MemberInv'
  BY <1>1 DEF RegisterLookup, MemberInv, RegistryOK, SocketOK, FindingOK, PcOK
<1>2. ASSUME NEW a \in AgentConns, RegisterInstall(a) PROVE MemberInv'
  <2>1. hs[a] \in Session /\ agentConn[hs[a]] \in AgentConns \cup {NoConn}
    BY <1>2 DEF RegisterInstall, HandlerOK, RegistryOK
  <2>2. \A c \in AppConns : closed'[c] = closed[c]
    BY <1>2, <2>1 DEF RegisterInstall, SocketOK
  <2>3. /\ UNCHANGED <<apps, home, hs>>
        /\ hpc' = [hpc EXCEPT ![a] = "lookup"]
    BY <1>2 DEF RegisterInstall, Start
  <2> QED
    BY <2>2, <2>3 DEF MemberInv, RegistryOK, PcOK
<1>3. ASSUME NEW c \in AppConns, ConnectRefused(c) PROVE MemberInv'
  BY <1>3 DEF ConnectRefused, MemberInv, RegistryOK, SocketOK, FindingOK, PcOK
<1>4. ASSUME NEW c \in AppConns, ConnectLookup(c) PROVE MemberInv'
  BY <1>4 DEF ConnectLookup, MemberInv, RegistryOK, SocketOK, FindingOK, PcOK
<1>5. ASSUME NEW c \in AppConns, ConnectInstall(c) PROVE MemberInv'
  <2>1. /\ hs[c] \in Session /\ home[c] = hs[c] /\ ~closed[c]
        /\ \A s \in Session : c \notin apps[s]
    BY <1>5 DEF ConnectInstall, HandlerOK, MemberInv
  <2>2. Previous(c, hs[c]) \subseteq apps[hs[c]]
    BY DEF Previous
  <2>3. /\ apps' = [apps EXCEPT ![hs[c]] = (@ \ Previous(c, hs[c])) \cup {c}]
        /\ closed' = [d \in Conns |-> closed[d] \/ d \in Previous(c, hs[c])]
        /\ hpc' = [hpc EXCEPT ![c] = "lookup"]
        /\ UNCHANGED <<hs, home>>
    BY <1>5 DEF ConnectInstall, Start
  <2>4. ASSUME NEW s \in Session, NEW d \in apps'[s]
        PROVE  ~closed'[d] /\ home'[d] = s /\ hpc'[d] \notin {"idle", "install"}
    <3>1. CASE d = c
      BY <2>1, <2>2, <2>3, <2>4, <3>1 DEF RegistryOK, SocketOK, PcOK, MemberInv
    <3>2. CASE d # c
      <4>1. d \in apps[s] /\ d \in Conns /\ d \notin Previous(c, hs[c])
        BY <2>1, <2>2, <2>3, <2>4, <3>2 DEF RegistryOK, MemberInv
      <4> QED
        BY <2>3, <3>2, <4>1 DEF SocketOK, PcOK, MemberInv
    <3> QED
      BY <3>1, <3>2
  <2>5. ASSUME NEW d \in AppConns, hpc'[d] \in {"idle", "install"}
        PROVE  ~closed'[d] /\ (hpc'[d] = "install" => hs'[d] = home'[d])
    BY <2>1, <2>2, <2>3, <2>5 DEF SocketOK, PcOK, MemberInv
  <2> QED
    BY <2>4, <2>5 DEF MemberInv
<1>6. ASSUME NEW c \in Conns, ProxyLookup(c) PROVE MemberInv'
  BY <1>6 DEF ProxyLookup, MemberInv, RegistryOK, SocketOK, FindingOK, PcOK
<1>7. ASSUME NEW c \in Conns, ProxyCheck(c) PROVE MemberInv'
  BY <1>7 DEF ProxyCheck, StillCurrent, MemberInv, RegistryOK, SocketOK,
     FindingOK, PcOK
<1>8. ASSUME NEW a \in AgentConns, ReadAgentFrame(a) PROVE MemberInv'
  BY <1>8 DEF ReadAgentFrame, Readable, MemberInv, RegistryOK, SocketOK,
     FindingOK, PcOK
<1>9. ASSUME NEW c \in AppConns, ReadAppFrame(c) PROVE MemberInv'
  BY <1>9 DEF ReadAppFrame, Readable, WriteBegins, WriteReturns, MemberInv,
     RegistryOK, SocketOK, FindingOK, PcOK
<1>10. ASSUME NEW c \in AppConns, ReadAppDropped(c) PROVE MemberInv'
  BY <1>10 DEF ReadAppDropped, Readable, MemberInv, RegistryOK, SocketOK,
     FindingOK, PcOK
<1>11. ASSUME NEW c \in AppConns, ReadAppPing(c) PROVE MemberInv'
  BY <1>11 DEF ReadAppPing, Readable, WriteBegins, WriteReturns, MemberInv,
     RegistryOK, SocketOK, FindingOK, PcOK
<1>12. ASSUME NEW a \in AgentConns, BroadcastLock(a) PROVE MemberInv'
  BY <1>12 DEF BroadcastLock, Lock, MemberInv, RegistryOK, SocketOK, FindingOK,
     PcOK
<1>13. ASSUME NEW a \in AgentConns, BroadcastNext(a) PROVE MemberInv'
  BY <1>13 DEF BroadcastNext, WriteBegins, WriteReturns, MemberInv, RegistryOK,
     SocketOK, FindingOK, PcOK
<1>14. ASSUME NEW a \in AgentConns, BroadcastUnlock(a) PROVE MemberInv'
  BY <1>14 DEF BroadcastUnlock, Unlock, MemberInv, RegistryOK, SocketOK,
     FindingOK, PcOK
<1>15. ASSUME NEW c \in Conns, SendQueued(c) PROVE MemberInv'
  BY <1>15 DEF SendQueued, WriteReturns, MemberInv, RegistryOK, SocketOK,
     FindingOK, PcOK
<1>16. ASSUME NEW c \in Conns, SendDropped(c) PROVE MemberInv'
  BY <1>16 DEF SendDropped, WriteReturns, MemberInv, RegistryOK, SocketOK,
     FindingOK, PcOK
<1>17. ASSUME NEW c \in Conns, SendPanics(c) PROVE MemberInv'
  BY <1>17 DEF SendPanics, MemberInv, RegistryOK, SocketOK, FindingOK, PcOK
<1>18. ASSUME NEW a \in AgentConns, HandlerLocksEngine(a) PROVE MemberInv'
  BY <1>18 DEF HandlerLocksEngine, ReadFails, MemberInv, RegistryOK, SocketOK,
     FindingOK, PcOK
<1>19. ASSUME NEW a \in AgentConns, HandlerCleansAgent(a) PROVE MemberInv'
  <2>1. CASE UNCHANGED <<registry, closed>> /\ Orphans(a) = {}
    BY <1>19, <2>1 DEF HandlerCleansAgent, MemberInv, RegistryOK, SocketOK, FindingOK, PcOK
  <2>2. ASSUME NEW s \in Session,
               Free(s) /\ agentConn[s] = a /\ s = sessions[ClientOf[a]],
               Orphans(a) = apps[s],
               apps' = [apps EXCEPT ![s] = {}],
               agentConn' = [agentConn EXCEPT ![s] = NoConn],
               sessions' = [sessions EXCEPT ![ClientOf[a]] = NoConn],
               closed' = [c \in Conns |-> closed[c] \/ c \in apps[s]]
        PROVE  MemberInv'
    BY <1>19, <2>2 DEF HandlerCleansAgent, MemberInv, RegistryOK, SocketOK, FindingOK, PcOK
  <2>3. EndSession(a)
    BY <1>19 DEF HandlerCleansAgent
  <2> QED
    BY <2>1, <2>2, <2>3, EndSessionEffect
<1>20. ASSUME NEW a \in AgentConns, TickerLocksEngine(a) PROVE MemberInv'
  BY <1>20 DEF TickerLocksEngine, PingFails, MemberInv, RegistryOK, SocketOK,
     FindingOK, PcOK
<1>21. ASSUME NEW a \in AgentConns, TickerCleansAgent(a) PROVE MemberInv'
  <2>1. CASE UNCHANGED <<registry, closed>> /\ Orphans(a) = {}
    BY <1>21, <2>1 DEF TickerCleansAgent, MemberInv, RegistryOK, SocketOK, FindingOK, PcOK
  <2>2. ASSUME NEW s \in Session,
               Free(s) /\ agentConn[s] = a /\ s = sessions[ClientOf[a]],
               Orphans(a) = apps[s],
               apps' = [apps EXCEPT ![s] = {}],
               agentConn' = [agentConn EXCEPT ![s] = NoConn],
               sessions' = [sessions EXCEPT ![ClientOf[a]] = NoConn],
               closed' = [c \in Conns |-> closed[c] \/ c \in apps[s]]
        PROVE  MemberInv'
    BY <1>21, <2>2 DEF TickerCleansAgent, MemberInv, RegistryOK, SocketOK, FindingOK, PcOK
  <2>3. EndSession(a)
    BY <1>21 DEF TickerCleansAgent
  <2> QED
    BY <2>1, <2>2, <2>3, EndSessionEffect
<1>22. ASSUME NEW c \in AppConns, HandlerLooksUp(c) PROVE MemberInv'
  BY <1>22 DEF HandlerLooksUp, ReadFails, MemberInv, RegistryOK, SocketOK,
     FindingOK, PcOK
<1>23. ASSUME NEW c \in AppConns, HandlerCleansApp(c) PROVE MemberInv'
  <2>1. LeaveSession(c, hs[c])
    BY <1>23 DEF HandlerCleansApp
  <2> QED
    BY <1>23, <2>1, LeaveSessionEffect DEF HandlerCleansApp, MemberInv, RegistryOK, FindingOK, PcOK
<1>24. ASSUME NEW c \in AppConns, TickerLooksUp(c) PROVE MemberInv'
  BY <1>24 DEF TickerLooksUp, PingFails, MemberInv, RegistryOK, SocketOK,
     FindingOK, PcOK
<1>25. ASSUME NEW c \in AppConns, TickerCleansApp(c) PROVE MemberInv'
  <2>1. LeaveSession(c, ts[c])
    BY <1>25 DEF TickerCleansApp
  <2> QED
    BY <1>25, <2>1, LeaveSessionEffect DEF TickerCleansApp, MemberInv, RegistryOK, FindingOK, PcOK
<1>26. ASSUME NEW c \in Conns, TickerStops(c) \/ WriteLoop(c) \/ Network(c) PROVE MemberInv'
  BY <1>26 DEF TickerStops, WriteLoop, WriterWrites, WriterFails, WriterEnds,
     Network, PeerStalls, PeerLeaves, ReadDeadline, NetAt, MemberInv, RegistryOK,
     SocketOK, FindingOK, PcOK
<1>27. CASE UNCHANGED vars
  BY <1>27 DEF vars, MemberInv, RegistryOK, SocketOK, FindingOK, PcOK
<1> QED
  BY <1>1, <1>2, <1>3, <1>4, <1>5, <1>6, <1>7, <1>8, <1>9, <1>10, <1>11, <1>12,
     <1>13, <1>14, <1>15, <1>16, <1>17, <1>18, <1>19, <1>20, <1>21, <1>22, <1>23,
     <1>24, <1>25, <1>26, <1>27 DEF Next, AgentPeer, AppPeer, Handler,
     AgentHandler, AppHandler, Ticker

\* BroadcastLock waits for the mutex; only its holder unlocks it.
LEMMA LockNext ==
    TypeInv /\ LockInv /\ [Next]_vars => LockInv'
<1> SUFFICES ASSUME TypeInv, LockInv, [Next]_vars PROVE LockInv'
  OBVIOUS
<1>0. MutexesOK /\ FindingOK /\ PcOK /\ HandlerOK
  BY DEF TypeInv, TypeOK
<1> USE <1>0, ConnFacts
<1> USE DEF registry, mutexes, socket, writing, finding, frame, HandlerAt, TickerAt, Return, NetDown, Close
<1>1. ASSUME NEW a \in AgentConns, RegisterLookup(a) PROVE LockInv'
  BY <1>1 DEF RegisterLookup, LockInv, Broadcasting, MutexesOK, FindingOK, PcOK
<1>2. ASSUME NEW a \in AgentConns, RegisterInstall(a) PROVE LockInv'
  BY <1>2 DEF RegisterInstall, Start, LockInv, Broadcasting, MutexesOK,
     FindingOK, PcOK
<1>3. ASSUME NEW c \in AppConns, ConnectRefused(c) PROVE LockInv'
  BY <1>3 DEF ConnectRefused, LockInv, Broadcasting, MutexesOK, FindingOK, PcOK
<1>4. ASSUME NEW c \in AppConns, ConnectLookup(c) PROVE LockInv'
  BY <1>4 DEF ConnectLookup, LockInv, Broadcasting, MutexesOK, FindingOK, PcOK
<1>5. ASSUME NEW c \in AppConns, ConnectInstall(c) PROVE LockInv'
  BY <1>5 DEF ConnectInstall, Start, Previous, LockInv, Broadcasting, MutexesOK,
     FindingOK, PcOK
<1>6. ASSUME NEW c \in Conns, ProxyLookup(c) PROVE LockInv'
  BY <1>6 DEF ProxyLookup, LockInv, Broadcasting, MutexesOK, FindingOK, PcOK
<1>7. ASSUME NEW c \in Conns, ProxyCheck(c) PROVE LockInv'
  BY <1>7 DEF ProxyCheck, StillCurrent, LockInv, Broadcasting, MutexesOK,
     FindingOK, PcOK
<1>8. ASSUME NEW a \in AgentConns, ReadAgentFrame(a) PROVE LockInv'
  BY <1>8 DEF ReadAgentFrame, Readable, LockInv, Broadcasting, MutexesOK,
     FindingOK, PcOK
<1>9. ASSUME NEW c \in AppConns, ReadAppFrame(c) PROVE LockInv'
  BY <1>9 DEF ReadAppFrame, Readable, WriteBegins, WriteReturns, LockInv,
     Broadcasting, MutexesOK, FindingOK, PcOK
<1>10. ASSUME NEW c \in AppConns, ReadAppDropped(c) PROVE LockInv'
  BY <1>10 DEF ReadAppDropped, Readable, LockInv, Broadcasting, MutexesOK,
     FindingOK, PcOK
<1>11. ASSUME NEW c \in AppConns, ReadAppPing(c) PROVE LockInv'
  BY <1>11 DEF ReadAppPing, Readable, WriteBegins, WriteReturns, LockInv,
     Broadcasting, MutexesOK, FindingOK, PcOK
<1>12. ASSUME NEW a \in AgentConns, BroadcastLock(a) PROVE LockInv'
  <2>1. hs[a] \in Session /\ ~sessMu[hs[a]]
    BY <1>12 DEF BroadcastLock, HandlerOK, Free
  <2>2. \A b \in AgentConns : Broadcasting(b) => hs[b] # hs[a]
    BY <2>1 DEF LockInv
  <2> QED
    BY <1>12, <2>1, <2>2 DEF BroadcastLock, Lock, LockInv, Broadcasting, MutexesOK, PcOK
<1>13. ASSUME NEW a \in AgentConns, BroadcastNext(a) PROVE LockInv'
  BY <1>13 DEF BroadcastNext, WriteBegins, WriteReturns, LockInv, Broadcasting,
     MutexesOK, FindingOK, PcOK
<1>14. ASSUME NEW a \in AgentConns, BroadcastUnlock(a) PROVE LockInv'
  BY <1>14 DEF BroadcastUnlock, Unlock, LockInv, Broadcasting, MutexesOK,
     FindingOK, PcOK
<1>15. ASSUME NEW c \in Conns, SendQueued(c) PROVE LockInv'
  BY <1>15 DEF SendQueued, WriteReturns, LockInv, Broadcasting, MutexesOK,
     FindingOK, PcOK
<1>16. ASSUME NEW c \in Conns, SendDropped(c) PROVE LockInv'
  BY <1>16 DEF SendDropped, WriteReturns, LockInv, Broadcasting, MutexesOK,
     FindingOK, PcOK
<1>17. ASSUME NEW c \in Conns, SendPanics(c) PROVE LockInv'
  BY <1>17 DEF SendPanics, LockInv, Broadcasting, MutexesOK, FindingOK, PcOK
<1>18. ASSUME NEW a \in AgentConns, HandlerLocksEngine(a) PROVE LockInv'
  BY <1>18 DEF HandlerLocksEngine, ReadFails, LockInv, Broadcasting, MutexesOK,
     FindingOK, PcOK
<1>19. ASSUME NEW a \in AgentConns, HandlerCleansAgent(a) PROVE LockInv'
  BY <1>19 DEF HandlerCleansAgent, EndSession, Orphans, DeleteSession, LockInv,
     Broadcasting, MutexesOK, FindingOK, PcOK
<1>20. ASSUME NEW a \in AgentConns, TickerLocksEngine(a) PROVE LockInv'
  BY <1>20 DEF TickerLocksEngine, PingFails, LockInv, Broadcasting, MutexesOK,
     FindingOK, PcOK
<1>21. ASSUME NEW a \in AgentConns, TickerCleansAgent(a) PROVE LockInv'
  BY <1>21 DEF TickerCleansAgent, EndSession, Orphans, DeleteSession, LockInv,
     Broadcasting, MutexesOK, FindingOK, PcOK
<1>22. ASSUME NEW c \in AppConns, HandlerLooksUp(c) PROVE LockInv'
  BY <1>22 DEF HandlerLooksUp, ReadFails, LockInv, Broadcasting, MutexesOK,
     FindingOK, PcOK
<1>23. ASSUME NEW c \in AppConns, HandlerCleansApp(c) PROVE LockInv'
  BY <1>23 DEF HandlerCleansApp, LeaveSession, LockInv, Broadcasting, MutexesOK,
     FindingOK, PcOK
<1>24. ASSUME NEW c \in AppConns, TickerLooksUp(c) PROVE LockInv'
  BY <1>24 DEF TickerLooksUp, PingFails, LockInv, Broadcasting, MutexesOK,
     FindingOK, PcOK
<1>25. ASSUME NEW c \in AppConns, TickerCleansApp(c) PROVE LockInv'
  BY <1>25 DEF TickerCleansApp, LeaveSession, LockInv, Broadcasting, MutexesOK,
     FindingOK, PcOK
<1>26. ASSUME NEW c \in Conns, TickerStops(c) \/ WriteLoop(c) \/ Network(c) PROVE LockInv'
  BY <1>26 DEF TickerStops, WriteLoop, WriterWrites, WriterFails, WriterEnds,
     Network, PeerStalls, PeerLeaves, ReadDeadline, NetAt, LockInv, Broadcasting,
     MutexesOK, FindingOK, PcOK
<1>27. CASE UNCHANGED vars
  BY <1>27 DEF vars, LockInv, Broadcasting, MutexesOK, FindingOK, PcOK
<1> QED
  BY <1>1, <1>2, <1>3, <1>4, <1>5, <1>6, <1>7, <1>8, <1>9, <1>10, <1>11, <1>12,
     <1>13, <1>14, <1>15, <1>16, <1>17, <1>18, <1>19, <1>20, <1>21, <1>22, <1>23,
     <1>24, <1>25, <1>26, <1>27 DEF Next, AgentPeer, AppPeer, Handler,
     AgentHandler, AppHandler, Ticker

\* Nobody leaves a session whose mutex a broadcast holds.
LEMMA TodoNext ==
    TypeInv /\ LockInv /\ TodoInv /\ [Next]_vars => TodoInv'
<1> SUFFICES ASSUME TypeInv, LockInv, TodoInv, [Next]_vars PROVE TodoInv'
  OBVIOUS
<1>0. RegistryOK /\ MutexesOK /\ FindingOK /\ FrameOK /\ PcOK /\ HandlerOK
  BY DEF TypeInv, TypeOK
<1> USE <1>0, ConnFacts
<1> USE DEF registry, mutexes, socket, writing, finding, frame, HandlerAt, TickerAt, Return, NetDown, Close
<1>1. ASSUME NEW a \in AgentConns, RegisterLookup(a) PROVE TodoInv'
  BY <1>1 DEF RegisterLookup, TodoInv, LockInv, Broadcasting, Free, RegistryOK,
     FindingOK, FrameOK, PcOK
<1>2. ASSUME NEW a \in AgentConns, RegisterInstall(a) PROVE TodoInv'
  BY <1>2 DEF RegisterInstall, Start, TodoInv, LockInv, Broadcasting, Free,
     RegistryOK, FindingOK, FrameOK, PcOK
<1>3. ASSUME NEW c \in AppConns, ConnectRefused(c) PROVE TodoInv'
  BY <1>3 DEF ConnectRefused, TodoInv, LockInv, Broadcasting, Free, RegistryOK,
     FindingOK, FrameOK, PcOK
<1>4. ASSUME NEW c \in AppConns, ConnectLookup(c) PROVE TodoInv'
  BY <1>4 DEF ConnectLookup, TodoInv, LockInv, Broadcasting, Free, RegistryOK,
     FindingOK, FrameOK, PcOK
<1>5. ASSUME NEW c \in AppConns, ConnectInstall(c) PROVE TodoInv'
  BY <1>5 DEF ConnectInstall, Start, Previous, TodoInv, LockInv, Broadcasting,
     Free, RegistryOK, FindingOK, FrameOK, PcOK
<1>6. ASSUME NEW c \in Conns, ProxyLookup(c) PROVE TodoInv'
  BY <1>6 DEF ProxyLookup, TodoInv, LockInv, Broadcasting, Free, RegistryOK,
     FindingOK, FrameOK, PcOK
<1>7. ASSUME NEW c \in Conns, ProxyCheck(c) PROVE TodoInv'
  BY <1>7 DEF ProxyCheck, StillCurrent, TodoInv, LockInv, Broadcasting, Free,
     RegistryOK, FindingOK, FrameOK, PcOK
<1>8. ASSUME NEW a \in AgentConns, ReadAgentFrame(a) PROVE TodoInv'
  BY <1>8 DEF ReadAgentFrame, Readable, TodoInv, LockInv, Broadcasting, Free,
     RegistryOK, FindingOK, FrameOK, PcOK
<1>9. ASSUME NEW c \in AppConns, ReadAppFrame(c) PROVE TodoInv'
  BY <1>9 DEF ReadAppFrame, Readable, WriteBegins, WriteReturns, TodoInv,
     LockInv, Broadcasting, Free, RegistryOK, FindingOK, FrameOK, PcOK
<1>10. ASSUME NEW c \in AppConns, ReadAppDropped(c) PROVE TodoInv'
  BY <1>10 DEF ReadAppDropped, Readable, TodoInv, LockInv, Broadcasting, Free,
     RegistryOK, FindingOK, FrameOK, PcOK
<1>11. ASSUME NEW c \in AppConns, ReadAppPing(c) PROVE TodoInv'
  BY <1>11 DEF ReadAppPing, Readable, WriteBegins, WriteReturns, TodoInv,
     LockInv, Broadcasting, Free, RegistryOK, FindingOK, FrameOK, PcOK
<1>12. ASSUME NEW a \in AgentConns, BroadcastLock(a) PROVE TodoInv'
  BY <1>12 DEF BroadcastLock, Lock, TodoInv, LockInv, Broadcasting, Free,
     RegistryOK, FindingOK, FrameOK, PcOK
<1>13. ASSUME NEW a \in AgentConns, BroadcastNext(a) PROVE TodoInv'
  BY <1>13 DEF BroadcastNext, WriteBegins, WriteReturns, TodoInv, LockInv,
     Broadcasting, Free, RegistryOK, FindingOK, FrameOK, PcOK
<1>14. ASSUME NEW a \in AgentConns, BroadcastUnlock(a) PROVE TodoInv'
  BY <1>14 DEF BroadcastUnlock, Unlock, TodoInv, LockInv, Broadcasting, Free,
     RegistryOK, FindingOK, FrameOK, PcOK
<1>15. ASSUME NEW c \in Conns, SendQueued(c) PROVE TodoInv'
  BY <1>15 DEF SendQueued, WriteReturns, TodoInv, LockInv, Broadcasting, Free,
     RegistryOK, FindingOK, FrameOK, PcOK
<1>16. ASSUME NEW c \in Conns, SendDropped(c) PROVE TodoInv'
  BY <1>16 DEF SendDropped, WriteReturns, TodoInv, LockInv, Broadcasting, Free,
     RegistryOK, FindingOK, FrameOK, PcOK
<1>17. ASSUME NEW c \in Conns, SendPanics(c) PROVE TodoInv'
  BY <1>17 DEF SendPanics, TodoInv, LockInv, Broadcasting, Free, RegistryOK,
     FindingOK, FrameOK, PcOK
<1>18. ASSUME NEW a \in AgentConns, HandlerLocksEngine(a) PROVE TodoInv'
  BY <1>18 DEF HandlerLocksEngine, ReadFails, TodoInv, LockInv, Broadcasting,
     Free, RegistryOK, FindingOK, FrameOK, PcOK
<1>19. ASSUME NEW a \in AgentConns, HandlerCleansAgent(a) PROVE TodoInv'
  <2>1. CASE UNCHANGED <<registry, closed>> /\ Orphans(a) = {}
    BY <1>19, <2>1 DEF HandlerCleansAgent, TodoInv, LockInv, Broadcasting, Free, RegistryOK, FindingOK, PcOK
  <2>2. ASSUME NEW s \in Session,
               Free(s) /\ agentConn[s] = a /\ s = sessions[ClientOf[a]],
               Orphans(a) = apps[s],
               apps' = [apps EXCEPT ![s] = {}],
               agentConn' = [agentConn EXCEPT ![s] = NoConn],
               sessions' = [sessions EXCEPT ![ClientOf[a]] = NoConn],
               closed' = [c \in Conns |-> closed[c] \/ c \in apps[s]]
        PROVE  TodoInv'
    BY <1>19, <2>2 DEF HandlerCleansAgent, TodoInv, LockInv, Broadcasting, Free, RegistryOK, FindingOK, PcOK
  <2>3. EndSession(a)
    BY <1>19 DEF HandlerCleansAgent
  <2> QED
    BY <2>1, <2>2, <2>3, EndSessionEffect
<1>20. ASSUME NEW a \in AgentConns, TickerLocksEngine(a) PROVE TodoInv'
  BY <1>20 DEF TickerLocksEngine, PingFails, TodoInv, LockInv, Broadcasting,
     Free, RegistryOK, FindingOK, FrameOK, PcOK
<1>21. ASSUME NEW a \in AgentConns, TickerCleansAgent(a) PROVE TodoInv'
  <2>1. CASE UNCHANGED <<registry, closed>> /\ Orphans(a) = {}
    BY <1>21, <2>1 DEF TickerCleansAgent, TodoInv, LockInv, Broadcasting, Free, RegistryOK, FindingOK, PcOK
  <2>2. ASSUME NEW s \in Session,
               Free(s) /\ agentConn[s] = a /\ s = sessions[ClientOf[a]],
               Orphans(a) = apps[s],
               apps' = [apps EXCEPT ![s] = {}],
               agentConn' = [agentConn EXCEPT ![s] = NoConn],
               sessions' = [sessions EXCEPT ![ClientOf[a]] = NoConn],
               closed' = [c \in Conns |-> closed[c] \/ c \in apps[s]]
        PROVE  TodoInv'
    BY <1>21, <2>2 DEF TickerCleansAgent, TodoInv, LockInv, Broadcasting, Free, RegistryOK, FindingOK, PcOK
  <2>3. EndSession(a)
    BY <1>21 DEF TickerCleansAgent
  <2> QED
    BY <2>1, <2>2, <2>3, EndSessionEffect
<1>22. ASSUME NEW c \in AppConns, HandlerLooksUp(c) PROVE TodoInv'
  BY <1>22 DEF HandlerLooksUp, ReadFails, TodoInv, LockInv, Broadcasting, Free,
     RegistryOK, FindingOK, FrameOK, PcOK
<1>23. ASSUME NEW c \in AppConns, HandlerCleansApp(c) PROVE TodoInv'
  <2>1. LeaveSession(c, hs[c]) /\ UNCHANGED <<todo, dest>>
    BY <1>23 DEF HandlerCleansApp
  <2>2. /\ ~sessMu[hs[c]]
        /\ \A s \in Session : s # hs[c] => apps'[s] = apps[s]
    BY <2>1, LeaveSessionEffect DEF Free, RegistryOK
  <2>3. ASSUME NEW b \in AgentConns, Broadcasting(b)'
        PROVE  /\ Broadcasting(b) /\ hpc'[b] = hpc[b] /\ hs'[b] = hs[b]
               /\ hs[b] \in Session /\ hs[b] # hs[c]
    BY <1>23, <2>2, <2>3 DEF HandlerCleansApp, Broadcasting, LockInv, FindingOK, PcOK, HandlerOK
  <2> QED
    BY <2>1, <2>2, <2>3 DEF TodoInv, Broadcasting
<1>24. ASSUME NEW c \in AppConns, TickerLooksUp(c) PROVE TodoInv'
  BY <1>24 DEF TickerLooksUp, PingFails, TodoInv, LockInv, Broadcasting, Free,
     RegistryOK, FindingOK, FrameOK, PcOK
<1>25. ASSUME NEW c \in AppConns, TickerCleansApp(c) PROVE TodoInv'
  <2>1. LeaveSession(c, ts[c]) /\ UNCHANGED <<todo, dest>>
    BY <1>25 DEF TickerCleansApp
  <2>2. /\ ~sessMu[ts[c]]
        /\ \A s \in Session : s # ts[c] => apps'[s] = apps[s]
    BY <2>1, LeaveSessionEffect DEF Free, RegistryOK
  <2>3. ASSUME NEW b \in AgentConns, Broadcasting(b)'
        PROVE  /\ Broadcasting(b) /\ hpc'[b] = hpc[b] /\ hs'[b] = hs[b]
               /\ hs[b] \in Session /\ hs[b] # ts[c]
    BY <1>25, <2>2, <2>3 DEF TickerCleansApp, Broadcasting, LockInv, FindingOK, PcOK, HandlerOK
  <2> QED
    BY <2>1, <2>2, <2>3 DEF TodoInv, Broadcasting
<1>26. ASSUME NEW c \in Conns, TickerStops(c) \/ WriteLoop(c) \/ Network(c) PROVE TodoInv'
  BY <1>26 DEF TickerStops, WriteLoop, WriterWrites, WriterFails, WriterEnds,
     Network, PeerStalls, PeerLeaves, ReadDeadline, NetAt, TodoInv, LockInv,
     Broadcasting, Free, RegistryOK, FindingOK, FrameOK, PcOK
<1>27. CASE UNCHANGED vars
  BY <1>27 DEF vars, TodoInv, LockInv, Broadcasting, Free, RegistryOK,
     FindingOK, FrameOK, PcOK
<1> QED
  BY <1>1, <1>2, <1>3, <1>4, <1>5, <1>6, <1>7, <1>8, <1>9, <1>10, <1>11, <1>12,
     <1>13, <1>14, <1>15, <1>16, <1>17, <1>18, <1>19, <1>20, <1>21, <1>22, <1>23,
     <1>24, <1>25, <1>26, <1>27 DEF Next, AgentPeer, AppPeer, Handler,
     AgentHandler, AppHandler, Ticker

\* Networks do not recover, so a failure that was seen stays true.
LEMMA FailedNext ==
    TypeInv /\ FailedInv /\ [Next]_vars => FailedInv'
<1> SUFFICES ASSUME TypeInv, FailedInv, [Next]_vars PROVE FailedInv'
  OBVIOUS
<1>0. SocketOK /\ PcOK
  BY DEF TypeInv, TypeOK
<1> USE <1>0, ConnFacts
<1> USE DEF registry, mutexes, socket, writing, finding, frame, HandlerAt, TickerAt, Return, NetDown, Close
<1>1. ASSUME NEW a \in AgentConns, RegisterLookup(a) PROVE FailedInv'
  BY <1>1 DEF RegisterLookup, FailedInv, SocketOK, PcOK
<1>2. ASSUME NEW a \in AgentConns, RegisterInstall(a) PROVE FailedInv'
  BY <1>2 DEF RegisterInstall, Start, FailedInv, SocketOK, PcOK
<1>3. ASSUME NEW c \in AppConns, ConnectRefused(c) PROVE FailedInv'
  BY <1>3 DEF ConnectRefused, FailedInv, SocketOK, PcOK
<1>4. ASSUME NEW c \in AppConns, ConnectLookup(c) PROVE FailedInv'
  BY <1>4 DEF ConnectLookup, FailedInv, SocketOK, PcOK
<1>5. ASSUME NEW c \in AppConns, ConnectInstall(c) PROVE FailedInv'
  BY <1>5 DEF ConnectInstall, Start, Previous, FailedInv, SocketOK, PcOK
<1>6. ASSUME NEW c \in Conns, ProxyLookup(c) PROVE FailedInv'
  BY <1>6 DEF ProxyLookup, FailedInv, SocketOK, PcOK
<1>7. ASSUME NEW c \in Conns, ProxyCheck(c) PROVE FailedInv'
  BY <1>7 DEF ProxyCheck, StillCurrent, FailedInv, SocketOK, PcOK
<1>8. ASSUME NEW a \in AgentConns, ReadAgentFrame(a) PROVE FailedInv'
  BY <1>8 DEF ReadAgentFrame, Readable, FailedInv, SocketOK, PcOK
<1>9. ASSUME NEW c \in AppConns, ReadAppFrame(c) PROVE FailedInv'
  BY <1>9 DEF ReadAppFrame, Readable, WriteBegins, WriteReturns, FailedInv,
     SocketOK, PcOK
<1>10. ASSUME NEW c \in AppConns, ReadAppDropped(c) PROVE FailedInv'
  BY <1>10 DEF ReadAppDropped, Readable, FailedInv, SocketOK, PcOK
<1>11. ASSUME NEW c \in AppConns, ReadAppPing(c) PROVE FailedInv'
  BY <1>11 DEF ReadAppPing, Readable, WriteBegins, WriteReturns, FailedInv,
     SocketOK, PcOK
<1>12. ASSUME NEW a \in AgentConns, BroadcastLock(a) PROVE FailedInv'
  BY <1>12 DEF BroadcastLock, Lock, FailedInv, SocketOK, PcOK
<1>13. ASSUME NEW a \in AgentConns, BroadcastNext(a) PROVE FailedInv'
  BY <1>13 DEF BroadcastNext, WriteBegins, WriteReturns, FailedInv, SocketOK,
     PcOK
<1>14. ASSUME NEW a \in AgentConns, BroadcastUnlock(a) PROVE FailedInv'
  BY <1>14 DEF BroadcastUnlock, Unlock, FailedInv, SocketOK, PcOK
<1>15. ASSUME NEW c \in Conns, SendQueued(c) PROVE FailedInv'
  BY <1>15 DEF SendQueued, WriteReturns, FailedInv, SocketOK, PcOK
<1>16. ASSUME NEW c \in Conns, SendDropped(c) PROVE FailedInv'
  BY <1>16 DEF SendDropped, WriteReturns, FailedInv, SocketOK, PcOK
<1>17. ASSUME NEW c \in Conns, SendPanics(c) PROVE FailedInv'
  BY <1>17 DEF SendPanics, FailedInv, SocketOK, PcOK
<1>18. ASSUME NEW a \in AgentConns, HandlerLocksEngine(a) PROVE FailedInv'
  BY <1>18 DEF HandlerLocksEngine, ReadFails, FailedInv, SocketOK, PcOK
<1>19. ASSUME NEW a \in AgentConns, HandlerCleansAgent(a) PROVE FailedInv'
  BY <1>19 DEF HandlerCleansAgent, EndSession, Orphans, DeleteSession,
     FailedInv, SocketOK, PcOK
<1>20. ASSUME NEW a \in AgentConns, TickerLocksEngine(a) PROVE FailedInv'
  BY <1>20 DEF TickerLocksEngine, PingFails, FailedInv, SocketOK, PcOK
<1>21. ASSUME NEW a \in AgentConns, TickerCleansAgent(a) PROVE FailedInv'
  BY <1>21 DEF TickerCleansAgent, EndSession, Orphans, DeleteSession, FailedInv,
     SocketOK, PcOK
<1>22. ASSUME NEW c \in AppConns, HandlerLooksUp(c) PROVE FailedInv'
  BY <1>22 DEF HandlerLooksUp, ReadFails, FailedInv, SocketOK, PcOK
<1>23. ASSUME NEW c \in AppConns, HandlerCleansApp(c) PROVE FailedInv'
  BY <1>23 DEF HandlerCleansApp, LeaveSession, FailedInv, SocketOK, PcOK
<1>24. ASSUME NEW c \in AppConns, TickerLooksUp(c) PROVE FailedInv'
  BY <1>24 DEF TickerLooksUp, PingFails, FailedInv, SocketOK, PcOK
<1>25. ASSUME NEW c \in AppConns, TickerCleansApp(c) PROVE FailedInv'
  BY <1>25 DEF TickerCleansApp, LeaveSession, FailedInv, SocketOK, PcOK
<1>26. ASSUME NEW c \in Conns, TickerStops(c) \/ WriteLoop(c) \/ Network(c) PROVE FailedInv'
  BY <1>26 DEF TickerStops, WriteLoop, WriterWrites, WriterFails, WriterEnds,
     Network, PeerStalls, PeerLeaves, ReadDeadline, NetAt, FailedInv, SocketOK,
     PcOK
<1>27. CASE UNCHANGED vars
  BY <1>27 DEF vars, FailedInv, SocketOK, PcOK
<1> QED
  BY <1>1, <1>2, <1>3, <1>4, <1>5, <1>6, <1>7, <1>8, <1>9, <1>10, <1>11, <1>12,
     <1>13, <1>14, <1>15, <1>16, <1>17, <1>18, <1>19, <1>20, <1>21, <1>22, <1>23,
     <1>24, <1>25, <1>26, <1>27 DEF Next, AgentPeer, AppPeer, Handler,
     AgentHandler, AppHandler, Ticker

\* A handler checks its place after its lookup; whoever takes the place away
\* later closes the connection, or it had failed.
LEMMA PlaceNext ==
    TypeInv /\ FailedInv /\ PlaceInv /\ [Next]_vars => PlaceInv'
<1> SUFFICES ASSUME TypeInv, FailedInv, PlaceInv, [Next]_vars PROVE PlaceInv'
  OBVIOUS
<1>0. RegistryOK /\ SocketOK /\ FindingOK /\ PcOK /\ HandlerOK
  BY DEF TypeInv, TypeOK
<1> USE <1>0, ConnFacts
<1> USE DEF registry, mutexes, socket, writing, finding, frame, HandlerAt, TickerAt, Return, NetDown, Close
<1>1. ASSUME NEW a \in AgentConns, RegisterLookup(a) PROVE PlaceInv'
  BY <1>1 DEF RegisterLookup, PlaceInv, FailedInv, Registered, Relaying,
     RegistryOK, SocketOK, FindingOK, PcOK, HandlerOK
<1>2. ASSUME NEW a \in AgentConns, RegisterInstall(a) PROVE PlaceInv'
  BY <1>2 DEF RegisterInstall, Start, PlaceInv, FailedInv, Registered, Relaying,
     RegistryOK, SocketOK, FindingOK, PcOK, HandlerOK
<1>3. ASSUME NEW c \in AppConns, ConnectRefused(c) PROVE PlaceInv'
  BY <1>3 DEF ConnectRefused, PlaceInv, FailedInv, Registered, Relaying,
     RegistryOK, SocketOK, FindingOK, PcOK, HandlerOK
<1>4. ASSUME NEW c \in AppConns, ConnectLookup(c) PROVE PlaceInv'
  BY <1>4 DEF ConnectLookup, PlaceInv, FailedInv, Registered, Relaying,
     RegistryOK, SocketOK, FindingOK, PcOK, HandlerOK
<1>5. ASSUME NEW c \in AppConns, ConnectInstall(c) PROVE PlaceInv'
  BY <1>5 DEF ConnectInstall, Start, Previous, PlaceInv, FailedInv, Registered,
     Relaying, RegistryOK, SocketOK, FindingOK, PcOK, HandlerOK
<1>6. ASSUME NEW c \in Conns, ProxyLookup(c) PROVE PlaceInv'
  BY <1>6 DEF ProxyLookup, PlaceInv, FailedInv, Registered, Relaying,
     RegistryOK, SocketOK, FindingOK, PcOK, HandlerOK
<1>7. ASSUME NEW c \in Conns, ProxyCheck(c) PROVE PlaceInv'
  BY <1>7 DEF ProxyCheck, StillCurrent, PlaceInv, FailedInv, Registered,
     Relaying, RegistryOK, SocketOK, FindingOK, PcOK, HandlerOK
<1>8. ASSUME NEW a \in AgentConns, ReadAgentFrame(a) PROVE PlaceInv'
  BY <1>8 DEF ReadAgentFrame, Readable, PlaceInv, FailedInv, Registered,
     Relaying, RegistryOK, SocketOK, FindingOK, PcOK, HandlerOK
<1>9. ASSUME NEW c \in AppConns, ReadAppFrame(c) PROVE PlaceInv'
  BY <1>9 DEF ReadAppFrame, Readable, WriteBegins, WriteReturns, PlaceInv,
     FailedInv, Registered, Relaying, RegistryOK, SocketOK, FindingOK, PcOK,
     HandlerOK
<1>10. ASSUME NEW c \in AppConns, ReadAppDropped(c) PROVE PlaceInv'
  BY <1>10 DEF ReadAppDropped, Readable, PlaceInv, FailedInv, Registered,
     Relaying, RegistryOK, SocketOK, FindingOK, PcOK, HandlerOK
<1>11. ASSUME NEW c \in AppConns, ReadAppPing(c) PROVE PlaceInv'
  BY <1>11 DEF ReadAppPing, Readable, WriteBegins, WriteReturns, PlaceInv,
     FailedInv, Registered, Relaying, RegistryOK, SocketOK, FindingOK, PcOK,
     HandlerOK
<1>12. ASSUME NEW a \in AgentConns, BroadcastLock(a) PROVE PlaceInv'
  BY <1>12 DEF BroadcastLock, Lock, PlaceInv, FailedInv, Registered, Relaying,
     RegistryOK, SocketOK, FindingOK, PcOK, HandlerOK
<1>13. ASSUME NEW a \in AgentConns, BroadcastNext(a) PROVE PlaceInv'
  BY <1>13 DEF BroadcastNext, WriteBegins, WriteReturns, PlaceInv, FailedInv,
     Registered, Relaying, RegistryOK, SocketOK, FindingOK, PcOK, HandlerOK
<1>14. ASSUME NEW a \in AgentConns, BroadcastUnlock(a) PROVE PlaceInv'
  BY <1>14 DEF BroadcastUnlock, Unlock, PlaceInv, FailedInv, Registered,
     Relaying, RegistryOK, SocketOK, FindingOK, PcOK, HandlerOK
<1>15. ASSUME NEW c \in Conns, SendQueued(c) PROVE PlaceInv'
  BY <1>15 DEF SendQueued, WriteReturns, PlaceInv, FailedInv, Registered,
     Relaying, RegistryOK, SocketOK, FindingOK, PcOK, HandlerOK
<1>16. ASSUME NEW c \in Conns, SendDropped(c) PROVE PlaceInv'
  BY <1>16 DEF SendDropped, WriteReturns, PlaceInv, FailedInv, Registered,
     Relaying, RegistryOK, SocketOK, FindingOK, PcOK, HandlerOK
<1>17. ASSUME NEW c \in Conns, SendPanics(c) PROVE PlaceInv'
  BY <1>17 DEF SendPanics, PlaceInv, FailedInv, Registered, Relaying,
     RegistryOK, SocketOK, FindingOK, PcOK, HandlerOK
<1>18. ASSUME NEW a \in AgentConns, HandlerLocksEngine(a) PROVE PlaceInv'
  BY <1>18 DEF HandlerLocksEngine, ReadFails, PlaceInv, FailedInv, Registered,
     Relaying, RegistryOK, SocketOK, FindingOK, PcOK, HandlerOK
<1>19. ASSUME NEW a \in AgentConns, HandlerCleansAgent(a) PROVE PlaceInv'
  <2>1. CASE UNCHANGED <<registry, closed>> /\ Orphans(a) = {}
    BY <1>19, <2>1 DEF HandlerCleansAgent, PlaceInv, FailedInv, Registered, Relaying, RegistryOK, SocketOK, FindingOK, PcOK, HandlerOK
  <2>2. ASSUME NEW s \in Session,
               Free(s) /\ agentConn[s] = a /\ s = sessions[ClientOf[a]],
               Orphans(a) = apps[s],
               apps' = [apps EXCEPT ![s] = {}],
               agentConn' = [agentConn EXCEPT ![s] = NoConn],
               sessions' = [sessions EXCEPT ![ClientOf[a]] = NoConn],
               closed' = [c \in Conns |-> closed[c] \/ c \in apps[s]]
        PROVE  PlaceInv'
    BY <1>19, <2>2 DEF HandlerCleansAgent, PlaceInv, FailedInv, Registered, Relaying, RegistryOK, SocketOK, FindingOK, PcOK, HandlerOK
  <2>3. EndSession(a)
    BY <1>19 DEF HandlerCleansAgent
  <2> QED
    BY <2>1, <2>2, <2>3, EndSessionEffect
<1>20. ASSUME NEW a \in AgentConns, TickerLocksEngine(a) PROVE PlaceInv'
  BY <1>20 DEF TickerLocksEngine, PingFails, PlaceInv, FailedInv, Registered,
     Relaying, RegistryOK, SocketOK, FindingOK, PcOK, HandlerOK
<1>21. ASSUME NEW a \in AgentConns, TickerCleansAgent(a) PROVE PlaceInv'
  <2>1. CASE UNCHANGED <<registry, closed>> /\ Orphans(a) = {}
    BY <1>21, <2>1 DEF TickerCleansAgent, PlaceInv, FailedInv, Registered, Relaying, RegistryOK, SocketOK, FindingOK, PcOK, HandlerOK
  <2>2. ASSUME NEW s \in Session,
               Free(s) /\ agentConn[s] = a /\ s = sessions[ClientOf[a]],
               Orphans(a) = apps[s],
               apps' = [apps EXCEPT ![s] = {}],
               agentConn' = [agentConn EXCEPT ![s] = NoConn],
               sessions' = [sessions EXCEPT ![ClientOf[a]] = NoConn],
               closed' = [c \in Conns |-> closed[c] \/ c \in apps[s]]
        PROVE  PlaceInv'
    BY <1>21, <2>2 DEF TickerCleansAgent, PlaceInv, FailedInv, Registered, Relaying, RegistryOK, SocketOK, FindingOK, PcOK, HandlerOK
  <2>3. EndSession(a)
    BY <1>21 DEF TickerCleansAgent
  <2> QED
    BY <2>1, <2>2, <2>3, EndSessionEffect
<1>22. ASSUME NEW c \in AppConns, HandlerLooksUp(c) PROVE PlaceInv'
  BY <1>22 DEF HandlerLooksUp, ReadFails, PlaceInv, FailedInv, Registered,
     Relaying, RegistryOK, SocketOK, FindingOK, PcOK, HandlerOK
<1>23. ASSUME NEW c \in AppConns, HandlerCleansApp(c) PROVE PlaceInv'
  BY <1>23 DEF HandlerCleansApp, LeaveSession, PlaceInv, FailedInv, Registered,
     Relaying, RegistryOK, SocketOK, FindingOK, PcOK, HandlerOK
<1>24. ASSUME NEW c \in AppConns, TickerLooksUp(c) PROVE PlaceInv'
  BY <1>24 DEF TickerLooksUp, PingFails, PlaceInv, FailedInv, Registered,
     Relaying, RegistryOK, SocketOK, FindingOK, PcOK, HandlerOK
<1>25. ASSUME NEW c \in AppConns, TickerCleansApp(c) PROVE PlaceInv'
  BY <1>25 DEF TickerCleansApp, LeaveSession, PlaceInv, FailedInv, Registered,
     Relaying, RegistryOK, SocketOK, FindingOK, PcOK, HandlerOK
<1>26. ASSUME NEW c \in Conns, TickerStops(c) \/ WriteLoop(c) \/ Network(c) PROVE PlaceInv'
  BY <1>26 DEF TickerStops, WriteLoop, WriterWrites, WriterFails, WriterEnds,
     Network, PeerStalls, PeerLeaves, ReadDeadline, NetAt, PlaceInv, FailedInv,
     Registered, Relaying, RegistryOK, SocketOK, FindingOK, PcOK, HandlerOK
<1>27. CASE UNCHANGED vars
  BY <1>27 DEF vars, PlaceInv, FailedInv, Registered, Relaying, RegistryOK,
     SocketOK, FindingOK, PcOK, HandlerOK
<1> QED
  BY <1>1, <1>2, <1>3, <1>4, <1>5, <1>6, <1>7, <1>8, <1>9, <1>10, <1>11, <1>12,
     <1>13, <1>14, <1>15, <1>16, <1>17, <1>18, <1>19, <1>20, <1>21, <1>22, <1>23,
     <1>24, <1>25, <1>26, <1>27 DEF Next, AgentPeer, AppPeer, Handler,
     AgentHandler, AppHandler, Ticker

\* Sessions are found under their own client id only.
LEMMA OwnNext ==
    TypeInv /\ OwnInv /\ [Next]_vars => OwnInv'
<1> SUFFICES ASSUME TypeInv, OwnInv, [Next]_vars PROVE OwnInv'
  OBVIOUS
<1>0. RegistryOK /\ FindingOK
  BY DEF TypeInv, TypeOK
<1> USE <1>0, ConnFacts
<1> USE DEF registry, mutexes, socket, writing, finding, frame, HandlerAt, TickerAt, Return, NetDown, Close
<1>1. ASSUME NEW a \in AgentConns, RegisterLookup(a) PROVE OwnInv'
  BY <1>1 DEF RegisterLookup, OwnInv, RegistryOK, FindingOK
<1>2. ASSUME NEW a \in AgentConns, RegisterInstall(a) PROVE OwnInv'
  BY <1>2 DEF RegisterInstall, Start, OwnInv, RegistryOK, FindingOK
<1>3. ASSUME NEW c \in AppConns, ConnectRefused(c) PROVE OwnInv'
  BY <1>3 DEF ConnectRefused, OwnInv, RegistryOK, FindingOK
<1>4. ASSUME NEW c \in AppConns, ConnectLookup(c) PROVE OwnInv'
  BY <1>4 DEF ConnectLookup, OwnInv, RegistryOK, FindingOK
<1>5. ASSUME NEW c \in AppConns, ConnectInstall(c) PROVE OwnInv'
  BY <1>5 DEF ConnectInstall, Start, Previous, OwnInv, RegistryOK, FindingOK
<1>6. ASSUME NEW c \in Conns, ProxyLookup(c) PROVE OwnInv'
  BY <1>6 DEF ProxyLookup, OwnInv, RegistryOK, FindingOK
<1>7. ASSUME NEW c \in Conns, ProxyCheck(c) PROVE OwnInv'
  BY <1>7 DEF ProxyCheck, StillCurrent, OwnInv, RegistryOK, FindingOK
<1>8. ASSUME NEW a \in AgentConns, ReadAgentFrame(a) PROVE OwnInv'
  BY <1>8 DEF ReadAgentFrame, Readable, OwnInv, RegistryOK, FindingOK
<1>9. ASSUME NEW c \in AppConns, ReadAppFrame(c) PROVE OwnInv'
  BY <1>9 DEF ReadAppFrame, Readable, WriteBegins, WriteReturns, OwnInv,
     RegistryOK, FindingOK
<1>10. ASSUME NEW c \in AppConns, ReadAppDropped(c) PROVE OwnInv'
  BY <1>10 DEF ReadAppDropped, Readable, OwnInv, RegistryOK, FindingOK
<1>11. ASSUME NEW c \in AppConns, ReadAppPing(c) PROVE OwnInv'
  BY <1>11 DEF ReadAppPing, Readable, WriteBegins, WriteReturns, OwnInv,
     RegistryOK, FindingOK
<1>12. ASSUME NEW a \in AgentConns, BroadcastLock(a) PROVE OwnInv'
  BY <1>12 DEF BroadcastLock, Lock, OwnInv, RegistryOK, FindingOK
<1>13. ASSUME NEW a \in AgentConns, BroadcastNext(a) PROVE OwnInv'
  BY <1>13 DEF BroadcastNext, WriteBegins, WriteReturns, OwnInv, RegistryOK,
     FindingOK
<1>14. ASSUME NEW a \in AgentConns, BroadcastUnlock(a) PROVE OwnInv'
  BY <1>14 DEF BroadcastUnlock, Unlock, OwnInv, RegistryOK, FindingOK
<1>15. ASSUME NEW c \in Conns, SendQueued(c) PROVE OwnInv'
  BY <1>15 DEF SendQueued, WriteReturns, OwnInv, RegistryOK, FindingOK
<1>16. ASSUME NEW c \in Conns, SendDropped(c) PROVE OwnInv'
  BY <1>16 DEF SendDropped, WriteReturns, OwnInv, RegistryOK, FindingOK
<1>17. ASSUME NEW c \in Conns, SendPanics(c) PROVE OwnInv'
  BY <1>17 DEF SendPanics, OwnInv, RegistryOK, FindingOK
<1>18. ASSUME NEW a \in AgentConns, HandlerLocksEngine(a) PROVE OwnInv'
  BY <1>18 DEF HandlerLocksEngine, ReadFails, OwnInv, RegistryOK, FindingOK
<1>19. ASSUME NEW a \in AgentConns, HandlerCleansAgent(a) PROVE OwnInv'
  <2>1. CASE UNCHANGED <<registry, closed>> /\ Orphans(a) = {}
    BY <1>19, <2>1 DEF HandlerCleansAgent, OwnInv, RegistryOK, FindingOK
  <2>2. ASSUME NEW s \in Session,
               Free(s) /\ agentConn[s] = a /\ s = sessions[ClientOf[a]],
               Orphans(a) = apps[s],
               apps' = [apps EXCEPT ![s] = {}],
               agentConn' = [agentConn EXCEPT ![s] = NoConn],
               sessions' = [sessions EXCEPT ![ClientOf[a]] = NoConn],
               closed' = [c \in Conns |-> closed[c] \/ c \in apps[s]]
        PROVE  OwnInv'
    BY <1>19, <2>2 DEF HandlerCleansAgent, OwnInv, RegistryOK, FindingOK
  <2>3. EndSession(a)
    BY <1>19 DEF HandlerCleansAgent
  <2> QED
    BY <2>1, <2>2, <2>3, EndSessionEffect
<1>20. ASSUME NEW a \in AgentConns, TickerLocksEngine(a) PROVE OwnInv'
  BY <1>20 DEF TickerLocksEngine, PingFails, OwnInv, RegistryOK, FindingOK
<1>21. ASSUME NEW a \in AgentConns, TickerCleansAgent(a) PROVE OwnInv'
  <2>1. CASE UNCHANGED <<registry, closed>> /\ Orphans(a) = {}
    BY <1>21, <2>1 DEF TickerCleansAgent, OwnInv, RegistryOK, FindingOK
  <2>2. ASSUME NEW s \in Session,
               Free(s) /\ agentConn[s] = a /\ s = sessions[ClientOf[a]],
               Orphans(a) = apps[s],
               apps' = [apps EXCEPT ![s] = {}],
               agentConn' = [agentConn EXCEPT ![s] = NoConn],
               sessions' = [sessions EXCEPT ![ClientOf[a]] = NoConn],
               closed' = [c \in Conns |-> closed[c] \/ c \in apps[s]]
        PROVE  OwnInv'
    BY <1>21, <2>2 DEF TickerCleansAgent, OwnInv, RegistryOK, FindingOK
  <2>3. EndSession(a)
    BY <1>21 DEF TickerCleansAgent
  <2> QED
    BY <2>1, <2>2, <2>3, EndSessionEffect
<1>22. ASSUME NEW c \in AppConns, HandlerLooksUp(c) PROVE OwnInv'
  BY <1>22 DEF HandlerLooksUp, ReadFails, OwnInv, RegistryOK, FindingOK
<1>23. ASSUME NEW c \in AppConns, HandlerCleansApp(c) PROVE OwnInv'
  BY <1>23 DEF HandlerCleansApp, LeaveSession, OwnInv, RegistryOK, FindingOK
<1>24. ASSUME NEW c \in AppConns, TickerLooksUp(c) PROVE OwnInv'
  BY <1>24 DEF TickerLooksUp, PingFails, OwnInv, RegistryOK, FindingOK
<1>25. ASSUME NEW c \in AppConns, TickerCleansApp(c) PROVE OwnInv'
  BY <1>25 DEF TickerCleansApp, LeaveSession, OwnInv, RegistryOK, FindingOK
<1>26. ASSUME NEW c \in Conns, TickerStops(c) \/ WriteLoop(c) \/ Network(c) PROVE OwnInv'
  BY <1>26 DEF TickerStops, WriteLoop, WriterWrites, WriterFails, WriterEnds,
     Network, PeerStalls, PeerLeaves, ReadDeadline, NetAt, OwnInv, RegistryOK,
     FindingOK
<1>27. CASE UNCHANGED vars
  BY <1>27 DEF vars, OwnInv, RegistryOK, FindingOK
<1> QED
  BY <1>1, <1>2, <1>3, <1>4, <1>5, <1>6, <1>7, <1>8, <1>9, <1>10, <1>11, <1>12,
     <1>13, <1>14, <1>15, <1>16, <1>17, <1>18, <1>19, <1>20, <1>21, <1>22, <1>23,
     <1>24, <1>25, <1>26, <1>27 DEF Next, AgentPeer, AppPeer, Handler,
     AgentHandler, AppHandler, Ticker

\* Only the registration that allocates a session makes it known.
LEMMA FreshNext ==
    TypeInv /\ FreshInv /\ [Next]_vars => FreshInv'
<1> SUFFICES ASSUME TypeInv, FreshInv, [Next]_vars PROVE FreshInv'
  OBVIOUS
<1>0. RegistryOK /\ FindingOK /\ PcOK /\ HandlerOK
  BY DEF TypeInv, TypeOK
<1> USE <1>0, ConnFacts
<1> USE DEF registry, mutexes, socket, writing, finding, frame, HandlerAt, TickerAt, Return, NetDown, Close
<1>1. ASSUME NEW a \in AgentConns, RegisterLookup(a) PROVE FreshInv'
  BY <1>1 DEF RegisterLookup, FreshInv, RegistryOK, FindingOK, PcOK
<1>2. ASSUME NEW a \in AgentConns, RegisterInstall(a) PROVE FreshInv'
  BY <1>2 DEF RegisterInstall, Start, FreshInv, RegistryOK, FindingOK, PcOK
<1>3. ASSUME NEW c \in AppConns, ConnectRefused(c) PROVE FreshInv'
  BY <1>3 DEF ConnectRefused, FreshInv, RegistryOK, FindingOK, PcOK
<1>4. ASSUME NEW c \in AppConns, ConnectLookup(c) PROVE FreshInv'
  BY <1>4 DEF ConnectLookup, FreshInv, RegistryOK, FindingOK, PcOK
<1>5. ASSUME NEW c \in AppConns, ConnectInstall(c) PROVE FreshInv'
  BY <1>5 DEF ConnectInstall, Start, Previous, FreshInv, RegistryOK, FindingOK,
     PcOK
<1>6. ASSUME NEW c \in Conns, ProxyLookup(c) PROVE FreshInv'
  BY <1>6 DEF ProxyLookup, FreshInv, RegistryOK, FindingOK, PcOK
<1>7. ASSUME NEW c \in Conns, ProxyCheck(c) PROVE FreshInv'
  BY <1>7 DEF ProxyCheck, StillCurrent, FreshInv, RegistryOK, FindingOK, PcOK
<1>8. ASSUME NEW a \in AgentConns, ReadAgentFrame(a) PROVE FreshInv'
  BY <1>8 DEF ReadAgentFrame, Readable, FreshInv, RegistryOK, FindingOK, PcOK
<1>9. ASSUME NEW c \in AppConns, ReadAppFrame(c) PROVE FreshInv'
  BY <1>9 DEF ReadAppFrame, Readable, WriteBegins, WriteReturns, FreshInv,
     RegistryOK, FindingOK, PcOK
<1>10. ASSUME NEW c \in AppConns, ReadAppDropped(c) PROVE FreshInv'
  BY <1>10 DEF ReadAppDropped, Readable, FreshInv, RegistryOK, FindingOK, PcOK
<1>11. ASSUME NEW c \in AppConns, ReadAppPing(c) PROVE FreshInv'
  BY <1>11 DEF ReadAppPing, Readable, WriteBegins, WriteReturns, FreshInv,
     RegistryOK, FindingOK, PcOK
<1>12. ASSUME NEW a \in AgentConns, BroadcastLock(a) PROVE FreshInv'
  BY <1>12 DEF BroadcastLock, Lock, FreshInv, RegistryOK, FindingOK, PcOK
<1>13. ASSUME NEW a \in AgentConns, BroadcastNext(a) PROVE FreshInv'
  BY <1>13 DEF BroadcastNext, WriteBegins, WriteReturns, FreshInv, RegistryOK,
     FindingOK, PcOK
<1>14. ASSUME NEW a \in AgentConns, BroadcastUnlock(a) PROVE FreshInv'
  BY <1>14 DEF BroadcastUnlock, Unlock, FreshInv, RegistryOK, FindingOK, PcOK
<1>15. ASSUME NEW c \in Conns, SendQueued(c) PROVE FreshInv'
  BY <1>15 DEF SendQueued, WriteReturns, FreshInv, RegistryOK, FindingOK, PcOK
<1>16. ASSUME NEW c \in Conns, SendDropped(c) PROVE FreshInv'
  BY <1>16 DEF SendDropped, WriteReturns, FreshInv, RegistryOK, FindingOK, PcOK
<1>17. ASSUME NEW c \in Conns, SendPanics(c) PROVE FreshInv'
  BY <1>17 DEF SendPanics, FreshInv, RegistryOK, FindingOK, PcOK
<1>18. ASSUME NEW a \in AgentConns, HandlerLocksEngine(a) PROVE FreshInv'
  BY <1>18 DEF HandlerLocksEngine, ReadFails, FreshInv, RegistryOK, FindingOK,
     PcOK
<1>19. ASSUME NEW a \in AgentConns, HandlerCleansAgent(a) PROVE FreshInv'
  <2>1. CASE UNCHANGED <<registry, closed>> /\ Orphans(a) = {}
    BY <1>19, <2>1 DEF HandlerCleansAgent, FreshInv, RegistryOK, FindingOK, PcOK
  <2>2. ASSUME NEW s \in Session,
               Free(s) /\ agentConn[s] = a /\ s = sessions[ClientOf[a]],
               Orphans(a) = apps[s],
               apps' = [apps EXCEPT ![s] = {}],
               agentConn' = [agentConn EXCEPT ![s] = NoConn],
               sessions' = [sessions EXCEPT ![ClientOf[a]] = NoConn],
               closed' = [c \in Conns |-> closed[c] \/ c \in apps[s]]
        PROVE  FreshInv'
    BY <1>19, <2>2 DEF HandlerCleansAgent, FreshInv, RegistryOK, FindingOK, PcOK
  <2>3. EndSession(a)
    BY <1>19 DEF HandlerCleansAgent
  <2> QED
    BY <2>1, <2>2, <2>3, EndSessionEffect
<1>20. ASSUME NEW a \in AgentConns, TickerLocksEngine(a) PROVE FreshInv'
  BY <1>20 DEF TickerLocksEngine, PingFails, FreshInv, RegistryOK, FindingOK,
     PcOK
<1>21. ASSUME NEW a \in AgentConns, TickerCleansAgent(a) PROVE FreshInv'
  <2>1. CASE UNCHANGED <<registry, closed>> /\ Orphans(a) = {}
    BY <1>21, <2>1 DEF TickerCleansAgent, FreshInv, RegistryOK, FindingOK, PcOK
  <2>2. ASSUME NEW s \in Session,
               Free(s) /\ agentConn[s] = a /\ s = sessions[ClientOf[a]],
               Orphans(a) = apps[s],
               apps' = [apps EXCEPT ![s] = {}],
               agentConn' = [agentConn EXCEPT ![s] = NoConn],
               sessions' = [sessions EXCEPT ![ClientOf[a]] = NoConn],
               closed' = [c \in Conns |-> closed[c] \/ c \in apps[s]]
        PROVE  FreshInv'
    BY <1>21, <2>2 DEF TickerCleansAgent, FreshInv, RegistryOK, FindingOK, PcOK
  <2>3. EndSession(a)
    BY <1>21 DEF TickerCleansAgent
  <2> QED
    BY <2>1, <2>2, <2>3, EndSessionEffect
<1>22. ASSUME NEW c \in AppConns, HandlerLooksUp(c) PROVE FreshInv'
  BY <1>22 DEF HandlerLooksUp, ReadFails, FreshInv, RegistryOK, FindingOK, PcOK
<1>23. ASSUME NEW c \in AppConns, HandlerCleansApp(c) PROVE FreshInv'
  BY <1>23 DEF HandlerCleansApp, LeaveSession, FreshInv, RegistryOK, FindingOK,
     PcOK
<1>24. ASSUME NEW c \in AppConns, TickerLooksUp(c) PROVE FreshInv'
  BY <1>24 DEF TickerLooksUp, PingFails, FreshInv, RegistryOK, FindingOK, PcOK
<1>25. ASSUME NEW c \in AppConns, TickerCleansApp(c) PROVE FreshInv'
  BY <1>25 DEF TickerCleansApp, LeaveSession, FreshInv, RegistryOK, FindingOK,
     PcOK
<1>26. ASSUME NEW c \in Conns, TickerStops(c) \/ WriteLoop(c) \/ Network(c) PROVE FreshInv'
  BY <1>26 DEF TickerStops, WriteLoop, WriterWrites, WriterFails, WriterEnds,
     Network, PeerStalls, PeerLeaves, ReadDeadline, NetAt, FreshInv, RegistryOK,
     FindingOK, PcOK
<1>27. CASE UNCHANGED vars
  BY <1>27 DEF vars, FreshInv, RegistryOK, FindingOK, PcOK
<1> QED
  BY <1>1, <1>2, <1>3, <1>4, <1>5, <1>6, <1>7, <1>8, <1>9, <1>10, <1>11, <1>12,
     <1>13, <1>14, <1>15, <1>16, <1>17, <1>18, <1>19, <1>20, <1>21, <1>22, <1>23,
     <1>24, <1>25, <1>26, <1>27 DEF Next, AgentPeer, AppPeer, Handler,
     AgentHandler, AppHandler, Ticker

\* The app a broadcast writes to is connected, hence open.
LEMMA PanicNext ==
    TypeInv /\ MemberInv /\ TodoInv /\ BroadcastNeverPanics /\ [Next]_vars => BroadcastNeverPanics'
<1> SUFFICES ASSUME TypeInv, MemberInv, TodoInv, BroadcastNeverPanics, [Next]_vars PROVE BroadcastNeverPanics'
  OBVIOUS
<1>0. PcOK /\ HandlerOK
  BY DEF TypeInv, TypeOK
<1> USE <1>0, ConnFacts
<1> USE DEF registry, mutexes, socket, writing, finding, frame, HandlerAt, TickerAt, Return, NetDown, Close
<1>1. ASSUME NEW a \in AgentConns, RegisterLookup(a) PROVE BroadcastNeverPanics'
  BY <1>1 DEF RegisterLookup, BroadcastNeverPanics, PcOK
<1>2. ASSUME NEW a \in AgentConns, RegisterInstall(a) PROVE BroadcastNeverPanics'
  BY <1>2 DEF RegisterInstall, Start, BroadcastNeverPanics, PcOK
<1>3. ASSUME NEW c \in AppConns, ConnectRefused(c) PROVE BroadcastNeverPanics'
  BY <1>3 DEF ConnectRefused, BroadcastNeverPanics, PcOK
<1>4. ASSUME NEW c \in AppConns, ConnectLookup(c) PROVE BroadcastNeverPanics'
  BY <1>4 DEF ConnectLookup, BroadcastNeverPanics, PcOK
<1>5. ASSUME NEW c \in AppConns, ConnectInstall(c) PROVE BroadcastNeverPanics'
  BY <1>5 DEF ConnectInstall, Start, Previous, BroadcastNeverPanics, PcOK
<1>6. ASSUME NEW c \in Conns, ProxyLookup(c) PROVE BroadcastNeverPanics'
  BY <1>6 DEF ProxyLookup, BroadcastNeverPanics, PcOK
<1>7. ASSUME NEW c \in Conns, ProxyCheck(c) PROVE BroadcastNeverPanics'
  BY <1>7 DEF ProxyCheck, StillCurrent, BroadcastNeverPanics, PcOK
<1>8. ASSUME NEW a \in AgentConns, ReadAgentFrame(a) PROVE BroadcastNeverPanics'
  BY <1>8 DEF ReadAgentFrame, Readable, BroadcastNeverPanics, PcOK
<1>9. ASSUME NEW c \in AppConns, ReadAppFrame(c) PROVE BroadcastNeverPanics'
  BY <1>9 DEF ReadAppFrame, Readable, WriteBegins, WriteReturns,
     BroadcastNeverPanics, PcOK
<1>10. ASSUME NEW c \in AppConns, ReadAppDropped(c) PROVE BroadcastNeverPanics'
  BY <1>10 DEF ReadAppDropped, Readable, BroadcastNeverPanics, PcOK
<1>11. ASSUME NEW c \in AppConns, ReadAppPing(c) PROVE BroadcastNeverPanics'
  BY <1>11 DEF ReadAppPing, Readable, WriteBegins, WriteReturns,
     BroadcastNeverPanics, PcOK
<1>12. ASSUME NEW a \in AgentConns, BroadcastLock(a) PROVE BroadcastNeverPanics'
  BY <1>12 DEF BroadcastLock, Lock, BroadcastNeverPanics, PcOK
<1>13. ASSUME NEW a \in AgentConns, BroadcastNext(a) PROVE BroadcastNeverPanics'
  BY <1>13 DEF BroadcastNext, WriteBegins, WriteReturns, BroadcastNeverPanics,
     PcOK
<1>14. ASSUME NEW a \in AgentConns, BroadcastUnlock(a) PROVE BroadcastNeverPanics'
  BY <1>14 DEF BroadcastUnlock, Unlock, BroadcastNeverPanics, PcOK
<1>15. ASSUME NEW c \in Conns, SendQueued(c) PROVE BroadcastNeverPanics'
  BY <1>15 DEF SendQueued, WriteReturns, BroadcastNeverPanics, PcOK
<1>16. ASSUME NEW c \in Conns, SendDropped(c) PROVE BroadcastNeverPanics'
  BY <1>16 DEF SendDropped, WriteReturns, BroadcastNeverPanics, PcOK
<1>17. ASSUME NEW c \in Conns, SendPanics(c) PROVE BroadcastNeverPanics'
  <2>1. ASSUME c \in AgentConns PROVE FALSE
    <3>1. hpc[c] = "send" /\ closed[dest[c]] /\ hs[c] \in Session
      BY <1>17 DEF SendPanics, HandlerOK
    <3>2. dest[c] \in apps[hs[c]]
      BY <2>1, <3>1 DEF TodoInv
    <3> QED
      BY <3>1, <3>2 DEF MemberInv
  <2> QED
    BY <1>17, <2>1 DEF SendPanics, BroadcastNeverPanics, PcOK
<1>18. ASSUME NEW a \in AgentConns, HandlerLocksEngine(a) PROVE BroadcastNeverPanics'
  BY <1>18 DEF HandlerLocksEngine, ReadFails, BroadcastNeverPanics, PcOK
<1>19. ASSUME NEW a \in AgentConns, HandlerCleansAgent(a) PROVE BroadcastNeverPanics'
  BY <1>19 DEF HandlerCleansAgent, EndSession, Orphans, DeleteSession,
     BroadcastNeverPanics, PcOK
<1>20. ASSUME NEW a \in AgentConns, TickerLocksEngine(a) PROVE BroadcastNeverPanics'
  BY <1>20 DEF TickerLocksEngine, PingFails, BroadcastNeverPanics, PcOK
<1>21. ASSUME NEW a \in AgentConns, TickerCleansAgent(a) PROVE BroadcastNeverPanics'
  BY <1>21 DEF TickerCleansAgent, EndSession, Orphans, DeleteSession,
     BroadcastNeverPanics, PcOK
<1>22. ASSUME NEW c \in AppConns, HandlerLooksUp(c) PROVE BroadcastNeverPanics'
  BY <1>22 DEF HandlerLooksUp, ReadFails, BroadcastNeverPanics, PcOK
<1>23. ASSUME NEW c \in AppConns, HandlerCleansApp(c) PROVE BroadcastNeverPanics'
  BY <1>23 DEF HandlerCleansApp, LeaveSession, BroadcastNeverPanics, PcOK
<1>24. ASSUME NEW c \in AppConns, TickerLooksUp(c) PROVE BroadcastNeverPanics'
  BY <1>24 DEF TickerLooksUp, PingFails, BroadcastNeverPanics, PcOK
<1>25. ASSUME NEW c \in AppConns, TickerCleansApp(c) PROVE BroadcastNeverPanics'
  BY <1>25 DEF TickerCleansApp, LeaveSession, BroadcastNeverPanics, PcOK
<1>26. ASSUME NEW c \in Conns, TickerStops(c) \/ WriteLoop(c) \/ Network(c) PROVE BroadcastNeverPanics'
  BY <1>26 DEF TickerStops, WriteLoop, WriterWrites, WriterFails, WriterEnds,
     Network, PeerStalls, PeerLeaves, ReadDeadline, NetAt, BroadcastNeverPanics,
     PcOK
<1>27. CASE UNCHANGED vars
  BY <1>27 DEF vars, BroadcastNeverPanics, PcOK
<1> QED
  BY <1>1, <1>2, <1>3, <1>4, <1>5, <1>6, <1>7, <1>8, <1>9, <1>10, <1>11, <1>12,
     <1>13, <1>14, <1>15, <1>16, <1>17, <1>18, <1>19, <1>20, <1>21, <1>22, <1>23,
     <1>24, <1>25, <1>26, <1>27 DEF Next, AgentPeer, AppPeer, Handler,
     AgentHandler, AppHandler, Ticker

\* The agent of a session leaves in the step that deletes the session.
LEMMA AgentNext ==
    TypeInv /\ OwnInv /\ SessionHasAgent /\ [Next]_vars => SessionHasAgent'
<1> SUFFICES ASSUME TypeInv, OwnInv, SessionHasAgent, [Next]_vars PROVE SessionHasAgent'
  OBVIOUS
<1>0. RegistryOK /\ FindingOK /\ PcOK /\ HandlerOK
  BY DEF TypeInv, TypeOK
<1> USE <1>0, ConnFacts
<1> USE DEF registry, mutexes, socket, writing, finding, frame, HandlerAt, TickerAt, Return, NetDown, Close
<1>1. ASSUME NEW a \in AgentConns, RegisterLookup(a) PROVE SessionHasAgent'
  BY <1>1 DEF RegisterLookup, SessionHasAgent, OwnInv, RegistryOK, FindingOK,
     PcOK
<1>2. ASSUME NEW a \in AgentConns, RegisterInstall(a) PROVE SessionHasAgent'
  BY <1>2 DEF RegisterInstall, Start, SessionHasAgent, OwnInv, RegistryOK,
     FindingOK, PcOK
<1>3. ASSUME NEW c \in AppConns, ConnectRefused(c) PROVE SessionHasAgent'
  BY <1>3 DEF ConnectRefused, SessionHasAgent, OwnInv, RegistryOK, FindingOK,
     PcOK
<1>4. ASSUME NEW c \in AppConns, ConnectLookup(c) PROVE SessionHasAgent'
  BY <1>4 DEF ConnectLookup, SessionHasAgent, OwnInv, RegistryOK, FindingOK,
     PcOK
<1>5. ASSUME NEW c \in AppConns, ConnectInstall(c) PROVE SessionHasAgent'
  BY <1>5 DEF ConnectInstall, Start, Previous, SessionHasAgent, OwnInv,
     RegistryOK, FindingOK, PcOK
<1>6. ASSUME NEW c \in Conns, ProxyLookup(c) PROVE SessionHasAgent'
  BY <1>6 DEF ProxyLookup, SessionHasAgent, OwnInv, RegistryOK, FindingOK, PcOK
<1>7. ASSUME NEW c \in Conns, ProxyCheck(c) PROVE SessionHasAgent'
  BY <1>7 DEF ProxyCheck, StillCurrent, SessionHasAgent, OwnInv, RegistryOK,
     FindingOK, PcOK
<1>8. ASSUME NEW a \in AgentConns, ReadAgentFrame(a) PROVE SessionHasAgent'
  BY <1>8 DEF ReadAgentFrame, Readable, SessionHasAgent, OwnInv, RegistryOK,
     FindingOK, PcOK
<1>9. ASSUME NEW c \in AppConns, ReadAppFrame(c) PROVE SessionHasAgent'
  BY <1>9 DEF ReadAppFrame, Readable, WriteBegins, WriteReturns,
     SessionHasAgent, OwnInv, RegistryOK, FindingOK, PcOK
<1>10. ASSUME NEW c \in AppConns, ReadAppDropped(c) PROVE SessionHasAgent'
  BY <1>10 DEF ReadAppDropped, Readable, SessionHasAgent, OwnInv, RegistryOK,
     FindingOK, PcOK
<1>11. ASSUME NEW c \in AppConns, ReadAppPing(c) PROVE SessionHasAgent'
  BY <1>11 DEF ReadAppPing, Readable, WriteBegins, WriteReturns,
     SessionHasAgent, OwnInv, RegistryOK, FindingOK, PcOK
<1>12. ASSUME NEW a \in AgentConns, BroadcastLock(a) PROVE SessionHasAgent'
  BY <1>12 DEF BroadcastLock, Lock, SessionHasAgent, OwnInv, RegistryOK,
     FindingOK, PcOK
<1>13. ASSUME NEW a \in AgentConns, BroadcastNext(a) PROVE SessionHasAgent'
  BY <1>13 DEF BroadcastNext, WriteBegins, WriteReturns, SessionHasAgent,
     OwnInv, RegistryOK, FindingOK, PcOK
<1>14. ASSUME NEW a \in AgentConns, BroadcastUnlock(a) PROVE SessionHasAgent'
  BY <1>14 DEF BroadcastUnlock, Unlock, SessionHasAgent, OwnInv, RegistryOK,
     FindingOK, PcOK
<1>15. ASSUME NEW c \in Conns, SendQueued(c) PROVE SessionHasAgent'
  BY <1>15 DEF SendQueued, WriteReturns, SessionHasAgent, OwnInv, RegistryOK,
     FindingOK, PcOK
<1>16. ASSUME NEW c \in Conns, SendDropped(c) PROVE SessionHasAgent'
  BY <1>16 DEF SendDropped, WriteReturns, SessionHasAgent, OwnInv, RegistryOK,
     FindingOK, PcOK
<1>17. ASSUME NEW c \in Conns, SendPanics(c) PROVE SessionHasAgent'
  BY <1>17 DEF SendPanics, SessionHasAgent, OwnInv, RegistryOK, FindingOK, PcOK
<1>18. ASSUME NEW a \in AgentConns, HandlerLocksEngine(a) PROVE SessionHasAgent'
  BY <1>18 DEF HandlerLocksEngine, ReadFails, SessionHasAgent, OwnInv,
     RegistryOK, FindingOK, PcOK
<1>19. ASSUME NEW a \in AgentConns, HandlerCleansAgent(a) PROVE SessionHasAgent'
  <2>1. CASE UNCHANGED <<registry, closed>> /\ Orphans(a) = {}
    BY <1>19, <2>1 DEF HandlerCleansAgent, SessionHasAgent, OwnInv, RegistryOK, FindingOK, PcOK
  <2>2. ASSUME NEW s \in Session,
               Free(s) /\ agentConn[s] = a /\ s = sessions[ClientOf[a]],
               Orphans(a) = apps[s],
               apps' = [apps EXCEPT ![s] = {}],
               agentConn' = [agentConn EXCEPT ![s] = NoConn],
               sessions' = [sessions EXCEPT ![ClientOf[a]] = NoConn],
               closed' = [c \in Conns |-> closed[c] \/ c \in apps[s]]
        PROVE  SessionHasAgent'
    BY <1>19, <2>2 DEF HandlerCleansAgent, SessionHasAgent, OwnInv, RegistryOK, FindingOK, PcOK
  <2>3. EndSession(a)
    BY <1>19 DEF HandlerCleansAgent
  <2> QED
    BY <2>1, <2>2, <2>3, EndSessionEffect
<1>20. ASSUME NEW a \in AgentConns, TickerLocksEngine(a) PROVE SessionHasAgent'
  BY <1>20 DEF TickerLocksEngine, PingFails, SessionHasAgent, OwnInv,
     RegistryOK, FindingOK, PcOK
<1>21. ASSUME NEW a \in AgentConns, TickerCleansAgent(a) PROVE SessionHasAgent'
  <2>1. CASE UNCHANGED <<registry, closed>> /\ Orphans(a) = {}
    BY <1>21, <2>1 DEF TickerCleansAgent, SessionHasAgent, OwnInv, RegistryOK, FindingOK, PcOK
  <2>2. ASSUME NEW s \in Session,
               Free(s) /\ agentConn[s] = a /\ s = sessions[ClientOf[a]],
               Orphans(a) = apps[s],
               apps' = [apps EXCEPT ![s] = {}],
               agentConn' = [agentConn EXCEPT ![s] = NoConn],
               sessions' = [sessions EXCEPT ![ClientOf[a]] = NoConn],
               closed' = [c \in Conns |-> closed[c] \/ c \in apps[s]]
        PROVE  SessionHasAgent'
    BY <1>21, <2>2 DEF TickerCleansAgent, SessionHasAgent, OwnInv, RegistryOK, FindingOK, PcOK
  <2>3. EndSession(a)
    BY <1>21 DEF TickerCleansAgent
  <2> QED
    BY <2>1, <2>2, <2>3, EndSessionEffect
<1>22. ASSUME NEW c \in AppConns, HandlerLooksUp(c) PROVE SessionHasAgent'
  BY <1>22 DEF HandlerLooksUp, ReadFails, SessionHasAgent, OwnInv, RegistryOK,
     FindingOK, PcOK
<1>23. ASSUME NEW c \in AppConns, HandlerCleansApp(c) PROVE SessionHasAgent'
  BY <1>23 DEF HandlerCleansApp, LeaveSession, SessionHasAgent, OwnInv,
     RegistryOK, FindingOK, PcOK
<1>24. ASSUME NEW c \in AppConns, TickerLooksUp(c) PROVE SessionHasAgent'
  BY <1>24 DEF TickerLooksUp, PingFails, SessionHasAgent, OwnInv, RegistryOK,
     FindingOK, PcOK
<1>25. ASSUME NEW c \in AppConns, TickerCleansApp(c) PROVE SessionHasAgent'
  BY <1>25 DEF TickerCleansApp, LeaveSession, SessionHasAgent, OwnInv,
     RegistryOK, FindingOK, PcOK
<1>26. ASSUME NEW c \in Conns, TickerStops(c) \/ WriteLoop(c) \/ Network(c) PROVE SessionHasAgent'
  BY <1>26 DEF TickerStops, WriteLoop, WriterWrites, WriterFails, WriterEnds,
     Network, PeerStalls, PeerLeaves, ReadDeadline, NetAt, SessionHasAgent, OwnInv,
     RegistryOK, FindingOK, PcOK
<1>27. CASE UNCHANGED vars
  BY <1>27 DEF vars, SessionHasAgent, OwnInv, RegistryOK, FindingOK, PcOK
<1> QED
  BY <1>1, <1>2, <1>3, <1>4, <1>5, <1>6, <1>7, <1>8, <1>9, <1>10, <1>11, <1>12,
     <1>13, <1>14, <1>15, <1>16, <1>17, <1>18, <1>19, <1>20, <1>21, <1>22, <1>23,
     <1>24, <1>25, <1>26, <1>27 DEF Next, AgentPeer, AppPeer, Handler,
     AgentHandler, AppHandler, Ticker

-----------------------------------------------------------------------------
(* The steps that change who is registered, and what they do to the        *)
(* properties that are only about the registry.                            *)

\* Every step leaves the registry alone or is one of six.
LEMMA RegistryMoves ==
    ASSUME [Next]_vars
    PROVE  \/ UNCHANGED registry
           \/ \E a \in AgentConns : RegisterLookup(a)
           \/ \E a \in AgentConns : RegisterInstall(a)
           \/ \E c \in AppConns : ConnectInstall(c)
           \/ \E a \in AgentConns :
                 EndSession(a) /\ (hpc[a] = "locked" \/ tpc[a] = "locked")
           \/ \E c \in AppConns :
                 \/ LeaveSession(c, hs[c]) /\ hpc[c] = "leaving"
                 \/ LeaveSession(c, ts[c]) /\ tpc[c] = "leaving"
<1> DEFINE Same == UNCHANGED registry
<1>1. ASSUME NEW a \in AgentConns,
             \/ ReadAgentFrame(a) \/ BroadcastLock(a)
             \/ BroadcastNext(a) \/ BroadcastUnlock(a)
             \/ HandlerLocksEngine(a) \/ TickerLocksEngine(a)
      PROVE  Same
  BY <1>1 DEF ReadAgentFrame, BroadcastLock,
     BroadcastNext, BroadcastUnlock, HandlerLocksEngine, TickerLocksEngine
<1>2. ASSUME NEW c \in AppConns,
             \/ ConnectRefused(c) \/ ConnectLookup(c)
             \/ ReadAppFrame(c) \/ ReadAppDropped(c) \/ ReadAppPing(c)
             \/ HandlerLooksUp(c) \/ TickerLooksUp(c)
      PROVE  Same
  BY <1>2 DEF ConnectRefused, ConnectLookup, ReadAppFrame, ReadAppDropped,
     ReadAppPing, HandlerLooksUp, TickerLooksUp
<1>3. ASSUME NEW c \in Conns,
             \/ ProxyLookup(c) \/ ProxyCheck(c)
             \/ SendQueued(c) \/ SendDropped(c) \/ SendPanics(c)
             \/ TickerStops(c) \/ WriteLoop(c) \/ Network(c)
      PROVE  Same
  BY <1>3 DEF ProxyLookup, ProxyCheck, SendQueued, SendDropped, SendPanics,
     TickerStops, WriteLoop, WriterWrites, WriterFails, WriterEnds, Network,
     PeerStalls, PeerLeaves, ReadDeadline, NetAt
<1>4. ASSUME NEW a \in AgentConns, HandlerCleansAgent(a) \/ TickerCleansAgent(a)
      PROVE  EndSession(a) /\ (hpc[a] = "locked" \/ tpc[a] = "locked")
  BY <1>4 DEF HandlerCleansAgent, TickerCleansAgent
<1>5. ASSUME NEW c \in AppConns, HandlerCleansApp(c) \/ TickerCleansApp(c)
      PROVE  \/ LeaveSession(c, hs[c]) /\ hpc[c] = "leaving"
             \/ LeaveSession(c, ts[c]) /\ tpc[c] = "leaving"
  BY <1>5 DEF HandlerCleansApp, TickerCleansApp
<1>6. CASE UNCHANGED vars
  BY <1>6 DEF vars
<1> QED
  BY <1>1, <1>2, <1>3, <1>4, <1>5, <1>6
  DEF Next, AgentPeer, AppPeer, Handler, AgentHandler, AppHandler, Ticker

\* One of the six, the lookup of an agent, changes nothing in the sessions.
LEMMA RegistrySteps ==
    ASSUME [Next]_vars
    PROVE  \/ UNCHANGED <<agentConn, apps, active>>
           \/ \E a \in AgentConns : RegisterInstall(a)
           \/ \E c \in AppConns : ConnectInstall(c)
           \/ \E a \in AgentConns :
                 EndSession(a) /\ (hpc[a] = "locked" \/ tpc[a] = "locked")
           \/ \E c \in AppConns :
                 \/ LeaveSession(c, hs[c]) /\ hpc[c] = "leaving"
                 \/ LeaveSession(c, ts[c]) /\ tpc[c] = "leaving"
<1>1. ASSUME NEW a \in AgentConns, RegisterLookup(a)
      PROVE  UNCHANGED <<agentConn, apps, active>>
  BY <1>1 DEF RegisterLookup
<1> QED
  BY <1>1, RegistryMoves DEF registry

\* Active changes with the set of apps.
LEMMA ActiveNext == TypeInv /\ ActiveIffApps /\ [Next]_vars => ActiveIffApps'
<1> SUFFICES ASSUME TypeInv, ActiveIffApps, [Next]_vars PROVE ActiveIffApps'
  OBVIOUS
<1>0. RegistryOK
  BY DEF TypeInv, TypeOK
<1> USE <1>0
<1>1. CASE UNCHANGED <<agentConn, apps, active>>
  BY <1>1 DEF ActiveIffApps
<1>2. ASSUME NEW a \in AgentConns, RegisterInstall(a) PROVE ActiveIffApps'
  BY <1>2 DEF RegisterInstall, ActiveIffApps
<1>3. ASSUME NEW c \in AppConns, ConnectInstall(c) PROVE ActiveIffApps'
  BY <1>3 DEF ConnectInstall, ActiveIffApps, RegistryOK
<1>4. ASSUME NEW a \in AgentConns, EndSession(a) PROVE ActiveIffApps'
  BY <1>4, EndSessionEffect DEF ActiveIffApps, RegistryOK, registry
<1>5. ASSUME NEW c \in AppConns, NEW s, LeaveSession(c, s) PROVE ActiveIffApps'
  <2>1. CASE c \notin apps[s]
    BY <1>5, <2>1 DEF LeaveSession, ActiveIffApps
  <2>2. CASE c \in apps[s]
    <3>1. /\ apps' = [apps EXCEPT ![s] = @ \ {c}]
          /\ active' = [active EXCEPT ![s] = @ /\ apps[s] # {c}]
      BY <1>5, <2>2, Zenon DEF LeaveSession, IsLastApp
    <3>2. ASSUME NEW t \in Session PROVE active'[t] <=> apps'[t] # {}
      <4>1. CASE t = s
        BY <2>2, <3>1, <4>1 DEF ActiveIffApps, RegistryOK
      <4>2. CASE t # s
        BY <3>1, <4>2 DEF ActiveIffApps, RegistryOK
      <4> QED
        BY <4>1, <4>2
    <3> QED
      BY <3>2 DEF ActiveIffApps
  <2> QED
    BY <2>1, <2>2
<1> QED
  BY <1>1, <1>2, <1>3, <1>4, <1>5, RegistrySteps

\* Each of the five steps has its reason to remove a connection.
LEMMA EvictionNext ==
    TypeInv /\ MemberInv /\ FailedInv /\ [Next]_vars => EvictionStep
<1> SUFFICES ASSUME TypeInv, MemberInv, FailedInv, [Next]_vars PROVE EvictionStep
  OBVIOUS
<1>0. RegistryOK /\ HandlerOK
  BY DEF TypeInv, TypeOK
<1> USE <1>0, ConnFacts DEF EvictionStep, Registered
<1>1. CASE UNCHANGED <<agentConn, apps, active>>
  BY <1>1
<1>2. ASSUME NEW a \in AgentConns, RegisterInstall(a) PROVE EvictionStep
  BY <1>2 DEF RegisterInstall, RegistryOK
<1>3. ASSUME NEW c \in AppConns, ConnectInstall(c) PROVE EvictionStep
  <2>1. \A s \in Session : c \notin apps[s]
    BY <1>3 DEF ConnectInstall, MemberInv
  <2>2. /\ UNCHANGED agentConn
        /\ apps' = [apps EXCEPT ![hs[c]] = (@ \ Previous(c, hs[c])) \cup {c}]
    BY <1>3 DEF ConnectInstall
  <2> QED
    BY <2>1, <2>2 DEF Previous, RegistryOK
<1>4. ASSUME NEW a \in AgentConns, EndSession(a),
             hpc[a] = "locked" \/ tpc[a] = "locked"
      PROVE  EvictionStep
  <2>1. net[a] # "up"
    BY <1>4 DEF FailedInv
  <2>2. CASE UNCHANGED registry
    BY <2>2 DEF registry
  <2>3. ASSUME NEW s \in Session, agentConn[s] = a,
               apps' = [apps EXCEPT ![s] = {}],
               agentConn' = [agentConn EXCEPT ![s] = NoConn]
        PROVE  EvictionStep
    BY <2>1, <2>3 DEF RegistryOK
  <2> QED
    BY <1>4, <2>2, <2>3, EndSessionEffect
<1>5. ASSUME NEW c \in AppConns, NEW s, LeaveSession(c, s),
             hpc[c] = "leaving" \/ tpc[c] = "leaving"
      PROVE  EvictionStep
  <2>1. net[c] # "up"
    BY <1>5 DEF FailedInv
  <2>2. UNCHANGED agentConn /\ \A t \in Session : apps[t] \ {c} \subseteq apps'[t]
    BY <1>5, LeaveSessionEffect DEF RegistryOK
  <2> QED
    BY <2>1, <2>2
<1> QED
  BY <1>1, <1>2, <1>3, <1>4, <1>5, RegistrySteps

-----------------------------------------------------------------------------

\* The inductive invariant.
IInv == /\ TypeInv /\ MemberInv /\ LockInv /\ TodoInv /\ FailedInv /\ PlaceInv
        /\ OwnInv /\ FreshInv /\ BroadcastNeverPanics /\ ActiveIffApps
        /\ SessionHasAgent

\* Initially nothing is connected.
LEMMA InitIInv == Init => IInv
<1> SUFFICES ASSUME Init PROVE IInv
  OBVIOUS
<1> USE ConnFacts DEF Init
<1>1. MemberInv /\ LockInv /\ TodoInv
  BY DEF MemberInv, LockInv, TodoInv, Broadcasting
<1>2. FailedInv /\ PlaceInv /\ OwnInv /\ FreshInv
  BY DEF FailedInv, PlaceInv, OwnInv, FreshInv, Relaying
<1>3. BroadcastNeverPanics /\ ActiveIffApps /\ SessionHasAgent
  BY DEF BroadcastNeverPanics, ActiveIffApps, SessionHasAgent
<1> QED
  BY <1>1, <1>2, <1>3, InitType DEF IInv

\* The parts together are inductive.
LEMMA NextIInv == IInv /\ [Next]_vars => IInv'
  BY NextType, MemberNext, LockNext, TodoNext, FailedNext, PlaceNext, OwnNext,
     FreshNext, PanicNext, ActiveNext, AgentNext DEF IInv

\* Hence they always hold.
LEMMA Invariance == Spec => []IInv
  BY InitIInv, NextIInv, PTL DEF Spec

\* A broadcast never sends on a closed MsgChan (relay.go:268-276): the agent's
\* handler does not panic with the mutex of its session locked.
THEOREM BroadcastSafe == Spec => []BroadcastNeverPanics
<1>1. IInv => BroadcastNeverPanics
  BY DEF IInv
<1> QED
  BY <1>1, Invariance, PTL

\* A healthy connection whose handler relays frames (proxyAgent, proxyApp) is
\* registered in the session the engine has for its client id.
THEOREM NoZombieRelays == Spec => []NoZombie
<1>1. IInv => NoZombie
  BY DEF IInv, PlaceInv, NoZombie
<1> QED
  BY <1>1, Invariance, PTL

\* Whatever the order of registrations and late cleanups, a connection leaves
\* its session only for a failure or for a successor.
THEOREM EvictionsJustified == Spec => EvictionJustified
<1>1. IInv /\ [Next]_vars => [EvictionStep]_vars
  BY EvictionNext DEF IInv
<1> QED
  BY <1>1, Invariance, PTL DEF Spec, EvictionJustified

\* The engine never keeps a session whose agent is gone (RegisterAgent's gap
\* between its two mutexes excepted).
THEOREM SessionsHaveAgents == Spec => []SessionHasAgent
<1>1. IInv => SessionHasAgent
  BY DEF IInv
<1> QED
  BY <1>1, Invariance, PTL

\* RelaySession.Active and RelaySession.AppConns agree.
THEOREM ActiveMeansApps == Spec => []ActiveIffApps
<1>1. IInv => ActiveIffApps
  BY DEF IInv
<1> QED
  BY <1>1, Invariance, PTL

=============================================================================
