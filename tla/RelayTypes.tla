----------------------------- MODULE RelayTypes ------------------------------
(***************************************************************************)
(* Type correctness of the relay engine: TypeOK needs to be strengthened   *)
(* by what the program counter of a handler says about its variables.      *)
(***************************************************************************)
EXTENDS Relay, TLAPS

\* What the program counter of a handler says about its local variables.
HandlerOK ==
    \A c \in Conns :
        /\ hpc[c] \in {"install", "check", "read", "lock", "bcast", "send", "leaving"}
              => hs[c] \in Session
        /\ hpc[c] \in {"lock", "bcast", "send"} => msg[c] \in Msg
        /\ hpc[c] = "send" => dest[c] \in Conns

\* The inductive form of TypeOK.
TypeInv == TypeOK /\ HandlerOK

\* What the assumption on the constants says of connections.
LEMMA ConnFacts ==
    /\ AgentConns \subseteq Conns
    /\ AppConns \subseteq Conns
    /\ Session = AgentConns
    /\ NoConn \notin Conns
    /\ AgentConns \cap AppConns = {}
    /\ ClientOf \in [Conns -> Clients]
  BY RelayAssumption DEF Conns, Session

\* The initial values have their types.
LEMMA InitType == Init => TypeInv
<1> SUFFICES ASSUME Init PROVE TypeInv
  OBVIOUS
<1> USE ConnFacts DEF Init
<1>1. RegistryOK /\ MutexesOK /\ SocketOK
  BY DEF RegistryOK, MutexesOK, SocketOK
<1>2. WritingOK
  BY RelayAssumption DEF WritingOK, WriterPC
<1>3. FindingOK /\ FrameOK
  BY DEF FindingOK, FrameOK
<1>4. PcOK /\ HandlerOK
  BY DEF PcOK, HandlerOK, HandlerPC, TickerPC
<1> QED
  BY <1>1, <1>2, <1>3, <1>4 DEF TypeInv, TypeOK

\* A group of variables that a step leaves alone keeps its type.
LEMMA Unchanged ==
    /\ RegistryOK /\ UNCHANGED registry => RegistryOK'
    /\ MutexesOK /\ UNCHANGED mutexes => MutexesOK'
    /\ SocketOK /\ UNCHANGED socket => SocketOK'
    /\ WritingOK /\ UNCHANGED writing => WritingOK'
    /\ FindingOK /\ UNCHANGED finding => FindingOK'
    /\ FrameOK /\ UNCHANGED frame => FrameOK'
    /\ PcOK /\ UNCHANGED <<hpc, tpc>> => PcOK'
  BY DEF RegistryOK, MutexesOK, SocketOK, WritingOK, FindingOK, FrameOK, PcOK,
         registry, mutexes, socket, writing, finding, frame

\* A frame a peer sends is a message of its connection.
LEMMA FrameType ==
    ASSUME FrameOK, NEW c \in Conns, NEW f \in NextFrames(c)
    PROVE  f \in Msg /\ f.src = c
<1>1. count[c] + 1 \in Nat
  BY DEF FrameOK
<1>2. Kinds[c] \ {"ping"} \subseteq {"binary", "text"}
  BY RelayAssumption
<1>3. f \in [src : {c}, kind : Kinds[c] \ {"ping"}, n : {0, count[c] + 1}]
  BY DEF NextFrames
<1> QED
  BY <1>1, <1>2, <1>3 DEF Msg

\* Counting a frame keeps the type of the counters.
LEMMA CountedType ==
    ASSUME FrameOK, NEW c \in Conns, NEW f \in Msg, Counted(c, f)
    PROVE  count' \in [Conns -> Nat]
  BY DEF FrameOK, Counted, Msg

\* WriteMessage up to its select, called by the handler of c.
LEMMA WriteBeginsType ==
    ASSUME FrameOK, PcOK, HandlerOK, NEW c \in Conns, NEW d \in Conns,
           NEW f \in Msg, WriteBegins(c, d, f), UNCHANGED hs
    PROVE  /\ dest' \in [Conns -> Conns \cup {NoConn}]
           /\ msg' \in [Conns -> Msg \cup {NoMsg}]
           /\ hpc' \in [Conns -> HandlerPC]
           /\ (hpc[c] \in {"read", "bcast"} => HandlerOK')
<1> USE ConnFacts DEF WriteBegins, WriteReturns, HandlerAt
<1>1. /\ dest' \in [Conns -> Conns \cup {NoConn}]
      /\ msg' \in [Conns -> Msg \cup {NoMsg}]
  BY DEF FrameOK
<1>2. hpc' \in [Conns -> HandlerPC]
  BY DEF PcOK, HandlerPC
<1>3. ASSUME hpc[c] \in {"read", "bcast"} PROVE HandlerOK'
  <2>1. CASE closed[d]
    BY <1>3, <2>1 DEF FrameOK, PcOK, HandlerOK
  <2>2. CASE ~closed[d]
    BY <1>3, <2>2 DEF FrameOK, PcOK, HandlerOK
  <2> QED
    BY <2>1, <2>2
<1> QED
  BY <1>1, <1>2, <1>3

\* The two cleanups keep the type of the registry.
LEMMA EndSessionType ==
    ASSUME RegistryOK, NEW a \in AgentConns, EndSession(a) PROVE RegistryOK'
<1> DEFINE s == sessions[ClientOf[a]]
<1>1. CASE UNCHANGED registry
  BY <1>1, Unchanged
<1>2. CASE s # NoConn /\ IsCurrentAgent(a, s) /\ ~UNCHANGED registry
  <2>1. s \in Session
    BY <1>2, ConnFacts DEF RegistryOK
  <2>2. /\ apps' = [apps EXCEPT ![s] = {}]
        /\ agentConn' = [agentConn EXCEPT ![s] = NoConn]
        /\ active' = [active EXCEPT ![s] = FALSE]
        /\ sessions' = [sessions EXCEPT ![ClientOf[a]] = NoConn]
        /\ jobs' = [jobs EXCEPT ![a] = @ + 1]
    BY <1>2, Zenon DEF EndSession, DeleteSession
  <2>3. jobs' \in [Conns -> Nat]
    BY <2>2, ConnFacts DEF RegistryOK
  <2>4. apps' \in [Session -> SUBSET AppConns] /\ active' \in [Session -> BOOLEAN]
    BY <2>1, <2>2 DEF RegistryOK
  <2>5. /\ agentConn' \in [Session -> AgentConns \cup {NoConn}]
        /\ sessions' \in [Clients -> Session \cup {NoConn}]
    BY <2>1, <2>2 DEF RegistryOK
  <2> QED
    BY <2>3, <2>4, <2>5 DEF RegistryOK
<1> QED
  BY <1>1, <1>2 DEF EndSession

\* cleanupApp's part of it.
LEMMA LeaveSessionType ==
    ASSUME RegistryOK, NEW c \in AppConns, NEW s \in Session, LeaveSession(c, s)
    PROVE  RegistryOK'
<1>1. CASE c \in apps[s]
  <2>1. apps' \in [Session -> SUBSET AppConns]
    BY <1>1 DEF LeaveSession, RegistryOK
  <2>2. active' \in [Session -> BOOLEAN]
    BY <1>1 DEF LeaveSession, RegistryOK
  <2>3. jobs' \in [Conns -> Nat]
    BY <1>1, ConnFacts DEF LeaveSession, RegistryOK
  <2> QED
    BY <1>1, <2>1, <2>2, <2>3 DEF LeaveSession, RegistryOK
<1>2. CASE c \notin apps[s]
  BY <1>2, Unchanged DEF LeaveSession, registry
<1> QED
  BY <1>1, <1>2

\* Every action keeps the types of the groups of variables it touches.
LEMMA NextType == TypeInv /\ [Next]_vars => TypeInv'
<1> SUFFICES ASSUME TypeInv, [Next]_vars PROVE TypeInv'
  OBVIOUS
<1>0. /\ RegistryOK /\ MutexesOK /\ SocketOK /\ WritingOK
      /\ FindingOK /\ FrameOK /\ PcOK /\ HandlerOK
  BY DEF TypeInv, TypeOK
<1> USE <1>0, ConnFacts
<1> USE DEF HandlerAt, TickerAt, Return, NetDown, Close
<1>1. ASSUME NEW a \in AgentConns, RegisterLookup(a) PROVE TypeInv'
  <2>1. RegistryOK'
    BY <1>1 DEF RegisterLookup, RegistryOK, registry
  <2>2. FindingOK'
    BY <1>1 DEF RegisterLookup, RegistryOK, FindingOK, finding
  <2>3. PcOK'
    BY <1>1 DEF RegisterLookup, PcOK, HandlerPC, TickerPC
  <2>4. HandlerOK'
    BY <1>1 DEF RegisterLookup, RegistryOK, FindingOK, PcOK, HandlerOK,
       finding, frame
  <2> QED
    BY <1>1, <2>1, <2>2, <2>3, <2>4, Unchanged DEF RegisterLookup, TypeInv,
       TypeOK
<1>2. ASSUME NEW a \in AgentConns, RegisterInstall(a) PROVE TypeInv'
  <2>1. RegistryOK'
    BY <1>2 DEF RegisterInstall, RegistryOK, registry
  <2>2. SocketOK'
    BY <1>2 DEF RegisterInstall, SocketOK, socket
  <2>3. WritingOK'
    BY <1>2 DEF RegisterInstall, Start, WritingOK, writing, WriterPC
  <2>4. PcOK'
    BY <1>2 DEF RegisterInstall, Start, PcOK, HandlerPC, TickerPC
  <2>5. HandlerOK'
    BY <1>2 DEF RegisterInstall, Start, PcOK, HandlerOK, finding, frame
  <2> QED
    BY <1>2, <2>1, <2>2, <2>3, <2>4, <2>5, Unchanged DEF RegisterInstall,
       TypeInv, TypeOK
<1>3. ASSUME NEW c \in AppConns, ConnectRefused(c) PROVE TypeInv'
  <2>1. SocketOK'
    BY <1>3 DEF ConnectRefused, SocketOK, socket
  <2>2. FindingOK'
    BY <1>3 DEF ConnectRefused, FindingOK, finding
  <2>3. PcOK'
    BY <1>3 DEF ConnectRefused, PcOK, HandlerPC, TickerPC
  <2>4. HandlerOK'
    BY <1>3 DEF ConnectRefused, PcOK, HandlerOK, finding, frame
  <2> QED
    BY <1>3, <2>1, <2>2, <2>3, <2>4, Unchanged DEF ConnectRefused, TypeInv,
       TypeOK
<1>4. ASSUME NEW c \in AppConns, ConnectLookup(c) PROVE TypeInv'
  <2>1. FindingOK'
    BY <1>4 DEF ConnectLookup, RegistryOK, FindingOK, finding
  <2>2. PcOK'
    BY <1>4 DEF ConnectLookup, PcOK, HandlerPC, TickerPC
  <2>3. HandlerOK'
    BY <1>4 DEF ConnectLookup, RegistryOK, FindingOK, PcOK, HandlerOK,
       finding, frame
  <2> QED
    BY <1>4, <2>1, <2>2, <2>3, Unchanged DEF ConnectLookup, TypeInv, TypeOK
<1>5. ASSUME NEW c \in AppConns, ConnectInstall(c) PROVE TypeInv'
  <2>1. RegistryOK'
    BY <1>5 DEF ConnectInstall, Previous, RegistryOK, registry
  <2>2. SocketOK'
    BY <1>5 DEF ConnectInstall, SocketOK, socket
  <2>3. WritingOK'
    BY <1>5 DEF ConnectInstall, Start, WritingOK, writing, WriterPC
  <2>4. PcOK'
    BY <1>5 DEF ConnectInstall, Start, PcOK, HandlerPC, TickerPC
  <2>5. HandlerOK'
    BY <1>5 DEF ConnectInstall, Start, PcOK, HandlerOK, finding, frame
  <2> QED
    BY <1>5, <2>1, <2>2, <2>3, <2>4, <2>5, Unchanged DEF ConnectInstall,
       TypeInv, TypeOK
<1>6. ASSUME NEW c \in Conns, ProxyLookup(c) PROVE TypeInv'
  <2>1. SocketOK'
    BY <1>6 DEF ProxyLookup, SocketOK, socket
  <2>2. FindingOK'
    BY <1>6 DEF ProxyLookup, RegistryOK, FindingOK, finding
  <2>3. PcOK'
    BY <1>6 DEF ProxyLookup, PcOK, HandlerPC, TickerPC
  <2>4. HandlerOK'
    BY <1>6 DEF ProxyLookup, RegistryOK, FindingOK, PcOK, HandlerOK, finding,
       frame
  <2> QED
    BY <1>6, <2>1, <2>2, <2>3, <2>4, Unchanged DEF ProxyLookup, TypeInv,
       TypeOK
<1>7. ASSUME NEW c \in Conns, ProxyCheck(c) PROVE TypeInv'
  <2>1. SocketOK'
    BY <1>7 DEF ProxyCheck, SocketOK, socket
  <2>2. FindingOK'
    BY <1>7 DEF ProxyCheck, FindingOK, finding
  <2>3. FrameOK'
    <3>1. agentConn[hs[c]] \in AgentConns \cup {NoConn}
      BY <1>7 DEF ProxyCheck, RegistryOK, HandlerOK
    <3> QED
      BY <1>7, <3>1 DEF ProxyCheck, FrameOK
  <2>4. PcOK'
    BY <1>7 DEF ProxyCheck, PcOK, HandlerPC, TickerPC
  <2>5. HandlerOK'
    BY <1>7 DEF ProxyCheck, FindingOK, FrameOK, PcOK, HandlerOK, finding,
       frame
  <2> QED
    BY <1>7, <2>1, <2>2, <2>3, <2>4, <2>5, Unchanged DEF ProxyCheck, TypeInv,
       TypeOK
<1>8. ASSUME NEW a \in AgentConns, ReadAgentFrame(a) PROVE TypeInv'
  <2>1. FrameOK'
    <3>1. PICK f \in NextFrames(a) : Counted(a, f) /\ msg' = [msg EXCEPT ![a] = f]
      BY <1>8 DEF ReadAgentFrame
    <3>2. f \in Msg
      BY FrameType
    <3>3. count' \in [Conns -> Nat]
      BY <3>1, <3>2, CountedType
    <3> QED
      BY <1>8, <3>1, <3>2, <3>3 DEF ReadAgentFrame, FrameOK
  <2>2. PcOK'
    BY <1>8 DEF ReadAgentFrame, PcOK, HandlerPC, TickerPC
  <2>3. HandlerOK'
    <3>1. PICK f \in NextFrames(a) : msg' = [msg EXCEPT ![a] = f]
      BY <1>8 DEF ReadAgentFrame
    <3>2. f \in Msg
      BY FrameType
    <3> QED
      BY <1>8, <3>1, <3>2 DEF ReadAgentFrame, Readable, FrameOK, PcOK, HandlerOK, finding
  <2> QED
    BY <1>8, <2>1, <2>2, <2>3, Unchanged DEF ReadAgentFrame, TypeInv, TypeOK
<1>9. ASSUME NEW c \in AppConns, ReadAppFrame(c) PROVE TypeInv'
  <2>1. FrameOK'
    <3>1. PICK f \in NextFrames(c) : Counted(c, f) /\ WriteBegins(c, dest[c], f)
      BY <1>9 DEF ReadAppFrame
    <3>2. f \in Msg
      BY FrameType
    <3>3. count' \in [Conns -> Nat]
      BY <3>1, <3>2, CountedType
    <3>4. dest[c] \in Conns /\ UNCHANGED <<hs, todo>>
      BY <1>9 DEF ReadAppFrame, FrameOK, finding
    <3> QED
      BY <3>1, <3>2, <3>3, <3>4, WriteBeginsType DEF FrameOK
  <2>2. PcOK'
    BY <1>9 DEF ReadAppFrame, WriteBegins, WriteReturns, PcOK, HandlerPC,
       TickerPC
  <2>3. HandlerOK'
    <3>1. PICK f \in NextFrames(c) : WriteBegins(c, dest[c], f)
      BY <1>9 DEF ReadAppFrame
    <3>2. f \in Msg
      BY FrameType
    <3>3. dest[c] \in Conns /\ UNCHANGED hs /\ hpc[c] = "read"
      BY <1>9 DEF ReadAppFrame, Readable, FrameOK, finding
    <3> QED
      BY <3>1, <3>2, <3>3, WriteBeginsType
  <2> QED
    BY <1>9, <2>1, <2>2, <2>3, Unchanged DEF ReadAppFrame, TypeInv, TypeOK
<1>10. ASSUME NEW c \in AppConns, ReadAppDropped(c) PROVE TypeInv'
  <2>1. FrameOK'
    BY <1>10 DEF ReadAppDropped, NextFrames, Counted, FrameOK, frame
  <2>2. PcOK'
    BY <1>10 DEF ReadAppDropped, PcOK, HandlerPC, TickerPC
  <2>3. HandlerOK'
    BY <1>10 DEF ReadAppDropped, Readable, PcOK, HandlerOK, finding, frame
  <2> QED
    BY <1>10, <2>1, <2>2, <2>3, Unchanged DEF ReadAppDropped, TypeInv, TypeOK
<1>11. ASSUME NEW c \in AppConns, ReadAppPing(c) PROVE TypeInv'
  <2>1. FrameOK'
    BY <1>11 DEF ReadAppPing, Msg, WriteBegins, WriteReturns, FrameOK, frame
  <2>2. PcOK'
    BY <1>11 DEF ReadAppPing, WriteBegins, WriteReturns, PcOK, HandlerPC,
       TickerPC
  <2>3. HandlerOK'
    BY <1>11 DEF ReadAppPing, Readable, WriteBegins, WriteReturns, Msg,
       FrameOK, PcOK, HandlerOK, finding, frame
  <2> QED
    BY <1>11, <2>1, <2>2, <2>3, Unchanged DEF ReadAppPing, TypeInv, TypeOK
<1>12. ASSUME NEW a \in AgentConns, BroadcastLock(a) PROVE TypeInv'
  <2>1. MutexesOK'
    BY <1>12 DEF BroadcastLock, Lock, MutexesOK, mutexes
  <2>2. FrameOK'
    BY <1>12 DEF BroadcastLock, RegistryOK, HandlerOK, FrameOK, frame
  <2>3. PcOK'
    BY <1>12 DEF BroadcastLock, PcOK, HandlerPC, TickerPC
  <2>4. HandlerOK'
    BY <1>12 DEF BroadcastLock, PcOK, HandlerOK, finding, frame
  <2> QED
    BY <1>12, <2>1, <2>2, <2>3, <2>4, Unchanged DEF BroadcastLock, TypeInv,
       TypeOK
<1>13. ASSUME NEW a \in AgentConns, BroadcastNext(a) PROVE TypeInv'
  <2>1. FrameOK'
    BY <1>13 DEF BroadcastNext, WriteBegins, WriteReturns, FrameOK, frame
  <2>2. PcOK'
    BY <1>13 DEF BroadcastNext, WriteBegins, WriteReturns, PcOK, HandlerPC,
       TickerPC
  <2>3. HandlerOK'
    BY <1>13 DEF BroadcastNext, WriteBegins, WriteReturns, FrameOK, PcOK,
       HandlerOK, finding, frame
  <2> QED
    BY <1>13, <2>1, <2>2, <2>3, Unchanged DEF BroadcastNext, TypeInv, TypeOK
<1>14. ASSUME NEW a \in AgentConns, BroadcastUnlock(a) PROVE TypeInv'
  <2>1. MutexesOK'
    BY <1>14 DEF BroadcastUnlock, Unlock, MutexesOK, mutexes
  <2>2. FrameOK'
    BY <1>14 DEF BroadcastUnlock, FrameOK, frame
  <2>3. PcOK'
    BY <1>14 DEF BroadcastUnlock, PcOK, HandlerPC, TickerPC
  <2>4. HandlerOK'
    BY <1>14 DEF BroadcastUnlock, FrameOK, PcOK, HandlerOK, finding, frame
  <2> QED
    BY <1>14, <2>1, <2>2, <2>3, <2>4, Unchanged DEF BroadcastUnlock, TypeInv,
       TypeOK
<1>15. ASSUME NEW c \in Conns, SendQueued(c) PROVE TypeInv'
  <2>1. WritingOK'
    <3>1. dest[c] \in Conns /\ msg[c] \in Msg
      BY <1>15 DEF SendQueued, HandlerOK
    <3>2. chan[dest[c]] \in Seq(Msg) /\ Len(chan[dest[c]]) < MsgCap
      BY <1>15, <3>1 DEF WritingOK, SendQueued, HasRoom
    <3>3. /\ Append(chan[dest[c]], msg[c]) \in Seq(Msg)
          /\ Len(Append(chan[dest[c]], msg[c])) <= MsgCap
      BY <3>1, <3>2, RelayAssumption
    <3>4. /\ chan' = [chan EXCEPT ![dest[c]] = Append(@, msg[c])]
          /\ UNCHANGED <<wpc, got>>
      BY <1>15 DEF SendQueued
    <3> QED
      BY <3>3, <3>4 DEF WritingOK
  <2>2. FrameOK'
    BY <1>15 DEF SendQueued, WriteReturns, FrameOK, frame
  <2>3. PcOK'
    BY <1>15 DEF SendQueued, WriteReturns, PcOK, HandlerPC, TickerPC
  <2>4. HandlerOK'
    BY <1>15 DEF SendQueued, WriteReturns, FrameOK, PcOK, HandlerOK, finding,
       frame
  <2> QED
    BY <1>15, <2>1, <2>2, <2>3, <2>4, Unchanged DEF SendQueued, TypeInv,
       TypeOK
<1>16. ASSUME NEW c \in Conns, SendDropped(c) PROVE TypeInv'
  <2>1. FrameOK'
    BY <1>16 DEF SendDropped, WriteReturns, FrameOK, frame
  <2>2. PcOK'
    BY <1>16 DEF SendDropped, WriteReturns, PcOK, HandlerPC, TickerPC
  <2>3. HandlerOK'
    BY <1>16 DEF SendDropped, WriteReturns, FrameOK, PcOK, HandlerOK, finding,
       frame
  <2> QED
    BY <1>16, <2>1, <2>2, <2>3, Unchanged DEF SendDropped, TypeInv, TypeOK
<1>17. ASSUME NEW c \in Conns, SendPanics(c) PROVE TypeInv'
  <2>1. SocketOK'
    BY <1>17 DEF SendPanics, SocketOK, socket
  <2>2. PcOK'
    BY <1>17 DEF SendPanics, PcOK, HandlerPC, TickerPC
  <2>3. HandlerOK'
    BY <1>17 DEF SendPanics, PcOK, HandlerOK, finding, frame
  <2> QED
    BY <1>17, <2>1, <2>2, <2>3, Unchanged DEF SendPanics, TypeInv, TypeOK
<1>18. ASSUME NEW a \in AgentConns, HandlerLocksEngine(a) PROVE TypeInv'
  <2>1. MutexesOK'
    BY <1>18 DEF HandlerLocksEngine, MutexesOK, mutexes
  <2>2. PcOK'
    BY <1>18 DEF HandlerLocksEngine, PcOK, HandlerPC, TickerPC
  <2>3. HandlerOK'
    BY <1>18 DEF HandlerLocksEngine, PcOK, HandlerOK, finding, frame
  <2> QED
    BY <1>18, <2>1, <2>2, <2>3, Unchanged DEF HandlerLocksEngine, TypeInv,
       TypeOK
<1>19. ASSUME NEW a \in AgentConns, HandlerCleansAgent(a) PROVE TypeInv'
  <2>1. RegistryOK'
    BY <1>19, EndSessionType DEF HandlerCleansAgent
  <2>2. MutexesOK'
    BY <1>19 DEF HandlerCleansAgent, EngineUnlock, MutexesOK, mutexes
  <2>3. SocketOK'
    BY <1>19 DEF HandlerCleansAgent, EndSession, SocketOK, socket
  <2>4. FindingOK'
    BY <1>19 DEF HandlerCleansAgent, FindingOK, finding
  <2>5. PcOK'
    BY <1>19 DEF HandlerCleansAgent, PcOK, HandlerPC, TickerPC
  <2>6. HandlerOK'
    BY <1>19 DEF HandlerCleansAgent, PcOK, HandlerOK, finding, frame
  <2> QED
    BY <1>19, <2>1, <2>2, <2>3, <2>4, <2>5, <2>6, Unchanged DEF
       HandlerCleansAgent, TypeInv, TypeOK
<1>20. ASSUME NEW a \in AgentConns, TickerLocksEngine(a) PROVE TypeInv'
  <2>1. MutexesOK'
    BY <1>20 DEF TickerLocksEngine, MutexesOK, mutexes
  <2>2. PcOK'
    BY <1>20 DEF TickerLocksEngine, PcOK, HandlerPC, TickerPC
  <2>3. HandlerOK'
    BY <1>20 DEF TickerLocksEngine, HandlerOK, finding, frame
  <2> QED
    BY <1>20, <2>1, <2>2, <2>3, Unchanged DEF TickerLocksEngine, TypeInv,
       TypeOK
<1>21. ASSUME NEW a \in AgentConns, TickerCleansAgent(a) PROVE TypeInv'
  <2>1. RegistryOK'
    BY <1>21, EndSessionType DEF TickerCleansAgent
  <2>2. MutexesOK'
    BY <1>21 DEF TickerCleansAgent, EngineUnlock, MutexesOK, mutexes
  <2>3. SocketOK'
    BY <1>21 DEF TickerCleansAgent, EndSession, SocketOK, socket
  <2>4. PcOK'
    BY <1>21 DEF TickerCleansAgent, PcOK, HandlerPC, TickerPC
  <2>5. HandlerOK'
    BY <1>21 DEF TickerCleansAgent, HandlerOK, finding, frame
  <2> QED
    BY <1>21, <2>1, <2>2, <2>3, <2>4, <2>5, Unchanged DEF TickerCleansAgent,
       TypeInv, TypeOK
<1>22. ASSUME NEW c \in AppConns, HandlerLooksUp(c) PROVE TypeInv'
  <2>1. FindingOK'
    BY <1>22 DEF HandlerLooksUp, RegistryOK, FindingOK, finding
  <2>2. FrameOK'
    BY <1>22 DEF HandlerLooksUp, FrameOK, frame
  <2>3. PcOK'
    BY <1>22 DEF HandlerLooksUp, PcOK, HandlerPC, TickerPC
  <2>4. HandlerOK'
    BY <1>22 DEF HandlerLooksUp, RegistryOK, FindingOK, PcOK, HandlerOK,
       finding, frame
  <2> QED
    BY <1>22, <2>1, <2>2, <2>3, <2>4, Unchanged DEF HandlerLooksUp, TypeInv,
       TypeOK
<1>23. ASSUME NEW c \in AppConns, HandlerCleansApp(c) PROVE TypeInv'
  <2>1. RegistryOK'
    <3>1. hs[c] \in Session
      BY <1>23 DEF HandlerCleansApp, HandlerOK
    <3> QED
      BY <1>23, <3>1, LeaveSessionType DEF HandlerCleansApp
  <2>2. FindingOK'
    BY <1>23 DEF HandlerCleansApp, FindingOK, finding
  <2>3. PcOK'
    BY <1>23 DEF HandlerCleansApp, PcOK, HandlerPC, TickerPC
  <2>4. HandlerOK'
    BY <1>23 DEF HandlerCleansApp, PcOK, HandlerOK, finding, frame
  <2> QED
    BY <1>23, <2>1, <2>2, <2>3, <2>4, Unchanged DEF HandlerCleansApp, TypeInv,
       TypeOK
<1>24. ASSUME NEW c \in AppConns, TickerLooksUp(c) PROVE TypeInv'
  <2>1. FindingOK'
    BY <1>24 DEF TickerLooksUp, RegistryOK, FindingOK, finding
  <2>2. PcOK'
    BY <1>24 DEF TickerLooksUp, PcOK, HandlerPC, TickerPC
  <2>3. HandlerOK'
    BY <1>24 DEF TickerLooksUp, HandlerOK, finding, frame
  <2> QED
    BY <1>24, <2>1, <2>2, <2>3, Unchanged DEF TickerLooksUp, TypeInv, TypeOK
<1>25. ASSUME NEW c \in AppConns, TickerCleansApp(c) PROVE TypeInv'
  <2>1. RegistryOK'
    <3>1. CASE ts[c] \in Session
      BY <1>25, <3>1, LeaveSessionType DEF TickerCleansApp
    <3>2. CASE ts[c] \notin Session
      BY <1>25, <3>2 DEF TickerCleansApp, LeaveSession, RegistryOK
    <3> QED
      BY <3>1, <3>2
  <2>2. FindingOK'
    BY <1>25 DEF TickerCleansApp, FindingOK, finding
  <2>3. PcOK'
    BY <1>25 DEF TickerCleansApp, PcOK, HandlerPC, TickerPC
  <2>4. HandlerOK'
    BY <1>25 DEF TickerCleansApp, HandlerOK, finding, frame
  <2> QED
    BY <1>25, <2>1, <2>2, <2>3, <2>4, Unchanged DEF TickerCleansApp, TypeInv,
       TypeOK
<1>26. ASSUME NEW c \in Conns, TickerStops(c) PROVE TypeInv'
  <2>1. PcOK'
    BY <1>26 DEF TickerStops, PcOK, HandlerPC, TickerPC
  <2>2. HandlerOK'
    BY <1>26 DEF TickerStops, HandlerOK, finding, frame
  <2> QED
    BY <1>26, <2>1, <2>2, Unchanged DEF TickerStops, TypeInv, TypeOK
<1>27. ASSUME NEW c \in Conns, WriterWrites(c) PROVE TypeInv'
  <2>1. WritingOK'
    <3>1. chan[c] \in Seq(Msg) /\ Len(chan[c]) <= MsgCap /\ chan[c] # <<>>
      BY <1>27 DEF WritingOK, WriterWrites
    <3>2. /\ Tail(chan[c]) \in Seq(Msg) /\ Len(Tail(chan[c])) <= MsgCap
          /\ Head(chan[c]) \in Msg
      BY <3>1, RelayAssumption
    <3>3. got' \in [Conns -> [Conns -> Nat]]
      BY <1>27, <3>2 DEF WriterWrites, WritingOK, Msg
    <3>4. chan' = [chan EXCEPT ![c] = Tail(@)] /\ UNCHANGED wpc
      BY <1>27 DEF WriterWrites
    <3> QED
      BY <3>2, <3>3, <3>4 DEF WritingOK
  <2>2. HandlerOK'
    BY <1>27 DEF WriterWrites, HandlerOK, finding, frame
  <2> QED
    BY <1>27, <2>1, <2>2, Unchanged DEF WriterWrites, TypeInv, TypeOK
<1>28. ASSUME NEW c \in Conns, WriterFails(c) PROVE TypeInv'
  <2>1. WritingOK'
    <3>1. chan[c] \in Seq(Msg) /\ Len(chan[c]) <= MsgCap /\ chan[c] # <<>>
      BY <1>28 DEF WritingOK, WriterFails
    <3>2. Tail(chan[c]) \in Seq(Msg) /\ Len(Tail(chan[c])) <= MsgCap
      BY <3>1, RelayAssumption
    <3> QED
      BY <1>28, <3>2 DEF WriterFails, WritingOK, WriterPC
  <2>2. HandlerOK'
    BY <1>28 DEF WriterFails, HandlerOK, finding, frame
  <2> QED
    BY <1>28, <2>1, <2>2, Unchanged DEF WriterFails, TypeInv, TypeOK
<1>29. ASSUME NEW c \in Conns, WriterEnds(c) PROVE TypeInv'
  <2>1. WritingOK'
    BY <1>29 DEF WriterEnds, WriterPC, WritingOK, writing
  <2>2. HandlerOK'
    BY <1>29 DEF WriterEnds, HandlerOK, finding, frame
  <2> QED
    BY <1>29, <2>1, <2>2, Unchanged DEF WriterEnds, TypeInv, TypeOK
<1>30. ASSUME NEW c \in Conns, Network(c) PROVE TypeInv'
  <2>1. SocketOK'
    BY <1>30 DEF Network, PeerStalls, PeerLeaves, ReadDeadline, NetAt, SocketOK
  <2>2. HandlerOK'
    BY <1>30 DEF Network, PeerStalls, PeerLeaves, ReadDeadline, NetAt, HandlerOK,
       finding, frame
  <2> QED
    BY <1>30, <2>1, <2>2, Unchanged
    DEF Network, PeerStalls, PeerLeaves, ReadDeadline, NetAt, TypeInv, TypeOK
<1>31. CASE UNCHANGED vars
  <2>1. HandlerOK'
    BY <1>31 DEF vars, HandlerOK, finding, frame
  <2>2. TypeOK'
    BY <1>31, Unchanged DEF vars, writing, TypeOK
  <2> QED
    BY <2>1, <2>2 DEF TypeInv
<1> QED
  BY <1>1, <1>2, <1>3, <1>4, <1>5, <1>6, <1>7, <1>8, <1>9, <1>10, <1>11,
     <1>12, <1>13, <1>14, <1>15, <1>16, <1>17, <1>18, <1>19, <1>20, <1>21, <1>22,
     <1>23, <1>24, <1>25, <1>26, <1>27, <1>28, <1>29, <1>30, <1>31 DEF Next,
     AgentPeer, AppPeer, Handler, AgentHandler, AppHandler, Ticker, WriteLoop

\* Every variable keeps the type of the Go value it stands for.
THEOREM TypeCorrect == Spec => []TypeOK
<1>1. TypeInv => TypeOK
  BY DEF TypeInv
<1> QED
  BY InitType, NextType, <1>1, PTL DEF Spec
=============================================================================
