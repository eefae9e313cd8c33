-------------------------------- MODULE Relay --------------------------------
(***************************************************************************)
(* The relay engine of the backend, server/backend/pkg/relay/relay.go.     *)
(*                                                                         *)
(* One agent per machine and any number of apps hold a websocket to the    *)
(* engine; the engine copies every frame of the agent to all the apps of   *)
(* its session and every frame of an app to the agent.  Three goroutines   *)
(* serve a connection c:                                                   *)
(*                                                                         *)
(*   hpc[c]  the handler (RegisterAgent/proxyAgent, ConnectApp/proxyApp),  *)
(*   tpc[c]  the keep-alive ticker that pings every two seconds,           *)
(*   wpc[c]  the write loop that drains the connection's MsgChan.          *)
(*                                                                         *)
(* A step is what a goroutine does between two points where another one    *)
(* can be seen: a critical section that cannot block for ever is one step, *)
(* and a mutex is a variable only where it is held across steps.  A write  *)
(* to the network ends within its deadline, so it is one step.             *)
(*                                                                         *)
(* A RelaySession is named by the agent connection whose registration      *)
(* allocated it, so sessions are values of AgentConns.  A mutant, F_Xyz,   *)
(* stands before the definition F it is a faulty version of.               *)
(***************************************************************************)
EXTENDS Integers, Sequences, FiniteSets

CONSTANTS
    Clients,     \* the client ids of machines, keys of RelayEngine.Sessions
    AgentConns,  \* the websockets agents open, in any order
    AppConns,    \* the websockets apps open, in any order
    AppIDs,      \* remote addresses, keys of RelaySession.AppConns
    ClientOf,    \* the client id a connection was opened for
    AppID,       \* the remote address of an app's connection
    MsgCap,      \* the capacity of MsgChan (2000 for agents, 1000 for apps)
    Frames,      \* bound: how many binary frames the peer of a connection sends
    Kinds,       \* the kinds of frames the peer of a connection sends
    Faults,      \* how the network of a connection may fail
    NoConn       \* nil

Conns == AgentConns \cup AppConns

ASSUME RelayAssumption ==
    /\ AgentConns \cap AppConns = {}
    /\ NoConn \notin Conns
    /\ ClientOf \in [Conns -> Clients]
    /\ AppID \in [AppConns -> AppIDs]
    /\ MsgCap \in Nat \ {0}
    /\ Frames \in [Conns -> Nat]
    /\ Kinds \in [Conns -> SUBSET {"binary", "text", "ping"}]
    /\ Faults \in [Conns -> SUBSET {"stall", "leave"}]

VARIABLES
    sessions,   \* RelayEngine.Sessions
    agentConn,  \* RelaySession.AgentConn
    apps,       \* the values of RelaySession.AppConns; the key of c is AppID[c]
    active,     \* RelaySession.Active
    jobs,       \* how many database tasks a connection's cleanup has started
    engineMu,   \* RelayEngine.Mutex is held
    sessMu,     \* RelaySession.Mutex is held
    chan,       \* SafeConn.MsgChan
    closed,     \* SafeConn.closed, and MsgChan is closed
    net,        \* the websocket: "up", "stalled" (writes fail) or "down"
    hpc, tpc, wpc,
    home,       \* the session RegisterAgent or ConnectApp found
    hs,         \* the session variable of the handler's current function
    ts,         \* the session variable of the ticker's cleanupApp
    dest,       \* the connection the handler writes to (proxyApp: the snapshot)
    msg,        \* the frame the handler holds
    todo,       \* the apps a broadcast has still to visit
    count,      \* how many binary frames the handler has read
    got         \* the number of the last binary frame of each source written out

registry == <<sessions, agentConn, apps, active, jobs>>
mutexes  == <<engineMu, sessMu>>
socket   == <<closed, net>>
writing  == <<chan, wpc, got>>
finding  == <<home, hs, ts>>
frame    == <<dest, msg, todo, count>>
vars     == <<registry, mutexes, socket, writing, finding, frame, hpc, tpc>>

NoMsg   == [src |-> NoConn, kind |-> "none", n |-> 0]
Msg     == [src : Conns, kind : {"binary", "text"}, n : Nat]
Session == AgentConns

HandlerPC == {"idle", "install", "lookup", "check", "read", "lock", "bcast",
              "send", "locked", "leaving", "done", "panicked"}
TickerPC  == {"off", "tick", "locked", "leaving", "done"}
WriterPC  == {"off", "ready", "done"}

RegistryOK ==
    /\ sessions \in [Clients -> Session \cup {NoConn}]
    /\ agentConn \in [Session -> AgentConns \cup {NoConn}]
    /\ apps \in [Session -> SUBSET AppConns]
    /\ active \in [Session -> BOOLEAN]
    /\ jobs \in [Conns -> Nat]
MutexesOK ==
    /\ engineMu \in BOOLEAN
    /\ sessMu \in [Session -> BOOLEAN]
SocketOK ==
    /\ closed \in [Conns -> BOOLEAN]
    /\ net \in [Conns -> {"up", "stalled", "down"}]
WritingOK ==
    /\ chan \in [Conns -> Seq(Msg)]
    /\ \A c \in Conns : Len(chan[c]) <= MsgCap
    /\ wpc \in [Conns -> WriterPC]
    /\ got \in [Conns -> [Conns -> Nat]]
FindingOK ==
    /\ home \in [Conns -> Session \cup {NoConn}]
    /\ hs \in [Conns -> Session \cup {NoConn}]
    /\ ts \in [Conns -> Session \cup {NoConn}]
FrameOK ==
    /\ dest \in [Conns -> Conns \cup {NoConn}]
    /\ msg \in [Conns -> Msg \cup {NoMsg}]
    /\ todo \in [Conns -> SUBSET AppConns]
    /\ count \in [Conns -> Nat]
PcOK ==
    /\ hpc \in [Conns -> HandlerPC]
    /\ tpc \in [Conns -> TickerPC]

TypeOK == /\ RegistryOK /\ MutexesOK /\ SocketOK /\ WritingOK
          /\ FindingOK /\ FrameOK /\ PcOK

Init ==
    /\ sessions = [m \in Clients |-> NoConn]
    /\ agentConn = [s \in Session |-> NoConn]
    /\ apps = [s \in Session |-> {}]
    /\ active = [s \in Session |-> FALSE]
    /\ jobs = [c \in Conns |-> 0]
    /\ engineMu = FALSE
    /\ sessMu = [s \in Session |-> FALSE]
    /\ chan = [c \in Conns |-> <<>>]
    /\ closed = [c \in Conns |-> FALSE]
    /\ net = [c \in Conns |-> "up"]
    /\ hpc = [c \in Conns |-> "idle"]
    /\ tpc = [c \in Conns |-> "off"]
    /\ wpc = [c \in Conns |-> "off"]
    /\ home = [c \in Conns |-> NoConn]
    /\ hs = [c \in Conns |-> NoConn]
    /\ ts = [c \in Conns |-> NoConn]
    /\ dest = [c \in Conns |-> NoConn]
    /\ msg = [c \in Conns |-> NoMsg]
    /\ todo = [c \in Conns |-> {}]
    /\ count = [c \in Conns |-> 0]
    /\ got = [c \in Conns |-> [d \in Conns |-> 0]]

-----------------------------------------------------------------------------
(* Helpers.                                                                *)

\* session.AgentConn == safeConn, session.AppConns[appID] == safeConn
Registered(c, s) == IF c \in AgentConns THEN agentConn[s] = c ELSE c \in apps[s]

\* The mutex of a session is free for a critical section; taking and giving
\* back the mutexes that are held across steps.
Free_Always(s) == TRUE
Free(s)        == ~sessMu[s]
Lock(s)        == sessMu' = [sessMu EXCEPT ![s] = TRUE]
Unlock_Forgotten(s) == UNCHANGED sessMu
Unlock(s)      == sessMu' = [sessMu EXCEPT ![s] = FALSE]
EngineUnlock_Forgotten == UNCHANGED engineMu
EngineUnlock   == engineMu' = FALSE

\* SafeConn.Close on every member of S: the flag with the channel, the network.
Close(S)   == closed' = [c \in Conns |-> closed[c] \/ c \in S]
NetDown(S) == net' = [c \in Conns |-> IF c \in S THEN "down" ELSE net[c]]

HandlerAt(c, pc) == hpc' = [hpc EXCEPT ![c] = pc]
TickerAt(c, pc)  == tpc' = [tpc EXCEPT ![c] = pc]
Return(c)        == HandlerAt(c, "done") /\ hs' = [hs EXCEPT ![c] = NoConn]

-----------------------------------------------------------------------------
(* RegisterAgent and ConnectApp.                                           *)

RegisterLookup(a) ==
    /\ hpc[a] = "idle" /\ ~engineMu
    /\ LET m == ClientOf[a]
           s == IF sessions[m] = NoConn THEN a ELSE sessions[m]
       IN  /\ sessions' = [sessions EXCEPT ![m] = s]
           /\ home' = [home EXCEPT ![a] = s]
           /\ hs' = [hs EXCEPT ![a] = s]
    /\ HandlerAt(a, "install")
    /\ UNCHANGED <<agentConn, apps, active, jobs, mutexes, socket, writing, ts,
                   frame, tpc>>

\* The write loop and the ticker start here.
Start(c) == /\ HandlerAt(c, "lookup")
            /\ TickerAt(c, "tick")
            /\ wpc' = [wpc EXCEPT ![c] = "ready"]

RegisterInstall(a) ==
    /\ hpc[a] = "install" /\ Free(hs[a])
    /\ LET old == {agentConn[hs[a]]} \ {NoConn} IN Close(old) /\ NetDown(old)
    /\ agentConn' = [agentConn EXCEPT ![hs[a]] = a]
    /\ Start(a)
    /\ UNCHANGED <<sessions, apps, active, jobs, mutexes, chan, got, finding, frame>>

ConnectRefused(c) ==
    /\ hpc[c] = "idle" /\ ~engineMu
    /\ sessions[ClientOf[c]] = NoConn
    /\ Return(c)
    /\ NetDown({c})
    /\ UNCHANGED <<registry, mutexes, closed, writing, home, ts, frame, tpc>>

ConnectLookup(c) ==
    /\ hpc[c] = "idle" /\ ~engineMu
    /\ sessions[ClientOf[c]] # NoConn
    /\ home' = [home EXCEPT ![c] = sessions[ClientOf[c]]]
    /\ hs' = [hs EXCEPT ![c] = sessions[ClientOf[c]]]
    /\ HandlerAt(c, "install")
    /\ UNCHANGED <<registry, mutexes, socket, writing, ts, frame, tpc>>

\* The app that holds the remote address of c in session s.
Previous_Kept(c, s) == {}
Previous(c, s)      == {d \in apps[s] : AppID[d] = AppID[c]}

ConnectInstall(c) ==
    /\ hpc[c] = "install" /\ Free(hs[c])
    /\ LET s   == hs[c]
           old == Previous(c, s)
       IN  /\ Close(old) /\ NetDown(old)
           /\ apps' = [apps EXCEPT ![s] = (@ \ old) \cup {c}]
           /\ active' = [active EXCEPT ![s] = TRUE]
    /\ Start(c)
    /\ UNCHANGED <<sessions, agentConn, jobs, mutexes, chan, got, finding, frame>>

-----------------------------------------------------------------------------
(* proxyAgent and proxyApp.                                                *)

\* The websocket library closes a connection when its handler returns.
ProxyLookup(c) ==
    /\ hpc[c] = "lookup" /\ ~engineMu
    /\ LET s == sessions[ClientOf[c]] IN
       \/ s = NoConn /\ Return(c) /\ NetDown({c})
       \/ /\ s # NoConn
          /\ hs' = [hs EXCEPT ![c] = s]
          /\ HandlerAt(c, "check")
          /\ UNCHANGED net
    /\ UNCHANGED <<registry, mutexes, closed, writing, home, ts, frame, tpc>>

\* Is this still the active connection?  An app's handler also keeps a copy of
\* session.AgentConn for the next frame.
StillCurrent_Trusting(c) == TRUE
StillCurrent(c)          == Registered(c, hs[c])

ProxyCheck(c) ==
    /\ hpc[c] = "check" /\ Free(hs[c])
    /\ \/ /\ StillCurrent(c)
          /\ HandlerAt(c, "read")
          /\ dest' = [dest EXCEPT ![c] = IF c \in AppConns THEN agentConn[hs[c]]
                                                           ELSE NoConn]
          /\ UNCHANGED <<net, hs>>
       \/ ~StillCurrent(c) /\ Return(c) /\ NetDown({c}) /\ UNCHANGED dest
    /\ UNCHANGED <<registry, mutexes, closed, writing, home, ts, msg, todo, count,
                   tpc>>

\* The frames the peer of c may send next: binary ones are numbered, text
\* frames are all alike.
NextFrames(c) ==
    {f \in [src : {c}, kind : Kinds[c] \ {"ping"}, n : {0, count[c] + 1}] :
        IF f.kind = "binary" THEN count[c] < Frames[c] /\ f.n = count[c] + 1
                             ELSE f.n = 0}
Counted(c, f) == count' = IF f.kind = "binary" THEN [count EXCEPT ![c] = f.n]
                                               ELSE count
Readable(c)   == hpc[c] = "read" /\ net[c] # "down"

\* SafeConn.WriteMessage(d, f) up to its select, called by the handler of c:
\* closed is read under the mutex of d, which is then released.  After the
\* call an agent's handler goes on with its broadcast and keeps the frame, an
\* app's handler goes on with its loop.
WriteReturns(c, f) ==
    /\ HandlerAt(c, IF c \in AgentConns THEN "bcast" ELSE "check")
    /\ dest' = [dest EXCEPT ![c] = NoConn]
    /\ msg' = [msg EXCEPT ![c] = IF c \in AgentConns THEN f ELSE NoMsg]
WriteBegins(c, d, f) ==
    \/ closed[d] /\ WriteReturns(c, f)
    \/ /\ ~closed[d]
       /\ HandlerAt(c, "send")
       /\ dest' = [dest EXCEPT ![c] = d]
       /\ msg' = [msg EXCEPT ![c] = f]

ReadAgentFrame(a) ==
    /\ Readable(a)
    /\ \E f \in NextFrames(a) : Counted(a, f) /\ msg' = [msg EXCEPT ![a] = f]
    /\ HandlerAt(a, "lock")
    /\ UNCHANGED <<registry, mutexes, socket, writing, finding, dest, todo, tpc>>

ReadAppFrame(c) ==
    /\ Readable(c) /\ dest[c] # NoConn
    /\ \E f \in NextFrames(c) : Counted(c, f) /\ WriteBegins(c, dest[c], f)
    /\ UNCHANGED <<registry, mutexes, socket, writing, finding, todo, tpc>>

\* A frame read while the snapshot is nil is logged and dropped.
ReadAppDropped(c) ==
    /\ Readable(c) /\ dest[c] = NoConn
    /\ \E f \in NextFrames(c) : Counted(c, f)
    /\ HandlerAt(c, "check")
    /\ UNCHANGED <<registry, mutexes, socket, writing, finding, dest, msg, todo, tpc>>

\* A JSON ping is answered on the app's own connection, outside the mutex of
\* the session.
ReadAppPing(c) ==
    /\ Readable(c) /\ "ping" \in Kinds[c]
    /\ WriteBegins(c, c, [src |-> c, kind |-> "text", n |-> 0])
    /\ UNCHANGED <<registry, mutexes, socket, writing, finding, todo, count, tpc>>

\* The broadcast holds the mutex of the session from its lock to its unlock.
BroadcastLock(a) ==
    /\ hpc[a] = "lock" /\ Free(hs[a])
    /\ Lock(hs[a])
    /\ todo' = [todo EXCEPT ![a] = apps[hs[a]]]
    /\ HandlerAt(a, "bcast")
    /\ UNCHANGED <<registry, engineMu, socket, writing, finding, dest, msg, count,
                   tpc>>

BroadcastNext(a) ==
    /\ hpc[a] = "bcast"
    /\ \E c \in todo[a] : /\ WriteBegins(a, c, msg[a])
                          /\ todo' = [todo EXCEPT ![a] = @ \ {c}]
    /\ UNCHANGED <<registry, mutexes, socket, writing, finding, count, tpc>>

BroadcastUnlock(a) ==
    /\ hpc[a] = "bcast" /\ todo[a] = {}
    /\ Unlock(hs[a])
    /\ msg' = [msg EXCEPT ![a] = NoMsg]
    /\ HandlerAt(a, "check")
    /\ UNCHANGED <<registry, engineMu, socket, writing, finding, dest, todo, count,
                   tpc>>

-----------------------------------------------------------------------------
(* SafeConn.WriteMessage from its select on.                               *)

HasRoom_OffByOne(d) == Len(chan[d]) <= MsgCap
HasRoom(d)          == Len(chan[d]) < MsgCap
Droppable_Any(f)    == TRUE
Droppable(f)        == f.kind = "text"

\* A binary frame waits for room in MsgChan: no action of the handler is
\* enabled while the channel is full and open.
SendQueued(c) ==
    /\ hpc[c] = "send" /\ ~closed[dest[c]]
    /\ HasRoom(dest[c])
    /\ chan' = [chan EXCEPT ![dest[c]] = Append(@, msg[c])]
    /\ WriteReturns(c, msg[c])
    /\ UNCHANGED <<registry, mutexes, socket, wpc, got, finding, todo, count, tpc>>

\* A text frame that finds MsgChan full is dropped with an error.
SendDropped(c) ==
    /\ hpc[c] = "send" /\ ~closed[dest[c]]
    /\ ~HasRoom(dest[c])
    /\ Droppable(msg[c])
    /\ WriteReturns(c, msg[c])
    /\ UNCHANGED <<registry, mutexes, socket, writing, finding, todo, count, tpc>>

\* A send on a closed channel panics, the waiting send of a binary frame too.
\* The websocket library recovers the panic of a handler and closes its
\* connection; mutexes stay as they are and no cleanup runs.
SendPanics(c) ==
    /\ hpc[c] = "send" /\ closed[dest[c]]
    /\ HandlerAt(c, "panicked")
    /\ NetDown({c})
    /\ UNCHANGED <<registry, mutexes, closed, writing, finding, frame, tpc>>

-----------------------------------------------------------------------------
(* cleanupAgent and cleanupApp, called by the handler on a read error and  *)
(* by the ticker when a ping fails.  A network that failed never recovers, *)
(* so noticing the failure and the first critical section of the cleanup   *)
(* are one step.                                                           *)

ReadFails(c) == hpc[c] = "read" /\ net[c] = "down"
PingFails(c) == /\ tpc[c] = "tick" /\ Free(home[c])
                /\ Registered(c, home[c])
                /\ net[c] # "up"

\* session.AgentConn == failedConn; delete(e.Sessions, clientID)
IsCurrentAgent_Any(a, s) == TRUE
IsCurrentAgent(a, s)     == agentConn[s] = a
DeleteSession_Forgotten(m) == UNCHANGED sessions
DeleteSession(m) == sessions' = [sessions EXCEPT ![m] = NoConn]

\* The body of cleanupAgent under both mutexes, a being the failed connection,
\* and the apps it closes.
EndSession(a) ==
    LET s == sessions[ClientOf[a]] IN
    \/ /\ s # NoConn /\ Free(s)
       /\ IsCurrentAgent(a, s)
       /\ Close(apps[s])
       /\ apps' = [apps EXCEPT ![s] = {}]
       /\ agentConn' = [agentConn EXCEPT ![s] = NoConn]
       /\ active' = [active EXCEPT ![s] = FALSE]
       /\ DeleteSession(ClientOf[a])
       /\ jobs' = [jobs EXCEPT ![a] = @ + 1]
    \/ /\ s # NoConn => Free(s) /\ ~IsCurrentAgent(a, s)
       /\ UNCHANGED <<registry, closed>>
Orphans(a) ==
    LET s == sessions[ClientOf[a]]
    IN  IF s # NoConn /\ IsCurrentAgent(a, s) THEN apps[s] ELSE {}

\* cleanupAgent takes the engine's mutex and holds it to its end.
HandlerLocksEngine(a) ==
    /\ ReadFails(a) /\ ~engineMu
    /\ engineMu' = TRUE
    /\ HandlerAt(a, "locked")
    /\ UNCHANGED <<registry, sessMu, socket, writing, finding, frame, tpc>>

HandlerCleansAgent(a) ==
    /\ hpc[a] = "locked"
    /\ EndSession(a)
    /\ NetDown(Orphans(a) \cup {a})
    /\ EngineUnlock
    /\ Return(a)
    /\ UNCHANGED <<sessMu, writing, home, ts, frame, tpc>>

TickerLocksEngine(a) ==
    /\ PingFails(a) /\ ~engineMu
    /\ engineMu' = TRUE
    /\ TickerAt(a, "locked")
    /\ UNCHANGED <<registry, sessMu, socket, writing, finding, frame, hpc>>

TickerCleansAgent(a) ==
    /\ tpc[a] = "locked"
    /\ EndSession(a)
    /\ NetDown(Orphans(a))
    /\ EngineUnlock
    /\ TickerAt(a, "done")
    /\ UNCHANGED <<sessMu, writing, finding, frame, hpc>>

\* c is the last app of s: len(session.AppConns) == 0 once it is deleted.
IsLastApp_TestedFirst(c, s) == apps[s] = {}
IsLastApp(c, s)             == apps[s] = {c}

\* The body of cleanupApp under the mutex of the session s it looked up.
LeaveSession(c, s) ==
    /\ Free(s)
    /\ \/ /\ c \in apps[s]
          /\ apps' = [apps EXCEPT ![s] = @ \ {c}]
          /\ active' = [active EXCEPT ![s] = @ /\ ~IsLastApp(c, s)]
          /\ jobs' = [jobs EXCEPT ![c] = IF IsLastApp(c, s) THEN @ + 1 ELSE @]
       \/ c \notin apps[s] /\ UNCHANGED <<apps, active, jobs>>
    /\ UNCHANGED <<sessions, agentConn>>

\* cleanupApp releases the engine's mutex before it takes the session's.
HandlerLooksUp(c) ==
    /\ ReadFails(c) /\ ~engineMu
    /\ LET s == sessions[ClientOf[c]] IN
       \/ s = NoConn /\ Return(c)
       \/ /\ s # NoConn
          /\ hs' = [hs EXCEPT ![c] = s]
          /\ HandlerAt(c, "leaving")
    /\ dest' = [dest EXCEPT ![c] = NoConn]
    /\ UNCHANGED <<registry, mutexes, socket, writing, home, ts, msg, todo, count,
                   tpc>>

HandlerCleansApp(c) ==
    /\ hpc[c] = "leaving"
    /\ LeaveSession(c, hs[c])
    /\ Return(c)
    /\ UNCHANGED <<mutexes, socket, writing, home, ts, frame, tpc>>

TickerLooksUp(c) ==
    /\ PingFails(c) /\ ~engineMu
    /\ LET s == sessions[ClientOf[c]] IN
       \/ s = NoConn /\ TickerAt(c, "done") /\ UNCHANGED ts
       \/ /\ s # NoConn
          /\ ts' = [ts EXCEPT ![c] = s]
          /\ TickerAt(c, "leaving")
    /\ UNCHANGED <<registry, mutexes, socket, writing, home, hs, frame, hpc>>

TickerCleansApp(c) ==
    /\ tpc[c] = "leaving"
    /\ LeaveSession(c, ts[c])
    /\ TickerAt(c, "done")
    /\ ts' = [ts EXCEPT ![c] = NoConn]
    /\ UNCHANGED <<mutexes, socket, writing, home, hs, frame, hpc>>

\* A ticker that finds its connection replaced or removed stops; a ping that
\* succeeds changes nothing.
TickerStops(c) ==
    /\ tpc[c] = "tick" /\ Free(home[c])
    /\ ~Registered(c, home[c])
    /\ TickerAt(c, "done")
    /\ UNCHANGED <<registry, mutexes, socket, writing, finding, frame, hpc>>

-----------------------------------------------------------------------------
(* StartWriteLoop.                                                         *)

WriterWrites(c) ==
    /\ wpc[c] = "ready" /\ chan[c] # <<>> /\ net[c] = "up"
    /\ LET f == Head(chan[c])
       IN  got' = IF f.kind = "binary"
                  THEN [got EXCEPT ![c] = [@ EXCEPT ![f.src] = f.n]] ELSE got
    /\ chan' = [chan EXCEPT ![c] = Tail(@)]
    /\ UNCHANGED <<registry, mutexes, socket, wpc, finding, frame, hpc, tpc>>

\* The loop returns on a write error; nobody drains MsgChan after that.
WriterFails(c) ==
    /\ wpc[c] = "ready" /\ chan[c] # <<>> /\ net[c] # "up"
    /\ chan' = [chan EXCEPT ![c] = Tail(@)]
    /\ wpc' = [wpc EXCEPT ![c] = "done"]
    /\ UNCHANGED <<registry, mutexes, socket, got, finding, frame, hpc, tpc>>

WriterEnds(c) ==
    /\ wpc[c] = "ready" /\ chan[c] = <<>> /\ closed[c]
    /\ wpc' = [wpc EXCEPT ![c] = "done"]
    /\ UNCHANGED <<registry, mutexes, socket, chan, got, finding, frame, hpc, tpc>>

-----------------------------------------------------------------------------
(* The network and the peers.                                              *)

Serving(c)     == hpc[c] \notin {"idle", "done", "panicked"}
NetAt(c, from, to) ==
    /\ Serving(c) /\ net[c] = from
    /\ net' = [net EXCEPT ![c] = to]
    /\ UNCHANGED <<registry, mutexes, closed, writing, finding, frame, hpc, tpc>>

\* A write deadline expires: a peer that reads nothing still sends.
PeerStalls(c)   == "stall" \in Faults[c] /\ NetAt(c, "up", "stalled")
PeerLeaves(c)   == "leave" \in Faults[c] /\ NetAt(c, "up", "down")
\* No pong for 30 seconds: the read deadline set by the pong handler expires.
ReadDeadline(c) == NetAt(c, "stalled", "down")

-----------------------------------------------------------------------------
AgentHandler(a) ==
    \/ RegisterInstall(a) \/ BroadcastLock(a) \/ BroadcastNext(a)
    \/ BroadcastUnlock(a) \/ HandlerLocksEngine(a) \/ HandlerCleansAgent(a)
AppHandler(c) == ConnectInstall(c) \/ HandlerLooksUp(c) \/ HandlerCleansApp(c)
Handler(c) ==
    \/ ProxyLookup(c) \/ ProxyCheck(c)
    \/ SendQueued(c) \/ SendDropped(c) \/ SendPanics(c)
    \/ c \in AgentConns /\ AgentHandler(c)
    \/ c \in AppConns /\ AppHandler(c)
Ticker(c) ==
    \/ TickerStops(c)
    \/ c \in AgentConns /\ (TickerLocksEngine(c) \/ TickerCleansAgent(c))
    \/ c \in AppConns /\ (TickerLooksUp(c) \/ TickerCleansApp(c))
WriteLoop(c) == WriterWrites(c) \/ WriterFails(c) \/ WriterEnds(c)
Network(c)   == PeerStalls(c) \/ PeerLeaves(c) \/ ReadDeadline(c)

\* What peers decide: to connect and to send.
AgentPeer(a) == RegisterLookup(a) \/ ReadAgentFrame(a)
AppPeer(c)   == \/ ConnectRefused(c) \/ ConnectLookup(c)
                \/ ReadAppFrame(c) \/ ReadAppDropped(c) \/ ReadAppPing(c)

Next ==
    \/ \E a \in AgentConns : AgentPeer(a)
    \/ \E c \in AppConns : AppPeer(c)
    \/ \E c \in Conns : Handler(c) \/ Ticker(c) \/ WriteLoop(c) \/ Network(c)

Spec == Init /\ [][Next]_vars

-----------------------------------------------------------------------------
(* Safety.                                                                 *)

\* The handler has verified the registration and not yet given up.
Relaying(c) == hpc[c] \in {"read", "lock", "bcast", "send"}

\* A healthy connection whose handler relays frames is the one the engine
\* reaches under its client id: neither the gap between the two mutexes of
\* RegisterAgent and ConnectApp nor a replacement nor the end of a session
\* leaves a connection relaying in a session the engine has forgotten.
NoZombie ==
    \A c \in Conns :
        Relaying(c) /\ net[c] = "up" =>
            /\ sessions[ClientOf[c]] = hs[c]
            /\ Registered(c, hs[c])

\* proxyAgent writes to the apps without SafeConn's mutex between the check
\* of closed and the send, but every Close of an app happens under the mutex
\* the broadcast holds: the broadcast never sends on a closed channel, which
\* would leave the mutex of the session locked for ever.
BroadcastNeverPanics == \A a \in AgentConns : hpc[a] # "panicked"

\* The places of a queue that hold binary frames of source d.
Stream(q, d) == {i \in DOMAIN q : q[i].src = d /\ q[i].kind = "binary"}

\* The frames of d in queue q are numbered without a gap, and the first one
\* follows frame g, the last one written out (0 if there was none).
Linked(q, g, d) ==
    \A j \in Stream(q, d) :
        /\ (\A i \in Stream(q, d) : j <= i) => g \in {0, q[j].n - 1}
        /\ \A i \in Stream(q, d) :
              i < j /\ (\A k \in Stream(q, d) : k <= i \/ j <= k)
                  => q[j].n = q[i].n + 1

\* Terminal output and input reach the peer without gaps or reordering for as
\* long as its write loop runs, the frames of a source that it joined late
\* starting anywhere (relay.go:54, backpressure "to prevent ANSI corruption").
NoGap ==
    \A c, d \in Conns : wpc[c] = "ready" => Linked(chan[c], got[c][d], d)

\* A session without an agent is in the engine only while the registration
\* that will give it one is under way, so no app waits on a dead session.
SessionHasAgent ==
    \A m \in Clients :
        sessions[m] # NoConn /\ agentConn[sessions[m]] = NoConn =>
            \E a \in AgentConns : hpc[a] = "install" /\ hs[a] = sessions[m]

\* Active says whether apps are connected, whichever way they left.
ActiveIffApps == \A s \in Session : active[s] <=> apps[s] # {}

\* A connection loses its place only when it failed, when another connection
\* takes the same place, or, for an app, when the agent failed: a late
\* cleanup of a replaced connection never evicts its successor.
EvictionStep ==
    \A s \in Session : \A c \in Conns :
        Registered(c, s) /\ ~Registered(c, s)' =>
            \/ net[c] # "up"
            \/ c \in AgentConns /\ agentConn'[s] # NoConn
            \/ c \in AppConns /\ \E d \in apps'[s] \ apps[s] : AppID[d] = AppID[c]
            \/ c \in AppConns /\ agentConn[s] # NoConn /\ agentConn'[s] = NoConn
               /\ net[agentConn[s]] # "up"
EvictionJustified == [][EvictionStep]_vars

\* The engine implements the roster: who is reachable under a client id.
Roster == INSTANCE RelayRoster WITH
    agent   <- [m \in Clients |-> IF sessions[m] = NoConn THEN NoConn
                                  ELSE agentConn[sessions[m]]],
    members <- [m \in Clients |-> IF sessions[m] = NoConn THEN {}
                                  ELSE apps[sessions[m]]],
    seen    <- {c \in Conns : hpc[c] \notin {"idle", "install"}}
ImplementsRoster == Roster!Spec

\* The engine is what share sessions take it for: one task per departure of an
\* agent, one per departure of the last app and no other, and nobody watches a
\* machine whose session has ended.
Presence == INSTANCE RelayPresence WITH
    Addresses <- AppIDs,
    Starters  <- Conns,
    OfflineBy <- [m \in Clients |-> {a \in AgentConns : ClientOf[a] = m}],
    EndedBy   <- [m \in Clients |-> {c \in AppConns : ClientOf[c] = m}],
    up        <- [m \in Clients |-> sessions[m] # NoConn],
    watching  <- [m \in Clients |-> IF sessions[m] = NoConn THEN {}
                                    ELSE {AppID[c] : c \in apps[sessions[m]]}],
    tasks     <- jobs
ImplementsPresence == Presence!Spec

-----------------------------------------------------------------------------
(* Liveness.                                                               *)

\* Goroutines are scheduled and Go's mutexes do not starve a waiter; the read
\* deadline expires.  Peers may stay silent and connections healthy for ever.
Fairness ==
    \A c \in Conns :
        /\ SF_vars(Handler(c))
        /\ SF_vars(Ticker(c))
        /\ WF_vars(WriteLoop(c))
        /\ WF_vars(ReadDeadline(c))
FairSpec == Spec /\ Fairness

\* A handler waits for room in a channel that nobody drains or closes.
Blocked(c) ==
    /\ hpc[c] = "send"
    /\ msg[c].kind = "binary"
    /\ ~closed[dest[c]]
    /\ wpc[dest[c]] = "done"
    /\ Len(chan[dest[c]]) = MsgCap
BroadcastBlocked == \E a \in AgentConns : Blocked(a)

\* relay.go:273: the broadcast leaves a failed app to "the app's own proxy
\* loop", which takes it out of its session.
FailedAppLeaves ==
    \A c \in AppConns : \A s \in Session :
        (c \in apps[s] /\ net[c] = "down" /\ sessions[ClientOf[c]] = s)
            ~> c \notin apps[s]

\* The same for agents and apps, a broadcast that is blocked for ever being
\* the only obstacle.
FailedConnLeaves ==
    \A c \in Conns : \A m \in Clients : \A s \in Session :
        (sessions[m] = s /\ Registered(c, s) /\ net[c] # "up")
            ~> (~(sessions[m] = s /\ Registered(c, s)) \/ BroadcastBlocked)

\* Every handler whose connection is gone comes to its end, an app's after
\* its agent's too, unless it or a broadcast is blocked for ever.
HandlersEnd ==
    \A c \in Conns :
        (hpc[c] # "idle" /\ net[c] = "down")
            ~> (~Serving(c) \/ Blocked(c) \/ BroadcastBlocked)

=============================================================================
