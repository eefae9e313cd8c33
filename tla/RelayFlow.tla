------------------------------ MODULE RelayFlow ------------------------------
(***************************************************************************)
(* Frames pass through the relay engine without gaps: NoGap, for any       *)
(* number of agents and apps, any capacity of MsgChan and any failures.    *)
(*                                                                         *)
(* The frames of source d on their way to c are those in the MsgChan of c  *)
(* behind the last one written out.  Their numbers stay consecutive        *)
(* because the frame a handler sends next is the one after the last frame  *)
(* that c has or has in its queue (LastInv), or the first one c gets of d. *)
(***************************************************************************)
EXTENDS RelayProofs

-----------------------------------------------------------------------------
(* Queues.                                                                 *)

\* The last frame of d that queue q or, before it, the peer has is number n.
LastIs(q, g, d, n) ==
    \/ Stream(q, d) = {} /\ g = n
    \/ \E j \in Stream(q, d) : q[j].n = n /\ \A i \in Stream(q, d) : i <= j

\* The numbers of the frames of d in q are between 1 and n.
Numbered(q, d, n) == \A i \in Stream(q, d) : q[i].n \in 1..n

\* The places of a sequence one message longer.
LEMMA AppendPlaces ==
    ASSUME NEW q \in Seq(Msg), NEW f \in Msg, NEW d
    PROVE  /\ \A i \in DOMAIN q : i \in 1..Len(q) /\ Append(q, f)[i] = q[i]
           /\ Append(q, f)[Len(q) + 1] = f
           /\ (f.src = d /\ f.kind = "binary") =>
                 Stream(Append(q, f), d) = Stream(q, d) \cup {Len(q) + 1}
           /\ ~(f.src = d /\ f.kind = "binary") =>
                 Stream(Append(q, f), d) = Stream(q, d)
<1>1. /\ DOMAIN Append(q, f) = 1..(Len(q) + 1) /\ DOMAIN q = 1..Len(q)
      /\ Len(q) \in Nat
      /\ \A i \in 1..Len(q) : Append(q, f)[i] = q[i]
      /\ Append(q, f)[Len(q) + 1] = f
  OBVIOUS
<1>2. 1..(Len(q) + 1) = 1..Len(q) \cup {Len(q) + 1}
  BY <1>1
<1> HIDE DEF Msg
<1>3. (f.src = d /\ f.kind = "binary") =>
                 Stream(Append(q, f), d) = Stream(q, d) \cup {Len(q) + 1}
  BY <1>1, <1>2 DEF Stream
<1>4. ~(f.src = d /\ f.kind = "binary") =>
                 Stream(Append(q, f), d) = Stream(q, d)
  BY <1>1, <1>2 DEF Stream
<1> QED
  BY <1>1, <1>3, <1>4

\* A message that is no binary frame of d changes nothing for d.
LEMMA AppendOther ==
    ASSUME NEW q \in Seq(Msg), NEW f \in Msg, NEW d,
           ~(f.src = d /\ f.kind = "binary"), NEW g, NEW n
    PROVE  /\ Linked(q, g, d) => Linked(Append(q, f), g, d)
           /\ LastIs(q, g, d, n) => LastIs(Append(q, f), g, d, n)
           /\ Numbered(q, d, n) => Numbered(Append(q, f), d, n)
<1>1. Stream(Append(q, f), d) = Stream(q, d)
  BY AppendPlaces
<1>2. \A i \in Stream(q, d) : Append(q, f)[i] = q[i]
  BY AppendPlaces DEF Stream
<1>3. Linked(q, g, d) => Linked(Append(q, f), g, d)
  BY <1>1, <1>2 DEF Linked
<1>4. LastIs(q, g, d, n) => LastIs(Append(q, f), g, d, n)
  BY <1>1, <1>2 DEF LastIs
<1>5. Numbered(q, d, n) => Numbered(Append(q, f), d, n)
  BY <1>1, <1>2 DEF Numbered
<1> QED
  BY <1>3, <1>4, <1>5

\* The next frame of d, or the first one for this peer, keeps the numbers
\* without a gap and is the last one then.
LEMMA AppendNext ==
    ASSUME NEW q \in Seq(Msg), NEW f \in Msg, NEW d, NEW g \in Nat, NEW n \in Nat,
           f.src = d, f.kind = "binary", f.n = n, n # 0,
           Linked(q, g, d), Numbered(q, d, n),
           LastIs(q, g, d, 0) \/ LastIs(q, g, d, n - 1)
    PROVE  /\ Linked(Append(q, f), g, d)
           /\ LastIs(Append(q, f), g, d, n)
           /\ Numbered(Append(q, f), d, n)
<1> DEFINE r == Append(q, f)
           e == Len(q) + 1
<1>1. /\ Stream(r, d) = Stream(q, d) \cup {e} /\ r[e] = f /\ e \in Nat
      /\ \A i \in Stream(q, d) : r[i] = q[i] /\ i \in Nat /\ i < e /\ q[i].n \in Nat
  <2>1. \A i \in 1..Len(q) : q[i] \in Msg
    OBVIOUS
  <2>2. \A i \in Msg : i.n \in Nat
    BY DEF Msg
  <2>3. \A i \in Stream(q, d) : i \in 1..Len(q)
    BY DEF Stream
  <2>4. Len(q) \in Nat
    OBVIOUS
  <2>5. r[e] = f /\ Stream(r, d) = Stream(q, d) \cup {e}
    BY AppendPlaces
  <2>9. e \in Nat
    BY <2>4
  <2>6. DOMAIN q = 1..Len(q)
    OBVIOUS
  <2>7. \A i \in Stream(q, d) : r[i] = q[i]
    BY <2>3, <2>6, AppendPlaces
  <2>8. \A i \in Stream(q, d) : i \in Nat /\ i < e /\ q[i].n \in Nat
    BY <2>1, <2>2, <2>3, <2>4
  <2> QED
    BY <2>5, <2>7, <2>8, <2>9
<1> HIDE DEF r, e
<1>2. LastIs(r, g, d, n)
  BY <1>1 DEF LastIs
<1>3. Numbered(r, d, n)
  BY <1>1 DEF Numbered
<1>4. CASE Stream(q, d) = {}
  <2>1. g \in {0, n - 1}
    BY <1>4 DEF LastIs
  <2>2. Stream(r, d) = {e}
    BY <1>1, <1>4
  <2>3. ~(e < e)
    BY <1>1
  <2>4. Linked(r, g, d)
    BY <1>1, <2>1, <2>2, <2>3 DEF Linked
  <2> QED
    BY <1>2, <1>3, <2>4 DEF r
<1>5. ASSUME NEW l \in Stream(q, d), \A i \in Stream(q, d) : i <= l,
             q[l].n = 0 \/ q[l].n = n - 1
      PROVE  Linked(r, g, d)
  <2>1. q[l].n = n - 1
    BY <1>5 DEF Numbered
  <2> SUFFICES ASSUME NEW j \in Stream(r, d)
               PROVE  /\ (\A i \in Stream(r, d) : j <= i) => g \in {0, r[j].n - 1}
                      /\ \A i \in Stream(r, d) :
                           i < j /\ (\A k \in Stream(r, d) : k <= i \/ j <= k)
                              => r[j].n = r[i].n + 1
    BY DEF Linked
  <2>2. CASE j = e
    <3>1. ~(\A i \in Stream(r, d) : j <= i)
      <4>1. l \in Stream(r, d) /\ ~(e <= l)
        BY <1>1
      <4> QED
        BY <2>2, <4>1
    <3>2. ASSUME NEW i \in Stream(r, d), i < j,
                 \A k \in Stream(r, d) : k <= i \/ j <= k
          PROVE  r[j].n = r[i].n + 1
      <4>1. i \in Stream(q, d) /\ l \in Stream(r, d)
        BY <1>1, <2>2, <3>2
      <4>2. i <= l /\ (l <= i \/ e <= l)
        BY <1>5, <2>2, <3>2, <4>1
      <4>3. i \in Nat /\ l \in Nat /\ l < e /\ e \in Nat
        BY <1>1, <4>1
      <4>5. i = l
        BY <4>2, <4>3
      <4>4. r[j].n = n /\ r[i].n = n - 1
        BY <1>1, <2>1, <2>2, <4>1, <4>5
      <4> QED
        BY <4>4
    <3> QED
      BY <3>1, <3>2
  <2>3. CASE j # e
    <3>1. j \in Stream(q, d)
      BY <1>1, <2>3
    <3>2. (\A i \in Stream(r, d) : j <= i) => g \in {0, r[j].n - 1}
      BY <1>1, <3>1 DEF Linked
    <3>3. ASSUME NEW i \in Stream(r, d), i < j,
                 \A k \in Stream(r, d) : k <= i \/ j <= k
          PROVE  r[j].n = r[i].n + 1
      <4>1. i \in Stream(q, d)
        BY <1>1, <3>1, <3>3
      <4> QED
        BY <1>1, <3>1, <3>3, <4>1 DEF Linked
    <3> QED
      BY <3>2, <3>3
  <2> QED
    BY <2>2, <2>3
<1>6. Stream(q, d) # {} => \E l \in Stream(q, d) :
         (\A i \in Stream(q, d) : i <= l) /\ (q[l].n = 0 \/ q[l].n = n - 1)
  BY DEF LastIs
<1> QED
  BY <1>2, <1>3, <1>4, <1>5, <1>6 DEF r

\* The places of a queue whose head is written out.
LEMMA TailPlaces ==
    ASSUME NEW q \in Seq(Msg), q # <<>>, NEW d
    PROVE  /\ \A i \in Stream(Tail(q), d) :
                 i \in Nat /\ i + 1 \in Stream(q, d) /\ Tail(q)[i] = q[i + 1]
           /\ \A i \in Stream(q, d) :
                 i \in Nat /\ i >= 1 /\ (i # 1 => i - 1 \in Stream(Tail(q), d))
           /\ 1 \in Stream(q, d) <=> (Head(q).src = d /\ Head(q).kind = "binary")
           /\ Head(q) = q[1]
<1>1. /\ Len(q) \in Nat \ {0} /\ DOMAIN q = 1..Len(q)
      /\ DOMAIN Tail(q) = 1..(Len(q) - 1)
      /\ \A i \in 1..(Len(q) - 1) : Tail(q)[i] = q[i + 1]
      /\ Head(q) = q[1]
  OBVIOUS
<1>2. \A i \in Stream(Tail(q), d) :
         i \in Nat /\ i + 1 \in Stream(q, d) /\ Tail(q)[i] = q[i + 1]
  BY <1>1 DEF Stream
<1>3. \A i \in Stream(q, d) :
         i \in Nat /\ i >= 1 /\ (i # 1 => i - 1 \in Stream(Tail(q), d))
  BY <1>1 DEF Stream
<1>4. 1 \in Stream(q, d) <=> (Head(q).src = d /\ Head(q).kind = "binary")
  BY <1>1 DEF Stream
<1> QED
  BY <1>1, <1>2, <1>3, <1>4

\* What WriterWrites notes of the head of the queue.
Noted(q, g, d) ==
    IF Head(q).src = d /\ Head(q).kind = "binary" THEN Head(q).n ELSE g

\* Writing the head out moves it from the queue to what the peer has.
LEMMA TailLinked ==
    ASSUME NEW q \in Seq(Msg), q # <<>>, NEW d, NEW g \in Nat, Linked(q, g, d)
    PROVE  Linked(Tail(q), Noted(q, g, d), d)
<1> DEFINE r == Tail(q)
           h == Noted(q, g, d)
<1> SUFFICES ASSUME NEW j \in Stream(r, d)
             PROVE  /\ (\A i \in Stream(r, d) : j <= i) => h \in {0, r[j].n - 1}
                    /\ \A i \in Stream(r, d) :
                         i < j /\ (\A k \in Stream(r, d) : k <= i \/ j <= k)
                            => r[j].n = r[i].n + 1
  BY DEF Linked
<1>1. /\ \A i \in Stream(r, d) :
                 i \in Nat /\ i + 1 \in Stream(q, d) /\ r[i] = q[i + 1]
      /\ \A i \in Stream(q, d) :
                 i \in Nat /\ i >= 1 /\ (i # 1 => i - 1 \in Stream(r, d))
      /\ 1 \in Stream(q, d) <=> (Head(q).src = d /\ Head(q).kind = "binary")
      /\ Head(q) = q[1]
  BY TailPlaces
<1>n. \A i \in Stream(q, d) : q[i].n \in Nat
  <2>1. \A i \in DOMAIN q : q[i] \in Msg
    OBVIOUS
  <2>2. \A f \in Msg : f.n \in Nat
    BY DEF Msg
  <2> QED
    BY <2>1, <2>2 DEF Stream
<1> HIDE DEF r
<1>2. ASSUME \A i \in Stream(r, d) : j <= i PROVE h \in {0, r[j].n - 1}
  <2>1. CASE 1 \in Stream(q, d)
    <3>1. \A k \in Stream(q, d) : k <= 1 \/ j + 1 <= k
      BY <1>1, <1>2
    <3>2. 1 < j + 1
      <4>1. j \in Nat /\ j + 1 >= 1 /\ j + 1 \in Stream(q, d)
        BY <1>1
      <4>2. j # 0
        BY DEF Stream
      <4> QED
        BY <4>1, <4>2
    <3>3. q[j + 1].n = q[1].n + 1
      BY <1>1, <2>1, <3>1, <3>2 DEF Linked
    <3>4. h = q[1].n
      BY <1>1, <2>1 DEF Noted
    <3>5. r[j].n = h + 1 /\ h \in Nat
      BY <1>1, <1>n, <2>1, <3>3, <3>4
    <3> QED
      BY <3>5
  <2>2. CASE 1 \notin Stream(q, d)
    <3>1. \A k \in Stream(q, d) : j + 1 <= k
      BY <1>1, <1>2, <2>2
    <3>2. h = g
      BY <1>1, <2>2 DEF Noted
    <3> QED
      BY <1>1, <3>1, <3>2 DEF Linked
  <2> QED
    BY <2>1, <2>2
<1>3. ASSUME NEW i \in Stream(r, d), i < j,
             \A k \in Stream(r, d) : k <= i \/ j <= k
      PROVE  r[j].n = r[i].n + 1
  <2>1. i + 1 < j + 1
    BY <1>1, <1>3
  <2>2. ASSUME NEW k \in Stream(q, d) PROVE k <= i + 1 \/ j + 1 <= k
    <3>1. CASE k = 1
      BY <1>1, <3>1
    <3>2. CASE k # 1
      <4>1. k - 1 <= i \/ j <= k - 1
        BY <1>1, <1>3, <3>2
      <4>2. k \in Nat /\ i \in Nat /\ j \in Nat
        BY <1>1
      <4> QED
        BY <4>1, <4>2
    <3> QED
      BY <3>1, <3>2
  <2> QED
    BY <1>1, <2>1, <2>2 DEF Linked
<1> QED
  BY <1>2, <1>3

\* The last frame of d stays the last one when the head is written out.
LEMMA TailLastIs ==
    ASSUME NEW q \in Seq(Msg), q # <<>>, NEW d, NEW g, NEW n, LastIs(q, g, d, n)
    PROVE  LastIs(Tail(q), Noted(q, g, d), d, n)
<1> DEFINE r == Tail(q)
           h == Noted(q, g, d)
<1>1. /\ \A i \in Stream(r, d) :
                 i \in Nat /\ i + 1 \in Stream(q, d) /\ r[i] = q[i + 1]
      /\ \A i \in Stream(q, d) :
                 i \in Nat /\ i >= 1 /\ (i # 1 => i - 1 \in Stream(r, d))
      /\ 1 \in Stream(q, d) <=> (Head(q).src = d /\ Head(q).kind = "binary")
      /\ Head(q) = q[1]
  BY TailPlaces
<1> HIDE DEF r
<1>2. CASE Stream(q, d) = {} /\ g = n
  <2>1. Stream(r, d) = {} /\ h = n
    BY <1>1, <1>2 DEF Noted
  <2> QED
    BY <2>1 DEF LastIs, r
<1>3. ASSUME NEW j \in Stream(q, d), q[j].n = n, \A i \in Stream(q, d) : i <= j
      PROVE  LastIs(r, h, d, n)
  <2>1. CASE j = 1
    <3>1. Stream(r, d) = {}
      <4>1. SUFFICES ASSUME NEW i \in Stream(r, d) PROVE FALSE
        OBVIOUS
      <4>2. i \in Nat /\ i + 1 <= 1
        BY <1>1, <1>3, <2>1
      <4>3. i # 0
        BY DEF Stream, r
      <4> QED
        BY <4>2, <4>3
    <3>2. h = n
      BY <1>1, <1>3, <2>1 DEF Noted
    <3> QED
      BY <3>1, <3>2 DEF LastIs
  <2>2. CASE j # 1
    <3>1. j - 1 \in Stream(r, d)
      BY <1>1, <2>2
    <3>2. r[j - 1].n = n
      BY <1>1, <1>3, <3>1
    <3>3. \A i \in Stream(r, d) : i <= j - 1
      BY <1>1, <1>3
    <3> QED
      BY <3>1, <3>2, <3>3 DEF LastIs
  <2> QED
    BY <2>1, <2>2
<1> QED
  BY <1>2, <1>3 DEF LastIs, r

\* Nor does writing it out change the bound on the numbers.
LEMMA TailNumbered ==
    ASSUME NEW q \in Seq(Msg), q # <<>>, NEW d, NEW n \in Nat, Numbered(q, d, n)
    PROVE  /\ Numbered(Tail(q), d, n)
           /\ \A g \in 0..n : Noted(q, g, d) \in 0..n
<1> DEFINE r == Tail(q)
<1>0. \A i \in Stream(r, d) :
         i \in Nat /\ i + 1 \in Stream(q, d) /\ r[i] = q[i + 1]
  BY TailPlaces
<1>1. Numbered(Tail(q), d, n)
  <2> HIDE DEF r
  <2>1. Numbered(r, d, n)
    BY <1>0 DEF Numbered
  <2> QED
    BY <2>1 DEF r
<1>2. \A g \in 0..n : Noted(q, g, d) \in 0..n
  BY TailPlaces DEF Numbered, Noted
<1> QED
  BY <1>1, <1>2

-----------------------------------------------------------------------------
(* Steps that move no frame.                                               *)

Frozen == {"install", "locked", "leaving", "done", "panicked"}

\* A step that moves no frame and lets nobody in: handlers come and go,
\* sessions lose connections.
Quiet ==
    /\ UNCHANGED <<chan, got, wpc, msg, todo, count>>
    /\ \A c \in Conns :
          \/ hpc'[c] = hpc[c] /\ dest'[c] = dest[c] /\ hs'[c] = hs[c]
          \/ hpc'[c] \in Frozen /\ (hpc'[c] = "install" => hpc[c] = "idle")
          \/ hpc[c] = "lookup" /\ hpc'[c] = "check"
    /\ \A s \in Session : /\ apps'[s] \subseteq apps[s]
                          /\ agentConn'[s] \in {agentConn[s], NoConn}
    /\ \A c \in Conns : closed[c] => closed'[c]

\* Every other step, by name.
Moves ==
    \/ \E a \in AgentConns : RegisterInstall(a) \/ ReadAgentFrame(a)
          \/ BroadcastLock(a) \/ BroadcastNext(a) \/ BroadcastUnlock(a)
    \/ \E c \in AppConns : ConnectInstall(c) \/ ReadAppFrame(c)
          \/ ReadAppDropped(c) \/ ReadAppPing(c)
    \/ \E c \in Conns : ProxyCheck(c) \/ SendQueued(c) \/ SendDropped(c)
          \/ WriterWrites(c) \/ WriterFails(c) \/ WriterEnds(c)

\* The cleanups are quiet.
LEMMA EndSessionQuiet ==
    ASSUME TypeInv, NEW a \in AgentConns, EndSession(a)
    PROVE  /\ \A s \in Session : /\ apps'[s] \subseteq apps[s]
                                 /\ agentConn'[s] \in {agentConn[s], NoConn}
           /\ \A c \in Conns : closed[c] => closed'[c]
<1>0. RegistryOK /\ SocketOK
  BY DEF TypeInv, TypeOK
<1>1. CASE UNCHANGED <<registry, closed>> /\ Orphans(a) = {}
  BY <1>1 DEF registry
<1>2. ASSUME NEW s \in Session,
             apps' = [apps EXCEPT ![s] = {}],
             agentConn' = [agentConn EXCEPT ![s] = NoConn],
             closed' = [c \in Conns |-> closed[c] \/ c \in apps[s]]
      PROVE  /\ \A t \in Session : /\ apps'[t] \subseteq apps[t]
                                   /\ agentConn'[t] \in {agentConn[t], NoConn}
             /\ \A c \in Conns : closed[c] => closed'[c]
  BY <1>0, <1>2 DEF RegistryOK, SocketOK
<1> QED
  BY <1>0, <1>1, <1>2, EndSessionEffect

\* cleanupApp takes one app out of a session and gives nothing.
LEMMA LeaveSessionQuiet ==
    ASSUME TypeInv, NEW c \in AppConns, NEW s, LeaveSession(c, s)
    PROVE  \A t \in Session : /\ apps'[t] \subseteq apps[t]
                              /\ agentConn'[t] \in {agentConn[t], NoConn}
<1>0. RegistryOK
  BY DEF TypeInv, TypeOK
<1> QED
  BY <1>0 DEF LeaveSession, RegistryOK

\* The steps that are not named in Moves are quiet.
LEMMA QuietSteps == TypeInv /\ [Next]_vars => Quiet \/ Moves
<1> SUFFICES ASSUME TypeInv, [Next]_vars PROVE Quiet \/ Moves
  OBVIOUS
<1>0. RegistryOK /\ SocketOK /\ FindingOK /\ FrameOK /\ PcOK
  BY DEF TypeInv, TypeOK
<1> USE <1>0, ConnFacts
<1> USE DEF registry, mutexes, socket, writing, finding, frame, HandlerAt, TickerAt, Return, Quiet, Frozen
<1>1. ASSUME NEW a \in AgentConns, RegisterLookup(a) PROVE Quiet
  BY <1>1 DEF RegisterLookup, RegistryOK, FindingOK, PcOK
<1>3. ASSUME NEW c \in AppConns, ConnectRefused(c) PROVE Quiet
  BY <1>3 DEF ConnectRefused, FindingOK, PcOK
<1>4. ASSUME NEW c \in AppConns, ConnectLookup(c) PROVE Quiet
  BY <1>4 DEF ConnectLookup, FindingOK, PcOK
<1>6. ASSUME NEW c \in Conns, ProxyLookup(c) PROVE Quiet
  BY <1>6 DEF ProxyLookup, FindingOK, PcOK
<1>17. ASSUME NEW c \in Conns, SendPanics(c) PROVE Quiet
  BY <1>17 DEF SendPanics, PcOK
<1>18. ASSUME NEW a \in AgentConns, HandlerLocksEngine(a) PROVE Quiet
  BY <1>18 DEF HandlerLocksEngine, PcOK
<1>19. ASSUME NEW a \in AgentConns, HandlerCleansAgent(a) PROVE Quiet
  <2>1. EndSession(a)
    BY <1>19 DEF HandlerCleansAgent
  <2> QED
    BY <1>19, <2>1, EndSessionQuiet DEF HandlerCleansAgent, FindingOK, PcOK
<1>20. ASSUME NEW a \in AgentConns, TickerLocksEngine(a) PROVE Quiet
  BY <1>20 DEF TickerLocksEngine
<1>21. ASSUME NEW a \in AgentConns, TickerCleansAgent(a) PROVE Quiet
  <2>1. EndSession(a)
    BY <1>21 DEF TickerCleansAgent
  <2> QED
    BY <1>21, <2>1, EndSessionQuiet DEF TickerCleansAgent
<1>22. ASSUME NEW c \in AppConns, HandlerLooksUp(c) PROVE Quiet
  BY <1>22 DEF HandlerLooksUp, FindingOK, FrameOK, PcOK
<1>23. ASSUME NEW c \in AppConns, HandlerCleansApp(c) PROVE Quiet
  <2>1. LeaveSession(c, hs[c])
    BY <1>23 DEF HandlerCleansApp
  <2> QED
    BY <1>23, <2>1, LeaveSessionQuiet DEF HandlerCleansApp, FindingOK, PcOK
<1>24. ASSUME NEW c \in AppConns, TickerLooksUp(c) PROVE Quiet
  BY <1>24 DEF TickerLooksUp
<1>25. ASSUME NEW c \in AppConns, TickerCleansApp(c) PROVE Quiet
  <2>1. LeaveSession(c, ts[c])
    BY <1>25 DEF TickerCleansApp
  <2> QED
    BY <1>25, <2>1, LeaveSessionQuiet DEF TickerCleansApp
<1>26. ASSUME NEW c \in Conns, TickerStops(c) \/ Network(c) PROVE Quiet
  BY <1>26 DEF TickerStops, Network, PeerStalls, PeerLeaves, ReadDeadline, NetAt
<1>27. CASE UNCHANGED vars
  BY <1>27 DEF vars
<1>28. CASE Next
  BY <1>1, <1>3, <1>4, <1>6, <1>17, <1>18, <1>19, <1>20, <1>21, <1>22, <1>23,
     <1>24, <1>25, <1>26, <1>28, Zenon DEF Next, AgentPeer, AppPeer, Handler,
     AgentHandler, AppHandler, Ticker, WriteLoop, Moves
<1> QED
  BY <1>27, <1>28

-----------------------------------------------------------------------------
(* Handlers, their frames and their counters.                              *)

\* A connection whose goroutines have not started has no frames and is nobody's
\* destination.
StartInv ==
    /\ \A c \in Conns :
        /\ wpc[c] = "off" => chan[c] = <<>> /\ \A d \in Conns : got[c][d] = 0
        /\ hpc[c] \in {"idle", "install"} => wpc[c] = "off"
        /\ hpc[c] \in {"lookup", "check"} \/ Relaying(c) => wpc[c] # "off"
        /\ hpc[c] = "send" \/ (hpc[c] = "read" /\ dest[c] # NoConn)
              => wpc[dest[c]] # "off"
    /\ \A s \in Session :
        /\ \A c \in apps[s] : wpc[c] # "off"
        /\ agentConn[s] # NoConn => wpc[agentConn[s]] # "off"

\* The handler of d holds a binary frame on its way to somebody.
Holds(d) == hpc[d] \in {"lock", "bcast", "send"} /\ msg[d].kind = "binary"

\* The frame a handler holds is the last one it has read.
MsgInv ==
    \A d \in Conns :
        /\ hpc[d] \in {"idle", "install", "lookup"} => count[d] = 0
        /\ Holds(d) => msg[d].src = d /\ msg[d].n = count[d] /\ count[d] # 0
        /\ d \in AgentConns /\ hpc[d] = "send" => dest[d] \notin todo[d]

\* Nobody has or awaits a frame that its source has not sent.
BoundInv ==
    \A c, d \in Conns :
        got[c][d] \in 0..count[d] /\ Numbered(chan[c], d, count[d])

\* A connection becomes a destination only once its goroutines have started.
LEMMA StartNext == TypeInv /\ TodoInv /\ StartInv /\ [Next]_vars => StartInv'
<1> SUFFICES ASSUME TypeInv, TodoInv, StartInv, [Next]_vars PROVE StartInv'
  OBVIOUS
<1>0. RegistryOK /\ WritingOK /\ FindingOK /\ FrameOK /\ PcOK /\ HandlerOK
  BY DEF TypeInv, TypeOK
<1> USE <1>0, ConnFacts
<1> USE DEF registry, socket, writing, finding, frame, HandlerAt, TickerAt, Return, StartInv, Relaying
<1>1. CASE Quiet
  <2>0. chan' = chan /\ got' = got /\ wpc' = wpc
    BY <1>1 DEF Quiet
  <2>1. ASSUME NEW c \in Conns
        PROVE  /\ hpc'[c] \in {"idle", "install"} => wpc[c] = "off"
               /\ hpc'[c] \in {"lookup", "check", "read", "lock", "bcast", "send"}
                     => wpc[c] # "off"
               /\ hpc'[c] = "send" \/ (hpc'[c] = "read" /\ dest'[c] # NoConn)
                     => wpc[dest'[c]] # "off"
    <3>1. CASE hpc'[c] = hpc[c] /\ dest'[c] = dest[c]
      BY <3>1
    <3>2. CASE hpc'[c] \in Frozen /\ (hpc'[c] = "install" => hpc[c] = "idle")
      BY <3>2 DEF Frozen
    <3>3. CASE hpc[c] = "lookup" /\ hpc'[c] = "check"
      BY <3>3
    <3> QED
      BY <1>1, <3>1, <3>2, <3>3 DEF Quiet
  <2>2. ASSUME NEW s \in Session
        PROVE  /\ \A c \in apps'[s] : wpc[c] # "off"
               /\ agentConn'[s] # NoConn => wpc[agentConn'[s]] # "off"
    BY <1>1 DEF Quiet
  <2> QED
    BY <2>0, <2>1, <2>2
<1>2. ASSUME NEW a \in AgentConns, RegisterInstall(a) PROVE StartInv'
  BY <1>2 DEF RegisterInstall, Start, RegistryOK, WritingOK, PcOK
<1>3. ASSUME NEW c \in AppConns, ConnectInstall(c) PROVE StartInv'
  BY <1>3 DEF ConnectInstall, Start, Previous, RegistryOK, WritingOK, PcOK
<1>4. ASSUME NEW c \in Conns, ProxyCheck(c) PROVE StartInv'
  BY <1>4 DEF ProxyCheck, StillCurrent, HandlerOK, RegistryOK, FrameOK, PcOK
<1>5. ASSUME NEW a \in AgentConns, ReadAgentFrame(a) PROVE StartInv'
  BY <1>5 DEF ReadAgentFrame, Readable, WritingOK, PcOK
<1>6. ASSUME NEW c \in AppConns, ReadAppFrame(c) PROVE StartInv'
  BY <1>6 DEF ReadAppFrame, Readable, WriteBegins, WriteReturns, FrameOK, PcOK
<1>7. ASSUME NEW c \in AppConns, ReadAppDropped(c) PROVE StartInv'
  BY <1>7 DEF ReadAppDropped, Readable, PcOK
<1>8. ASSUME NEW c \in AppConns, ReadAppPing(c) PROVE StartInv'
  BY <1>8 DEF ReadAppPing, Readable, WriteBegins, WriteReturns, FrameOK, PcOK
<1>9. ASSUME NEW a \in AgentConns, BroadcastLock(a) PROVE StartInv'
  BY <1>9 DEF BroadcastLock, PcOK
<1>10. ASSUME NEW a \in AgentConns, BroadcastNext(a) PROVE StartInv'
  <2>1. \A c \in todo[a] : c \in Conns /\ wpc[c] # "off"
    <3>1. todo[a] \subseteq apps[hs[a]] /\ hs[a] \in Session
      BY <1>10 DEF BroadcastNext, TodoInv, Broadcasting, HandlerOK
    <3>2. todo[a] \subseteq AppConns
      BY DEF FrameOK
    <3> QED
      BY <3>1, <3>2
  <2> QED
    BY <1>10, <2>1 DEF BroadcastNext, WriteBegins, WriteReturns, FrameOK, PcOK
<1>11. ASSUME NEW a \in AgentConns, BroadcastUnlock(a) PROVE StartInv'
  BY <1>11 DEF BroadcastUnlock, PcOK
<1>12. ASSUME NEW c \in Conns, SendQueued(c) PROVE StartInv'
  BY <1>12 DEF SendQueued, WriteReturns, WritingOK, FrameOK, PcOK
<1>13. ASSUME NEW c \in Conns, SendDropped(c) PROVE StartInv'
  BY <1>13 DEF SendDropped, WriteReturns, FrameOK, PcOK
<1>14. ASSUME NEW c \in Conns, WriterWrites(c) PROVE StartInv'
  BY <1>14 DEF WriterWrites, WritingOK
<1>15. ASSUME NEW c \in Conns, WriterFails(c) PROVE StartInv'
  BY <1>15 DEF WriterFails, WritingOK
<1>16. ASSUME NEW c \in Conns, WriterEnds(c) PROVE StartInv'
  BY <1>16 DEF WriterEnds, WritingOK
<1> QED
  BY <1>1, <1>2, <1>3, <1>4, <1>5, <1>6, <1>7, <1>8, <1>9, <1>10, <1>11, <1>12,
     <1>13, <1>14, <1>15, <1>16, QuietSteps, Zenon DEF Moves

\* Reading numbers the frame, and the handler keeps it until it is sent.
LEMMA MsgNext == TypeInv /\ MsgInv /\ [Next]_vars => MsgInv'
<1> SUFFICES ASSUME TypeInv, MsgInv, [Next]_vars PROVE MsgInv'
  OBVIOUS
<1>0. FrameOK /\ PcOK
  BY DEF TypeInv, TypeOK
<1> USE <1>0, ConnFacts
<1> USE DEF socket, writing, finding, frame, HandlerAt, TickerAt, Return, MsgInv, Holds
<1>1. CASE Quiet
  BY <1>1 DEF Quiet, Frozen
<1>2. ASSUME NEW a \in AgentConns, RegisterInstall(a) PROVE MsgInv'
  BY <1>2 DEF RegisterInstall, Start, PcOK
<1>3. ASSUME NEW c \in AppConns, ConnectInstall(c) PROVE MsgInv'
  BY <1>3 DEF ConnectInstall, Start, PcOK
<1>4. ASSUME NEW c \in Conns, ProxyCheck(c) PROVE MsgInv'
  BY <1>4 DEF ProxyCheck, FrameOK, PcOK
<1>5. ASSUME NEW a \in AgentConns, ReadAgentFrame(a) PROVE MsgInv'
  <2>1. PICK f \in NextFrames(a) : Counted(a, f) /\ msg' = [msg EXCEPT ![a] = f]
    BY <1>5 DEF ReadAgentFrame
  <2>2. f.src = a /\ (f.kind = "binary" => f.n = count[a] + 1 /\ f.n # 0)
    BY FrameType DEF NextFrames, FrameOK
  <2> QED
    BY <1>5, <2>1, <2>2 DEF ReadAgentFrame, Readable, Counted, FrameOK, PcOK
<1>6. ASSUME NEW c \in AppConns, ReadAppFrame(c) PROVE MsgInv'
  <2>1. PICK f \in NextFrames(c) : Counted(c, f) /\ WriteBegins(c, dest[c], f)
    BY <1>6 DEF ReadAppFrame
  <2>2. f.src = c /\ (f.kind = "binary" => f.n = count[c] + 1 /\ f.n # 0)
    BY FrameType DEF NextFrames, FrameOK
  <2> QED
    BY <1>6, <2>1, <2>2 DEF ReadAppFrame, Readable, Counted, WriteBegins,
       WriteReturns, FrameOK, PcOK
<1>7. ASSUME NEW c \in AppConns, ReadAppDropped(c) PROVE MsgInv'
  BY <1>7 DEF ReadAppDropped, Readable, Counted, NextFrames, FrameOK, PcOK
<1>8. ASSUME NEW c \in AppConns, ReadAppPing(c) PROVE MsgInv'
  BY <1>8 DEF ReadAppPing, Readable, WriteBegins, WriteReturns, FrameOK, PcOK
<1>9. ASSUME NEW a \in AgentConns, BroadcastLock(a) PROVE MsgInv'
  BY <1>9 DEF BroadcastLock, PcOK
<1>10. ASSUME NEW a \in AgentConns, BroadcastNext(a) PROVE MsgInv'
  BY <1>10 DEF BroadcastNext, WriteBegins, WriteReturns, FrameOK, PcOK
<1>11. ASSUME NEW a \in AgentConns, BroadcastUnlock(a) PROVE MsgInv'
  BY <1>11 DEF BroadcastUnlock, FrameOK, PcOK
<1>12. ASSUME NEW c \in Conns, SendQueued(c) PROVE MsgInv'
  BY <1>12 DEF SendQueued, WriteReturns, FrameOK, PcOK
<1>13. ASSUME NEW c \in Conns, SendDropped(c) PROVE MsgInv'
  BY <1>13 DEF SendDropped, WriteReturns, FrameOK, PcOK
<1>14. ASSUME NEW c \in Conns, WriterWrites(c) \/ WriterFails(c) \/ WriterEnds(c)
       PROVE  MsgInv'
  BY <1>14 DEF WriterWrites, WriterFails, WriterEnds
<1> QED
  BY <1>1, <1>2, <1>3, <1>4, <1>5, <1>6, <1>7, <1>8, <1>9, <1>10, <1>11, <1>12,
     <1>13, <1>14, QuietSteps, Zenon DEF Moves

\* Only sends and the write loop touch queues, and no source unsends a frame.
LEMMA QueueSteps ==
    TypeInv /\ [Next]_vars =>
        \/ UNCHANGED <<chan, got>> /\ \A d \in Conns : count'[d] >= count[d]
        \/ \E c \in Conns : SendQueued(c) \/ WriterWrites(c) \/ WriterFails(c)
<1> SUFFICES ASSUME TypeInv, [Next]_vars,
                    ~\E c \in Conns : SendQueued(c) \/ WriterWrites(c) \/ WriterFails(c)
             PROVE  UNCHANGED <<chan, got>> /\ \A d \in Conns : count'[d] >= count[d]
  OBVIOUS
<1>0. count \in [Conns -> Nat]
  BY DEF TypeInv, TypeOK, FrameOK
<1> USE <1>0, ConnFacts DEF writing, frame
<1>1. ASSUME NEW c \in Conns, NEW f \in NextFrames(c), Counted(c, f)
      PROVE  \A d \in Conns : count'[d] >= count[d]
  BY <1>1 DEF Counted, NextFrames
<1>2. CASE Quiet
  BY <1>2 DEF Quiet
<1>3. CASE \E a \in AgentConns : RegisterInstall(a) \/ BroadcastLock(a)
              \/ BroadcastNext(a) \/ BroadcastUnlock(a)
  BY <1>3 DEF RegisterInstall, BroadcastLock, BroadcastNext, BroadcastUnlock
<1>4. CASE \E c \in AppConns : ConnectInstall(c) \/ ReadAppPing(c)
  BY <1>4 DEF ConnectInstall, ReadAppPing
<1>5. CASE \E a \in AgentConns : ReadAgentFrame(a)
  BY <1>1, <1>5 DEF ReadAgentFrame
<1>6. CASE \E c \in AppConns : ReadAppFrame(c) \/ ReadAppDropped(c)
  BY <1>1, <1>6 DEF ReadAppFrame, ReadAppDropped
<1>7. CASE \E c \in Conns : ProxyCheck(c) \/ SendDropped(c) \/ WriterEnds(c)
  BY <1>7 DEF ProxyCheck, SendDropped, WriterEnds
<1> QED
  BY <1>2, <1>3, <1>4, <1>5, <1>6, <1>7, QuietSteps, Zenon DEF Moves

\* What the write loop does to the two ends of a stream.
LEMMA WriteEffect ==
    ASSUME WritingOK, NEW c \in Conns, WriterWrites(c)
    PROVE  /\ chan[c] \in Seq(Msg) /\ chan[c] # <<>>
           /\ chan' = [chan EXCEPT ![c] = Tail(@)]
           /\ UNCHANGED wpc
           /\ \A d \in Conns : got'[c][d] = Noted(chan[c], got[c][d], d)
           /\ \A b, d \in Conns : b # c => got'[b][d] = got[b][d]
<1>1. /\ chan[c] \in Seq(Msg) /\ chan[c] # <<>>
      /\ chan' = [chan EXCEPT ![c] = Tail(@)]
      /\ UNCHANGED wpc
  BY DEF WritingOK, WriterWrites
<1>2. Head(chan[c]) \in Msg
  BY <1>1
<1>3. Head(chan[c]).src \in Conns
  BY <1>2 DEF Msg
<1>4. \A d \in Conns : got'[c][d] = Noted(chan[c], got[c][d], d)
  BY <1>3 DEF WritingOK, WriterWrites, Noted
<1>5. \A b, d \in Conns : b # c => got'[b][d] = got[b][d]
  BY <1>3 DEF WritingOK, WriterWrites
<1> QED
  BY <1>1, <1>4, <1>5

\* A source counts what it sends.
LEMMA AppendNumbered ==
    ASSUME NEW q \in Seq(Msg), NEW f \in Msg, NEW d, NEW n \in Nat,
           f.src = d, f.kind = "binary", f.n \in 1..n, Numbered(q, d, n)
    PROVE  Numbered(Append(q, f), d, n)
<1> DEFINE r == Append(q, f)
           e == Len(q) + 1
<1>1. Stream(r, d) = Stream(q, d) \cup {e} /\ r[e] = f
  BY AppendPlaces
<1>2. DOMAIN q = 1..Len(q)
  OBVIOUS
<1>3. \A i \in Stream(q, d) : r[i] = q[i]
  BY <1>2, AppendPlaces DEF Stream
<1> HIDE DEF r, e
<1>4. Numbered(r, d, n)
  BY <1>1, <1>3 DEF Numbered
<1> QED
  BY <1>4 DEF r

\* A queue takes only frames that their source has counted.
LEMMA BoundNext ==
    TypeInv /\ MsgInv /\ BoundInv /\ [Next]_vars => BoundInv'
<1> SUFFICES ASSUME TypeInv, MsgInv, BoundInv, [Next]_vars,
                    NEW b \in Conns, NEW d \in Conns
             PROVE  got'[b][d] \in 0..count'[d] /\ Numbered(chan'[b], d, count'[d])
  BY DEF BoundInv
<1>0. WritingOK /\ FrameOK /\ HandlerOK /\ count[d] \in Nat
  BY DEF TypeInv, TypeOK, FrameOK
<1>a. got[b][d] \in 0..count[d] /\ Numbered(chan[b], d, count[d])
  BY DEF BoundInv
<1>1. CASE UNCHANGED <<chan, got>> /\ \A e \in Conns : count'[e] >= count[e]
  <2>1. count' \in [Conns -> Nat]
    BY NextType DEF TypeInv, TypeOK, FrameOK
  <2>2. count'[d] \in Nat /\ count'[d] >= count[d]
    BY <1>1, <2>1
  <2>3. Numbered(chan[b], d, count'[d])
    BY <1>0, <1>a, <2>2 DEF Numbered
  <2>4. got'[b][d] \in 0..count'[d]
    BY <1>0, <1>1, <1>a, <2>2
  <2> QED
    BY <1>1, <2>3, <2>4
<1>2. ASSUME NEW c \in Conns, SendQueued(c)
      PROVE  got'[b][d] \in 0..count'[d] /\ Numbered(chan'[b], d, count'[d])
  <2>1. /\ hpc[c] = "send" /\ msg[c] \in Msg /\ dest[c] \in Conns
        /\ chan' = [chan EXCEPT ![dest[c]] = Append(@, msg[c])]
        /\ UNCHANGED <<got, count>>
    BY <1>0, <1>2 DEF SendQueued, HandlerOK
  <2>2. chan[b] \in Seq(Msg)
    BY <1>0 DEF WritingOK
  <2>3. CASE b # dest[c]
    <3>1. chan'[b] = chan[b]
      BY <1>0, <2>1, <2>3 DEF WritingOK
    <3> QED
      BY <1>a, <2>1, <3>1
  <2>4. CASE b = dest[c]
    <3>1. chan'[b] = Append(chan[b], msg[c])
      BY <1>0, <2>1, <2>4 DEF WritingOK
    <3>2. CASE ~(msg[c].src = d /\ msg[c].kind = "binary")
      <4>1. Numbered(chan'[b], d, count[d])
        BY <1>a, <2>1, <2>2, <3>1, <3>2, AppendOther
      <4> QED
        BY <1>a, <2>1, <4>1
    <3>3. CASE msg[c].src = d /\ msg[c].kind = "binary"
      <4>1. msg[c].n = count[d] /\ count[d] # 0
        BY <2>1, <3>3 DEF MsgInv, Holds
      <4>2. msg[c].n \in 1..count[d]
        BY <1>0, <4>1
      <4>3. Numbered(chan'[b], d, count[d])
        BY <1>0, <1>a, <2>1, <2>2, <3>1, <3>3, <4>2, AppendNumbered
      <4> QED
        BY <1>a, <2>1, <4>3
    <3> QED
      BY <3>2, <3>3
  <2> QED
    BY <2>3, <2>4
<1>3. ASSUME NEW c \in Conns, WriterWrites(c) \/ WriterFails(c)
      PROVE  got'[b][d] \in 0..count'[d] /\ Numbered(chan'[b], d, count'[d])
  <2>1. /\ chan[c] \in Seq(Msg) /\ chan[c] # <<>>
        /\ chan' = [chan EXCEPT ![c] = Tail(@)]
        /\ UNCHANGED count
    BY <1>0, <1>3 DEF WriterWrites, WriterFails, WritingOK, frame
  <2>2. CASE b # c
    <3>1. chan'[b] = chan[b]
      BY <1>0, <2>1, <2>2 DEF WritingOK
    <3>2. got'[b][d] = got[b][d]
      BY <1>0, <1>3, <2>2, WriteEffect DEF WriterFails
    <3> QED
      BY <1>a, <2>1, <3>1, <3>2
  <2>3. CASE b = c
    <3>1. chan'[b] = Tail(chan[b])
      BY <1>0, <2>1, <2>3 DEF WritingOK
    <3>2. Numbered(Tail(chan[b]), d, count[d])
      BY <1>0, <1>a, <2>1, <2>3, TailNumbered
    <3>3. got'[b][d] \in {got[b][d], Noted(chan[b], got[b][d], d)}
      BY <1>0, <1>3, <2>3, WriteEffect DEF WriterFails
    <3>4. Noted(chan[b], got[b][d], d) \in 0..count[d]
      BY <1>0, <1>a, <2>1, <2>3, TailNumbered
    <3> QED
      BY <1>a, <2>1, <3>1, <3>2, <3>3, <3>4
  <2> QED
    BY <2>2, <2>3
<1> QED
  BY <1>1, <1>2, <1>3, QueueSteps

-----------------------------------------------------------------------------
(* Frames follow each other.                                               *)

\* The next frame of d may go to c: an agent serves the apps of its session, an
\* app the agent of its session or the one it has noted.
Reaches(d, c) ==
    /\ ~closed[c]
    /\ \/ /\ d \in AgentConns /\ c \in apps[hs[d]]
          /\ hpc[d] \in {"check", "read", "lock", "bcast", "send"}
       \/ /\ d \in AppConns /\ agentConn[hs[d]] = c
          /\ hpc[d] \in {"check", "read", "send"}
       \/ /\ d \in AppConns /\ dest[d] = c
          /\ hpc[d] = "read" \/ (hpc[d] = "send" /\ Holds(d))

\* The frame that the handler of d holds is still to be sent to c.
Pending(d, c) ==
    /\ Holds(d)
    /\ \/ hpc[d] = "lock"
       \/ d \in AgentConns /\ hpc[d] \in {"bcast", "send"} /\ c \in todo[d]
       \/ hpc[d] = "send" /\ dest[d] = c

\* The last frame of d that was sent to all its peers, c among them.
Sent(d, c) == IF Pending(d, c) THEN count[d] - 1 ELSE count[d]

\* A peer that d reaches has all frames of d up to that one, or none of them.
LastInv ==
    \A c, d \in Conns :
        wpc[c] = "ready" /\ Reaches(d, c) =>
            \/ LastIs(chan[c], got[c][d], d, 0)
            \/ LastIs(chan[c], got[c][d], d, Sent(d, c))

\* An app that still writes to the previous agent has sent the new one nothing.
SkipInv ==
    \A c \in Conns, d \in AppConns :
        /\ wpc[c] = "ready" /\ agentConn[hs[d]] = c /\ dest[d] # c
        /\ hpc[d] = "read" \/ (hpc[d] = "send" /\ Holds(d))
        => LastIs(chan[c], got[c][d], d, 0)

\* Where nothing was sent nothing has arrived.
LEMMA NothingSent ==
    ASSUME BoundInv, StartInv, NEW c \in Conns, NEW d \in Conns,
           wpc[c] = "off" \/ count[d] = 0
    PROVE  LastIs(chan[c], got[c][d], d, 0) /\ Linked(chan[c], got[c][d], d)
<1>1. CASE wpc[c] = "off"
  <2>1. chan[c] = <<>> /\ got[c][d] = 0
    BY <1>1 DEF StartInv
  <2>2. DOMAIN <<>> = {}
    OBVIOUS
  <2>3. Stream(chan[c], d) = {}
    BY <2>1, <2>2 DEF Stream
  <2> QED
    BY <2>1, <2>3 DEF LastIs, Linked
<1>2. CASE count[d] = 0
  <2>1. got[c][d] = 0
    BY <1>2 DEF BoundInv
  <2>2. ASSUME NEW i \in Stream(chan[c], d) PROVE FALSE
    BY <1>2, <2>2 DEF BoundInv, Numbered
  <2> QED
    BY <2>1, <2>2 DEF LastIs, Linked
<1> QED
  BY <1>1, <1>2

\* A step that leaves both ends of the stream alone.
LEMMA SteadyStep ==
    ASSUME LastInv, NEW c \in Conns, NEW d \in Conns,
           wpc[c] = "ready", UNCHANGED <<chan, got>>,
           \/ LastIs(chan[c], got[c][d], d, 0)
           \/ Reaches(d, c) /\ Sent(d, c)' = Sent(d, c)
    PROVE  \/ LastIs(chan'[c], got'[c][d], d, 0)
           \/ LastIs(chan'[c], got'[c][d], d, Sent(d, c)')
  BY DEF LastInv

\* What the frame rules say of the frames an app reads.
LEMMA ReadCount ==
    ASSUME FrameOK, NEW c \in Conns, NEW f \in NextFrames(c), Counted(c, f)
    PROVE  /\ f.kind = "binary" => count' = [count EXCEPT ![c] = @ + 1]
           /\ f.kind # "binary" => count' = count
  BY DEF NextFrames, Counted, FrameOK

\* Each step keeps what is known of the last frame that a peer has of a source
\* that reaches it: it is the last one sent, or there is none.
LEMMA LastNext ==
    TypeInv /\ MemberInv /\ TodoInv /\ StartInv /\ MsgInv /\ BoundInv /\ NoGap
        /\ LastInv /\ SkipInv /\ [Next]_vars => LastInv'
<1> SUFFICES ASSUME TypeInv, MemberInv, TodoInv, StartInv, MsgInv, BoundInv,
                    NoGap, LastInv, SkipInv, [Next]_vars,
                    NEW b \in Conns, NEW d \in Conns,
                    wpc'[b] = "ready", Reaches(d, b)'
             PROVE  \/ LastIs(chan'[b], got'[b][d], d, 0)
                    \/ LastIs(chan'[b], got'[b][d], d, Sent(d, b)')
  BY DEF LastInv
<1> DEFINE Same == Reaches(d, b) /\ Sent(d, b)' = Sent(d, b)
           None == LastIs(chan[b], got[b][d], d, 0)
           Goal == \/ LastIs(chan'[b], got'[b][d], d, 0)
                   \/ LastIs(chan'[b], got'[b][d], d, Sent(d, b)')
<1>0. RegistryOK /\ SocketOK /\ WritingOK /\ FindingOK /\ FrameOK /\ PcOK /\ HandlerOK
  BY DEF TypeInv, TypeOK
<1>u. ASSUME UNCHANGED <<chan, got>>, wpc[b] = "ready" \/ None, Same \/ None
      PROVE  Goal
  BY <1>u, SteadyStep
<1>z. wpc[b] = "off" \/ count[d] = 0 => None
  BY NothingSent
<1> HIDE DEF Goal, None
<1> USE <1>0, ConnFacts
<1> USE DEF registry, socket, writing, finding, frame, HandlerAt, TickerAt, Return
<1>1. ASSUME Quiet PROVE Goal
  <2>1. UNCHANGED <<chan, got, wpc, msg, todo, count>> /\ ~closed[b]
    BY <1>1 DEF Quiet, Reaches
  <2>2. CASE hpc'[d] = hpc[d] /\ dest'[d] = dest[d] /\ hs'[d] = hs[d]
    <3>1. Holds(d)' = Holds(d) /\ Pending(d, b)' = Pending(d, b)
      BY <2>1, <2>2 DEF Holds, Pending
    <3>2. Reaches(d, b)
      BY <1>1, <2>1, <2>2, <3>1 DEF Quiet, Reaches, HandlerOK
    <3> QED
      BY <1>u, <2>1, <3>1, <3>2 DEF Sent
  <2>3. CASE hpc'[d] \in Frozen
    BY <2>3 DEF Reaches, Frozen
  <2>4. CASE hpc[d] = "lookup"
    BY <1>u, <1>z, <2>1, <2>4 DEF MsgInv
  <2> QED
    BY <1>1, <2>2, <2>3, <2>4 DEF Quiet
<1>2. ASSUME NEW a \in AgentConns, RegisterInstall(a) PROVE Goal
  <2>1. /\ UNCHANGED <<chan, got, msg, todo, count, dest, hs, apps>>
        /\ hpc' = [hpc EXCEPT ![a] = "lookup"] /\ wpc' = [wpc EXCEPT ![a] = "ready"]
        /\ agentConn' = [agentConn EXCEPT ![hs[a]] = a]
        /\ hpc[a] = "install" /\ (closed[b] => closed'[b])
    BY <1>2 DEF RegisterInstall, Start, Close, SocketOK
  <2>2. CASE b = a
    BY <1>u, <1>z, <2>1, <2>2 DEF StartInv
  <2>3. CASE b # a
    <3>1. wpc[b] = "ready"
      BY <2>1, <2>3 DEF WritingOK
    <3>2. d # a
      BY <2>1 DEF Reaches, PcOK
    <3>3. Holds(d)' = Holds(d) /\ Pending(d, b)' = Pending(d, b)
      BY <2>1, <3>2 DEF Holds, Pending, PcOK
    <3>4. Reaches(d, b)
      BY <2>1, <2>3, <3>2, <3>3 DEF Reaches, PcOK, RegistryOK, HandlerOK
    <3> QED
      BY <1>u, <2>1, <3>1, <3>3, <3>4 DEF Sent
  <2> QED
    BY <2>2, <2>3
<1>3. ASSUME NEW c \in AppConns, ConnectInstall(c) PROVE Goal
  <2>1. /\ UNCHANGED <<chan, got, msg, todo, count, dest, hs, agentConn>>
        /\ hpc' = [hpc EXCEPT ![c] = "lookup"] /\ wpc' = [wpc EXCEPT ![c] = "ready"]
        /\ \A s \in Session : apps'[s] \subseteq apps[s] \cup {c}
        /\ hpc[c] = "install" /\ (closed[b] => closed'[b])
    BY <1>3 DEF ConnectInstall, Start, Close, SocketOK, RegistryOK
  <2>2. CASE b = c
    BY <1>u, <1>z, <2>1, <2>2 DEF StartInv
  <2>3. CASE b # c
    <3>1. wpc[b] = "ready"
      BY <2>1, <2>3 DEF WritingOK
    <3>2. d # c
      BY <2>1 DEF Reaches, PcOK
    <3>3. Holds(d)' = Holds(d) /\ Pending(d, b)' = Pending(d, b)
      BY <2>1, <3>2 DEF Holds, Pending, PcOK
    <3>4. Reaches(d, b)
      BY <2>1, <2>3, <3>2, <3>3 DEF Reaches, PcOK, HandlerOK
    <3> QED
      BY <1>u, <2>1, <3>1, <3>3, <3>4 DEF Sent
  <2> QED
    BY <2>2, <2>3
<1>4. ASSUME NEW c \in Conns, ProxyCheck(c) PROVE Goal
  <2>1. UNCHANGED <<chan, got, wpc, msg, todo, count, apps, agentConn, closed>>
    BY <1>4 DEF ProxyCheck
  <2>2. CASE d # c
    <3>1. hpc'[d] = hpc[d] /\ dest'[d] = dest[d] /\ hs'[d] = hs[d]
      BY <1>4, <2>2 DEF ProxyCheck, PcOK, FrameOK, FindingOK
    <3>2. Holds(d)' = Holds(d) /\ Pending(d, b)' = Pending(d, b)
      BY <2>1, <3>1 DEF Holds, Pending
    <3>3. Reaches(d, b)
      BY <2>1, <3>1, <3>2 DEF Reaches
    <3> QED
      BY <1>u, <2>1, <3>2, <3>3 DEF Sent
  <2>3. CASE d = c
    <3>1. hpc[d] = "check" /\ hpc'[d] \in {"read", "done"}
      BY <1>4, <2>3 DEF ProxyCheck, PcOK
    <3>2. hpc'[d] = "read" /\ hs'[d] = hs[d]
      BY <1>4, <2>3, <3>1 DEF Reaches, ProxyCheck, PcOK
    <3>3. d \in AppConns => dest'[d] = agentConn[hs[d]]
      BY <1>4, <2>3, <3>2 DEF ProxyCheck, PcOK, FrameOK
    <3>4. Reaches(d, b)
      BY <2>1, <3>1, <3>2, <3>3 DEF Reaches
    <3>5. ~Pending(d, b) /\ ~Pending(d, b)'
      BY <3>1, <3>2 DEF Pending, Holds
    <3> QED
      BY <1>u, <2>1, <3>4, <3>5 DEF Sent
  <2> QED
    BY <2>2, <2>3
<1>5. ASSUME NEW a \in AgentConns, ReadAgentFrame(a) PROVE Goal
  <2>1. /\ UNCHANGED <<chan, got, wpc, hs, dest, todo, apps, agentConn, closed>>
        /\ hpc[a] = "read" /\ hpc' = [hpc EXCEPT ![a] = "lock"]
    BY <1>5 DEF ReadAgentFrame, Readable
  <2>2. PICK f \in NextFrames(a) : Counted(a, f) /\ msg' = [msg EXCEPT ![a] = f]
    BY <1>5 DEF ReadAgentFrame
  <2>3. /\ f.kind = "binary" => count' = [count EXCEPT ![a] = @ + 1]
        /\ f.kind # "binary" => count' = count
    BY <2>2, ReadCount
  <2>4. CASE d # a
    <3>1. hpc'[d] = hpc[d] /\ msg'[d] = msg[d] /\ count'[d] = count[d]
      BY <2>1, <2>2, <2>3, <2>4 DEF PcOK, FrameOK
    <3>2. Holds(d)' = Holds(d) /\ Pending(d, b)' = Pending(d, b)
      BY <2>1, <3>1 DEF Holds, Pending
    <3>3. Reaches(d, b)
      BY <2>1, <3>1, <3>2 DEF Reaches
    <3> QED
      BY <1>u, <2>1, <3>1, <3>2, <3>3 DEF Sent
  <2>5. CASE d = a
    <3>1. Reaches(d, b) /\ ~Pending(d, b) /\ hpc'[d] = "lock" /\ msg'[d] = f
      BY <2>1, <2>2, <2>5 DEF Reaches, Pending, Holds, PcOK, FrameOK
    <3>2. Pending(d, b)' <=> f.kind = "binary"
      BY <3>1 DEF Pending, Holds
    <3>3. count'[d] = IF f.kind = "binary" THEN count[d] + 1 ELSE count[d]
      BY <2>3, <2>5 DEF FrameOK
    <3>4. count[d] \in Nat
      BY DEF FrameOK
    <3>5. Sent(d, b)' = Sent(d, b)
      BY <3>1, <3>2, <3>3, <3>4 DEF Sent
    <3> QED
      BY <1>u, <2>1, <3>1, <3>5
  <2> QED
    BY <2>4, <2>5
<1>6. ASSUME NEW c \in AppConns, ReadAppFrame(c) PROVE Goal
  <2>1. /\ UNCHANGED <<chan, got, wpc, hs, todo, apps, agentConn, closed>>
        /\ hpc[c] = "read" /\ dest[c] \in Conns
    BY <1>6 DEF ReadAppFrame, Readable, FrameOK
  <2>2. PICK f \in NextFrames(c) : Counted(c, f) /\ WriteBegins(c, dest[c], f)
    BY <1>6 DEF ReadAppFrame
  <2>3. /\ f.kind = "binary" => count' = [count EXCEPT ![c] = @ + 1]
        /\ f.kind # "binary" => count' = count
    BY <2>2, ReadCount
  <2>4. CASE d # c
    <3>1. /\ hpc'[d] = hpc[d] /\ msg'[d] = msg[d] /\ count'[d] = count[d]
          /\ dest'[d] = dest[d]
      BY <2>2, <2>3, <2>4 DEF WriteBegins, WriteReturns, PcOK, FrameOK
    <3>2. Holds(d)' = Holds(d) /\ Pending(d, b)' = Pending(d, b)
      BY <2>1, <3>1 DEF Holds, Pending
    <3>3. Reaches(d, b)
      BY <2>1, <3>1, <3>2 DEF Reaches
    <3> QED
      BY <1>u, <2>1, <3>1, <3>2, <3>3 DEF Sent
  <2>5. CASE d = c /\ closed[dest[c]]
    <3>1. hpc'[d] = "check"
      BY <2>2, <2>5 DEF WriteBegins, WriteReturns, PcOK
    <3>2. agentConn[hs[d]] = b /\ ~closed[b]
      BY <2>1, <2>5, <3>1 DEF Reaches
    <3>3. None
      BY <2>1, <2>5, <3>2 DEF SkipInv, None
    <3> QED
      BY <1>u, <2>1, <3>3
  <2>6. CASE d = c /\ ~closed[dest[c]]
    <3>1. hpc'[d] = "send" /\ dest'[d] = dest[d] /\ msg'[d] = f
      BY <2>2, <2>6 DEF WriteBegins, WriteReturns, PcOK, FrameOK
    <3>2. Holds(d)' <=> f.kind = "binary"
      BY <3>1 DEF Holds
    <3>3. ~Pending(d, b)
      BY <2>1, <2>6 DEF Pending, Holds
    <3>4. CASE dest[d] = b
      <4>1. Reaches(d, b)
        BY <2>1, <2>6, <3>4 DEF Reaches
      <4>2. Pending(d, b)' <=> f.kind = "binary"
        BY <3>1, <3>2, <3>4 DEF Pending
      <4>3. count'[d] = IF f.kind = "binary" THEN count[d] + 1 ELSE count[d]
        BY <2>3, <2>6 DEF FrameOK
      <4>4. count[d] \in Nat
        BY DEF FrameOK
      <4>5. Sent(d, b)' = Sent(d, b)
        BY <3>3, <4>2, <4>3, <4>4 DEF Sent
      <4> QED
        BY <1>u, <2>1, <4>1, <4>5
    <3>5. CASE dest[d] # b
      <4>1. agentConn[hs[d]] = b /\ ~closed[b]
        BY <2>1, <2>6, <3>1, <3>5 DEF Reaches
      <4>2. None
        BY <2>1, <2>6, <3>5, <4>1 DEF SkipInv, None
      <4> QED
        BY <1>u, <2>1, <4>2
    <3> QED
      BY <3>4, <3>5
  <2> QED
    BY <2>4, <2>5, <2>6
<1>7. ASSUME NEW c \in AppConns, ReadAppDropped(c) PROVE Goal
  <2>1. /\ UNCHANGED <<chan, got, wpc, hs, dest, msg, todo, apps, agentConn, closed>>
        /\ hpc[c] = "read" /\ dest[c] = NoConn /\ hpc' = [hpc EXCEPT ![c] = "check"]
    BY <1>7 DEF ReadAppDropped, Readable
  <2>2. CASE d # c
    <3>1. hpc'[d] = hpc[d] /\ count'[d] = count[d]
      BY <1>7, <2>1, <2>2, ReadCount DEF ReadAppDropped, PcOK, FrameOK
    <3>2. Holds(d)' = Holds(d) /\ Pending(d, b)' = Pending(d, b)
      BY <2>1, <3>1 DEF Holds, Pending
    <3>3. Reaches(d, b)
      BY <2>1, <3>1, <3>2 DEF Reaches
    <3> QED
      BY <1>u, <2>1, <3>1, <3>2, <3>3 DEF Sent
  <2>3. CASE d = c
    <3>1. agentConn[hs[d]] = b /\ dest[d] # b
      BY <2>1, <2>3 DEF Reaches, PcOK
    <3>2. None
      BY <2>1, <2>3, <3>1 DEF SkipInv, None
    <3> QED
      BY <1>u, <2>1, <3>2
  <2> QED
    BY <2>2, <2>3
<1>8. ASSUME NEW c \in AppConns, ReadAppPing(c) PROVE Goal
  <2>1. /\ UNCHANGED <<chan, got, wpc, hs, todo, apps, agentConn, closed, count>>
        /\ hpc[c] = "read"
    BY <1>8 DEF ReadAppPing, Readable
  <2>2. CASE d # c
    <3>1. hpc'[d] = hpc[d] /\ msg'[d] = msg[d] /\ dest'[d] = dest[d]
      BY <1>8, <2>2 DEF ReadAppPing, WriteBegins, WriteReturns, PcOK, FrameOK
    <3>2. Holds(d)' = Holds(d) /\ Pending(d, b)' = Pending(d, b)
      BY <2>1, <3>1 DEF Holds, Pending
    <3>3. Reaches(d, b)
      BY <2>1, <3>1, <3>2 DEF Reaches
    <3> QED
      BY <1>u, <2>1, <3>2, <3>3 DEF Sent
  <2>3. CASE d = c
    <3>1. hpc'[d] \in {"send", "check"} /\ msg'[d].kind # "binary"
      BY <1>8, <2>3 DEF ReadAppPing, WriteBegins, WriteReturns, PcOK, FrameOK, NoMsg
    <3>2. ~Holds(d)' /\ ~Pending(d, b)' /\ ~Pending(d, b)
      BY <2>1, <2>3, <3>1 DEF Holds, Pending
    <3>3. Reaches(d, b)
      BY <2>1, <2>3, <3>1, <3>2 DEF Reaches
    <3> QED
      BY <1>u, <2>1, <3>2, <3>3 DEF Sent
  <2> QED
    BY <2>2, <2>3
<1>9. ASSUME NEW a \in AgentConns, BroadcastLock(a) PROVE Goal
  <2>1. /\ UNCHANGED <<chan, got, wpc, hs, dest, msg, apps, agentConn, closed, count>>
        /\ hpc[a] = "lock" /\ hpc' = [hpc EXCEPT ![a] = "bcast"]
        /\ todo' = [todo EXCEPT ![a] = apps[hs[a]]]
    BY <1>9 DEF BroadcastLock
  <2>2. Reaches(d, b)
    BY <2>1 DEF Reaches, Holds, PcOK
  <2>3. CASE d # a
    <3>1. hpc'[d] = hpc[d] /\ todo'[d] = todo[d]
      BY <2>1, <2>3 DEF PcOK, FrameOK
    <3>2. Pending(d, b)' = Pending(d, b)
      BY <2>1, <3>1 DEF Holds, Pending
    <3> QED
      BY <1>u, <2>1, <2>2, <3>2 DEF Sent
  <2>4. CASE d = a
    <3>1. b \in apps[hs[d]] /\ todo'[d] = apps[hs[d]] /\ hpc'[d] = "bcast"
      BY <2>1, <2>2, <2>4 DEF Reaches, FrameOK, PcOK
    <3>2. Holds(d)' = Holds(d)
      BY <2>1, <2>4, <3>1 DEF Holds
    <3>3. Pending(d, b)' = Pending(d, b)
      BY <2>1, <2>4, <3>1, <3>2 DEF Pending
    <3> QED
      BY <1>u, <2>1, <2>2, <3>3 DEF Sent
  <2> QED
    BY <2>3, <2>4
<1>10. ASSUME NEW a \in AgentConns, BroadcastNext(a) PROVE Goal
  <2>1. /\ UNCHANGED <<chan, got, wpc, hs, apps, agentConn, closed, count>>
        /\ hpc[a] = "bcast"
    BY <1>10 DEF BroadcastNext
  <2>2. PICK c \in todo[a] : /\ WriteBegins(a, c, msg[a])
                             /\ todo' = [todo EXCEPT ![a] = @ \ {c}]
    BY <1>10 DEF BroadcastNext
  <2>3. CASE d # a
    <3>1. /\ hpc'[d] = hpc[d] /\ msg'[d] = msg[d] /\ dest'[d] = dest[d]
          /\ todo'[d] = todo[d]
      BY <2>2, <2>3 DEF WriteBegins, WriteReturns, PcOK, FrameOK
    <3>2. Holds(d)' = Holds(d) /\ Pending(d, b)' = Pending(d, b)
      BY <2>1, <3>1 DEF Holds, Pending
    <3>3. Reaches(d, b)
      BY <2>1, <3>1, <3>2 DEF Reaches
    <3> QED
      BY <1>u, <2>1, <3>2, <3>3 DEF Sent
  <2>4. CASE d = a
    <3>1. msg'[d] = msg[d] /\ todo'[d] = todo[d] \ {c}
      BY <2>2, <2>4 DEF WriteBegins, WriteReturns, FrameOK
    <3>2. Reaches(d, b) /\ ~closed[b]
      BY <2>1, <2>4 DEF Reaches
    <3>3. CASE closed[c]
      <4>1. hpc'[d] = "bcast" /\ b # c
        BY <2>2, <2>4, <3>2, <3>3 DEF WriteBegins, WriteReturns, PcOK
      <4>2. Pending(d, b)' = Pending(d, b)
        BY <2>1, <2>4, <3>1, <4>1 DEF Pending, Holds
      <4> QED
        BY <1>u, <2>1, <3>2, <4>2 DEF Sent
    <3>4. CASE ~closed[c]
      <4>1. hpc'[d] = "send" /\ dest'[d] = c
        BY <2>2, <2>4, <3>4 DEF WriteBegins, FrameOK, PcOK
      <4>2. Pending(d, b)' = Pending(d, b)
        BY <2>1, <2>2, <2>4, <3>1, <4>1 DEF Pending, Holds
      <4> QED
        BY <1>u, <2>1, <3>2, <4>2 DEF Sent
    <3> QED
      BY <3>3, <3>4
  <2> QED
    BY <2>3, <2>4
<1>11. ASSUME NEW a \in AgentConns, BroadcastUnlock(a) PROVE Goal
  <2>1. /\ UNCHANGED <<chan, got, wpc, hs, dest, todo, apps, agentConn, closed, count>>
        /\ hpc[a] = "bcast" /\ hpc' = [hpc EXCEPT ![a] = "check"] /\ todo[a] = {}
        /\ msg' = [msg EXCEPT ![a] = NoMsg]
    BY <1>11 DEF BroadcastUnlock
  <2>2. CASE d # a
    <3>1. hpc'[d] = hpc[d] /\ msg'[d] = msg[d]
      BY <2>1, <2>2 DEF PcOK, FrameOK
    <3>2. Holds(d)' = Holds(d) /\ Pending(d, b)' = Pending(d, b)
      BY <2>1, <3>1 DEF Holds, Pending
    <3>3. Reaches(d, b)
      BY <2>1, <3>1, <3>2 DEF Reaches
    <3> QED
      BY <1>u, <2>1, <3>2, <3>3 DEF Sent
  <2>3. CASE d = a
    <3>1. hpc'[d] = "check"
      BY <2>1, <2>3 DEF PcOK
    <3>2. Reaches(d, b)
      BY <2>1, <2>3, <3>1 DEF Reaches
    <3>3. ~Pending(d, b) /\ ~Pending(d, b)'
      BY <2>1, <2>3, <3>1 DEF Pending, Holds
    <3> QED
      BY <1>u, <2>1, <3>2, <3>3 DEF Sent
  <2> QED
    BY <2>2, <2>3
<1>12. ASSUME NEW c \in Conns, SendQueued(c) PROVE Goal
  <2>1. /\ UNCHANGED <<got, wpc, hs, todo, apps, agentConn, closed, count>>
        /\ hpc[c] = "send" /\ msg[c] \in Msg /\ dest[c] \in Conns /\ ~closed[dest[c]]
        /\ chan' = [chan EXCEPT ![dest[c]] = Append(@, msg[c])]
        /\ WriteReturns(c, msg[c])
    BY <1>12 DEF SendQueued, HandlerOK
  <2>2. /\ chan[b] \in Seq(Msg) /\ got[b][d] \in Nat /\ count[d] \in Nat
        /\ chan'[b] = IF b = dest[c] THEN Append(chan[b], msg[c]) ELSE chan[b]
    BY <2>1 DEF WritingOK, FrameOK
  <2>3. ASSUME ~(b = dest[c] /\ msg[c].src = d /\ msg[c].kind = "binary"), Same \/ None
        PROVE  Goal
    <3>1. None \/ LastIs(chan[b], got[b][d], d, Sent(d, b)')
      BY <2>1, <2>3 DEF LastInv, None
    <3>2. CASE b # dest[c]
      BY <2>1, <2>2, <3>1, <3>2 DEF None, Goal
    <3>3. CASE b = dest[c] /\ ~(msg[c].src = d /\ msg[c].kind = "binary")
      BY <2>1, <2>2, <3>1, <3>3, AppendOther DEF None, Goal
    <3> QED
      BY <2>3, <3>2, <3>3
  <2>4. CASE d # c
    <3>1. hpc'[d] = hpc[d] /\ msg'[d] = msg[d] /\ dest'[d] = dest[d]
      BY <2>1, <2>4 DEF WriteReturns, PcOK, FrameOK
    <3>2. Holds(d)' = Holds(d) /\ Pending(d, b)' = Pending(d, b)
      BY <2>1, <3>1 DEF Holds, Pending
    <3>3. Reaches(d, b)
      BY <2>1, <3>1, <3>2 DEF Reaches
    <3>4. msg[c].kind = "binary" => msg[c].src # d
      BY <2>1, <2>4 DEF MsgInv, Holds
    <3>5. Same
      BY <2>1, <3>2, <3>3 DEF Sent
    <3> QED
      BY <2>3, <3>4, <3>5
  <2>5. CASE d = c /\ d \in AgentConns
    <3>1. hpc'[d] = "bcast" /\ msg'[d] = msg[d]
      BY <2>1, <2>5 DEF WriteReturns, PcOK, FrameOK
    <3>2. Holds(d)' = Holds(d)
      BY <2>1, <2>5, <3>1 DEF Holds
    <3>3. Reaches(d, b)
      BY <2>1, <2>5, <3>1 DEF Reaches
    <3>4. CASE ~(b = dest[d] /\ Holds(d))
      <4>1. Pending(d, b)' = Pending(d, b)
        BY <2>1, <2>5, <3>1, <3>2, <3>4 DEF Pending
      <4>2. ~(b = dest[c] /\ msg[c].src = d /\ msg[c].kind = "binary")
        BY <2>1, <2>5, <3>4 DEF Holds
      <4>3. Same
        BY <2>1, <3>3, <4>1 DEF Sent
      <4> QED
        BY <2>3, <4>2, <4>3
    <3>5. CASE b = dest[d] /\ Holds(d)
      <4>1. b \notin todo[d] /\ Pending(d, b)
        BY <2>1, <2>5, <3>5 DEF MsgInv, Pending
      <4>2. ~Pending(d, b)' /\ Sent(d, b)' = count[d] /\ Sent(d, b) = count[d] - 1
        BY <2>1, <3>1, <4>1 DEF Pending, Sent
      <4>3. msg[c].src = d /\ msg[c].kind = "binary" /\ msg[c].n = count[d] /\ count[d] # 0
        BY <2>5, <3>5 DEF MsgInv, Holds
      <4>4. LastIs(chan[b], got[b][d], d, 0) \/ LastIs(chan[b], got[b][d], d, count[d] - 1)
        BY <2>1, <3>3, <4>2 DEF LastInv
      <4>5. Linked(chan[b], got[b][d], d) /\ Numbered(chan[b], d, count[d])
        BY <2>1 DEF NoGap, BoundInv
      <4>6. LastIs(Append(chan[b], msg[c]), got[b][d], d, count[d])
        BY <2>1, <2>2, <4>3, <4>4, <4>5, AppendNext
      <4> QED
        BY <2>1, <2>2, <2>5, <3>5, <4>2, <4>6 DEF Goal
    <3> QED
      BY <3>4, <3>5
  <2>6. CASE d = c /\ d \in AppConns
    <3>1. hpc'[d] = "check"
      BY <2>1, <2>6 DEF WriteReturns, PcOK
    <3>2. agentConn[hs[d]] = b /\ ~closed[b]
      BY <2>1, <2>6, <3>1 DEF Reaches
    <3>3. Reaches(d, b) /\ ~Pending(d, b)' /\ Sent(d, b)' = count[d]
      BY <2>1, <2>6, <3>1, <3>2 DEF Reaches, Pending, Holds, Sent
    <3>4. CASE ~Holds(d)
      <4>1. Same
        BY <3>3, <3>4 DEF Sent, Pending
      <4>2. ~(b = dest[c] /\ msg[c].src = d /\ msg[c].kind = "binary")
        BY <2>1, <2>6, <3>4 DEF Holds
      <4> QED
        BY <2>3, <4>1, <4>2
    <3>5. CASE Holds(d) /\ b # dest[d]
      <4>1. None
        BY <2>1, <2>6, <3>2, <3>5 DEF SkipInv, None
      <4> QED
        BY <2>3, <2>6, <3>5, <4>1
    <3>6. CASE Holds(d) /\ b = dest[d]
      <4>1. Sent(d, b) = count[d] - 1
        BY <2>1, <2>6, <3>6 DEF Pending, Sent
      <4>2. msg[c].src = d /\ msg[c].kind = "binary" /\ msg[c].n = count[d] /\ count[d] # 0
        BY <2>6, <3>6 DEF MsgInv, Holds
      <4>3. LastIs(chan[b], got[b][d], d, 0) \/ LastIs(chan[b], got[b][d], d, count[d] - 1)
        BY <2>1, <3>3, <4>1 DEF LastInv
      <4>4. Linked(chan[b], got[b][d], d) /\ Numbered(chan[b], d, count[d])
        BY <2>1 DEF NoGap, BoundInv
      <4>5. LastIs(Append(chan[b], msg[c]), got[b][d], d, count[d])
        BY <2>1, <2>2, <4>2, <4>3, <4>4, AppendNext
      <4> QED
        BY <2>1, <2>2, <2>6, <3>3, <3>6, <4>5 DEF Goal
    <3> QED
      BY <3>4, <3>5, <3>6
  <2> QED
    BY <2>4, <2>5, <2>6 DEF Conns
<1>13. ASSUME NEW c \in Conns, SendDropped(c) PROVE Goal
  <2>1. /\ UNCHANGED <<chan, got, wpc, hs, todo, apps, agentConn, closed, count>>
        /\ hpc[c] = "send" /\ msg[c].kind = "text" /\ WriteReturns(c, msg[c])
    BY <1>13 DEF SendDropped, Droppable
  <2>2. CASE d # c
    <3>1. hpc'[d] = hpc[d] /\ msg'[d] = msg[d] /\ dest'[d] = dest[d]
      BY <2>1, <2>2 DEF WriteReturns, PcOK, FrameOK
    <3>2. Holds(d)' = Holds(d) /\ Pending(d, b)' = Pending(d, b)
      BY <2>1, <3>1 DEF Holds, Pending
    <3>3. Reaches(d, b)
      BY <2>1, <3>1, <3>2 DEF Reaches
    <3> QED
      BY <1>u, <2>1, <3>2, <3>3 DEF Sent
  <2>3. CASE d = c
    <3>1. msg'[d].kind # "binary" /\ hpc'[d] \in {"bcast", "check"}
      BY <2>1, <2>3 DEF WriteReturns, FrameOK, PcOK, NoMsg
    <3>2. ~Pending(d, b) /\ ~Pending(d, b)'
      BY <2>1, <2>3, <3>1 DEF Pending, Holds
    <3>3. Reaches(d, b)
      BY <2>1, <2>3, <3>1 DEF Reaches
    <3> QED
      BY <1>u, <2>1, <3>2, <3>3 DEF Sent
  <2> QED
    BY <2>2, <2>3
<1>14. ASSUME NEW c \in Conns, WriterWrites(c) PROVE Goal
  <2>1. UNCHANGED <<wpc, hs, dest, msg, todo, apps, agentConn, closed, count, hpc>>
    BY <1>14 DEF WriterWrites
  <2>2. Reaches(d, b) /\ Sent(d, b)' = Sent(d, b)
    BY <2>1 DEF Reaches, Sent, Pending, Holds
  <2>3. None \/ LastIs(chan[b], got[b][d], d, Sent(d, b)')
    BY <2>1, <2>2 DEF LastInv, None
  <2>4. /\ chan[c] \in Seq(Msg) /\ chan[c] # <<>>
        /\ chan' = [chan EXCEPT ![c] = Tail(@)]
        /\ got'[c][d] = Noted(chan[c], got[c][d], d)
        /\ b # c => got'[b][d] = got[b][d]
    BY <1>14, WriteEffect
  <2>5. CASE b # c
    <3>1. chan'[b] = chan[b]
      BY <2>4, <2>5 DEF WritingOK
    <3> QED
      BY <2>3, <2>4, <2>5, <3>1 DEF None, Goal
  <2>6. CASE b = c
    <3>1. chan'[b] = Tail(chan[b])
      BY <2>4, <2>6 DEF WritingOK
    <3> QED
      BY <2>3, <2>4, <2>6, <3>1, TailLastIs DEF None, Goal
  <2> QED
    BY <2>5, <2>6
<1>15. ASSUME NEW c \in Conns, WriterFails(c) \/ WriterEnds(c) PROVE Goal
  <2>1. /\ UNCHANGED <<got, hs, dest, msg, todo, apps, agentConn, closed, count, hpc>>
        /\ wpc' = [wpc EXCEPT ![c] = "done"]
        /\ \A e \in Conns : e # c => chan'[e] = chan[e]
    BY <1>15 DEF WriterFails, WriterEnds, WritingOK
  <2>2. b # c /\ wpc[b] = "ready"
    BY <2>1 DEF WritingOK
  <2>3. Reaches(d, b) /\ Sent(d, b)' = Sent(d, b)
    BY <2>1 DEF Reaches, Sent, Pending, Holds
  <2>4. None \/ LastIs(chan[b], got[b][d], d, Sent(d, b)')
    BY <2>2, <2>3 DEF LastInv, None
  <2> QED
    BY <2>1, <2>2, <2>4 DEF None, Goal
<1>16. Goal
  BY <1>1, <1>2, <1>3, <1>4, <1>5, <1>6, <1>7, <1>8, <1>9, <1>10, <1>11, <1>12,
     <1>13, <1>14, <1>15, QuietSteps, Zenon DEF Moves
<1> QED
  BY <1>16 DEF Goal

\* A send appends the next frame for its peer, so nothing is missing.
LEMMA GapNext ==
    TypeInv /\ TodoInv /\ StartInv /\ MsgInv /\ BoundInv /\ NoGap /\ LastInv
        /\ [Next]_vars => NoGap'
<1> SUFFICES ASSUME TypeInv, TodoInv, StartInv, MsgInv, BoundInv, NoGap, LastInv,
                    [Next]_vars, NEW b \in Conns, NEW d \in Conns, wpc'[b] = "ready"
             PROVE  Linked(chan'[b], got'[b][d], d)
  BY DEF NoGap
<1>0. WritingOK /\ FrameOK /\ PcOK /\ HandlerOK
  BY DEF TypeInv, TypeOK
<1> USE <1>0
<1>1. CASE UNCHANGED <<chan, got>>
  <2>1. wpc[b] \in {"ready", "off"}
    <3>1. [Next]_vars => wpc'[b] = wpc[b] \/ wpc[b] = "off" \/ wpc'[b] = "done"
      <4>1. CASE Quiet
        BY <4>1 DEF Quiet
      <4>2. CASE \E a \in AgentConns : RegisterInstall(a)
        <5>1. \A a \in AgentConns : RegisterInstall(a) => wpc[a] = "off" /\ a \in Conns
          BY ConnFacts DEF RegisterInstall, StartInv
        <5> QED
          BY <4>2, <5>1 DEF RegisterInstall, Start, WritingOK
      <4>3. CASE \E a \in AppConns : ConnectInstall(a)
        <5>1. \A a \in AppConns : ConnectInstall(a) => wpc[a] = "off" /\ a \in Conns
          BY ConnFacts DEF ConnectInstall, StartInv
        <5> QED
          BY <4>3, <5>1 DEF ConnectInstall, Start, WritingOK
      <4>4. CASE \E c \in Conns : WriterFails(c) \/ WriterEnds(c)
        BY <4>4 DEF WriterFails, WriterEnds, WritingOK
      <4>5. CASE \E a \in AgentConns : ReadAgentFrame(a) \/ BroadcastLock(a)
                    \/ BroadcastNext(a) \/ BroadcastUnlock(a)
        BY <4>5 DEF ReadAgentFrame, BroadcastLock, BroadcastNext, BroadcastUnlock, writing
      <4>6. CASE \E c \in AppConns : ReadAppFrame(c) \/ ReadAppDropped(c) \/ ReadAppPing(c)
        BY <4>6 DEF ReadAppFrame, ReadAppDropped, ReadAppPing, writing
      <4>7. CASE \E c \in Conns : ProxyCheck(c) \/ SendQueued(c) \/ SendDropped(c)
                    \/ WriterWrites(c)
        BY <4>7 DEF ProxyCheck, SendQueued, SendDropped, WriterWrites, writing
      <4> QED
        BY <4>1, <4>2, <4>3, <4>4, <4>5, <4>6, <4>7, QuietSteps, Zenon DEF Moves
    <3> QED
      BY <3>1 DEF WritingOK, WriterPC
  <2> QED
    BY <1>1, <2>1, NothingSent DEF NoGap
<1>2. ASSUME NEW c \in Conns, SendQueued(c) PROVE Linked(chan'[b], got'[b][d], d)
  <2>1. /\ UNCHANGED <<got, wpc>>
        /\ hpc[c] = "send" /\ msg[c] \in Msg /\ dest[c] \in Conns /\ ~closed[dest[c]]
        /\ chan' = [chan EXCEPT ![dest[c]] = Append(@, msg[c])]
    BY <1>2 DEF SendQueued, HandlerOK
  <2>2. /\ chan[b] \in Seq(Msg) /\ got[b][d] \in Nat /\ count[d] \in Nat
        /\ chan'[b] = IF b = dest[c] THEN Append(chan[b], msg[c]) ELSE chan[b]
    BY <2>1 DEF WritingOK, FrameOK
  <2>3. Linked(chan[b], got[b][d], d)
    BY <2>1 DEF NoGap
  <2>4. CASE ~(b = dest[c] /\ msg[c].src = d /\ msg[c].kind = "binary")
    <3>1. CASE b # dest[c]
      BY <2>1, <2>2, <2>3, <3>1
    <3>2. CASE b = dest[c]
      BY <2>1, <2>2, <2>3, <2>4, <3>2, AppendOther
    <3> QED
      BY <3>1, <3>2
  <2>5. CASE b = dest[c] /\ msg[c].src = d /\ msg[c].kind = "binary"
    <3>1. d = c /\ msg[c].n = count[d] /\ count[d] # 0 /\ Holds(d)
      BY <2>1, <2>5 DEF MsgInv, Holds
    <3>2. Pending(d, b) /\ Sent(d, b) = count[d] - 1
      BY <2>1, <2>5, <3>1 DEF Pending, Sent
    <3>3. d \in AgentConns => b \in apps[hs[d]]
      BY <2>1, <2>5, <3>1 DEF TodoInv
    <3>4. Reaches(d, b)
      BY <2>1, <2>5, <3>1, <3>3 DEF Reaches, Conns
    <3>5. LastIs(chan[b], got[b][d], d, 0) \/ LastIs(chan[b], got[b][d], d, count[d] - 1)
      BY <2>1, <3>2, <3>4 DEF LastInv
    <3>6. Numbered(chan[b], d, count[d])
      BY DEF BoundInv
    <3>7. Linked(Append(chan[b], msg[c]), got[b][d], d)
      BY <2>1, <2>2, <2>3, <2>5, <3>1, <3>5, <3>6, AppendNext
    <3> QED
      BY <2>1, <2>2, <2>5, <3>7
  <2> QED
    BY <2>4, <2>5
<1>3. ASSUME NEW c \in Conns, WriterWrites(c) PROVE Linked(chan'[b], got'[b][d], d)
  <2>1. /\ chan[c] \in Seq(Msg) /\ chan[c] # <<>> /\ wpc' = wpc
        /\ chan' = [chan EXCEPT ![c] = Tail(@)]
        /\ got'[c][d] = Noted(chan[c], got[c][d], d)
        /\ b # c => got'[b][d] = got[b][d]
    BY <1>3, WriteEffect
  <2>2. Linked(chan[b], got[b][d], d) /\ got[b][d] \in Nat
    BY <2>1 DEF NoGap, WritingOK
  <2>3. CASE b # c
    <3>1. chan'[b] = chan[b]
      BY <2>1, <2>3 DEF WritingOK
    <3> QED
      BY <2>1, <2>2, <2>3, <3>1
  <2>4. CASE b = c
    <3>1. chan'[b] = Tail(chan[b])
      BY <2>1, <2>4 DEF WritingOK
    <3> QED
      BY <2>1, <2>2, <2>4, <3>1, TailLinked
  <2> QED
    BY <2>3, <2>4
<1>4. ASSUME NEW c \in Conns, WriterFails(c) PROVE Linked(chan'[b], got'[b][d], d)
  <2>1. got' = got /\ wpc' = [wpc EXCEPT ![c] = "done"] /\ chan' = [chan EXCEPT ![c] = Tail(@)]
    BY <1>4 DEF WriterFails
  <2>2. b # c /\ wpc[b] = "ready" /\ chan'[b] = chan[b]
    BY <2>1 DEF WritingOK
  <2> QED
    BY <2>1, <2>2 DEF NoGap
<1> QED
  BY <1>1, <1>2, <1>3, <1>4, QueueSteps

\* An app notes its agent when it checks, and writes to no other one.
LEMMA SkipNext ==
    TypeInv /\ StartInv /\ MsgInv /\ BoundInv /\ SkipInv /\ [Next]_vars => SkipInv'
<1> SUFFICES ASSUME TypeInv, StartInv, MsgInv, BoundInv, SkipInv, [Next]_vars,
                    NEW b \in Conns, NEW d \in AppConns,
                    wpc'[b] = "ready", agentConn'[hs'[d]] = b, dest'[d] # b,
                    hpc'[d] = "read" \/ (hpc'[d] = "send" /\ Holds(d)')
             PROVE  LastIs(chan'[b], got'[b][d], d, 0)
  BY DEF SkipInv
<1> DEFINE Before == /\ wpc[b] = "ready" /\ agentConn[hs[d]] = b /\ dest[d] # b
                     /\ hpc[d] = "read" \/ (hpc[d] = "send" /\ Holds(d))
           Goal == LastIs(chan'[b], got'[b][d], d, 0)
<1>0. RegistryOK /\ WritingOK /\ FindingOK /\ FrameOK /\ PcOK /\ HandlerOK
  BY DEF TypeInv, TypeOK
<1>s. Before => LastIs(chan[b], got[b][d], d, 0)
  BY DEF SkipInv
<1>u. ASSUME UNCHANGED <<chan, got>>, Before \/ wpc[b] = "off" PROVE Goal
  <2>1. d \in Conns
    BY ConnFacts
  <2> QED
    BY <1>s, <1>u, <2>1, NothingSent
<1> HIDE DEF Goal
<1> USE <1>0, ConnFacts
<1> USE DEF registry, socket, writing, finding, frame, HandlerAt, TickerAt, Return, Holds
<1>1. ASSUME Quiet PROVE Goal
  <2>1. UNCHANGED <<chan, got, wpc, msg>>
    BY <1>1 DEF Quiet
  <2>2. hpc'[d] = hpc[d] /\ dest'[d] = dest[d] /\ hs'[d] = hs[d]
    BY <1>1 DEF Quiet, Frozen
  <2>3. hs[d] \in Session
    BY <2>2 DEF HandlerOK
  <2>4. agentConn[hs[d]] = b
    BY <1>1, <2>2, <2>3 DEF Quiet
  <2> QED
    BY <1>u, <2>1, <2>2, <2>4
<1>2. ASSUME NEW a \in AgentConns, RegisterInstall(a) PROVE Goal
  <2>1. /\ UNCHANGED <<chan, got, msg, dest, hs>>
        /\ hpc' = [hpc EXCEPT ![a] = "lookup"] /\ wpc' = [wpc EXCEPT ![a] = "ready"]
        /\ agentConn' = [agentConn EXCEPT ![hs[a]] = a]
        /\ hpc[a] = "install"
    BY <1>2 DEF RegisterInstall, Start
  <2>2. CASE b = a
    BY <1>u, <2>1, <2>2 DEF StartInv
  <2>3. CASE b # a
    <3>1. wpc[b] = "ready" /\ agentConn[hs[d]] = b
      BY <2>1, <2>3 DEF WritingOK, RegistryOK, HandlerOK
    <3>2. hpc'[d] = hpc[d]
      BY <2>1 DEF PcOK
    <3> QED
      BY <1>u, <2>1, <3>1, <3>2
  <2> QED
    BY <2>2, <2>3
<1>3. ASSUME NEW c \in AppConns, ConnectInstall(c) PROVE Goal
  <2>1. /\ UNCHANGED <<chan, got, msg, dest, hs, agentConn>>
        /\ hpc' = [hpc EXCEPT ![c] = "lookup"] /\ wpc' = [wpc EXCEPT ![c] = "ready"]
        /\ hpc[c] = "install"
    BY <1>3 DEF ConnectInstall, Start
  <2>2. CASE b = c
    BY <1>u, <2>1, <2>2 DEF StartInv
  <2>3. CASE b # c
    <3>1. wpc[b] = "ready" /\ hpc'[d] = hpc[d]
      BY <2>1, <2>3 DEF WritingOK, PcOK
    <3> QED
      BY <1>u, <2>1, <3>1
  <2> QED
    BY <2>2, <2>3
<1>4. ASSUME NEW c \in Conns, ProxyCheck(c) PROVE Goal
  <2>1. UNCHANGED <<chan, got, wpc, msg, agentConn>>
    BY <1>4 DEF ProxyCheck
  <2>2. d # c
    BY <1>4 DEF ProxyCheck, PcOK, FrameOK, FindingOK
  <2>3. hpc'[d] = hpc[d] /\ dest'[d] = dest[d] /\ hs'[d] = hs[d]
    BY <1>4, <2>2 DEF ProxyCheck, PcOK, FrameOK, FindingOK
  <2> QED
    BY <1>u, <2>1, <2>3
<1>5. ASSUME NEW a \in AgentConns, \/ ReadAgentFrame(a) \/ BroadcastLock(a)
                                   \/ BroadcastNext(a) \/ BroadcastUnlock(a)
      PROVE  Goal
  <2>1. UNCHANGED <<chan, got, wpc, hs, agentConn>>
    BY <1>5 DEF ReadAgentFrame, BroadcastLock, BroadcastNext, BroadcastUnlock
  <2>2. a # d
    OBVIOUS
  <2>3. hpc'[d] = hpc[d] /\ msg'[d] = msg[d] /\ dest'[d] = dest[d]
    BY <1>5, <2>2 DEF ReadAgentFrame, BroadcastLock, BroadcastNext, BroadcastUnlock,
       WriteBegins, WriteReturns, PcOK, FrameOK
  <2> QED
    BY <1>u, <2>1, <2>3
<1>6. ASSUME NEW c \in AppConns, ReadAppFrame(c) \/ ReadAppPing(c) \/ ReadAppDropped(c)
      PROVE  Goal
  <2>1. UNCHANGED <<chan, got, wpc, hs, agentConn>>
    BY <1>6 DEF ReadAppFrame, ReadAppPing, ReadAppDropped
  <2>2. CASE c # d
    <3>1. hpc'[d] = hpc[d] /\ msg'[d] = msg[d] /\ dest'[d] = dest[d]
      BY <1>6, <2>2 DEF ReadAppFrame, ReadAppPing, ReadAppDropped, WriteBegins,
         WriteReturns, PcOK, FrameOK
    <3> QED
      BY <1>u, <2>1, <3>1
  <2>3. CASE c = d
    <3>1. hpc[d] = "read"
      BY <1>6, <2>3 DEF ReadAppFrame, ReadAppPing, ReadAppDropped, Readable
    <3>2. ~ReadAppDropped(c)
      BY <2>3 DEF ReadAppDropped, PcOK
    <3>3. ~ReadAppPing(c)
      BY <2>3 DEF ReadAppPing, WriteBegins, WriteReturns, PcOK, FrameOK
    <3>4. dest'[d] = dest[d]
      BY <1>6, <2>3, <3>2, <3>3 DEF ReadAppFrame, WriteBegins, WriteReturns, PcOK, FrameOK
    <3> QED
      BY <1>u, <2>1, <3>1, <3>4
  <2> QED
    BY <2>2, <2>3
<1>7. ASSUME NEW c \in Conns, SendQueued(c) \/ SendDropped(c) PROVE Goal
  <2>1. UNCHANGED <<got, wpc, hs, agentConn>> /\ WriteReturns(c, msg[c])
    BY <1>7 DEF SendQueued, SendDropped
  <2>2. c # d
    BY <2>1 DEF WriteReturns, PcOK
  <2>3. hpc'[d] = hpc[d] /\ msg'[d] = msg[d] /\ dest'[d] = dest[d]
    BY <2>1, <2>2 DEF WriteReturns, PcOK, FrameOK
  <2>4. Before
    BY <2>1, <2>3
  <2>5. CASE chan' = chan
    BY <1>u, <2>1, <2>4, <2>5
  <2>6. CASE chan' = [chan EXCEPT ![dest[c]] = Append(@, msg[c])] /\ hpc[c] = "send"
    <3>1. msg[c] \in Msg /\ chan[b] \in Seq(Msg)
      BY <2>6 DEF HandlerOK, WritingOK
    <3>2. ~(msg[c].src = d /\ msg[c].kind = "binary")
      BY <2>2, <2>6 DEF MsgInv
    <3>3. chan'[b] = chan[b] \/ chan'[b] = Append(chan[b], msg[c])
      BY <2>6 DEF WritingOK
    <3>4. LastIs(chan[b], got[b][d], d, 0)
      BY <1>s, <2>4
    <3>5. LastIs(Append(chan[b], msg[c]), got[b][d], d, 0)
      BY <3>1, <3>2, <3>4, AppendOther
    <3> QED
      BY <2>1, <3>3, <3>4, <3>5 DEF Goal
  <2> QED
    BY <1>7, <2>5, <2>6 DEF SendQueued, SendDropped
<1>8. ASSUME NEW c \in Conns, WriterWrites(c) PROVE Goal
  <2>1. UNCHANGED <<wpc, hs, dest, msg, agentConn, hpc>>
    BY <1>8 DEF WriterWrites
  <2>2. LastIs(chan[b], got[b][d], d, 0)
    BY <1>s, <2>1
  <2>3. /\ chan[c] \in Seq(Msg) /\ chan[c] # <<>>
        /\ chan' = [chan EXCEPT ![c] = Tail(@)]
        /\ got'[c][d] = Noted(chan[c], got[c][d], d)
        /\ b # c => got'[b][d] = got[b][d]
    BY <1>8, WriteEffect
  <2>4. chan'[b] = IF b = c THEN Tail(chan[b]) ELSE chan[b]
    BY <2>3 DEF WritingOK
  <2>5. CASE b # c
    BY <2>2, <2>3, <2>4, <2>5 DEF Goal
  <2>6. CASE b = c
    BY <2>2, <2>3, <2>4, <2>6, TailLastIs DEF Goal
  <2> QED
    BY <2>5, <2>6
<1>9. ASSUME NEW c \in Conns, WriterFails(c) \/ WriterEnds(c) PROVE Goal
  <2>1. /\ UNCHANGED <<got, hs, dest, msg, agentConn, hpc>>
        /\ wpc' = [wpc EXCEPT ![c] = "done"]
        /\ \A e \in Conns : e # c => chan'[e] = chan[e]
    BY <1>9 DEF WriterFails, WriterEnds, WritingOK
  <2>2. b # c /\ wpc[b] = "ready"
    BY <2>1 DEF WritingOK
  <2> QED
    BY <1>s, <2>1, <2>2 DEF Goal
<1>10. Goal
  BY <1>1, <1>2, <1>3, <1>4, <1>5, <1>6, <1>7, <1>8, <1>9, QuietSteps, Zenon
     DEF Moves
<1> QED
  BY <1>10 DEF Goal

\* The parts of the invariant about frames.
FlowInv == StartInv /\ MsgInv /\ BoundInv /\ LastInv /\ SkipInv /\ NoGap

\* Initially there are none.
LEMMA InitFlow == Init => FlowInv
<1> SUFFICES ASSUME Init PROVE FlowInv
  OBVIOUS
<1> USE ConnFacts DEF Init
<1>1. StartInv /\ MsgInv
  BY DEF StartInv, MsgInv, Relaying, Holds
<1>2. \A q \in {<<>>} : DOMAIN q = {}
  OBVIOUS
<1>3. \A c, d \in Conns : Stream(chan[c], d) = {}
  BY <1>2 DEF Stream
<1>4. BoundInv
  BY <1>3 DEF BoundInv, Numbered
<1>5. LastInv /\ SkipInv /\ NoGap
  BY DEF LastInv, SkipInv, NoGap
<1> QED
  BY <1>1, <1>4, <1>5 DEF FlowInv

\* The parts together are inductive, on top of the invariant of RelayProofs.
LEMMA NextFlow == IInv /\ FlowInv /\ [Next]_vars => FlowInv'
  BY StartNext, MsgNext, BoundNext, LastNext, SkipNext, GapNext DEF IInv, FlowInv

\* What proxyAgent and proxyApp forward reaches each peer in order and complete
\* while its write loop runs: drops at a full MsgChan, apps that come and go and
\* a replaced agent leave no hole in the binary frames of a source.
THEOREM FramesWithoutGaps == Spec => []NoGap
<1>1. Init => FlowInv
  BY InitFlow
<1>2. IInv /\ FlowInv /\ [Next]_vars => FlowInv'
  BY NextFlow
<1>3. FlowInv => NoGap
  BY DEF FlowInv
<1> QED
  BY <1>1, <1>2, <1>3, Invariance, PTL DEF Spec

=============================================================================
