------------------------------- MODULE MCRelay -------------------------------
(***************************************************************************)
(* Instances of Relay for TLC: one machine m1, up to two agents and three  *)
(* apps, queues of one frame.  The peers differ from run to run in what    *)
(* they send and in how their networks fail, so that each run stays small  *)
(* and its question stays in reach.                                        *)
(***************************************************************************)
EXTENDS Relay, TLC

CONSTANTS m1, a1, a2, p1, p2, p3, x1, x2

OneMachine == [c \in Conns |-> m1]

\* p1 and p2 are behind one remote address, so that the later one takes the
\* place of the earlier one; p3 has an address of its own.
Address == [c \in AppConns |-> IF c = p3 THEN x2 ELSE x1]

PerSide(agents, appSide) ==
    [c \in Conns |-> IF c \in AgentConns THEN agents ELSE appSide]

\* relay_flow: the agent's output, of both kinds, is enough to fill a queue
\* twice; the agent may vanish, the app pings and may stop reading.
FlowFrames == PerSide(3, 0)
FlowKinds  == PerSide({"binary", "text"}, {"ping"})
FlowFaults == PerSide({"leave"}, {"stall"})

\* relay_replace: two agents of one machine and an app, a frame from each.
ReplaceFrames == PerSide(1, 1)
ReplaceKinds  == PerSide({"binary"}, {"binary"})
ReplaceFaults == [c \in Conns |-> IF c = a2 THEN {} ELSE {"leave"}]

\* relay_apps: an agent and three apps that come and go and send nothing; the
\* agent and p3 may vanish, p1 and p2 replace each other.
AppsFrames == PerSide(0, 0)
AppsKinds  == PerSide({}, {})
AppsFaults == [c \in Conns |-> IF c \in {a1, p3} THEN {"leave"} ELSE {}]

\* relay_blocked: binary output only.
LiveFrames == PerSide(3, 0)
LiveKinds  == PerSide({"binary"}, {"ping"})
LiveFaults == PerSide({"stall"}, {"stall"})
=============================================================================
