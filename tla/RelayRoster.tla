----------------------------- MODULE RelayRoster -----------------------------
(***************************************************************************)
(* What the relay engine promises about who is reachable under a client    *)
(* id: at most one agent and a set of apps with different remote addresses *)
(* that all leave with the agent.  A connection has one chance to get on   *)
(* the roster and never comes back once it lost its place.                 *)
(***************************************************************************)
CONSTANTS Clients, AgentConns, AppConns, ClientOf, AppID, NoConn

VARIABLES
    agent,    \* the agent of a client id
    members,  \* the apps connected to it
    seen      \* the connections that had their chance

vars == <<agent, members, seen>>

Init ==
    /\ agent = [m \in Clients |-> NoConn]
    /\ members = [m \in Clients |-> {}]
    /\ seen = {}

\* A new agent takes the place of the previous one and keeps its apps.
AgentJoins(a) ==
    /\ a \notin seen
    /\ seen' = seen \cup {a}
    /\ agent' = [agent EXCEPT ![ClientOf[a]] = a]
    /\ UNCHANGED members

\* An app takes the place of the app with the same address.
AppJoins(c) ==
    /\ c \notin seen
    /\ seen' = seen \cup {c}
    /\ members' = [members EXCEPT
         ![ClientOf[c]] = {d \in @ : AppID[d] # AppID[c]} \cup {c}]
    /\ UNCHANGED agent

\* The agent is offline, or its session ended while c was connecting.
TurnedAway(c) ==
    /\ c \notin seen
    /\ seen' = seen \cup {c}
    /\ UNCHANGED <<agent, members>>

AppLeaves(c) ==
    /\ c \in members[ClientOf[c]]
    /\ members' = [members EXCEPT ![ClientOf[c]] = @ \ {c}]
    /\ UNCHANGED <<agent, seen>>

\* The agent leaves and takes all apps with it.
AgentLeaves(a) ==
    /\ agent[ClientOf[a]] = a
    /\ agent' = [agent EXCEPT ![ClientOf[a]] = NoConn]
    /\ members' = [members EXCEPT ![ClientOf[a]] = {}]
    /\ UNCHANGED seen

Next ==
    \/ \E a \in AgentConns : AgentJoins(a) \/ AgentLeaves(a)
    \/ \E c \in AppConns : AppJoins(c) \/ AppLeaves(c)
    \/ \E c \in AgentConns \cup AppConns : TurnedAway(c)

Spec == Init /\ [][Next]_vars

=============================================================================
