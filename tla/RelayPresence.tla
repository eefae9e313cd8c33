---------------------------- MODULE RelayPresence ----------------------------
(***************************************************************************)
(* The interface between the relay engine and the share sessions: whether  *)
(* a client id has an agent, which remote addresses watch it, and the      *)
(* tasks in the database that departures start.  Relay implements it (its  *)
(* tasks never run); the part of ShareSession that stands for the relay,   *)
(* of one client id, takes its steps and no others (ShareProofs).          *)
(***************************************************************************)
EXTENDS Naturals

CONSTANTS
    Clients, Addresses,
    Starters,    \* who starts tasks
    OfflineBy,   \* the ones who start markMachineOffline for a client id
    EndedBy      \* the ones who start markStreamEnded for a client id

VARIABLES
    up,          \* a client id has an agent, or one that registers
    watching,    \* the remote addresses with an app that is connected to it
    tasks        \* the tasks somebody has started that have not run

vars == <<up, watching, tasks>>

Init ==
    /\ up = [m \in Clients |-> FALSE]
    /\ watching = [m \in Clients |-> {}]
    /\ tasks = [t \in Starters |-> 0]

Starts(S) == \E t \in S : tasks' = [tasks EXCEPT ![t] = @ + 1]

\* An agent that takes the place of another one is not seen.
AgentConnects(m) ==
    /\ ~up[m]
    /\ up' = [up EXCEPT ![m] = TRUE]
    /\ UNCHANGED <<watching, tasks>>

\* The apps go with the agent, and one task marks the machine offline; none
\* says that the stream ended.
AgentLeaves(m) ==
    /\ up[m]
    /\ up' = [up EXCEPT ![m] = FALSE]
    /\ watching' = [watching EXCEPT ![m] = {}]
    /\ Starts(OfflineBy[m])

\* An app joins while there is an agent; one that takes the place of another
\* one with its address is not seen.
AppJoins(m, x) ==
    /\ up[m] /\ x \notin watching[m]
    /\ watching' = [watching EXCEPT ![m] = @ \cup {x}]
    /\ UNCHANGED <<up, tasks>>

\* The last app that leaves starts one task, the others none.
AppLeaves(m, x) ==
    /\ x \in watching[m]
    /\ watching' = [watching EXCEPT ![m] = @ \ {x}]
    /\ IF watching[m] = {x} THEN Starts(EndedBy[m]) ELSE UNCHANGED tasks
    /\ UNCHANGED up

TaskRuns(t) ==
    /\ tasks[t] > 0
    /\ tasks' = [tasks EXCEPT ![t] = @ - 1]
    /\ UNCHANGED <<up, watching>>

Next ==
    \/ \E m \in Clients : AgentConnects(m) \/ AgentLeaves(m)
    \/ \E m \in Clients, x \in Addresses : AppJoins(m, x) \/ AppLeaves(m, x)
    \/ \E t \in Starters : TaskRuns(t)

Spec == Init /\ [][Next]_vars

=============================================================================
