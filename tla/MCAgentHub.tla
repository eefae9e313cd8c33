----------------------------- MODULE MCAgentHub -----------------------------
(***************************************************************************)
(* A client that switches between a native session and a shell of its own, *)
(* and one that shares the native session and has two windows.             *)
(***************************************************************************)
EXTENDS AgentSession, TLC

CONSTANTS c1, c2, n1, t1, t2

MCInits == c1 :> 2 @@ c2 :> 1
MCIDOf == [c \in Conns |-> c]
MCSizes == c1 :> {<<2, 3>>} @@ c2 :> {<<3, 2>>, <<1, 4>>}
MCListeners == {<<c1, 1>>, <<c1, 2>>, <<c2, 1>>}
\* Output through full queues; switches beside another viewer; shells that stop
\* reading or do not start.
MCPlans == {
    [asks |-> c1 :> <<{n1}, {n1, Shell}>> @@ c2 :> <<>>,
     leaves |-> {c1}, output |-> t1 :> 2 @@ t2 :> 0, deaf |-> {}, texts |-> 0,
     fails |-> FALSE],
    [asks |-> c1 :> <<{n1, Shell}>> @@ c2 :> <<{n1}>>,
     leaves |-> {c1}, output |-> t1 :> 0 @@ t2 :> 0, deaf |-> {}, texts |-> 0,
     fails |-> FALSE],
    [asks |-> c1 :> <<{Tmux, n1}, {Shell}>> @@ c2 :> <<>>,
     leaves |-> {c1}, output |-> t1 :> 0 @@ t2 :> 0, deaf |-> {t1}, texts |-> 1,
     fails |-> TRUE] }
==============================================================================
