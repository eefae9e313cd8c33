----------------------------- MODULE TerminalHub -----------------------------
(***************************************************************************)
(* The shells of the agent: agent/pkg/terminal/pty.go (one shell, its      *)
(* listeners and the sizes of its viewers) and manager.go (the shells that *)
(* have a name and outlive their viewers).                                 *)
(*                                                                         *)
(* A shell is used by the goroutines of many connections; AgentSession     *)
(* composes the operators of this module into their steps.  Two steps are  *)
(* the shell's own: the goroutine of broadcastLoop hands out what the      *)
(* shell prints, and cleans up when it ends.  Terminal.mu is held for one  *)
(* bounded pass each time, so what it guards is one step; the package's mu *)
(* is held while a shell is being started and is a variable.               *)
(***************************************************************************)
EXTENDS Integers, Sequences, FiniteSetsExt

CONSTANTS
    Names,        \* the names of native sessions
    Terms,        \* bound: the shells that may be started
    IDs,          \* the client ids, keys of Terminal.clientSizes
    Listeners,    \* the listener channels that may be made
    ListenerCap,  \* the capacity of a listener channel (64)
    NoTerm,       \* nil
    NoSize        \* no entry in Terminal.clientSizes

ASSUME HubAssumption ==
    /\ ListenerCap \in Nat \ {0}
    /\ NoTerm \notin Terms
    /\ NoSize \notin Nat \X Nat

VARIABLES
    life,       \* "none", "running", "ended" (the loop cleaned up) or "gone"
    onExit,     \* the name Terminal.OnExit was made for, in a set of at most one
    exited,     \* OnExit has run
    killed,     \* Close was called
    listeners,  \* Terminal.listeners
    sizes,      \* Terminal.clientSizes
    size,       \* Terminal.rows and cols
    out,        \* how many chunks the shell has printed
    inbox,      \* the content of a listener channel
    shut,       \* the listener channel was closed
    sessions,   \* the map of manager.go
    mu          \* the mutex of manager.go is held by a call that starts a shell

shells  == <<life, onExit, exited, killed>>
viewers == <<sizes, size>>
feeds   == <<listeners, out, inbox, shut>>
names   == <<sessions, mu>>
hubVars == <<shells, viewers, feeds, names>>

Lives == {"none", "running", "ended", "gone"}

ShellsOK ==
    /\ life \in [Terms -> Lives]
    /\ onExit \in [Terms -> SUBSET Names]
    /\ exited \in [Terms -> BOOLEAN]
    /\ killed \in [Terms -> BOOLEAN]
ViewersOK ==
    /\ sizes \in [Terms -> [IDs -> (Nat \X Nat) \cup {NoSize}]]
    /\ size \in [Terms -> (Nat \X Nat) \cup {NoSize}]
FeedsOK ==
    /\ listeners \in [Terms -> SUBSET Listeners]
    /\ out \in [Terms -> Nat]
    /\ inbox \in [Listeners -> Seq(Nat)]
    /\ \A l \in Listeners : Len(inbox[l]) <= ListenerCap
    /\ shut \in [Listeners -> BOOLEAN]
NamesOK ==
    /\ sessions \in [Names -> Terms \cup {NoTerm}]
    /\ mu \in BOOLEAN

HubInit ==
    /\ life = [t \in Terms |-> "none"]
    /\ onExit = [t \in Terms |-> {}]
    /\ exited = [t \in Terms |-> FALSE]
    /\ killed = [t \in Terms |-> FALSE]
    /\ listeners = [t \in Terms |-> {}]
    /\ sizes = [t \in Terms |-> [i \in IDs |-> NoSize]]
    /\ size = [t \in Terms |-> NoSize]
    /\ out = [t \in Terms |-> 0]
    /\ inbox = [l \in Listeners |-> <<>>]
    /\ shut = [l \in Listeners |-> FALSE]
    /\ sessions = [n \in Names |-> NoTerm]
    /\ mu = FALSE

-----------------------------------------------------------------------------
(* Terminal: its viewers.                                                  *)

\* The largest rows and columns every one of the sizes in S has.
Common(S) == <<Min({z[1] : z \in S}), Min({z[2] : z \in S})>>

SizesIn(zs) == {zs[i] : i \in IDs} \ {NoSize}

\* A window without rows or without columns is no entry, and neither is NoSize,
\* which stands for the call with 0 rows and 0 columns.
Entry(z) == IF z = NoSize \/ z[1] = 0 \/ z[2] = 0 THEN NoSize ELSE z

F_LatestClientSize(t, i, z) ==
    /\ sizes' = [sizes EXCEPT ![t][i] = Entry(z)]
    /\ size' = [size EXCEPT ![t] = IF Entry(z) = NoSize THEN @ ELSE z]

UpdateClientSize(t, i, z) ==
    LET left == SizesIn([sizes[t] EXCEPT ![i] = Entry(z)])
    IN  /\ sizes' = [sizes EXCEPT ![t][i] = Entry(z)]
        /\ size' = [size EXCEPT ![t] = IF left = {} THEN @ ELSE Common(left)]

AddListener(t, l) == listeners' = [listeners EXCEPT ![t] = @ \cup {l}]

RemoveListener(t, l) == listeners' = [listeners EXCEPT ![t] = @ \ {l}]

-----------------------------------------------------------------------------
(* Terminal: the shell and its broadcast loop.                             *)

\* The next shell that StartShell makes.
Fresh == CHOOSE t \in Terms : life[t] = "none"
MayStart == \E t \in Terms : life[t] = "none"

StartShell(z) ==
    /\ MayStart
    /\ life' = [life EXCEPT ![Fresh] = "running"]
    /\ size' = [size EXCEPT ![Fresh] = z]

F_NeverFull(l) == TRUE

HasRoom(l) == Len(inbox[l]) < ListenerCap

\* One turn of broadcastLoop: a listener without room misses the chunk.
Broadcast(t) ==
    /\ life[t] = "running"
    /\ out' = [out EXCEPT ![t] = @ + 1]
    /\ inbox' = [l \in Listeners |->
                   IF l \in listeners[t] /\ HasRoom(l)
                   THEN Append(inbox[l], out'[t]) ELSE inbox[l]]
    /\ UNCHANGED <<shells, viewers, names, listeners, shut>>

\* The shell exits, or Close killed it, and the loop closes the listeners.
EndLoop(t) ==
    /\ life[t] = "running"
    /\ life' = [life EXCEPT ![t] = "ended"]
    /\ shut' = [l \in Listeners |-> shut[l] \/ l \in listeners[t]]
    /\ listeners' = [listeners EXCEPT ![t] = {}]
    /\ UNCHANGED <<onExit, exited, killed, viewers, out, inbox, names>>

\* The loop's last statement, OnExit unless it is still nil.
F_UnlockedOnExit(t) ==
    /\ life[t] = "ended"
    /\ life' = [life EXCEPT ![t] = "gone"]
    /\ sessions' = [n \in Names |-> IF n \in onExit[t] /\ sessions[n] = t
                                    THEN NoTerm ELSE sessions[n]]
    /\ exited' = [exited EXCEPT ![t] = onExit[t] # {}]
    /\ UNCHANGED <<onExit, killed, viewers, feeds, mu>>

OnExit(t) ==
    /\ life[t] = "ended"
    /\ life' = [life EXCEPT ![t] = "gone"]
    /\ \/ /\ onExit[t] = {}
          /\ UNCHANGED <<exited, sessions>>
       \/ /\ onExit[t] # {}
          /\ ~mu
          /\ sessions' = [n \in Names |-> IF n \in onExit[t] /\ sessions[n] = t
                                          THEN NoTerm ELSE sessions[n]]
          /\ exited' = [exited EXCEPT ![t] = TRUE]
    /\ UNCHANGED <<onExit, killed, viewers, feeds, mu>>

Close(t) == killed' = [killed EXCEPT ![t] = TRUE]

-----------------------------------------------------------------------------
(* manager.go: GetOrCreateNativeSession, in three steps when a shell is    *)
(* started, between which the new shell may already exit.                  *)

Existing(n) == ~mu /\ sessions[n] # NoTerm

F_UnlockedStart(n, z) ==
    /\ ~mu
    /\ sessions[n] = NoTerm
    /\ StartShell(z)
    /\ mu' = FALSE

StartNamed(n, z) ==
    /\ ~mu
    /\ sessions[n] = NoTerm
    /\ StartShell(z)
    /\ mu' = TRUE

SetOnExit(n, t) == onExit' = [onExit EXCEPT ![t] = {n}]

Register(n, t) ==
    /\ sessions' = [sessions EXCEPT ![n] = t]
    /\ mu' = FALSE
==============================================================================
