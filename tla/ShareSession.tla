---------------------------- MODULE ShareSession ----------------------------
(***************************************************************************)
(* The share sessions of one machine and the machine's presence, as the    *)
(* backend keeps them in its database: handlers/agent.go, machine.go,      *)
(* share_session.go and share_session_helpers.go, middleware/auth.go, and  *)
(* the two tasks relay.go starts when connections leave.                   *)
(*                                                                         *)
(* A request is a sequence of SQL statements and other requests run        *)
(* between them: a handler loads rows into memory, decides, and writes.    *)
(* Handlers without a transaction (Heartbeat, Connect, Refresh,            *)
(* ShareSessionAuth) take a step per write; those in a transaction         *)
(* (CreateShareSession, ListMachines, markStreamEnded) take one step for   *)
(* what they read and one for their commit; markMachineOffline reads       *)
(* nothing it depends on and is one step.  Statements that follow each     *)
(* other in one handler and do not write are one step.                     *)
(*                                                                         *)
(* Time: left[s] is what is left of the lease of s (ExpiresAt - now), and  *)
(* unseen the time since LastSeenAt; Tick lets time pass.  A mutant, F_Xyz, *)
(* stands before the definition F it is a faulty version of.               *)
(***************************************************************************)
EXTENDS Integers, FiniteSets, FiniteSetsExt

CONSTANTS
    Requests,       \* bound: how many requests and tasks run at a time
    Viewers,        \* the apps
    MaxShares,      \* bound: how many rows of share_sessions are created
    MaxTasks,       \* bound: how many tasks of one kind wait to run
    MinTTL, DefaultTTL, MaxTTL,    \* of a lease
    RefreshWindow,  \* shareSessionRefreshWindow
    Grace,          \* Connect accepts a lease this long after its end
    OfflineAfter,   \* machinePresenceOfflineAfter
    Resets,         \* the values of reset_status in heartbeats
    Enables,        \* the values of share_enabled in heartbeats
    Calls,          \* bound: the kinds of requests that are made
    Failures        \* whether statements may fail

ASSUME ShareAssumption ==
    /\ MaxShares \in Nat /\ MaxTasks \in Nat
    /\ MinTTL \in Nat \ {0} /\ DefaultTTL \in MinTTL..MaxTTL /\ MaxTTL \in Nat
    /\ RefreshWindow \in Nat /\ Grace \in Nat /\ OfflineAfter \in Nat
    /\ Resets \subseteq BOOLEAN /\ Enables \subseteq BOOLEAN
    /\ Failures \in BOOLEAN
    /\ 0 \notin Viewers

VARIABLES
    machine,   \* Machine.Status
    unseen,    \* now - Machine.LastSeenAt, cut off after OfflineAfter, or Never
    status,    \* ShareSession.Status, by ID; rows are created in this order
    left,      \* ShareSession.ExpiresAt - now
    shown,     \* a person, not the agent, was given the current tokens
    agentUp,   \* an agent is registered at the relay
    viewing,   \* how far an app is: "out", "asking", "admitted", "in"
    offTasks,  \* markMachineOffline tasks that have not run
    endTasks,  \* markStreamEnded tasks that have not run
    pc,        \* where a request is
    m,         \* machine.Status in the memory of a request
    s,         \* the share session in the memory of a request
    to,        \* the status the request is going to write to s
    stale,     \* the machine a request loaded had not been seen for too long
    who        \* the app a request is from

rows    == <<status, left, shown>>
relay   == <<agentUp, viewing, offTasks, endTasks>>
request == <<pc, m, s, to, stale, who>>
vars    == <<machine, unseen, rows, relay, request>>

Shares  == 1..MaxShares
TTLs    == MinTTL..MaxTTL    \* normalizeShareSessionTTL
Machine == {"offline", "online", "waiting", "streaming"}
Live    == {"waiting", "streaming"}
Final   == {"expired", "cancelled", "ended"}
PC      == {"idle", "beat", "reset", "cancel", "lease", "extend", "ensure",
            "save", "mark", "owner", "list", "sweep", "close", "renew", "activate",
            "end"}
Never   == OfflineAfter + 2    \* LastSeenAt is nil

TypeOK ==
    /\ machine \in Machine
    /\ unseen \in 0..Never
    /\ status \in [Shares -> Live \cup Final \cup {"none"}]
    /\ left \in [Shares -> (-Grace)..MaxTTL]
    /\ shown \in [Shares -> BOOLEAN]
    /\ agentUp \in BOOLEAN
    /\ viewing \in [Viewers -> {"out", "asking", "admitted", "in"}]
    /\ offTasks \in 0..MaxTasks /\ endTasks \in 0..MaxTasks
    /\ pc \in [Requests -> PC]
    /\ m \in [Requests -> Machine]
    /\ s \in [Requests -> Shares \cup {0}]
    /\ to \in [Requests -> Live \cup Final]
    /\ stale \in [Requests -> BOOLEAN]
    /\ who \in [Requests -> Viewers \cup {0}]

Init ==
    /\ machine = "offline" /\ unseen = Never
    /\ status = [i \in Shares |-> "none"]
    /\ left = [i \in Shares |-> 0]
    /\ shown = [i \in Shares |-> FALSE]
    /\ agentUp = FALSE
    /\ viewing = [v \in Viewers |-> "out"]
    /\ offTasks = 0 /\ endTasks = 0
    /\ pc = [r \in Requests |-> "idle"]
    /\ m = [r \in Requests |-> "offline"]
    /\ s = [r \in Requests |-> 0]
    /\ to = [r \in Requests |-> "waiting"]
    /\ stale = [r \in Requests |-> FALSE]
    /\ who = [r \in Requests |-> 0]

-----------------------------------------------------------------------------
(* What a request has in memory, and the statements it is made of.         *)

Memory(r, pc_, m_, s_, to_, stale_, who_) ==
    /\ pc' = [pc EXCEPT ![r] = pc_]
    /\ m' = [m EXCEPT ![r] = m_]
    /\ s' = [s EXCEPT ![r] = s_]
    /\ to' = [to EXCEPT ![r] = to_]
    /\ stale' = [stale EXCEPT ![r] = stale_]
    /\ who' = [who EXCEPT ![r] = who_]

\* The request goes on with machine.Status = m_, or with share session s_; it
\* returns.
Goes(r, pc_, m_)     == Memory(r, pc_, m_, 0, "waiting", FALSE, who[r])
Holds(r, pc_, m_, i) == Memory(r, pc_, m_, i, "waiting", FALSE, who[r])
Returns(r)           == Memory(r, "idle", "offline", 0, "waiting", FALSE, 0)

\* "SELECT ... ORDER BY created_at DESC", 0 when there is no row.
Newest(S) == IF S = {} THEN 0 ELSE Max(S)
WithStatus(st, S) == {i \in Shares : st[i] \in S}

\* getActiveShareSession
ActiveIn_Waiting(st) == Newest(WithStatus(st, {"waiting"}))
ActiveIn(st)         == Newest(WithStatus(st, Live))

\* expireWaitingShareSessions, cancelWaiting..., endStreaming..., release...
Lapsed(i)   == left[i] <= 0
Expired     == [i \in Shares |-> IF status[i] = "waiting" /\ Lapsed(i)
                                 THEN "expired" ELSE status[i]]
Cancelled   == [i \in Shares |-> IF status[i] = "waiting" THEN "cancelled"
                                                          ELSE status[i]]
Released_WaitingOnly(st) == [i \in Shares |-> IF st[i] = "waiting" THEN "cancelled"
                                              ELSE st[i]]
Released(st) == [i \in Shares |-> CASE st[i] = "waiting" -> "cancelled"
                                    [] st[i] = "streaming" -> "ended"
                                    [] OTHER -> st[i]]

\* The lease a write of ExpiresAt = now.Add(ttl) leaves.
Lease_Added(i, ttl) == left[i] + ttl
Lease(i, ttl)       == ttl

IsStale_Never == FALSE
IsStale       == unseen > OfflineAfter    \* or there was no heartbeat yet

\* syncMachinePresence leaves such a machine as it is.
Unheard == unseen = Never /\ machine = "offline"

\* UPDATE machines SET status
Mark(r) ==
    /\ pc[r] = "mark"
    /\ machine' = m[r]
    /\ viewing' = [v \in Viewers |-> IF v = who[r] THEN "admitted" ELSE viewing[v]]
    /\ Returns(r)
    /\ UNCHANGED <<unseen, rows, agentUp, offTasks, endTasks>>

\* A statement fails, or the client goes away: what was written stays, except
\* in a transaction.  The app of a failed ShareSessionAuth is not let in.  A row
\* beyond the bound is never written.
Fails(r) ==
    /\ pc[r] # "idle"
    /\ Failures \/ (pc[r] \in {"owner", "save"} /\ WithStatus(status, {"none"}) = {})
    /\ viewing' = [v \in Viewers |-> IF v = who[r] THEN "out" ELSE viewing[v]]
    /\ Returns(r)
    /\ UNCHANGED <<machine, unseen, rows, agentUp, offTasks, endTasks>>

-----------------------------------------------------------------------------
(* The heartbeat of the agent.                                             *)

\* The heartbeats have a goroutine and a connection of their own: one may be
\* sent, or arrive, when the relay has no agent.
BeatLoads(r) ==
    /\ pc[r] = "idle"
    /\ Goes(r, "beat", machine)
    /\ UNCHANGED <<machine, unseen, rows, relay>>

\* Where the handler goes after its first writes, st being machine.Status.
AfterBeat(r, st, share) ==
    \/ share /\ st = "streaming" /\ Goes(r, "lease", st)
    \/ share /\ st # "streaming" /\ Goes(r, "ensure", st)
    \/ ~share /\ st = "waiting" /\ Goes(r, "cancel", st)
    \/ ~share /\ st # "waiting" /\ Returns(r)

\* A machine that was offline is online; any other status is written back as
\* it was read.
Seen(st) == IF st = "offline" THEN "online" ELSE st

BeatStores(r) ==
    /\ pc[r] = "beat"
    /\ unseen' = 0
    /\ machine' = Seen(m[r])
    /\ \E reset \in Resets, share \in Enables :
         \/ reset /\ Seen(m[r]) = "streaming" /\ Goes(r, "reset", "waiting")
         \/ ~(reset /\ Seen(m[r]) = "streaming") /\ AfterBeat(r, Seen(m[r]), share)
    /\ UNCHANGED <<rows, relay>>

\* The error of this write is not looked at.
BeatResets(r) ==
    /\ pc[r] = "reset"
    /\ machine' = m[r] \/ (Failures /\ UNCHANGED machine)
    /\ \E share \in Enables : AfterBeat(r, m[r], share)
    /\ UNCHANGED <<unseen, rows, relay>>

\* share_enabled is false: waiting sessions are cancelled.
BeatCancels(r) ==
    /\ pc[r] = "cancel"
    /\ status' = Cancelled
    /\ Goes(r, "mark", "online")
    /\ UNCHANGED <<machine, unseen, left, shown, relay>>

\* refreshStreamingShareSessionLease
LeaseLoads(r) ==
    /\ pc[r] = "lease"
    /\ LET i == ActiveIn(status) IN
       \/ i = 0 /\ Goes(r, "mark", "online")
       \/ i # 0 /\ status[i] = "waiting" /\ Goes(r, "mark", "waiting")
       \/ i # 0 /\ status[i] = "streaming" /\ left[i] > RefreshWindow /\ Returns(r)
       \/ /\ i # 0 /\ status[i] = "streaming" /\ left[i] <= RefreshWindow
          /\ Holds(r, "extend", "streaming", i)
    /\ UNCHANGED <<machine, unseen, rows, relay>>

LeaseExtends(r) ==
    /\ pc[r] = "extend"
    /\ \E ttl \in TTLs : left' = [left EXCEPT ![s[r]] = Lease(s[r], ttl)]
    /\ Returns(r)
    /\ UNCHANGED <<machine, unseen, status, shown, relay>>

\* ensureWaitingShareSession up to the writes of createOrRotate...
EnsureLoads(r) ==
    /\ pc[r] = "ensure"
    /\ status' = Expired
    /\ LET i == ActiveIn(Expired) IN
       \/ i # 0 /\ Expired[i] = "streaming" /\ Returns(r)
       \/ /\ i # 0 /\ Expired[i] = "waiting" /\ left[i] > RefreshWindow
          /\ Goes(r, "mark", "waiting")
       \/ /\ i # 0 => Expired[i] = "waiting" /\ left[i] <= RefreshWindow
          /\ Holds(r, "save", m[r], i)
    /\ UNCHANGED <<machine, unseen, left, shown, relay>>

\* createOrRotateWaitingShareSession saves the row i it loaded, all of its
\* columns, or inserts one if i is 0.
Rotate(st, i, person) ==
    LET n == IF i = 0 THEN Newest(WithStatus(st, Live \cup Final)) + 1 ELSE i
    IN  /\ n \in Shares
        /\ status' = [st EXCEPT ![n] = "waiting"]
        /\ \E ttl \in TTLs : left' = [left EXCEPT ![n] = Lease(n, ttl)]
        /\ shown' = [shown EXCEPT ![n] = person]

\* The agent does not read the tokens in the answer to its heartbeat.
EnsureSaves(r) ==
    /\ pc[r] = "save"
    /\ Rotate(status, s[r], FALSE)
    /\ Goes(r, "mark", "waiting")
    /\ UNCHANGED <<machine, unseen, relay>>

-----------------------------------------------------------------------------
(* The owner: CreateShareSession and ListMachines, each in a transaction   *)
(* that begins with syncMachinePresence.  What it expires is seen at the   *)
(* commit; "now", and what is still active, are those of its beginning.    *)

\* The rows after expireWaitingShareSessions of a request that found s[r]
\* active.  A bound: other leases that end before the commit end with it.
Swept(r) == [i \in Shares |-> IF i = s[r] THEN status[i] ELSE Expired[i]]

\* The status of a machine that was seen lately.
Presence(st) == IF ActiveIn(st) = 0 THEN "online" ELSE st[ActiveIn(st)]

OwnerLoads(r) ==
    /\ pc[r] = "idle"
    /\ Memory(r, IF Unheard THEN "sweep" ELSE "owner", machine,
              ActiveIn(Expired), "waiting", IsStale, 0)
    /\ UNCHANGED <<machine, unseen, rows, relay>>

OwnerCommits(r) ==
    /\ pc[r] = "owner"
    /\ \/ /\ stale[r]
          /\ status' = Released(Swept(r)) /\ machine' = "offline"
          /\ UNCHANGED <<left, shown>>
       \/ /\ ~stale[r]
          /\ Rotate(Swept(r), s[r], TRUE) /\ machine' = "waiting"
    /\ Returns(r)
    /\ UNCHANGED <<unseen, relay>>

\* The status is written if it changes, or if the machine is stale.
ListLoads(r) ==
    /\ pc[r] = "idle"
    /\ LET next == IF IsStale THEN "offline" ELSE Presence(Expired)
           same == Unheard \/ (~IsStale /\ machine = next)
       IN  Memory(r, IF same THEN "sweep" ELSE "list", next, ActiveIn(Expired),
                  "waiting", IsStale, 0)
    /\ UNCHANGED <<machine, unseen, rows, relay>>

ListCommits(r) ==
    /\ pc[r] = "list"
    /\ status' = IF stale[r] THEN Released(Swept(r)) ELSE Swept(r)
    /\ machine' = m[r]
    /\ Returns(r)
    /\ UNCHANGED <<unseen, left, shown, relay>>

\* ListMachines has no status to write; CreateShareSession answers that the
\* machine is offline.
SweepCommits(r) ==
    /\ pc[r] = "sweep"
    /\ status' = Swept(r)
    /\ Returns(r)
    /\ UNCHANGED <<machine, unseen, left, shown, relay>>

-----------------------------------------------------------------------------
(* The apps: Connect, Refresh, and ShareSessionAuth before the websocket.  *)

\* A person holds the current tokens of i, and i is neither waiting nor
\* streaming: the other statuses are refused.
Usable_Known(i) == shown[i]
Usable(i)       == shown[i] /\ status[i] \in Live

Lost(st) == IF st = "waiting" THEN "expired" ELSE "ended"

\* Connect changes the database only when the lease is past its grace.
ConnectLoads(r) ==
    /\ pc[r] = "idle"
    /\ \E i \in Shares :
         /\ Usable(i) /\ left[i] <= -Grace
         /\ Memory(r, "close", "online", i, Lost(status[i]), FALSE, 0)
    /\ UNCHANGED <<machine, unseen, rows, relay>>

RefreshLoads(r) ==
    /\ pc[r] = "idle"
    /\ \E i \in Shares :
         /\ Usable(i) /\ status[i] = "streaming"
         /\ \/ IsStale /\ Memory(r, "close", "offline", i, "ended", FALSE, 0)
            \/ ~IsStale /\ Memory(r, "renew", "online", i, "waiting", FALSE, 0)
    /\ UNCHANGED <<machine, unseen, rows, relay>>

Closes(r) ==
    /\ pc[r] = "close"
    /\ status' = [status EXCEPT ![s[r]] = to[r]]
    /\ Goes(r, "mark", m[r])
    /\ UNCHANGED <<machine, unseen, left, shown, relay>>

\* rotateStreamingShareSessionTokens
Renews(r) ==
    /\ pc[r] = "renew"
    /\ left' = [left EXCEPT ![s[r]] = Lease(s[r], DefaultTTL)]
    /\ shown' = [shown EXCEPT ![s[r]] = TRUE]
    /\ Returns(r)
    /\ UNCHANGED <<machine, unseen, status, relay>>

\* A lease that ended is closed, a streaming session lets the app in, a
\* waiting one is activated first.
JoinLoads(r, v) ==
    /\ pc[r] = "idle" /\ viewing[v] = "out"
    /\ \E i \in Shares :
         /\ Usable(i)
         /\ \/ /\ Lapsed(i)
               /\ Memory(r, "close", "online", i, Lost(status[i]), FALSE, 0)
               /\ UNCHANGED viewing
            \/ /\ ~Lapsed(i) /\ status[i] = "streaming"
               /\ viewing' = [viewing EXCEPT ![v] = "admitted"]
               /\ UNCHANGED request
            \/ /\ ~Lapsed(i) /\ status[i] # "streaming"
               /\ Memory(r, "activate", "streaming", i, "streaming", FALSE, v)
               /\ viewing' = [viewing EXCEPT ![v] = "asking"]
    /\ UNCHANGED <<machine, unseen, rows, agentUp, offTasks, endTasks>>

Activates(r) ==
    /\ pc[r] = "activate"
    /\ status' = [status EXCEPT ![s[r]] = to[r]]
    /\ Goes(r, "mark", m[r])
    /\ UNCHANGED <<machine, unseen, left, shown, relay>>

-----------------------------------------------------------------------------
(* The relay, as RelayPresence promises it, and its tasks.                 *)

Watching == {v \in Viewers : viewing[v] = "in"}

\* The task of an earlier departure may still be waiting.
AgentConnects ==
    /\ ~agentUp
    /\ agentUp' = TRUE
    /\ UNCHANGED <<machine, unseen, rows, viewing, offTasks, endTasks, request>>

\* cleanupAgent: the apps go with the agent.
AgentLeaves ==
    /\ agentUp /\ offTasks < MaxTasks
    /\ agentUp' = FALSE
    /\ viewing' = [v \in Viewers |-> IF v \in Watching THEN "out" ELSE viewing[v]]
    /\ offTasks' = offTasks + 1
    /\ UNCHANGED <<machine, unseen, rows, endTasks, request>>

\* An app that signed in as the owner needs no share session.
ViewerJoins(v) ==
    /\ viewing[v] \in {"out", "admitted"} /\ agentUp
    /\ viewing' = [viewing EXCEPT ![v] = "in"]
    /\ UNCHANGED <<machine, unseen, rows, agentUp, offTasks, endTasks, request>>

\* The agent is offline, or the app never completes its websocket.
ViewerGivesUp(v) ==
    /\ viewing[v] = "admitted"
    /\ viewing' = [viewing EXCEPT ![v] = "out"]
    /\ UNCHANGED <<machine, unseen, rows, agentUp, offTasks, endTasks, request>>

\* cleanupApp: the last app starts a task.
ViewerLeaves(v) ==
    /\ viewing[v] = "in"
    /\ Watching = {v} => endTasks < MaxTasks
    /\ viewing' = [viewing EXCEPT ![v] = "out"]
    /\ endTasks' = IF Watching = {v} THEN endTasks + 1 ELSE endTasks
    /\ UNCHANGED <<machine, unseen, rows, agentUp, offTasks, request>>

\* markMachineOffline; a task that fails is not repeated.
OfflineTask(r) ==
    /\ pc[r] = "idle" /\ offTasks > 0
    /\ \/ machine' = "offline" /\ status' = Released(status)
       \/ Failures /\ UNCHANGED <<machine, status>>
    /\ offTasks' = offTasks - 1
    /\ UNCHANGED <<unseen, left, shown, agentUp, viewing, endTasks, request>>

\* markStreamEnded
EndLoads(r) ==
    /\ pc[r] = "idle" /\ endTasks > 0
    /\ endTasks' = endTasks - 1
    /\ LET i == Newest(WithStatus(status, {"streaming"})) IN
       \/ (i = 0 \/ Failures) /\ UNCHANGED request
       \/ i # 0 /\ Memory(r, "end", "online", i, "ended", FALSE, 0)
    /\ UNCHANGED <<machine, unseen, rows, agentUp, viewing, offTasks>>

EndCommits(r) ==
    /\ pc[r] = "end"
    /\ status' = [status EXCEPT ![s[r]] = to[r]]
    /\ machine' = m[r]
    /\ Returns(r)
    /\ UNCHANGED <<unseen, left, shown, relay>>

-----------------------------------------------------------------------------
Tick ==
    /\ unseen' = IF unseen > OfflineAfter THEN unseen ELSE unseen + 1
    /\ left' = [i \in Shares |-> IF left[i] = -Grace THEN left[i] ELSE left[i] - 1]
    /\ UNCHANGED <<machine, status, shown, relay, request>>

\* A request that has begun goes on; one begins; a task runs.
Proceeds(r) ==
    \/ Mark(r) \/ BeatStores(r) \/ BeatResets(r) \/ BeatCancels(r)
    \/ LeaseLoads(r) \/ LeaseExtends(r) \/ EnsureLoads(r) \/ EnsureSaves(r)
    \/ OwnerCommits(r) \/ ListCommits(r) \/ SweepCommits(r)
    \/ Closes(r) \/ Renews(r) \/ Activates(r) \/ EndCommits(r)
Begins(r) ==
    \/ BeatLoads(r) \/ ListLoads(r)
    \/ "create" \in Calls /\ OwnerLoads(r)
    \/ "connect" \in Calls /\ ConnectLoads(r)
    \/ "refresh" \in Calls /\ RefreshLoads(r)
    \/ "join" \in Calls /\ \E v \in Viewers : JoinLoads(r, v)
Task(r) == OfflineTask(r) \/ EndLoads(r)
Relay == \/ AgentConnects \/ AgentLeaves
         \/ \E v \in Viewers : ViewerJoins(v) \/ ViewerGivesUp(v) \/ ViewerLeaves(v)

Next == \/ \E r \in Requests : Proceeds(r) \/ Fails(r) \/ Begins(r) \/ Task(r)
        \/ Relay \/ Tick

Spec == Init /\ [][Next]_vars

-----------------------------------------------------------------------------
(* Safety.                                                                 *)

\* A machine has one waiting or streaming session at most, so the code the
\* owner was shown leads to the session the owner sees.  It holds as long as
\* requests do not overlap.
OneActiveShare ==
    \A i, j \in Shares : status[i] \in Live /\ status[j] \in Live => i = j

\* REMOTE_SESSION_FLOW.md, 9.3: expired, cancelled and ended are final.
FinalStep == \A i \in Shares : status[i] \in Final => status'[i] = status[i]
FinalStaysFinal == [][FinalStep]_vars

\* However requests overlap, a final session that no request has in memory is
\* never touched again: it does not come back, nobody gets tokens for it, its
\* lease is not extended and no later request loads it.  So what an
\* overlapping request brings back it had loaded while it was live.
Settled(i) == status[i] \in Final /\ \A r \in Requests : s[r] # i
SettledStep ==
    \A i \in Shares : Settled(i) =>
        /\ Settled(i)' /\ status'[i] = status[i]
        /\ shown'[i] = shown[i] /\ left'[i] <= left[i]
SettledStaysSettled == [][SettledStep]_vars

\* After syncMachinePresence the status the owner is shown is true, whatever
\* happened to earlier requests: offline without a session if the agent is not
\* heard of, or else the status of the one session there is.
SettleStep ==
    \A r \in Requests : ListCommits(r) \/ SweepCommits(r) =>
        IF stale[r] THEN machine' = "offline" /\ WithStatus(status', Live) = {}
                    ELSE machine' = Presence(status')
ListSettles == [][SettleStep]_vars

-----------------------------------------------------------------------------
(* Liveness.                                                               *)

\* A request that has begun comes to its end, and the owner's dashboard is
\* open, which lists the machines every 15 seconds.
Fairness ==
    /\ WF_vars(Tick)
    /\ \A r \in Requests : WF_vars(Proceeds(r) \/ Fails(r))
    /\ SF_vars(\E r \in Requests : ListLoads(r))
FairSpec == Spec /\ Fairness

\* The agent sends heartbeats while it is connected, and tasks are run.
Attended ==
    /\ SF_vars(agentUp /\ \E r \in Requests : BeatLoads(r))
    /\ SF_vars(\E r \in Requests : OfflineTask(r))
    /\ SF_vars(\E r \in Requests : EndLoads(r))
AttendedSpec == FairSpec /\ Attended

\* A machine that is not heard of any more is offline in the end and shares
\* nothing, whichever heartbeats, joins and tasks were still on their way.
LostAgentIsOffline ==
    (<>[][\A r \in Requests : ~BeatLoads(r)]_vars) =>
        <>[](machine = "offline" /\ WithStatus(status, Live) = {})

\* REMOTE_SESSION_FLOW.md, 6.5: when a share ends the machine returns to
\* online or offline, so no machine streams to nobody for ever.
StreamsAreWatched ==
    (machine = "streaming" /\ \A v \in Viewers : viewing[v] = "out")
        ~> (machine # "streaming" \/ \E v \in Viewers : viewing[v] # "out")

=============================================================================
