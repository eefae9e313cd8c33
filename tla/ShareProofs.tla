----------------------------- MODULE ShareProofs -----------------------------
(***************************************************************************)
(* The theorems about share sessions.  First the type invariant and the    *)
(* lemmas on the helpers of ShareSession, for any number of overlapping    *)
(* requests, apps and rows and any lengths of time.                        *)
(*                                                                         *)
(* Overlapping requests bring final sessions back (MCShareRevived) and     *)
(* leave more than one live session.  What they cannot break is the        *)
(* subject of the two parts after that: which rows they never touch, and   *)
(* how many live sessions they can leave.  Any statement may fail, tasks   *)
(* of the relay run late, leases end and apps and agents leave between two *)
(* statements.  The last part is about the relay they share the machine    *)
(* with.                                                                   *)
(***************************************************************************)
EXTENDS ShareSession, TLAPS, FiniteSetTheorems, WellFoundedInduction

Status == Live \cup Final \cup {"none"}

\* Where a request has a share session in memory.
Holding == {"extend", "close", "renew", "activate", "end"}

MachineOK ==
    /\ machine \in Machine
    /\ unseen \in 0..Never
RowsOK ==
    /\ status \in [Shares -> Status]
    /\ left \in [Shares -> (-Grace)..MaxTTL]
    /\ shown \in [Shares -> BOOLEAN]
RelayOK ==
    /\ agentUp \in BOOLEAN
    /\ viewing \in [Viewers -> {"out", "asking", "admitted", "in"}]
    /\ offTasks \in 0..MaxTasks /\ endTasks \in 0..MaxTasks
RequestOK ==
    /\ pc \in [Requests -> PC]
    /\ m \in [Requests -> Machine]
    /\ s \in [Requests -> Shares \cup {0}]
    /\ to \in [Requests -> Live \cup Final]
    /\ stale \in [Requests -> BOOLEAN]
    /\ who \in [Requests -> Viewers \cup {0}]
    /\ \A r \in Requests : pc[r] \in Holding => s[r] \in Shares

\* The inductive form of TypeOK.
TypeInv == MachineOK /\ RowsOK /\ RelayOK /\ RequestOK

LEMMA TypeInvImplies == TypeInv => TypeOK
  BY DEF TypeInv, MachineOK, RowsOK, RelayOK, RequestOK, TypeOK, Status

-----------------------------------------------------------------------------
(* The newest row of a set.                                                *)

\* A set of rows that is not empty has a newest one, above all others.
LEMMA NewestFact ==
    ASSUME NEW S \in SUBSET Shares
    PROVE  /\ S = {} => Newest(S) = 0
           /\ S # {} => Newest(S) \in S /\ \A i \in S : i <= Newest(S)
<1>0. MaxShares \in Nat
  BY ShareAssumption
<1>1. CASE S = {}
  BY <1>1 DEF Newest
<1>2. CASE S # {}
  <2> DEFINE T == {MaxShares - i : i \in S}
  <2>1. T \subseteq Nat /\ T # {}
    BY <1>0, <1>2 DEF Shares
  <2>2. PICK t \in T : \A u \in T : ~(<<u, t>> \in OpToRel(<, Nat))
    BY <2>1, NatLessThanWellFounded, WFMin
  <2>7. \A x, y \in Nat : x < y => <<x, y>> \in OpToRel(<, Nat)
    BY DEF OpToRel
  <2>3. \A u \in T : t <= u
    <3> SUFFICES ASSUME NEW u \in T PROVE t <= u
      OBVIOUS
    <3>1. u \in Nat /\ t \in Nat
      BY <2>1
    <3>2. ~(u < t)
      BY <2>2, <2>7, <3>1
    <3> QED
      BY <3>1, <3>2
  <2>4. PICK i \in S : t = MaxShares - i
    OBVIOUS
  <2>5. \A j \in S : i >= j
    <3> SUFFICES ASSUME NEW j \in S PROVE i >= j
      OBVIOUS
    <3>1. MaxShares - j \in T
      OBVIOUS
    <3>2. MaxShares - i <= MaxShares - j
      BY <2>3, <2>4, <3>1
    <3>3. i \in Int /\ j \in Int
      BY <1>0 DEF Shares
    <3> QED
      BY <1>0, <3>2, <3>3
  <2>6. Max(S) \in S /\ \A j \in S : Max(S) >= j
    BY <2>5 DEF Max
  <2> QED
    BY <1>0, <1>2, <2>6 DEF Newest, Shares
<1> QED
  BY <1>1, <1>2

\* getActiveShareSession finds a live row exactly when there is one.
LEMMA ActiveFact ==
    ASSUME NEW st \in [Shares -> Status]
    PROVE  /\ ActiveIn(st) \in Shares \cup {0}
           /\ ActiveIn(st) # 0 => st[ActiveIn(st)] \in Live
           /\ ActiveIn(st) = 0 => \A i \in Shares : st[i] \notin Live
<1>1. WithStatus(st, Live) \in SUBSET Shares
  BY DEF WithStatus
<1>2. 0 \notin Shares
  BY DEF Shares
<1> QED
  BY <1>1, <1>2, NewestFact DEF ActiveIn, WithStatus

LEMMA StreamingFact ==
    ASSUME NEW i, i = Newest(WithStatus(status, {"streaming"})), i # 0
    PROVE  i \in Shares /\ status[i] = "streaming"
<1>1. WithStatus(status, {"streaming"}) \in SUBSET Shares
  BY DEF WithStatus
<1> QED
  BY <1>1, NewestFact DEF WithStatus

-----------------------------------------------------------------------------
(* What the helpers do to the rows and to the memory of a request.         *)

LEMMA SweepFact ==
    ASSUME RowsOK
    PROVE  /\ Expired \in [Shares -> Status]
           /\ Cancelled \in [Shares -> Status]
           /\ \A i \in Shares : Expired[i] \in {status[i], "expired"}
           /\ \A i \in Shares : Expired[i] # status[i] => status[i] = "waiting" /\ Lapsed(i)
           /\ \A i \in Shares : status[i] = "waiting" /\ Lapsed(i) => Expired[i] = "expired"
           /\ \A i \in Shares : Cancelled[i] \in {status[i], "cancelled"}
           /\ \A i \in Shares : Cancelled[i] # status[i] => status[i] = "waiting"
  BY DEF RowsOK, Status, Live, Final, Expired, Cancelled

LEMMA ReleasedFact ==
    ASSUME NEW st \in [Shares -> Status]
    PROVE  /\ Released(st) \in [Shares -> Status]
           /\ \A i \in Shares : Released(st)[i] \notin Live
           /\ \A i \in Shares : st[i] \notin Live => Released(st)[i] = st[i]
  BY DEF Status, Live, Final, Released

LEMMA SweptFact ==
    ASSUME RowsOK, NEW r \in Requests
    PROVE  /\ Swept(r) \in [Shares -> Status]
           /\ \A i \in Shares : Swept(r)[i] \in {status[i], "expired"}
           /\ \A i \in Shares : Swept(r)[i] # status[i] => status[i] = "waiting"
           /\ \A i \in Shares \ {s[r]} : Swept(r)[i] = Expired[i]
<1>1. Swept(r) = [i \in Shares |-> IF i = s[r] THEN status[i] ELSE Expired[i]]
  BY DEF Swept
<1> QED
  BY <1>1, SweepFact DEF RowsOK

\* One row becomes waiting: the one loaded, or one that was not there.
Rotated(st, i) ==
    \E n \in Shares : /\ status' = [st EXCEPT ![n] = "waiting"]
                      /\ i # 0 => n = i
                      /\ i = 0 => st[n] = "none"
                      /\ \A j \in Shares \ {n} :
                            left'[j] = left[j] /\ shown'[j] = shown[j]

LEMMA RotateFact ==
    ASSUME RowsOK, NEW st \in [Shares -> Status], NEW i \in Shares \cup {0},
           NEW person \in BOOLEAN, Rotate(st, i, person)
    PROVE  RowsOK' /\ Rotated(st, i)
<1> DEFINE n == IF i = 0 THEN Newest(WithStatus(st, Live \cup Final)) + 1 ELSE i
<1>1. /\ n \in Shares
      /\ status' = [st EXCEPT ![n] = "waiting"]
      /\ shown' = [shown EXCEPT ![n] = person]
      /\ \E ttl \in TTLs : left' = [left EXCEPT ![n] = Lease(n, ttl)]
  BY DEF Rotate
<1>2. status' \in [Shares -> Status] /\ shown' \in [Shares -> BOOLEAN]
  BY <1>1 DEF RowsOK, Status, Live
<1>3. left' \in [Shares -> (-Grace)..MaxTTL]
  BY <1>1, ShareAssumption DEF RowsOK, TTLs, Lease
<1>4. ASSUME i = 0 PROVE st[n] = "none"
  <2> DEFINE W == WithStatus(st, Live \cup Final)
  <2>1. W \in SUBSET Shares /\ n = Newest(W) + 1 /\ n \in Shares
    BY <1>1, <1>4 DEF WithStatus
  <2> HIDE DEF n, W
  <2>2. n \notin W
    <3> SUFFICES ASSUME n \in W PROVE FALSE
      OBVIOUS
    <3>1. Newest(W) \in W /\ n <= Newest(W)
      BY <2>1, NewestFact
    <3>2. Newest(W) \in Int /\ n \in Int
      <4>1. Newest(W) \in Shares
        BY <2>1, <3>1
      <4> QED
        BY <2>1, <4>1, ShareAssumption DEF Shares
    <3> QED
      BY <2>1, <3>1, <3>2
  <2> QED
    BY <2>1, <2>2 DEF W, WithStatus, Status
<1>5. \A j \in Shares \ {n} : left'[j] = left[j] /\ shown'[j] = shown[j]
  BY <1>1 DEF RowsOK
<1>6. (i # 0 => n = i) /\ (i = 0 => st[n] = "none")
  BY <1>4
<1> HIDE DEF n
<1> QED
  BY <1>1, <1>2, <1>3, <1>5, <1>6 DEF RowsOK, Rotated

LEMMA MemoryType ==
    ASSUME RequestOK, NEW r \in Requests, NEW p \in PC, NEW st \in Machine,
           NEW i \in Shares \cup {0}, NEW t \in Live \cup Final,
           NEW old \in BOOLEAN, NEW v \in Viewers \cup {0},
           p \in Holding => i \in Shares,
           Memory(r, p, st, i, t, old, v)
    PROVE  RequestOK'
  BY DEF Memory, RequestOK

LEMMA GoesType ==
    ASSUME RequestOK, NEW r \in Requests, NEW p \in PC \ Holding,
           NEW st \in Machine, Goes(r, p, st)
    PROVE  RequestOK'
<1>1. who[r] \in Viewers \cup {0} /\ "waiting" \in Live
  BY DEF RequestOK, Live
<1> QED
  BY <1>1, MemoryType DEF Goes

LEMMA HoldsType ==
    ASSUME RequestOK, NEW r \in Requests, NEW p \in PC, NEW st \in Machine,
           NEW i \in Shares \cup {0}, p \in Holding => i \in Shares,
           Holds(r, p, st, i)
    PROVE  RequestOK'
<1>1. who[r] \in Viewers \cup {0} /\ "waiting" \in Live
  BY DEF RequestOK, Live
<1> QED
  BY <1>1, MemoryType DEF Holds

LEMMA ReturnsType ==
    ASSUME RequestOK, NEW r \in Requests, Returns(r)
    PROVE  RequestOK'
<1>1. "waiting" \in Live /\ "idle" \in PC \ Holding /\ "offline" \in Machine
  BY DEF Live, PC, Holding, Machine
<1> QED
  BY <1>1, MemoryType DEF Returns

LEMMA AfterBeatType ==
    ASSUME RequestOK, NEW r \in Requests, NEW st \in Machine,
           NEW share \in BOOLEAN, AfterBeat(r, st, share)
    PROVE  RequestOK'
<1>1. {"lease", "ensure", "cancel"} \subseteq PC \ Holding
  BY DEF PC, Holding
<1> QED
  BY <1>1, GoesType, ReturnsType DEF AfterBeat

LEMMA Unchanged ==
    /\ MachineOK /\ UNCHANGED <<machine, unseen>> => MachineOK'
    /\ RowsOK /\ UNCHANGED rows => RowsOK'
    /\ RelayOK /\ UNCHANGED relay => RelayOK'
    /\ RequestOK /\ UNCHANGED request => RequestOK'
<1>1. MachineOK /\ UNCHANGED <<machine, unseen>> => MachineOK'
  BY DEF MachineOK
<1>2. RowsOK /\ UNCHANGED rows => RowsOK'
  BY DEF RowsOK, rows
<1>3. RelayOK /\ UNCHANGED relay => RelayOK'
  BY DEF RelayOK, relay, Watching
<1>4. RequestOK /\ UNCHANGED request => RequestOK'
  BY DEF RequestOK, request
<1> QED
  BY <1>1, <1>2, <1>3, <1>4
-----------------------------------------------------------------------------
(* The invariant is inductive.                                             *)

LEMMA InitType == Init => TypeInv
<1> SUFFICES ASSUME Init PROVE TypeInv
  OBVIOUS
<1>1. MachineOK
  BY ShareAssumption DEF Init, MachineOK, Machine, Never
<1>2. RowsOK
  BY ShareAssumption DEF Init, RowsOK, Status
<1>3. RelayOK
  <2>1. Watching = {} /\ ~agentUp /\ agentUp \in BOOLEAN
    BY DEF Init, Watching
  <2>2. 0 \in 0..MaxTasks
    BY ShareAssumption
  <2>3. /\ viewing \in [Viewers -> {"out", "asking", "admitted", "in"}]
        /\ offTasks \in 0..MaxTasks /\ endTasks \in 0..MaxTasks
    BY <2>2 DEF Init
  <2> QED
    BY <2>1, <2>3 DEF RelayOK
<1>4. RequestOK
  BY DEF Init, RequestOK, PC, Machine, Live, Holding
<1> QED
  BY <1>1, <1>2, <1>3, <1>4 DEF TypeInv

\* Apps that stop watching start no task.
LEMMA ViewingType ==
    ASSUME RelayOK, UNCHANGED <<agentUp, offTasks, endTasks>>,
           viewing' \in [Viewers -> {"out", "asking", "admitted", "in"}],
           \A v \in Viewers : viewing'[v] = "in" => viewing[v] = "in"
    PROVE  RelayOK'
  BY DEF RelayOK, Watching

LEMMA NextType == TypeInv /\ [Next]_vars => TypeInv'
<1> SUFFICES ASSUME TypeInv, [Next]_vars PROVE TypeInv'
  OBVIOUS
<1>0. MachineOK /\ RowsOK /\ RelayOK /\ RequestOK
  BY DEF TypeInv
<1> DEFINE OK == MachineOK /\ RowsOK /\ RelayOK /\ RequestOK
<1> SUFFICES OK'
  BY DEF TypeInv
<1> USE <1>0, Unchanged
<1>1. CASE UNCHANGED vars
  BY <1>1 DEF vars
<1>2. ASSUME NEW r \in Requests, Proceeds(r) PROVE OK'
  <2>0. /\ m[r] \in Machine /\ to[r] \in Live \cup Final
        /\ pc[r] \in Holding => s[r] \in Shares
        /\ s[r] \in Shares \cup {0} /\ who[r] \in Viewers \cup {0}
    BY DEF RequestOK
  <2>1. CASE Mark(r)
    <3>1. RelayOK'
      BY <2>1, ViewingType DEF Mark, RelayOK
    <3> QED
      BY <2>0, <2>1, <3>1, ReturnsType DEF Mark, MachineOK
  <2>2. CASE BeatStores(r)
    <3>1. Seen(m[r]) \in Machine /\ "waiting" \in Machine
      BY <2>0 DEF Seen, Machine
    <3>2. MachineOK'
      BY <2>2, <3>1, ShareAssumption DEF BeatStores, MachineOK, Never
    <3>3. "reset" \in PC \ Holding
      BY DEF PC, Holding
    <3>4. PICK reset \in Resets, share \in Enables :
             \/ Goes(r, "reset", "waiting")
             \/ AfterBeat(r, Seen(m[r]), share)
      BY <2>2 DEF BeatStores
    <3>5. RequestOK'
      BY <3>1, <3>3, <3>4, GoesType, AfterBeatType, ShareAssumption
    <3> QED
      BY <2>2, <3>2, <3>5 DEF BeatStores
  <2>3. CASE BeatResets(r)
    <3>1. RequestOK'
      BY <2>0, <2>3, AfterBeatType, ShareAssumption DEF BeatResets
    <3> QED
      BY <2>0, <2>3, <3>1 DEF BeatResets, MachineOK
  <2>4. CASE BeatCancels(r)
    <3>1. RequestOK'
      BY <2>4, GoesType DEF BeatCancels, PC, Holding, Machine
    <3> QED
      BY <2>4, <3>1, SweepFact DEF BeatCancels, MachineOK, RowsOK
  <2>5. CASE LeaseLoads(r)
    <3>1. ActiveIn(status) \in Shares \cup {0}
      BY ActiveFact DEF RowsOK
    <3>2. RequestOK'
      BY <2>5, <3>1, GoesType, HoldsType, ReturnsType
      DEF LeaseLoads, PC, Holding, Machine
    <3> QED
      BY <2>5, <3>2 DEF LeaseLoads
  <2>6. CASE LeaseExtends(r)
    <3>1. \A ttl \in TTLs : ttl \in (-Grace)..MaxTTL
      BY ShareAssumption DEF TTLs
    <3>2. RowsOK'
      BY <2>6, <3>1 DEF LeaseExtends, RowsOK, Lease
    <3> QED
      BY <2>6, <3>2, ReturnsType DEF LeaseExtends, MachineOK
  <2>7. CASE EnsureLoads(r)
    <3>1. ActiveIn(Expired) \in Shares \cup {0}
      BY ActiveFact, SweepFact
    <3>2. RequestOK'
      BY <2>0, <2>7, <3>1, GoesType, HoldsType, ReturnsType
      DEF EnsureLoads, PC, Holding, Machine
    <3> QED
      BY <2>7, <3>2, SweepFact DEF EnsureLoads, MachineOK, RowsOK
  <2>8. CASE EnsureSaves(r)
    <3>1. RowsOK'
      BY <2>0, <2>8, RotateFact DEF EnsureSaves, RowsOK
    <3>2. RequestOK'
      BY <2>8, GoesType DEF EnsureSaves, PC, Holding, Machine
    <3> QED
      BY <2>8, <3>1, <3>2 DEF EnsureSaves, MachineOK
  <2>9. CASE OwnerCommits(r)
    <3>1. RowsOK'
      <4>1. CASE stale[r]
        BY <2>9, <4>1, SweptFact, ReleasedFact DEF OwnerCommits, RowsOK
      <4>2. CASE ~stale[r]
        BY <2>0, <2>9, <4>2, SweptFact, RotateFact DEF OwnerCommits
      <4> QED
        BY <4>1, <4>2
    <3> QED
      BY <2>9, <3>1, ReturnsType DEF OwnerCommits, MachineOK, Machine
  <2>10. CASE ListCommits(r)
    <3>1. RowsOK'
      <4>1. status' \in [Shares -> Status]
        BY <2>10, SweptFact, ReleasedFact DEF ListCommits
      <4> QED
        BY <2>10, <4>1 DEF ListCommits, RowsOK
    <3> QED
      BY <2>0, <2>10, <3>1, ReturnsType DEF ListCommits, MachineOK
  <2>15. CASE SweepCommits(r)
    <3>1. RowsOK'
      BY <2>15, SweptFact DEF SweepCommits, RowsOK
    <3> QED
      BY <2>15, <3>1, ReturnsType DEF SweepCommits, MachineOK
  <2>11. CASE Closes(r)
    <3>1. RequestOK'
      BY <2>0, <2>11, GoesType DEF Closes, PC, Holding
    <3> QED
      BY <2>0, <2>11, <3>1 DEF Closes, MachineOK, RowsOK, Status
  <2>12. CASE Renews(r)
    <3>1. DefaultTTL \in (-Grace)..MaxTTL
      BY ShareAssumption
    <3>2. RowsOK'
      BY <2>12, <3>1 DEF Renews, RowsOK, Lease
    <3> QED
      BY <2>12, <3>2, ReturnsType DEF Renews, MachineOK
  <2>13. CASE Activates(r)
    <3>1. RequestOK'
      BY <2>0, <2>13, GoesType DEF Activates, PC, Holding
    <3> QED
      BY <2>0, <2>13, <3>1 DEF Activates, MachineOK, RowsOK, Status
  <2>14. CASE EndCommits(r)
    BY <2>0, <2>14, ReturnsType DEF EndCommits, MachineOK, RowsOK, Status
  <2> QED
    BY <1>2, <2>1, <2>2, <2>3, <2>4, <2>5, <2>6, <2>7, <2>8, <2>9, <2>10,
       <2>11, <2>12, <2>13, <2>14, <2>15 DEF Proceeds
<1>3. ASSUME NEW r \in Requests, Fails(r) PROVE OK'
  <2>1. RelayOK'
    BY <1>3, ViewingType DEF Fails, RelayOK
  <2> QED
    BY <1>3, <2>1, ReturnsType DEF Fails
<1>4. ASSUME NEW r \in Requests, Begins(r) PROVE OK'
  <2>1. CASE BeatLoads(r)
    BY <2>1, GoesType DEF BeatLoads, MachineOK, PC, Holding
  <2>0. {"online", "offline", "streaming"} \subseteq Machine /\ IsStale \in BOOLEAN
        /\ {"waiting", "ended", "streaming"} \subseteq Live \cup Final
    BY DEF Machine, IsStale, Live, Final
  <2>7. \A st \in Live : Lost(st) \in Live \cup Final
    BY DEF Lost, Live, Final
  <2>2. CASE ListLoads(r)
    <3>1. ActiveIn(Expired) \in Shares \cup {0}
      BY ActiveFact, SweepFact
    <3>2. Presence(Expired) \in Machine
      BY ActiveFact, SweepFact DEF Presence, Machine, Live
    <3> DEFINE next == IF IsStale THEN "offline" ELSE Presence(Expired)
    <3>3. next \in Machine /\ {"sweep", "list"} \subseteq PC \ Holding
      BY <2>0, <3>2 DEF PC, Holding
    <3> HIDE DEF next
    <3>4. \E p \in {"sweep", "list"} :
             Memory(r, p, next, ActiveIn(Expired), "waiting", IsStale, 0)
      BY <2>2 DEF ListLoads, next
    <3>5. RequestOK'
      BY <2>0, <3>1, <3>3, <3>4, MemoryType
    <3> QED
      BY <2>2, <3>5 DEF ListLoads
  <2>3. CASE OwnerLoads(r)
    <3>1. ActiveIn(Expired) \in Shares \cup {0}
      BY ActiveFact, SweepFact
    <3>2. {"sweep", "owner"} \subseteq PC \ Holding /\ machine \in Machine
      BY DEF PC, Holding, MachineOK
    <3>3. \E p \in {"sweep", "owner"} :
             Memory(r, p, machine, ActiveIn(Expired), "waiting", IsStale, 0)
      BY <2>3 DEF OwnerLoads
    <3>4. RequestOK'
      BY <2>0, <3>1, <3>2, <3>3, MemoryType
    <3> QED
      BY <2>3, <3>4 DEF OwnerLoads
  <2>4. CASE ConnectLoads(r)
    <3>1. PICK i \in Shares :
             Usable(i) /\ Memory(r, "close", "online", i, Lost(status[i]), FALSE, 0)
      BY <2>4 DEF ConnectLoads
    <3>2. RequestOK'
      BY <2>0, <2>7, <3>1, MemoryType DEF Usable, PC, Holding
    <3> QED
      BY <2>4, <3>2 DEF ConnectLoads
  <2>5. CASE RefreshLoads(r)
    <3>1. PICK i \in Shares :
             \/ Memory(r, "close", "offline", i, "ended", FALSE, 0)
             \/ Memory(r, "renew", "online", i, "waiting", FALSE, 0)
      BY <2>5 DEF RefreshLoads
    <3>2. RequestOK'
      BY <2>0, <3>1, MemoryType DEF PC, Holding
    <3> QED
      BY <2>5, <3>2 DEF RefreshLoads
  <2>6. ASSUME NEW v \in Viewers, JoinLoads(r, v) PROVE OK'
    <3>1. PICK i \in Shares :
             /\ Usable(i)
             /\ \/ Memory(r, "close", "online", i, Lost(status[i]), FALSE, 0)
                \/ UNCHANGED request
                \/ Memory(r, "activate", "streaming", i, "streaming", FALSE, v)
      BY <2>6 DEF JoinLoads
    <3>2. RequestOK'
      BY <2>0, <2>7, <3>1, MemoryType DEF Usable, PC, Holding
    <3>3. /\ viewing' \in [Viewers -> {"out", "asking", "admitted", "in"}]
          /\ \A w \in Viewers : viewing'[w] = "in" => viewing[w] = "in"
      BY <2>6 DEF JoinLoads, RelayOK
    <3>4. RelayOK'
      BY <2>6, <3>3, ViewingType DEF JoinLoads
    <3> QED
      BY <2>6, <3>2, <3>4 DEF JoinLoads
  <2> QED
    BY <1>4, <2>1, <2>2, <2>3, <2>4, <2>5, <2>6 DEF Begins
<1>5. ASSUME NEW r \in Requests, Task(r) PROVE OK'
  <2>1. CASE OfflineTask(r)
    <3>1. RowsOK'
      BY <2>1, ReleasedFact DEF OfflineTask, RowsOK
    <3>2. RelayOK'
      BY <2>1, ShareAssumption DEF OfflineTask, RelayOK, Watching
    <3> QED
      BY <2>1, <3>1, <3>2 DEF OfflineTask, MachineOK, Machine
  <2>2. CASE EndLoads(r)
    <3>1. RelayOK'
      BY <2>2, ShareAssumption DEF EndLoads, RelayOK, Watching
    <3>2. RequestOK'
      BY <2>2, StreamingFact, MemoryType DEF EndLoads, PC, Holding, Machine, Final
    <3> QED
      BY <2>2, <3>1, <3>2 DEF EndLoads
  <2> QED
    BY <1>5, <2>1, <2>2 DEF Task
<1>6. ASSUME Relay PROVE OK'
  <2>1. CASE AgentConnects
    BY <2>1 DEF AgentConnects, RelayOK, Watching
  <2>2. CASE AgentLeaves
    <3>1. offTasks' \in 0..MaxTasks /\ ~agentUp'
      BY <2>2, ShareAssumption DEF AgentLeaves, RelayOK
    <3>2. /\ viewing' \in [Viewers -> {"out", "asking", "admitted", "in"}]
          /\ Watching' = {}
      BY <2>2 DEF AgentLeaves, RelayOK, Watching
    <3> QED
      BY <2>2, <3>1, <3>2 DEF AgentLeaves, RelayOK
  <2>3. ASSUME NEW v \in Viewers, ViewerJoins(v) PROVE OK'
    BY <2>3 DEF ViewerJoins, RelayOK, Watching
  <2>4. ASSUME NEW v \in Viewers, ViewerGivesUp(v) PROVE OK'
    BY <2>4 DEF ViewerGivesUp, RelayOK, Watching
  <2>5. ASSUME NEW v \in Viewers, ViewerLeaves(v) PROVE OK'
    BY <2>5, ShareAssumption DEF ViewerLeaves, RelayOK, Watching
  <2> QED
    BY <1>6, <2>1, <2>2, <2>3, <2>4, <2>5 DEF Relay
<1>7. ASSUME Tick PROVE OK'
  <2>1. MachineOK'
    BY <1>7, ShareAssumption DEF Tick, MachineOK, Never
  <2>2. RowsOK'
    BY <1>7, ShareAssumption DEF Tick, RowsOK
  <2> QED
    BY <1>7, <2>1, <2>2 DEF Tick
<1> QED
  BY <1>1, <1>2, <1>3, <1>4, <1>5, <1>6, <1>7 DEF Next

\* Every variable keeps its type, and the relay never starts a task there is
\* no room for.
THEOREM TypeCorrect == Spec => []TypeOK
<1>1. Spec => []TypeInv
  BY InitType, NextType, PTL DEF Spec
<1> QED
  BY <1>1, TypeInvImplies, PTL

-----------------------------------------------------------------------------
(* However requests overlap: a step takes into memory rows that are not    *)
(* final only, and writes rows that are in memory or not final only.       *)

Reads == \A q \in Requests : s'[q] \in {s[q], 0} \/ status[s'[q]] \notin Final

Untouched(i) ==
    status'[i] = status[i] /\ shown'[i] = shown[i] /\ left'[i] <= left[i]
Writes == \A i \in Shares : Settled(i) => Untouched(i)

LEMMA SettledFact ==
    ASSUME TypeInv, Reads, Writes
    PROVE  SettledStep
<1> SUFFICES ASSUME NEW i \in Shares, Settled(i)
             PROVE  Settled(i)' /\ Untouched(i)
  BY DEF SettledStep, Untouched
<1>1. Untouched(i)
  BY DEF Writes
<1>2. i # 0
  BY ShareAssumption DEF Shares
<1>3. \A q \in Requests : s'[q] # i
  BY <1>2 DEF Settled, Reads
<1> QED
  BY <1>1, <1>3 DEF Settled, Untouched

LEMMA MemoryReads ==
    ASSUME RequestOK, NEW r \in Requests, NEW p, NEW st, NEW i, NEW t, NEW old,
           NEW v, Memory(r, p, st, i, t, old, v),
           i = 0 \/ status[i] \notin Final
    PROVE  Reads
  BY DEF RequestOK, Memory, Reads

LEMMA GoesReads ==
    ASSUME RequestOK, NEW r \in Requests,
           \/ Returns(r)
           \/ \E p, st : Goes(r, p, st)
           \/ UNCHANGED request
    PROVE  Reads
<1>1. CASE Returns(r)
  BY <1>1, MemoryReads DEF Returns
<1>2. CASE \E p, st : Goes(r, p, st)
  BY <1>2, MemoryReads DEF Goes
<1>3. CASE UNCHANGED request
  BY <1>3 DEF request, Reads
<1> QED
  BY <1>1, <1>2, <1>3

\* What a request may do to rows that are settled.
LEMMA RowsWritten ==
    ASSUME RowsOK, UNCHANGED <<left, shown>>,
           \A i \in Shares : Settled(i) => status'[i] = status[i]
    PROVE  Writes
  BY ShareAssumption DEF RowsOK, Writes, Untouched

LEMMA HeldWritten ==
    ASSUME RowsOK, RequestOK, NEW r \in Requests,
           \A i \in Shares \ {s[r]} : status'[i] = status[i] /\ shown'[i] = shown[i]
                                       /\ left'[i] = left[i]
    PROVE  Writes
  BY ShareAssumption DEF RowsOK, Writes, Untouched, Settled

\* A rotation of a row in memory, or of one that was not there.
LEMMA RotateWrites ==
    ASSUME RowsOK, RequestOK, NEW r \in Requests, NEW st \in [Shares -> Status],
           \A i \in Shares : status[i] \in Final => st[i] = status[i],
           NEW person \in BOOLEAN, Rotate(st, s[r], person)
    PROVE  Writes
<1>0. s[r] \in Shares \cup {0} /\ "none" \notin Final
  BY DEF RequestOK, Final
<1>1. Rotated(st, s[r])
  BY <1>0, RotateFact
<1>2. PICK n \in Shares : /\ status' = [st EXCEPT ![n] = "waiting"]
                          /\ s[r] # 0 => n = s[r]
                          /\ s[r] = 0 => st[n] = "none"
                          /\ \A j \in Shares \ {n} :
                                left'[j] = left[j] /\ shown'[j] = shown[j]
  BY <1>1 DEF Rotated
<1>3. ~Settled(n)
  BY <1>0, <1>2 DEF Settled
<1> SUFFICES ASSUME NEW i \in Shares, Settled(i) PROVE Untouched(i)
  BY DEF Writes
<1>4. i # n /\ status[i] \in Final
  BY <1>3 DEF Settled
<1>5. left[i] \in Int
  BY ShareAssumption DEF RowsOK
<1> QED
  BY <1>2, <1>4, <1>5 DEF Untouched

LEMMA RequestReads ==
    ASSUME TypeInv, NEW r \in Requests,
           Proceeds(r) \/ Fails(r) \/ Begins(r) \/ Task(r)
    PROVE  Reads
<1>0. RowsOK /\ RequestOK /\ Live \cap Final = {} /\ "streaming" \notin Final
  BY DEF TypeInv, Live, Final
<1>1. /\ ActiveIn(status) = 0 \/ status[ActiveIn(status)] \notin Final
      /\ ActiveIn(Expired) = 0 \/ status[ActiveIn(Expired)] \notin Final
  <2>1. ActiveIn(status) # 0 => status[ActiveIn(status)] \in Live
    BY <1>0, ActiveFact DEF RowsOK
  <2>2. /\ ActiveIn(Expired) \in Shares \cup {0}
        /\ ActiveIn(Expired) # 0 => Expired[ActiveIn(Expired)] \in Live
    BY <1>0, SweepFact, ActiveFact
  <2>3. \A i \in Shares : Expired[i] \in Live => status[i] \in Live
    BY <1>0, SweepFact DEF Live
  <2> QED
    BY <1>0, <2>1, <2>2, <2>3
<1>2. CASE Proceeds(r)
  <2>1. CASE EnsureLoads(r)
    <3>1. \/ Returns(r) \/ Goes(r, "mark", "waiting")
          \/ Memory(r, "save", m[r], ActiveIn(Expired), "waiting", FALSE, who[r])
      BY <2>1 DEF EnsureLoads, Holds
    <3> QED
      BY <1>0, <1>1, <3>1, GoesReads, MemoryReads
  <2>2. CASE LeaseLoads(r)
    <3>1. \/ Returns(r) \/ Goes(r, "mark", "online") \/ Goes(r, "mark", "waiting")
          \/ Memory(r, "extend", "streaming", ActiveIn(status), "waiting", FALSE, who[r])
      BY <2>2 DEF LeaseLoads, Holds
    <3> QED
      BY <1>0, <1>1, <3>1, GoesReads, MemoryReads
  <2>3. CASE BeatStores(r) \/ BeatResets(r)
    <3>1. Returns(r) \/ \E p, st : Goes(r, p, st)
      BY <2>3 DEF BeatStores, BeatResets, AfterBeat
    <3> QED
      BY <1>0, <3>1, GoesReads
  <2>4. CASE BeatCancels(r) \/ EnsureSaves(r) \/ Closes(r) \/ Activates(r)
    <3>1. \E p, st : Goes(r, p, st)
      BY <2>4 DEF BeatCancels, EnsureSaves, Closes, Activates
    <3> QED
      BY <1>0, <3>1, GoesReads
  <2>5. CASE \/ Mark(r) \/ LeaseExtends(r) \/ OwnerCommits(r) \/ ListCommits(r)
             \/ SweepCommits(r) \/ Renews(r) \/ EndCommits(r)
    <3>1. Returns(r)
      BY <2>5 DEF Mark, LeaseExtends, OwnerCommits, ListCommits, SweepCommits,
                  Renews, EndCommits
    <3> QED
      BY <1>0, <3>1, GoesReads
  <2> QED
    BY <1>2, <2>1, <2>2, <2>3, <2>4, <2>5 DEF Proceeds
<1>3. CASE Fails(r)
  BY <1>0, <1>3, GoesReads DEF Fails
<1>4. CASE Begins(r)
  <2>1. CASE BeatLoads(r)
    BY <1>0, <2>1, GoesReads DEF BeatLoads
  <2>2. CASE ListLoads(r) \/ OwnerLoads(r)
    BY <1>0, <1>1, <2>2, MemoryReads DEF ListLoads, OwnerLoads
  <2>3. CASE ConnectLoads(r) \/ RefreshLoads(r) \/ \E v \in Viewers : JoinLoads(r, v)
    <3>1. \/ UNCHANGED request
          \/ \E i \in Shares : \E p, st, t, v :
                Usable(i) /\ Memory(r, p, st, i, t, FALSE, v)
      BY <2>3 DEF ConnectLoads, RefreshLoads, JoinLoads
    <3> QED
      BY <1>0, <3>1, GoesReads, MemoryReads DEF Usable
  <2> QED
    BY <1>4, <2>1, <2>2, <2>3 DEF Begins
<1>5. CASE Task(r)
  <2>1. CASE OfflineTask(r)
    BY <1>0, <2>1, GoesReads DEF OfflineTask
  <2>2. CASE EndLoads(r)
    <3> DEFINE i == Newest(WithStatus(status, {"streaming"}))
    <3>1. \/ UNCHANGED request
          \/ i # 0 /\ Memory(r, "end", "online", i, "ended", FALSE, 0)
      BY <2>2 DEF EndLoads
    <3>2. i # 0 => status[i] \notin Final
      BY <1>0, StreamingFact
    <3> HIDE DEF i
    <3> QED
      BY <1>0, <3>1, <3>2, GoesReads, MemoryReads
  <2> QED
    BY <1>5, <2>1, <2>2 DEF Task
<1> QED
  BY <1>2, <1>3, <1>4, <1>5

LEMMA RequestWrites ==
    ASSUME TypeInv, NEW r \in Requests,
           Proceeds(r) \/ Fails(r) \/ Begins(r) \/ Task(r)
    PROVE  Writes
<1>0. /\ RowsOK /\ RequestOK /\ status \in [Shares -> Status]
      /\ Live \cap Final = {} /\ "waiting" \notin Final
  BY DEF TypeInv, RowsOK, Live, Final
<1>1. /\ Expired \in [Shares -> Status]
      /\ \A i \in Shares : status[i] \in Final =>
            Expired[i] = status[i] /\ Cancelled[i] = status[i]
  BY <1>0, SweepFact
<1>2. /\ Swept(r) \in [Shares -> Status]
      /\ \A i \in Shares : status[i] \in Final => Swept(r)[i] = status[i]
  BY <1>0, SweptFact
<1>8. \A i \in Shares : status[i] \in Final =>
         Released(status)[i] = status[i] /\ Released(Swept(r))[i] = status[i]
  BY <1>0, <1>2, ReleasedFact
<1>3. CASE UNCHANGED rows
  BY <1>0, <1>3, RowsWritten DEF rows
<1>4. CASE /\ UNCHANGED <<left, shown>>
           /\ status' \in {Expired, Cancelled, Swept(r), Released(status),
                            Released(Swept(r)), status}
  <2>1. \A i \in Shares : Settled(i) => status'[i] = status[i]
    BY <1>1, <1>2, <1>4, <1>8 DEF Settled
  <2> QED
    BY <1>0, <1>4, <2>1, RowsWritten
<1>5. CASE Proceeds(r)
  <2>1. CASE Mark(r) \/ BeatStores(r) \/ BeatResets(r) \/ LeaseLoads(r)
    BY <1>3, <2>1 DEF Mark, BeatStores, BeatResets, LeaseLoads
  <2>2. CASE BeatCancels(r) \/ EnsureLoads(r) \/ ListCommits(r) \/ SweepCommits(r)
    BY <1>4, <2>2 DEF BeatCancels, EnsureLoads, ListCommits, SweepCommits
  <2>3. CASE LeaseExtends(r) \/ Renews(r) \/ Closes(r) \/ Activates(r) \/ EndCommits(r)
    <3>1. \A i \in Shares \ {s[r]} : /\ status'[i] = status[i] /\ shown'[i] = shown[i]
                                     /\ left'[i] = left[i]
      BY <1>0, <2>3 DEF LeaseExtends, Renews, Closes, Activates, EndCommits, RowsOK
    <3> QED
      BY <1>0, <3>1, HeldWritten
  <2>4. CASE EnsureSaves(r)
    BY <1>0, <2>4, RotateWrites DEF EnsureSaves
  <2>5. CASE OwnerCommits(r)
    <3>1. CASE stale[r]
      BY <1>4, <2>5, <3>1 DEF OwnerCommits
    <3>2. CASE ~stale[r]
      BY <1>0, <1>2, <2>5, <3>2, RotateWrites DEF OwnerCommits
    <3> QED
      BY <3>1, <3>2
  <2> QED
    BY <1>5, <2>1, <2>2, <2>3, <2>4, <2>5 DEF Proceeds
<1>6. CASE Fails(r) \/ Begins(r)
  BY <1>3, <1>6 DEF Fails, Begins, BeatLoads, ListLoads, OwnerLoads,
                    ConnectLoads, RefreshLoads, JoinLoads
<1>7. CASE Task(r)
  <2>1. CASE OfflineTask(r)
    BY <1>4, <2>1 DEF OfflineTask
  <2>2. CASE EndLoads(r)
    BY <1>3, <2>2 DEF EndLoads
  <2> QED
    BY <1>7, <2>1, <2>2 DEF Task
<1> QED
  BY <1>5, <1>6, <1>7

LEMMA SettledNext == TypeInv /\ [Next]_vars => SettledStep
<1> SUFFICES ASSUME TypeInv, [Next]_vars PROVE Reads /\ Writes
  BY SettledFact
<1>0. RowsOK /\ RequestOK
  BY DEF TypeInv
<1>1. ASSUME NEW r \in Requests, Proceeds(r) \/ Fails(r) \/ Begins(r) \/ Task(r)
      PROVE  Reads /\ Writes
  BY <1>1, RequestReads, RequestWrites
<1>2. CASE Relay \/ UNCHANGED vars
  <2>1. UNCHANGED request /\ UNCHANGED rows
    BY <1>2 DEF Relay, AgentConnects, AgentLeaves, ViewerJoins, ViewerGivesUp,
                ViewerLeaves, vars
  <2> QED
    BY <1>0, <2>1, RowsWritten DEF Reads, request, rows
<1>3. CASE Tick
  <2>1. UNCHANGED <<request, status, shown>> /\ \A i \in Shares : left'[i] <= left[i]
    BY <1>0, <1>3, ShareAssumption DEF Tick, RowsOK
  <2> QED
    BY <2>1 DEF Reads, Writes, Untouched, request
<1> QED
  BY <1>1, <1>2, <1>3 DEF Next

\* However many requests overlap, a final session that none of them has in
\* memory is never touched again.
THEOREM SettledStays == Spec => SettledStaysSettled
<1>1. Spec => []TypeInv
  BY InitType, NextType, PTL DEF Spec
<1>2. TypeInv /\ [Next]_vars => [SettledStep]_vars
  BY SettledNext
<1> QED
  BY <1>1, <1>2, PTL DEF Spec, SettledStaysSettled

-----------------------------------------------------------------------------
(* How many live sessions overlapping requests can make.                   *)

\* With n requests at a time a machine has n live sessions at most: only a
\* request that found no live session inserts one, and what it found is used
\* up when it returns.  OneActiveShare is the case of one request.
SharesBounded == Cardinality(WithStatus(status, Live)) <= Cardinality(Requests)

\* The rows requests may still make live, and the requests that will insert a
\* row: without a look at the others, or after a sweep of the lapsed ones.
Working   == {"save", "owner", "extend", "renew", "activate"}
Loaded    == {i \in Shares : \E q \in Requests : pc[q] \in Working /\ s[q] = i}
Saving    == {q \in Requests : pc[q] = "save" /\ s[q] = 0}
Inserting == {q \in Requests : pc[q] \in {"save", "owner"} /\ s[q] = 0}

\* The live rows, and those that a sweep leaves live.
Living == WithStatus(status, Live)
Alive  == {i \in Living : status[i] = "waiting" => ~Lapsed(i)}

Fits(A, B) == Cardinality(A) + Cardinality(B) <= Cardinality(Requests)

\* Closing a session only makes it final.
Closing == \A q \in Requests : pc[q] \in {"close", "end"} => to[q] \in Final

\* Every live row and every insertion to come is paid for by a request of its
\* own, or was so when it was made.
BoundInv ==
    /\ Fits(Alive \cup Loaded, Inserting)
    /\ Fits(Living \cup Loaded, Saving)
    /\ Closing

LEMMA SharesFinite ==
    ASSUME NEW A \in SUBSET Shares
    PROVE  IsFiniteSet(A) /\ Cardinality(A) \in Nat
<1>1. IsFiniteSet(Shares)
  BY FS_Interval, ShareAssumption DEF Shares
<1> QED
  BY <1>1, FS_Subset, FS_CardinalityType

LEMMA RequestsFinite ==
    ASSUME IsFiniteSet(Requests), NEW B \in SUBSET Requests
    PROVE  IsFiniteSet(B) /\ Cardinality(B) \in Nat
  BY FS_Subset, FS_CardinalityType

LEMMA FitsLess ==
    ASSUME IsFiniteSet(Requests), NEW A \in SUBSET Shares, NEW A1 \in SUBSET A,
           NEW B \in SUBSET Requests, NEW B1 \in SUBSET B, Fits(A, B)
    PROVE  Fits(A1, B1)
<1>1. /\ IsFiniteSet(A) /\ Cardinality(A) \in Nat
      /\ IsFiniteSet(B) /\ Cardinality(B) \in Nat
      /\ Cardinality(A1) \in Nat /\ Cardinality(B1) \in Nat
      /\ Cardinality(Requests) \in Nat
  <2>1. A1 \in SUBSET Shares /\ B1 \in SUBSET Requests /\ Requests \in SUBSET Requests
    OBVIOUS
  <2> QED
    BY <2>1, SharesFinite, RequestsFinite
<1>2. Cardinality(A1) <= Cardinality(A) /\ Cardinality(B1) <= Cardinality(B)
  BY <1>1, FS_Subset
<1> QED
  BY <1>1, <1>2 DEF Fits

\* One request less that will insert a row, and one row more.
LEMMA FitsInsert ==
    ASSUME IsFiniteSet(Requests), NEW A \in SUBSET Shares, NEW n \in Shares,
           NEW A1 \in SUBSET (A \cup {n}), NEW B \in SUBSET Requests,
           NEW r \in B, NEW B1 \in SUBSET (B \ {r}), Fits(A, B)
    PROVE  Fits(A1, B1)
<1>1. /\ IsFiniteSet(A) /\ Cardinality(A) \in Nat
      /\ IsFiniteSet(B) /\ Cardinality(B) \in Nat
  BY SharesFinite, RequestsFinite
<1>2. Cardinality(A \cup {n}) <= Cardinality(A) + 1
  <2>1. Cardinality(A \cup {n}) = IF n \in A THEN Cardinality(A)
                                             ELSE Cardinality(A) + 1
    BY <1>1, FS_AddElement
  <2> QED
    BY <1>1, <2>1
<1>3. Cardinality(B \ {r}) = Cardinality(B) - 1
  BY <1>1, FS_RemoveElement
<1>4. Cardinality(Requests) \in Nat
  BY RequestsFinite
<1>5. A \cup {n} \in SUBSET Shares /\ B \ {r} \in SUBSET Requests
  OBVIOUS
<1>6. Cardinality(A \cup {n}) \in Nat
  BY <1>5, SharesFinite
<1>7. Fits(A \cup {n}, B \ {r})
  BY <1>1, <1>2, <1>3, <1>4, <1>6 DEF Fits
<1> QED
  BY <1>5, <1>7, FitsLess

\* Every row is in the memory of a request that will insert none.
LEMMA FitsLoaded ==
    ASSUME IsFiniteSet(Requests), NEW A \in SUBSET Shares,
           NEW B \in SUBSET Requests, NEW f,
           \A i \in A : \E q \in Requests \ B : f[q] = i
    PROVE  Fits(A, B)
<1> DEFINE C == {q \in Requests \ B : f[q] \in A}
           g == [q \in C |-> f[q]]
<1>1. g \in Surjection(C, A)
  BY DEF Surjection
<1>2. /\ IsFiniteSet(C) /\ Cardinality(C) \in Nat
      /\ IsFiniteSet(B) /\ Cardinality(B) \in Nat /\ Cardinality(Requests) \in Nat
      /\ C \cup B \in SUBSET Requests /\ C \cap B = {}
      /\ IsFiniteSet(A) /\ Cardinality(A) \in Nat
  <2>1. C \in SUBSET Requests /\ Requests \in SUBSET Requests
    OBVIOUS
  <2> QED
    BY <2>1, RequestsFinite, SharesFinite
<1> HIDE DEF C, g
<1>3. Cardinality(A) <= Cardinality(C)
  BY <1>1, <1>2, FS_Surjection
<1>4. Cardinality(C \cup B) = Cardinality(C) + Cardinality(B)
  <2>1. Cardinality(C \cup B) =
           Cardinality(C) + Cardinality(B) - Cardinality(C \cap B)
    BY <1>2, FS_Union
  <2>2. Cardinality(C \cap B) = 0
    BY <1>2, FS_EmptySet
  <2> QED
    BY <1>2, <2>1, <2>2
<1>5. Cardinality(C \cup B) <= Cardinality(Requests)
  BY <1>2, FS_Subset
<1> QED
  BY <1>2, <1>3, <1>4, <1>5 DEF Fits

\* Where a step leaves no live row, what is in memory is all there is.
LEMMA BoundLoaded ==
    ASSUME IsFiniteSet(Requests)
    PROVE  /\ Alive' = {} => Fits(Alive' \cup Loaded', Inserting')
           /\ Living' = {} => Fits(Living' \cup Loaded', Saving')
<1>0. 0 \notin Shares
  BY DEF Shares
<1>1. Inserting' \in SUBSET Requests /\ Saving' \in SUBSET Requests
  BY DEF Inserting, Saving
<1>2. Loaded' \in SUBSET Shares
  BY DEF Loaded
<1>3. /\ \A i \in Loaded' : \E q \in Requests \ Inserting' : s'[q] = i
      /\ \A i \in Loaded' : \E q \in Requests \ Saving' : s'[q] = i
  BY <1>0 DEF Loaded, Inserting, Saving
<1>4. Fits(Loaded', Inserting') /\ Fits(Loaded', Saving')
  BY <1>1, <1>2, <1>3, FitsLoaded
<1>5. {} \cup Loaded' = Loaded'
  OBVIOUS
<1> QED
  BY <1>4, <1>5

LEMMA Places ==
    /\ Alive \in SUBSET Living /\ Living \in SUBSET Shares
    /\ Loaded \in SUBSET Shares /\ Saving \in SUBSET Inserting
    /\ Inserting \in SUBSET Requests
  BY DEF Alive, Living, WithStatus, Loaded, Saving, Inserting

\* A step that makes no row live but one in memory, takes into memory none
\* that a sweep would end, and finds no reason to insert one.
QuietRows   == Alive' \subseteq Alive \cup Loaded /\ Living' \subseteq Living \cup Loaded
QuietMemory == /\ Loaded' \subseteq Loaded \cup Alive
               /\ Inserting' \subseteq Inserting /\ Saving' \subseteq Saving

LEMMA BoundQuiet ==
    ASSUME IsFiniteSet(Requests), BoundInv, Closing', QuietRows, QuietMemory
    PROVE  BoundInv'
<1>1. /\ Alive' \cup Loaded' \in SUBSET (Alive \cup Loaded)
      /\ Living' \cup Loaded' \in SUBSET (Living \cup Loaded)
      /\ Alive \cup Loaded \in SUBSET Shares /\ Living \cup Loaded \in SUBSET Shares
      /\ Inserting' \in SUBSET Inserting /\ Saving' \in SUBSET Saving
      /\ Inserting \in SUBSET Requests /\ Saving \in SUBSET Requests
  BY Places DEF QuietRows, QuietMemory
<1>2. Fits(Alive' \cup Loaded', Inserting')
  BY <1>1, FitsLess DEF BoundInv
<1>3. Fits(Living' \cup Loaded', Saving')
  BY <1>1, FitsLess DEF BoundInv
<1> QED
  BY <1>2, <1>3 DEF BoundInv, Fits

\* A step that inserts the row n; a sweep may come before it.
LEMMA BoundInsert ==
    ASSUME IsFiniteSet(Requests), BoundInv, Closing', NEW n \in Shares,
           NEW r \in Inserting, Loaded' \subseteq Loaded,
           Alive' \subseteq Alive \cup {n}, Inserting' \subseteq Inserting \ {r},
           Saving' \subseteq Saving \ {r},
           \/ r \in Saving /\ Living' \subseteq Living \cup {n}
           \/ Living' \subseteq Alive \cup {n}
    PROVE  BoundInv'
<1>1. /\ Alive \cup Loaded \in SUBSET Shares /\ Living \cup Loaded \in SUBSET Shares
      /\ Inserting \in SUBSET Requests /\ Saving \in SUBSET Requests
      /\ Saving \in SUBSET Inserting
  BY Places
<1>2. Fits(Alive' \cup Loaded', Inserting')
  <2>1. Alive' \cup Loaded' \in SUBSET ((Alive \cup Loaded) \cup {n})
    OBVIOUS
  <2> QED
    BY <1>1, <2>1, FitsInsert DEF BoundInv
<1>3. Fits(Living' \cup Loaded', Saving')
  <2>1. CASE r \in Saving /\ Living' \subseteq Living \cup {n}
    <3>1. Living' \cup Loaded' \in SUBSET ((Living \cup Loaded) \cup {n})
      BY <2>1
    <3> QED
      BY <1>1, <2>1, <3>1, FitsInsert DEF BoundInv
  <2>2. CASE Living' \subseteq Alive \cup {n}
    <3>1. Living' \cup Loaded' \in SUBSET ((Alive \cup Loaded) \cup {n})
      BY <2>2
    <3>2. Saving' \in SUBSET (Inserting \ {r})
      BY <1>1
    <3> QED
      BY <1>1, <3>1, <3>2, FitsInsert DEF BoundInv
  <2> QED
    BY <2>1, <2>2
<1> QED
  BY <1>2, <1>3 DEF BoundInv, Fits

LEMMA MemoryHeld ==
    ASSUME RequestOK, NEW r \in Requests, NEW p, NEW st, NEW i, NEW t, NEW old,
           NEW v, Memory(r, p, st, i, t, old, v)
    PROVE  /\ Loaded' \subseteq Loaded \cup {i}
           /\ p \notin Working \/ i = 0 => Loaded' \subseteq Loaded
           /\ Inserting' \subseteq Inserting \cup {r} /\ Saving' \subseteq Saving \cup {r}
           /\ p \notin {"save", "owner"} \/ i # 0 => r \notin Inserting'
           /\ p # "save" \/ i # 0 => r \notin Saving'
<1>0. 0 \notin Shares
  BY DEF Shares
<1>1. /\ pc'[r] = p /\ s'[r] = i
      /\ \A q \in Requests \ {r} : pc'[q] = pc[q] /\ s'[q] = s[q]
  BY DEF RequestOK, Memory
<1>2. /\ Loaded' \subseteq Loaded \cup {i}
      /\ p \notin Working \/ i = 0 => Loaded' \subseteq Loaded
  BY <1>0, <1>1 DEF Loaded
<1>3. /\ Inserting' \subseteq Inserting \cup {r} /\ Saving' \subseteq Saving \cup {r}
      /\ p \notin {"save", "owner"} \/ i # 0 => r \notin Inserting'
      /\ p # "save" \/ i # 0 => r \notin Saving'
  BY <1>1 DEF Inserting, Saving
<1> QED
  BY <1>2, <1>3

LEMMA MemoryCloses ==
    ASSUME RequestOK, Closing, NEW r \in Requests, NEW p, NEW st, NEW i, NEW t,
           NEW old, NEW v, Memory(r, p, st, i, t, old, v),
           p \notin {"close", "end"} \/ t \in Final
    PROVE  Closing'
  BY DEF RequestOK, Memory, Closing

\* A request that goes on without a share session, or with one a sweep leaves.
LEMMA MemoryQuiet ==
    ASSUME RequestOK, Closing, NEW r \in Requests, NEW p, NEW st, NEW i, NEW t,
           NEW old, NEW v, Memory(r, p, st, i, t, old, v),
           p \notin Working \/ i \in Alive,
           p \notin {"close", "end"} \/ t \in Final
    PROVE  QuietMemory /\ Closing' /\ r \notin Inserting' /\ r \notin Saving'
<1>1. 0 \notin Alive /\ {"save", "owner"} \subseteq Working
  BY DEF Alive, Living, WithStatus, Shares, Working
<1>2. /\ Loaded' \subseteq Loaded \cup Alive
      /\ Inserting' \subseteq Inserting \cup {r} /\ Saving' \subseteq Saving \cup {r}
      /\ r \notin Inserting' /\ r \notin Saving'
  BY <1>1, MemoryHeld
<1>3. Closing'
  BY MemoryCloses
<1> QED
  BY <1>2, <1>3 DEF QuietMemory

LEMMA GoesQuiet ==
    ASSUME RequestOK, Closing, NEW r \in Requests,
           \/ Returns(r)
           \/ \E p \in PC \ (Working \cup {"close", "end"}) : \E st : Goes(r, p, st)
    PROVE  /\ QuietMemory /\ Closing' /\ Loaded' \subseteq Loaded
           /\ r \notin Inserting' /\ r \notin Saving'
<1>1. CASE Returns(r)
  <2>1. "idle" \notin Working
    BY DEF Working
  <2> QED
    BY <1>1, <2>1, MemoryQuiet, MemoryHeld DEF Returns
<1>2. CASE \E p \in PC \ (Working \cup {"close", "end"}) : \E st : Goes(r, p, st)
  BY <1>2, MemoryQuiet, MemoryHeld DEF Goes
<1> QED
  BY <1>1, <1>2

\* Rows become final, leases run out.
LEMMA RowsEnd ==
    ASSUME RowsOK, RowsOK', \A i \in Shares : left'[i] <= left[i],
           \A i \in Shares : status'[i] = status[i] \/ status'[i] \notin Live
    PROVE  QuietRows /\ Alive' \subseteq Alive /\ Living' \subseteq Living
<1>1. Living' \subseteq Living
  BY DEF Living, WithStatus
<1>2. \A i \in Shares : left[i] \in Int /\ left'[i] \in Int
  BY ShareAssumption DEF RowsOK
<1>3. Alive' \subseteq Alive
  BY <1>1, <1>2 DEF Alive, Living, WithStatus, Lapsed
<1> QED
  BY <1>1, <1>3 DEF QuietRows

\* A row is written, and others may become final.
LEMMA RowsWrite ==
    ASSUME NEW n \in Shares,
           \A i \in Shares \ {n} : /\ left'[i] = left[i]
                                   /\ status'[i] = status[i] \/ status'[i] \notin Live
    PROVE  Alive' \subseteq Alive \cup {n} /\ Living' \subseteq Living \cup {n}
<1>1. \A i \in Shares \ {n} : (i \in Alive' => i \in Alive)
                            /\ (i \in Living' => i \in Living)
  BY DEF Alive, Living, WithStatus, Lapsed
<1>2. Alive' \subseteq Shares /\ Living' \subseteq Shares
  BY DEF Alive, Living, WithStatus
<1> QED
  BY <1>1, <1>2

LEMMA RowsHeld ==
    ASSUME NEW r \in Requests, pc[r] \in Working, s[r] \in Shares,
           \A i \in Shares \ {s[r]} :
              /\ left'[i] = left[i]
              /\ status'[i] = status[i] \/ status'[i] \notin Live
    PROVE  QuietRows
<1>1. s[r] \in Loaded
  BY DEF Loaded
<1> QED
  BY <1>1, RowsWrite DEF QuietRows

\* What a sweep leaves live, and what getActiveShareSession finds after it.
LEMMA SweptAlive ==
    ASSUME RowsOK
    PROVE  /\ \A i \in Shares : Expired[i] \in Live <=> i \in Alive
           /\ ActiveIn(Expired) # 0 => ActiveIn(Expired) \in Alive
           /\ ActiveIn(Expired) = 0 => Alive = {}
<1>1. \A i \in Shares : Expired[i] \in Live <=> i \in Alive
  <2> SUFFICES ASSUME NEW i \in Shares PROVE Expired[i] \in Live <=> i \in Alive
    OBVIOUS
  <2>1. /\ Expired[i] \in {status[i], "expired"} /\ "expired" \notin Live
        /\ Expired[i] # status[i] => status[i] = "waiting" /\ Lapsed(i)
        /\ status[i] = "waiting" /\ Lapsed(i) => Expired[i] = "expired"
    BY SweepFact DEF Live
  <2> QED
    BY <2>1 DEF Alive, Living, WithStatus
<1>2. Expired \in [Shares -> Status] /\ Alive \subseteq Shares
  BY SweepFact DEF Alive, Living, WithStatus
<1> QED
  BY <1>1, <1>2, ActiveFact

LEMMA RequestBound ==
    ASSUME IsFiniteSet(Requests), TypeInv, TypeInv', BoundInv, NEW r \in Requests,
           Proceeds(r) \/ Fails(r) \/ Begins(r) \/ Task(r)
    PROVE  BoundInv'
<1>0. /\ RowsOK /\ RequestOK /\ RowsOK' /\ Closing
      /\ s[r] \in Shares \cup {0} /\ (pc[r] \in Holding => s[r] \in Shares)
      /\ Live \cap Final = {} /\ 0 \notin Shares
      /\ status \in [Shares -> Status] /\ Expired \in [Shares -> Status]
  BY SweepFact DEF TypeInv, RequestOK, RowsOK, BoundInv, Live, Final, Shares
<1>1. /\ "mark" \in PC \ (Working \cup {"close", "end"})
      /\ {"beat", "reset", "cancel", "lease", "ensure"}
            \subseteq PC \ (Working \cup {"close", "end"})
  BY DEF PC, Working
<1>2. \A i \in Shares : left[i] <= left[i]
  BY <1>0, ShareAssumption DEF RowsOK
<1>3. \A i \in Shares :
         /\ Expired[i] = status[i] \/ Expired[i] \notin Live
         /\ Cancelled[i] = status[i] \/ Cancelled[i] \notin Live
         /\ Swept(r)[i] = status[i] \/ Swept(r)[i] \notin Live
         /\ Released(status)[i] \notin Live /\ Released(Swept(r))[i] \notin Live
  BY <1>0, SweepFact, SweptFact, ReleasedFact DEF Live
<1>4. ASSUME UNCHANGED left,
             status' \in {Expired, Cancelled, Swept(r), Released(status),
                          Released(Swept(r)), status}
      PROVE  QuietRows /\ Alive' \subseteq Alive /\ Living' \subseteq Living
  BY <1>0, <1>2, <1>3, <1>4, RowsEnd
<1>5. CASE Proceeds(r)
  <2>1. CASE \/ Mark(r) \/ BeatStores(r) \/ BeatResets(r) \/ BeatCancels(r)
             \/ ListCommits(r) \/ SweepCommits(r)
    <3>1. QuietRows
      BY <1>4, <2>1 DEF Mark, BeatStores, BeatResets, BeatCancels, ListCommits,
                        SweepCommits, rows
    <3>2. Returns(r) \/ \E p \in PC \ (Working \cup {"close", "end"}) : \E st : Goes(r, p, st)
      BY <1>1, <2>1 DEF Mark, BeatStores, BeatResets, BeatCancels, ListCommits,
                        SweepCommits, AfterBeat
    <3> QED
      BY <1>0, <3>1, <3>2, GoesQuiet, BoundQuiet
  <2>2. CASE LeaseLoads(r)
    <3> DEFINE i == ActiveIn(status)
    <3>1. QuietRows
      BY <1>4, <2>2 DEF LeaseLoads, rows
    <3>2. \/ Returns(r) \/ Goes(r, "mark", "online") \/ Goes(r, "mark", "waiting")
          \/ /\ i # 0 /\ status[i] = "streaming"
             /\ Memory(r, "extend", "streaming", i, "waiting", FALSE, who[r])
      BY <2>2 DEF LeaseLoads, Holds
    <3>3. CASE Returns(r) \/ Goes(r, "mark", "online") \/ Goes(r, "mark", "waiting")
      BY <1>0, <1>1, <3>1, <3>3, GoesQuiet, BoundQuiet
    <3>4. CASE /\ i # 0 /\ status[i] = "streaming"
               /\ Memory(r, "extend", "streaming", i, "waiting", FALSE, who[r])
      <4>1. i \in Alive
        BY <1>0, <3>4, ActiveFact DEF Alive, Living, WithStatus, Live
      <4> HIDE DEF i
      <4>2. QuietMemory /\ Closing'
        BY <1>0, <3>4, <4>1, MemoryQuiet
      <4> QED
        BY <3>1, <4>2, BoundQuiet
    <3> QED
      BY <3>2, <3>3, <3>4
  <2>3. CASE LeaseExtends(r) \/ Renews(r) \/ Activates(r)
    <3>1. pc[r] \in Working /\ s[r] \in Shares
      BY <1>0, <2>3 DEF LeaseExtends, Renews, Activates, Working, Holding
    <3>2. \A i \in Shares \ {s[r]} : status'[i] = status[i] /\ left'[i] = left[i]
      BY <1>0, <2>3 DEF LeaseExtends, Renews, Activates, RowsOK
    <3>3. QuietRows
      BY <3>1, <3>2, RowsHeld
    <3>4. Returns(r) \/ Goes(r, "mark", m[r])
      BY <2>3 DEF LeaseExtends, Renews, Activates
    <3> QED
      BY <1>0, <1>1, <3>3, <3>4, GoesQuiet, BoundQuiet
  <2>4. CASE Closes(r) \/ EndCommits(r)
    <3>1. /\ status' = [status EXCEPT ![s[r]] = to[r]] /\ UNCHANGED left
          /\ to[r] \in Final
      BY <1>0, <2>4 DEF Closes, EndCommits, Closing
    <3>2. \A i \in Shares : status'[i] = status[i] \/ status'[i] \notin Live
      BY <1>0, <3>1
    <3>3. QuietRows
      BY <1>0, <1>2, <3>1, <3>2, RowsEnd
    <3>4. Returns(r) \/ Goes(r, "mark", m[r])
      BY <2>4 DEF Closes, EndCommits
    <3> QED
      BY <1>0, <1>1, <3>3, <3>4, GoesQuiet, BoundQuiet
  <2>5. CASE EnsureLoads(r)
    <3> DEFINE i == ActiveIn(Expired)
    <3>1. QuietRows /\ Alive' \subseteq Alive /\ Living' \subseteq Alive
      <4>1. status' = Expired /\ UNCHANGED left
        BY <2>5 DEF EnsureLoads
      <4>2. Living' \subseteq Alive
        BY <1>0, <4>1, SweptAlive DEF Living, WithStatus
      <4> QED
        BY <1>4, <4>1, <4>2
    <3>2. \/ Returns(r) \/ Goes(r, "mark", "waiting")
          \/ Memory(r, "save", m[r], i, "waiting", FALSE, who[r])
      BY <2>5 DEF EnsureLoads, Holds
    <3>3. CASE Returns(r) \/ Goes(r, "mark", "waiting")
      BY <1>0, <1>1, <3>1, <3>3, GoesQuiet, BoundQuiet
    <3>4. CASE Memory(r, "save", m[r], i, "waiting", FALSE, who[r])
      <4>0. (i # 0 => i \in Alive) /\ (i = 0 => Alive = {})
        BY <1>0, SweptAlive
      <4> HIDE DEF i
      <4>1. CASE i # 0
        <5>1. QuietMemory /\ Closing'
          BY <1>0, <3>4, <4>0, <4>1, MemoryQuiet
        <5> QED
          BY <3>1, <5>1, BoundQuiet
      <4>2. CASE i = 0
        <5>1. Alive' = {} /\ Living' = {}
          BY <3>1, <4>0, <4>2
        <5>2. Closing'
          BY <1>0, <3>4, MemoryCloses
        <5> QED
          BY <5>1, <5>2, BoundLoaded DEF BoundInv, Fits
      <4> QED
        BY <4>1, <4>2
    <3> QED
      BY <3>2, <3>3, <3>4
  <2>6. CASE EnsureSaves(r)
    <3>0. /\ pc[r] = "save" /\ Rotate(status, s[r], FALSE) /\ Goes(r, "mark", "waiting")
          /\ "save" \in Working
      BY <2>6 DEF EnsureSaves, Working
    <3>1. PICK n \in Shares : /\ status' = [status EXCEPT ![n] = "waiting"]
                              /\ s[r] # 0 => n = s[r]
                              /\ \A j \in Shares \ {n} : left'[j] = left[j]
      <4>1. Rotated(status, s[r])
        BY <1>0, <3>0, RotateFact
      <4> QED
        BY <4>1 DEF Rotated
    <3>2. \A j \in Shares \ {n} : /\ left'[j] = left[j]
                                  /\ status'[j] = status[j] \/ status'[j] \notin Live
      BY <1>0, <3>1
    <3>3. /\ QuietMemory /\ Closing' /\ Loaded' \subseteq Loaded
          /\ r \notin Inserting' /\ r \notin Saving'
      BY <1>0, <1>1, <3>0, GoesQuiet
    <3>4. CASE s[r] # 0
      <4>1. QuietRows
        BY <1>0, <3>0, <3>1, <3>2, <3>4, RowsHeld
      <4> QED
        BY <3>3, <4>1, BoundQuiet
    <3>5. CASE s[r] = 0
      <4>1. r \in Saving /\ r \in Inserting
        BY <3>0, <3>5 DEF Saving, Inserting
      <4>2. Alive' \subseteq Alive \cup {n} /\ Living' \subseteq Living \cup {n}
        BY <3>2, RowsWrite
      <4>3. Inserting' \subseteq Inserting \ {r} /\ Saving' \subseteq Saving \ {r}
        BY <3>3 DEF QuietMemory
      <4> QED
        BY <3>3, <4>1, <4>2, <4>3, BoundInsert
    <3> QED
      BY <3>4, <3>5
  <2>7. CASE OwnerCommits(r)
    <3>0. pc[r] = "owner" /\ Returns(r) /\ "owner" \in Working
      BY <2>7 DEF OwnerCommits, Working
    <3>1. /\ QuietMemory /\ Closing' /\ Loaded' \subseteq Loaded
          /\ r \notin Inserting' /\ r \notin Saving'
      BY <1>0, <3>0, GoesQuiet
    <3>2. CASE stale[r]
      <4>1. QuietRows
        BY <1>4, <2>7, <3>2 DEF OwnerCommits
      <4> QED
        BY <3>1, <4>1, BoundQuiet
    <3>3. CASE ~stale[r]
      <4>0. Swept(r) \in [Shares -> Status]
        BY <1>0, SweptFact
      <4>1. PICK n \in Shares : /\ status' = [Swept(r) EXCEPT ![n] = "waiting"]
                                /\ s[r] # 0 => n = s[r]
                                /\ \A j \in Shares \ {n} : left'[j] = left[j]
        <5>1. Rotate(Swept(r), s[r], TRUE)
          BY <2>7, <3>3 DEF OwnerCommits
        <5>2. Rotated(Swept(r), s[r])
          BY <1>0, <4>0, <5>1, RotateFact
        <5> QED
          BY <5>2 DEF Rotated
      <4>2. \A j \in Shares \ {n} : status'[j] = Swept(r)[j]
        BY <4>0, <4>1
      <4>3. \A j \in Shares \ {n} : /\ left'[j] = left[j]
                                    /\ status'[j] = status[j] \/ status'[j] \notin Live
        BY <1>3, <4>1, <4>2
      <4>4. CASE s[r] # 0
        <5>1. QuietRows
          BY <1>0, <3>0, <4>1, <4>3, <4>4, RowsHeld
        <5> QED
          BY <3>1, <5>1, BoundQuiet
      <4>5. CASE s[r] = 0
        <5>1. r \in Inserting /\ r \notin Saving
          BY <3>0, <4>5 DEF Saving, Inserting
        <5>2. Alive' \subseteq Alive \cup {n}
          BY <4>3, RowsWrite
        <5>5. \A j \in Shares \ {n} : status'[j] = Expired[j]
          BY <1>0, <4>2, <4>5, SweptFact
        <5>3. Living' \subseteq Alive \cup {n}
          BY <1>0, <5>5, SweptAlive DEF Living, WithStatus
        <5>4. Inserting' \subseteq Inserting \ {r} /\ Saving' \subseteq Saving \ {r}
          BY <3>1 DEF QuietMemory
        <5> QED
          BY <3>1, <5>1, <5>2, <5>3, <5>4, BoundInsert
      <4> QED
        BY <4>4, <4>5
    <3> QED
      BY <3>2, <3>3
  <2> QED
    BY <1>5, <2>1, <2>2, <2>3, <2>4, <2>5, <2>6, <2>7 DEF Proceeds
<1>6. CASE Fails(r)
  <2>1. QuietRows /\ Returns(r)
    BY <1>4, <1>6 DEF Fails, rows
  <2> QED
    BY <1>0, <2>1, GoesQuiet, BoundQuiet
<1>7. CASE Begins(r)
  <2>0. QuietRows /\ UNCHANGED <<status, left>>
    <3>1. UNCHANGED rows
      BY <1>7 DEF Begins, BeatLoads, ListLoads, OwnerLoads, ConnectLoads,
                  RefreshLoads, JoinLoads
    <3> QED
      BY <1>4, <3>1 DEF rows
  <2>1. CASE BeatLoads(r)
    BY <1>0, <1>1, <2>0, <2>1, GoesQuiet, BoundQuiet DEF BeatLoads
  <2>2. CASE ListLoads(r)
    <3>1. {"list", "sweep"} \cap (Working \cup {"close", "end"}) = {}
      BY DEF Working
    <3>3. \E p \in {"list", "sweep"} : \E st :
             Memory(r, p, st, ActiveIn(Expired), "waiting", IsStale, 0)
      BY <2>2 DEF ListLoads
    <3>2. QuietMemory /\ Closing'
      BY <1>0, <3>1, <3>3, MemoryQuiet
    <3> QED
      BY <2>0, <3>2, BoundQuiet
  <2>3. CASE OwnerLoads(r)
    <3> DEFINE i == ActiveIn(Expired)
    <3>0. (i # 0 => i \in Alive) /\ (i = 0 => Alive = {})
      BY <1>0, SweptAlive
    <3>1. PICK p \in {"owner", "sweep"} :
             Memory(r, p, machine, i, "waiting", IsStale, 0)
      BY <2>3 DEF OwnerLoads
    <3> HIDE DEF i
    <3>2. Closing'
      BY <1>0, <3>1, MemoryCloses
    <3>3. CASE i # 0
      <4>1. QuietMemory
        BY <1>0, <3>0, <3>1, <3>3, MemoryQuiet
      <4> QED
        BY <2>0, <3>2, <4>1, BoundQuiet
    <3>4. CASE i = 0
      <4>1. Alive' = {} /\ Living' = Living
        BY <2>0, <3>0, <3>4 DEF Alive, Living, WithStatus, Lapsed
      <4>2. Loaded' \subseteq Loaded /\ Saving' \subseteq Saving
        BY <1>0, <3>1, <3>4, MemoryHeld
      <4>3. Fits(Living' \cup Loaded', Saving')
        <5>1. /\ Living' \cup Loaded' \in SUBSET (Living \cup Loaded)
              /\ Living \cup Loaded \in SUBSET Shares /\ Saving \in SUBSET Requests
          BY <4>1, <4>2, Places
        <5> QED
          BY <4>2, <5>1, FitsLess DEF BoundInv
      <4> QED
        BY <3>2, <4>1, <4>3, BoundLoaded DEF BoundInv, Fits
    <3> QED
      BY <3>3, <3>4
  <2>4. CASE ConnectLoads(r) \/ RefreshLoads(r) \/ \E v \in Viewers : JoinLoads(r, v)
    <3>1. \/ UNCHANGED request
          \/ \E i \in Shares, t \in Final : \E st, v :
                Memory(r, "close", st, i, t, FALSE, v)
          \/ \E i \in Alive, p \in {"renew", "activate"} : \E st, t, v :
                Memory(r, p, st, i, t, FALSE, v)
      <4>1. (\A st \in Live : Lost(st) \in Final) /\ "ended" \in Final
        BY DEF Lost, Final
      <4>2. \A i \in Shares :
               Usable(i) => /\ status[i] \in Live
                            /\ ~Lapsed(i) => i \in Alive
                            /\ status[i] = "streaming" => i \in Alive
        BY DEF Usable, Alive, Living, WithStatus
      <4>3. CASE ConnectLoads(r)
        <5>1. PICK i \in Shares :
                 Usable(i) /\ Memory(r, "close", "online", i, Lost(status[i]), FALSE, 0)
          BY <4>3 DEF ConnectLoads
        <5>2. Lost(status[i]) \in Final
          BY <4>1, <4>2, <5>1
        <5> QED
          BY <5>1, <5>2
      <4>4. CASE RefreshLoads(r)
        <5>1. PICK i \in Shares :
                 /\ Usable(i) /\ status[i] = "streaming"
                 /\ \/ Memory(r, "close", "offline", i, "ended", FALSE, 0)
                    \/ Memory(r, "renew", "online", i, "waiting", FALSE, 0)
          BY <4>4 DEF RefreshLoads
        <5>2. i \in Alive
          BY <4>2, <5>1
        <5> QED
          BY <4>1, <5>1, <5>2
      <4>5. ASSUME NEW v \in Viewers, JoinLoads(r, v) PROVE <3>1!1 \/ <3>1!2 \/ <3>1!3
        <5>1. PICK i \in Shares :
                 /\ Usable(i)
                 /\ \/ Memory(r, "close", "online", i, Lost(status[i]), FALSE, 0)
                    \/ UNCHANGED request
                    \/ /\ ~Lapsed(i)
                       /\ Memory(r, "activate", "streaming", i, "streaming", FALSE, v)
          BY <4>5 DEF JoinLoads
        <5>2. Lost(status[i]) \in Final /\ (~Lapsed(i) => i \in Alive)
          BY <4>1, <4>2, <5>1
        <5> QED
          BY <5>1, <5>2
      <4> QED
        BY <2>4, <4>3, <4>4, <4>5
    <3>2. CASE UNCHANGED request
      <4>1. QuietMemory /\ Closing'
        BY <1>0, <3>2 DEF request, QuietMemory, Loaded, Inserting, Saving, Closing
      <4> QED
        BY <2>0, <4>1, BoundQuiet
    <3>3. CASE \E i \in Shares, t \in Final : \E st, v :
                  Memory(r, "close", st, i, t, FALSE, v)
      <4>1. "close" \notin Working
        BY DEF Working
      <4>2. QuietMemory /\ Closing'
        BY <1>0, <3>3, <4>1, MemoryQuiet
      <4> QED
        BY <2>0, <4>2, BoundQuiet
    <3>4. CASE \E i \in Alive, p \in {"renew", "activate"} : \E st, t, v :
                  Memory(r, p, st, i, t, FALSE, v)
      <4>1. QuietMemory /\ Closing'
        BY <1>0, <3>4, MemoryQuiet
      <4> QED
        BY <2>0, <4>1, BoundQuiet
    <3> QED
      BY <3>1, <3>2, <3>3, <3>4
  <2> QED
    BY <1>7, <2>1, <2>2, <2>3, <2>4 DEF Begins
<1>8. CASE Task(r)
  <2>0. QuietRows
    BY <1>4, <1>8 DEF Task, OfflineTask, EndLoads, rows
  <2>1. UNCHANGED request \/ \E i : Memory(r, "end", "online", i, "ended", FALSE, 0)
    BY <1>8 DEF Task, OfflineTask, EndLoads
  <2>2. CASE UNCHANGED request
    <3>1. QuietMemory /\ Closing'
      BY <1>0, <2>2 DEF request, QuietMemory, Loaded, Inserting, Saving, Closing
    <3> QED
      BY <2>0, <3>1, BoundQuiet
  <2>3. CASE \E i : Memory(r, "end", "online", i, "ended", FALSE, 0)
    <3>1. "end" \notin Working /\ "ended" \in Final
      BY DEF Working, Final
    <3>2. QuietMemory /\ Closing'
      BY <1>0, <2>3, <3>1, MemoryQuiet
    <3> QED
      BY <2>0, <3>2, BoundQuiet
  <2> QED
    BY <2>1, <2>2, <2>3
<1> QED
  BY <1>5, <1>6, <1>7, <1>8

LEMMA BoundInit ==
    ASSUME IsFiniteSet(Requests), Init
    PROVE  BoundInv
<1>1. /\ Living = {} /\ Alive = {} /\ Loaded = {} /\ Inserting = {} /\ Saving = {}
      /\ Closing
  BY DEF Init, Living, Alive, WithStatus, Live, Loaded, Working, Inserting,
         Saving, Closing
<1>2. Cardinality(Requests) \in Nat /\ Cardinality({}) = 0 /\ {} \cup {} = {}
  BY RequestsFinite, FS_EmptySet
<1>3. Fits({}, {})
  BY <1>2 DEF Fits
<1> QED
  BY <1>1, <1>2, <1>3 DEF BoundInv

LEMMA BoundNext ==
    ASSUME IsFiniteSet(Requests), TypeInv, BoundInv, [Next]_vars
    PROVE  BoundInv'
<1>0. TypeInv' /\ RowsOK /\ RowsOK' /\ Closing
  BY NextType DEF TypeInv, BoundInv
<1>1. ASSUME NEW r \in Requests, Proceeds(r) \/ Fails(r) \/ Begins(r) \/ Task(r)
      PROVE  BoundInv'
  BY <1>0, <1>1, RequestBound
<1>2. CASE Relay \/ Tick \/ UNCHANGED vars
  <2>1. /\ UNCHANGED <<status, request>>
        /\ \A i \in Shares : left'[i] <= left[i]
    <3>1. CASE Relay \/ UNCHANGED vars
      <4>1. UNCHANGED <<status, left, request>>
        BY <3>1 DEF Relay, AgentConnects, AgentLeaves, ViewerJoins,
                    ViewerGivesUp, ViewerLeaves, vars, rows
      <4> QED
        BY <1>0, <4>1, ShareAssumption DEF RowsOK
    <3>2. CASE Tick
      BY <1>0, <3>2, ShareAssumption DEF Tick, RowsOK
    <3> QED
      BY <1>2, <3>1, <3>2
  <2>2. QuietRows
    BY <1>0, <2>1, RowsEnd
  <2>3. QuietMemory /\ Closing'
    BY <1>0, <2>1 DEF request, QuietMemory, Loaded, Inserting, Saving, Closing
  <2> QED
    BY <2>2, <2>3, BoundQuiet
<1> QED
  BY <1>1, <1>2 DEF Next

\* n requests at a time leave a machine with n live sessions at most.
THEOREM SharesAreBounded ==
    ASSUME IsFiniteSet(Requests) PROVE Spec => []SharesBounded
<1>1. Init => TypeInv /\ BoundInv
  BY InitType, BoundInit
<1>2. TypeInv /\ BoundInv /\ [Next]_vars => TypeInv' /\ BoundInv'
  BY NextType, BoundNext
<1>3. BoundInv => SharesBounded
  <2> SUFFICES ASSUME BoundInv PROVE SharesBounded
    OBVIOUS
  <2>1. Fits(Living, {})
    <3>1. /\ Living \in SUBSET (Living \cup Loaded) /\ {} \in SUBSET Saving
          /\ Living \cup Loaded \in SUBSET Shares /\ Saving \in SUBSET Requests
      BY Places
    <3> QED
      BY <3>1, FitsLess DEF BoundInv
  <2>2. Cardinality(Living) \in Nat /\ Cardinality({}) = 0
    BY Places, SharesFinite, FS_EmptySet
  <2> QED
    BY <2>1, <2>2 DEF Fits, SharesBounded, Living
<1> QED
  BY <1>1, <1>2, <1>3, PTL DEF Spec

-----------------------------------------------------------------------------
(* The relay of ShareSession keeps to RelayPresence, the interface Relay   *)
(* implements: requests never touch an app that watches, and only a        *)
(* departure starts a task.                                                *)

Interface == INSTANCE RelayPresence WITH
    Clients   <- {0},
    Addresses <- Viewers,
    Starters  <- {"agent", "app"},
    OfflineBy <- [k \in {0} |-> {"agent"}],
    EndedBy   <- [k \in {0} |-> {"app"}],
    up        <- [k \in {0} |-> agentUp],
    watching  <- [k \in {0} |-> Watching],
    tasks     <- [t \in {"agent", "app"} |-> IF t = "agent" THEN offTasks ELSE endTasks]

InterfaceStep == [Interface!Next]_(Interface!vars)

\* A request that lets an app in has it for itself, and the app waits for it.
AskInv ==
    \A q, r \in Requests :
        who[r] # 0 => viewing[who[r]] = "asking" /\ (who[q] = who[r] => q = r)

\* What a step of a request that is not about its app does to AskInv.
LEMMA AskKept ==
    ASSUME RequestOK, AskInv, NEW r \in Requests, NEW w \in {who[r], 0},
           who' = [who EXCEPT ![r] = w], UNCHANGED viewing
    PROVE  AskInv'
<1>1. \A q \in Requests : who'[q] \in {who[q], 0}
  BY DEF RequestOK
<1> QED
  BY <1>1 DEF AskInv

\* A request returns and leaves its app in another state.
LEMMA AskAnswered ==
    ASSUME RequestOK, AskInv, NEW r \in Requests, NEW answer, Returns(r),
           viewing' = [v \in Viewers |-> IF v = who[r] THEN answer ELSE viewing[v]]
    PROVE  AskInv'
<1>1. /\ who'[r] = 0
      /\ \A q \in Requests \ {r} : who'[q] = who[q]
  BY DEF Returns, Memory, RequestOK
<1>2. \A q \in Requests : who[q] \in Viewers \cup {0}
  BY DEF RequestOK
<1>3. ASSUME NEW q \in Requests, who'[q] # 0
      PROVE  q # r /\ who'[q] = who[q] /\ who[q] \in Viewers /\ who[q] # who[r]
  BY <1>1, <1>2, <1>3 DEF AskInv
<1>4. \A q \in Requests : who'[q] # 0 => viewing'[who'[q]] = "asking"
  BY <1>3 DEF AskInv
<1> QED
  BY <1>1, <1>3, <1>4 DEF AskInv

\* The memory of a request keeps its app or forgets it.
LEMMA GoesWho ==
    ASSUME NEW r \in Requests, NEW p, NEW st, NEW i,
           \/ Goes(r, p, st) \/ Holds(r, p, st, i) \/ Returns(r)
    PROVE  \E w \in {who[r], 0} : who' = [who EXCEPT ![r] = w]
  BY DEF Goes, Holds, Returns, Memory

LEMMA AfterBeatWho ==
    ASSUME NEW r \in Requests, NEW st, NEW share, AfterBeat(r, st, share)
    PROVE  \E w \in {who[r], 0} : who' = [who EXCEPT ![r] = w]
  BY GoesWho DEF AfterBeat

\* No request changes who watches, and none starts a task.
LEMMA RequestsUnseen ==
    ASSUME RequestOK, RelayOK, AskInv, NEW r \in Requests,
           Proceeds(r) \/ Fails(r) \/ Begins(r)
    PROVE  AskInv' /\ UNCHANGED <<agentUp, Watching, offTasks, endTasks>>
<1> DEFINE Kept == \E w \in {who[r], 0} : who' = [who EXCEPT ![r] = w]
<1>1. ASSUME UNCHANGED relay, Kept
      PROVE  AskInv' /\ UNCHANGED <<agentUp, Watching, offTasks, endTasks>>
  BY <1>1, AskKept DEF relay, Watching
<1>2. ASSUME NEW answer, answer # "in", Returns(r),
             viewing' = [v \in Viewers |-> IF v = who[r] THEN answer ELSE viewing[v]]
      PROVE  AskInv' /\ Watching' = Watching
  <2>1. \A v \in Viewers : v = who[r] => v # 0 /\ viewing[v] = "asking"
    BY ShareAssumption DEF AskInv
  <2>2. \A v \in Viewers : viewing'[v] = "in" <=> viewing[v] = "in"
    BY <1>2, <2>1
  <2> QED
    BY <1>2, <2>2, AskAnswered DEF Watching
<1>3. CASE Mark(r)
  BY <1>2, <1>3 DEF Mark
<1>4. CASE Fails(r)
  BY <1>2, <1>4 DEF Fails
<1>5. CASE BeatStores(r) \/ BeatResets(r)
  BY <1>1, <1>5, GoesWho, AfterBeatWho DEF BeatStores, BeatResets
<1>6. CASE BeatCancels(r) \/ LeaseLoads(r) \/ LeaseExtends(r)
  BY <1>1, <1>6, GoesWho DEF BeatCancels, LeaseLoads, LeaseExtends
<1>7. CASE EnsureLoads(r) \/ EnsureSaves(r)
  BY <1>1, <1>7, GoesWho DEF EnsureLoads, EnsureSaves
<1>8. CASE OwnerCommits(r) \/ ListCommits(r) \/ SweepCommits(r) \/ Renews(r)
  BY <1>1, <1>8, GoesWho DEF OwnerCommits, ListCommits, SweepCommits, Renews
<1>9. CASE Closes(r) \/ Activates(r)
  BY <1>1, <1>9, GoesWho DEF Closes, Activates
<1>10. CASE EndCommits(r)
  BY <1>1, <1>10, GoesWho DEF EndCommits
<1>11. CASE BeatLoads(r)
  BY <1>1, <1>11, GoesWho DEF BeatLoads
<1>12. CASE OwnerLoads(r) \/ ListLoads(r) \/ ConnectLoads(r) \/ RefreshLoads(r)
  BY <1>1, <1>12 DEF OwnerLoads, ListLoads, ConnectLoads, RefreshLoads, Memory
<1>13. ASSUME NEW v \in Viewers, JoinLoads(r, v)
       PROVE  AskInv' /\ UNCHANGED <<agentUp, Watching, offTasks, endTasks>>
  <2>1. UNCHANGED <<agentUp, offTasks, endTasks>> /\ viewing[v] = "out" /\ v # 0
    BY <1>13, ShareAssumption DEF JoinLoads
  <2>2. \A q \in Requests : who[q] # v
    BY <2>1 DEF AskInv
  <2>3. CASE UNCHANGED viewing /\ Kept
    BY <2>1, <2>3, AskKept DEF Watching
  <2>4. CASE viewing' = [viewing EXCEPT ![v] = "admitted"] /\ UNCHANGED who
    <3>1. Watching' = Watching
      BY <2>1, <2>4 DEF RelayOK, Watching
    <3>2. AskInv'
      BY <2>2, <2>4 DEF RelayOK, RequestOK, AskInv
    <3> QED
      BY <2>1, <3>1, <3>2
  <2>5. CASE viewing' = [viewing EXCEPT ![v] = "asking"] /\ who' = [who EXCEPT ![r] = v]
    <3>1. Watching' = Watching
      BY <2>1, <2>5 DEF RelayOK, Watching
    <3>2. AskInv'
      BY <2>1, <2>2, <2>5 DEF RelayOK, RequestOK, AskInv
    <3> QED
      BY <2>1, <3>1, <3>2
  <2> QED
    BY <1>13, <2>3, <2>4, <2>5 DEF JoinLoads, Memory, request
<1> QED
  BY <1>3, <1>4, <1>5, <1>6, <1>7, <1>8, <1>9, <1>10, <1>11, <1>12, <1>13
  DEF Proceeds, Begins

\* Every step is one of the interface or is not seen by it.
LEMMA InterfaceNext ==
    ASSUME TypeInv, AskInv, [Next]_vars
    PROVE  AskInv' /\ InterfaceStep
<1> DEFINE tasks == [t \in {"agent", "app"} |-> IF t = "agent" THEN offTasks ELSE endTasks]
<1>0. RelayOK /\ RequestOK /\ offTasks \in Nat /\ endTasks \in Nat
  BY ShareAssumption DEF TypeInv, RelayOK
<1> USE <1>0
<1>1. ASSUME UNCHANGED <<agentUp, Watching, offTasks, endTasks>> PROVE InterfaceStep
  BY <1>1 DEF InterfaceStep, Interface!vars
<1>2. ASSUME NEW r \in Requests, Proceeds(r) \/ Fails(r) \/ Begins(r)
      PROVE  AskInv' /\ InterfaceStep
  BY <1>1, <1>2, RequestsUnseen
<1>3. ASSUME UNCHANGED <<viewing, who>> PROVE AskInv' /\ Watching' = Watching
  BY <1>3 DEF AskInv, Watching
<1>4. ASSUME NEW r \in Requests, OfflineTask(r) PROVE AskInv' /\ InterfaceStep
  <2>1. /\ offTasks > 0 /\ offTasks' = offTasks - 1
        /\ UNCHANGED <<agentUp, viewing, endTasks, who>>
    BY <1>4 DEF OfflineTask, request
  <2>2. tasks' = [tasks EXCEPT !["agent"] = @ - 1] /\ tasks["agent"] > 0
    BY <2>1
  <2>3. Interface!TaskRuns("agent")
    BY <1>3, <2>1, <2>2 DEF Interface!TaskRuns
  <2> QED
    BY <1>3, <2>1, <2>3 DEF InterfaceStep, Interface!Next
<1>5. ASSUME NEW r \in Requests, EndLoads(r) PROVE AskInv' /\ InterfaceStep
  <2>1. /\ endTasks > 0 /\ endTasks' = endTasks - 1
        /\ UNCHANGED <<agentUp, viewing, offTasks>>
        /\ \E w \in {who[r], 0} : who' = [who EXCEPT ![r] = w]
    BY <1>5 DEF EndLoads, Memory, request, RequestOK
  <2>2. tasks' = [tasks EXCEPT !["app"] = @ - 1] /\ tasks["app"] > 0
    BY <2>1
  <2>3. Watching' = Watching
    BY <2>1 DEF Watching
  <2>4. Interface!TaskRuns("app")
    BY <2>1, <2>2, <2>3 DEF Interface!TaskRuns
  <2> QED
    BY <2>1, <2>4, AskKept DEF InterfaceStep, Interface!Next
<1>6. CASE AgentConnects
  <2>1. /\ ~agentUp /\ agentUp' = TRUE
        /\ UNCHANGED <<viewing, offTasks, endTasks, who>>
    BY <1>6 DEF AgentConnects, request
  <2>2. Interface!AgentConnects(0)
    BY <1>3, <2>1 DEF Interface!AgentConnects
  <2> QED
    BY <1>3, <2>1, <2>2 DEF InterfaceStep, Interface!Next
<1>7. CASE AgentLeaves
  <2>1. /\ agentUp /\ agentUp' = FALSE /\ UNCHANGED <<endTasks, who>>
        /\ viewing' = [v \in Viewers |-> IF v \in Watching THEN "out" ELSE viewing[v]]
        /\ offTasks' = offTasks + 1
    BY <1>7 DEF AgentLeaves, request
  <2>2. Watching' = {}
    BY <2>1 DEF Watching
  <2>3. AskInv'
    BY <2>1 DEF Watching, AskInv, RequestOK
  <2>4. tasks' = [tasks EXCEPT !["agent"] = @ + 1]
    BY <2>1
  <2>5. Interface!AgentLeaves(0)
    BY <2>1, <2>2, <2>4 DEF Interface!AgentLeaves, Interface!Starts
  <2> QED
    BY <2>3, <2>5 DEF InterfaceStep, Interface!Next
<1>8. ASSUME NEW v \in Viewers, ViewerJoins(v) PROVE AskInv' /\ InterfaceStep
  <2>1. /\ agentUp /\ viewing[v] \in {"out", "admitted"}
        /\ viewing' = [viewing EXCEPT ![v] = "in"]
        /\ UNCHANGED <<agentUp, offTasks, endTasks, who>>
    BY <1>8 DEF ViewerJoins, request
  <2>2. Watching' = Watching \cup {v} /\ v \notin Watching
    BY <2>1 DEF Watching, RelayOK
  <2>3. AskInv'
    BY <2>1 DEF AskInv, RelayOK, RequestOK
  <2>4. Interface!AppJoins(0, v)
    BY <2>1, <2>2 DEF Interface!AppJoins
  <2> QED
    BY <2>3, <2>4 DEF InterfaceStep, Interface!Next
<1>9. ASSUME NEW v \in Viewers, ViewerGivesUp(v) PROVE AskInv' /\ InterfaceStep
  <2>1. /\ viewing[v] = "admitted" /\ viewing' = [viewing EXCEPT ![v] = "out"]
        /\ UNCHANGED <<agentUp, offTasks, endTasks, who>>
    BY <1>9 DEF ViewerGivesUp, request
  <2>2. Watching' = Watching
    BY <2>1 DEF Watching, RelayOK
  <2>3. AskInv'
    BY <2>1 DEF AskInv, RelayOK, RequestOK
  <2> QED
    BY <1>1, <2>1, <2>2, <2>3
<1>10. ASSUME NEW v \in Viewers, ViewerLeaves(v) PROVE AskInv' /\ InterfaceStep
  <2>1. /\ viewing[v] = "in" /\ viewing' = [viewing EXCEPT ![v] = "out"]
        /\ endTasks' = IF Watching = {v} THEN endTasks + 1 ELSE endTasks
        /\ UNCHANGED <<agentUp, offTasks, who>>
    BY <1>10 DEF ViewerLeaves, request
  <2>2. Watching' = Watching \ {v} /\ v \in Watching
    BY <2>1 DEF Watching, RelayOK
  <2>3. AskInv'
    BY <2>1 DEF AskInv, RelayOK, RequestOK
  <2>4. /\ Watching = {v} => tasks' = [tasks EXCEPT !["app"] = @ + 1]
        /\ Watching # {v} => tasks' = tasks
    BY <2>1
  <2>5. Interface!AppLeaves(0, v)
    BY <2>1, <2>2, <2>4 DEF Interface!AppLeaves, Interface!Starts
  <2> QED
    BY <2>3, <2>5 DEF InterfaceStep, Interface!Next
<1>11. CASE Tick \/ UNCHANGED vars
  BY <1>1, <1>3, <1>11 DEF Tick, vars, relay, request
<1> QED
  BY <1>2, <1>4, <1>5, <1>6, <1>7, <1>8, <1>9, <1>10, <1>11 DEF Next, Task, Relay

\* ShareSession's relay does nothing the interface does not allow: no request,
\* failing or not, disturbs an app that is connected, and tasks come from
\* departures only (relay.go:323-372, middleware/auth.go:176-222).
THEOREM SharesKeepToPresence == Spec => Interface!Spec
<1>1. Init => AskInv /\ Interface!Init
  <2> SUFFICES ASSUME Init PROVE AskInv /\ Interface!Init
    OBVIOUS
  <2>1. AskInv
    BY DEF Init, AskInv
  <2>2. agentUp = FALSE /\ Watching = {} /\ offTasks = 0 /\ endTasks = 0
    BY DEF Init, Watching
  <2> QED
    BY <2>1, <2>2 DEF Interface!Init
<1>2. TypeInv /\ AskInv /\ [Next]_vars
         => TypeInv' /\ AskInv' /\ [Interface!Next]_(Interface!vars)
  BY NextType, InterfaceNext DEF InterfaceStep
<1> QED
  BY <1>1, <1>2, InitType, PTL DEF Spec, Interface!Spec

\* Conversely what the interface allows, ShareSession's relay does: only an app
\* that still asks is kept from coming, and only the bound on tasks keeps
\* anybody from leaving.
LEMMA PresenceIsKept ==
    ASSUME TypeInv, UNCHANGED <<machine, unseen, rows, request>>
    PROVE  /\ /\ Interface!AgentConnects(0) /\ UNCHANGED viewing
              => AgentConnects
           /\ /\ Interface!AgentLeaves(0) /\ offTasks < MaxTasks
              /\ viewing' = [v \in Viewers |-> IF v \in Watching THEN "out"
                                               ELSE viewing[v]]
              => AgentLeaves
           /\ \A v \in Viewers :
                 /\ /\ Interface!AppJoins(0, v) /\ viewing[v] # "asking"
                    /\ viewing' = [viewing EXCEPT ![v] = "in"]
                    => ViewerJoins(v)
                 /\ /\ Interface!AppLeaves(0, v)
                    /\ viewing' = [viewing EXCEPT ![v] = "out"]
                    /\ Watching = {v} => endTasks < MaxTasks
                    => ViewerLeaves(v)
<1> DEFINE up    == [k \in {0} |-> agentUp]
           tasks == [t \in {"agent", "app"} |-> IF t = "agent" THEN offTasks ELSE endTasks]
<1>0. /\ RelayOK /\ offTasks \in Nat /\ endTasks \in Nat
      /\ agentUp \in BOOLEAN
  BY ShareAssumption DEF TypeInv, RelayOK
<1>1. up[0] = agentUp /\ up'[0] = agentUp'
  OBVIOUS
<1>2. /\ tasks["agent"] = offTasks /\ tasks["app"] = endTasks
      /\ tasks'["agent"] = offTasks' /\ tasks'["app"] = endTasks'
  OBVIOUS
<1>3. ASSUME tasks' = tasks PROVE UNCHANGED <<offTasks, endTasks>>
  BY <1>2, <1>3
<1>4. ASSUME NEW b, up' = [up EXCEPT ![0] = b] PROVE agentUp' = b
  BY <1>1, <1>4
<1>5. ASSUME up' = up PROVE agentUp' = agentUp
  BY <1>1, <1>5
<1>6. ASSUME Interface!AgentConnects(0), UNCHANGED viewing
      PROVE  AgentConnects
  <2>1. ~agentUp /\ up' = [up EXCEPT ![0] = TRUE] /\ tasks' = tasks
    BY <1>1, <1>6 DEF Interface!AgentConnects
  <2> QED
    BY <1>3, <1>4, <1>6, <2>1 DEF AgentConnects
<1>7. ASSUME Interface!AgentLeaves(0), offTasks < MaxTasks,
             viewing' = [v \in Viewers |-> IF v \in Watching THEN "out" ELSE viewing[v]]
      PROVE  AgentLeaves
  <2>1. /\ agentUp /\ up' = [up EXCEPT ![0] = FALSE]
        /\ tasks' = [tasks EXCEPT !["agent"] = @ + 1]
    BY <1>1, <1>7 DEF Interface!AgentLeaves, Interface!Starts
  <2>2. offTasks' = offTasks + 1 /\ endTasks' = endTasks
    BY <1>2, <2>1
  <2> QED
    BY <1>4, <1>7, <2>1, <2>2 DEF AgentLeaves
<1>8. ASSUME NEW v \in Viewers, Interface!AppJoins(0, v), viewing[v] # "asking",
             viewing' = [viewing EXCEPT ![v] = "in"]
      PROVE  ViewerJoins(v)
  <2>1. agentUp /\ v \notin Watching /\ up' = up /\ tasks' = tasks
    BY <1>1, <1>8 DEF Interface!AppJoins
  <2>2. viewing[v] \in {"out", "admitted"}
    BY <1>0, <1>8, <2>1 DEF RelayOK, Watching
  <2> QED
    BY <1>3, <1>5, <1>8, <2>1, <2>2 DEF ViewerJoins
<1>9. ASSUME NEW v \in Viewers, Interface!AppLeaves(0, v),
             viewing' = [viewing EXCEPT ![v] = "out"],
             Watching = {v} => endTasks < MaxTasks
      PROVE  ViewerLeaves(v)
  <2>1. /\ v \in Watching /\ up' = up
        /\ Watching = {v} => tasks' = [tasks EXCEPT !["app"] = @ + 1]
        /\ Watching # {v} => tasks' = tasks
    BY <1>9 DEF Interface!AppLeaves, Interface!Starts
  <2>2. /\ offTasks' = offTasks
        /\ endTasks' = IF Watching = {v} THEN endTasks + 1 ELSE endTasks
    BY <1>2, <2>1
  <2>3. viewing[v] = "in"
    BY <2>1 DEF Watching
  <2> QED
    BY <1>5, <1>9, <2>1, <2>2, <2>3 DEF ViewerLeaves
<1> QED
  BY <1>6, <1>7, <1>8, <1>9
==============================================================================
