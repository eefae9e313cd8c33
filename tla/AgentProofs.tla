----------------------------- MODULE AgentProofs -----------------------------
(***************************************************************************)
(* The safety of AgentSession over TerminalHub for any number of clients,  *)
(* names, shells and attachments, and queues of any capacity.              *)
(***************************************************************************)
EXTENDS AgentSession, TLAPS, SequenceTheorems, WellFoundedInduction

-----------------------------------------------------------------------------
(* Types.                                                                  *)

Size == (Nat \X Nat) \cup {NoSize}

RequestOK ==
    /\ plan \in Plan
    /\ \A c \in Conns : Len(plan.asks[c]) <= Inits[c]
    /\ net \in [Conns -> {"up", "broken"}]
    /\ asked \in [Conns -> Nat]
    /\ request \in [Conns -> [id : SessionIDs, size : Size]]
    /\ told \in [Conns -> Size]

HandlerOK ==
    /\ hpc \in [Conns -> {"read", "write", "open", "hook", "register", "attach",
                          "closing", "done"}]
    /\ term \in [Conns -> Terms \cup {NoTerm}]
    /\ new \in [Conns -> Terms \cup {NoTerm}]
    /\ keep \in [Conns -> BOOLEAN]
    /\ current \in [Conns -> Nat]

QueueOK ==
    /\ chan \in [Conns -> Seq(Frame)]
    /\ \A c \in Conns : Len(chan[c]) <= QueueCap
    /\ closed \in [Conns -> BOOLEAN]
    /\ wpc \in [Conns -> {"ready", "done"}]

StreamOK ==
    /\ spc \in [Streams -> {"none", "join", "resize", "run", "blocked", "done"}]
    /\ target \in [Streams -> Terms \cup {NoTerm}]
    /\ window \in [Streams -> Size]

ContentOK ==
    /\ buffer \in [Streams -> Seq(Nat)]
    /\ pending \in [Streams -> Seq(Nat)]
    /\ took \in [Streams -> Seq(Nat)]

\* What a program counter says about the variables beside it.
PlaceOK ==
    /\ \A c \in Conns :
           /\ hpc[c] \in {"hook", "register"} => request[c].id \in Names /\ new[c] \in Terms
           /\ hpc[c] \in {"open", "hook", "register"} => term[c] = NoTerm
           /\ hpc[c] = "attach" => term[c] \in Terms
           /\ hpc[c] \in {"open", "hook", "register", "attach"} => request[c].size # NoSize
    /\ \A s \in Streams : spc[s] # "none" => target[s] \in Terms /\ window[s] # NoSize

HubOK == ShellsOK /\ ViewersOK /\ FeedsOK /\ NamesOK

TypeInv ==
    /\ HubOK /\ RequestOK /\ HandlerOK /\ QueueOK /\ StreamOK /\ ContentOK
    /\ PlaceOK
    /\ crashed \in BOOLEAN

LEMMA TypeInvImplies == TypeInv => TypeOK
  BY DEF TypeInv, HubOK, RequestOK, HandlerOK, QueueOK, StreamOK, ContentOK, TypeOK, Size

LEMMA StreamFact ==
    /\ Listeners = Streams
    /\ \A s \in Streams : s = <<s[1], s[2]>> /\ s[1] \in Conns /\ s[2] \in Nat
<1>1. ASSUME NEW s \in Streams PROVE s = <<s[1], s[2]>> /\ s[1] \in Conns /\ s[2] \in Nat
  <2>1. PICK c \in Conns : s \in {c} \X (1 .. Inits[c])
    BY DEF Streams
  <2>2. Inits[c] \in Nat
    BY SessionAssumption
  <2> QED
    BY <2>1, <2>2
<1> QED
  BY <1>1, SessionAssumption

LEMMA TextFact == Text \in Frame
  BY DEF Text, Frame

LEMMA TypeInit == Init => TypeInv
<1> SUFFICES ASSUME Init PROVE TypeInv
  OBVIOUS
<1> USE DEF Init
<1>1. HubOK
  <2>1. ShellsOK /\ NamesOK
    BY DEF HubInit, ShellsOK, NamesOK, Lives
  <2>2. ViewersOK
    BY DEF HubInit, ViewersOK
  <2>3. FeedsOK
    BY StreamFact, HubAssumption DEF HubInit, FeedsOK
  <2> QED
    BY <2>1, <2>2, <2>3 DEF HubOK
<1>2. RequestOK
  BY SessionAssumption DEF RequestOK, Size, SessionIDs
<1>3. HandlerOK
  BY DEF HandlerOK
<1>4. QueueOK
  BY SessionAssumption DEF QueueOK
<1>5. StreamOK
  BY DEF StreamOK, Size
<1>6. ContentOK
  BY DEF ContentOK
<1>7. PlaceOK
  BY DEF PlaceOK
<1> QED
  BY <1>1, <1>2, <1>3, <1>4, <1>5, <1>6, <1>7 DEF TypeInv

\* A variable nobody writes keeps its type.
LEMMA Keeps ==
    ASSUME TypeInv
    PROVE  /\ UNCHANGED shells => ShellsOK'
           /\ UNCHANGED viewers => ViewersOK'
           /\ UNCHANGED feeds => FeedsOK'
           /\ UNCHANGED names => NamesOK'
           /\ UNCHANGED client => RequestOK'
           /\ UNCHANGED handler => HandlerOK'
           /\ UNCHANGED <<chan, closed, wpc>> => QueueOK'
           /\ UNCHANGED stream => StreamOK'
           /\ UNCHANGED <<content, took>> => ContentOK'
           /\ UNCHANGED <<hpc, request, new, term, stream>> => PlaceOK'
           /\ UNCHANGED crashed => crashed' \in BOOLEAN
<1>1. UNCHANGED shells => ShellsOK'
  BY DEF TypeInv, HubOK, ShellsOK, shells
<1>2. UNCHANGED viewers => ViewersOK'
  BY DEF TypeInv, HubOK, ViewersOK, viewers
<1>3. UNCHANGED feeds => FeedsOK'
  BY DEF TypeInv, HubOK, FeedsOK, feeds
<1>4. UNCHANGED names => NamesOK'
  BY DEF TypeInv, HubOK, NamesOK, names
<1>5. UNCHANGED client => RequestOK'
  BY DEF TypeInv, RequestOK, client
<1>6. UNCHANGED handler => HandlerOK'
  BY DEF TypeInv, HandlerOK, handler
<1>7. UNCHANGED <<chan, closed, wpc>> => QueueOK'
  BY DEF TypeInv, QueueOK
<1>8. UNCHANGED stream => StreamOK'
  BY DEF TypeInv, StreamOK, stream
<1>9. UNCHANGED <<content, took>> => ContentOK'
  BY DEF TypeInv, ContentOK, content
<1>10. UNCHANGED <<hpc, request, new, term, stream>> => PlaceOK'
  BY DEF TypeInv, PlaceOK, stream
<1>11. UNCHANGED crashed => crashed' \in BOOLEAN
  BY DEF TypeInv
<1> QED
  BY <1>1, <1>2, <1>3, <1>4, <1>5, <1>6, <1>7, <1>8, <1>9, <1>10, <1>11

\* The least of some numbers.
LEMMA MinFact ==
    ASSUME NEW S \in SUBSET Nat, S # {}
    PROVE  Min(S) \in S /\ \A y \in S : Min(S) <= y
<1>1. PICK x \in S : \A y \in S : ~(<<y, x>> \in OpToRel(<, Nat))
  BY NatLessThanWellFounded, WFMin
<1>2. \A y, z \in Nat : y < z => <<y, z>> \in OpToRel(<, Nat)
  BY DEF OpToRel
<1>3. \A y \in S : ~(y < x)
  BY <1>1, <1>2
<1>4. \A y \in S : x <= y
  BY <1>3
<1> QED
  BY <1>4 DEF Min

\* The common size fits every one of them.
LEMMA CommonFact ==
    ASSUME NEW S \in SUBSET (Nat \X Nat), S # {}
    PROVE  /\ Common(S) \in Nat \X Nat
           /\ \A z \in S : Common(S)[1] <= z[1] /\ Common(S)[2] <= z[2]
<1> DEFINE A == {z[1] : z \in S}  B == {z[2] : z \in S}
<1>1. A \in SUBSET Nat /\ A # {} /\ B \in SUBSET Nat /\ B # {}
  OBVIOUS
<1>2. Min(A) \in A /\ (\A y \in A : Min(A) <= y) /\ Min(B) \in B /\ (\A y \in B : Min(B) <= y)
  BY <1>1, MinFact
<1>3. Common(S) = <<Min(A), Min(B)>>
  BY DEF Common
<1>4. \A z \in S : z[1] \in A /\ z[2] \in B
  OBVIOUS
<1>5. Min(A) \in Nat /\ Min(B) \in Nat
  BY <1>1, <1>2
<1> HIDE DEF A, B
<1>6. Common(S)[1] = Min(A) /\ Common(S)[2] = Min(B) /\ Common(S) \in Nat \X Nat
  BY <1>3, <1>5
<1> QED
  BY <1>2, <1>4, <1>6

\* UpdateClientSize sets one entry, and the shell fits all that are there.
LEMMA ResizeFact ==
    ASSUME ViewersOK, NEW t \in Terms, NEW i \in IDs, NEW z \in Size,
           UpdateClientSize(t, i, z)
    PROVE  /\ ViewersOK'
           /\ sizes'[t][i] = Entry(z)
           /\ \A u \in Terms, j \in IDs : u # t \/ j # i => sizes'[u][j] = sizes[u][j]
           /\ \A u \in Terms \ {t} : size'[u] = size[u]
           /\ \A j \in IDs : sizes'[t][j] # NoSize =>
                  size'[t][1] <= sizes'[t][j][1] /\ size'[t][2] <= sizes'[t][j][2]
<1> DEFINE e == Entry(z)  left == SizesIn([sizes[t] EXCEPT ![i] = e])
<1>1. sizes' = [sizes EXCEPT ![t][i] = e]
  BY DEF UpdateClientSize
<1>2. size' = [size EXCEPT ![t] = IF left = {} THEN @ ELSE Common(left)]
  BY DEF UpdateClientSize
<1>e. e \in Size
  BY DEF Entry, Size
<1> HIDE DEF e
<1>3. sizes' \in [Terms -> [IDs -> Size]]
  BY <1>1, <1>e DEF ViewersOK, Size
<1>4. sizes'[t] = [sizes[t] EXCEPT ![i] = e]
  BY <1>1 DEF ViewersOK
<1>5. left = {sizes'[t][j] : j \in IDs} \ {NoSize}
  BY <1>4 DEF SizesIn
<1>6. left \in SUBSET (Nat \X Nat)
  BY <1>3, <1>5 DEF Size
<1> HIDE DEF left
<1>7. left # {} => /\ Common(left) \in Nat \X Nat
                   /\ \A x \in left : Common(left)[1] <= x[1] /\ Common(left)[2] <= x[2]
  BY <1>6, CommonFact
<1>8. size' \in [Terms -> Size]
  BY <1>2, <1>7 DEF ViewersOK, Size
<1>9. size'[t] = (IF left = {} THEN size[t] ELSE Common(left))
  BY <1>2 DEF ViewersOK
<1>10. \A j \in IDs : sizes'[t][j] # NoSize => sizes'[t][j] \in left
  BY <1>5
<1>11. \A j \in IDs : sizes'[t][j] # NoSize =>
           size'[t][1] <= sizes'[t][j][1] /\ size'[t][2] <= sizes'[t][j][2]
  BY <1>7, <1>9, <1>10
<1>12. sizes'[t][i] = e /\ \A u \in Terms, j \in IDs : u # t \/ j # i => sizes'[u][j] = sizes[u][j]
  BY <1>1 DEF ViewersOK
<1>13. \A u \in Terms \ {t} : size'[u] = size[u]
  BY <1>2 DEF ViewersOK
<1> QED
  BY <1>3, <1>8, <1>11, <1>12, <1>13 DEF ViewersOK, Size, e

LEMMA QueueTextFact ==
    ASSUME TypeInv, NEW c \in Conns, QueueText(c)
    PROVE  /\ chan' \in [Conns -> Seq(Frame)]
           /\ \A d \in Conns : Len(chan'[d]) <= QueueCap
<1> USE DEF TypeInv, QueueOK
<1>1. CASE closed[c] \/ ~Room(c)
  BY <1>1 DEF QueueText
<1>2. CASE ~closed[c] /\ Room(c)
  <2>1. chan' = [chan EXCEPT ![c] = Append(@, Text)]
    BY <1>2 DEF QueueText
  <2>2. Append(chan[c], Text) \in Seq(Frame) /\ Len(Append(chan[c], Text)) <= QueueCap
    BY <1>2, TextFact, SessionAssumption DEF Room
  <2> QED
    BY <2>1, <2>2
<1> QED
  BY <1>1, <1>2

LEMMA EnqueueFact ==
    ASSUME TypeInv, NEW s \in Streams, NEW chunks \in Seq(Nat), Room(s[1]),
           Enqueue(s, chunks)
    PROVE  /\ chan' \in [Conns -> Seq(Frame)]
           /\ \A d \in Conns : Len(chan'[d]) <= QueueCap
<1> USE DEF TypeInv, QueueOK
<1> DEFINE f == [of |-> s, chunks |-> chunks]
<1>1. chan' = [chan EXCEPT ![s[1]] = Append(@, f)]
  BY DEF Enqueue
<1>2. f \in Frame /\ s[1] \in Conns
  BY StreamFact DEF Frame
<1> HIDE DEF f
<1>3. Append(chan[s[1]], f) \in Seq(Frame) /\ Len(Append(chan[s[1]], f)) <= QueueCap
  BY <1>2, SessionAssumption DEF Room
<1> QED
  BY <1>1, <1>2, <1>3

-----------------------------------------------------------------------------
(* Types: the handler's steps.                                             *)

LEMMA FreshFact ==
    MayStart => Fresh \in Terms /\ life[Fresh] = "none"
  BY DEF MayStart, Fresh

LEMMA StartFact ==
    ASSUME TypeInv, NEW z \in Size, StartShell(z)
    PROVE  /\ Fresh \in Terms /\ life[Fresh] = "none"
           /\ life' \in [Terms -> Lives] /\ size' \in [Terms -> Size]
<1>1. life' = [life EXCEPT ![Fresh] = "running"] /\ size' = [size EXCEPT ![Fresh] = z]
  BY DEF StartShell
<1>2. life \in [Terms -> Lives] /\ size \in [Terms -> Size]
  BY DEF TypeInv, HubOK, ShellsOK, ViewersOK, Size
<1> QED
  BY <1>1, <1>2, FreshFact DEF StartShell, Lives

LEMMA AskTypes == ASSUME TypeInv, NEW c \in Conns, Ask(c) PROVE TypeInv'
<1>1. PICK id \in plan.asks[c][asked[c] + 1], z \in Sizes[c] :
          /\ request' = [request EXCEPT ![c] = [id |-> id, size |-> z]]
          /\ Announces(c, z)
  BY DEF Ask
<1>2. asked[c] + 1 \in 1 .. Len(plan.asks[c]) /\ plan.asks[c] \in Seq(SUBSET SessionIDs)
  BY DEF Ask, TypeInv, RequestOK, Plan
<1>3. id \in SessionIDs
  BY <1>2
<1>4. z \in Nat \X Nat
  BY SessionAssumption
<1>5. RequestOK'
  <2>1. request' \in [Conns -> [id : SessionIDs, size : Size]]
    BY <1>1, <1>3, <1>4 DEF TypeInv, RequestOK, Size
  <2>2. told' \in [Conns -> Size]
    BY <1>1, <1>4 DEF Announces, TypeInv, RequestOK, Size
  <2> QED
    BY <2>1, <2>2 DEF Ask, TypeInv, RequestOK
<1>6. HandlerOK'
  <2>1. keep' \in [Conns -> BOOLEAN]
    BY DEF Ask, TypeInv, HandlerOK
  <2> QED
    BY <2>1 DEF Ask, TypeInv, HandlerOK
<1>7. PlaceOK'
  <2>1. request'[c].size # NoSize /\ \A d \in Conns \ {c} : request'[d] = request[d]
    BY <1>1, <1>4, HubAssumption DEF TypeInv, RequestOK
  <2>2. /\ hpc'[c] = "open" /\ term'[c] = NoTerm
        /\ \A d \in Conns \ {c} : hpc'[d] = hpc[d] /\ term'[d] = term[d]
    BY DEF Ask, TypeInv, HandlerOK
  <2>3. new' = new /\ UNCHANGED stream
    BY DEF Ask
  <2> QED
    BY <2>1, <2>2, <2>3 DEF TypeInv, PlaceOK, stream
<1>8. ViewersOK'
  <2>1. CASE term[c] = NoTerm
    BY <2>1, Keeps DEF Ask
  <2>2. CASE term[c] # NoTerm
    <3>1. term[c] \in Terms /\ IDOf[c] \in IDs /\ NoSize \in Size /\ ViewersOK
      BY <2>2, SessionAssumption DEF TypeInv, HandlerOK, HubOK, Size
    <3>2. UpdateClientSize(term[c], IDOf[c], NoSize)
      BY <2>2 DEF Ask
    <3> QED
      BY <3>1, <3>2, ResizeFact
  <2> QED
    BY <2>1, <2>2
<1>9. UNCHANGED <<shells, feeds, names, stream, content, took, crashed, chan, closed, wpc>>
  BY DEF Ask, queue, history
<1> QED
  BY <1>5, <1>6, <1>7, <1>8, <1>9, Keeps DEF TypeInv, HubOK

LEMMA OpenExistingTypes == ASSUME TypeInv, NEW c \in Conns, OpenExisting(c) PROVE TypeInv'
<1>1. request[c].id \in Names /\ sessions[request[c].id] \in Terms
  BY DEF OpenExisting, IsNamed, Existing, TypeInv, HubOK, NamesOK
<1>2. HandlerOK'
  BY <1>1 DEF OpenExisting, TypeInv, HandlerOK
<1>3. PlaceOK'
  BY <1>1 DEF OpenExisting, TypeInv, PlaceOK, HandlerOK, client, stream
<1>4. UNCHANGED <<shells, viewers, feeds, names, client, chan, closed, wpc, stream,
                  content, took, crashed>>
  BY DEF OpenExisting, hubVars, queue, history
<1> QED
  BY <1>2, <1>3, <1>4, Keeps DEF TypeInv, HubOK

LEMMA OpenNamedTypes == ASSUME TypeInv, NEW c \in Conns, OpenNamed(c) PROVE TypeInv'
<1>1. request[c].id \in Names /\ request[c].size \in Size
  BY DEF OpenNamed, IsNamed, TypeInv, RequestOK
<1>2. Fresh \in Terms /\ life' \in [Terms -> Lives] /\ size' \in [Terms -> Size]
  BY <1>1, StartFact DEF OpenNamed, StartNamed
<1>3. HandlerOK'
  BY <1>2 DEF OpenNamed, TypeInv, HandlerOK
<1>4. PlaceOK'
  BY <1>1, <1>2 DEF OpenNamed, TypeInv, PlaceOK, HandlerOK, client, stream
<1>5. ShellsOK' /\ ViewersOK'
  BY <1>2 DEF OpenNamed, TypeInv, HubOK, ShellsOK, ViewersOK, Size
<1>6. NamesOK'
  BY DEF OpenNamed, StartNamed, TypeInv, HubOK, NamesOK
<1>7. UNCHANGED <<feeds, client, chan, closed, wpc, stream, content, took, crashed>>
  BY DEF OpenNamed, queue, history
<1> QED
  BY <1>3, <1>4, <1>5, <1>6, <1>7, Keeps DEF TypeInv, HubOK

LEMMA HookTypes == ASSUME TypeInv, NEW c \in Conns, Hook(c) PROVE TypeInv'
<1>1. request[c].id \in Names /\ new[c] \in Terms
  BY DEF Hook, TypeInv, PlaceOK
<1>2. onExit' \in [Terms -> SUBSET Names]
  BY <1>1 DEF Hook, SetOnExit, TypeInv, HubOK, ShellsOK
<1>3. ShellsOK'
  BY <1>2 DEF Hook, TypeInv, HubOK, ShellsOK
<1>4. HandlerOK'
  BY DEF Hook, TypeInv, HandlerOK
<1>5. PlaceOK'
  BY <1>1 DEF Hook, TypeInv, PlaceOK, HandlerOK, client, stream
<1>6. UNCHANGED <<viewers, feeds, names, client, chan, closed, wpc, stream, content,
                  took, crashed>>
  BY DEF Hook, queue, history
<1> QED
  BY <1>3, <1>4, <1>5, <1>6, Keeps DEF TypeInv, HubOK

LEMMA RegisterNewTypes == ASSUME TypeInv, NEW c \in Conns, RegisterNew(c) PROVE TypeInv'
<1>1. request[c].id \in Names /\ new[c] \in Terms
  BY DEF RegisterNew, TypeInv, PlaceOK
<1>2. NamesOK'
  BY <1>1 DEF RegisterNew, Register, TypeInv, HubOK, NamesOK
<1>3. HandlerOK'
  BY <1>1 DEF RegisterNew, TypeInv, HandlerOK
<1>4. PlaceOK'
  BY <1>1 DEF RegisterNew, TypeInv, PlaceOK, HandlerOK, client, stream
<1>5. UNCHANGED <<shells, viewers, feeds, client, chan, closed, wpc, stream, content,
                  took, crashed>>
  BY DEF RegisterNew, queue, history
<1> QED
  BY <1>2, <1>3, <1>4, <1>5, Keeps DEF TypeInv, HubOK

LEMMA OpenShellTypes == ASSUME TypeInv, NEW c \in Conns, OpenShell(c) PROVE TypeInv'
<1>1. request[c].size \in Size
  BY DEF TypeInv, RequestOK
<1>2. Fresh \in Terms /\ life' \in [Terms -> Lives] /\ size' \in [Terms -> Size]
  BY <1>1, StartFact DEF OpenShell
<1>3. HandlerOK'
  <2>1. keep' \in [Conns -> BOOLEAN]
    BY DEF OpenShell, TypeInv, HandlerOK
  <2> QED
    BY <1>2, <2>1 DEF OpenShell, TypeInv, HandlerOK
<1>4. PlaceOK'
  BY <1>2 DEF OpenShell, TypeInv, PlaceOK, HandlerOK, client, stream
<1>5. ShellsOK' /\ ViewersOK'
  BY <1>2 DEF OpenShell, TypeInv, HubOK, ShellsOK, ViewersOK, Size
<1>6. UNCHANGED <<feeds, names, client, chan, closed, wpc, stream, content, took, crashed>>
  BY DEF OpenShell, queue, history
<1> QED
  BY <1>3, <1>4, <1>5, <1>6, Keeps DEF TypeInv, HubOK

LEMMA OpenFailsTypes == ASSUME TypeInv, NEW c \in Conns, OpenFails(c) PROVE TypeInv'
<1>1. HandlerOK'
  <2>1. keep' \in [Conns -> BOOLEAN]
    BY DEF OpenFails, TypeInv, HandlerOK
  <2> QED
    BY <2>1 DEF OpenFails, TypeInv, HandlerOK
<1>2. QueueOK'
  BY QueueTextFact DEF OpenFails, TypeInv, QueueOK
<1>3. PlaceOK'
  BY DEF OpenFails, TypeInv, PlaceOK, HandlerOK, client, stream
<1>4. UNCHANGED <<shells, viewers, feeds, names, client, stream, content, took, crashed>>
  BY DEF OpenFails, hubVars, history
<1> QED
  BY <1>1, <1>2, <1>3, <1>4, Keeps DEF TypeInv, HubOK

LEMMA AttachTypes == ASSUME TypeInv, NEW c \in Conns, Attach(c) PROVE TypeInv'
<1>1. term[c] \in Terms /\ request[c].size \in Size /\ request[c].size # NoSize
  BY DEF Attach, TypeInv, PlaceOK, RequestOK
<1>2. HandlerOK'
  BY DEF Attach, TypeInv, HandlerOK
<1>3. StreamOK'
  BY <1>1 DEF Attach, TypeInv, StreamOK
<1>4. PlaceOK'
  BY <1>1 DEF Attach, TypeInv, PlaceOK, HandlerOK, StreamOK, client
<1>5. UNCHANGED <<shells, viewers, feeds, names, client, chan, closed, wpc, content,
                  took, crashed>>
  BY DEF Attach, hubVars, queue, history
<1> QED
  BY <1>2, <1>3, <1>4, <1>5, Keeps DEF TypeInv, HubOK

LEMMA ResizeTypes == ASSUME TypeInv, NEW c \in Conns, Resize(c) PROVE TypeInv'
<1>1. PICK z \in Sizes[c] : UpdateClientSize(term[c], IDOf[c], z) /\ Announces(c, z)
  BY DEF Resize
<1>2. term[c] \in Terms /\ IDOf[c] \in IDs /\ z \in Size /\ ViewersOK
  BY SessionAssumption DEF Resize, TypeInv, HandlerOK, HubOK, Size
<1>3. ViewersOK'
  BY <1>1, <1>2, ResizeFact
<1>4. RequestOK'
  <2>1. told' \in [Conns -> Size]
    BY <1>1, <1>2 DEF Announces, TypeInv, RequestOK, Size
  <2> QED
    BY <2>1 DEF Resize, TypeInv, RequestOK
<1>5. UNCHANGED <<shells, feeds, names, handler, chan, closed, wpc, stream, content, took,
                  crashed>>
  BY DEF Resize, queue, history
<1>6. UNCHANGED <<hpc, request, new, term, stream>>
  BY <1>5 DEF Resize, handler
<1> QED
  BY <1>3, <1>4, <1>5, <1>6, Keeps DEF TypeInv, HubOK

LEMMA InputTypes == ASSUME TypeInv, NEW c \in Conns, Input(c) PROVE TypeInv'
<1>1. /\ hpc' = [hpc EXCEPT ![c] = "read"] \/ hpc' = [hpc EXCEPT ![c] = "write"]
      /\ UNCHANGED <<client, term, keep, new, current, stream>>
  BY DEF Input, InputBlocks, InputReturns
<1>2. HandlerOK'
  BY <1>1 DEF TypeInv, HandlerOK
<1>3. PlaceOK'
  BY <1>1 DEF TypeInv, PlaceOK, HandlerOK, client, stream
<1>4. UNCHANGED <<shells, viewers, feeds, names, chan, closed, wpc, content, took, crashed>>
  BY DEF Input, InputBlocks, InputReturns, hubVars, queue, history
<1> QED
  BY <1>1, <1>2, <1>3, <1>4, Keeps DEF TypeInv, HubOK

LEMMA BreakTypes == ASSUME TypeInv, NEW c \in Conns, Break(c) PROVE TypeInv'
<1>1. RequestOK'
  BY DEF Break, TypeInv, RequestOK
<1>2. UNCHANGED <<shells, viewers, feeds, names, handler, chan, closed, wpc, stream,
                  content, took, crashed, hpc, request, new, term>>
  BY DEF Break, hubVars, queue, history, handler
<1> QED
  BY <1>1, <1>2, Keeps DEF TypeInv, HubOK

LEMMA LeaveTypes == ASSUME TypeInv, NEW c \in Conns, Leave(c) PROVE TypeInv'
<1>1. HandlerOK'
  BY DEF Leave, TypeInv, HandlerOK
<1>2. PlaceOK'
  BY DEF Leave, TypeInv, PlaceOK, HandlerOK, client, stream
<1>3. ShellsOK' /\ ViewersOK'
  <2>1. killed' \in [Terms -> BOOLEAN]
    BY DEF Leave, Close, TypeInv, HubOK, ShellsOK
  <2>2. ShellsOK'
    BY <2>1 DEF Leave, TypeInv, HubOK, ShellsOK
  <2>3. CASE term[c] = NoTerm
    BY <2>2, <2>3, Keeps DEF Leave
  <2>4. CASE term[c] # NoTerm
    <3>1. term[c] \in Terms /\ IDOf[c] \in IDs /\ NoSize \in Size /\ ViewersOK
      BY <2>4, SessionAssumption DEF TypeInv, HandlerOK, HubOK, Size
    <3>2. UpdateClientSize(term[c], IDOf[c], NoSize)
      BY <2>4 DEF Leave
    <3> QED
      BY <2>2, <3>1, <3>2, ResizeFact
  <2> QED
    BY <2>3, <2>4
<1>4. UNCHANGED <<feeds, names, client, chan, closed, wpc, stream, content, took, crashed>>
  BY DEF Leave, queue, history
<1> QED
  BY <1>1, <1>2, <1>3, <1>4, Keeps DEF TypeInv, HubOK

LEMMA CloseQueueTypes == ASSUME TypeInv, NEW c \in Conns, CloseQueue(c) PROVE TypeInv'
<1>1. HandlerOK'
  BY DEF CloseQueue, TypeInv, HandlerOK
<1>2. PlaceOK'
  BY DEF CloseQueue, TypeInv, PlaceOK, HandlerOK, client, stream
<1>3. QueueOK'
  BY DEF CloseQueue, TypeInv, QueueOK
<1>4. crashed' \in BOOLEAN
  <2>1. crashed' = \E s \in Streams : s[1] = c /\ spc[s] = "blocked"
    BY Zenon DEF CloseQueue
  <2> QED
    BY <2>1, Zenon
<1>5. UNCHANGED <<shells, viewers, feeds, names, client, stream, content, took>>
  BY DEF CloseQueue, hubVars, history
<1> QED
  BY <1>1, <1>2, <1>3, <1>4, <1>5, Keeps DEF TypeInv, HubOK

-----------------------------------------------------------------------------
(* Types: the other goroutines.                                            *)

LEMMA SaysTypes == ASSUME TypeInv, NEW c \in Conns, Says(c) PROVE TypeInv'
<1>1. QueueOK'
  BY QueueTextFact DEF Says, TypeInv, QueueOK
<1>2. UNCHANGED <<shells, viewers, feeds, names, client, handler, stream, content, took,
                  crashed, hpc, request, new, term>>
  BY DEF Says, hubVars, history, handler, client
<1> QED
  BY <1>1, <1>2, Keeps DEF TypeInv, HubOK

LEMMA WriteTypes == ASSUME TypeInv, NEW c \in Conns, Write(c) PROVE TypeInv'
<1>1. QueueOK'
  <2>1. chan' = [chan EXCEPT ![c] = Tail(@)] /\ chan[c] # <<>>
    BY DEF Write
  <2>2. chan[c] \in Seq(Frame) /\ Len(chan[c]) <= QueueCap
    BY DEF TypeInv, QueueOK
  <2>3. Tail(chan[c]) \in Seq(Frame) /\ Len(Tail(chan[c])) <= QueueCap
    BY <2>1, <2>2, SessionAssumption
  <2>4. wpc' \in [Conns -> {"ready", "done"}] /\ closed' = closed
    BY DEF Write, TypeInv, QueueOK
  <2> QED
    BY <2>1, <2>3, <2>4 DEF TypeInv, QueueOK
<1>2. UNCHANGED <<shells, viewers, feeds, names, client, handler, stream, content, took,
                  crashed, hpc, request, new, term>>
  BY DEF Write, hubVars, handler, client
<1> QED
  BY <1>1, <1>2, Keeps DEF TypeInv, HubOK

\* A goroutine that has begun keeps its terminal and its window.
LEMMA PlaceFact ==
    ASSUME TypeInv, NEW s \in Streams, spc[s] # "none",
           NEW l \in {"resize", "run", "blocked", "done"}, spc' = [spc EXCEPT ![s] = l],
           UNCHANGED <<hpc, request, new, term, target, window>>
    PROVE  StreamOK' /\ PlaceOK'
<1>1. StreamOK'
  BY DEF TypeInv, StreamOK
<1>2. PlaceOK'
  BY DEF TypeInv, PlaceOK, StreamOK
<1> QED
  BY <1>1, <1>2

LEMMA JoinTypes == ASSUME TypeInv, NEW s \in Streams, Join(s) PROVE TypeInv'
<1>1. s[1] \in Conns /\ s \in Listeners
  BY StreamFact
<1>2. QueueOK'
  BY <1>1, QueueTextFact DEF Join, TypeInv, QueueOK
<1>3. FeedsOK'
  BY <1>1 DEF Join, AddListener, TypeInv, HubOK, FeedsOK
<1>4. StreamOK' /\ PlaceOK'
  BY PlaceFact DEF Join, client, handler
<1>5. UNCHANGED <<shells, viewers, names, client, handler, content, took, crashed>>
  BY DEF Join, history
<1> QED
  BY <1>2, <1>3, <1>4, <1>5, Keeps DEF TypeInv, HubOK

LEMMA SetSizeTypes == ASSUME TypeInv, NEW s \in Streams, SetSize(s) PROVE TypeInv'
<1>1. target[s] \in Terms /\ IDOf[s[1]] \in IDs /\ window[s] \in Size /\ ViewersOK
  BY StreamFact, SessionAssumption DEF SetSize, TypeInv, PlaceOK, StreamOK, HubOK
<1>2. ViewersOK'
  BY <1>1, ResizeFact DEF SetSize
<1>3. StreamOK' /\ PlaceOK'
  BY PlaceFact DEF SetSize, client, handler
<1>4. UNCHANGED <<shells, feeds, names, client, handler, chan, closed, wpc, content, took,
                  crashed>>
  BY DEF SetSize, queue, history
<1> QED
  BY <1>2, <1>3, <1>4, Keeps DEF TypeInv, HubOK

\* A chunk leaves a listener channel.
LEMMA InboxFact ==
    ASSUME TypeInv, NEW s \in Streams, inbox[s] # <<>>
    PROVE  /\ Head(inbox[s]) \in Nat
           /\ [inbox EXCEPT ![s] = Tail(@)] \in [Listeners -> Seq(Nat)]
           /\ \A l \in Listeners : Len([inbox EXCEPT ![s] = Tail(@)][l]) <= ListenerCap
<1>1. s \in Listeners /\ inbox \in [Listeners -> Seq(Nat)] /\ inbox[s] \in Seq(Nat)
      /\ \A l \in Listeners : Len(inbox[l]) <= ListenerCap
  BY StreamFact DEF TypeInv, HubOK, FeedsOK
<1>2. Head(inbox[s]) \in Nat /\ Tail(inbox[s]) \in Seq(Nat)
      /\ Len(Tail(inbox[s])) = Len(inbox[s]) - 1
  BY <1>1
<1>3. Len(Tail(inbox[s])) <= ListenerCap
  BY <1>1, <1>2, HubAssumption
<1> QED
  BY <1>1, <1>2, <1>3

LEMMA TakeTypes == ASSUME TypeInv, NEW s \in Streams, Take(s) PROVE TypeInv'
<1>1. FeedsOK'
  BY InboxFact DEF Take, TypeInv, HubOK, FeedsOK
<1>2. ContentOK'
  <2>1. Append(buffer[s], Head(inbox[s])) \in Seq(Nat)
    BY InboxFact DEF Take, TypeInv, ContentOK
  <2> QED
    BY <2>1 DEF Take, TypeInv, ContentOK, history
<1>3. UNCHANGED <<shells, viewers, names, client, handler, chan, closed, wpc, stream,
                  crashed, hpc, request, new, term>>
  BY DEF Take, queue, handler, client
<1> QED
  BY <1>1, <1>2, <1>3, Keeps DEF TypeInv, HubOK

LEMMA GiveTypes == ASSUME TypeInv, NEW s \in Streams, Give(s) PROVE TypeInv'
<1>1. FeedsOK'
  <2>1. listeners' \in [Terms -> SUBSET Listeners]
    BY DEF Give, RemoveListener, TypeInv, HubOK, FeedsOK
  <2> QED
    BY <2>1, InboxFact DEF Give, TypeInv, HubOK, FeedsOK
<1>2. StreamOK' /\ PlaceOK'
  BY PlaceFact DEF Give, client, handler
<1>3. UNCHANGED <<shells, viewers, names, client, handler, chan, closed, wpc, content, took,
                  crashed>>
  BY DEF Give, queue, history
<1> QED
  BY <1>1, <1>2, <1>3, Keeps DEF TypeInv, HubOK

LEMMA FlushTypes == ASSUME TypeInv, NEW s \in Streams, Flush(s) PROVE TypeInv'
<1>1. buffer[s] \in Seq(Nat)
  BY DEF TypeInv, ContentOK
<1>2. QueueOK'
  <2>1. CASE UNCHANGED chan
    BY <2>1 DEF Flush, TypeInv, QueueOK
  <2>2. CASE Room(s[1]) /\ Enqueue(s, buffer[s])
    BY <1>1, <2>2, EnqueueFact DEF Flush, TypeInv, QueueOK
  <2> QED
    BY <2>1, <2>2 DEF Flush, QueueBinary
<1>3. ContentOK'
  <2>1. buffer' \in [Streams -> Seq(Nat)]
    BY DEF Flush, QueueBinary, TypeInv, ContentOK
  <2>2. UNCHANGED pending \/ pending' = [pending EXCEPT ![s] = buffer[s]]
    BY DEF Flush, QueueBinary
  <2>3. took' = took
    BY DEF Flush
  <2> QED
    BY <1>1, <2>1, <2>2, <2>3 DEF TypeInv, ContentOK
<1>4. StreamOK' /\ PlaceOK'
  <2>1. CASE UNCHANGED spc
    BY <2>1, Keeps DEF Flush, stream, client, handler
  <2>2. CASE spc' = [spc EXCEPT ![s] = "blocked"]
    BY <2>2, PlaceFact DEF Flush, client, handler
  <2> QED
    BY <2>1, <2>2 DEF Flush, QueueBinary
<1>5. UNCHANGED <<shells, viewers, feeds, names, client, handler, crashed>>
  BY DEF Flush, hubVars
<1> QED
  BY <1>2, <1>3, <1>4, <1>5, Keeps DEF TypeInv, HubOK

LEMMA SendPendingTypes == ASSUME TypeInv, NEW s \in Streams, SendPending(s) PROVE TypeInv'
<1>1. pending[s] \in Seq(Nat)
  BY DEF TypeInv, ContentOK
<1>2. QueueOK'
  BY <1>1, EnqueueFact DEF SendPending, TypeInv, QueueOK
<1>3. ContentOK'
  BY DEF SendPending, TypeInv, ContentOK
<1>4. StreamOK' /\ PlaceOK'
  BY PlaceFact DEF SendPending, client, handler
<1>5. UNCHANGED <<shells, viewers, feeds, names, client, handler, crashed>>
  BY DEF SendPending, hubVars
<1> QED
  BY <1>2, <1>3, <1>4, <1>5, Keeps DEF TypeInv, HubOK

LEMMA EndTypes == ASSUME TypeInv, NEW s \in Streams, End(s) PROVE TypeInv'
<1>1. s[1] \in Conns
  BY StreamFact
<1>2. QueueOK'
  BY <1>1, QueueTextFact DEF End, TypeInv, QueueOK
<1>3. StreamOK' /\ PlaceOK'
  BY PlaceFact DEF End, client, handler
<1>4. UNCHANGED <<shells, viewers, feeds, names, client, handler, content, took, crashed>>
  BY DEF End, hubVars, history
<1> QED
  BY <1>2, <1>3, <1>4, Keeps DEF TypeInv, HubOK

LEMMA PrintsTypes == ASSUME TypeInv, NEW t \in Terms, Prints(t) PROVE TypeInv'
<1>1. out \in [Terms -> Nat] /\ out' = [out EXCEPT ![t] = @ + 1] /\ out'[t] \in Nat
  BY DEF Prints, Broadcast, TypeInv, HubOK, FeedsOK
<1>2. FeedsOK'
  <2>1. \A l \in Listeners : inbox[l] \in Seq(Nat) /\ Len(inbox[l]) <= ListenerCap
    BY DEF TypeInv, HubOK, FeedsOK
  <2>2. \A l \in Listeners : /\ inbox'[l] \in Seq(Nat)
                             /\ Len(inbox'[l]) <= ListenerCap
    <3> SUFFICES ASSUME NEW l \in Listeners
                 PROVE  inbox'[l] \in Seq(Nat) /\ Len(inbox'[l]) <= ListenerCap
      OBVIOUS
    <3>1. inbox'[l] = IF l \in listeners[t] /\ HasRoom(l)
                      THEN Append(inbox[l], out'[t]) ELSE inbox[l]
      BY DEF Prints, Broadcast
    <3> QED
      BY <1>1, <2>1, <3>1, HubAssumption DEF HasRoom
  <2>3. inbox' \in [Listeners -> Seq(Nat)]
    BY <2>2 DEF Prints, Broadcast
  <2>4. out' \in [Terms -> Nat] /\ UNCHANGED <<listeners, shut>>
    BY <1>1 DEF Prints, Broadcast
  <2> QED
    BY <2>2, <2>3, <2>4 DEF TypeInv, HubOK, FeedsOK
<1>3. ContentOK'
  <2>1. \A s \in Streams : Append(took[s], out'[t]) \in Seq(Nat) /\ took[s] \in Seq(Nat)
    BY <1>1 DEF TypeInv, ContentOK
  <2>2. took' \in [Streams -> Seq(Nat)]
    BY <2>1 DEF Prints
  <2> QED
    BY <2>2 DEF Prints, TypeInv, ContentOK, content
<1>4. UNCHANGED <<shells, viewers, names, client, handler, chan, closed, wpc, stream,
                  crashed, hpc, request, new, term>>
  BY DEF Prints, Broadcast, queue, handler, client
<1> QED
  BY <1>2, <1>3, <1>4, Keeps DEF TypeInv, HubOK

LEMMA FinishingTypes == ASSUME TypeInv, NEW t \in Terms, Finishing(t) PROVE TypeInv'
<1>1. ShellsOK'
  BY DEF Finishing, EndLoop, OnExit, TypeInv, HubOK, ShellsOK, Lives
<1>2. FeedsOK'
  <2>1. CASE EndLoop(t)
    <3>1. \A l \in Listeners : (shut[l] \/ l \in listeners[t]) \in BOOLEAN
      OBVIOUS
    <3>2. shut' \in [Listeners -> BOOLEAN]
      BY <2>1, <3>1 DEF EndLoop
    <3> QED
      BY <2>1, <3>2 DEF EndLoop, TypeInv, HubOK, FeedsOK
  <2>2. CASE OnExit(t)
    BY <2>2, Keeps DEF OnExit
  <2> QED
    BY <2>1, <2>2 DEF Finishing
<1>3. NamesOK'
  BY DEF Finishing, EndLoop, OnExit, names, TypeInv, HubOK, NamesOK
<1>4. UNCHANGED <<viewers, client, handler, chan, closed, wpc, stream, content, took,
                  crashed, hpc, request, new, term>>
  BY DEF Finishing, EndLoop, OnExit, Alone, queue, history, handler, client
<1> QED
  BY <1>1, <1>2, <1>3, <1>4, Keeps DEF TypeInv, HubOK

LEMMA StutterTypes == ASSUME TypeInv, UNCHANGED vars PROVE TypeInv'
<1>1. UNCHANGED <<shells, viewers, feeds, names, client, handler, chan, closed, wpc, stream,
                  content, took, crashed, hpc, request, new, term>>
  BY DEF vars, hubVars, queue, history, handler, client
<1> QED
  BY <1>1, Keeps DEF TypeInv, HubOK

LEMMA TypeNext == TypeInv /\ [Next]_vars => TypeInv'
<1> SUFFICES ASSUME TypeInv, [Next]_vars PROVE TypeInv'
  OBVIOUS
<1>1. ASSUME NEW c \in Conns, Ask(c) \/ Opening(c) \/ Resize(c) \/ Input(c)
                              \/ Break(c) \/ Leaving(c) \/ Says(c) \/ Write(c)
      PROVE  TypeInv'
  BY <1>1, AskTypes, OpenExistingTypes, OpenNamedTypes, OpenShellTypes, OpenFailsTypes,
     HookTypes, RegisterNewTypes, AttachTypes, ResizeTypes, InputTypes, BreakTypes,
     LeaveTypes, CloseQueueTypes, SaysTypes, WriteTypes DEF Opening, Leaving
<1>2. ASSUME NEW s \in Streams, Streaming(s) PROVE TypeInv'
  BY <1>2, JoinTypes, SetSizeTypes, TakeTypes, GiveTypes, FlushTypes, SendPendingTypes,
     EndTypes DEF Streaming
<1>3. ASSUME NEW t \in Terms, Prints(t) \/ Finishing(t) PROVE TypeInv'
  BY <1>3, PrintsTypes, FinishingTypes
<1> QED
  BY <1>1, <1>2, <1>3, StutterTypes DEF Next

LEMMA TypeInvariant == Spec => []TypeInv
  BY TypeInit, TypeNext, PTL DEF Spec

\* Every variable keeps its type, and neither msgChan nor a listener channel is
\* ever over its capacity, whatever the number of goroutines that send.
THEOREM AgentTypes == Spec => []TypeOK
  BY TypeInvImplies, TypeInvariant, PTL

-----------------------------------------------------------------------------
(* One late frame at most: it leaves the buffer empty, and only the client *)
(* that still looks at the terminal fills it again.                        *)

LateInv ==
    /\ late \in [Streams -> {0, 1}]
    /\ \A s \in Streams :
           /\ current[s[1]] <= s[2] => late[s] = 0
           /\ late[s] = 1 => buffer[s] = <<>> /\ spc[s] # "blocked"
           /\ spc[s] = "blocked" => buffer[s] = <<>>

LEMMA LateInit == Init => LateInv
  BY DEF Init, LateInv

\* A goroutine that was not blocked moves on and does not block.
LEMMA LateMoves ==
    ASSUME TypeInv, LateInv, NEW s \in Streams, NEW l \in {"join", "resize", "run", "done"},
           spc' = [spc EXCEPT ![s] = l], UNCHANGED <<current, late, buffer>>
    PROVE  LateInv'
  BY DEF TypeInv, StreamOK, LateInv

LEMMA LateAttach == ASSUME TypeInv, LateInv, NEW c \in Conns, Attach(c) PROVE LateInv'
<1>1. /\ current' = [current EXCEPT ![c] = @ + 1]
      /\ spc' = [spc EXCEPT ![<<c, current[c] + 1>>] = "join"]
      /\ UNCHANGED <<late, buffer>>
  BY DEF Attach, content, history
<1>2. late' \in [Streams -> {0, 1}]
  BY <1>1 DEF LateInv
<1>3. ASSUME NEW s \in Streams
      PROVE  /\ current'[s[1]] <= s[2] => late'[s] = 0
             /\ late'[s] = 1 => buffer'[s] = <<>> /\ spc'[s] # "blocked"
             /\ spc'[s] = "blocked" => buffer'[s] = <<>>
  <2>1. s[1] \in Conns /\ s[2] \in Nat /\ current[s[1]] \in Nat
    BY StreamFact DEF TypeInv, HandlerOK
  <2>2. current[s[1]] <= current'[s[1]] /\ current'[s[1]] \in Nat
    BY <1>1, <2>1 DEF TypeInv, HandlerOK
  <2>3. spc'[s] = spc[s] \/ spc'[s] = "join"
    BY <1>1 DEF TypeInv, StreamOK
  <2> QED
    BY <1>1, <2>1, <2>2, <2>3 DEF LateInv
<1> QED
  BY <1>2, <1>3 DEF LateInv

LEMMA LateTake == ASSUME TypeInv, LateInv, NEW s \in Streams, Take(s) PROVE LateInv'
<1>1. current[s[1]] = s[2] /\ s[2] \in Nat /\ spc[s] = "run"
  BY StreamFact DEF Take, Current
<1>2. UNCHANGED <<current, late, spc>>
  BY DEF Take, handler, stream, history
<1>3. \A r \in Streams \ {s} : buffer'[r] = buffer[r]
  BY DEF Take, TypeInv, ContentOK
<1> QED
  BY <1>1, <1>2, <1>3 DEF LateInv

\* A frame of a goroutine that has queued no late one yet.
LEMMA LateEnqueue ==
    ASSUME TypeInv, LateInv, NEW s \in Streams, NEW chunks, Enqueue(s, chunks),
           late[s] = 0, buffer'[s] = <<>>, spc'[s] # "blocked", UNCHANGED current,
           \A r \in Streams \ {s} : buffer'[r] = buffer[r] /\ spc'[r] = spc[r]
    PROVE  LateInv'
<1>1. late' = [late EXCEPT ![s] = IF current[s[1]] > s[2] THEN @ + 1 ELSE @]
  BY DEF Enqueue
<1>2. late'[s] = (IF current[s[1]] > s[2] THEN 1 ELSE 0)
      /\ \A r \in Streams \ {s} : late'[r] = late[r]
  BY <1>1 DEF LateInv
<1>3. late' \in [Streams -> {0, 1}]
  BY <1>1, <1>2 DEF LateInv
<1>4. s[2] \in Nat /\ current[s[1]] \in Nat
  BY StreamFact DEF TypeInv, HandlerOK
<1>5. current'[s[1]] <= s[2] => late'[s] = 0
  BY <1>2, <1>4
<1> QED
  BY <1>2, <1>3, <1>5 DEF LateInv

LEMMA LateFlush == ASSUME TypeInv, LateInv, NEW s \in Streams, Flush(s) PROVE LateInv'
<1>1. spc[s] = "run" /\ buffer[s] # <<>> /\ UNCHANGED current
  BY DEF Flush, handler
<1>2. late[s] = 0
  BY <1>1 DEF LateInv
<1>3. buffer'[s] = <<>> /\ \A r \in Streams \ {s} : buffer'[r] = buffer[r]
  BY DEF Flush, QueueBinary, TypeInv, ContentOK
<1>4. CASE Enqueue(s, buffer[s]) /\ UNCHANGED spc
  BY <1>1, <1>2, <1>3, <1>4, LateEnqueue
<1>5. CASE UNCHANGED late /\ (UNCHANGED spc \/ spc' = [spc EXCEPT ![s] = "blocked"])
  BY <1>1, <1>2, <1>3, <1>5 DEF LateInv, TypeInv, StreamOK
<1> QED
  BY <1>4, <1>5 DEF Flush, QueueBinary

LEMMA LateSendPending ==
    ASSUME TypeInv, LateInv, NEW s \in Streams, SendPending(s) PROVE LateInv'
<1>1. spc[s] = "blocked" /\ spc' = [spc EXCEPT ![s] = "run"] /\ UNCHANGED <<current, buffer>>
  BY DEF SendPending, handler
<1>2. late[s] = 0 /\ buffer[s] = <<>>
  BY <1>1 DEF LateInv
<1>3. spc'[s] # "blocked" /\ \A r \in Streams \ {s} : spc'[r] = spc[r]
  BY <1>1 DEF TypeInv, StreamOK
<1>4. Enqueue(s, pending[s])
  BY DEF SendPending
<1> QED
  BY <1>1, <1>2, <1>3, <1>4, LateEnqueue

LEMMA LateNext == TypeInv /\ LateInv /\ [Next]_vars => LateInv'
<1> SUFFICES ASSUME TypeInv, LateInv, [Next]_vars PROVE LateInv'
  OBVIOUS
<1>1. UNCHANGED <<current, late, buffer, spc>> => LateInv'
  BY DEF LateInv
<1>2. ASSUME NEW c \in Conns, Ask(c) \/ Opening(c) \/ Resize(c) \/ Input(c)
                              \/ Break(c) \/ Leaving(c) \/ Says(c) \/ Write(c)
      PROVE  LateInv'
  <2>1. CASE Attach(c)
    BY <2>1, LateAttach
  <2>2. CASE Ask(c) \/ Resize(c) \/ Input(c) \/ Break(c) \/ Leaving(c) \/ Says(c) \/ Write(c)
    BY <2>2, <1>1 DEF Ask, Resize, Input, InputBlocks, InputReturns, Break, Leaving, Leave, CloseQueue, Says, Write, handler,
       stream, content, history
  <2>3. CASE OpenExisting(c) \/ OpenNamed(c) \/ OpenShell(c) \/ OpenFails(c) \/ Hook(c)
             \/ RegisterNew(c)
    BY <2>3, <1>1 DEF OpenExisting, OpenNamed, OpenShell, OpenFails, Hook, RegisterNew,
       stream, content, history
  <2> QED
    BY <1>2, <2>1, <2>2, <2>3 DEF Opening
<1>3. ASSUME NEW s \in Streams, Streaming(s) PROVE LateInv'
  <2>1. CASE Join(s) \/ SetSize(s) \/ Give(s) \/ End(s)
    BY <2>1, LateMoves DEF Join, SetSize, Give, End, handler, content, history
  <2> QED
    BY <1>3, <2>1, LateTake, LateFlush, LateSendPending DEF Streaming
<1>4. ASSUME NEW t \in Terms, Prints(t) \/ Finishing(t) PROVE LateInv'
  BY <1>4, <1>1 DEF Prints, Finishing, Alone, handler, stream, content, history
<1>5. CASE UNCHANGED vars
  BY <1>5, <1>1 DEF vars, handler, stream, content, history
<1> QED
  BY <1>2, <1>3, <1>4, <1>5 DEF Next

\* After a switch at most one more frame of the terminal it left is queued for a
\* client, for any number of switches: the check of currentAttachmentID comes before a
\* chunk enters the buffer, and every frame empties the buffer.
THEOREM AgentAtMostOneLateFrame == Spec => []AtMostOneLateFrame
<1>1. LateInv => AtMostOneLateFrame
  BY DEF LateInv, AtMostOneLateFrame
<1> QED
  BY <1>1, LateInit, LateNext, TypeInvariant, PTL DEF Spec

-----------------------------------------------------------------------------
(* The mutex of manager.go, the map and the shells it names.               *)

Making(c) == hpc[c] \in {"hook", "register"}

\* A shell that is being made is known to its maker alone, and its name is free.
MakerInv ==
    /\ \A c \in Conns : Making(c) =>
           /\ mu
           /\ sessions[request[c].id] = NoTerm
           /\ life[new[c]] # "none" /\ ~exited[new[c]] /\ ~killed[new[c]]
           /\ onExit[new[c]] = IF hpc[c] = "hook" THEN {} ELSE {request[c].id}
           /\ \A d \in Conns : Making(d) => d = c
    /\ \A c \in Conns : new[c] # NoTerm => Making(c) /\ \A d \in Conns : term[d] # new[c]

\* A shell in the map has that name, and its OnExit has not run.
NameInv == \A n \in Names : sessions[n] # NoTerm =>
               /\ onExit[sessions[n]] = {n}
               /\ ~exited[sessions[n]]
               /\ life[sessions[n]] # "none"

\* A shell that was not started is nobody's.
FreshInv == \A t \in Terms : life[t] = "none" =>
                /\ onExit[t] = {} /\ ~exited[t] /\ ~killed[t]
                /\ \A c \in Conns : term[c] # t /\ new[c] # t

\* A handler without isPersistent holds a shell without a name, which no other holds.
OwnInv ==
    /\ \A c \in Conns : term[c] # NoTerm /\ ~keep[c] => onExit[term[c]] = {}
    /\ \A c, d \in Conns : term[c] # NoTerm /\ term[c] = term[d] /\ onExit[term[c]] = {} => c = d
    /\ \A t \in Terms : killed[t] => onExit[t] = {}

NamesInv == MakerInv /\ NameInv /\ FreshInv /\ OwnInv /\ NamesReachShells

LEMMA NamesInit == Init => NamesInv
<1> SUFFICES ASSUME Init PROVE NamesInv
  OBVIOUS
<1>1. /\ \A c \in Conns : hpc[c] = "read" /\ term[c] = NoTerm /\ new[c] = NoTerm
      /\ \A t \in Terms : life[t] = "none" /\ onExit[t] = {} /\ ~exited[t] /\ ~killed[t]
      /\ \A n \in Names : sessions[n] = NoTerm
  BY DEF Init, HubInit
<1>2. MakerInv /\ NameInv /\ FreshInv
  BY <1>1, HubAssumption DEF MakerInv, NameInv, FreshInv, Making
<1>3. OwnInv /\ NamesReachShells
  BY <1>1 DEF OwnInv, NamesReachShells
<1> QED
  BY <1>2, <1>3 DEF NamesInv

\* The facts about types that the steps below use.
LEMMA NamesTypes ==
    ASSUME TypeInv
    PROVE  /\ life \in [Terms -> Lives] /\ onExit \in [Terms -> SUBSET Names]
           /\ exited \in [Terms -> BOOLEAN] /\ killed \in [Terms -> BOOLEAN]
           /\ sessions \in [Names -> Terms \cup {NoTerm}]
           /\ term \in [Conns -> Terms \cup {NoTerm}]
           /\ new \in [Conns -> Terms \cup {NoTerm}]
           /\ DOMAIN hpc = Conns /\ DOMAIN keep = Conns /\ DOMAIN request = Conns
           /\ \A c \in Conns : Making(c) => request[c].id \in Names /\ new[c] \in Terms
           /\ \A c \in Conns : hpc[c] \in {"open", "hook", "register"} => term[c] = NoTerm
  BY DEF TypeInv, HubOK, ShellsOK, NamesOK, HandlerOK, RequestOK, PlaceOK, Making

\* A step that makes nothing and lets go of shells at most.
LEMMA NamesQuiet ==
    ASSUME TypeInv, NamesInv, UNCHANGED <<shells, names, new>>,
           \A d \in Conns :
               /\ Making(d) \/ hpc'[d] \in {"hook", "register"}
                      => hpc'[d] = hpc[d] /\ request'[d] = request[d]
               /\ term'[d] = NoTerm \/ (term'[d] = term[d] /\ (keep[d] => keep'[d]))
    PROVE  NamesInv'
<1> USE NamesTypes DEF shells, names
<1>1. \A d \in Conns : Making(d)' <=> Making(d)
  BY DEF Making
<1>2. MakerInv'
  <2>1. ASSUME NEW c \in Conns, new[c] # NoTerm
        PROVE  Making(c)' /\ \A d \in Conns : term'[d] # new[c]
    BY <1>1, <2>1 DEF NamesInv, MakerInv
  <2>2. ASSUME NEW c \in Conns, Making(c)
        PROVE  hpc'[c] = hpc[c] /\ request'[c] = request[c]
    BY <2>2
  <2>3. ASSUME NEW c \in Conns, Making(c)
        PROVE  /\ sessions[request[c].id] = NoTerm
               /\ onExit[new[c]] = IF hpc[c] = "hook" THEN {} ELSE {request[c].id}
    BY <2>3 DEF NamesInv, MakerInv
  <2>4. ASSUME NEW c \in Conns, Making(c)
        PROVE  /\ mu /\ life[new[c]] # "none" /\ ~exited[new[c]] /\ ~killed[new[c]]
               /\ \A d \in Conns : Making(d) => d = c
    BY <2>4 DEF NamesInv, MakerInv
  <2>5. ASSUME NEW c \in Conns, Making(c)
        PROVE  /\ sessions[request'[c].id] = NoTerm
               /\ onExit[new[c]] = IF hpc'[c] = "hook" THEN {} ELSE {request'[c].id}
    BY <2>2, <2>3, <2>5
  <2> QED
    BY <1>1, <2>1, <2>4, <2>5 DEF MakerInv
<1>3. NameInv' /\ FreshInv'
  BY HubAssumption DEF NamesInv, NameInv, FreshInv
<1>4. OwnInv'
  BY DEF NamesInv, OwnInv
<1>5. NamesReachShells'
  BY <1>1 DEF NamesInv, NamesReachShells, Making
<1> QED
  BY <1>2, <1>3, <1>4, <1>5 DEF NamesInv

LEMMA NamesAsk == ASSUME TypeInv, NamesInv, NEW c \in Conns, Ask(c) PROVE NamesInv'
<1>1. UNCHANGED <<shells, names, new>>
  BY DEF Ask
<1>2. \A d \in Conns : Making(d) \/ hpc'[d] \in {"hook", "register"}
                           => hpc'[d] = hpc[d] /\ request'[d] = request[d]
  BY NamesTypes DEF Ask, Making
<1>3. \A d \in Conns : term'[d] = NoTerm \/ (term'[d] = term[d] /\ (keep[d] => keep'[d]))
  BY NamesTypes DEF Ask
<1> QED
  BY <1>1, <1>2, <1>3, NamesQuiet

LEMMA NamesOpenFails == ASSUME TypeInv, NamesInv, NEW c \in Conns, OpenFails(c) PROVE NamesInv'
<1>1. UNCHANGED <<shells, names, new, term, request>>
  BY DEF OpenFails, hubVars, client
<1>2. \A d \in Conns : Making(d) \/ hpc'[d] \in {"hook", "register"} => hpc'[d] = hpc[d]
  BY NamesTypes DEF OpenFails, Making
<1>3. \A d \in Conns : keep[d] => keep'[d]
  BY NamesTypes DEF OpenFails
<1> QED
  BY <1>1, <1>2, <1>3, NamesQuiet

LEMMA NamesAttach == ASSUME TypeInv, NamesInv, NEW c \in Conns, Attach(c) PROVE NamesInv'
<1>1. UNCHANGED <<shells, names, new, term, keep, request>>
  BY DEF Attach, hubVars, client
<1>2. \A d \in Conns : Making(d) \/ hpc'[d] \in {"hook", "register"} => hpc'[d] = hpc[d]
  BY NamesTypes DEF Attach, Making
<1> QED
  BY <1>1, <1>2, NamesQuiet

LEMMA NamesCloseQueue ==
    ASSUME TypeInv, NamesInv, NEW c \in Conns, CloseQueue(c) PROVE NamesInv'
<1>1. UNCHANGED <<shells, names, new, term, keep, request>>
  BY DEF CloseQueue, hubVars, client
<1>2. \A d \in Conns : Making(d) \/ hpc'[d] \in {"hook", "register"} => hpc'[d] = hpc[d]
  BY NamesTypes DEF CloseQueue, Making
<1> QED
  BY <1>1, <1>2, NamesQuiet

LEMMA NamesInput == ASSUME TypeInv, NamesInv, NEW c \in Conns, Input(c) PROVE NamesInv'
<1>1. UNCHANGED <<shells, names, new, term, keep, request>>
  BY DEF Input, InputBlocks, InputReturns, hubVars, client
<1>2. \A d \in Conns : Making(d) \/ hpc'[d] \in {"hook", "register"} => hpc'[d] = hpc[d]
  BY NamesTypes DEF Input, InputBlocks, InputReturns, Making
<1> QED
  BY <1>1, <1>2, NamesQuiet

LEMMA NamesOpenExisting ==
    ASSUME TypeInv, NamesInv, NEW c \in Conns, OpenExisting(c) PROVE NamesInv'
<1> USE NamesTypes
<1> DEFINE t == sessions[request[c].id]
<1>1. /\ hpc[c] = "open" /\ ~mu /\ request[c].id \in Names /\ t \in Terms
      /\ onExit[t] = {request[c].id} /\ life[t] # "none"
  BY DEF OpenExisting, IsNamed, Existing, NamesInv, NameInv
<1>2. /\ term' = [term EXCEPT ![c] = t] /\ keep' = [keep EXCEPT ![c] = TRUE]
      /\ hpc' = [hpc EXCEPT ![c] = "attach"]
      /\ UNCHANGED <<life, onExit, exited, killed, sessions, mu, new, request>>
  BY DEF OpenExisting, hubVars, shells, names, client
<1> HIDE DEF t
<1>3. \A d \in Conns : ~Making(d) /\ new[d] = NoTerm /\ ~Making(d)'
  BY <1>1, <1>2 DEF NamesInv, MakerInv, Making
<1>4. MakerInv' /\ NameInv'
  BY <1>2, <1>3 DEF NamesInv, MakerInv, NameInv
<1>5. FreshInv'
  BY <1>1, <1>2, <1>3, HubAssumption DEF NamesInv, FreshInv
<1>6. OwnInv'
  BY <1>1, <1>2 DEF NamesInv, OwnInv
<1>7. NamesReachShells'
  BY <1>2, <1>3 DEF NamesInv, NamesReachShells, Making
<1> QED
  BY <1>4, <1>5, <1>6, <1>7 DEF NamesInv

LEMMA NamesOpenNamed ==
    ASSUME TypeInv, NamesInv, NEW c \in Conns, OpenNamed(c) PROVE NamesInv'
<1> USE NamesTypes
<1> DEFINE t == Fresh
<1>1. /\ hpc[c] = "open" /\ ~mu /\ request[c].id \in Names
      /\ sessions[request[c].id] = NoTerm /\ t \in Terms /\ life[t] = "none"
  BY FreshFact DEF OpenNamed, IsNamed, StartNamed, StartShell
<1>2. /\ life' = [life EXCEPT ![t] = "running"] /\ mu' = TRUE
      /\ new' = [new EXCEPT ![c] = t] /\ hpc' = [hpc EXCEPT ![c] = "hook"]
      /\ UNCHANGED <<onExit, exited, killed, sessions, term, keep, request>>
  BY DEF OpenNamed, StartNamed, StartShell, client
<1> HIDE DEF t
<1>3. \A d \in Conns : ~Making(d) /\ new[d] = NoTerm
  BY <1>1 DEF NamesInv, MakerInv
<1>4. \A d \in Conns : Making(d)' <=> d = c
  BY <1>2, <1>3 DEF Making
<1>5. onExit[t] = {} /\ ~exited[t] /\ ~killed[t] /\ \A d \in Conns : term[d] # t
  BY <1>1 DEF NamesInv, FreshInv
<1>6. MakerInv'
  <2>1. \A d \in Conns : new'[d] # NoTerm => d = c
    BY <1>2, <1>3
  <2>2. new'[c] = t /\ life'[t] = "running" /\ hpc'[c] = "hook" /\ request' = request
    BY <1>1, <1>2
  <2> QED
    BY <1>1, <1>2, <1>4, <1>5, <2>1, <2>2 DEF MakerInv
<1>7. NameInv'
  BY <1>1, <1>2 DEF NamesInv, NameInv
<1>8. FreshInv'
  BY <1>1, <1>2, <1>3 DEF NamesInv, FreshInv
<1>9. OwnInv'
  BY <1>2 DEF NamesInv, OwnInv
<1>10. NamesReachShells'
  BY <1>2, <1>3, <1>5 DEF NamesInv, NamesReachShells, Making
<1> QED
  BY <1>6, <1>7, <1>8, <1>9, <1>10 DEF NamesInv

LEMMA NamesHook == ASSUME TypeInv, NamesInv, NEW c \in Conns, Hook(c) PROVE NamesInv'
<1> USE NamesTypes
<1> DEFINE t == new[c]  n == request[c].id
<1>1. /\ hpc[c] = "hook" /\ Making(c) /\ mu /\ n \in Names /\ t \in Terms /\ sessions[n] = NoTerm
      /\ life[t] # "none" /\ ~exited[t] /\ ~killed[t] /\ onExit[t] = {}
  BY DEF Hook, Making, NamesInv, MakerInv
<1>2. /\ onExit' = [onExit EXCEPT ![t] = {n}] /\ hpc' = [hpc EXCEPT ![c] = "register"]
      /\ UNCHANGED <<life, exited, killed, sessions, mu, term, keep, new, request>>
  BY DEF Hook, SetOnExit, names, client
<1>3. \A d \in Conns : Making(d) => d = c
  BY <1>1 DEF NamesInv, MakerInv
<1>4. \A d \in Conns : (Making(d)' <=> d = c) /\ term[d] # t
  BY <1>1, <1>2, <1>3, HubAssumption DEF Making, NamesInv, MakerInv
<1>5. MakerInv'
  <2>1. onExit'[new'[c]] = {request'[c].id} /\ hpc'[c] = "register"
    BY <1>1, <1>2
  <2>2. \A d \in Conns : new'[d] # NoTerm => d = c
    BY <1>2, <1>3 DEF NamesInv, MakerInv
  <2> QED
    BY <1>1, <1>2, <1>4, <2>1, <2>2 DEF MakerInv
<1>6. NameInv'
  BY <1>1, <1>2 DEF NamesInv, NameInv
<1>7. FreshInv'
  BY <1>1, <1>2 DEF NamesInv, FreshInv
<1>8. OwnInv'
  BY <1>1, <1>2, <1>4 DEF NamesInv, OwnInv
<1>9. NamesReachShells'
  <2> SUFFICES ASSUME NEW u \in Terms, NEW m \in Names, life'[u] = "running", m \in onExit'[u],
                      u # t
               PROVE  sessions'[m] = u
    BY <1>1, <1>2 DEF NamesReachShells
  <2>1. life[u] = "running" /\ m \in onExit[u]
    BY <1>2
  <2>2. \A d \in Conns : ~(hpc[d] = "register" /\ new[d] = u)
    BY <1>1, <1>3 DEF Making
  <2> QED
    BY <1>2, <2>1, <2>2 DEF NamesInv, NamesReachShells
<1> QED
  BY <1>5, <1>6, <1>7, <1>8, <1>9 DEF NamesInv

LEMMA NamesRegisterNew ==
    ASSUME TypeInv, NamesInv, NEW c \in Conns, RegisterNew(c) PROVE NamesInv'
<1> USE NamesTypes
<1> DEFINE t == new[c]  n == request[c].id
<1>1. /\ hpc[c] = "register" /\ Making(c) /\ n \in Names /\ t \in Terms /\ sessions[n] = NoTerm
      /\ life[t] # "none" /\ ~exited[t] /\ ~killed[t] /\ onExit[t] = {n}
  BY DEF RegisterNew, Making, NamesInv, MakerInv
<1>2. /\ sessions' = [sessions EXCEPT ![n] = t] /\ term' = [term EXCEPT ![c] = t]
      /\ keep' = [keep EXCEPT ![c] = TRUE] /\ new' = [new EXCEPT ![c] = NoTerm]
      /\ hpc' = [hpc EXCEPT ![c] = "attach"]
      /\ UNCHANGED <<life, onExit, exited, killed, request>>
  BY DEF RegisterNew, Register, shells, client
<1>3. \A d \in Conns : Making(d) => d = c
  BY <1>1 DEF NamesInv, MakerInv
<1>4. \A d \in Conns : ~Making(d)' /\ new'[d] = NoTerm
  BY <1>1, <1>2, <1>3 DEF Making, NamesInv, MakerInv
<1>5. MakerInv'
  BY <1>4 DEF MakerInv
<1>6. NameInv'
  BY <1>1, <1>2 DEF NamesInv, NameInv
<1>7. FreshInv'
  BY <1>1, <1>2, <1>4, HubAssumption DEF NamesInv, FreshInv
<1>8. OwnInv'
  BY <1>1, <1>2 DEF NamesInv, OwnInv
<1>9. NamesReachShells'
  <2> SUFFICES ASSUME NEW u \in Terms, NEW m \in Names, life[u] = "running", m \in onExit[u]
               PROVE  sessions'[m] = u
    BY <1>2 DEF NamesReachShells
  <2>1. CASE u = t
    BY <1>1, <1>2, <2>1
  <2>2. CASE u # t
    <3>1. \A d \in Conns : ~(hpc[d] = "register" /\ new[d] = u)
      BY <1>3, <2>2 DEF Making
    <3>2. sessions[m] = u
      BY <3>1 DEF NamesInv, NamesReachShells
    <3> QED
      BY <1>1, <1>2, <3>2, HubAssumption
  <2> QED
    BY <2>1, <2>2
<1> QED
  BY <1>5, <1>6, <1>7, <1>8, <1>9 DEF NamesInv

LEMMA NamesOpenShell ==
    ASSUME TypeInv, NamesInv, NEW c \in Conns, OpenShell(c) PROVE NamesInv'
<1> USE NamesTypes
<1> DEFINE t == Fresh
<1>1. hpc[c] = "open" /\ t \in Terms /\ life[t] = "none"
  BY FreshFact DEF OpenShell, StartShell
<1>2. /\ life' = [life EXCEPT ![t] = "running"] /\ term' = [term EXCEPT ![c] = t]
      /\ hpc' = [hpc EXCEPT ![c] = "attach"] /\ \A d \in Conns \ {c} : keep'[d] = keep[d]
      /\ UNCHANGED <<onExit, exited, killed, sessions, mu, new, request>>
  BY DEF OpenShell, StartShell, client, names
<1> HIDE DEF t
<1>3. /\ onExit[t] = {} /\ ~exited[t] /\ ~killed[t]
      /\ \A d \in Conns : term[d] # t /\ new[d] # t
  BY <1>1 DEF NamesInv, FreshInv
<1>4. \A d \in Conns : (Making(d)' <=> Making(d)) /\ (Making(d) => hpc'[d] = hpc[d] /\ d # c)
  BY <1>1, <1>2 DEF Making
<1>5. MakerInv'
  <2>1. \A d \in Conns : Making(d) => life'[new[d]] # "none"
    BY <1>2, <1>3 DEF NamesInv, MakerInv
  <2>2. \A d \in Conns : new[d] # NoTerm => Making(d) /\ \A e \in Conns : term'[e] # new[d]
    BY <1>2, <1>3 DEF NamesInv, MakerInv
  <2> QED
    BY <1>2, <1>4, <2>1, <2>2 DEF NamesInv, MakerInv
<1>6. NameInv'
  BY <1>1, <1>2 DEF NamesInv, NameInv
<1>7. FreshInv'
  BY <1>2 DEF NamesInv, FreshInv
<1>8. OwnInv'
  BY <1>2, <1>3 DEF NamesInv, OwnInv
<1>9. NamesReachShells'
  BY <1>2, <1>3, <1>4 DEF NamesInv, NamesReachShells, Making
<1> QED
  BY <1>5, <1>6, <1>7, <1>8, <1>9 DEF NamesInv

LEMMA NamesLeave == ASSUME TypeInv, NamesInv, NEW c \in Conns, Leave(c) PROVE NamesInv'
<1> USE NamesTypes
<1>1. /\ hpc[c] = "read" /\ hpc' = [hpc EXCEPT ![c] = "closing"]
      /\ UNCHANGED <<life, onExit, exited, sessions, mu, term, keep, new, request>>
  BY DEF Leave, names, client
<1>2. \/ killed' = killed
      \/ /\ term[c] \in Terms /\ onExit[term[c]] = {}
         /\ killed' = [killed EXCEPT ![term[c]] = TRUE]
  BY DEF Leave, Close, NamesInv, OwnInv
<1>3. \A t \in Terms : killed'[t] => killed[t] \/ (onExit[t] = {} /\ t = term[c])
  BY <1>2
<1>4. \A d \in Conns : (Making(d)' <=> Making(d)) /\ (Making(d) => hpc'[d] = hpc[d])
  BY <1>1 DEF Making
<1>5. MakerInv'
  <2>1. \A d \in Conns : Making(d) => term[c] # new[d] /\ ~killed'[new[d]]
    <3>1. \A d \in Conns : Making(d) => new[d] \in Terms /\ ~killed[new[d]]
      BY DEF NamesInv, MakerInv
    <3>2. \A d \in Conns : Making(d) => term[c] # new[d]
      BY <3>1, HubAssumption DEF NamesInv, MakerInv
    <3> QED
      BY <1>3, <3>1, <3>2
  <2> QED
    BY <1>1, <1>4, <2>1 DEF NamesInv, MakerInv
<1>6. NameInv'
  BY <1>1 DEF NamesInv, NameInv
<1>7. FreshInv'
  BY <1>1, <1>3 DEF NamesInv, FreshInv
<1>8. OwnInv'
  BY <1>1, <1>3 DEF NamesInv, OwnInv
<1>9. NamesReachShells'
  BY <1>1, <1>4 DEF NamesInv, NamesReachShells, Making
<1> QED
  BY <1>5, <1>6, <1>7, <1>8, <1>9 DEF NamesInv

LEMMA NamesEndLoop ==
    ASSUME TypeInv, NamesInv, NEW t \in Terms, EndLoop(t), Alone PROVE NamesInv'
<1> USE NamesTypes
<1>1. /\ life[t] = "running" /\ life' = [life EXCEPT ![t] = "ended"]
      /\ UNCHANGED <<onExit, exited, killed, sessions, mu, hpc, term, keep, new, request>>
  BY DEF EndLoop, Alone, names, client, handler
<1>2. \A u \in Terms : /\ life'[u] = "none" <=> life[u] = "none"
                       /\ life'[u] = "running" => life[u] = "running"
  BY <1>1
<1>3. MakerInv' /\ NameInv'
  <2>1. \A d \in Conns : Making(d)' <=> Making(d)
    BY <1>1 DEF Making
  <2>2. \A d \in Conns : Making(d) => life'[new[d]] # "none"
    BY <1>2 DEF NamesInv, MakerInv
  <2>3. MakerInv'
    BY <1>1, <2>1, <2>2 DEF NamesInv, MakerInv
  <2>4. NameInv'
    BY <1>1, <1>2, HubAssumption DEF NamesInv, NameInv
  <2> QED
    BY <2>3, <2>4
<1>4. FreshInv' /\ OwnInv'
  BY <1>1, <1>2 DEF NamesInv, FreshInv, OwnInv
<1>5. NamesReachShells'
  BY <1>1, <1>2 DEF NamesInv, NamesReachShells
<1> QED
  BY <1>3, <1>4, <1>5 DEF NamesInv

LEMMA NamesOnExit ==
    ASSUME TypeInv, NamesInv, NEW t \in Terms, OnExit(t), Alone PROVE NamesInv'
<1> USE NamesTypes
<1>1. /\ life[t] = "ended" /\ life' = [life EXCEPT ![t] = "gone"]
      /\ UNCHANGED <<onExit, killed, mu, hpc, term, keep, new, request>>
  BY DEF OnExit, Alone, client, handler
<1>2. \A u \in Terms : /\ life'[u] = "none" <=> life[u] = "none"
                       /\ life'[u] = "running" => life[u] = "running" /\ u # t
  BY <1>1
<1>3. OwnInv'
  BY <1>1 DEF NamesInv, OwnInv
<1>4. CASE UNCHANGED <<exited, sessions>>
  <2>1. MakerInv' /\ NameInv'
    <3>1. \A d \in Conns : Making(d)' <=> Making(d)
      BY <1>1 DEF Making
    <3>2. \A d \in Conns : Making(d) => life'[new[d]] # "none"
      BY <1>2 DEF NamesInv, MakerInv
    <3>3. MakerInv'
      BY <1>1, <1>4, <3>1, <3>2 DEF NamesInv, MakerInv
    <3>4. NameInv'
      BY <1>1, <1>2, <1>4, HubAssumption DEF NamesInv, NameInv
    <3> QED
      BY <3>3, <3>4
  <2>2. FreshInv' /\ NamesReachShells'
    BY <1>1, <1>2, <1>4 DEF NamesInv, FreshInv, NamesReachShells
  <2> QED
    BY <1>3, <2>1, <2>2 DEF NamesInv
<1>5. CASE /\ ~mu
           /\ sessions' = [n \in Names |-> IF n \in onExit[t] /\ sessions[n] = t
                                           THEN NoTerm ELSE sessions[n]]
           /\ exited' = [exited EXCEPT ![t] = TRUE]
  <2>1. \A d \in Conns : ~Making(d) /\ ~Making(d)' /\ new[d] = NoTerm
    BY <1>1, <1>5 DEF NamesInv, MakerInv, Making
  <2>2. \A n \in Names : /\ sessions'[n] # NoTerm => sessions'[n] = sessions[n] /\ sessions[n] # t
                         /\ sessions[n] # NoTerm /\ sessions[n] # t => sessions'[n] = sessions[n]
    BY <1>5 DEF NamesInv, NameInv
  <2>3. MakerInv'
    BY <1>1, <2>1 DEF MakerInv
  <2>4. NameInv'
    BY <1>1, <1>2, <1>5, <2>2 DEF NamesInv, NameInv
  <2>5. FreshInv'
    BY <1>1, <1>2, <1>5 DEF NamesInv, FreshInv
  <2>6. NamesReachShells'
    BY <1>1, <1>2, <2>1, <2>2, HubAssumption DEF NamesInv, NamesReachShells, Making
  <2> QED
    BY <1>3, <2>3, <2>4, <2>5, <2>6 DEF NamesInv
<1> QED
  BY <1>4, <1>5 DEF OnExit

LEMMA NamesNext == TypeInv /\ NamesInv /\ [Next]_vars => NamesInv'
<1> SUFFICES ASSUME TypeInv, NamesInv, [Next]_vars PROVE NamesInv'
  OBVIOUS
<1>1. UNCHANGED <<shells, names, new, hpc, term, keep, request>> => NamesInv'
  BY NamesQuiet
<1>2. ASSUME NEW c \in Conns, Ask(c) \/ Opening(c) \/ Resize(c) \/ Input(c)
                              \/ Break(c) \/ Leaving(c) \/ Says(c) \/ Write(c)
      PROVE  NamesInv'
  <2>1. CASE Resize(c) \/ Break(c) \/ Says(c) \/ Write(c)
    BY <2>1, <1>1 DEF Resize, Break, Says, Write, hubVars, client, handler
  <2> QED
    BY <1>2, <2>1, NamesAsk, NamesOpenExisting, NamesOpenNamed, NamesHook, NamesRegisterNew,
       NamesOpenShell, NamesOpenFails, NamesAttach, NamesInput, NamesLeave, NamesCloseQueue
       DEF Opening, Leaving
<1>3. ASSUME NEW s \in Streams, Streaming(s) PROVE NamesInv'
  BY <1>3, <1>1 DEF Streaming, Join, SetSize, Take, Give, Flush, SendPending, End, hubVars,
     client, handler
<1>4. ASSUME NEW t \in Terms, Prints(t) \/ Finishing(t) PROVE NamesInv'
  BY <1>4, <1>1, NamesEndLoop, NamesOnExit DEF Prints, Broadcast, Finishing, client, handler
<1>5. CASE UNCHANGED vars
  BY <1>5, <1>1 DEF vars, hubVars, client, handler
<1> QED
  BY <1>2, <1>3, <1>4, <1>5 DEF Next

LEMMA NamesInvariant == Spec => [](TypeInv /\ NamesInv)
  BY NamesInit, NamesNext, TypeInvariant, PTL DEF Spec

\* No name ever has two living shells, and a living shell is the one its name
\* leads to, for any number of clients that ask for a name while its shell exits.
THEOREM AgentNamesReachShells == Spec => []NamesReachShells
<1>1. NamesInv => NamesReachShells
  BY DEF NamesInv
<1> QED
  BY <1>1, NamesInvariant, PTL

\* The map gives nobody a shell whose OnExit has run: the shell's loop takes mu,
\* which the maker holds until the shell is in the map.
THEOREM AgentDeadNamesFade == Spec => []DeadNamesFade
<1>1. NamesInv => DeadNamesFade
  BY HubAssumption DEF NamesInv, NameInv, DeadNamesFade
<1> QED
  BY <1>1, NamesInvariant, PTL

\* A handler kills only a shell that has no name and that no other handler holds.
THEOREM AgentOnlyOwnShellsKilled == Spec => []OnlyOwnShellsKilled
<1>1. ASSUME NamesInv PROVE OnlyOwnShellsKilled
  <2>1. \A t \in Terms : killed[t] => onExit[t] = {} /\ \A n \in Names : sessions[n] # t
    BY <1>1, HubAssumption DEF NamesInv, OwnInv, NameInv
  <2>2. \A t \in Terms, c, d \in Conns :
            onExit[t] = {} /\ term[c] = t /\ term[d] = t => c = d
    BY <1>1, HubAssumption DEF NamesInv, OwnInv
  <2> QED
    BY <2>1, <2>2 DEF OnlyOwnShellsKilled
<1> QED
  BY <1>1, NamesInvariant, PTL

-----------------------------------------------------------------------------
(* The size of a shell and its viewers.                                    *)

\* A window on its way to the shell is the one the client announced last.
SettlesInv ==
    /\ \A c \in Conns :
           hpc[c] \in {"open", "hook", "register", "attach"} /\ told[c] # NoSize
               => told[c] = request[c].size
    /\ \A s \in Streams :
           spc[s] \in {"join", "resize"} /\ told[s[1]] # NoSize => told[s[1]] = window[s]

LEMMA SettlesInit == Init => SettlesInv
  BY StreamFact DEF Init, SettlesInv

\* Nobody announces a window, and no window is set out with.
LEMMA SettlesQuiet ==
    ASSUME TypeInv, SettlesInv, UNCHANGED <<told, request, window>>,
           \A c \in Conns : hpc'[c] \in {"open", "hook", "register", "attach"}
                               => hpc[c] \in {"open", "hook", "register", "attach"},
           \A s \in Streams : spc'[s] \in {"join", "resize"} => spc[s] \in {"join", "resize"}
    PROVE  SettlesInv'
  BY DEF SettlesInv

\* c announces a window that is to be set for what it asks for, or is set.
LEMMA SettlesTold ==
    ASSUME TypeInv, SettlesInv, NEW c \in Conns, NEW z, Announces(c, z),
           UNCHANGED stream,
           hpc'[c] = "read" \/ request'[c].size = z,
           \A d \in Conns \ {c} : hpc'[d] = hpc[d] /\ request'[d] = request[d]
    PROVE  SettlesInv'
<1>1. /\ told'[c] = (IF Settling(c) THEN NoSize ELSE z)
      /\ \A d \in Conns \ {c} : told'[d] = told[d]
  BY DEF Announces, TypeInv, RequestOK
<1>2. \A s \in Streams : s[1] \in Conns
  BY StreamFact
<1>3. ASSUME NEW s \in Streams, s[1] = c, spc[s] \in {"join", "resize"} PROVE told'[c] = NoSize
  BY <1>1, <1>3 DEF Settling
<1> QED
  BY <1>1, <1>2, <1>3 DEF SettlesInv, stream

LEMMA SettlesAttach == ASSUME TypeInv, SettlesInv, NEW c \in Conns, Attach(c) PROVE SettlesInv'
<1> DEFINE r == <<c, current[c] + 1>>
<1>1. /\ hpc[c] = "attach" /\ hpc' = [hpc EXCEPT ![c] = "read"]
      /\ spc' = [spc EXCEPT ![r] = "join"]
      /\ window' = [window EXCEPT ![r] = request[c].size] /\ UNCHANGED <<told, request>>
  BY DEF Attach, client
<1>2. r[1] = c
  OBVIOUS
<1> HIDE DEF r
<1>3. \A d \in Conns : hpc'[d] \in {"open", "hook", "register", "attach"}
                          => hpc[d] \in {"open", "hook", "register", "attach"}
  BY <1>1 DEF TypeInv, HandlerOK
<1>4. ASSUME NEW s \in Streams, spc'[s] \in {"join", "resize"}, told[s[1]] # NoSize
      PROVE  told[s[1]] = window'[s]
  <2>1. CASE s = r
    BY <1>1, <1>2, <1>4, <2>1 DEF SettlesInv, TypeInv, StreamOK
  <2>2. CASE s # r
    BY <1>1, <1>4, <2>2 DEF SettlesInv, TypeInv, StreamOK
  <2> QED
    BY <2>1, <2>2
<1> QED
  BY <1>1, <1>3, <1>4 DEF SettlesInv

LEMMA SettlesNext == TypeInv /\ SettlesInv /\ [Next]_vars => SettlesInv'
<1> SUFFICES ASSUME TypeInv, SettlesInv, [Next]_vars PROVE SettlesInv'
  OBVIOUS
<1> USE DEF TypeInv, HandlerOK, StreamOK
<1>1. ASSUME NEW c \in Conns, Ask(c) PROVE SettlesInv'
  <2>1. PICK id \in plan.asks[c][asked[c] + 1], z \in Sizes[c] :
            /\ request' = [request EXCEPT ![c] = [id |-> id, size |-> z]]
            /\ Announces(c, z)
    BY <1>1 DEF Ask
  <2>2. request'[c].size = z /\ \A d \in Conns \ {c} : request'[d] = request[d]
    BY <2>1 DEF RequestOK
  <2>3. UNCHANGED stream /\ \A d \in Conns \ {c} : hpc'[d] = hpc[d]
    BY <1>1 DEF Ask
  <2> QED
    BY <2>1, <2>2, <2>3, SettlesTold
<1>2. ASSUME NEW c \in Conns, Resize(c) PROVE SettlesInv'
  <2>1. PICK z \in Sizes[c] : Announces(c, z)
    BY <1>2 DEF Resize
  <2>2. UNCHANGED <<stream, hpc, request>> /\ hpc[c] = "read"
    BY <1>2 DEF Resize, handler
  <2> QED
    BY <2>1, <2>2, SettlesTold
<1>3. ASSUME NEW c \in Conns, Input(c) \/ Break(c) \/ Leaving(c) \/ Says(c) \/ Write(c)
      PROVE  SettlesInv'
  <2>1. /\ UNCHANGED <<told, request, window, spc>>
        /\ \A d \in Conns : hpc'[d] \in {"open", "hook", "register", "attach"}
                                => hpc[d] \in {"open", "hook", "register", "attach"}
    BY <1>3 DEF Input, InputBlocks, InputReturns, Break, Leaving, Leave, CloseQueue, Says,
       Write, client, handler, stream
  <2> QED
    BY <2>1, SettlesQuiet
<1>4. ASSUME NEW c \in Conns, Opening(c), ~Attach(c) PROVE SettlesInv'
  <2>1. /\ UNCHANGED <<told, request, window, spc>>
        /\ \A d \in Conns : hpc'[d] \in {"open", "hook", "register", "attach"}
                                => hpc[d] \in {"open", "hook", "register", "attach"}
    BY <1>4 DEF Opening, OpenExisting, OpenNamed, OpenShell, OpenFails, Hook, RegisterNew,
       client, stream
  <2> QED
    BY <2>1, SettlesQuiet
<1>5. ASSUME NEW s \in Streams, Streaming(s) PROVE SettlesInv'
  <2>1. UNCHANGED <<told, request, window, hpc>>
    BY <1>5 DEF Streaming, Join, SetSize, Take, Give, Flush, SendPending, End, client,
       handler, stream
  <2>2. \A r \in Streams : spc'[r] \in {"join", "resize"} => spc[r] \in {"join", "resize"}
    BY <1>5 DEF Streaming, Join, SetSize, Take, Give, Flush, QueueBinary, SendPending, End,
       stream
  <2> QED
    BY <2>1, <2>2, SettlesQuiet
<1>6. ASSUME NEW t \in Terms, Prints(t) \/ Finishing(t) PROVE SettlesInv'
  BY <1>6, SettlesQuiet DEF Prints, Finishing, Alone, client, handler, stream
<1>7. CASE UNCHANGED vars
  BY <1>7, SettlesQuiet DEF vars, client, handler, stream
<1> QED
  BY <1>1, <1>2, <1>3, <1>4, <1>5, <1>6, <1>7, SettlesAttach DEF Next

\* The client of s looks at what s streams, with an id of its own.
Looks(s) == /\ spc[s] \in {"run", "blocked"} /\ Current(s) /\ OwnID(s[1])
            /\ hpc[s[1]] \in {"read", "write"}

\* A shell fits every size it has an entry for, only a shell that was started
\* has entries, and the entry of a client that looks at it is its window.
FitInv == \A t \in Terms, i \in IDs : sizes[t][i] # NoSize =>
              /\ life[t] # "none"
              /\ size[t][1] <= sizes[t][i][1] /\ size[t][2] <= sizes[t][i][2]

StartedInv == \A s \in Streams : spc[s] # "none" => life[target[s]] # "none"

HeldInv == \A s \in Streams :
    Looks(s) /\ told[s[1]] # NoSize => sizes[target[s]][IDOf[s[1]]] = Entry(told[s[1]])

ViewInv == FitInv /\ StartedInv /\ HeldInv

LEMMA ViewInit == Init => ViewInv
<1> SUFFICES ASSUME Init PROVE ViewInv
  OBVIOUS
<1>1. /\ \A s \in Streams : spc[s] = "none"
      /\ \A t \in Terms, i \in IDs : sizes[t][i] = NoSize
  BY DEF Init, HubInit
<1> QED
  BY <1>1 DEF ViewInv, FitInv, StartedInv, HeldInv, Looks

LEMMA ViewTypes ==
    ASSUME TypeInv
    PROVE  /\ ViewersOK /\ life \in [Terms -> Lives] /\ told \in [Conns -> Size]
           /\ term \in [Conns -> Terms \cup {NoTerm}] /\ current \in [Conns -> Nat]
           /\ DOMAIN hpc = Conns /\ DOMAIN spc = Streams /\ DOMAIN target = Streams
           /\ \A c \in Conns : IDOf[c] \in IDs /\ (hpc[c] = "open" => term[c] = NoTerm)
           /\ \A s \in Streams : s[1] \in Conns
           /\ \A s \in Streams : spc[s] # "none" => target[s] \in Terms /\ window[s] # NoSize
  BY StreamFact, SessionAssumption
     DEF TypeInv, HubOK, ShellsOK, RequestOK, HandlerOK, StreamOK, PlaceOK

\* Nobody's size changes, and nobody begins to look at a shell.
LEMMA ViewQuiet ==
    ASSUME TypeInv, ViewInv, UNCHANGED viewers,
           \A t \in Terms : life'[t] = "none" => life[t] = "none",
           \A s \in Streams : Looks(s)' => /\ Looks(s) /\ target'[s] = target[s]
                                           /\ told'[s[1]] = told[s[1]],
           StartedInv'
    PROVE  ViewInv'
<1>1. FitInv'
  BY DEF ViewInv, FitInv, viewers
<1>2. HeldInv'
  BY DEF ViewInv, HeldInv, viewers
<1> QED
  BY <1>1, <1>2 DEF ViewInv

\* The same for a step that leaves the shells and their goroutines' places.
LEMMA ViewStill ==
    ASSUME TypeInv, ViewInv, UNCHANGED <<viewers, told, term, current, target, hpc>>,
           \A t \in Terms : life'[t] = "none" => life[t] = "none",
           \A s \in Streams : /\ spc'[s] # "none" => spc[s] # "none"
                              /\ spc'[s] \in {"run", "blocked"} => spc[s] \in {"run", "blocked"}
    PROVE  ViewInv'
<1>1. \A s \in Streams : Looks(s)' => Looks(s)
  BY DEF Looks, Current, OwnID
<1>2. StartedInv'
  BY ViewTypes DEF ViewInv, StartedInv
<1> QED
  BY <1>1, <1>2, ViewQuiet

\* A client has its entry set to the window it announced last, or set or removed
\* while it does not look.
LEMMA ViewResize ==
    ASSUME TypeInv, ViewInv, NEW c \in Conns, NEW t \in Terms, NEW z \in Size,
           UpdateClientSize(t, IDOf[c], z), life[t] # "none",
           UNCHANGED <<life, current, target>>,
           \A s \in Streams : spc'[s] # "none" => spc[s] # "none",
           \A d \in Conns \ {c} : told'[d] = told[d],
           \A s \in Streams : Looks(s)' =>
               \/ s[1] # c /\ Looks(s)
               \/ s[1] = c /\ target[s] = t /\ told'[c] \in {NoSize, z}
               \/ s[1] = c /\ target[s] # t /\ Looks(s) /\ told'[c] = told[c]
    PROVE  ViewInv'
<1> USE ViewTypes
<1> DEFINE i == IDOf[c]
<1>1. /\ sizes'[t][i] = Entry(z)
      /\ \A u \in Terms, j \in IDs : u # t \/ j # i => sizes'[u][j] = sizes[u][j]
      /\ \A u \in Terms \ {t} : size'[u] = size[u]
      /\ \A j \in IDs : sizes'[t][j] # NoSize =>
             size'[t][1] <= sizes'[t][j][1] /\ size'[t][2] <= sizes'[t][j][2]
  BY ResizeFact
<1>2. FitInv'
  BY <1>1 DEF ViewInv, FitInv
<1>3. StartedInv'
  BY DEF ViewInv, StartedInv
<1>4. HeldInv'
  <2> SUFFICES ASSUME NEW s \in Streams, Looks(s)', told'[s[1]] # NoSize
               PROVE  sizes'[target[s]][IDOf[s[1]]] = Entry(told'[s[1]])
    BY DEF HeldInv
  <2>1. target[s] \in Terms /\ s[1] \in Conns /\ IDOf[s[1]] \in IDs
    BY DEF Looks
  <2>2. CASE s[1] = c /\ target[s] = t
    BY <1>1, <2>2
  <2>3. CASE s[1] = c /\ target[s] # t
    <3>1. Looks(s) /\ told'[c] = told[c]
      BY <2>3
    <3> QED
      BY <1>1, <2>1, <2>3, <3>1 DEF ViewInv, HeldInv
  <2>4. CASE s[1] # c
    <3>1. Looks(s) /\ IDOf[s[1]] # i /\ told'[s[1]] = told[s[1]]
      BY <2>1, <2>4 DEF Looks, OwnID
    <3> QED
      BY <1>1, <2>1, <3>1 DEF ViewInv, HeldInv
  <2> QED
    BY <2>2, <2>3, <2>4
<1> QED
  BY <1>2, <1>3, <1>4 DEF ViewInv

\* A shell is started; it has no viewer yet.
LEMMA ViewStart ==
    ASSUME TypeInv, ViewInv, NEW z \in Size, StartShell(z), UNCHANGED <<sizes, told, stream>>,
           \A s \in Streams : Looks(s)' => Looks(s)
    PROVE  ViewInv'
<1> USE ViewTypes
<1>1. Fresh \in Terms /\ life[Fresh] = "none"
  BY StartFact
<1>2. /\ \A t \in Terms : life'[t] = "none" => life[t] = "none"
      /\ \A t \in Terms \ {Fresh} : size'[t] = size[t]
  BY DEF StartShell, ViewersOK
<1>3. FitInv'
  BY <1>1, <1>2 DEF ViewInv, FitInv
<1>4. StartedInv'
  BY <1>2 DEF ViewInv, StartedInv, stream
<1>5. HeldInv'
  BY DEF ViewInv, HeldInv, stream
<1> QED
  BY <1>3, <1>4, <1>5 DEF ViewInv

LEMMA ViewAsk ==
    ASSUME TypeInv, NamesInv, ViewInv, NEW c \in Conns, Ask(c) PROVE ViewInv'
<1> USE ViewTypes
<1>1. /\ hpc' = [hpc EXCEPT ![c] = "open"] /\ term' = [term EXCEPT ![c] = NoTerm]
      /\ UNCHANGED <<life, current, spc, target, window>>
      /\ \A d \in Conns \ {c} : told'[d] = told[d]
  BY DEF Ask, Announces, shells, stream
<1>2. \A s \in Streams : Looks(s)' => Looks(s) /\ s[1] # c
  BY <1>1 DEF Looks, Current, OwnID
<1>3. StartedInv'
  BY <1>1 DEF ViewInv, StartedInv
<1>4. CASE term[c] = NoTerm
  BY <1>1, <1>2, <1>3, <1>4, ViewQuiet DEF Ask
<1>5. CASE term[c] # NoTerm
  <2>1. term[c] \in Terms /\ NoSize \in Size /\ UpdateClientSize(term[c], IDOf[c], NoSize)
    BY <1>5 DEF Ask, Size
  <2>2. life[term[c]] # "none"
    BY <2>1 DEF NamesInv, FreshInv
  <2> QED
    BY <1>1, <1>2, <2>1, <2>2, ViewResize
<1> QED
  BY <1>4, <1>5

LEMMA ViewOpening ==
    ASSUME TypeInv, NamesInv, ViewInv, NEW c \in Conns, Opening(c) PROVE ViewInv'
<1> USE ViewTypes
<1>1. CASE OpenExisting(c) \/ Hook(c) \/ RegisterNew(c)
  <2>1. /\ hpc'[c] \notin {"read", "write"}
        /\ \A d \in Conns \ {c} : hpc'[d] = hpc[d] /\ term'[d] = term[d]
        /\ UNCHANGED <<life, viewers, told, current, stream>>
    BY <1>1 DEF OpenExisting, Hook, RegisterNew, hubVars, shells, client
  <2>2. \A s \in Streams : Looks(s)' => Looks(s)
    BY <2>1 DEF Looks, Current, OwnID, stream
  <2>3. StartedInv'
    BY <2>1 DEF ViewInv, StartedInv, stream
  <2> QED
    BY <2>1, <2>2, <2>3, ViewQuiet DEF stream
<1>2. CASE OpenNamed(c) \/ OpenShell(c)
  <2>1. /\ hpc'[c] \notin {"read", "write"}
        /\ \A d \in Conns \ {c} : hpc'[d] = hpc[d] /\ term'[d] = term[d]
        /\ UNCHANGED <<sizes, told, current, stream>> /\ StartShell(request[c].size)
    BY <1>2 DEF OpenNamed, OpenShell, StartNamed, client
  <2>2. \A s \in Streams : Looks(s)' => Looks(s)
    BY <2>1 DEF Looks, Current, OwnID, stream
  <2>3. request[c].size \in Size
    BY DEF TypeInv, RequestOK
  <2> QED
    BY <2>1, <2>2, <2>3, ViewStart
<1>3. CASE OpenFails(c)
  <2>1. /\ term[c] = NoTerm /\ \A d \in Conns \ {c} : hpc'[d] = hpc[d]
        /\ UNCHANGED <<life, viewers, told, term, current, stream>>
    BY <1>3 DEF OpenFails, hubVars, shells, client
  <2>2. \A s \in Streams : Looks(s)' => Looks(s)
    BY <2>1, HubAssumption DEF Looks, Current, OwnID, stream
  <2>3. StartedInv'
    BY <2>1 DEF ViewInv, StartedInv, stream
  <2> QED
    BY <2>1, <2>2, <2>3, ViewQuiet DEF stream
<1>4. CASE Attach(c)
  <2> DEFINE r == <<c, current[c] + 1>>
  <2>1. /\ current' = [current EXCEPT ![c] = @ + 1] /\ spc' = [spc EXCEPT ![r] = "join"]
        /\ target' = [target EXCEPT ![r] = term[c]] /\ hpc' = [hpc EXCEPT ![c] = "read"]
        /\ UNCHANGED <<life, viewers, told, term>> /\ term[c] \in Terms
    BY <1>4 DEF Attach, hubVars, shells, client, TypeInv, PlaceOK
  <2>2. \A s \in Streams \ {r} : spc'[s] = spc[s] /\ target'[s] = target[s]
    BY <2>1
  <2>3. \A s \in Streams : Looks(s)' => s # r /\ s[1] # c
    <3> SUFFICES ASSUME NEW s \in Streams, Looks(s)' PROVE s # r /\ s[1] # c
      OBVIOUS
    <3>1. s # r
      BY <2>1 DEF Looks
    <3>2. s = <<s[1], s[2]>> /\ current'[s[1]] = s[2]
      BY StreamFact DEF Looks, Current
    <3> QED
      BY <2>1, <3>1, <3>2
  <2>4. \A s \in Streams : Looks(s)' => Looks(s) /\ target'[s] = target[s]
    BY <2>1, <2>2, <2>3 DEF Looks, Current, OwnID
  <2>5. life[term[c]] # "none"
    BY <2>1 DEF NamesInv, FreshInv
  <2>6. StartedInv'
    BY <2>1, <2>2, <2>5 DEF ViewInv, StartedInv
  <2> QED
    BY <2>1, <2>4, <2>6, ViewQuiet
<1> QED
  BY <1>1, <1>2, <1>3, <1>4 DEF Opening

LEMMA ViewHandler ==
    ASSUME TypeInv, NamesInv, ViewInv, NEW c \in Conns, Resize(c) \/ Input(c) \/ Leaving(c)
    PROVE  ViewInv'
<1> USE ViewTypes
<1>1. /\ UNCHANGED <<life, term, current, spc, target, window>>
      /\ \A d \in Conns \ {c} : told'[d] = told[d]
  BY DEF Resize, Announces, Input, InputBlocks, InputReturns, Leaving, Leave, CloseQueue,
     hubVars, shells, client, handler, stream
<1>2. term[c] \in Terms => life[term[c]] # "none"
  BY DEF NamesInv, FreshInv
<1>3. CASE Resize(c)
  <2>1. PICK z \in Sizes[c] : UpdateClientSize(term[c], IDOf[c], z) /\ Announces(c, z)
    BY <1>3 DEF Resize
  <2>2. z \in Size /\ term[c] \in Terms /\ hpc' = hpc
    BY <1>3, SessionAssumption DEF Resize, Size, handler
  <2>3. told'[c] \in {NoSize, z}
    BY <2>1 DEF Announces
  <2>4. \A s \in Streams : Looks(s)' => Looks(s) /\ (s[1] = c => target[s] = term[c])
    BY <1>1, <2>2 DEF Looks, Current, OwnID
  <2> QED
    BY <1>1, <1>2, <2>1, <2>2, <2>3, <2>4, ViewResize
<1>4. CASE Input(c)
  <2>1. /\ hpc[c] \in {"read", "write"} /\ \A d \in Conns \ {c} : hpc'[d] = hpc[d]
        /\ UNCHANGED <<viewers, told>>
    BY <1>4 DEF Input, InputBlocks, InputReturns, hubVars, client
  <2>2. \A s \in Streams : Looks(s)' => Looks(s)
    BY <1>1, <2>1 DEF Looks, Current, OwnID
  <2>3. StartedInv'
    BY <1>1 DEF ViewInv, StartedInv
  <2> QED
    BY <1>1, <2>1, <2>2, <2>3, ViewQuiet
<1>5. CASE Leaving(c)
  <2>1. /\ hpc'[c] \notin {"read", "write"} /\ \A d \in Conns \ {c} : hpc'[d] = hpc[d]
        /\ UNCHANGED told
    BY <1>5 DEF Leaving, Leave, CloseQueue, client
  <2>2. \A s \in Streams : Looks(s)' => Looks(s) /\ s[1] # c
    BY <1>1, <2>1 DEF Looks, Current, OwnID
  <2>3. CASE UNCHANGED viewers
    <3>1. StartedInv'
      BY <1>1 DEF ViewInv, StartedInv
    <3> QED
      BY <1>1, <2>1, <2>2, <2>3, <3>1, ViewQuiet
  <2>4. CASE term[c] # NoTerm /\ UpdateClientSize(term[c], IDOf[c], NoSize)
    <3>1. term[c] \in Terms /\ NoSize \in Size
      BY <2>4 DEF Size
    <3> QED
      BY <1>1, <1>2, <2>2, <2>4, <3>1, ViewResize
  <2> QED
    BY <1>5, <2>3, <2>4 DEF Leaving, Leave, CloseQueue, hubVars, viewers
<1> QED
  BY <1>3, <1>4, <1>5

LEMMA ViewStreaming ==
    ASSUME TypeInv, SettlesInv, ViewInv, NEW s \in Streams, Streaming(s) PROVE ViewInv'
<1> USE ViewTypes
<1>1. UNCHANGED <<life, told, term, current, target, hpc>>
  BY DEF Streaming, Join, SetSize, Take, Give, Flush, SendPending, End, hubVars, shells,
     client, handler, stream
<1>2. spc[s] # "none" /\ \A r \in Streams \ {s} : spc'[r] = spc[r]
  BY DEF Streaming, Join, SetSize, Take, Give, Flush, QueueBinary, SendPending, End, stream
<1>3. CASE SetSize(s)
  <2>1. /\ UpdateClientSize(target[s], IDOf[s[1]], window[s]) /\ target[s] \in Terms
        /\ window[s] \in Size /\ life[target[s]] # "none"
        /\ told[s[1]] \in {NoSize, window[s]}
    BY <1>2, <1>3 DEF SetSize, ViewInv, SettlesInv, StartedInv, TypeInv, StreamOK
  <2>2. \A r \in Streams : Looks(r)' => Looks(r) \/ r = s
    BY <1>1, <1>2 DEF Looks, Current, OwnID
  <2> QED
    BY <1>1, <1>2, <2>1, <2>2, ViewResize
<1>4. CASE ~SetSize(s)
  <2>1. spc'[s] \in {"run", "blocked"} => spc[s] \in {"run", "blocked"}
    BY <1>4 DEF Streaming, Join, Take, Give, Flush, SendPending, End, stream
  <2>2. UNCHANGED viewers
    BY <1>4 DEF Streaming, Join, Take, Give, Flush, SendPending, End, hubVars
  <2> QED
    BY <1>1, <1>2, <2>1, <2>2, ViewStill
<1> QED
  BY <1>3, <1>4

LEMMA ViewNext == TypeInv /\ NamesInv /\ SettlesInv /\ ViewInv /\ [Next]_vars => ViewInv'
<1> SUFFICES ASSUME TypeInv, NamesInv, SettlesInv, ViewInv, [Next]_vars PROVE ViewInv'
  OBVIOUS
<1>1. UNCHANGED <<viewers, life, told, term, current, spc, target, hpc>> => ViewInv'
  BY ViewStill
<1>2. ASSUME NEW c \in Conns, Ask(c) \/ Opening(c) \/ Resize(c) \/ Input(c)
                              \/ Break(c) \/ Leaving(c) \/ Says(c) \/ Write(c)
      PROVE  ViewInv'
  <2>1. CASE Break(c) \/ Says(c) \/ Write(c)
    BY <2>1, <1>1 DEF Break, Says, Write, hubVars, shells, client, handler, stream
  <2> QED
    BY <1>2, <2>1, ViewAsk, ViewOpening, ViewHandler
<1>3. ASSUME NEW t \in Terms, Prints(t) \/ Finishing(t) PROVE ViewInv'
  <2>1. UNCHANGED <<viewers, told, term, current, spc, target, hpc>>
    BY <1>3 DEF Prints, Broadcast, Finishing, EndLoop, OnExit, Alone, client, handler, stream
  <2>2. \A u \in Terms : life'[u] = "none" => life[u] = "none"
    BY <1>3, ViewTypes DEF Prints, Broadcast, Finishing, EndLoop, OnExit, shells
  <2> QED
    BY <2>1, <2>2, ViewStill
<1>4. CASE UNCHANGED vars
  BY <1>4, <1>1 DEF vars, hubVars, shells, client, handler, stream
<1> QED
  BY <1>2, <1>3, <1>4, ViewStreaming DEF Next

\* The shell is never larger than the window its client announced last, for any
\* number of clients with ids of their own that look at it, ask for terminals and
\* resize in any order, as long as no window overtakes an older one of the same
\* client (Announces): every update takes the minimum over all entries, and only
\* the goroutines of the client itself touch its entry.
THEOREM AgentFitsEveryViewer == Spec => []FitsEveryViewer
<1>1. ASSUME TypeInv, ViewInv PROVE FitsEveryViewer
  <2> SUFFICES ASSUME NEW s \in Streams, Looks(s), Entry(told[s[1]]) # NoSize
               PROVE  LET z == told[s[1]]
                      IN  size[target[s]][1] <= z[1] /\ size[target[s]][2] <= z[2]
    BY DEF FitsEveryViewer, Looks
  <2>1. target[s] \in Terms /\ IDOf[s[1]] \in IDs
    BY <1>1, ViewTypes DEF Looks
  <2>2. told[s[1]] # NoSize /\ Entry(told[s[1]]) = told[s[1]]
    BY DEF Entry
  <2>3. sizes[target[s]][IDOf[s[1]]] = told[s[1]]
    BY <1>1, <2>2 DEF ViewInv, HeldInv
  <2> QED
    BY <1>1, <2>1, <2>2, <2>3 DEF ViewInv, FitInv
<1> QED
  BY <1>1, SettlesInit, SettlesNext, ViewInit, ViewNext, NamesInvariant, PTL DEF Spec

-----------------------------------------------------------------------------
(* Sequences of chunks, and what the frames of a queue carry.              *)

LEMMA JoinFact ==
    ASSUME NEW x \in Seq(Nat), NEW y \in Seq(Nat), NEW z \in Seq(Nat)
    PROVE  (x \o y) \o z = x \o (y \o z)
<1> DEFINE S == Nat
<1>1. x \in Seq(S) /\ y \in Seq(S) /\ z \in Seq(S)
  OBVIOUS
<1> HIDE DEF S
<1> QED
  BY <1>1, ConcatAssociative, SMTT(30)

\* What follows m chunks of q begins with x: q splits after it.
LEMMA SplitFact ==
    ASSUME NEW q \in Seq(Nat), NEW x \in Seq(Nat), NEW r \in Seq(Nat),
           NEW m \in 0 .. Len(q), SubSeq(q, m + 1, Len(q)) = x \o r
    PROVE  /\ m + Len(x) \in 0 .. Len(q)
           /\ SubSeq(q, m + 1, m + Len(x)) = x
           /\ SubSeq(q, m + Len(x) + 1, Len(q)) = r
<1> DEFINE y == SubSeq(q, m + 1, Len(q))  k == m + Len(x)
           a == SubSeq(q, m + 1, k)  b == SubSeq(q, k + 1, Len(q))
<1>1. Len(q) \in Nat /\ m \in Nat /\ Len(x) \in Nat /\ Len(r) \in Nat
      /\ \A i \in 1 .. Len(q) : q[i] \in Nat
  BY LenProperties
<1>2. /\ Len(y) = Len(q) - m
      /\ \A i \in 1 .. Len(q) - m : y[i] = q[m + i]
  <2>1. \A i \in m + 1 .. Len(q) : q[i] \in Nat
    BY <1>1
  <2> DEFINE lo == m + 1  hi == Len(q)
  <2>2. lo \in Int /\ hi \in Int /\ \A i \in lo .. hi : q[i] \in Nat
    BY <1>1, <2>1
  <2>3. /\ Len(SubSeq(q, lo, hi)) = (IF lo <= hi THEN hi - lo + 1 ELSE 0)
        /\ \A i \in 1 .. hi - lo + 1 : SubSeq(q, lo, hi)[i] = q[lo + i - 1]
    <3> HIDE DEF lo, hi
    <3> QED
      BY <2>2, SubSeqProperties
  <2>4. y = SubSeq(q, lo, hi)
    OBVIOUS
  <2> HIDE DEF y
  <2> QED
    BY <1>1, <2>3, <2>4
<1>3. /\ Len(y) = Len(x) + Len(r)
      /\ \A i \in 1 .. Len(x) : y[i] = x[i]
      /\ \A i \in 1 .. Len(r) : y[Len(x) + i] = r[i]
  <2> HIDE DEF y
  <2>1. y = x \o r
    BY DEF y
  <2> QED
    BY <1>1, <2>1, ConcatProperties
<1> HIDE DEF y
<1>4. k \in 0 .. Len(q) /\ Len(q) = k + Len(r)
  BY <1>1, <1>2, <1>3
<1>5. /\ a \in Seq(Nat) /\ Len(a) = Len(x)
      /\ \A i \in 1 .. Len(x) : a[i] = q[m + i]
  <2>1. \A i \in m + 1 .. k : q[i] \in Nat
    BY <1>1, <1>4
  <2>2. m + 1 \in Int /\ k \in Int /\ k - m = Len(x)
    BY <1>1, <1>4
  <2> HIDE DEF k
  <2>3. /\ a \in Seq(Nat) /\ Len(a) = (IF m + 1 <= k THEN k - (m + 1) + 1 ELSE 0)
        /\ \A i \in 1 .. k - (m + 1) + 1 : a[i] = q[(m + 1) + i - 1]
    BY <2>1, <2>2, SubSeqProperties
  <2> QED
    BY <1>1, <2>2, <2>3
<1>6. /\ b \in Seq(Nat) /\ Len(b) = Len(r)
      /\ \A i \in 1 .. Len(r) : b[i] = q[k + i]
  <2>1. \A i \in k + 1 .. Len(q) : q[i] \in Nat
    BY <1>1, <1>4
  <2> QED
    BY <1>1, <1>4, <2>1, SubSeqProperties
<1>7. \A i \in 1 .. Len(x) : a[i] = x[i]
  BY <1>1, <1>2, <1>3, <1>4, <1>5
<1>8. \A i \in 1 .. Len(r) : b[i] = r[i]
  <2> SUFFICES ASSUME NEW i \in 1 .. Len(r) PROVE b[i] = r[i]
    OBVIOUS
  <2>1. Len(x) + i \in 1 .. Len(q) - m /\ m + (Len(x) + i) = k + i
    BY <1>1, <1>4
  <2> QED
    BY <1>2, <1>3, <1>6, <2>1
<1> HIDE DEF a, b, k
<1>9. a = x
  BY <1>5, <1>7, SeqEqual
<1>10. b = r
  BY <1>6, <1>8, SeqEqual
<1> QED
  BY <1>4, <1>9, <1>10 DEF a, b, k

\* One more chunk of q is one more chunk of what follows.
LEMMA GrowFact ==
    ASSUME NEW q \in Seq(Nat), NEW v \in Nat, NEW m \in 0 .. Len(q)
    PROVE  /\ Append(q, v) \in Seq(Nat) /\ Len(Append(q, v)) = Len(q) + 1
           /\ \A k \in 0 .. Len(q) : SubSeq(Append(q, v), m + 1, k) = SubSeq(q, m + 1, k)
           /\ SubSeq(Append(q, v), m + 1, Len(q) + 1) = Append(SubSeq(q, m + 1, Len(q)), v)
<1> DEFINE p == Append(q, v)
<1>1. Len(q) \in Nat /\ m \in Nat /\ \A i \in 1 .. Len(q) : q[i] \in Nat
  BY LenProperties
<1>2. /\ p \in Seq(Nat) /\ Len(p) = Len(q) + 1
      /\ \A i \in 1 .. Len(q) : p[i] = q[i]
      /\ p[Len(q) + 1] = v
  BY AppendProperties
<1> HIDE DEF p
<1>3. \A i \in 1 .. Len(q) + 1 : p[i] \in Nat
  BY <1>1, <1>2
<1>4. ASSUME NEW k \in 0 .. Len(q) PROVE SubSeq(p, m + 1, k) = SubSeq(q, m + 1, k)
  <2> DEFINE a == SubSeq(p, m + 1, k)  b == SubSeq(q, m + 1, k)
             n == IF m + 1 <= k THEN k - m ELSE 0
  <2>1. (\A i \in m + 1 .. k : p[i] \in Nat) /\ (\A i \in m + 1 .. k : q[i] \in Nat)
    BY <1>1, <1>3
  <2>2. a \in Seq(Nat) /\ Len(a) = n /\ \A i \in 1 .. n : a[i] = p[m + i]
    BY <1>1, <2>1, SubSeqProperties
  <2>3. b \in Seq(Nat) /\ Len(b) = n /\ \A i \in 1 .. n : b[i] = q[m + i]
    BY <1>1, <2>1, SubSeqProperties
  <2>4. \A i \in 1 .. n : m + i \in 1 .. Len(q)
    BY <1>1
  <2> HIDE DEF a, b, n
  <2>5. \A i \in 1 .. n : a[i] = b[i]
    BY <1>2, <2>2, <2>3, <2>4
  <2>6. a = b
    BY <2>2, <2>3, <2>5, SeqEqual
  <2> QED
    BY <2>6 DEF a, b
<1>5. SubSeq(p, m + 1, Len(q) + 1) = Append(SubSeq(q, m + 1, Len(q)), v)
  <2> DEFINE a == SubSeq(p, m + 1, Len(q) + 1)  y == SubSeq(q, m + 1, Len(q))  b == Append(y, v)
             n == Len(q) - m
  <2>1. n \in Nat
    BY <1>1
  <2>2. a \in Seq(Nat) /\ Len(a) = n + 1 /\ \A i \in 1 .. n + 1 : a[i] = p[m + i]
    <3>1. \A i \in m + 1 .. Len(q) + 1 : p[i] \in Nat
      BY <1>1, <1>3
    <3> QED
      BY <1>1, <3>1, SubSeqProperties
  <2>3. y \in Seq(Nat) /\ Len(y) = n /\ \A i \in 1 .. n : y[i] = q[m + i]
    <3>1. \A i \in m + 1 .. Len(q) : q[i] \in Nat
      BY <1>1
    <3> QED
      BY <1>1, <3>1, SubSeqProperties
  <2> HIDE DEF y
  <2>4. b \in Seq(Nat) /\ Len(b) = n + 1 /\ (\A i \in 1 .. n : b[i] = y[i]) /\ b[n + 1] = v
    BY <2>3, AppendProperties
  <2>5. \A i \in 1 .. n : m + i \in 1 .. Len(q)
    BY <1>1
  <2>6. m + (n + 1) = Len(q) + 1 /\ n + 1 \in 1 .. n + 1
    BY <1>1
  <2> HIDE DEF a, b, n
  <2>7. ASSUME NEW i \in 1 .. n PROVE a[i] = b[i]
    <3>1. i \in 1 .. n + 1
      BY <2>1
    <3>2. a[i] = p[m + i]
      BY <2>2, <3>1
    <3>3. p[m + i] = q[m + i]
      BY <1>2, <2>5
    <3>4. b[i] = q[m + i]
      BY <2>3, <2>4
    <3> QED
      BY <3>2, <3>3, <3>4
  <2>8. a[n + 1] = b[n + 1]
    BY <1>2, <2>2, <2>4, <2>6
  <2>9. \A i \in 1 .. n + 1 : a[i] = b[i]
    BY <2>1, <2>7, <2>8
  <2>10. a = b
    BY <2>2, <2>4, <2>9, SeqEqual
  <2> QED
    BY <2>10 DEF a, b, y
<1> QED
  BY <1>2, <1>4, <1>5 DEF p

LEMMA CarriedFact ==
    ASSUME NEW f \in Frame
    PROVE  f.chunks \in Seq(Nat) /\ \A s \in Streams : Carried(f, s) \in Seq(Nat)
<1>1. <<>> \in Seq(Nat)
  BY EmptySeq
<1>2. f.chunks \in Seq(Nat)
  <2>1. CASE f = Text
    BY <1>1, <2>1 DEF Text
  <2>2. CASE f \in [of : Streams, chunks : Seq(Nat)]
    BY <2>2
  <2> QED
    BY <2>1, <2>2 DEF Frame
<1> QED
  BY <1>1, <1>2 DEF Carried

\* No frame, no chunk.
LEMMA CarriesNothing ==
    ASSUME NEW ch \in Seq(Frame), NEW s \in Streams,
           \A i \in 1 .. Len(ch) : Carried(ch[i], s) = <<>>
    PROVE  Carries(ch, s, <<>>, 0, <<>>)
<1> DEFINE e == <<>>
<1>1. e \in Seq(Nat) /\ Len(e) = 0 /\ Len(ch) \in Nat
  BY EmptySeq, LenProperties
<1>2. SubSeq(e, 0 + 1, 0) = <<>> /\ \A i \in 1 .. Len(ch) : Carried(ch[i], s) = e
  BY SubSeqEmpty
<1> DEFINE l == Len(ch)  cut == [i \in 1 .. l + 1 |-> 0]
<1>3. cut \in [1 .. l + 1 -> 0 .. Len(e)] /\ 1 \in 1 .. l + 1 /\ l + 1 \in 1 .. l + 1
  BY <1>1
<1>4. \A i \in 1 .. l + 1 : cut[i] = 0
  OBVIOUS
<1>5. \A i \in 1 .. l : cut[i] = 0 /\ cut[i + 1] = 0
  BY <1>1
<1>9. cut[1] = 0 /\ cut[l + 1] = 0
  BY <1>1
<1> HIDE DEF l, cut
<1>6. /\ cut[1] = 0
      /\ \A i \in 1 .. l : /\ cut[i] <= cut[i + 1]
                           /\ SubSeq(e, cut[i] + 1, cut[i + 1]) = Carried(ch[i], s)
      /\ SubSeq(e, cut[l + 1] + 1, Len(e)) = e
  <2>1. SubSeq(e, 0 + 1, Len(e)) = e
    BY <1>1, <1>2
  <2> HIDE DEF e
  <2>2. \A i \in 1 .. l : SubSeq(e, cut[i] + 1, cut[i + 1]) = SubSeq(e, 0 + 1, 0)
    BY <1>5
  <2>3. \A i \in 1 .. l : cut[i] <= cut[i + 1]
    BY <1>5
  <2>4. \A i \in 1 .. l : Carried(ch[i], s) = SubSeq(e, 0 + 1, 0)
    BY <1>1, <1>2, <2>1 DEF l
  <2> QED
    BY <1>9, <2>1, <2>2, <2>3, <2>4
<1>7. Carries(ch, s, e, 0, e)
  BY <1>3, <1>6 DEF Carries, l
<1> QED
  BY <1>7 DEF e

\* A frame that enters the queue carries the first chunks of what followed.
LEMMA CarriesAppend ==
    ASSUME NEW ch \in Seq(Frame), NEW f \in Frame, NEW s \in Streams, NEW q \in Seq(Nat),
           NEW n, NEW rest \in Seq(Nat), Carries(ch, s, q, n, Carried(f, s) \o rest)
    PROVE  Carries(Append(ch, f), s, q, n, rest)
<1> DEFINE l == Len(ch)  x == Carried(f, s)  r == Append(ch, f)
<1>1. PICK cut \in [1 .. l + 1 -> 0 .. Len(q)] :
          /\ cut[1] = n
          /\ \A i \in 1 .. l : /\ cut[i] <= cut[i + 1]
                               /\ SubSeq(q, cut[i] + 1, cut[i + 1]) = Carried(ch[i], s)
          /\ SubSeq(q, cut[l + 1] + 1, Len(q)) = x \o rest
  BY DEF Carries
<1> DEFINE m == cut[l + 1]  e == m + Len(x)
           cut2 == [i \in 1 .. l + 2 |-> IF i = l + 2 THEN e ELSE cut[i]]
<1>2. l \in Nat /\ m \in 0 .. Len(q) /\ x \in Seq(Nat) /\ Len(q) \in Nat
  <2>1. l \in Nat /\ Len(q) \in Nat
    BY LenProperties
  <2>2. x \in Seq(Nat)
    BY CarriedFact
  <2> HIDE DEF l
  <2>3. m \in 0 .. Len(q)
    BY <2>1
  <2> QED
    BY <2>1, <2>2, <2>3
<1>3. /\ e \in 0 .. Len(q)
      /\ SubSeq(q, m + 1, e) = x
      /\ SubSeq(q, e + 1, Len(q)) = rest
  <2>1. SubSeq(q, m + 1, Len(q)) = x \o rest
    BY <1>1
  <2> HIDE DEF m, x
  <2>2. /\ m + Len(x) \in 0 .. Len(q)
        /\ SubSeq(q, m + 1, m + Len(x)) = x
        /\ SubSeq(q, m + Len(x) + 1, Len(q)) = rest
    <3>1. \A y, z \in Seq(Nat), k \in 0 .. Len(q) :
              SubSeq(q, k + 1, Len(q)) = y \o z =>
                  /\ k + Len(y) \in 0 .. Len(q)
                  /\ SubSeq(q, k + 1, k + Len(y)) = y
                  /\ SubSeq(q, k + Len(y) + 1, Len(q)) = z
      BY SplitFact
    <3> QED
      BY <1>2, <2>1, <3>1
  <2> QED
    BY <2>2
<1>4. m <= e
  BY <1>2, LenProperties
<1>5. Len(r) = l + 1 /\ (\A i \in 1 .. l : r[i] = ch[i]) /\ r[l + 1] = f
  BY AppendProperties
<1> HIDE DEF l, x, r, m, e
<1>6. cut2 \in [1 .. l + 2 -> 0 .. Len(q)]
  BY <1>1, <1>2, <1>3
<1>7. (\A i \in 1 .. l + 1 : cut2[i] = cut[i]) /\ cut2[l + 2] = e
  BY <1>2
<1>8. cut2[1] = n /\ cut2[l + 1] = m
  BY <1>1, <1>2, <1>7 DEF m
<1> HIDE DEF cut2
<1>9. ASSUME NEW i \in 1 .. l + 1
      PROVE  cut2[i] <= cut2[i + 1] /\ SubSeq(q, cut2[i] + 1, cut2[i + 1]) = Carried(r[i], s)
  <2>1. CASE i = l + 1
    <3>1. cut2[i] = m /\ cut2[i + 1] = e /\ Carried(r[i], s) = x
      BY <1>2, <1>5, <1>7, <1>8, <2>1 DEF x
    <3> QED
      BY <1>3, <1>4, <3>1
  <2>2. CASE i \in 1 .. l
    <3>1. i \in 1 .. l + 1 /\ i + 1 \in 1 .. l + 1
      BY <1>2, <2>2
    <3>2. cut2[i] = cut[i] /\ cut2[i + 1] = cut[i + 1] /\ r[i] = ch[i]
      BY <1>5, <1>7, <2>2, <3>1
    <3> QED
      BY <1>1, <2>2, <3>2
  <2> QED
    BY <1>2, <2>1, <2>2
<1>10. cut2 \in [1 .. Len(r) + 1 -> 0 .. Len(q)] /\ Len(r) + 1 = l + 2
  BY <1>2, <1>5, <1>6
<1>11. SubSeq(q, cut2[Len(r) + 1] + 1, Len(q)) = rest
  BY <1>3, <1>7, <1>10
<1>12. Carries(r, s, q, n, rest)
  BY <1>5, <1>8, <1>9, <1>10, <1>11 DEF Carries
<1> QED
  BY <1>12 DEF r

\* A chunk that is taken is the last one of what follows.
LEMMA CarriesGrow ==
    ASSUME NEW ch \in Seq(Frame), NEW s \in Streams, NEW q \in Seq(Nat), NEW v \in Nat,
           NEW n, NEW rest \in Seq(Nat), Carries(ch, s, q, n, rest)
    PROVE  Carries(ch, s, Append(q, v), n, Append(rest, v))
<1> DEFINE l == Len(ch)  p == Append(q, v)
<1>1. PICK cut \in [1 .. l + 1 -> 0 .. Len(q)] :
          /\ cut[1] = n
          /\ \A i \in 1 .. l : /\ cut[i] <= cut[i + 1]
                               /\ SubSeq(q, cut[i] + 1, cut[i + 1]) = Carried(ch[i], s)
          /\ SubSeq(q, cut[l + 1] + 1, Len(q)) = rest
  BY DEF Carries
<1>2. Len(p) = Len(q) + 1
  BY GrowFact, AppendProperties
<1>3. \A m, k \in 0 .. Len(q) : SubSeq(p, m + 1, k) = SubSeq(q, m + 1, k)
  BY GrowFact
<1>4. \A m \in 0 .. Len(q) :
          SubSeq(p, m + 1, Len(q) + 1) = Append(SubSeq(q, m + 1, Len(q)), v)
  BY GrowFact
<1>5. l \in Nat /\ Len(q) \in Nat
  BY LenProperties
<1> HIDE DEF l, p
<1>6. cut \in [1 .. l + 1 -> 0 .. Len(p)]
  BY <1>2, <1>5
<1>7. \A i \in 1 .. l : cut[i] \in 0 .. Len(q) /\ cut[i + 1] \in 0 .. Len(q)
  BY <1>5
<1>8. \A i \in 1 .. l : /\ cut[i] <= cut[i + 1]
                        /\ SubSeq(p, cut[i] + 1, cut[i + 1]) = Carried(ch[i], s)
  BY <1>1, <1>3, <1>7
<1>9. cut[l + 1] \in 0 .. Len(q)
  BY <1>5
<1>10. SubSeq(p, cut[l + 1] + 1, Len(p)) = Append(rest, v)
  BY <1>1, <1>2, <1>4, <1>9
<1>11. Carries(ch, s, p, n, Append(rest, v))
  BY <1>1, <1>6, <1>8, <1>10 DEF Carries, l
<1> QED
  BY <1>11 DEF p

\* The frame the write loop takes out moves the beginning past its chunks.
LEMMA CarriesTail ==
    ASSUME NEW ch \in Seq(Frame), ch # <<>>, NEW s \in Streams, NEW q \in Seq(Nat),
           NEW n \in Nat, NEW rest, Carries(ch, s, q, n, rest)
    PROVE  Carries(Tail(ch), s, q, n + Len(Carried(Head(ch), s)), rest)
<1> DEFINE l == Len(ch)  x == Carried(Head(ch), s)  r == Tail(ch)
<1>1. PICK cut \in [1 .. l + 1 -> 0 .. Len(q)] :
          /\ cut[1] = n
          /\ \A i \in 1 .. l : /\ cut[i] <= cut[i + 1]
                               /\ SubSeq(q, cut[i] + 1, cut[i + 1]) = Carried(ch[i], s)
          /\ SubSeq(q, cut[l + 1] + 1, Len(q)) = rest
  BY DEF Carries
<1>2. l \in Nat \ {0} /\ Len(q) \in Nat /\ \A i \in 1 .. Len(q) : q[i] \in Nat
  BY LenProperties, EmptySeq
<1>3. Len(r) = l - 1 /\ (\A i \in 1 .. l - 1 : r[i] = ch[i + 1]) /\ Head(ch) = ch[1]
  BY HeadTailProperties
<1> HIDE DEF l, r
<1>4. cut[1] = n /\ cut[2] \in 0 .. Len(q) /\ n <= cut[2] /\ SubSeq(q, n + 1, cut[2]) = x
  <2>1. 1 \in 1 .. l /\ 2 \in 1 .. l + 1 /\ 1 + 1 = 2
    BY <1>2
  <2>2. cut[1] <= cut[1 + 1] /\ SubSeq(q, cut[1] + 1, cut[1 + 1]) = Carried(ch[1], s)
    BY <1>1, <2>1
  <2> QED
    BY <1>1, <1>3, <2>1, <2>2
<1>5. n + Len(x) = cut[2]
  <2>1. \A i \in n + 1 .. cut[2] : q[i] \in Nat
    BY <1>2, <1>4
  <2>2. n + 1 \in Int /\ cut[2] \in Int
    BY <1>4
  <2> DEFINE y == SubSeq(q, n + 1, cut[2])
  <2>3. Len(y) = IF n + 1 <= cut[2] THEN cut[2] - (n + 1) + 1 ELSE 0
    BY <2>1, <2>2, SubSeqProperties
  <2> HIDE DEF y
  <2>4. cut[2] \in Nat /\ n <= cut[2]
    BY <1>2, <1>4
  <2>5. Len(y) = cut[2] - n
    BY <2>3, <2>4
  <2>6. Len(x) = Len(y)
    BY <1>4 DEF y
  <2> QED
    BY <2>4, <2>5, <2>6
<1> DEFINE cut2 == [i \in 1 .. l |-> cut[i + 1]]
<1>6. cut2 \in [1 .. l -> 0 .. Len(q)] /\ \A i \in 1 .. l : cut2[i] = cut[i + 1]
  BY <1>2
<1> HIDE DEF cut2
<1>7. cut2[1] = cut[2] /\ cut2[l] = cut[l + 1]
  BY <1>2, <1>6
<1>8. ASSUME NEW i \in 1 .. l - 1
      PROVE  cut2[i] <= cut2[i + 1] /\ SubSeq(q, cut2[i] + 1, cut2[i + 1]) = Carried(r[i], s)
  <2>1. i \in 1 .. l /\ i + 1 \in 1 .. l
    BY <1>2
  <2>2. cut2[i] = cut[i + 1] /\ cut2[i + 1] = cut[(i + 1) + 1] /\ r[i] = ch[i + 1]
    BY <1>3, <1>6, <2>1
  <2> QED
    BY <1>1, <2>1, <2>2
<1>9. Len(r) + 1 = l
  BY <1>2, <1>3
<1>10. Carries(r, s, q, cut[2], rest)
  BY <1>1, <1>3, <1>6, <1>7, <1>8, <1>9 DEF Carries
<1> QED
  BY <1>5, <1>10 DEF r, x

-----------------------------------------------------------------------------
(* The way of a chunk from the listener channel to the websocket.          *)

Silent(ch, s) == \A i \in 1 .. Len(ch) : Carried(ch[i], s) = <<>>

Unbegun(s) ==
    /\ took[s] = <<>> /\ sent[s] = 0
    /\ pending[s] = <<>> /\ buffer[s] = <<>> /\ inbox[s] = <<>>
    /\ \A t \in Terms : s \notin listeners[t]
    /\ Silent(chan[s[1]], s)

Rest(s) == pending[s] \o buffer[s] \o inbox[s]

Open(s) == spc[s] \in {"resize", "run", "blocked"} /\ ~closed[s[1]] /\ wpc[s[1]] = "ready"

\* A goroutine that has not joined the listeners has left no trace, ids above
\* currentAttachmentID are free, only a blocked goroutine holds a frame, its
\* frames are in the queue of its own connection, and they are in order.
WayOK(s) ==
    /\ spc[s] \in {"none", "join"} => Unbegun(s)
    /\ s[2] > current[s[1]] => spc[s] = "none"
    /\ pending[s] # <<>> => spc[s] = "blocked"
    /\ \A c \in Conns \ {s[1]} : Silent(chan[c], s)
    /\ Open(s) => Carries(chan[s[1]], s, took[s], sent[s], Rest(s))

WayInv == sent \in [Streams -> Nat] /\ \A s \in Streams : WayOK(s)

\* A step that does nothing with the content of r: a queue may get a frame that
\* carries nothing of it.
Still(r) ==
    /\ \A d \in Conns :
           \/ chan'[d] = chan[d]
           \/ \E f \in Frame : Carried(f, r) = <<>> /\ chan'[d] = Append(chan[d], f)
    /\ UNCHANGED <<took[r], sent[r], pending[r], buffer[r], inbox[r]>>
    /\ \A t \in Terms : r \in listeners'[t] => r \in listeners[t]
    /\ spc'[r] = spc[r] \/ (spc[r] = "resize" /\ spc'[r] = "run")
    /\ closed[r[1]] => closed'[r[1]]
    /\ wpc'[r[1]] = "ready" => wpc[r[1]] = "ready"

LEMMA SilentAppend ==
    ASSUME NEW ch \in Seq(Frame), NEW f \in Frame, NEW s, Silent(ch, s), Carried(f, s) = <<>>
    PROVE  Silent(Append(ch, f), s)
<1> DEFINE r == Append(ch, f)
<1>1. Len(r) = Len(ch) + 1 /\ (\A i \in 1 .. Len(ch) : r[i] = ch[i]) /\ r[Len(ch) + 1] = f
      /\ Len(ch) \in Nat
  BY AppendProperties, LenProperties
<1> HIDE DEF r
<1>2. ASSUME NEW i \in 1 .. Len(r) PROVE Carried(r[i], s) = <<>>
  <2>1. CASE i \in 1 .. Len(ch)
    BY <1>1, <2>1 DEF Silent
  <2>2. CASE i = Len(ch) + 1
    BY <1>1, <2>2
  <2> QED
    BY <1>1, <2>1, <2>2
<1> QED
  BY <1>2 DEF Silent, r

LEMMA SilentTail ==
    ASSUME NEW ch \in Seq(Frame), ch # <<>>, NEW s, Silent(ch, s)
    PROVE  Silent(Tail(ch), s) /\ Carried(Head(ch), s) = <<>>
<1> DEFINE r == Tail(ch)
<1>1. Len(r) = Len(ch) - 1 /\ (\A i \in 1 .. Len(r) : r[i] = ch[i + 1])
  BY HeadTailProperties
<1>2. Head(ch) = ch[1] /\ Len(ch) \in Nat \ {0}
  BY EmptySeq
<1> HIDE DEF r
<1>3. 1 \in 1 .. Len(ch) /\ \A i \in 1 .. Len(r) : i + 1 \in 1 .. Len(ch)
  BY <1>1, <1>2
<1>4. Silent(r, s) /\ Carried(ch[1], s) = <<>>
  BY <1>1, <1>3 DEF Silent
<1> QED
  BY <1>2, <1>4 DEF r

\* A frame that carries nothing of s does not break its order.
LEMMA CarriesQuietly ==
    ASSUME NEW ch \in Seq(Frame), NEW f \in Frame, NEW s \in Streams, NEW q \in Seq(Nat),
           NEW n, NEW rest \in Seq(Nat), Carries(ch, s, q, n, rest), Carried(f, s) = <<>>
    PROVE  Carries(Append(ch, f), s, q, n, rest)
<1>1. Carried(f, s) \o rest = rest
  BY ConcatEmptySeq
<1>2. Carries(ch, s, q, n, Carried(f, s) \o rest)
  BY <1>1
<1> QED
  BY <1>2, CarriesAppend

LEMMA RestFact ==
    ASSUME TypeInv, NEW s \in Streams
    PROVE  /\ pending[s] \in Seq(Nat) /\ buffer[s] \in Seq(Nat) /\ inbox[s] \in Seq(Nat)
           /\ took[s] \in Seq(Nat) /\ Rest(s) \in Seq(Nat)
           /\ chan[s[1]] \in Seq(Frame)
<1>1. /\ pending[s] \in Seq(Nat) /\ buffer[s] \in Seq(Nat) /\ inbox[s] \in Seq(Nat)
      /\ took[s] \in Seq(Nat)
  BY StreamFact DEF TypeInv, ContentOK, HubOK, FeedsOK
<1>2. chan[s[1]] \in Seq(Frame)
  BY StreamFact DEF TypeInv, QueueOK
<1>3. Rest(s) \in Seq(Nat)
  <2>1. pending[s] \o buffer[s] \in Seq(Nat)
    BY <1>1, ConcatProperties
  <2> QED
    BY <1>1, <2>1, ConcatProperties DEF Rest
<1> QED
  BY <1>1, <1>2, <1>3

LEMMA WayInit == Init => WayInv
<1> SUFFICES ASSUME Init PROVE WayInv
  OBVIOUS
<1>1. sent \in [Streams -> Nat]
  BY DEF Init
<1>2. ASSUME NEW s \in Streams PROVE WayOK(s)
  <2>1. s[1] \in Conns /\ s[2] \in Nat /\ s \in Listeners
    BY StreamFact
  <2>2. spc[s] = "none" /\ took[s] = <<>> /\ sent[s] = 0 /\ pending[s] = <<>> /\ buffer[s] = <<>>
    BY DEF Init
  <2>3. inbox[s] = <<>> /\ \A t \in Terms : listeners[t] = {}
    BY <2>1 DEF Init, HubInit
  <2>4. \A c \in Conns : Silent(chan[c], s)
    BY DEF Init, Silent
  <2> QED
    BY <2>1, <2>2, <2>3, <2>4 DEF WayOK, Unbegun, Open
<1> QED
  BY <1>1, <1>2 DEF WayInv

LEMMA WayStill ==
    ASSUME TypeInv, NEW r \in Streams, WayOK(r), Still(r), current'[r[1]] = current[r[1]]
    PROVE  WayOK(r)'
<1>1. r[1] \in Conns /\ \A c \in Conns : chan[c] \in Seq(Frame)
  BY StreamFact DEF TypeInv, QueueOK
<1>2. ASSUME NEW c \in Conns, Silent(chan[c], r) PROVE Silent(chan'[c], r)
  BY <1>1, <1>2, SilentAppend DEF Still
<1>3. spc'[r] \in {"none", "join"} => Unbegun(r)'
  BY <1>1, <1>2 DEF WayOK, Unbegun, Still
<1>4. r[2] > current'[r[1]] => spc'[r] = "none"
  BY DEF WayOK, Still
<1>5. pending'[r] # <<>> => spc'[r] = "blocked"
  BY DEF WayOK, Still
<1>6. \A c \in Conns \ {r[1]} : Silent(chan'[c], r)
  BY <1>2 DEF WayOK
<1>7. ASSUME Open(r)' PROVE Carries(chan[r[1]], r, took[r], sent[r], Rest(r))
  <2>1. Open(r)
    BY <1>7 DEF Open, Still
  <2> QED
    BY <2>1 DEF WayOK
<1>8. took'[r] = took[r] /\ sent'[r] = sent[r] /\ Rest(r)' = Rest(r)
  BY DEF Still, Rest
<1>9. Open(r)' => Carries(chan'[r[1]], r, took'[r], sent'[r], Rest(r)')
  <2> SUFFICES ASSUME Open(r)' PROVE Carries(chan'[r[1]], r, took[r], sent[r], Rest(r))
    BY <1>8
  <2>1. Carries(chan[r[1]], r, took[r], sent[r], Rest(r))
    BY <1>7
  <2>2. CASE chan'[r[1]] = chan[r[1]]
    BY <2>1, <2>2
  <2>3. ASSUME NEW f \in Frame, Carried(f, r) = <<>>, chan'[r[1]] = Append(chan[r[1]], f)
        PROVE  Carries(chan'[r[1]], r, took[r], sent[r], Rest(r))
    BY <2>1, <2>3, RestFact, CarriesQuietly
  <2> QED
    BY <1>1, <2>2, <2>3 DEF Still
<1> QED
  BY <1>3, <1>4, <1>5, <1>6, <1>9 DEF WayOK

\* A step that leaves every stream alone.
LEMMA WayQuiet ==
    ASSUME TypeInv, WayInv, UNCHANGED <<sent, current>>, \A r \in Streams : Still(r)
    PROVE  WayInv'
<1>1. \A r \in Streams : WayOK(r)'
  BY WayStill DEF WayInv
<1> QED
  BY <1>1 DEF WayInv

\* A step of the goroutine s that leaves the others alone.
LEMMA WayOne ==
    ASSUME TypeInv, WayInv, UNCHANGED <<sent, current>>, NEW s \in Streams, WayOK(s)',
           \A r \in Streams \ {s} : Still(r)
    PROVE  WayInv'
<1>1. \A r \in Streams \ {s} : WayOK(r)'
  BY WayStill DEF WayInv
<1> QED
  BY <1>1 DEF WayInv

\* A text carries nothing.
LEMMA TextStill ==
    ASSUME TypeInv, NEW c \in Conns, QueueText(c), NEW r, NEW d \in Conns
    PROVE  \/ chan'[d] = chan[d]
           \/ \E f \in Frame : Carried(f, r) = <<>> /\ chan'[d] = Append(chan[d], f)
<1>1. chan \in [Conns -> Seq(Frame)]
  BY DEF TypeInv, QueueOK
<1>2. Text \in Frame /\ Carried(Text, r) = <<>>
  BY TextFact DEF Carried, Text
<1>3. chan'[d] = chan[d] \/ chan'[d] = Append(chan[d], Text)
  BY <1>1 DEF QueueText
<1> QED
  BY <1>2, <1>3

\* The frame of s carries what s queued, and nothing of another goroutine.
LEMMA EnqueuePlaces ==
    ASSUME TypeInv, NEW s \in Streams, NEW chunks \in Seq(Nat), Enqueue(s, chunks)
    PROVE  LET f == [of |-> s, chunks |-> chunks]
           IN  /\ f \in Frame /\ Carried(f, s) = chunks
               /\ \A r \in Streams \ {s} : Carried(f, r) = <<>>
               /\ chan'[s[1]] = Append(chan[s[1]], f)
               /\ \A d \in Conns \ {s[1]} : chan'[d] = chan[d]
<1> DEFINE f == [of |-> s, chunks |-> chunks]
<1>1. f \in Frame /\ f.of = s /\ f.chunks = chunks
  BY DEF Frame
<1>2. chan \in [Conns -> Seq(Frame)] /\ s[1] \in Conns
  BY StreamFact DEF TypeInv, QueueOK
<1>3. chan' = [chan EXCEPT ![s[1]] = Append(@, f)]
  BY DEF Enqueue
<1> HIDE DEF f
<1>4. chan'[s[1]] = Append(chan[s[1]], f) /\ \A d \in Conns \ {s[1]} : chan'[d] = chan[d]
  BY <1>2, <1>3
<1>5. Carried(f, s) = chunks /\ \A r \in Streams \ {s} : Carried(f, r) = <<>>
  BY <1>1 DEF Carried
<1> QED
  BY <1>1, <1>4, <1>5 DEF f

LEMMA EnqueueStill ==
    ASSUME TypeInv, NEW s \in Streams, NEW chunks \in Seq(Nat), Enqueue(s, chunks),
           NEW r \in Streams \ {s}, NEW d \in Conns
    PROVE  \/ chan'[d] = chan[d]
           \/ \E f \in Frame : Carried(f, r) = <<>> /\ chan'[d] = Append(chan[d], f)
<1> DEFINE f == [of |-> s, chunks |-> chunks]
<1>1. /\ f \in Frame /\ Carried(f, r) = <<>>
      /\ chan'[s[1]] = Append(chan[s[1]], f)
      /\ \A e \in Conns \ {s[1]} : chan'[e] = chan[e]
  BY EnqueuePlaces
<1> HIDE DEF f
<1> QED
  BY <1>1

LEMMA WayJoin == ASSUME TypeInv, WayInv, NEW s \in Streams, Join(s) PROVE WayInv'
<1>1. /\ spc[s] = "join" /\ spc' = [spc EXCEPT ![s] = "resize"] /\ QueueText(s[1])
      /\ listeners' = [listeners EXCEPT ![target[s]] = @ \cup {s}]
      /\ UNCHANGED <<took, sent, pending, buffer, inbox, current, closed, wpc>>
  BY DEF Join, AddListener, handler, content, history
<1>2. s[1] \in Conns /\ WayOK(s) /\ Unbegun(s)
  BY <1>1, StreamFact DEF WayInv, WayOK
<1>3. \A r \in Streams, d \in Conns :
          \/ chan'[d] = chan[d]
          \/ \E f \in Frame : Carried(f, r) = <<>> /\ chan'[d] = Append(chan[d], f)
  BY <1>1, <1>2, TextStill
<1>4. ASSUME NEW r \in Streams \ {s} PROVE Still(r)
  <2>1. \A t \in Terms : r \in listeners'[t] => r \in listeners[t]
    BY <1>1 DEF TypeInv, HubOK, FeedsOK
  <2>2. spc'[r] = spc[r]
    BY <1>1 DEF TypeInv, StreamOK
  <2> QED
    BY <1>1, <1>3, <2>1, <2>2 DEF Still
<1>5. ASSUME NEW d \in Conns, Silent(chan[d], s)
      PROVE  Silent(chan'[d], s) /\ chan'[d] \in Seq(Frame)
  <2>1. chan[d] \in Seq(Frame)
    BY DEF TypeInv, QueueOK
  <2>2. CASE chan'[d] = chan[d]
    BY <1>5, <2>1, <2>2
  <2>3. ASSUME NEW f \in Frame, Carried(f, s) = <<>>, chan'[d] = Append(chan[d], f)
        PROVE  Silent(chan'[d], s) /\ chan'[d] \in Seq(Frame)
    BY <1>5, <2>1, <2>3, SilentAppend, AppendProperties
  <2> QED
    BY <1>3, <2>2, <2>3
<1>6. spc'[s] = "resize"
  BY <1>1 DEF TypeInv, StreamOK
<1>7. \A d \in Conns : Silent(chan'[d], s) /\ chan'[d] \in Seq(Frame)
  BY <1>2, <1>5 DEF WayOK, Unbegun
<1>8. Carries(chan'[s[1]], s, took'[s], sent'[s], Rest(s)')
  <2>1. took'[s] = <<>> /\ sent'[s] = 0
    BY <1>1, <1>2 DEF Unbegun
  <2>2. pending'[s] = <<>> /\ buffer'[s] = <<>> /\ inbox'[s] = <<>>
    BY <1>1, <1>2 DEF Unbegun
  <2>3. Rest(s)' = <<>>
    BY <2>2, EmptySeq, ConcatEmptySeq DEF Rest
  <2>4. Carries(chan'[s[1]], s, <<>>, 0, <<>>)
    BY <1>2, <1>7, CarriesNothing DEF Silent
  <2> QED
    BY <2>1, <2>3, <2>4
<1>9. ~(s[2] > current'[s[1]]) /\ pending'[s] = <<>>
  BY <1>1, <1>2 DEF WayOK, Unbegun
<1>10. WayOK(s)'
  BY <1>6, <1>7, <1>8, <1>9 DEF WayOK
<1> QED
  BY <1>1, <1>4, <1>10, WayOne

\* What is taken out of the listener channel is in the buffer.
LEMMA WayTake == ASSUME TypeInv, WayInv, NEW s \in Streams, Take(s) PROVE WayInv'
<1>1. /\ spc[s] = "run" /\ inbox[s] # <<>>
      /\ inbox' = [inbox EXCEPT ![s] = Tail(@)]
      /\ buffer' = [buffer EXCEPT ![s] = Append(@, Head(inbox[s]))]
      /\ UNCHANGED <<chan, took, sent, pending, listeners, current, spc, closed, wpc>>
  BY DEF Take, handler, queue, stream, history
<1>2. s \in Listeners /\ Listeners = Streams /\ WayOK(s)
  BY StreamFact DEF WayInv
<1>3. ASSUME NEW r \in Streams \ {s} PROVE Still(r)
  <2>1. inbox'[r] = inbox[r] /\ buffer'[r] = buffer[r]
    BY <1>1, <1>2 DEF TypeInv, HubOK, FeedsOK, ContentOK
  <2> QED
    BY <1>1, <2>1 DEF Still
<1>4. Rest(s)' = Rest(s)
  <2> DEFINE p == pending[s]  b == buffer[s]  i == inbox[s]  v == Head(i)
  <2>1. p \in Seq(Nat) /\ b \in Seq(Nat) /\ i \in Seq(Nat) /\ i # <<>>
    BY <1>1, RestFact
  <2>2. pending'[s] = p /\ buffer'[s] = Append(b, v) /\ inbox'[s] = Tail(i)
    BY <1>1, <1>2 DEF TypeInv, HubOK, FeedsOK, ContentOK
  <2> HIDE DEF p, b, i
  <2>3. v \in Nat /\ Tail(i) \in Seq(Nat) /\ i = <<v>> \o Tail(i)
    <3>1. v \in Nat /\ Tail(i) \in Seq(Nat)
      BY <2>1, HeadTailProperties
    <3> DEFINE j == <<v>> \o Tail(i)
    <3>2. <<v>> \in Seq(Nat) /\ Len(<<v>>) = 1 /\ <<v>>[1] = i[1]
      BY <3>1
    <3>3. /\ Len(Tail(i)) = Len(i) - 1 /\ Len(i) \in Nat \ {0}
          /\ \A k \in 1 .. Len(i) - 1 : Tail(i)[k] = i[k + 1]
      BY <2>1, EmptySeq, HeadTailProperties
    <3>4. /\ j \in Seq(Nat) /\ Len(j) = Len(i)
          /\ \A k \in 1 .. Len(i) : j[k] = IF k <= 1 THEN <<v>>[k] ELSE Tail(i)[k - 1]
      BY <3>1, <3>2, <3>3, ConcatProperties
    <3> HIDE DEF j
    <3>5. ASSUME NEW k \in 1 .. Len(i) PROVE j[k] = i[k]
      <4>1. CASE k = 1
        BY <3>2, <3>4, <4>1
      <4>2. CASE k # 1
        <5>1. k - 1 \in 1 .. Len(i) - 1 /\ (k - 1) + 1 = k
          BY <3>3, <4>2
        <5> QED
          BY <3>3, <3>4, <4>2, <5>1
      <4> QED
        BY <4>1, <4>2
    <3>6. j = i
      BY <2>1, <3>4, <3>5, SeqEqual
    <3> QED
      BY <3>1, <3>6 DEF j
  <2> HIDE DEF v
  <2>4. Append(b, v) = b \o <<v>> /\ <<v>> \in Seq(Nat) /\ Append(b, v) \in Seq(Nat)
    BY <2>1, <2>3, AppendIsConcat, AppendProperties
  <2>5. p \o b \in Seq(Nat)
    BY <2>1, ConcatProperties
  <2>6. (p \o Append(b, v)) \o Tail(i) = (p \o b) \o i
    <3>1. p \o (b \o <<v>>) = (p \o b) \o <<v>>
      BY <2>1, <2>4, ConcatAssociative
    <3>2. ((p \o b) \o <<v>>) \o Tail(i) = (p \o b) \o (<<v>> \o Tail(i))
      BY <2>3, <2>4, <2>5, JoinFact
    <3> QED
      BY <2>3, <2>4, <3>1, <3>2
  <2> QED
    BY <2>2, <2>6 DEF Rest, p, b, i
<1>5. WayOK(s)'
  BY <1>1, <1>4 , <1>2 DEF WayOK, Open
<1> QED
  BY <1>1, <1>3, <1>5, WayOne

\* A goroutine that ends promises nothing more.
LEMMA WayEnds ==
    ASSUME TypeInv, WayInv, NEW s \in Streams, Give(s) \/ End(s) PROVE WayInv'
<1>1. /\ spc[s] = "run" /\ spc' = [spc EXCEPT ![s] = "done"]
      /\ UNCHANGED <<took, sent, pending, buffer, current, closed, wpc>>
  <2>1. CASE Give(s)
    BY <2>1 DEF Give, handler, queue, content, history
  <2>2. CASE End(s)
    BY <2>2 DEF End, handler, content, history
  <2> QED
    BY <2>1, <2>2
<1>2. s \in Listeners /\ Listeners = Streams /\ WayOK(s) /\ s[1] \in Conns
  BY StreamFact DEF WayInv
<1>3. \A r \in Streams \ {s} : inbox'[r] = inbox[r]
  BY <1>2 DEF Give, End, hubVars, feeds, TypeInv, HubOK, FeedsOK
<1>4. ASSUME NEW t \in Terms, NEW r \in Streams, r \in listeners'[t] PROVE r \in listeners[t]
  BY <1>4 DEF Give, End, RemoveListener, hubVars, feeds, TypeInv, HubOK, FeedsOK
<1>5. \A r \in Streams, d \in Conns :
          \/ chan'[d] = chan[d]
          \/ \E f \in Frame : Carried(f, r) = <<>> /\ chan'[d] = Append(chan[d], f)
  <2>1. CASE chan' = chan
    BY <2>1
  <2>2. CASE QueueText(s[1])
    BY <1>2, <2>2, TextStill
  <2> QED
    BY <2>1, <2>2 DEF Give, End, queue
<1>6. ASSUME NEW r \in Streams \ {s} PROVE Still(r)
  <2>1. spc'[r] = spc[r]
    BY <1>1 DEF TypeInv, StreamOK
  <2> QED
    BY <1>1, <1>3, <1>4, <1>5, <2>1 DEF Still
<1>7. ASSUME NEW c \in Conns \ {s[1]} PROVE Silent(chan'[c], s)
  <2>1. chan[c] \in Seq(Frame) /\ Silent(chan[c], s)
    BY <1>2 DEF WayOK, TypeInv, QueueOK
  <2> QED
    BY <1>5, <2>1, SilentAppend
<1>8. spc'[s] = "done"
  BY <1>1 DEF TypeInv, StreamOK
<1>9. ~(s[2] > current'[s[1]]) /\ pending'[s] = <<>>
  BY <1>1, <1>2 DEF WayOK
<1>10. WayOK(s)'
  BY <1>7, <1>8, <1>9 DEF WayOK, Open
<1> QED
  BY <1>1, <1>6, <1>10, WayOne

\* Its frame is in the queue: what it carries is gone from what follows.
LEMMA WayEnqueue ==
    ASSUME TypeInv, NEW s \in Streams, NEW chunks \in Seq(Nat), Enqueue(s, chunks),
           Open(s) => Carries(chan[s[1]], s, took[s], sent[s], chunks \o inbox[s]),
           Open(s)' => Open(s), pending'[s] = <<>>, buffer'[s] = <<>>,
           UNCHANGED <<inbox, took, sent>>
    PROVE  /\ Open(s)' => Carries(chan'[s[1]], s, took'[s], sent'[s], Rest(s)')
           /\ \A c \in Conns \ {s[1]} : chan'[c] = chan[c]
<1> DEFINE f == [of |-> s, chunks |-> chunks]
<1>1. /\ f \in Frame /\ Carried(f, s) = chunks
      /\ chan'[s[1]] = Append(chan[s[1]], f)
      /\ \A c \in Conns \ {s[1]} : chan'[c] = chan[c]
  BY EnqueuePlaces
<1> HIDE DEF f
<1>2. /\ inbox[s] \in Seq(Nat) /\ took[s] \in Seq(Nat) /\ chan[s[1]] \in Seq(Frame)
  BY RestFact
<1>3. Rest(s)' = inbox[s]
  <2>1. <<>> \o <<>> = <<>> /\ <<>> \o inbox[s] = inbox[s]
    BY <1>2, EmptySeq, ConcatEmptySeq
  <2> QED
    BY <2>1 DEF Rest
<1>4. ASSUME Open(s)' PROVE Carries(chan'[s[1]], s, took'[s], sent'[s], Rest(s)')
  <2>1. Carries(chan[s[1]], s, took[s], sent[s], Carried(f, s) \o inbox[s])
    BY <1>1, <1>4
  <2>2. Carries(Append(chan[s[1]], f), s, took[s], sent[s], inbox[s])
    BY <1>1, <1>2, <2>1, CarriesAppend
  <2> QED
    BY <1>1, <1>3, <2>2
<1> QED
  BY <1>1, <1>4

LEMMA WayFlush == ASSUME TypeInv, WayInv, NEW s \in Streams, Flush(s) PROVE WayInv'
<1>1. /\ spc[s] = "run" /\ buffer' = [buffer EXCEPT ![s] = <<>>]
      /\ UNCHANGED <<took, sent, inbox, listeners, current, closed, wpc>>
  BY DEF Flush, QueueBinary, hubVars, feeds, handler
<1>2. WayOK(s) /\ s[1] \in Conns
  BY StreamFact DEF WayInv
<1>3. pending[s] = <<>> /\ buffer'[s] = <<>> /\ \A r \in Streams \ {s} : buffer'[r] = buffer[r]
  BY <1>1, <1>2 DEF WayOK, TypeInv, ContentOK
<1>4. buffer[s] \in Seq(Nat) /\ inbox[s] \in Seq(Nat) /\ took[s] \in Seq(Nat)
  BY RestFact
<1>5. Rest(s) = buffer[s] \o inbox[s]
  <2>1. <<>> \o buffer[s] = buffer[s]
    BY <1>4, ConcatEmptySeq
  <2> QED
    BY <1>3, <2>1 DEF Rest
<1>6. ~(s[2] > current'[s[1]])
  BY <1>1, <1>2 DEF WayOK
<1>7. CASE closed[s[1]] /\ UNCHANGED <<spc, pending, chan>>
  <2>1. \A r \in Streams \ {s} : Still(r)
    BY <1>1, <1>3, <1>7 DEF Still
  <2>2. ~Open(s)'
    BY <1>1, <1>7 DEF Open
  <2>3. WayOK(s)'
    BY <1>1, <1>2, <1>3, <1>6, <1>7, <2>2 DEF WayOK
  <2> QED
    BY <1>1, <2>1, <2>3, WayOne
<1>8. CASE Enqueue(s, buffer[s]) /\ UNCHANGED <<spc, pending>>
  <2>1. \A r \in Streams \ {s} : Still(r)
    <3> SUFFICES ASSUME NEW r \in Streams \ {s} PROVE Still(r)
      OBVIOUS
    <3>1. \A d \in Conns :
              \/ chan'[d] = chan[d]
              \/ \E f \in Frame : Carried(f, r) = <<>> /\ chan'[d] = Append(chan[d], f)
      BY <1>4, <1>8, EnqueueStill
    <3> QED
      BY <1>1, <1>3, <1>8, <3>1 DEF Still
  <2>2. Open(s)' => Open(s)
    BY <1>1, <1>8 DEF Open
  <2>3. Open(s) => Carries(chan[s[1]], s, took[s], sent[s], buffer[s] \o inbox[s])
    BY <1>2, <1>5 DEF WayOK
  <2>4. /\ Open(s)' => Carries(chan'[s[1]], s, took'[s], sent'[s], Rest(s)')
        /\ \A c \in Conns \ {s[1]} : chan'[c] = chan[c]
    BY <1>1, <1>3, <1>4, <1>8, <2>2, <2>3, WayEnqueue
  <2>5. WayOK(s)'
    BY <1>1, <1>2, <1>3, <1>6, <1>8, <2>4 DEF WayOK
  <2> QED
    BY <1>1, <2>1, <2>5, WayOne
<1>9. CASE /\ ~closed[s[1]] /\ pending' = [pending EXCEPT ![s] = buffer[s]]
           /\ spc' = [spc EXCEPT ![s] = "blocked"] /\ UNCHANGED chan
  <2>1. /\ pending'[s] = buffer[s] /\ spc'[s] = "blocked"
        /\ \A r \in Streams \ {s} : pending'[r] = pending[r] /\ spc'[r] = spc[r]
    BY <1>9 DEF TypeInv, ContentOK, StreamOK
  <2>2. \A r \in Streams \ {s} : Still(r)
    BY <1>1, <1>3, <1>9, <2>1 DEF Still
  <2>3. Rest(s)' = Rest(s)
    <3>1. buffer[s] \o <<>> = buffer[s]
      BY <1>4, ConcatEmptySeq
    <3>2. pending'[s] \o buffer'[s] = buffer[s] /\ inbox'[s] = inbox[s]
      BY <1>1, <1>3, <2>1, <3>1
    <3> QED
      BY <1>5, <3>2 DEF Rest
  <2>4. Open(s)' => Open(s)
    BY <1>1 DEF Open
  <2>5. WayOK(s)'
    BY <1>1, <1>2, <1>6, <1>9, <2>1, <2>3, <2>4 DEF WayOK
  <2> QED
    BY <1>1, <2>2, <2>5, WayOne
<1> QED
  BY <1>7, <1>8, <1>9 DEF Flush, QueueBinary

LEMMA WaySendPending ==
    ASSUME TypeInv, LateInv, WayInv, NEW s \in Streams, SendPending(s) PROVE WayInv'
<1>1. /\ spc[s] = "blocked" /\ spc' = [spc EXCEPT ![s] = "run"]
      /\ pending' = [pending EXCEPT ![s] = <<>>] /\ Enqueue(s, pending[s])
      /\ UNCHANGED <<took, sent, inbox, buffer, listeners, current, closed, wpc>>
  BY DEF SendPending, hubVars, feeds, handler
<1>2. WayOK(s) /\ s[1] \in Conns
  BY StreamFact DEF WayInv
<1>3. /\ pending'[s] = <<>> /\ spc'[s] = "run"
      /\ \A r \in Streams \ {s} : pending'[r] = pending[r] /\ spc'[r] = spc[r]
  BY <1>1 DEF TypeInv, ContentOK, StreamOK
<1>4. buffer[s] = <<>> /\ buffer'[s] = <<>>
  BY <1>1 DEF LateInv
<1>5. pending[s] \in Seq(Nat) /\ inbox[s] \in Seq(Nat) /\ took[s] \in Seq(Nat)
  BY RestFact
<1>6. Rest(s) = pending[s] \o inbox[s]
  <2>1. pending[s] \o <<>> = pending[s]
    BY <1>5, ConcatEmptySeq
  <2> QED
    BY <1>4, <2>1 DEF Rest
<1>7. \A r \in Streams \ {s} : Still(r)
  <2> SUFFICES ASSUME NEW r \in Streams \ {s} PROVE Still(r)
    OBVIOUS
  <2>1. \A d \in Conns :
            \/ chan'[d] = chan[d]
            \/ \E f \in Frame : Carried(f, r) = <<>> /\ chan'[d] = Append(chan[d], f)
    BY <1>1, <1>5, EnqueueStill
  <2> QED
    BY <1>1, <1>3, <2>1 DEF Still
<1>8. Open(s)' => Open(s)
  BY <1>1 DEF Open
<1>9. Open(s) => Carries(chan[s[1]], s, took[s], sent[s], pending[s] \o inbox[s])
  BY <1>2, <1>6 DEF WayOK
<1>10. /\ Open(s)' => Carries(chan'[s[1]], s, took'[s], sent'[s], Rest(s)')
       /\ \A c \in Conns \ {s[1]} : chan'[c] = chan[c]
  BY <1>1, <1>3, <1>4, <1>5, <1>8, <1>9, WayEnqueue
<1>11. WayOK(s)'
  BY <1>1, <1>2, <1>3, <1>10 DEF WayOK
<1> QED
  BY <1>1, <1>7, <1>11, WayOne

\* The frame at the head was the oldest of its stream; after a write that fails
\* nothing more is promised.
LEMMA WayWrite == ASSUME TypeInv, WayInv, NEW c \in Conns, Write(c) PROVE WayInv'
<1> DEFINE h == Head(chan[c])
<1>1. /\ chan[c] # <<>> /\ chan' = [chan EXCEPT ![c] = Tail(@)]
      /\ UNCHANGED <<spc, took, pending, buffer, inbox, listeners, current, closed>>
  BY DEF Write, hubVars, feeds, handler, stream, content
<1>2. chan[c] \in Seq(Frame) /\ h \in Frame
  BY <1>1, HeadTailProperties DEF TypeInv, QueueOK
<1>3. chan'[c] = Tail(chan[c]) /\ \A d \in Conns \ {c} : chan'[d] = chan[d]
  BY <1>1 DEF TypeInv, QueueOK
<1>4. \/ /\ \A r \in Streams : sent'[r] = IF r = h.of THEN sent[r] + Len(h.chunks) ELSE sent[r]
         /\ sent' \in [Streams -> Nat] /\ wpc' = wpc
      \/ sent' = sent /\ wpc' = [wpc EXCEPT ![c] = "done"]
  <2>1. Len(h.chunks) \in Nat
    <3>1. h.chunks \in Seq(Nat)
      BY <1>2, CarriedFact
    <3> QED
      BY <3>1, LenProperties
  <2>2. sent \in [Streams -> Nat]
    BY DEF WayInv
  <2> QED
    BY <2>1, <2>2 DEF Write
<1> HIDE DEF h
<1>5. ASSUME NEW r \in Streams
      PROVE  \/ sent'[r] = sent[r] + Len(Carried(h, r)) /\ wpc' = wpc
             \/ sent'[r] = sent[r] /\ wpc'[c] = "done"
  <2>1. sent[r] \in Nat /\ Len(<<>>) = 0
    BY EmptySeq DEF WayInv
  <2>2. wpc' = [wpc EXCEPT ![c] = "done"] => wpc'[c] = "done"
    BY DEF TypeInv, QueueOK
  <2> QED
    BY <1>4, <2>1, <2>2 DEF Carried
<1>6. \A d \in Conns : wpc'[d] = "ready" => wpc[d] = "ready"
  BY <1>4 DEF TypeInv, QueueOK
<1>7. \A r \in Streams : Silent(chan[c], r) => Silent(chan'[c], r) /\ Carried(h, r) = <<>>
  BY <1>1, <1>2, <1>3, SilentTail DEF h
<1>8. ASSUME NEW r \in Streams PROVE WayOK(r)'
  <2>1. WayOK(r) /\ r[1] \in Conns /\ sent[r] \in Nat
    BY StreamFact DEF WayInv
  <2>2. Silent(chan[c], r) => sent'[r] = sent[r]
    <3>1. Carried(h, r) = <<>> => sent[r] + Len(Carried(h, r)) = sent[r]
      BY <2>1, EmptySeq
    <3> QED
      BY <1>5, <1>7, <3>1
  <2>3. \A d \in Conns : Silent(chan[d], r) => Silent(chan'[d], r)
    BY <1>3, <1>7
  <2>4. spc'[r] \in {"none", "join"} => Unbegun(r)'
    <3>1. ASSUME Unbegun(r) PROVE sent'[r] = 0
      <4>1. CASE r[1] = c
        BY <2>2, <3>1, <4>1 DEF Unbegun
      <4>2. CASE r[1] # c
        BY <2>1, <2>2, <3>1, <4>2 DEF Unbegun, WayOK
      <4> QED
        BY <4>1, <4>2
    <3> QED
      BY <1>1, <2>1, <2>3, <3>1 DEF WayOK, Unbegun
  <2>5. Rest(r)' = Rest(r)
    BY <1>1 DEF Rest
  <2>6. ASSUME Open(r)' PROVE Carries(chan'[r[1]], r, took'[r], sent'[r], Rest(r)')
    <3>1. Open(r)
      BY <1>1, <1>6, <2>1, <2>6 DEF Open
    <3>2. Carries(chan[r[1]], r, took[r], sent[r], Rest(r))
      BY <2>1, <3>1 DEF WayOK
    <3>3. CASE r[1] = c
      <4>1. sent'[r] = sent[r] + Len(Carried(h, r))
        BY <1>5, <2>6, <3>3 DEF Open
      <4>2. took[r] \in Seq(Nat)
        BY RestFact
      <4>3. Carries(Tail(chan[c]), r, took[r], sent[r] + Len(Carried(h, r)), Rest(r))
        BY <1>1, <1>2, <2>1, <3>2, <3>3, <4>2, CarriesTail DEF h
      <4> QED
        BY <1>1, <1>3, <2>5, <3>3, <4>1, <4>3
    <3>4. CASE r[1] # c
      <4>1. sent'[r] = sent[r] /\ chan'[r[1]] = chan[r[1]]
        BY <1>3, <2>1, <2>2, <3>4 DEF WayOK
      <4> QED
        BY <1>1, <2>5, <3>2, <4>1
    <3> QED
      BY <3>3, <3>4
  <2> QED
    BY <1>1, <2>1, <2>3, <2>4, <2>6 DEF WayOK
<1> QED
  BY <1>4, <1>8 DEF WayInv

\* What a goroutine is given comes last in what follows.
LEMMA WayPrints == ASSUME TypeInv, WayInv, NEW t \in Terms, Prints(t) PROVE WayInv'
<1> DEFINE v == out'[t]
<1>1. /\ took' = [s \in Streams |-> IF s \in listeners[t] /\ HasRoom(s)
                                    THEN Append(took[s], v) ELSE took[s]]
      /\ inbox' = [l \in Listeners |-> IF l \in listeners[t] /\ HasRoom(l)
                                       THEN Append(inbox[l], v) ELSE inbox[l]]
      /\ UNCHANGED <<chan, spc, sent, pending, buffer, listeners, current, closed, wpc>>
  BY DEF Prints, Broadcast, handler, queue, stream, content
<1>2. v \in Nat /\ Listeners = Streams
  BY StreamFact DEF Prints, Broadcast, TypeInv, HubOK, FeedsOK
<1> HIDE DEF v
<1>3. ASSUME NEW s \in Streams, ~(s \in listeners[t] /\ HasRoom(s)) PROVE WayOK(s)'
  <2>1. took'[s] = took[s] /\ inbox'[s] = inbox[s]
    BY <1>1, <1>2, <1>3
  <2>2. Still(s)
    BY <1>1, <2>1 DEF Still
  <2> QED
    BY <1>1, <2>2, WayStill DEF WayInv
<1>4. ASSUME NEW s \in Streams, s \in listeners[t] /\ HasRoom(s) PROVE WayOK(s)'
  <2>1. took'[s] = Append(took[s], v) /\ inbox'[s] = Append(inbox[s], v)
    BY <1>1, <1>2, <1>4
  <2>2. WayOK(s)
    BY DEF WayInv
  <2>3. spc'[s] \notin {"none", "join"}
    BY <1>1, <1>4, <2>2 DEF WayOK, Unbegun
  <2>4. /\ took[s] \in Seq(Nat) /\ Rest(s) \in Seq(Nat) /\ chan[s[1]] \in Seq(Frame)
        /\ pending[s] \in Seq(Nat) /\ buffer[s] \in Seq(Nat) /\ inbox[s] \in Seq(Nat)
    BY RestFact
  <2>5. Rest(s)' = Append(Rest(s), v)
    <3> DEFINE o == pending[s] \o buffer[s]  i == inbox[s]  w == <<v>>
    <3>1. o \in Seq(Nat) /\ i \in Seq(Nat) /\ o \o i \in Seq(Nat)
      BY <2>4, ConcatProperties
    <3>2. w \in Seq(Nat)
      BY <1>2
    <3> HIDE DEF o, i
    <3>3. Append(i, v) = i \o w /\ Append(o \o i, v) = (o \o i) \o w
      BY <1>2, <3>1, AppendIsConcat
    <3> HIDE DEF w
    <3>4. (o \o i) \o w = o \o (i \o w)
      BY <3>1, <3>2, JoinFact
    <3>5. o \o Append(i, v) = Append(o \o i, v)
      BY <3>3, <3>4
    <3>6. Rest(s)' = o \o Append(i, v) /\ Rest(s) = o \o i
      BY <1>1, <2>1 DEF Rest, o, i
    <3> QED
      BY <3>5, <3>6
  <2>6. ASSUME Open(s)' PROVE Carries(chan'[s[1]], s, took'[s], sent'[s], Rest(s)')
    <3>1. Carries(chan[s[1]], s, took[s], sent[s], Rest(s))
      BY <1>1, <2>2, <2>6 DEF WayOK, Open
    <3>2. Carries(chan[s[1]], s, Append(took[s], v), sent[s], Append(Rest(s), v))
      BY <1>2, <2>4, <3>1, CarriesGrow
    <3> QED
      BY <1>1, <2>1, <2>5, <3>2
  <2> QED
    BY <1>1, <2>2, <2>3, <2>6 DEF WayOK
<1> QED
  BY <1>1, <1>3, <1>4 DEF WayInv

\* The next id is free, so the goroutine that gets it begins with nothing.
LEMMA WayAttach == ASSUME TypeInv, WayInv, NEW c \in Conns, Attach(c) PROVE WayInv'
<1> DEFINE s == <<c, current[c] + 1>>
<1>1. /\ current' = [current EXCEPT ![c] = @ + 1] /\ spc' = [spc EXCEPT ![s] = "join"]
      /\ UNCHANGED <<chan, took, sent, pending, buffer, inbox, listeners, closed, wpc>>
  BY DEF Attach, hubVars, feeds, queue, content, history
<1>2. ASSUME NEW r \in Streams PROVE WayOK(r)'
  <2>1. r = <<r[1], r[2]>> /\ r[1] \in Conns /\ r[2] \in Nat /\ WayOK(r)
    BY StreamFact DEF WayInv
  <2>2. current[c] \in Nat /\ current[r[1]] \in Nat
        /\ current'[r[1]] = IF r[1] = c THEN current[c] + 1 ELSE current[r[1]]
    BY <1>1, <2>1 DEF TypeInv, HandlerOK
  <2>3. spc'[r] = IF r = s THEN "join" ELSE spc[r]
    BY <1>1 DEF TypeInv, StreamOK
  <2>4. r = s => r[1] = c /\ r[2] = current[c] + 1
    OBVIOUS
  <2> HIDE DEF s
  <2>5. r = s => spc[r] = "none"
    BY <2>1, <2>2, <2>4 DEF WayOK
  <2>6. spc'[r] \in {"none", "join"} => Unbegun(r)'
    <3>1. spc'[r] \in {"none", "join"} => Unbegun(r)
      BY <2>1, <2>3, <2>5 DEF WayOK
    <3> QED
      BY <1>1, <3>1 DEF Unbegun
  <2>7. r[2] > current'[r[1]] => spc'[r] = "none"
    BY <2>1, <2>2, <2>3, <2>4 DEF WayOK
  <2>8. pending'[r] # <<>> => spc'[r] = "blocked"
    BY <1>1, <2>1, <2>3, <2>5 DEF WayOK
  <2>9. Rest(r)' = Rest(r)
    BY <1>1 DEF Rest
  <2>10. Open(r)' => Open(r)
    BY <1>1, <2>3 DEF Open
  <2> QED
    BY <1>1, <2>1, <2>6, <2>7, <2>8, <2>9, <2>10 DEF WayOK
<1> QED
  BY <1>1, <1>2 DEF WayInv

LEMMA WayHandler ==
    ASSUME TypeInv, WayInv, NEW c \in Conns,
           \/ Ask(c) \/ Resize(c) \/ Input(c) \/ Break(c) \/ Leave(c) \/ CloseQueue(c)
           \/ Says(c) \/ OpenExisting(c) \/ OpenNamed(c) \/ OpenShell(c) \/ OpenFails(c)
           \/ Hook(c) \/ RegisterNew(c)
    PROVE  WayInv'
<1>1. /\ UNCHANGED <<took, sent, pending, buffer, inbox, listeners, current, spc, wpc>>
      /\ chan' = chan \/ QueueText(c)
      /\ closed' = closed \/ closed' = [closed EXCEPT ![c] = TRUE]
  <2> USE DEF hubVars, feeds, handler, queue, stream, content, history
  <2>1. CASE Ask(c) \/ Resize(c) \/ Input(c) \/ Break(c)
    BY <2>1 DEF Ask, Resize, Input, InputBlocks, InputReturns, Break
  <2>2. CASE Leave(c)
    BY <2>2 DEF Leave
  <2>3. CASE CloseQueue(c)
    BY <2>3 DEF CloseQueue
  <2>4. CASE Says(c) \/ OpenFails(c)
    BY <2>4 DEF Says, OpenFails
  <2>5. CASE OpenExisting(c) \/ OpenNamed(c) \/ OpenShell(c)
    BY <2>5 DEF OpenExisting, OpenNamed, OpenShell
  <2>6. CASE Hook(c) \/ RegisterNew(c)
    BY <2>6 DEF Hook, RegisterNew
  <2> QED
    BY <2>1, <2>2, <2>3, <2>4, <2>5, <2>6
<1>2. ASSUME NEW r \in Streams PROVE Still(r)
  <2>1. \A d \in Conns :
            \/ chan'[d] = chan[d]
            \/ \E f \in Frame : Carried(f, r) = <<>> /\ chan'[d] = Append(chan[d], f)
    BY <1>1, TextStill
  <2>2. closed[r[1]] => closed'[r[1]]
    BY <1>1, StreamFact DEF TypeInv, QueueOK
  <2> QED
    BY <1>1, <2>1, <2>2 DEF Still
<1> QED
  BY <1>1, <1>2, WayQuiet

LEMMA WaySetSize == ASSUME TypeInv, WayInv, NEW s \in Streams, SetSize(s) PROVE WayInv'
<1>1. /\ spc[s] = "resize" /\ spc' = [spc EXCEPT ![s] = "run"]
      /\ UNCHANGED <<took, sent, pending, buffer, inbox, listeners, current, chan, closed, wpc>>
  BY DEF SetSize, feeds, handler, queue, content, history
<1>2. ASSUME NEW r \in Streams PROVE Still(r)
  <2>1. spc'[r] = spc[r] \/ (spc[r] = "resize" /\ spc'[r] = "run")
    BY <1>1 DEF TypeInv, StreamOK
  <2> QED
    BY <1>1, <2>1 DEF Still
<1> QED
  BY <1>1, <1>2, WayQuiet

LEMMA WayFinishing == ASSUME TypeInv, WayInv, NEW t \in Terms, Finishing(t) PROVE WayInv'
<1>1. UNCHANGED <<took, sent, pending, buffer, inbox, current, chan, spc, closed, wpc>>
  BY DEF Finishing, EndLoop, OnExit, feeds, Alone, handler, queue, stream, content, history
<1>2. \A u \in Terms : listeners'[u] = listeners[u] \/ listeners'[u] = {}
  BY DEF Finishing, EndLoop, OnExit, feeds, TypeInv, HubOK, FeedsOK
<1>3. \A r \in Streams : Still(r)
  BY <1>1, <1>2 DEF Still
<1> QED
  BY <1>1, <1>3, WayQuiet

LEMMA WayNext == TypeInv /\ LateInv /\ WayInv /\ [Next]_vars => WayInv'
<1> SUFFICES ASSUME TypeInv, LateInv, WayInv, [Next]_vars PROVE WayInv'
  OBVIOUS
<1>1. ASSUME NEW c \in Conns, Ask(c) \/ Opening(c) \/ Resize(c) \/ Input(c)
                              \/ Break(c) \/ Leaving(c) \/ Says(c) \/ Write(c)
      PROVE  WayInv'
  <2>1. CASE Attach(c) \/ Write(c)
    BY <2>1, WayAttach, WayWrite
  <2> QED
    BY <1>1, <2>1, WayHandler DEF Opening, Leaving
<1>2. ASSUME NEW s \in Streams, Streaming(s) PROVE WayInv'
  BY <1>2, WayJoin, WaySetSize, WayTake, WayEnds, WayFlush, WaySendPending DEF Streaming
<1>3. ASSUME NEW t \in Terms, Prints(t) \/ Finishing(t) PROVE WayInv'
  BY <1>3, WayPrints, WayFinishing
<1>4. CASE UNCHANGED vars
  <2>1. UNCHANGED <<took, sent, pending, buffer, inbox, listeners, current, chan, spc,
                    closed, wpc>>
    BY <1>4 DEF vars, hubVars, feeds, handler, queue, stream, content, history
  <2>2. \A r \in Streams : Still(r)
    BY <2>1 DEF Still
  <2> QED
    BY <2>1, <2>2, WayQuiet
<1> QED
  BY <1>1, <1>2, <1>3, <1>4 DEF Next

\* From the listener channel to the websocket no chunk of the output is lost,
\* doubled or reordered while its goroutine streams, whatever else the queue of
\* the connection holds and however full it gets: a frame that finds no room
\* waits in its goroutine, which takes nothing more until the frame is queued.
THEOREM AgentStreamIntact == Spec => []StreamIntact
<1>1. WayInv => StreamIntact
  BY DEF WayInv, WayOK, StreamIntact, Open, Rest
<1> QED
  BY <1>1, LateInit, LateNext, WayInit, WayNext, TypeInvariant, PTL DEF Spec
==============================================================================
