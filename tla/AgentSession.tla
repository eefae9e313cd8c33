---------------------------- MODULE AgentSession ----------------------------
(***************************************************************************)
(* HandleTerminalSession of the agent, agent/pkg/server/wss.go, for any    *)
(* number of authenticated websockets over the shells of TerminalHub.      *)
(*                                                                         *)
(* Goroutines of a connection c, which share its variables unguarded:      *)
(*   hpc[c]  the handler, which reads requests,                            *)
(*   wpc[c]  the write loop, which drains msgChan,                         *)
(*   the tickers, which queue texts,                                       *)
(*   spc[s]  one streaming goroutine for each terminal_init, s = <<c, k>>  *)
(*           where k is the attachment id it was started with; s also      *)
(*           names the listener channel it makes.                          *)
(*                                                                         *)
(* A panic of any goroutine ends the agent: after `crashed` nothing moves. *)
(***************************************************************************)
EXTENDS TerminalHub

CONSTANTS
    Conns,        \* the websockets
    IDOf,         \* the client id of a connection
    Shell, Tmux,  \* session ids that are not of the form termviewer:name
    Sizes,        \* the window sizes of each client
    Inits,        \* bound: how many terminal_init a client sends at most
    Plans,        \* bounds: what happens in one behaviour, see Plan
    QueueCap,     \* the capacity of msgChan (2000)
    BufferLimit,  \* a buffer over this many chunks is sent at once (4096 bytes)
    NoConn

Streams == UNION {{c} \X (1 .. Inits[c]) : c \in Conns}

SessionIDs == Names \cup {Shell, Tmux}

\* What the clients send in each terminal_init, which of them go away, how many
\* chunks each shell prints, which shells may stop reading their input, how many
\* other texts a connection queues and whether a shell may fail to start.
Plan == [asks : [Conns -> Seq(SUBSET SessionIDs)], leaves : SUBSET Conns,
         output : [Terms -> Nat], deaf : SUBSET Terms, texts : Nat,
         fails : BOOLEAN]

ASSUME SessionAssumption ==
    /\ Listeners = Streams
    /\ IDOf \in [Conns -> IDs]
    /\ {Shell, Tmux} \cap Names = {}
    /\ Inits \in [Conns -> Nat]
    /\ Plans \subseteq Plan
    /\ \A p \in Plans, c \in Conns : Len(p.asks[c]) <= Inits[c]
    /\ Sizes \in [Conns -> SUBSET (Nat \X Nat)]
    /\ QueueCap \in Nat \ {0}
    /\ BufferLimit \in Nat

VARIABLES
    plan,     \* the bounds of this behaviour
    net,      \* the websocket: "up", or "broken" (writes fail, no pong comes)
    hpc,
    request,  \* the session_id and size of the terminal_init in progress
    asked,    \* how many terminal_init the handler has read
    told,     \* the window the client announced last, see Announces
    term,     \* the handler's term
    keep,     \* the handler's isPersistent
    new,      \* the local t of GetOrCreateNativeSession
    current,  \* the handler's currentAttachmentID
    chan,     \* msgChan
    closed,   \* msgChanClosed, and msgChan is closed
    wpc,
    texts,    \* how many texts the handler and the tickers have queued
    spc,
    target,   \* targetTerm of a streaming goroutine
    window,   \* the rows and cols it was started with
    buffer,   \* its buffer
    pending,  \* the frame it is blocked on in queueMessage
    took,     \* the chunks its listener channel was given
    sent,     \* how many of them were written to the websocket
    late,     \* how many frames it queued after the client had switched
    crashed   \* a goroutine panicked

client   == <<plan, net, asked, request, told>>
handler  == <<hpc, term, keep, new, current>>
queue    == <<chan, closed, wpc, texts>>
stream   == <<spc, target, window>>
content  == <<buffer, pending>>
history  == <<took, sent, late>>
vars     == <<hubVars, client, handler, queue, stream, content, history, crashed>>

Text == [of |-> NoConn, chunks |-> <<>>]
Frame == [of : Streams, chunks : Seq(Nat)] \cup {Text}

\* Types of the variables of a connection and of its streams.
TypeOK ==
    /\ ShellsOK /\ ViewersOK /\ FeedsOK /\ NamesOK
    /\ net \in [Conns -> {"up", "broken"}]
    /\ asked \in [Conns -> Nat]
    /\ told \in [Conns -> (Nat \X Nat) \cup {NoSize}]
    /\ hpc \in [Conns -> {"read", "write", "open", "hook", "register", "attach",
                          "closing", "done"}]
    /\ term \in [Conns -> Terms \cup {NoTerm}]
    /\ new \in [Conns -> Terms \cup {NoTerm}]
    /\ keep \in [Conns -> BOOLEAN]
    /\ current \in [Conns -> Nat]
    /\ chan \in [Conns -> Seq(Frame)]
    /\ \A c \in Conns : Len(chan[c]) <= QueueCap
    /\ closed \in [Conns -> BOOLEAN]
    /\ wpc \in [Conns -> {"ready", "done"}]
    /\ spc \in [Streams -> {"none", "join", "resize", "run", "blocked", "done"}]
    /\ target \in [Streams -> Terms \cup {NoTerm}]
    /\ \A f \in {buffer, pending, took} : f \in [Streams -> Seq(Nat)]
    /\ crashed \in BOOLEAN

Init ==
    /\ HubInit
    /\ plan \in Plans
    /\ net = [c \in Conns |-> "up"]
    /\ asked = [c \in Conns |-> 0]
    /\ request = [c \in Conns |-> [id |-> Shell, size |-> NoSize]]
    /\ told = [c \in Conns |-> NoSize]
    /\ hpc = [c \in Conns |-> "read"]
    /\ term = [c \in Conns |-> NoTerm]
    /\ keep = [c \in Conns |-> FALSE]
    /\ new = [c \in Conns |-> NoTerm]
    /\ current = [c \in Conns |-> 0]
    /\ chan = [c \in Conns |-> <<>>]
    /\ closed = [c \in Conns |-> FALSE]
    /\ wpc = [c \in Conns |-> "ready"]
    /\ texts = [c \in Conns |-> 0]
    /\ spc = [s \in Streams |-> "none"]
    /\ target = [s \in Streams |-> NoTerm]
    /\ window = [s \in Streams |-> NoSize]
    /\ buffer = [s \in Streams |-> <<>>]
    /\ pending = [s \in Streams |-> <<>>]
    /\ took = [s \in Streams |-> <<>>]
    /\ sent = [s \in Streams |-> 0]
    /\ late = [s \in Streams |-> 0]
    /\ crashed = FALSE

-----------------------------------------------------------------------------
(* queueMessage.  Only a binary message waits for room.                    *)

Room(c) == Len(chan[c]) < QueueCap

QueueText(c) ==
    chan' = [chan EXCEPT ![c] = IF closed[c] \/ ~Room(c) THEN @
                                ELSE Append(@, Text)]

\* The client has switched, or is switching, away from what s streams.
Current(s) == term[s[1]] = target[s] /\ current[s[1]] = s[2]

\* The frame of s enters msgChan.
Enqueue(s, chunks) ==
    /\ chan' = [chan EXCEPT ![s[1]] = Append(@, [of |-> s, chunks |-> chunks])]
    /\ late' = [late EXCEPT ![s] = IF current[s[1]] > s[2] THEN @ + 1 ELSE @]

\* A full queue drops binary frames as it drops texts.
F_DropWhenFull(s) ==
    LET c == s[1]
    IN  /\ buffer' = [buffer EXCEPT ![s] = <<>>]
        /\ \/ /\ ~closed[c] /\ Room(c)
              /\ Enqueue(s, buffer[s])
              /\ UNCHANGED <<spc, pending>>
           \/ /\ closed[c] \/ ~Room(c)
              /\ UNCHANGED <<spc, pending, chan, late>>

\* writeMessage of the buffer, and buffer = nil after it.
QueueBinary(s) ==
    LET c == s[1]
    IN  /\ buffer' = [buffer EXCEPT ![s] = <<>>]
        /\ \/ /\ closed[c]
              /\ UNCHANGED <<spc, pending, chan, late>>
           \/ /\ ~closed[c] /\ Room(c)
              /\ Enqueue(s, buffer[s])
              /\ UNCHANGED <<spc, pending>>
           \/ /\ ~closed[c] /\ ~Room(c)
              /\ pending' = [pending EXCEPT ![s] = buffer[s]]
              /\ spc' = [spc EXCEPT ![s] = "blocked"]
              /\ UNCHANGED <<chan, late>>

\* The send that waited finds room.
SendPending(s) ==
    /\ spc[s] = "blocked"
    /\ Room(s[1])
    /\ Enqueue(s, pending[s])
    /\ pending' = [pending EXCEPT ![s] = <<>>]
    /\ spc' = [spc EXCEPT ![s] = "run"]
    /\ UNCHANGED <<hubVars, client, handler, closed, wpc, texts, target, window,
                   buffer, took, sent, crashed>>

\* The write loop; it ends when msgChan is closed and empty or a write fails.
Write(c) ==
    /\ wpc[c] = "ready"
    /\ chan[c] # <<>>
    /\ chan' = [chan EXCEPT ![c] = Tail(@)]
    /\ \/ /\ net[c] = "up"
          /\ sent' = [s \in Streams |->
                        IF s = Head(chan[c]).of
                        THEN sent[s] + Len(Head(chan[c]).chunks) ELSE sent[s]]
          /\ UNCHANGED wpc
       \/ /\ net[c] = "broken"
          /\ wpc' = [wpc EXCEPT ![c] = "done"]
          /\ UNCHANGED sent
    /\ UNCHANGED <<hubVars, client, handler, closed, texts, stream, content,
                   took, late, crashed>>

\* An answer of the handler, or the clipboard or stats ticker, until cancel().
Says(c) ==
    /\ hpc[c] \notin {"closing", "done"}
    /\ texts[c] < plan.texts
    /\ Room(c)
    /\ texts' = [texts EXCEPT ![c] = @ + 1]
    /\ QueueText(c)
    /\ UNCHANGED <<hubVars, client, handler, closed, wpc, stream, content,
                   history, crashed>>

-----------------------------------------------------------------------------
(* The handler: terminal_init, terminal_resize and the input of the shell. *)

\* A streaming goroutine of c has yet to set the window it was started with.
Settling(c) == \E s \in Streams : s[1] = c /\ spc[s] \in {"join", "resize"}

\* The client announces z.  While an older window is yet to be set the shell may
\* end up with that one for c; told is NoSize then.
Announces(c, z) ==
    told' = [told EXCEPT ![c] = IF Settling(c) THEN NoSize ELSE z]

\* A terminal_init is read; the handler lets go of the terminal it had.
Ask(c) ==
    /\ hpc[c] = "read"
    /\ asked[c] < Len(plan.asks[c])
    /\ \E id \in plan.asks[c][asked[c] + 1], z \in Sizes[c] :
           /\ request' = [request EXCEPT ![c] = [id |-> id, size |-> z]]
           /\ Announces(c, z)
    /\ asked' = [asked EXCEPT ![c] = @ + 1]
    /\ hpc' = [hpc EXCEPT ![c] = "open"]
    /\ term' = [term EXCEPT ![c] = NoTerm]
    /\ \/ /\ term[c] # NoTerm
          /\ UpdateClientSize(term[c], IDOf[c], NoSize)
          /\ keep' = [keep EXCEPT ![c] = FALSE]
       \/ /\ term[c] = NoTerm
          /\ UNCHANGED <<viewers, keep>>
    /\ UNCHANGED <<shells, feeds, names, plan, net, new, current, queue, stream,
                   content, history, crashed>>

IsNamed(c) == request[c].id \in Names

\* An existing native session is joined; its shell may be dead already.
OpenExisting(c) ==
    /\ hpc[c] = "open"
    /\ IsNamed(c)
    /\ Existing(request[c].id)
    /\ term' = [term EXCEPT ![c] = sessions[request[c].id]]
    /\ keep' = [keep EXCEPT ![c] = TRUE]
    /\ hpc' = [hpc EXCEPT ![c] = "attach"]
    /\ UNCHANGED <<hubVars, client, new, current, queue, stream, content,
                   history, crashed>>

\* A native session is made; mu stays held until it is registered.
OpenNamed(c) ==
    /\ hpc[c] = "open"
    /\ IsNamed(c)
    /\ StartNamed(request[c].id, request[c].size)
    /\ new' = [new EXCEPT ![c] = Fresh]
    /\ hpc' = [hpc EXCEPT ![c] = "hook"]
    /\ UNCHANGED <<onExit, exited, killed, sizes, feeds, sessions, client, term,
                   keep, current, queue, stream, content, history, crashed>>

Hook(c) ==
    /\ hpc[c] = "hook"
    /\ SetOnExit(request[c].id, new[c])
    /\ hpc' = [hpc EXCEPT ![c] = "register"]
    /\ UNCHANGED <<life, exited, killed, viewers, feeds, names, client, term,
                   keep, new, current, queue, stream, content, history, crashed>>

F_RegisterUnkept(c) ==
    /\ hpc[c] = "register"
    /\ Register(request[c].id, new[c])
    /\ term' = [term EXCEPT ![c] = new[c]]
    /\ new' = [new EXCEPT ![c] = NoTerm]
    /\ hpc' = [hpc EXCEPT ![c] = "attach"]
    /\ UNCHANGED <<shells, viewers, feeds, client, keep, current, queue, stream,
                   content, history, crashed>>

RegisterNew(c) ==
    /\ hpc[c] = "register"
    /\ Register(request[c].id, new[c])
    /\ term' = [term EXCEPT ![c] = new[c]]
    /\ keep' = [keep EXCEPT ![c] = TRUE]
    /\ new' = [new EXCEPT ![c] = NoTerm]
    /\ hpc' = [hpc EXCEPT ![c] = "attach"]
    /\ UNCHANGED <<shells, viewers, feeds, client, current, queue, stream,
                   content, history, crashed>>

\* The client's own shell; a tmux client counts as persistent even if the
\* shell then does not start.
OpenShell(c) ==
    /\ hpc[c] = "open"
    /\ ~IsNamed(c)
    /\ StartShell(request[c].size)
    /\ term' = [term EXCEPT ![c] = Fresh]
    /\ keep' = [keep EXCEPT ![c] = @ \/ request[c].id = Tmux]
    /\ hpc' = [hpc EXCEPT ![c] = "attach"]
    /\ UNCHANGED <<onExit, exited, killed, sizes, feeds, names, client, new,
                   current, queue, stream, content, history, crashed>>

\* The shell does not start: the client is told and keeps its websocket.
OpenFails(c) ==
    /\ plan.fails
    /\ hpc[c] = "open"
    /\ IsNamed(c) => ~mu /\ sessions[request[c].id] = NoTerm
    /\ keep' = [keep EXCEPT ![c] = @ \/ request[c].id = Tmux]
    /\ QueueText(c)
    /\ hpc' = [hpc EXCEPT ![c] = "read"]
    /\ UNCHANGED <<hubVars, client, term, new, current, closed, wpc, texts,
                   stream, content, history, crashed>>

\* The attachment gets its id and its streaming goroutine.
Attach(c) ==
    LET s == <<c, current[c] + 1>>
    IN  /\ hpc[c] = "attach"
        /\ current' = [current EXCEPT ![c] = @ + 1]
        /\ spc' = [spc EXCEPT ![s] = "join"]
        /\ target' = [target EXCEPT ![s] = term[c]]
        /\ window' = [window EXCEPT ![s] = request[c].size]
        /\ hpc' = [hpc EXCEPT ![c] = "read"]
        /\ UNCHANGED <<hubVars, client, term, keep, new, queue, content,
                       history, crashed>>

\* terminal_resize.
Resize(c) ==
    /\ hpc[c] = "read"
    /\ term[c] # NoTerm
    /\ \E z \in Sizes[c] : /\ UpdateClientSize(term[c], IDOf[c], z)
                            /\ Announces(c, z)
    /\ UNCHANGED <<shells, feeds, names, plan, net, asked, request, handler,
                   queue, stream, content, history, crashed>>

\* Input for a shell that has stopped reading: once the buffers between are
\* full, PtyFile.Write does not return while the shell lives.
InputBlocks(c) ==
    /\ hpc[c] = "read"
    /\ term[c] \in plan.deaf
    /\ life[term[c]] = "running"
    /\ hpc' = [hpc EXCEPT ![c] = "write"]
    /\ UNCHANGED <<hubVars, client, term, keep, new, current, queue, stream,
                   content, history, crashed>>

\* The shell has exited, which fails the write; its error is ignored.
InputReturns(c) ==
    /\ hpc[c] = "write"
    /\ life[term[c]] # "running"
    /\ hpc' = [hpc EXCEPT ![c] = "read"]
    /\ UNCHANGED <<hubVars, client, term, keep, new, current, queue, stream,
                   content, history, crashed>>

\* The client goes away, or no longer answers.
Break(c) ==
    /\ c \in plan.leaves
    /\ net[c] = "up"
    /\ net' = [net EXCEPT ![c] = "broken"]
    /\ UNCHANGED <<hubVars, plan, asked, request, told, handler, queue,
                   stream, content, history, crashed>>

\* ReadMessage fails; the first deferred function lets go of the terminal.
Leave(c) ==
    /\ hpc[c] = "read"
    /\ net[c] = "broken"
    /\ \/ /\ term[c] = NoTerm
          /\ UNCHANGED <<viewers, killed>>
       \/ /\ term[c] # NoTerm
          /\ UpdateClientSize(term[c], IDOf[c], NoSize)
          /\ IF keep[c] THEN UNCHANGED killed ELSE Close(term[c])
    /\ hpc' = [hpc EXCEPT ![c] = "closing"]
    /\ UNCHANGED <<life, onExit, exited, feeds, names, client, term, keep, new,
                   current, queue, stream, content, history, crashed>>

\* A queueMessage that keeps its mutex while it waits: the close waits for it.
F_CloseAfterSends(c) ==
    /\ hpc[c] = "closing"
    /\ \A s \in Streams : s[1] = c => spc[s] # "blocked"
    /\ closed' = [closed EXCEPT ![c] = TRUE]
    /\ hpc' = [hpc EXCEPT ![c] = "done"]
    /\ UNCHANGED <<hubVars, client, term, keep, new, current, chan, wpc, texts,
                   stream, content, history, crashed>>

\* The second one closes msgChan, under a goroutine that waits to send on it:
\* that one panics.
CloseQueue(c) ==
    /\ hpc[c] = "closing"
    /\ closed' = [closed EXCEPT ![c] = TRUE]
    /\ crashed' = \E s \in Streams : s[1] = c /\ spc[s] = "blocked"
    /\ hpc' = [hpc EXCEPT ![c] = "done"]
    /\ UNCHANGED <<hubVars, client, term, keep, new, current, chan, wpc, texts,
                   stream, content, history>>

-----------------------------------------------------------------------------
(* The streaming goroutine.                                                *)

\* It tells the client about the recording and joins the listeners.
Join(s) ==
    /\ spc[s] = "join"
    /\ QueueText(s[1])
    /\ AddListener(target[s], s)
    /\ spc' = [spc EXCEPT ![s] = "resize"]
    /\ UNCHANGED <<shells, viewers, names, out, inbox, shut, client, handler,
                   closed, wpc, texts, target, window, content, history, crashed>>

SetSize(s) ==
    /\ spc[s] = "resize"
    /\ UpdateClientSize(target[s], IDOf[s[1]], window[s])
    /\ spc' = [spc EXCEPT ![s] = "run"]
    /\ UNCHANGED <<shells, feeds, names, client, handler, queue, target, window,
                   content, history, crashed>>

\* A chunk arrives for the client that still looks at this terminal.
F_TakeUnchecked(s) ==
    /\ spc[s] = "run"
    /\ inbox[s] # <<>>
    /\ inbox' = [inbox EXCEPT ![s] = Tail(@)]
    /\ buffer' = [buffer EXCEPT ![s] = Append(@, Head(inbox[s]))]
    /\ UNCHANGED <<shells, viewers, names, listeners, out, shut, client, handler,
                   queue, stream, pending, history, crashed>>

Take(s) ==
    /\ spc[s] = "run"
    /\ inbox[s] # <<>>
    /\ Len(buffer[s]) <= BufferLimit
    /\ Current(s)
    /\ inbox' = [inbox EXCEPT ![s] = Tail(@)]
    /\ buffer' = [buffer EXCEPT ![s] = Append(@, Head(inbox[s]))]
    /\ UNCHANGED <<shells, viewers, names, listeners, out, shut, client, handler,
                   queue, stream, pending, history, crashed>>

\* A chunk arrives and the client has switched: the goroutine ends.
Give(s) ==
    /\ spc[s] = "run"
    /\ inbox[s] # <<>>
    /\ Len(buffer[s]) <= BufferLimit
    /\ ~Current(s)
    /\ inbox' = [inbox EXCEPT ![s] = Tail(@)]
    /\ RemoveListener(target[s], s)
    /\ spc' = [spc EXCEPT ![s] = "done"]
    /\ UNCHANGED <<shells, viewers, names, out, shut, client, handler, queue,
                   target, window, content, history, crashed>>

\* The buffer is over the limit or the flush ticker fires.
Flush(s) ==
    /\ spc[s] = "run"
    /\ buffer[s] # <<>>
    /\ QueueBinary(s)
    /\ UNCHANGED <<hubVars, client, handler, closed, wpc, texts, target, window,
                   took, sent, crashed>>


End(s) ==
    /\ spc[s] = "run"
    /\ inbox[s] = <<>> /\ shut[s]
    /\ Len(buffer[s]) <= BufferLimit
    /\ IF Current(s) THEN QueueText(s[1]) ELSE UNCHANGED chan
    /\ spc' = [spc EXCEPT ![s] = "done"]
    /\ UNCHANGED <<hubVars, client, handler, closed, wpc, texts, target, window,
                   content, history, crashed>>

-----------------------------------------------------------------------------
(* The specification.                                                      *)

Prints(t) ==
    /\ out[t] < plan.output[t]
    /\ Broadcast(t)
    /\ took' = [s \in Streams |-> IF s \in listeners[t] /\ HasRoom(s)
                                  THEN Append(took[s], out'[t]) ELSE took[s]]
    /\ UNCHANGED <<client, handler, queue, stream, content, sent, late, crashed>>

Alone == UNCHANGED <<client, handler, queue, stream, content, history, crashed>>

Opening(c) == \/ OpenExisting(c) \/ OpenNamed(c) \/ OpenShell(c) \/ OpenFails(c)
              \/ Hook(c) \/ RegisterNew(c) \/ Attach(c)
Leaving(c) == Leave(c) \/ CloseQueue(c)
Input(c) == InputBlocks(c) \/ InputReturns(c)
Streaming(s) == \/ Join(s) \/ SetSize(s) \/ Take(s) \/ Give(s) \/ Flush(s)
                \/ SendPending(s) \/ End(s)
Finishing(t) == (EndLoop(t) \/ OnExit(t)) /\ Alone

Next ==
    /\ ~crashed
    /\ \/ \E c \in Conns : \/ Ask(c) \/ Opening(c) \/ Resize(c) \/ Input(c)
                           \/ Break(c) \/ Leaving(c) \/ Says(c) \/ Write(c)
       \/ \E s \in Streams : Streaming(s)
       \/ \E t \in Terms : Prints(t) \/ Finishing(t)

\* A goroutine runs that can: also the one whose read or write deadline passes
\* and the loop of a shell that Close killed.  No client has to ask or to leave,
\* no shell to print or to exit.  Every behaviour within the bounds is finite,
\* so fairness to the processes together is fairness to each.
Progress ==
    /\ ~crashed
    /\ \/ \E c \in Conns : Opening(c) \/ InputReturns(c) \/ Leaving(c) \/ Write(c)
       \/ \E s \in Streams : Streaming(s)
       \/ \E t \in Terms : killed[t] /\ Finishing(t)

Fairness == WF_vars(Progress)

Spec == Init /\ [][Next]_vars /\ Fairness

-----------------------------------------------------------------------------
(* Properties.                                                             *)

\* A living shell with a name is the one GetOrCreateNativeSession gives for
\* that name, however the handlers that ask for it interleave with its exit:
\* no name ever has two living shells.
NamesReachShells ==
    \A t \in Terms, n \in Names :
        life[t] = "running" /\ n \in onExit[t] =>
            \/ sessions[n] = t
            \/ \E c \in Conns : hpc[c] = "register" /\ new[c] = t

\* A shell whose OnExit ran is never given to a client again.
DeadNamesFade == \A t \in Terms, n \in Names : exited[t] => sessions[n] # t

\* Only a shell that nobody else can look at is killed when its client goes:
\* it has no name, and no other connection holds it.
OnlyOwnShellsKilled ==
    \A t \in Terms : killed[t] =>
        /\ onExit[t] = {}
        /\ \A n \in Names : sessions[n] # t
        /\ \A c, d \in Conns : term[c] = t /\ term[d] = t => c = d

\* No other connection has the client id of c.
OwnID(c) == \A d \in Conns \ {c} : IDOf[d] # IDOf[c]

\* The shell is never larger than the window its client announced last, for
\* every client that looks at it, once the goroutine of its terminal_init has
\* set its window.  A window that overtakes an older one on its way to the
\* shell (terminal_resize before the goroutine's UpdateClientSize) is excepted,
\* and so is one without rows or columns.
FitsEveryViewer ==
    \A s \in Streams :
        LET c == s[1]  t == target[s]  z == told[c]
        IN  /\ spc[s] \in {"run", "blocked"}
            /\ Current(s) /\ OwnID(c) /\ hpc[c] \in {"read", "write"}
            /\ Entry(z) # NoSize
            => size[t][1] <= z[1] /\ size[t][2] <= z[2]

\* What the frame f carries of the stream s.
Carried(f, s) == IF f.of = s THEN f.chunks ELSE <<>>

\* After its first n chunks q is what the frames of s in ch carry, then rest:
\* the frame at place i ends where the next one begins.
Carries(ch, s, q, n, rest) ==
    \E cut \in [1 .. Len(ch) + 1 -> 0 .. Len(q)] :
        /\ cut[1] = n
        /\ \A i \in 1 .. Len(ch) : /\ cut[i] <= cut[i + 1]
                                  /\ SubSeq(q, cut[i] + 1, cut[i + 1]) = Carried(ch[i], s)
        /\ SubSeq(q, cut[Len(ch) + 1] + 1, Len(q)) = rest

\* Between the listener channel and the websocket no chunk is lost, doubled
\* or reordered while the goroutine streams: full queues make it wait.
StreamIntact ==
    \A s \in Streams :
        LET c == s[1]
        IN  spc[s] \in {"resize", "run", "blocked"} /\ ~closed[c] /\ wpc[c] = "ready"
            => Carries(chan[c], s, took[s], sent[s], pending[s] \o buffer[s] \o inbox[s])

\* After a switch at most one more frame of the old terminal is queued for the
\* client: what was in the buffer, or waited for room, when it switched.  The
\* frames that msgChan already held then are written all the same.
AtMostOneLateFrame == \A s \in Streams : late[s] <= 1

\* The handler waits in PtyFile.Write for a shell that is still there.
Held(c) == hpc[c] = "write" /\ life[term[c]] = "running"

\* The handler of a client that is gone ends (or the agent has crashed), also
\* when a goroutine of it waits on a full queue nobody drains, unless a shell
\* that does not read its input holds it: nothing but the end of that shell
\* releases it then.  A broken websocket and the end of a handler are final.
HandlersEnd ==
    []<>(crashed \/ \A c \in Conns : net[c] = "broken" => hpc[c] = "done" \/ Held(c))

==============================================================================
