---------------------------- MODULE WebSocketClient ----------------------------
(***************************************************************************)
(* market_data/websocket_client.hpp: WebSocketClient, with the             *)
(* BinanceFeedHandler that owns it, on an EventLoop.  The client connects, *)
(* sends the upgrade request when the socket becomes writable, reads       *)
(* frames, and schedules a connect() after every error or disconnection,   *)
(* later each time, until it has tried MaxAttempts times.                  *)
(*                                                                         *)
(* The kernel's sockets and the peer are external.  A chunk of data is     *)
(* read as frames whatever it is: the server's answer to the upgrade       *)
(* request too, whose first byte, "H", has the opcode of a Close frame, and*)
(* what is left over in recv_buffer_ from an earlier connection.  So any   *)
(* chunk may hold Close frames; the other frames change nothing here.      *)
(***************************************************************************)
EXTENDS EventLoop

CONSTANTS
  MaxAttempts,  \* max_reconnect_attempts
  Streams,      \* the streams to subscribe to
  MaxCalls,     \* bound on the program's calls of the feed handler
  MaxFaults     \* bound on connections refused, closed or reset by the peer

ASSUME AttemptsAssumption == {MaxAttempts, MaxCalls, MaxFaults} \subseteq Nat

VARIABLES
  state,        \* state_
  sock,         \* socket_fd_, 0 for -1
  attempts,     \* reconnect_attempts_
  subs,         \* subscriptions_
  net,          \* the open sockets: what the kernel knows of each
  wanted,       \* history: the program has called connect() and not disconnect()
  cancelled,    \* history: timers cancelled, not from their own callbacks
  calls,        \* history: number of calls of the program
  faults        \* history: number of faults of the peer

clientVars == <<state, sock, attempts, subs, net, wanted>>
historyVars == <<cancelled, calls, faults>>
vars == <<loopVars, clientVars, historyVars>>

Edges == {"in", "out", "err", "hup"}
Socket == [peer : {"opening", "open", "broken"}, edges : SUBSET Edges,
           data : BOOLEAN, fin : BOOLEAN, sent : SUBSET Streams]

TypeOK ==
  /\ LoopTypeOK
  /\ state \in {"Disconnected", "Connecting", "Connected", "Error"}
  /\ sock \in Fds \cup {0} /\ attempts \in 0..MaxAttempts /\ subs \subseteq Streams
  /\ DOMAIN net \subseteq Fds /\ \A f \in DOMAIN net : net[f] \in Socket
  /\ wanted \in BOOLEAN /\ cancelled \subseteq TimerIds /\ calls \in 0..MaxCalls /\ faults \in 0..MaxFaults

Init ==
  /\ LoopInit
  /\ state = "Disconnected" /\ sock = 0 /\ attempts = 0 /\ subs = {}
  /\ net = <<>> /\ wanted = FALSE /\ cancelled = {} /\ calls = 0 /\ faults = 0

-------------------------------------------------------------------------------
(* The client's methods, as functions of what they read and change: the    *)
(* client's fields, the sockets, the handlers and the timers of the loop.  *)

World == [state |-> state, sock |-> sock, attempts |-> attempts, net |-> net,
          handlers |-> fdHandlers, tt |-> TimerTable]

Become(w) ==
  /\ state' = w.state /\ sock' = w.sock /\ attempts' = w.attempts /\ net' = w.net
  /\ fdHandlers' = w.handlers /\ timers' = w.tt.queue /\ timerMap' = w.tt.map

ScheduleReconnect(w) ==
  IF w.attempts >= MaxAttempts THEN w
  ELSE [w EXCEPT !.attempts = @ + 1,
                 !.tt = Schedule(@, w.attempts + 1, 0, "connect")]

\* Mutant: an error schedules no reconnection.
HandleError_Silent(w) == [w EXCEPT !.state = "Error"]
\* The socket stays open and its handler in the loop.
HandleError(w) == ScheduleReconnect([w EXCEPT !.state = "Error"])

Disconnect(w) ==
  [w EXCEPT !.state = "Disconnected", !.sock = 0,
            !.handlers = @ \ {w.sock},
            !.net = [f \in DOMAIN w.net \ {w.sock} |-> w.net[f]]]

\* Mutant: a connection that is closed schedules no reconnection.
HandleDisconnect_Silent(w) == Disconnect(w)
HandleDisconnect(w) == ScheduleReconnect(Disconnect(w))

\* connect(): the outcomes, for a name that resolves or not, a socket that can
\* be had or not, and a connection that fails at once or is under way.  The
\* number of a new socket is the lowest that is free.
Connect(w) ==
  IF w.state \in {"Connected", "Connecting"} THEN {w}
  ELSE LET c == [w EXCEPT !.state = "Connecting"]
           free == Fds \ DOMAIN w.net
           f == CHOOSE n \in free : \A m \in free : n <= m
           new == [peer |-> "opening", edges |-> {}, data |-> FALSE, fin |-> FALSE, sent |-> {}]
           opened == [c EXCEPT !.sock = f, !.net = [g \in DOMAIN w.net \cup {f} |->
                                                      IF g = f THEN new ELSE w.net[g]]]
       IN  {HandleError(c)}
           \cup IF free = {} THEN {HandleError([c EXCEPT !.sock = 0])}
                ELSE {HandleError(opened), [opened EXCEPT !.handlers = @ \cup {f}]}

\* read_data() with the frames read: recv() on a socket that a Close frame has
\* closed fails.
ReadData(w) ==
  IF w.sock = 0 \/ (w.sock # 0 /\ w.net[w.sock].peer = "broken") THEN {HandleError(w)}
  ELSE LET read == [w EXCEPT !.net[w.sock].data = FALSE]
           drained == IF w.net[w.sock].fin THEN HandleDisconnect(read) ELSE read
       IN  {drained}
           \cup IF ~w.net[w.sock].data THEN {}
                ELSE {HandleError(HandleDisconnect(read)),
                      HandleError(HandleDisconnect(HandleDisconnect(read)))}

\* Mutant: a connection that comes back does not subscribe again.
OnWritable_Fresh(w) ==
  IF w.net[w.sock].peer # "open" THEN w
  ELSE [w EXCEPT !.state = "Connected", !.attempts = 0]
\* send_handshake() and, when it is sent, on_connect().
OnWritable(w) ==
  IF w.net[w.sock].peer # "open" THEN w
  ELSE [w EXCEPT !.state = "Connected", !.attempts = 0, !.net[w.sock].sent = subs]

HandleEvents(w, ev) ==
  LET writable == w.state = "Connecting" /\ "out" \in ev
      opened == IF writable THEN OnWritable(w) ELSE w
      readIn == IF "in" \in ev THEN ReadData(opened) ELSE {opened}
  IN  IF "err" \in ev \/ (writable /\ (w.sock = 0 \/ w.net[w.sock].peer = "broken"))
      THEN {HandleError(w)}
      ELSE IF "hup" \in ev THEN {HandleDisconnect(r) : r \in readIn} ELSE readIn

-------------------------------------------------------------------------------
(* Callbacks.  A posted callback calls one method of the feed handler or   *)
(* of the loop.  The program has an interval timer, which it cancels from a*)
(* posted callback or from the timer's own callback.                       *)

ProgramTimers == {t.id : t \in {u \in timers : u.what = "program" /\ u.id \in timerMap}}

RunPosted ==
  /\ lpc = "posted" /\ taken > 0
  /\ taken' = taken - 1
  /\ UNCHANGED <<running, lpc, posted, batch, faults>>

Call == RunPosted /\ calls < MaxCalls /\ calls' = calls + 1

PostedConnect ==
  /\ Call
  /\ \E w \in Connect(World) : Become(w)
  /\ wanted' = TRUE
  /\ UNCHANGED <<subs, cancelled>>

PostedDisconnect ==
  /\ Call
  /\ Become(Disconnect(World))
  /\ wanted' = FALSE
  /\ UNCHANGED <<subs, cancelled>>

\* subscribe_depth(), subscribe_trades().
PostedSubscribe(s) ==
  /\ Call /\ s \notin subs
  /\ subs' = subs \cup {s}
  /\ net' = IF state = "Connected" /\ sock # 0 THEN [net EXCEPT ![sock].sent = @ \cup {s}] ELSE net
  /\ UNCHANGED <<state, sock, attempts, wanted, fdHandlers, timers, timerMap, cancelled>>

\* One interval timer at a time; the callback may as well do something else.
PostedInterval ==
  /\ RunPosted
  /\ Become(IF \A t \in timers : t.what # "program"
            THEN [World EXCEPT !.tt = Schedule(@, 1, 1, "program")] ELSE World)
  /\ UNCHANGED <<subs, wanted, calls, cancelled>>

PostedCancel ==
  /\ RunPosted
  /\ \/ \E id \in ProgramTimers : /\ Become([World EXCEPT !.tt = CancelTimer(@, id)])
                                  /\ cancelled' = cancelled \cup {id}
     \/ ProgramTimers = {} /\ Become(World) /\ UNCHANGED cancelled
  /\ UNCHANGED <<subs, wanted, calls>>

HandleReady(fd) ==
  /\ NextReady(fd)
  /\ batch' = Handled(fd)
  /\ IF fd \in fdHandlers THEN \E w \in HandleEvents(World, batch[fd]) : Become(w)
     ELSE Become(World)
  /\ UNCHANGED <<running, lpc, posted, taken, subs, wanted, historyVars>>

FireReconnect(t) ==
  /\ Due(t) /\ t.id \in timerMap /\ t.what = "connect"
  /\ \E w \in Connect([World EXCEPT !.tt = Popped(t)]) : Become(w)
  /\ UNCHANGED <<running, lpc, posted, taken, batch, subs, wanted, historyVars>>

\* The callback does nothing to the loop, or cancels its timer.
FireProgram(t) ==
  /\ Due(t) /\ t.id \in timerMap /\ t.what = "program"
  /\ \E tt \in {Popped(t), CancelTimer(Popped(t), t.id)} :
       Become([World EXCEPT !.tt = Requeued(t, tt)])
  /\ UNCHANGED <<running, lpc, posted, taken, batch, subs, wanted, historyVars>>

DropCancelled(t) ==
  /\ SkipCancelled(t)
  /\ cancelled' = cancelled \ {t.id}
  /\ UNCHANGED <<clientVars, calls, faults>>

-------------------------------------------------------------------------------
(* The kernel and the peer.                                                *)

\* What epoll has to report of the descriptors in the loop; it reports an edge
\* once.
Ready == [f \in {g \in fdHandlers : net[g].edges # {}} |-> net[f].edges]
Reported == [f \in DOMAIN net |-> IF f \in DOMAIN Ready THEN [net[f] EXCEPT !.edges = {}] ELSE net[f]]

WaitReady(passed) ==
  /\ Wait(Ready, passed)
  /\ net' = Reported
  /\ UNCHANGED <<state, sock, attempts, subs, wanted, historyVars>>

Peer(f, change) ==
  /\ net' = [net EXCEPT ![f] = change]
  /\ UNCHANGED <<loopVars, state, sock, attempts, subs, wanted, cancelled, calls>>

Accepts(f) ==
  /\ net[f].peer = "opening"
  /\ Peer(f, [net[f] EXCEPT !.peer = "open", !.edges = @ \cup {"out"}])
  /\ UNCHANGED faults

Sends(f) ==
  /\ net[f].peer = "open" /\ ~net[f].fin /\ ~net[f].data /\ faults < MaxFaults
  /\ Peer(f, [net[f] EXCEPT !.data = TRUE, !.edges = @ \cup {"in"}])
  /\ faults' = faults + 1

Closes(f) ==
  /\ net[f].peer = "open" /\ ~net[f].fin /\ faults < MaxFaults
  /\ Peer(f, [net[f] EXCEPT !.fin = TRUE, !.edges = @ \cup {"in"}])
  /\ faults' = faults + 1

\* The connection is refused or reset.
Breaks(f) ==
  /\ net[f].peer # "broken" /\ faults < MaxFaults
  /\ Peer(f, [net[f] EXCEPT !.peer = "broken", !.edges = Edges])
  /\ faults' = faults + 1

Network == \E f \in DOMAIN net : Accepts(f) \/ Sends(f) \/ Closes(f) \/ Breaks(f)

-------------------------------------------------------------------------------
LoopStep ==
  \/ (SwapPosted \/ Interrupted \/ EndIteration) /\ UNCHANGED <<clientVars, historyVars>>
  \/ WaitReady(0) \/ WaitReady(1)
  \/ PostedConnect \/ PostedDisconnect \/ PostedInterval \/ PostedCancel
  \/ \E s \in Streams : PostedSubscribe(s)
  \/ \E fd \in Fds : HandleReady(fd)
  \/ \E t \in timers : FireReconnect(t) \/ FireProgram(t) \/ DropCancelled(t)

Next ==
  \/ LoopStep
  \/ Network
  \/ (Run \/ Stop \/ Post) /\ UNCHANGED <<clientVars, historyVars>>

\* The loop's thread runs, time passes and epoll_wait works now and then, and a
\* connection under way is accepted or refused in the end.
Fairness ==
  /\ WF_vars(LoopStep)
  /\ SF_vars(WaitReady(1))
  /\ \A f \in Fds : WF_vars(f \in DOMAIN net /\ Accepts(f))

Spec == Init /\ [][Next]_vars /\ Fairness

-------------------------------------------------------------------------------
(* TimersExact: the queue and the map stay together whatever callbacks do  *)
(* to them.  A timer cancelled from anywhere but its own callback never    *)
(* fires again; every timer in the map is in the queue, once.              *)
TimersExact ==
  /\ TypeOK
  /\ cancelled \cap timerMap = {}
  /\ timerMap \cup cancelled = {t.id : t \in timers}
  /\ \A t, u \in timers : t.id = u.id => t = u

(* NeverForgotten: at no moment is the client left with nothing to wake it:*)
(* a connection under way has an event to come; one that was lost, or that *)
(* failed, has a reconnection scheduled, unless the attempts are used up.  *)
(* And through every loss and reconnection, wherever a subscription falls  *)
(* between them, one that is connected has asked for all its streams on    *)
(* the connection it is using.                                             *)
NeverForgotten ==
  /\ wanted /\ state \in {"Error", "Disconnected"} =>
       attempts = MaxAttempts \/ \E t \in timers : t.what = "connect" /\ t.id \in timerMap
  /\ state = "Connecting" =>
       /\ sock \in fdHandlers
       /\ net[sock].peer = "opening" \/ net[sock].edges # {} \/ sock \in DOMAIN batch
  /\ state = "Connected" => sock # 0 /\ net[sock].sent = subs

(* FeedComesBack: a client that was told to connect, and whose loop is not *)
(* stopped, is connected again or gives up.                                *)
FeedComesBack ==
  wanted ~> state = "Connected" \/ attempts = MaxAttempts \/ ~wanted \/ ~running
===============================================================================
