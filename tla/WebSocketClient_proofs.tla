------------------------ MODULE WebSocketClient_proofs ------------------------
(***************************************************************************)
(* Proofs about WebSocketClient and the EventLoop under it, for every set  *)
(* of descriptors and streams, and any number of attempts, calls, faults   *)
(* and posted callbacks.  Timer ids are as good as infinitely many: the    *)
(* code counts them with 64 bits.                                          *)
(***************************************************************************)
EXTENDS WebSocketClient, Lemmas, TLAPS

USE FdAssumption, PostedAssumption, AttemptsAssumption

-------------------------------------------------------------------------------
(* The inductive invariant, stated of the values the methods of the client *)
(* work on.                                                                *)
Nets == UNION {[D -> Socket] : D \in SUBSET Fds}
Worlds == [state : {"Disconnected", "Connecting", "Connected", "Error"},
           sock : Fds \cup {0}, attempts : 0..MaxAttempts, net : Nets, handlers : SUBSET Fds,
           tt : [queue : SUBSET Timer, map : SUBSET TimerIds]]

(* The queue and the map of timers, when the timers c have been cancelled. *)
TableInv(tt, c) ==
  /\ tt \in [queue : SUBSET Timer, map : SUBSET TimerIds] /\ IsFiniteSet(tt.queue)
  /\ c \cap tt.map = {} /\ tt.map \cup c = {t.id : t \in tt.queue}
  /\ \A t, u \in tt.queue : t.id = u.id => t = u

(* No handler and no client of a socket that is closed.                    *)
SocketsInv(w) ==
  /\ w \in Worlds
  /\ w.handlers \subseteq DOMAIN w.net
  /\ w.sock # 0 => w.sock \in DOMAIN w.net

(* What epoll has to report of a socket, or has reported in the batch b and*)
(* is not handled yet.                                                     *)
ToCome(w, b) ==
  w.net[w.sock].edges \cup (IF w.sock \in DOMAIN b THEN b[w.sock] ELSE {})

(* A connection under way still has the event to come that tells how it    *)
(* went: that the socket is writable, or that it failed.  NeverForgotten   *)
(* asks for some event only, and one that says nothing would be consumed.  *)
LinkInv(w, b, s) ==
  /\ w.state = "Connecting" =>
       /\ w.sock \in w.handlers
       /\ w.net[w.sock].peer = "open" => "out" \in ToCome(w, b)
       /\ w.net[w.sock].peer = "broken" => "err" \in ToCome(w, b)
  /\ w.state = "Connected" => w.sock # 0 /\ w.net[w.sock].sent = s

Retries(w) == w.attempts = MaxAttempts \/ \E t \in w.tt.queue : t.what = "connect" /\ t.id \in w.tt.map
RetryInv(w, d) == d /\ w.state \in {"Error", "Disconnected"} => Retries(w)

(* All of it that the methods are about, of a world w.                     *)
WorldInv(w, c, b, s, d) ==
  SocketsInv(w) /\ TableInv(w.tt, c) /\ LinkInv(w, b, s) /\ RetryInv(w, d)

RestInv ==
  /\ running \in BOOLEAN /\ lpc \in {"out", "top", "posted", "ready"}
  /\ posted \in 0..MaxPosted /\ taken \in 0..MaxPosted
  /\ DOMAIN batch \subseteq Fds /\ (lpc # "ready" => DOMAIN batch = {})
  /\ subs \subseteq Streams /\ wanted \in BOOLEAN /\ cancelled \subseteq TimerIds
  /\ calls \in 0..MaxCalls /\ faults \in 0..MaxFaults

IInv == RestInv /\ WorldInv(World, cancelled, batch, subs, wanted)

-------------------------------------------------------------------------------
(* Timers.                                                                 *)

LEMMA FreeId ==
  ASSUME ~IsFiniteSet(TimerIds), NEW tt, NEW c, TableInv(tt, c)
  PROVE  \E i \in FreeIds(tt) : i \in TimerIds /\ i \notin tt.map /\ i \notin c /\ \A t \in tt.queue : t.id # i
<1> DEFINE ids == {t.id : t \in tt.queue}
           f == [t \in tt.queue |-> t.id]
<1>1. IsFiniteSet(ids)
  <2>1. f \in Surjection(tt.queue, ids)
    BY DEF Surjection
  <2>2. QED
    BY <2>1, FS_Surjection DEF TableInv
<1>2. tt.map \cup c = ids
  BY DEF TableInv
<1>3. IsFiniteSet(ids \cup tt.map)
  BY <1>1, <1>2, FS_Subset, ids \cup tt.map = ids
<1>4. ASSUME FreeIds(tt) = {} PROVE FALSE
  <2>1. TimerIds \subseteq ids \cup tt.map
    BY <1>4 DEF FreeIds
  <2>2. QED
    BY <1>3, <2>1, FS_Subset
<1>5. PICK i \in FreeIds(tt) : TRUE
  BY <1>4
<1>6. i \in TimerIds /\ i \notin ids /\ i \notin tt.map
  BY <1>5 DEF FreeIds
<1>7. QED
  BY <1>2, <1>5, <1>6

LEMMA ScheduleKeeps ==
  ASSUME ~IsFiniteSet(TimerIds), NEW tt, NEW c, TableInv(tt, c),
         NEW delay \in Int, NEW every \in Nat, NEW what \in Callbacks
  PROVE  /\ TableInv(Schedule(tt, delay, every, what), c)
         /\ \E t \in Schedule(tt, delay, every, what).queue :
              t.what = what /\ t.id \in Schedule(tt, delay, every, what).map
<1> DEFINE i == CHOOSE j \in FreeIds(tt) : TRUE
           t0 == [id |-> i, left |-> delay, every |-> every, what |-> what]
           new == [queue |-> tt.queue \cup {t0}, map |-> tt.map \cup {i}]
<1>1. i \in FreeIds(tt)
  BY FreeId
<1>2. i \in TimerIds /\ i \notin tt.map /\ \A t \in tt.queue : t.id # i
  BY <1>1 DEF FreeIds
<1>3. Schedule(tt, delay, every, what) = new
  BY DEF Schedule
<1>4. tt.map \cup c = {t.id : t \in tt.queue}
  BY DEF TableInv
<1>5. i \notin c
  BY <1>2, <1>4
<1>6. t0 \in Timer /\ t0.id = i /\ t0.what = what
  BY <1>2 DEF Timer
<1> HIDE DEF i, t0
<1>7. new \in [queue : SUBSET Timer, map : SUBSET TimerIds] /\ IsFiniteSet(new.queue)
  BY <1>2, <1>6, FS_AddElement DEF TableInv
<1>8. new.map \cup c = {t.id : t \in new.queue} /\ c \cap new.map = {}
  BY <1>4, <1>5, <1>6 DEF TableInv
<1>9. \A t, u \in new.queue : t.id = u.id => t = u
  BY <1>2, <1>6 DEF TableInv
<1>10. QED
  BY <1>3, <1>6, <1>7, <1>8, <1>9 DEF TableInv

(* A timer that is popped to be fired leaves the table as it should be, and*)
(* so does an interval timer that goes back.                               *)
LEMMA PopKeeps ==
  ASSUME TableInv(TimerTable, cancelled), NEW t \in timers, t.id \in timerMap
  PROVE  /\ TableInv(Popped(t), cancelled) /\ TableInv(Requeued(t, Popped(t)), cancelled)
         /\ CancelTimer(Popped(t), t.id) = Popped(t)
<1>1. /\ timers \subseteq Timer /\ timerMap \subseteq TimerIds /\ IsFiniteSet(timers)
      /\ cancelled \cap timerMap = {} /\ timerMap \cup cancelled = {u.id : u \in timers}
      /\ \A u, v \in timers : u.id = v.id => u = v
  BY DEF TableInv, TimerTable
<1>2. Popped(t) = [queue |-> timers \ {t}, map |-> timerMap \ {t.id}]
  BY DEF Popped
<1>3. TableInv(Popped(t), cancelled)
  <2>1. IsFiniteSet(timers \ {t})
    BY <1>1, FS_Subset
  <2>2. (timerMap \ {t.id}) \cup cancelled = {u.id : u \in timers \ {t}}
    BY <1>1
  <2>3. QED
    BY <1>1, <1>2, <2>1, <2>2 DEF TableInv
<1>4. CancelTimer(Popped(t), t.id) = Popped(t)
  BY <1>2 DEF CancelTimer
<1>5. ASSUME t.every # 0 PROVE TableInv(Requeued(t, Popped(t)), cancelled)
  <2> DEFINE u0 == [t EXCEPT !.left = t.every]
             new == [queue |-> (timers \ {t}) \cup {u0}, map |-> (timerMap \ {t.id}) \cup {t.id}]
  <2>1. u0 \in Timer /\ u0.id = t.id
    BY <1>1 DEF Timer
  <2>2. Requeued(t, Popped(t)) = new
    BY <1>2, <1>5 DEF Requeued
  <2> HIDE DEF u0
  <2>3. IsFiniteSet((timers \ {t}) \cup {u0})
    BY <1>1, FS_Subset, FS_AddElement
  <2>4. new.map = timerMap
    OBVIOUS
  <2>5. {u.id : u \in new.queue} = {u.id : u \in timers}
    BY <2>1
  <2>6. \A u, v \in new.queue : u.id = v.id => u = v
    BY <1>1, <2>1
  <2>7. QED
    BY <1>1, <2>1, <2>2, <2>3, <2>4, <2>5, <2>6 DEF TableInv
<1>6. QED
  BY <1>3, <1>4, <1>5 DEF Requeued

-------------------------------------------------------------------------------
(* The methods of the client.                                              *)

LEMMA NetIsFunction == ASSUME NEW n \in Nets PROVE n \in [DOMAIN n -> Socket] /\ DOMAIN n \subseteq Fds
BY DEF Nets

LEMMA FunctionIsNet == ASSUME NEW D \in SUBSET Fds, NEW n \in [D -> Socket] PROVE n \in Nets
BY DEF Nets

LEMMA NoSocketIsZero == 0 \notin Fds
OBVIOUS

LEMMA ScheduleReconnectKeeps ==
  ASSUME ~IsFiniteSet(TimerIds), NEW w, NEW c, SocketsInv(w), TableInv(w.tt, c)
  PROVE  /\ SocketsInv(ScheduleReconnect(w)) /\ TableInv(ScheduleReconnect(w).tt, c)
         /\ Retries(ScheduleReconnect(w))
         /\ ScheduleReconnect(w).state = w.state /\ ScheduleReconnect(w).sock = w.sock
<1> DEFINE tt == Schedule(w.tt, w.attempts + 1, 0, "connect")
           v == [w EXCEPT !.attempts = w.attempts + 1, !.tt = tt]
<1>1. w \in Worlds /\ w.attempts \in 0..MaxAttempts /\ MaxAttempts \in Nat
  BY DEF SocketsInv, Worlds
<1>2. CASE w.attempts >= MaxAttempts
  BY <1>1, <1>2 DEF ScheduleReconnect, Retries
<1>3. CASE ~(w.attempts >= MaxAttempts)
  <2>1. ScheduleReconnect(w) = v
    BY <1>3 DEF ScheduleReconnect
  <2>0. "connect" \in Callbacks /\ 0 \in Nat
    BY DEF Callbacks
  <2>3. w.attempts + 1 \in 0..MaxAttempts /\ w.attempts + 1 \in Int
    BY ONLY <1>1, <1>3
  <2>2. TableInv(tt, c) /\ \E t \in tt.queue : t.what = "connect" /\ t.id \in tt.map
    BY <2>0, <2>3, ScheduleKeeps
  <2> HIDE DEF tt
  <2>4. tt \in [queue : SUBSET Timer, map : SUBSET TimerIds]
    BY <2>2 DEF TableInv
  <2>5. v \in Worlds /\ v.state = w.state /\ v.sock = w.sock /\ v.net = w.net /\ v.handlers = w.handlers /\ v.tt = tt
    BY <1>1, <2>3, <2>4 DEF Worlds
  <2> HIDE DEF v
  <2>6. QED
    BY <2>1, <2>2, <2>5 DEF SocketsInv, Retries
<1>4. QED
  BY <1>2, <1>3

LEMMA HandleErrorKeeps ==
  ASSUME ~IsFiniteSet(TimerIds), NEW w, NEW c, NEW b, NEW s, NEW d, SocketsInv(w), TableInv(w.tt, c)
  PROVE  WorldInv(HandleError(w), c, b, s, d)
<1> DEFINE e == [w EXCEPT !.state = "Error"]
<1>1. e \in Worlds /\ e.state = "Error" /\ e.sock = w.sock /\ e.net = w.net /\ e.handlers = w.handlers /\ e.tt = w.tt
  BY DEF SocketsInv, Worlds
<1>2. HandleError(w) = ScheduleReconnect(e)
  BY DEF HandleError
<1> HIDE DEF e
<1>3. SocketsInv(e) /\ TableInv(e.tt, c)
  BY <1>1 DEF SocketsInv
<1>4. QED
  BY <1>1, <1>2, <1>3, ScheduleReconnectKeeps DEF WorldInv, LinkInv, RetryInv

LEMMA DisconnectKeeps ==
  ASSUME NEW w, NEW c, SocketsInv(w), TableInv(w.tt, c)
  PROVE  /\ SocketsInv(Disconnect(w)) /\ TableInv(Disconnect(w).tt, c)
         /\ Disconnect(w).state = "Disconnected" /\ Disconnect(w).sock = 0 /\ Disconnect(w).tt = w.tt
<1> DEFINE n == [f \in DOMAIN w.net \ {w.sock} |-> w.net[f]]
           v == [w EXCEPT !.state = "Disconnected", !.sock = 0, !.handlers = w.handlers \ {w.sock}, !.net = n]
<1>1. w \in Worlds /\ w.net \in [DOMAIN w.net -> Socket] /\ DOMAIN w.net \subseteq Fds
  BY NetIsFunction DEF SocketsInv, Worlds
<1>2. n \in [DOMAIN w.net \ {w.sock} -> Socket] /\ DOMAIN w.net \ {w.sock} \in SUBSET Fds
  BY <1>1
<1>3. DOMAIN n = DOMAIN w.net \ {w.sock}
  OBVIOUS
<1> HIDE DEF n
<1>4. n \in Nets
  BY <1>2, FunctionIsNet
<1>5. v \in Worlds /\ v.state = "Disconnected" /\ v.sock = 0 /\ v.handlers = w.handlers \ {w.sock} /\ v.net = n /\ v.tt = w.tt
  BY <1>1, <1>4 DEF Worlds
<1>6. Disconnect(w) = v
  BY DEF Disconnect, n
<1> HIDE DEF v
<1>7. QED
  BY <1>3, <1>5, <1>6 DEF SocketsInv

LEMMA HandleDisconnectKeeps ==
  ASSUME ~IsFiniteSet(TimerIds), NEW w, NEW c, NEW b, NEW s, NEW d, SocketsInv(w), TableInv(w.tt, c)
  PROVE  WorldInv(HandleDisconnect(w), c, b, s, d)
<1>1. /\ SocketsInv(Disconnect(w)) /\ TableInv(Disconnect(w).tt, c)
      /\ Disconnect(w).state = "Disconnected"
  BY DisconnectKeeps
<1>2. HandleDisconnect(w) = ScheduleReconnect(Disconnect(w))
  BY DEF HandleDisconnect
<1>3. QED
  BY <1>1, <1>2, ScheduleReconnectKeeps DEF WorldInv, LinkInv, RetryInv

LEMMA LowestFree ==
  ASSUME NEW free, free \subseteq Fds, free # {}
  PROVE  (CHOOSE n \in free : \A m \in free : n <= m) \in free
<1>1. free \in SUBSET Nat
  OBVIOUS
<1>2. \E n \in free : \A m \in free : n <= m
  BY <1>1, NatLeast
<1>3. QED
  BY <1>2

LEMMA ConnectKeeps ==
  ASSUME ~IsFiniteSet(TimerIds), NEW w, NEW c, NEW b, NEW s, NEW d,
         SocketsInv(w), TableInv(w.tt, c), LinkInv(w, b, s), NEW v \in Connect(w)
  PROVE  WorldInv(v, c, b, s, d)
<1>1. CASE w.state \in {"Connected", "Connecting"}
  <2>1. v = w
    BY <1>1 DEF Connect
  <2>2. QED
    BY <1>1, <2>1 DEF WorldInv, RetryInv
<1>2. CASE w.state \notin {"Connected", "Connecting"}
  <2> DEFINE k == [w EXCEPT !.state = "Connecting"]
             free == Fds \ DOMAIN w.net
             f == CHOOSE n \in free : \A m \in free : n <= m
             new == [peer |-> "opening", edges |-> {}, data |-> FALSE, fin |-> FALSE, sent |-> {}]
             wider == [g \in DOMAIN w.net \cup {f} |-> IF g = f THEN new ELSE w.net[g]]
             closed == [k EXCEPT !.sock = 0]
             opened == [k EXCEPT !.sock = f, !.net = wider]
             going == [opened EXCEPT !.handlers = opened.handlers \cup {f}]
  <2>1. \/ v = HandleError(k)
        \/ free = {} /\ v = HandleError(closed)
        \/ free # {} /\ (v = HandleError(opened) \/ v = going)
    BY <1>2 DEF Connect
  <2>2. w \in Worlds /\ w.net \in [DOMAIN w.net -> Socket] /\ DOMAIN w.net \subseteq Fds
    BY NetIsFunction DEF SocketsInv, Worlds
  <2>3. SocketsInv(k) /\ TableInv(k.tt, c)
    <3>1. k \in Worlds /\ k.sock = w.sock /\ k.net = w.net /\ k.handlers = w.handlers /\ k.tt = w.tt
      BY <2>2 DEF Worlds
    <3>2. QED
      BY <3>1 DEF SocketsInv
  <2>4. SocketsInv(closed) /\ TableInv(closed.tt, c)
    <3>1. closed \in Worlds /\ closed.sock = 0 /\ closed.net = w.net /\ closed.handlers = w.handlers /\ closed.tt = w.tt
      BY <2>2 DEF Worlds
    <3>2. QED
      BY <3>1 DEF SocketsInv
  <2>5. ASSUME free # {}
        PROVE  /\ SocketsInv(opened) /\ TableInv(opened.tt, c)
               /\ SocketsInv(going) /\ TableInv(going.tt, c)
               /\ going.state = "Connecting" /\ going.sock \in going.handlers
               /\ going.net[going.sock].peer = "opening"
    <3>1. f \in free
      BY <2>5, LowestFree
    <3>2. f \in Fds /\ f \notin DOMAIN w.net
      BY <3>1
    <3> HIDE DEF f, free
    <3>3. new \in Socket /\ new.peer = "opening"
      BY DEF Socket
    <3> HIDE DEF new
    <3>4. wider \in [DOMAIN w.net \cup {f} -> Socket] /\ DOMAIN wider = DOMAIN w.net \cup {f} /\ wider[f] = new
      BY <2>2, <3>3
    <3>5. DOMAIN w.net \cup {f} \in SUBSET Fds
      BY <2>2, <3>2
    <3> HIDE DEF wider
    <3>6. wider \in Nets
      BY <3>4, <3>5, FunctionIsNet
    <3>7. /\ opened \in Worlds /\ opened.sock = f /\ opened.net = wider
          /\ opened.handlers = w.handlers /\ opened.tt = w.tt /\ opened.state = "Connecting"
      BY <2>2, <3>2, <3>6 DEF Worlds
    <3> HIDE DEF opened, k
    <3>8. /\ going \in Worlds /\ going.sock = f /\ going.net = wider
          /\ going.handlers = w.handlers \cup {f} /\ going.tt = w.tt /\ going.state = "Connecting"
      BY <3>2, <3>7 DEF Worlds
    <3> HIDE DEF going
    <3>9. QED
      BY <3>3, <3>4, <3>7, <3>8 DEF SocketsInv
  <2> HIDE DEF k, closed, opened, going, free
  <2>6. ASSUME v = going, free # {} PROVE WorldInv(v, c, b, s, d)
    BY <2>5, <2>6 DEF WorldInv, LinkInv, RetryInv
  <2>7. QED
    BY <2>1, <2>3, <2>4, <2>5, <2>6, HandleErrorKeeps
<1>3. QED
  BY <1>1, <1>2

LEMMA ReadDataKeeps ==
  ASSUME ~IsFiniteSet(TimerIds), NEW w, NEW c, NEW b, NEW s, NEW d,
         WorldInv(w, c, b, s, d), NEW v \in ReadData(w)
  PROVE  WorldInv(v, c, b, s, d)
<1>0. SocketsInv(w) /\ TableInv(w.tt, c) /\ LinkInv(w, b, s) /\ RetryInv(w, d)
  BY DEF WorldInv
<1>1. CASE w.sock = 0 \/ (w.sock # 0 /\ w.net[w.sock].peer = "broken")
  BY <1>0, <1>1, HandleErrorKeeps DEF ReadData
<1>2. CASE ~(w.sock = 0 \/ (w.sock # 0 /\ w.net[w.sock].peer = "broken"))
  <2> DEFINE n == [w.net EXCEPT ![w.sock] = [w.net[w.sock] EXCEPT !.data = FALSE]]
             read == [w EXCEPT !.net = n]
  <2>1. [w EXCEPT !.net[w.sock].data = FALSE] = read
    OBVIOUS
  <2>2. \/ v = HandleDisconnect(read) \/ v = read
        \/ v = HandleError(HandleDisconnect(read))
        \/ v = HandleError(HandleDisconnect(HandleDisconnect(read)))
    BY <1>2, <2>1 DEF ReadData
  <2>3. w \in Worlds /\ w.net \in [DOMAIN w.net -> Socket] /\ DOMAIN w.net \subseteq Fds
    BY <1>0, NetIsFunction DEF SocketsInv, Worlds
  <2>4. w.sock \in DOMAIN w.net /\ w.net[w.sock] \in Socket
    BY <1>0, <1>2, <2>3 DEF SocketsInv
  <2> DEFINE x == [w.net[w.sock] EXCEPT !.data = FALSE]
  <2>5. /\ x \in Socket /\ x.peer = w.net[w.sock].peer
        /\ x.edges = w.net[w.sock].edges /\ x.sent = w.net[w.sock].sent
    BY <2>4 DEF Socket
  <2>6. n = [w.net EXCEPT ![w.sock] = x]
    OBVIOUS
  <2> HIDE DEF x, n
  <2>7. n \in [DOMAIN w.net -> Socket] /\ DOMAIN n = DOMAIN w.net /\ n[w.sock] = x
    BY <2>3, <2>4, <2>5, <2>6
  <2>8. n \in Nets
    BY <2>3, <2>7, FunctionIsNet
  <2>9. /\ read \in Worlds /\ read.net = n /\ read.sock = w.sock /\ read.state = w.state
        /\ read.handlers = w.handlers /\ read.tt = w.tt /\ read.attempts = w.attempts
    BY <2>3, <2>8 DEF Worlds
  <2> HIDE DEF read
  <2>10. SocketsInv(read) /\ TableInv(read.tt, c)
    BY <1>0, <2>7, <2>9 DEF SocketsInv
  <2>11. LinkInv(read, b, s) /\ RetryInv(read, d)
    BY <1>0, <2>5, <2>7, <2>9 DEF LinkInv, RetryInv, Retries, ToCome
  <2>12. /\ SocketsInv(HandleDisconnect(read)) /\ TableInv(HandleDisconnect(read).tt, c)
         /\ WorldInv(HandleDisconnect(read), c, b, s, d)
    BY <2>10, HandleDisconnectKeeps DEF WorldInv
  <2>13. /\ SocketsInv(HandleDisconnect(HandleDisconnect(read)))
         /\ TableInv(HandleDisconnect(HandleDisconnect(read)).tt, c)
    BY <2>12, HandleDisconnectKeeps DEF WorldInv
  <2>14. QED
    BY <2>2, <2>10, <2>11, <2>12, <2>13, HandleErrorKeeps DEF WorldInv
<1>3. QED
  BY <1>1, <1>2

LEMMA OnWritableKeeps ==
  ASSUME NEW w, NEW c, NEW b, NEW d, SocketsInv(w), TableInv(w.tt, c), w.sock # 0,
         w.net[w.sock].peer = "open", subs \subseteq Streams
  PROVE  WorldInv(OnWritable(w), c, b, subs, d)
<1> DEFINE x == [w.net[w.sock] EXCEPT !.sent = subs]
           n == [w.net EXCEPT ![w.sock] = x]
           v == [w EXCEPT !.state = "Connected", !.attempts = 0, !.net = n]
<1>1. OnWritable(w) = v
  BY DEF OnWritable
<1>2. w \in Worlds /\ w.net \in [DOMAIN w.net -> Socket] /\ DOMAIN w.net \subseteq Fds
  BY NetIsFunction DEF SocketsInv, Worlds
<1>3. w.sock \in DOMAIN w.net /\ w.net[w.sock] \in Socket
  BY <1>2 DEF SocketsInv
<1>4. x \in Socket /\ x.sent = subs
  BY <1>3 DEF Socket
<1> HIDE DEF x
<1>5. n \in [DOMAIN w.net -> Socket] /\ DOMAIN n = DOMAIN w.net /\ n[w.sock] = x
  BY <1>2, <1>3, <1>4
<1> HIDE DEF n
<1>6. n \in Nets
  BY <1>2, <1>5, FunctionIsNet
<1>7. /\ v \in Worlds /\ v.net = n /\ v.sock = w.sock /\ v.state = "Connected"
      /\ v.handlers = w.handlers /\ v.tt = w.tt
  <2>1. 0 \in 0..MaxAttempts
    OBVIOUS
  <2>2. QED
    BY <1>2, <1>6, <2>1 DEF Worlds
<1> HIDE DEF v
<1>8. QED
  BY <1>1, <1>4, <1>5, <1>7 DEF WorldInv, SocketsInv, LinkInv, RetryInv

(* The events of one descriptor, taken out of the batch: a connection under*)
(* way has had its answer handled, or has it still to come.                *)
LEMMA HandleEventsKeeps ==
  ASSUME ~IsFiniteSet(TimerIds), NEW w, NEW c, NEW d, subs \subseteq Streams,
         WorldInv(w, c, batch, subs, d), NEW fd \in DOMAIN batch, NEW v \in HandleEvents(w, batch[fd])
  PROVE  WorldInv(v, c, Handled(fd), subs, d)
<1> DEFINE ev == batch[fd]
           b == Handled(fd)
           writable == w.state = "Connecting" /\ "out" \in ev
           opened == IF writable THEN OnWritable(w) ELSE w
           failed == "err" \in ev \/ (writable /\ (w.sock = 0 \/ w.net[w.sock].peer = "broken"))
<1>1. SocketsInv(w) /\ TableInv(w.tt, c) /\ LinkInv(w, batch, subs) /\ RetryInv(w, d)
  BY DEF WorldInv
<1>2. CASE failed
  <2>1. v = HandleError(w)
    BY <1>2 DEF HandleEvents
  <2>2. QED
    BY <1>1, <2>1, HandleErrorKeeps
<1>3. CASE ~failed
  <2>1. ToCome(w, batch) \subseteq ToCome(w, b) \cup ev
    BY DEF ToCome, Handled
  <2>2. WorldInv(opened, c, b, subs, d)
    <3>1. CASE writable /\ w.net[w.sock].peer = "open"
      BY <1>1, <1>3, <3>1, OnWritableKeeps
    <3>2. CASE writable /\ w.net[w.sock].peer # "open"
      <4>1. opened = w
        BY <3>2 DEF OnWritable
      <4>2. w.net[w.sock].peer # "broken"
        BY <1>3, <3>2
      <4>3. LinkInv(w, b, subs)
        BY <1>1, <3>2, <4>2 DEF LinkInv
      <4>4. QED
        BY <1>1, <4>1, <4>3 DEF WorldInv
    <3>3. CASE ~writable
      <4>1. "err" \notin ev /\ (w.state = "Connecting" => "out" \notin ev)
        BY <1>3, <3>3
      <4>2. LinkInv(w, b, subs)
        BY <1>1, <2>1, <4>1 DEF LinkInv
      <4>3. QED
        BY <1>1, <3>3, <4>2 DEF WorldInv
    <3>4. QED
      BY <3>1, <3>2, <3>3
  <2> DEFINE readIn == IF "in" \in ev THEN ReadData(opened) ELSE {opened}
  <2>3. IF "hup" \in ev THEN v \in {HandleDisconnect(r) : r \in readIn} ELSE v \in readIn
    BY <1>3 DEF HandleEvents
  <2> HIDE DEF opened, b
  <2>4. \A r \in readIn : WorldInv(r, c, b, subs, d)
    BY <2>2, ReadDataKeeps
  <2> HIDE DEF readIn
  <2>5. CASE "hup" \in ev
    <3>1. PICK r \in readIn : v = HandleDisconnect(r)
      BY <2>3, <2>5
    <3>2. SocketsInv(r) /\ TableInv(r.tt, c)
      BY <2>4 DEF WorldInv
    <3>3. QED
      BY <3>1, <3>2, HandleDisconnectKeeps DEF b
  <2>6. CASE "hup" \notin ev
    BY <2>3, <2>4, <2>6 DEF b
  <2>7. QED
    BY <2>5, <2>6
<1>4. QED
  BY <1>2, <1>3

-------------------------------------------------------------------------------
(* The steps.                                                              *)

LEMMA WorldFields ==
  /\ World.state = state /\ World.sock = sock /\ World.attempts = attempts /\ World.net = net
  /\ World.handlers = fdHandlers /\ World.tt = TimerTable
  /\ TimerTable.queue = timers /\ TimerTable.map = timerMap
BY DEF World, TimerTable

LEMMA InvType == ASSUME IInv PROVE TypeOK
<1>1. World \in Worlds /\ TimerTable \in [queue : SUBSET Timer, map : SUBSET TimerIds]
  BY WorldFields DEF IInv, WorldInv, SocketsInv, TableInv
<1>2. /\ state \in {"Disconnected", "Connecting", "Connected", "Error"}
      /\ sock \in Fds \cup {0} /\ attempts \in 0..MaxAttempts /\ net \in Nets /\ fdHandlers \subseteq Fds
  BY <1>1, WorldFields DEF Worlds
<1>3. timers \subseteq Timer /\ timerMap \subseteq TimerIds
  BY <1>1, WorldFields
<1>4. DOMAIN net \subseteq Fds /\ \A f \in DOMAIN net : net[f] \in Socket
  BY <1>2, NetIsFunction
<1>5. QED
  BY <1>2, <1>3, <1>4 DEF IInv, RestInv, TypeOK, LoopTypeOK

LEMMA Becomes ==
  ASSUME NEW w, w \in Worlds, Become(w) PROVE World' = w
<1>1. w = [state |-> w.state, sock |-> w.sock, attempts |-> w.attempts, net |-> w.net,
           handlers |-> w.handlers, tt |-> w.tt]
  BY DEF Worlds
<1>2. w.tt = [queue |-> w.tt.queue, map |-> w.tt.map]
  BY DEF Worlds
<1>3. World' = [state |-> w.state, sock |-> w.sock, attempts |-> w.attempts, net |-> w.net,
                handlers |-> w.handlers, tt |-> [queue |-> w.tt.queue, map |-> w.tt.map]]
  BY DEF Become, World, TimerTable
<1>4. QED
  BY <1>1, <1>2, <1>3

LEMMA Same == ASSUME UNCHANGED <<state, sock, attempts, net, fdHandlers, timers, timerMap>> PROVE World' = World
BY DEF World, TimerTable

LEMMA InitInv == Init => IInv
<1> SUFFICES ASSUME Init PROVE IInv
  OBVIOUS
<1>1. RestInv
  <2>1. 0 \in 0..MaxPosted /\ 0 \in 0..MaxCalls /\ 0 \in 0..MaxFaults /\ DOMAIN <<>> = {}
    OBVIOUS
  <2>2. QED
    BY <2>1 DEF Init, LoopInit, RestInv
<1>2. World = [state |-> "Disconnected", sock |-> 0, attempts |-> 0, net |-> <<>>, handlers |-> {},
               tt |-> [queue |-> {}, map |-> {}]]
  BY DEF Init, LoopInit, World, TimerTable
<1>3. <<>> \in Nets /\ DOMAIN <<>> = {}
  <2>1. <<>> \in [{} -> Socket] /\ DOMAIN <<>> = {}
    OBVIOUS
  <2>2. QED
    BY <2>1, FunctionIsNet
<1>4. SocketsInv(World)
  <2>1. 0 \in 0..MaxAttempts
    OBVIOUS
  <2>2. QED
    BY <1>2, <1>3, <2>1 DEF SocketsInv, Worlds
<1>5. TableInv(World.tt, cancelled)
  BY <1>2, FS_EmptySet DEF TableInv, Init
<1>6. QED
  BY <1>1, <1>2, <1>4, <1>5 DEF IInv, WorldInv, LinkInv, RetryInv, Init

(* The loop's own steps, and what other threads do to it.                  *)
LEMMA LoopKeeps ==
  ASSUME IInv, SwapPosted \/ Interrupted \/ EndIteration \/ Run \/ Stop \/ Post,
         UNCHANGED <<clientVars, historyVars>>
  PROVE  IInv'
<1>1. UNCHANGED <<state, sock, attempts, net, fdHandlers, timers, timerMap, batch, cancelled, subs, wanted, calls, faults>>
  BY DEF SwapPosted, Interrupted, EndIteration, Run, Stop, Post, clientVars, historyVars
<1>2. World' = World
  BY <1>1, Same
<1>3. RestInv'
  <2>1. RestInv /\ 0 \in 0..MaxPosted /\ (posted < MaxPosted => posted + 1 \in 0..MaxPosted)
    BY DEF IInv, RestInv
  <2>2. CASE SwapPosted
    BY <1>1, <2>1, <2>2 DEF RestInv, SwapPosted
  <2>3. CASE Interrupted \/ EndIteration
    BY <1>1, <2>1, <2>3 DEF RestInv, Interrupted, EndIteration, NextIteration
  <2>4. CASE Run \/ Stop
    BY <1>1, <2>1, <2>4 DEF RestInv, Run, Stop
  <2>5. CASE Post
    BY <1>1, <2>1, <2>5 DEF RestInv, Post
  <2>6. QED
    BY <2>2, <2>3, <2>4, <2>5
<1>4. QED
  BY <1>1, <1>2, <1>3 DEF IInv

LEMMA OlderTimers ==
  ASSUME TableInv(TimerTable, cancelled), NEW passed \in Nat
  PROVE  LET older == [queue |-> {[t EXCEPT !.left = t.left - passed] : t \in timers}, map |-> timerMap]
         IN  /\ TableInv(older, cancelled)
             /\ \A t \in timers : \E u \in older.queue : u.id = t.id /\ u.what = t.what
<1> DEFINE Older(t) == [t EXCEPT !.left = t.left - passed]
           queue == {Older(t) : t \in timers}
           f == [t \in timers |-> Older(t)]
<1>1. /\ timers \subseteq Timer /\ timerMap \subseteq TimerIds /\ IsFiniteSet(timers)
      /\ cancelled \cap timerMap = {} /\ timerMap \cup cancelled = {u.id : u \in timers}
      /\ \A u, v \in timers : u.id = v.id => u = v
  BY DEF TableInv, TimerTable
<1>2. \A t \in timers : Older(t) \in Timer /\ Older(t).id = t.id /\ Older(t).what = t.what
  BY <1>1 DEF Timer
<1> HIDE DEF Older
<1>3. IsFiniteSet(queue)
  <2>1. f \in Surjection(timers, queue)
    BY DEF Surjection
  <2>2. QED
    BY <1>1, <2>1, FS_Surjection
<1>4. queue \subseteq Timer
  BY <1>2
<1>5. {u.id : u \in queue} = {t.id : t \in timers}
  BY <1>2
<1>6. \A u, v \in queue : u.id = v.id => u = v
  BY <1>1, <1>2
<1>7. \A t \in timers : \E u \in queue : u.id = t.id /\ u.what = t.what
  BY <1>2
<1> HIDE DEF queue
<1>8. TableInv([queue |-> queue, map |-> timerMap], cancelled)
  BY <1>1, <1>3, <1>4, <1>5, <1>6 DEF TableInv
<1>9. QED
  BY <1>7, <1>8 DEF queue, Older

(* epoll_wait: what is reported of a socket goes from the kernel into the  *)
(* batch, so that it stays to come.                                        *)
LEMMA WaitKeeps == ASSUME IInv, NEW passed \in Nat, WaitReady(passed) PROVE IInv'
<1> DEFINE older == [queue |-> {[t EXCEPT !.left = t.left - passed] : t \in timers}, map |-> timerMap]
<1>1. /\ lpc = "posted" /\ lpc' = "ready" /\ batch' = Ready /\ net' = Reported
      /\ timers' = older.queue /\ timerMap' = older.map
      /\ UNCHANGED <<running, posted, taken, fdHandlers, state, sock, attempts, subs, wanted, cancelled, calls, faults>>
  BY DEF WaitReady, Wait, historyVars
<1>2. RestInv /\ SocketsInv(World) /\ TableInv(TimerTable, cancelled) /\ LinkInv(World, batch, subs) /\ RetryInv(World, wanted)
  BY WorldFields DEF IInv, WorldInv
<1>3. DOMAIN batch = {}
  BY <1>1, <1>2 DEF RestInv
<1>4. /\ World \in Worlds /\ net \in [DOMAIN net -> Socket] /\ DOMAIN net \subseteq Fds
      /\ fdHandlers \subseteq DOMAIN net /\ (sock # 0 => sock \in DOMAIN net)
  BY <1>2, WorldFields, NetIsFunction DEF SocketsInv, Worlds
<1>5. /\ DOMAIN Ready = {g \in fdHandlers : net[g].edges # {}}
      /\ \A f \in DOMAIN Ready : Ready[f] = net[f].edges
  BY DEF Ready
<1>6. RestInv'
  BY <1>1, <1>2, <1>4, <1>5 DEF RestInv
<1>7. /\ Reported \in [DOMAIN net -> Socket] /\ DOMAIN Reported = DOMAIN net
      /\ \A f \in DOMAIN net : /\ Reported[f].peer = net[f].peer /\ Reported[f].sent = net[f].sent
                               /\ f \notin DOMAIN Ready => Reported[f].edges = net[f].edges
  <2>1. \A f \in DOMAIN net : LET x == [net[f] EXCEPT !.edges = {}] IN
          x \in Socket /\ x.peer = net[f].peer /\ x.sent = net[f].sent
    BY <1>4 DEF Socket
  <2>2. DOMAIN Reported = DOMAIN net
    BY DEF Reported
  <2>3. \A f \in DOMAIN net : Reported[f] = IF f \in DOMAIN Ready THEN [net[f] EXCEPT !.edges = {}] ELSE net[f]
    BY DEF Reported
  <2>4. \A f \in DOMAIN net : Reported[f] \in Socket
    BY <1>4, <2>1, <2>3
  <2>5. Reported \in [DOMAIN net -> Socket]
    BY <2>2, <2>4 DEF Reported
  <2>6. QED
    BY <2>1, <2>2, <2>3, <2>5
<1>8. Reported \in Nets
  BY <1>4, <1>7, FunctionIsNet
<1>9. TableInv(older, cancelled) /\ \A t \in timers : \E u \in older.queue : u.id = t.id /\ u.what = t.what
  BY <1>2, OlderTimers
<1> DEFINE w == [state |-> state, sock |-> sock, attempts |-> attempts, net |-> Reported,
                 handlers |-> fdHandlers, tt |-> older]
<1>10. World' = w
  BY <1>1 DEF World, TimerTable
<1>11. older \in [queue : SUBSET Timer, map : SUBSET TimerIds]
  BY <1>9 DEF TableInv
<1>12. /\ w.state = state /\ w.sock = sock /\ w.attempts = attempts /\ w.net = Reported
       /\ w.handlers = fdHandlers /\ w.tt = older /\ w.tt.map = timerMap
  OBVIOUS
<1>13. w \in Worlds
  BY <1>4, <1>8, <1>11, WorldFields DEF Worlds
<1> HIDE DEF w, older
<1>14. SocketsInv(w)
  BY <1>4, <1>7, <1>12, <1>13 DEF SocketsInv
<1>15. LinkInv(w, Ready, subs)
  <2>1. ASSUME state = "Connecting"
        PROVE  /\ sock \in fdHandlers /\ Reported[sock].peer = net[sock].peer
               /\ ToCome(World, batch) \subseteq ToCome(w, Ready)
    <3>1. sock \in fdHandlers
      BY <1>2, <2>1, WorldFields DEF LinkInv
    <3>2. ToCome(World, batch) = net[sock].edges
      BY <1>3, WorldFields DEF ToCome
    <3>3. ASSUME sock \in DOMAIN Ready PROVE ToCome(World, batch) \subseteq ToCome(w, Ready)
      <4>1. ToCome(w, Ready) = Reported[sock].edges \cup Ready[sock]
        BY <1>12, <3>3 DEF ToCome
      <4>2. Ready[sock] = net[sock].edges
        BY <1>5, <3>3
      <4>3. QED
        BY <3>2, <4>1, <4>2
    <3>4. ASSUME sock \notin DOMAIN Ready PROVE ToCome(World, batch) \subseteq ToCome(w, Ready)
      BY <1>4, <1>7, <1>12, <3>1, <3>2, <3>4 DEF ToCome
    <3>5. QED
      BY <1>4, <1>7, <3>1, <3>3, <3>4
  <2>2. ASSUME state = "Connected" PROVE sock # 0 /\ Reported[sock].sent = subs
    BY <1>2, <1>4, <1>7, <2>2, WorldFields DEF LinkInv
  <2>3. QED
    BY <1>2, <1>12, <2>1, <2>2, WorldFields DEF LinkInv
<1>16. RetryInv(w, wanted)
  BY <1>2, <1>9, <1>12, WorldFields DEF RetryInv, Retries
<1>17. QED
  BY <1>1, <1>6, <1>9, <1>10, <1>12, <1>14, <1>15, <1>16 DEF IInv, WorldInv

(* A step that makes the world w of the one there is, and leaves the rest  *)
(* of the loop in order.                                                   *)
LEMMA StepKeeps ==
  ASSUME RestInv', NEW w, WorldInv(w, cancelled', batch', subs', wanted'), Become(w)
  PROVE  IInv'
<1>1. World' = w
  BY Becomes DEF WorldInv, SocketsInv
<1>2. QED
  BY <1>1 DEF IInv

LEMMA PostedRest ==
  ASSUME RestInv, RunPosted, UNCHANGED calls \/ (calls < MaxCalls /\ calls' = calls + 1),
         subs' \subseteq Streams, wanted' \in BOOLEAN, cancelled' \subseteq TimerIds
  PROVE  RestInv' /\ batch' = batch
<1>1. /\ taken > 0 /\ taken' = taken - 1 /\ UNCHANGED <<running, lpc, posted, batch, faults>>
  BY DEF RunPosted
<1>2. taken' \in 0..MaxPosted /\ calls' \in 0..MaxCalls
  BY <1>1 DEF RestInv
<1>3. QED
  BY <1>1, <1>2 DEF RestInv

LEMMA PostedConnectKeeps == ASSUME ~IsFiniteSet(TimerIds), IInv, PostedConnect PROVE IInv'
<1>1. RestInv' /\ batch' = batch /\ subs' = subs /\ cancelled' = cancelled
  BY PostedRest DEF PostedConnect, Call, IInv, RestInv
<1>2. PICK w \in Connect(World) : Become(w)
  BY DEF PostedConnect
<1>3. SocketsInv(World) /\ TableInv(World.tt, cancelled) /\ LinkInv(World, batch, subs)
  BY DEF IInv, WorldInv
<1>4. WorldInv(w, cancelled, batch, subs, wanted')
  BY <1>3, ConnectKeeps
<1>5. QED
  BY <1>1, <1>2, <1>4, StepKeeps

LEMMA PostedDisconnectKeeps == ASSUME IInv, PostedDisconnect PROVE IInv'
<1>1. RestInv' /\ batch' = batch /\ subs' = subs /\ cancelled' = cancelled /\ wanted' = FALSE
  BY PostedRest DEF PostedDisconnect, Call, IInv, RestInv
<1>2. Become(Disconnect(World))
  BY DEF PostedDisconnect
<1>3. WorldInv(Disconnect(World), cancelled, batch, subs, FALSE)
  BY DisconnectKeeps DEF IInv, WorldInv, LinkInv, RetryInv
<1>4. QED
  BY <1>1, <1>2, <1>3, StepKeeps

LEMMA PostedIntervalKeeps == ASSUME ~IsFiniteSet(TimerIds), IInv, PostedInterval PROVE IInv'
<1> DEFINE tt == Schedule(TimerTable, 1, 1, "program")
           more == [World EXCEPT !.tt = tt]
<1>1. RestInv' /\ batch' = batch /\ subs' = subs /\ cancelled' = cancelled /\ wanted' = wanted
  BY PostedRest DEF PostedInterval, IInv, RestInv
<1>2. SocketsInv(World) /\ TableInv(TimerTable, cancelled) /\ LinkInv(World, batch, subs) /\ RetryInv(World, wanted)
  BY WorldFields DEF IInv, WorldInv
<1>3. [World EXCEPT !.tt = Schedule(@, 1, 1, "program")] = more
  BY WorldFields
<1>4. Become(World) \/ Become(more)
  BY <1>3 DEF PostedInterval
<1>5. 1 \in Int /\ 1 \in Nat /\ "program" \in Callbacks
  BY DEF Callbacks
<1>6. TableInv(tt, cancelled)
  BY <1>2, <1>5, ScheduleKeeps
<1>7. timers \subseteq tt.queue /\ timerMap \subseteq tt.map
  BY DEF Schedule, TimerTable
<1> HIDE DEF tt
<1>8. /\ more \in Worlds /\ more.state = state /\ more.sock = sock /\ more.attempts = attempts /\ more.net = net
      /\ more.handlers = fdHandlers /\ more.tt = tt
  <2>1. World \in Worlds /\ tt \in [queue : SUBSET Timer, map : SUBSET TimerIds]
    BY <1>2, <1>6 DEF SocketsInv, TableInv
  <2>2. QED
    BY <2>1, WorldFields DEF Worlds
<1> HIDE DEF more
<1>9. SocketsInv(more)
  BY <1>2, <1>8, WorldFields DEF SocketsInv
<1>10. LinkInv(more, batch, subs)
  BY <1>2, <1>8, WorldFields DEF LinkInv, ToCome
<1>11. RetryInv(more, wanted)
  BY <1>2, <1>7, <1>8, WorldFields DEF RetryInv, Retries
<1>12. WorldInv(more, cancelled, batch, subs, wanted) /\ WorldInv(World, cancelled, batch, subs, wanted)
  BY <1>6, <1>8, <1>9, <1>10, <1>11 DEF WorldInv, IInv
<1>13. QED
  BY <1>1, <1>4, <1>12, StepKeeps

(* The program cancels a timer of its own: no reconnection is lost.        *)
LEMMA PostedCancelKeeps == ASSUME IInv, PostedCancel PROVE IInv'
<1>1. RunPosted /\ UNCHANGED <<subs, wanted, calls>>
  BY DEF PostedCancel
<1>2. SocketsInv(World) /\ TableInv(TimerTable, cancelled) /\ LinkInv(World, batch, subs) /\ RetryInv(World, wanted)
  BY WorldFields DEF IInv, WorldInv
<1>3. ASSUME NEW id \in ProgramTimers, Become([World EXCEPT !.tt = CancelTimer(@, id)]),
             cancelled' = cancelled \cup {id}
      PROVE  IInv'
  <2> DEFINE tt == [queue |-> timers, map |-> timerMap \ {id}]
             less == [World EXCEPT !.tt = tt]
  <2>1. [World EXCEPT !.tt = CancelTimer(@, id)] = less
    BY WorldFields DEF CancelTimer, TimerTable
  <2>2. id \in timerMap /\ \E t \in timers : t.what = "program" /\ t.id = id
    BY DEF ProgramTimers
  <2>3. /\ timers \subseteq Timer /\ timerMap \subseteq TimerIds /\ IsFiniteSet(timers)
        /\ cancelled \cap timerMap = {} /\ timerMap \cup cancelled = {u.id : u \in timers}
        /\ \A u, v \in timers : u.id = v.id => u = v
    BY <1>2 DEF TableInv, TimerTable
  <2>4. TableInv(tt, cancelled')
    <3>1. (timerMap \ {id}) \cup cancelled' = {u.id : u \in timers} /\ cancelled' \cap (timerMap \ {id}) = {}
      BY <1>3, <2>2, <2>3
    <3>2. QED
      BY <2>3, <3>1 DEF TableInv
  <2>5. RestInv' /\ batch' = batch
    BY <1>1, <1>3, <2>2, <2>3, PostedRest DEF IInv, RestInv
  <2>6. \A t \in timers : t.what = "connect" /\ t.id \in timerMap => t.id \in tt.map
    BY <2>2, <2>3
  <2>7. tt.queue = timers
    OBVIOUS
  <2> HIDE DEF tt
  <2>8. /\ less \in Worlds /\ less.state = state /\ less.sock = sock /\ less.attempts = attempts /\ less.net = net
        /\ less.handlers = fdHandlers /\ less.tt = tt
    <3>1. World \in Worlds /\ tt \in [queue : SUBSET Timer, map : SUBSET TimerIds]
      BY <1>2, <2>4 DEF SocketsInv, TableInv
    <3>2. QED
      BY <3>1, WorldFields DEF Worlds
  <2> HIDE DEF less
  <2>9. SocketsInv(less) /\ LinkInv(less, batch, subs)
    BY <1>2, <2>8, WorldFields DEF SocketsInv, LinkInv, ToCome
  <2>10. RetryInv(less, wanted)
    BY <1>2, <2>6, <2>7, <2>8, WorldFields DEF RetryInv, Retries
  <2>11. WorldInv(less, cancelled', batch', subs', wanted')
    BY <1>1, <2>4, <2>5, <2>8, <2>9, <2>10 DEF WorldInv
  <2>12. QED
    BY <1>3, <2>1, <2>5, <2>11, StepKeeps
<1>4. ASSUME Become(World), UNCHANGED cancelled PROVE IInv'
  <2>1. RestInv' /\ batch' = batch
    BY <1>1, <1>4, PostedRest DEF IInv, RestInv
  <2>2. QED
    BY <1>1, <1>4, <2>1, StepKeeps DEF IInv
<1>5. QED
  BY <1>3, <1>4 DEF PostedCancel

LEMMA PostedSubscribeKeeps == ASSUME IInv, NEW s \in Streams, PostedSubscribe(s) PROVE IInv'
<1> DEFINE n == IF state = "Connected" /\ sock # 0 THEN [net EXCEPT ![sock].sent = @ \cup {s}] ELSE net
           w == [state |-> state, sock |-> sock, attempts |-> attempts, net |-> n,
                 handlers |-> fdHandlers, tt |-> TimerTable]
<1>1. /\ RunPosted /\ Call /\ subs' = subs \cup {s} /\ net' = n
      /\ UNCHANGED <<state, sock, attempts, wanted, fdHandlers, timers, timerMap, cancelled>>
  BY DEF PostedSubscribe, Call
<1>2. /\ RestInv /\ SocketsInv(World) /\ TableInv(TimerTable, cancelled)
      /\ LinkInv(World, batch, subs) /\ RetryInv(World, wanted)
  BY WorldFields DEF IInv, WorldInv
<1>3. RestInv' /\ batch' = batch
  BY <1>1, <1>2, PostedRest DEF Call, RestInv
<1>4. /\ World \in Worlds /\ net \in [DOMAIN net -> Socket] /\ DOMAIN net \subseteq Fds
      /\ fdHandlers \subseteq DOMAIN net /\ (sock # 0 => sock \in DOMAIN net)
  BY <1>2, WorldFields, NetIsFunction DEF SocketsInv, Worlds
<1>5. /\ n \in [DOMAIN net -> Socket] /\ DOMAIN n = DOMAIN net
      /\ state # "Connected" => n = net
      /\ state = "Connected" /\ sock # 0 => n[sock].sent = net[sock].sent \cup {s}
  <2>1. CASE state = "Connected" /\ sock # 0
    <3> DEFINE x == [net[sock] EXCEPT !.sent = net[sock].sent \cup {s}]
    <3>1. x \in Socket /\ x.sent = net[sock].sent \cup {s} /\ n = [net EXCEPT ![sock] = x]
      BY <1>4, <2>1 DEF Socket
    <3> HIDE DEF x
    <3>2. QED
      BY <1>4, <2>1, <3>1
  <2>2. CASE ~(state = "Connected" /\ sock # 0)
    BY <1>4, <2>2
  <2>3. QED
    BY <2>1, <2>2
<1> HIDE DEF n
<1>6. n \in Nets
  BY <1>4, <1>5, FunctionIsNet
<1>7. World' = w
  BY <1>1 DEF World, TimerTable
<1>8. /\ w.state = state /\ w.sock = sock /\ w.attempts = attempts /\ w.net = n
      /\ w.handlers = fdHandlers /\ w.tt = TimerTable
  OBVIOUS
<1>9. w \in Worlds
  BY <1>4, <1>6, WorldFields DEF Worlds
<1> HIDE DEF w
<1>10. SocketsInv(w)
  BY <1>4, <1>5, <1>8, <1>9 DEF SocketsInv
<1>11. LinkInv(w, batch, subs')
  BY <1>1, <1>2, <1>5, <1>8, WorldFields DEF LinkInv, ToCome
<1>12. RetryInv(w, wanted)
  BY <1>2, <1>8, WorldFields DEF RetryInv, Retries
<1>13. QED
  BY <1>1, <1>2, <1>3, <1>7, <1>8, <1>10, <1>11, <1>12 DEF IInv, WorldInv

LEMMA HandleReadyKeeps == ASSUME ~IsFiniteSet(TimerIds), IInv, NEW fd \in Fds, HandleReady(fd) PROVE IInv'
<1>1. /\ lpc = "ready" /\ fd \in DOMAIN batch /\ batch' = Handled(fd)
      /\ UNCHANGED <<running, lpc, posted, taken, subs, wanted, cancelled, calls, faults>>
  BY DEF HandleReady, NextReady, historyVars
<1>2. DOMAIN Handled(fd) \subseteq DOMAIN batch
  BY DEF Handled
<1>3. RestInv /\ WorldInv(World, cancelled, batch, subs, wanted)
  BY DEF IInv
<1>4. RestInv'
  BY <1>1, <1>2, <1>3 DEF RestInv
<1>5. CASE fd \in fdHandlers
  <2>1. PICK w \in HandleEvents(World, batch[fd]) : Become(w)
    BY <1>5 DEF HandleReady
  <2>2. subs \subseteq Streams
    BY <1>3 DEF RestInv
  <2>3. WorldInv(w, cancelled, Handled(fd), subs, wanted)
    BY <1>1, <1>3, <2>2, HandleEventsKeeps
  <2>4. QED
    BY <1>1, <1>4, <2>1, <2>3, StepKeeps
<1>6. CASE fd \notin fdHandlers
  <2>1. Become(World)
    BY <1>6 DEF HandleReady
  <2>2. LinkInv(World, Handled(fd), subs)
    <3>1. ASSUME state = "Connecting" PROVE sock # fd /\ ToCome(World, Handled(fd)) = ToCome(World, batch)
      <4>1. sock # fd
        BY <1>3, <1>6, <3>1, WorldFields DEF WorldInv, LinkInv
      <4>2. sock \in DOMAIN Handled(fd) <=> sock \in DOMAIN batch
        BY <4>1 DEF Handled
      <4>3. sock \in DOMAIN batch => Handled(fd)[sock] = batch[sock]
        BY <4>1 DEF Handled
      <4>4. QED
        BY <4>1, <4>2, <4>3, WorldFields DEF ToCome
    <3>2. QED
      BY <1>3, <3>1, WorldFields DEF WorldInv, LinkInv
  <2>3. WorldInv(World, cancelled, Handled(fd), subs, wanted)
    BY <1>3, <2>2 DEF WorldInv
  <2>4. QED
    BY <1>1, <1>4, <2>1, <2>3, StepKeeps
<1>7. QED
  BY <1>5, <1>6

(* The world as the callback of a timer finds it.                          *)
LEMMA PoppedWorld ==
  ASSUME IInv, NEW t \in timers, t.id \in timerMap, NEW tt, TableInv(tt, cancelled)
  PROVE  LET w == [World EXCEPT !.tt = tt]
         IN  /\ SocketsInv(w) /\ TableInv(w.tt, cancelled) /\ LinkInv(w, batch, subs)
             /\ w.state = state /\ w.attempts = attempts /\ w.tt = tt
<1> DEFINE w == [World EXCEPT !.tt = tt]
<1>1. SocketsInv(World) /\ LinkInv(World, batch, subs)
  BY DEF IInv, WorldInv
<1>2. tt \in [queue : SUBSET Timer, map : SUBSET TimerIds]
  BY DEF TableInv
<1>3. /\ w \in Worlds /\ w.state = state /\ w.sock = sock /\ w.attempts = attempts /\ w.net = net
      /\ w.handlers = fdHandlers /\ w.tt = tt
  BY <1>1, <1>2, WorldFields DEF SocketsInv, Worlds
<1> HIDE DEF w
<1>4. SocketsInv(w)
  BY <1>1, <1>3, WorldFields DEF SocketsInv
<1>5. LinkInv(w, batch, subs)
  BY <1>1, <1>3, WorldFields DEF LinkInv, ToCome
<1>6. SocketsInv(w) /\ TableInv(w.tt, cancelled) /\ LinkInv(w, batch, subs)
      /\ w.state = state /\ w.attempts = attempts /\ w.tt = tt
  BY <1>3, <1>4, <1>5
<1>7. QED
  BY <1>6 DEF w

LEMMA FireReconnectKeeps == ASSUME ~IsFiniteSet(TimerIds), IInv, NEW t \in timers, FireReconnect(t) PROVE IInv'
<1>1. /\ t.id \in timerMap
      /\ UNCHANGED <<running, lpc, posted, taken, batch, subs, wanted, cancelled, calls, faults>>
  BY DEF FireReconnect, historyVars
<1>2. RestInv' /\ TableInv(TimerTable, cancelled)
  BY <1>1, WorldFields DEF IInv, WorldInv, RestInv
<1>3. TableInv(Popped(t), cancelled)
  BY <1>1, <1>2, PopKeeps
<1> DEFINE p == [World EXCEPT !.tt = Popped(t)]
<1>4. SocketsInv(p) /\ TableInv(p.tt, cancelled) /\ LinkInv(p, batch, subs)
  BY <1>1, <1>3, PoppedWorld
<1>5. PICK w \in Connect(p) : Become(w)
  BY DEF FireReconnect
<1> HIDE DEF p
<1>6. WorldInv(w, cancelled, batch, subs, wanted)
  BY <1>4, ConnectKeeps
<1>7. QED
  BY <1>1, <1>2, <1>5, <1>6, StepKeeps

LEMMA FireProgramKeeps == ASSUME IInv, NEW t \in timers, FireProgram(t) PROVE IInv'
<1>1. /\ t.id \in timerMap /\ t.what = "program"
      /\ UNCHANGED <<running, lpc, posted, taken, batch, subs, wanted, cancelled, calls, faults>>
  BY DEF FireProgram, historyVars
<1>2. RestInv' /\ TableInv(TimerTable, cancelled) /\ RetryInv(World, wanted)
  BY <1>1, WorldFields DEF IInv, WorldInv, RestInv
<1> DEFINE tt == Requeued(t, Popped(t))
           p == [World EXCEPT !.tt = tt]
<1>3. TableInv(tt, cancelled) /\ CancelTimer(Popped(t), t.id) = Popped(t)
  BY <1>1, <1>2, PopKeeps
<1>4. Become(p)
  BY <1>3 DEF FireProgram
<1>5. \A u \in timers : u.what = "connect" /\ u.id \in timerMap => u \in tt.queue /\ u.id \in tt.map
  <2>1. \A u, v \in timers : u.id = v.id => u = v
    BY <1>2 DEF TableInv, TimerTable
  <2>2. \A u \in timers : u.what = "connect" /\ u.id \in timerMap => u \in Popped(t).queue /\ u.id \in Popped(t).map
    BY <1>1, <2>1 DEF Popped
  <2>3. Popped(t).queue \subseteq tt.queue /\ Popped(t).map \subseteq tt.map
    BY DEF Requeued
  <2>4. QED
    BY <2>2, <2>3
<1> HIDE DEF tt
<1>6. /\ SocketsInv(p) /\ TableInv(p.tt, cancelled) /\ LinkInv(p, batch, subs)
      /\ p.state = state /\ p.attempts = attempts /\ p.tt = tt
  BY <1>1, <1>3, PoppedWorld
<1> HIDE DEF p
<1>7. RetryInv(p, wanted)
  BY <1>2, <1>5, <1>6, WorldFields DEF RetryInv, Retries
<1>8. QED
  BY <1>1, <1>2, <1>4, <1>6, <1>7, StepKeeps DEF WorldInv

LEMMA DropCancelledKeeps == ASSUME IInv, NEW t \in timers, DropCancelled(t) PROVE IInv'
<1> DEFINE tt == [queue |-> timers \ {t}, map |-> timerMap]
           w == [World EXCEPT !.tt = tt]
<1>1. /\ t.id \notin timerMap /\ timers' = timers \ {t} /\ cancelled' = cancelled \ {t.id}
      /\ UNCHANGED <<running, lpc, posted, taken, batch, fdHandlers, timerMap, state, sock, attempts, subs, net, wanted, calls, faults>>
  BY DEF DropCancelled, SkipCancelled, clientVars
<1>2. /\ RestInv /\ SocketsInv(World) /\ TableInv(TimerTable, cancelled)
      /\ LinkInv(World, batch, subs) /\ RetryInv(World, wanted)
  BY WorldFields DEF IInv, WorldInv
<1>3. RestInv'
  BY <1>1, <1>2 DEF RestInv
<1>4. /\ timers \subseteq Timer /\ timerMap \subseteq TimerIds /\ IsFiniteSet(timers)
      /\ cancelled \cap timerMap = {} /\ timerMap \cup cancelled = {u.id : u \in timers}
      /\ \A u, v \in timers : u.id = v.id => u = v
  BY <1>2 DEF TableInv, TimerTable
<1>5. TableInv(tt, cancelled')
  <2>1. IsFiniteSet(timers \ {t})
    BY <1>4, FS_Subset
  <2>2. timerMap \cup (cancelled \ {t.id}) = {u.id : u \in timers \ {t}}
    BY <1>1, <1>4
  <2>3. QED
    BY <1>1, <1>4, <2>1, <2>2 DEF TableInv
<1>6. World' = w
  BY <1>1 DEF World, TimerTable
<1>7. \A u \in timers : u.id \in timerMap => u \in tt.queue
  BY <1>1
<1>8. tt.map = timerMap
  OBVIOUS
<1> HIDE DEF tt
<1>9. /\ w \in Worlds /\ w.state = state /\ w.sock = sock /\ w.attempts = attempts /\ w.net = net
      /\ w.handlers = fdHandlers /\ w.tt = tt
  <2>1. World \in Worlds /\ tt \in [queue : SUBSET Timer, map : SUBSET TimerIds]
    BY <1>2, <1>5 DEF SocketsInv, TableInv
  <2>2. QED
    BY <2>1, WorldFields DEF Worlds
<1> HIDE DEF w
<1>10. SocketsInv(w) /\ LinkInv(w, batch, subs)
  BY <1>2, <1>9, WorldFields DEF SocketsInv, LinkInv, ToCome
<1>11. RetryInv(w, wanted)
  BY <1>2, <1>7, <1>8, <1>9, WorldFields DEF RetryInv, Retries
<1>12. QED
  BY <1>1, <1>3, <1>5, <1>6, <1>9, <1>10, <1>11 DEF IInv, WorldInv

(* What the peer and the network do to a socket comes with its event.      *)
LEMMA PeerKeeps ==
  ASSUME IInv, NEW f \in DOMAIN net, NEW x \in Socket, Peer(f, x), faults' \in 0..MaxFaults,
         x.sent = net[f].sent, net[f].edges \subseteq x.edges,
         x.peer = net[f].peer \/ (x.peer = "open" /\ "out" \in x.edges) \/ (x.peer = "broken" /\ "err" \in x.edges)
  PROVE  IInv'
<1> DEFINE n == [net EXCEPT ![f] = x]
           w == [state |-> state, sock |-> sock, attempts |-> attempts, net |-> n,
                 handlers |-> fdHandlers, tt |-> TimerTable]
<1>1. /\ net' = n
      /\ UNCHANGED <<running, lpc, posted, taken, batch, fdHandlers, timers, timerMap, state, sock, attempts, subs, wanted, cancelled, calls>>
  BY DEF Peer, loopVars
<1>2. /\ RestInv /\ SocketsInv(World) /\ TableInv(TimerTable, cancelled)
      /\ LinkInv(World, batch, subs) /\ RetryInv(World, wanted)
  BY WorldFields DEF IInv, WorldInv
<1>3. RestInv'
  BY <1>1, <1>2 DEF RestInv
<1>4. /\ World \in Worlds /\ net \in [DOMAIN net -> Socket] /\ DOMAIN net \subseteq Fds
      /\ fdHandlers \subseteq DOMAIN net /\ (sock # 0 => sock \in DOMAIN net)
  BY <1>2, WorldFields, NetIsFunction DEF SocketsInv, Worlds
<1>5. n \in [DOMAIN net -> Socket] /\ DOMAIN n = DOMAIN net /\ n[f] = x /\ \A g \in DOMAIN net : g # f => n[g] = net[g]
  BY <1>4
<1> HIDE DEF n
<1>6. n \in Nets
  BY <1>4, <1>5, FunctionIsNet
<1>7. World' = w
  BY <1>1 DEF World, TimerTable
<1>8. /\ w.state = state /\ w.sock = sock /\ w.attempts = attempts /\ w.net = n
      /\ w.handlers = fdHandlers /\ w.tt = TimerTable
  OBVIOUS
<1>9. w \in Worlds
  BY <1>4, <1>6, WorldFields DEF Worlds
<1> HIDE DEF w
<1>10. SocketsInv(w)
  BY <1>4, <1>5, <1>8, <1>9 DEF SocketsInv
<1>11. LinkInv(w, batch, subs)
  <2>1. ASSUME sock \in DOMAIN net
        PROVE  /\ n[sock].sent = net[sock].sent /\ ToCome(World, batch) \subseteq ToCome(w, batch)
               /\ \/ n[sock].peer = net[sock].peer
                  \/ n[sock].peer = "open" /\ "out" \in ToCome(w, batch)
                  \/ n[sock].peer = "broken" /\ "err" \in ToCome(w, batch)
    <3>1. CASE sock = f
      BY <1>5, <1>8, <3>1, WorldFields DEF ToCome
    <3>2. CASE sock # f
      BY <1>5, <1>8, <2>1, <3>2, WorldFields DEF ToCome
    <3>3. QED
      BY <3>1, <3>2
  <2>2. state = "Connecting" \/ state = "Connected" => sock \in DOMAIN net
    BY <1>2, <1>4, WorldFields DEF LinkInv
  <2>3. QED
    BY <1>2, <1>8, <2>1, <2>2, WorldFields DEF LinkInv
<1>12. RetryInv(w, wanted)
  BY <1>2, <1>8, WorldFields DEF RetryInv, Retries
<1>13. QED
  BY <1>1, <1>2, <1>3, <1>7, <1>8, <1>10, <1>11, <1>12 DEF IInv, WorldInv

LEMMA NetworkKeeps == ASSUME IInv, Network PROVE IInv'
<1>1. PICK f \in DOMAIN net : Accepts(f) \/ Sends(f) \/ Closes(f) \/ Breaks(f)
  BY DEF Network
<1>2. net[f] \in Socket /\ faults \in 0..MaxFaults /\ (faults < MaxFaults => faults + 1 \in 0..MaxFaults)
  <2>1. TypeOK
    BY InvType
  <2>2. QED
    BY <2>1 DEF TypeOK
<1>3. ASSUME NEW e \in SUBSET Edges
      PROVE  /\ [net[f] EXCEPT !.peer = "open", !.edges = e] \in Socket
             /\ [net[f] EXCEPT !.peer = "broken", !.edges = e] \in Socket
             /\ [net[f] EXCEPT !.data = TRUE, !.edges = e] \in Socket
             /\ [net[f] EXCEPT !.fin = TRUE, !.edges = e] \in Socket
  BY <1>2 DEF Socket
<1>4. /\ net[f].edges \cup {"out"} \in SUBSET Edges /\ net[f].edges \cup {"in"} \in SUBSET Edges
      /\ net[f].edges \subseteq Edges /\ Edges \in SUBSET Edges /\ "err" \in Edges
  BY <1>2 DEF Socket, Edges
<1>5. CASE Accepts(f)
  <2> DEFINE x == [net[f] EXCEPT !.peer = "open", !.edges = net[f].edges \cup {"out"}]
  <2>1. x \in Socket /\ x.sent = net[f].sent /\ x.peer = "open" /\ x.edges = net[f].edges \cup {"out"}
    BY <1>2, <1>3, <1>4 DEF Socket
  <2>2. Peer(f, x) /\ faults' = faults
    BY <1>5 DEF Accepts
  <2> HIDE DEF x
  <2>3. QED
    BY <1>2, <2>1, <2>2, PeerKeeps
<1>6. CASE Sends(f)
  <2> DEFINE x == [net[f] EXCEPT !.data = TRUE, !.edges = net[f].edges \cup {"in"}]
  <2>1. x \in Socket /\ x.sent = net[f].sent /\ x.peer = net[f].peer /\ x.edges = net[f].edges \cup {"in"}
    BY <1>2, <1>3, <1>4 DEF Socket
  <2>2. Peer(f, x) /\ faults' = faults + 1 /\ faults < MaxFaults
    BY <1>6 DEF Sends
  <2> HIDE DEF x
  <2>3. QED
    BY <1>2, <2>1, <2>2, PeerKeeps
<1>7. CASE Closes(f)
  <2> DEFINE x == [net[f] EXCEPT !.fin = TRUE, !.edges = net[f].edges \cup {"in"}]
  <2>1. x \in Socket /\ x.sent = net[f].sent /\ x.peer = net[f].peer /\ x.edges = net[f].edges \cup {"in"}
    BY <1>2, <1>3, <1>4 DEF Socket
  <2>2. Peer(f, x) /\ faults' = faults + 1 /\ faults < MaxFaults
    BY <1>7 DEF Closes
  <2> HIDE DEF x
  <2>3. QED
    BY <1>2, <2>1, <2>2, PeerKeeps
<1>8. CASE Breaks(f)
  <2> DEFINE x == [net[f] EXCEPT !.peer = "broken", !.edges = Edges]
  <2>1. x \in Socket /\ x.sent = net[f].sent /\ x.peer = "broken" /\ x.edges = Edges
    BY <1>2, <1>3, <1>4 DEF Socket
  <2>2. Peer(f, x) /\ faults' = faults + 1 /\ faults < MaxFaults
    BY <1>8 DEF Breaks
  <2> HIDE DEF x
  <2>3. QED
    BY <1>2, <1>4, <2>1, <2>2, PeerKeeps
<1>9. QED
  BY <1>1, <1>5, <1>6, <1>7, <1>8

LEMMA Invariance == ASSUME ~IsFiniteSet(TimerIds) PROVE Spec => []IInv
<1>1. ASSUME IInv, [Next]_vars PROVE IInv'
  <2>1. CASE LoopStep
    <3>1. CASE (SwapPosted \/ Interrupted \/ EndIteration) /\ UNCHANGED <<clientVars, historyVars>>
      BY <1>1, <3>1, LoopKeeps
    <3>2. CASE WaitReady(0) \/ WaitReady(1)
      <4>1. 0 \in Nat /\ 1 \in Nat
        OBVIOUS
      <4>2. QED
        BY <1>1, <3>2, <4>1, WaitKeeps
    <3>3. CASE PostedConnect \/ PostedDisconnect \/ PostedInterval \/ PostedCancel
      BY <1>1, <3>3, PostedConnectKeeps, PostedDisconnectKeeps, PostedIntervalKeeps, PostedCancelKeeps
    <3>4. ASSUME NEW s \in Streams, PostedSubscribe(s) PROVE IInv'
      BY <1>1, <3>4, PostedSubscribeKeeps
    <3>5. ASSUME NEW fd \in Fds, HandleReady(fd) PROVE IInv'
      BY <1>1, <3>5, HandleReadyKeeps
    <3>6. ASSUME NEW t \in timers, FireReconnect(t) \/ FireProgram(t) \/ DropCancelled(t) PROVE IInv'
      BY <1>1, <3>6, FireReconnectKeeps, FireProgramKeeps, DropCancelledKeeps
    <3>7. QED
      BY <2>1, <3>1, <3>2, <3>3, <3>4, <3>5, <3>6 DEF LoopStep
  <2>2. CASE Network
    BY <1>1, <2>2, NetworkKeeps
  <2>3. CASE (Run \/ Stop \/ Post) /\ UNCHANGED <<clientVars, historyVars>>
    BY <1>1, <2>3, LoopKeeps
  <2>4. CASE UNCHANGED vars
    <3>1. World' = World /\ UNCHANGED <<batch, cancelled, subs, wanted>>
      BY <2>4, Same DEF vars, loopVars, clientVars, historyVars
    <3>2. RestInv'
      BY <1>1, <2>4 DEF vars, loopVars, clientVars, historyVars, IInv, RestInv
    <3>3. QED
      BY <1>1, <3>1, <3>2 DEF IInv
  <2>5. QED
    BY <1>1, <2>1, <2>2, <2>3, <2>4 DEF Next
<1>2. QED
  BY <1>1, InitInv, PTL DEF Spec

-------------------------------------------------------------------------------
(* Whatever callbacks, other threads and the network do: each timer that is*)
(* not cancelled is in the queue once, and a timer cancelled from anywhere *)
(* but its own callback does not fire again.                               *)
THEOREM TimersAreExact == ASSUME ~IsFiniteSet(TimerIds) PROVE Spec => []TimersExact
<1>1. IInv => TimersExact
  <2> SUFFICES ASSUME IInv PROVE TimersExact
    OBVIOUS
  <2>1. TypeOK
    BY InvType
  <2>2. TableInv(TimerTable, cancelled)
    BY WorldFields DEF IInv, WorldInv
  <2>3. QED
    BY <2>1, <2>2, WorldFields DEF TableInv, TimersExact
<1>2. QED
  BY <1>1, Invariance, PTL

(* The client always has an event or a timer to come that wakes it, unless *)
(* its attempts are used up; and one that is connected has asked for all of*)
(* its streams on the connection it is using.                              *)
THEOREM ClientIsNeverForgotten == ASSUME ~IsFiniteSet(TimerIds) PROVE Spec => []NeverForgotten
<1>1. IInv => NeverForgotten
  <2> SUFFICES ASSUME IInv PROVE NeverForgotten
    OBVIOUS
  <2>1. SocketsInv(World) /\ LinkInv(World, batch, subs) /\ RetryInv(World, wanted)
    BY DEF IInv, WorldInv
  <2>2. wanted /\ state \in {"Error", "Disconnected"} =>
          attempts = MaxAttempts \/ \E t \in timers : t.what = "connect" /\ t.id \in timerMap
    BY <2>1, WorldFields DEF RetryInv, Retries
  <2>3. ASSUME state = "Connecting"
        PROVE  /\ sock \in fdHandlers
               /\ net[sock].peer = "opening" \/ net[sock].edges # {} \/ sock \in DOMAIN batch
    <3>1. /\ sock \in fdHandlers
          /\ net[sock].peer = "open" => "out" \in ToCome(World, batch)
          /\ net[sock].peer = "broken" => "err" \in ToCome(World, batch)
      BY <2>1, <2>3, WorldFields DEF LinkInv
    <3>2. sock \in DOMAIN net
      BY <2>1, <3>1, WorldFields DEF SocketsInv
    <3>3. net[sock].peer \in {"opening", "open", "broken"}
      BY <3>2, InvType DEF TypeOK, Socket
    <3>4. ToCome(World, batch) # {} => net[sock].edges # {} \/ sock \in DOMAIN batch
      BY WorldFields DEF ToCome
    <3>5. QED
      BY <3>1, <3>3, <3>4
  <2>4. state = "Connected" => sock # 0 /\ net[sock].sent = subs
    BY <2>1, WorldFields DEF LinkInv
  <2>5. QED
    BY <2>2, <2>3, <2>4 DEF NeverForgotten
<1>2. QED
  BY <1>1, Invariance, PTL
===============================================================================
