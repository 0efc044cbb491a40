------------------------------- MODULE EventLoop -------------------------------
(***************************************************************************)
(* core/event_loop.hpp: the epoll loop.  One thread runs posted callbacks, *)
(* waits, handles the descriptors that are ready and fires the timers that *)
(* are due, over and over; other threads post callbacks and stop it.       *)
(*                                                                         *)
(* Callbacks run to completion, so that each is one step; what it does is  *)
(* given by the module that uses the loop, and what a posted one does is   *)
(* chosen when it runs.  Time passes while the loop waits: a timer carries *)
(* the time it has left.  An id is given again once nothing in the loop or *)
(* the program mentions it any more.                                       *)
(***************************************************************************)
EXTENDS Integers, FiniteSets

CONSTANTS
  Fds,          \* descriptors a program may open, other than the loop's own
  TimerIds,     \* timers that may exist at a time
  MaxPosted     \* bound on the callbacks waiting to run

ASSUME FdAssumption == Fds \subseteq Nat \ {0} /\ IsFiniteSet(Fds)
ASSUME PostedAssumption == MaxPosted \in Nat

VARIABLES
  running,      \* running_
  lpc,          \* where the loop's thread is
  posted,       \* pending_callbacks_: their number
  taken,        \* the callbacks this iteration has swapped out
  batch,        \* what epoll_wait returned and is not handled yet: fd -> events
  fdHandlers,   \* fd_handlers_, and the descriptors epoll watches
  timers,       \* timer_queue_
  timerMap      \* timer_map_: the ids of the timers not cancelled

loopVars == <<running, lpc, posted, taken, batch, fdHandlers, timers, timerMap>>

\* What the timers of a feed do: connect again, or call back the program.
Callbacks == {"connect", "program"}
Timer == [id : TimerIds, left : Int, every : Nat, what : Callbacks]

LoopTypeOK ==
  /\ running \in BOOLEAN /\ lpc \in {"out", "top", "posted", "ready"}
  /\ posted \in 0..MaxPosted /\ taken \in 0..MaxPosted
  /\ DOMAIN batch \subseteq Fds /\ fdHandlers \subseteq Fds
  /\ timers \subseteq Timer /\ timerMap \subseteq TimerIds

LoopInit ==
  /\ running = FALSE /\ lpc = "out" /\ posted = 0 /\ taken = 0 /\ batch = <<>>
  /\ fdHandlers = {} /\ timers = {} /\ timerMap = {}

-------------------------------------------------------------------------------
(* schedule_timer(), schedule_interval(): "tt" is the queue and the map.   *)
TimerTable == [queue |-> timers, map |-> timerMap]
FreeIds(tt) == TimerIds \ ({t.id : t \in tt.queue} \cup tt.map)

Schedule(tt, delay, every, what) ==
  LET id == CHOOSE i \in FreeIds(tt) : TRUE
  IN  [queue |-> tt.queue \cup {[id |-> id, left |-> delay, every |-> every, what |-> what]},
       map   |-> tt.map \cup {id}]

\* Mutant: the id stays in the map.
CancelTimer_Kept(tt, id) == tt
CancelTimer(tt, id) == [tt EXCEPT !.map = @ \ {id}]

-------------------------------------------------------------------------------
(* post() and stop(), from any thread, and the loop's own steps.           *)

Post ==
  /\ posted < MaxPosted
  /\ posted' = posted + 1
  /\ UNCHANGED <<running, lpc, taken, batch, fdHandlers, timers, timerMap>>

Stop ==
  /\ running' = FALSE
  /\ UNCHANGED <<lpc, posted, taken, batch, fdHandlers, timers, timerMap>>

\* run() sets running_, whatever stop() has done before.
Run ==
  /\ lpc = "out"
  /\ running' = TRUE /\ lpc' = "top"
  /\ UNCHANGED <<posted, taken, batch, fdHandlers, timers, timerMap>>

SwapPosted ==
  /\ lpc = "top"
  /\ taken' = posted /\ posted' = 0 /\ lpc' = "posted"
  /\ UNCHANGED <<running, batch, fdHandlers, timers, timerMap>>

NextIteration == IF running THEN "top" ELSE "out"

\* epoll_wait() returns the descriptors that are ready, and time has passed.
\* The timeout bounds it, so that it returns though nothing is ready.
Wait(ready, passed) ==
  /\ lpc = "posted" /\ taken = 0
  /\ batch' = ready
  /\ timers' = {[t EXCEPT !.left = @ - passed] : t \in timers}
  /\ lpc' = "ready"
  /\ UNCHANGED <<running, posted, taken, fdHandlers, timerMap>>

\* epoll_wait() fails, as with EINTR: no timer is looked at.
Interrupted ==
  /\ lpc = "posted" /\ taken = 0
  /\ lpc' = NextIteration
  /\ UNCHANGED <<running, posted, taken, batch, fdHandlers, timers, timerMap>>

\* An event whose descriptor has no handler any more is dropped.
NextReady(fd) == lpc = "ready" /\ fd \in DOMAIN batch
Handled(fd) == [f \in DOMAIN batch \ {fd} |-> batch[f]]

\* The timer at the top of the queue, when it is due.
Due(t) ==
  /\ lpc = "ready" /\ DOMAIN batch = {}
  /\ t \in timers /\ t.left <= 0
  /\ \A u \in timers : t.left <= u.left

SkipCancelled(t) ==
  /\ Due(t) /\ t.id \notin timerMap
  /\ timers' = timers \ {t}
  /\ UNCHANGED <<running, lpc, posted, taken, batch, fdHandlers, timerMap>>

\* The table as the callback of t finds it, and what becomes of the table it
\* leaves: an interval timer goes back into the queue and into the map, though
\* its own callback may have cancelled it.
Popped(t) == [queue |-> timers \ {t}, map |-> timerMap \ {t.id}]
Requeued(t, tt) ==
  IF t.every = 0 THEN tt
  ELSE [queue |-> tt.queue \cup {[t EXCEPT !.left = t.every]}, map |-> tt.map \cup {t.id}]

EndIteration ==
  /\ lpc = "ready" /\ DOMAIN batch = {} /\ \A t \in timers : t.left > 0
  /\ lpc' = NextIteration
  /\ UNCHANGED <<running, posted, taken, batch, fdHandlers, timers, timerMap>>
===============================================================================
