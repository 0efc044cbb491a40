-------------------------------- MODULE EventBus --------------------------------
(***************************************************************************)
(* core/event_bus.hpp: the bus between the components.  publish() calls    *)
(* the handlers of the event's type and then the wildcard handlers, those  *)
(* of type None, all on the caller's stack; a handler may publish or       *)
(* subscribe, so that dispatches nest.  queue() puts an event into an      *)
(* MPSCQueue from any thread, which stands here as the ClaimQueue it       *)
(* implements; process_queued() takes events out and publishes them on the *)
(* bus's own thread, the queue's one consumer.                             *)
(*                                                                         *)
(* An event is its type.  What a queued event loses is not modelled:       *)
(* queue() keeps the base part of an event and drops the rest.  A handler  *)
(* is one subscription, and never subscribes to the list being walked,     *)
(* which the code leaves undefined.                                        *)
(***************************************************************************)
EXTENDS Integers, Sequences, FiniteSets

CONSTANTS
  Capacity,     \* slots of the queue
  Producers,    \* the threads that queue events
  EventTypes,   \* the events: one of each type
  MaxQueued,    \* bound on the number of events queued
  MaxRefused,   \* bound on the refused events of each thread
  None,         \* EventType::None, whose handlers see every event
  Handlers,     \* the subscriptions that may be made
  Batches,      \* arguments of process_queued(max_events)
  MaxDirect     \* bound on the events published without the queue

\* What the constants have to be; the run that instantiates the module assumes it.
BusAssumption ==
  /\ None \in EventTypes /\ Batches \subseteq Nat
  /\ {MaxQueued, MaxRefused, MaxDirect} \subseteq Nat

VARIABLES
  claimed, filled, popped, refused, filling,    \* the queue, see ClaimQueue
  handlers,     \* handlers_: for each type its handlers in order of subscription
  seqNum,       \* seq_num_
  stack,        \* the dispatches in progress, the innermost last
  batch,        \* what process_queued may still take; -1: not being called
  seen,         \* history: the events each handler was called with, by number
  published,    \* history: each event, and the dispatches it is nested in
  since         \* history: seq_num_ when a handler subscribed

Queue == INSTANCE ClaimQueue WITH Items <- EventTypes
queueVars == <<claimed, filled, popped, refused, filling>>
busVars == <<handlers, seqNum, stack, batch, seen, published, since>>
vars == <<queueVars, busVars>>

\* A dispatch: event n in the loop over the handlers of type "of", next the
\* one at "at"; "last" is the length of the list when the loop began.
Frame == [n : Nat, loop : {"typed", "wildcard"}, of : EventTypes, at : Nat, last : Nat]

Init ==
  /\ Queue!Init
  /\ handlers = [t \in EventTypes |-> <<>>]
  /\ seqNum = 0 /\ stack = <<>> /\ batch = -1
  /\ seen = [h \in Handlers |-> <<>>] /\ published = <<>>
  /\ since = [h \in Handlers |-> 0]

Top == stack[Len(stack)]
Running == stack # <<>>
\* Code of a handler runs: the top loop has called one, and not the next yet.
InHandler == Running /\ Top.at > 1
Subscribed(h, t) == \E i \in DOMAIN handlers[t] : handlers[t][i] = h

-------------------------------------------------------------------------------
(* subscribe(), publish()                                                  *)

\* subscribe(), between dispatches or from a handler.
Subscribe(h, t) ==
  /\ Running => InHandler
  /\ \A u \in EventTypes : ~Subscribed(h, u)
  /\ \A f \in DOMAIN stack : stack[f].of # t
  /\ handlers' = [handlers EXCEPT ![t] = Append(@, h)]
  /\ since' = [since EXCEPT ![h] = seqNum]
  /\ UNCHANGED <<queueVars, seqNum, stack, batch, seen, published>>

\* The entry of publish(): number the event and find the handlers of its type.
Enter(t, q) ==
  /\ seqNum' = seqNum + 1
  /\ stack' = Append(stack, [n |-> seqNum + 1, loop |-> "typed", of |-> t,
                             at |-> 1, last |-> Len(handlers[t])])
  /\ published' = Append(published, [type |-> t, queued |-> q, within |-> {stack[f].n : f \in DOMAIN stack}])
  /\ UNCHANGED <<handlers, seen, since>>

\* publish() or publish_prestamped(), from a handler or outside process_queued.
Publish(t) ==
  /\ Running => InHandler
  /\ ~Running => batch = -1
  /\ Cardinality({n \in DOMAIN published : ~published[n].queued}) < MaxDirect
  /\ Enter(t, FALSE)
  /\ UNCHANGED <<queueVars, batch>>

SetTop(f) == [stack EXCEPT ![Len(stack)] = f]

Deliver ==
  /\ Running /\ Top.at <= Top.last
  /\ seen' = [seen EXCEPT ![handlers[Top.of][Top.at]] = Append(@, Top.n)]
  /\ stack' = SetTop([Top EXCEPT !.at = @ + 1])
  /\ UNCHANGED <<queueVars, handlers, seqNum, batch, published, since>>

\* Mutant: no handler of the type, and the wildcard handlers are not looked for.
ToWildcards_OnlyIfTyped ==
  /\ Running /\ Top.loop = "typed" /\ Top.at > Top.last
  /\ stack' = SetTop([Top EXCEPT !.loop = "wildcard", !.of = None, !.at = 1,
                                 !.last = IF Top.last = 0 THEN 0 ELSE Len(handlers[None])])
  /\ UNCHANGED <<queueVars, handlers, seqNum, batch, seen, published, since>>
ToWildcards ==
  /\ Running /\ Top.loop = "typed" /\ Top.at > Top.last
  /\ stack' = SetTop([Top EXCEPT !.loop = "wildcard", !.of = None, !.at = 1,
                                 !.last = Len(handlers[None])])
  /\ UNCHANGED <<queueVars, handlers, seqNum, batch, seen, published, since>>

EndPublish ==
  /\ Running /\ Top.loop = "wildcard" /\ Top.at > Top.last
  /\ stack' = SubSeq(stack, 1, Len(stack) - 1)
  /\ UNCHANGED <<queueVars, handlers, seqNum, batch, seen, published, since>>

Dispatch == Deliver \/ ToWildcards \/ EndPublish

-------------------------------------------------------------------------------
(* queue() and process_queued()                                            *)

\* queue(), by another thread.
QueueStep(p) ==
  /\ \/ Queue!Fill(p)
     \/ refused[p] < MaxRefused /\ Queue!Refuse(p)
     \/ Len(claimed) < MaxQueued /\ \E t \in EventTypes : Queue!Claim(p, t)
  /\ UNCHANGED busVars

\* The thread that has claimed a slot stores its event.
FillStep(p) == Queue!Fill(p) /\ UNCHANGED busVars

\* A batch of more than MaxQueued is process_queued() without a maximum.
ProcessQueued(max) ==
  /\ ~Running /\ batch = -1
  /\ batch' = max
  /\ UNCHANGED <<queueVars, handlers, seqNum, stack, seen, published, since>>

\* Mutant: the count is tested once the event has been taken.
TakeQueued_CountedLate ==
  /\ ~Running /\ batch >= 0
  /\ Queue!Pop
  /\ IF batch = 0 THEN UNCHANGED <<handlers, seqNum, stack, seen, published, since>>
     ELSE Enter(popped'[Len(popped')], TRUE)
  /\ batch' = batch - 1
TakeQueued ==
  /\ ~Running /\ batch > 0
  /\ Queue!Pop
  /\ Enter(popped'[Len(popped')], TRUE)
  /\ batch' = batch - 1

\* Mutant: a batch that is used up is never told from one in progress.
EndQueued_OnlyEmpty ==
  /\ ~Running
  /\ batch > 0 /\ ~ENABLED Queue!Pop
  /\ batch' = -1
  /\ UNCHANGED <<queueVars, handlers, seqNum, stack, seen, published, since>>
EndQueued ==
  /\ ~Running
  /\ batch = 0 \/ (batch > 0 /\ ~ENABLED Queue!Pop)
  /\ batch' = -1
  /\ UNCHANGED <<queueVars, handlers, seqNum, stack, seen, published, since>>

BusStep == Dispatch \/ (\E m \in Batches : ProcessQueued(m)) \/ TakeQueued \/ EndQueued

Next ==
  \/ \E p \in Producers : QueueStep(p)
  \/ BusStep
  \/ \E t \in EventTypes : Publish(t)
  \/ \E h \in Handlers, t \in EventTypes : Subscribe(h, t)

\* Every thread that has claimed a slot goes on and fills it, and the bus's
\* thread returns from its handlers and calls process_queued again and again.
Fairness ==
  /\ \A p \in Producers : WF_vars(FillStep(p))
  /\ WF_vars(BusStep)

Spec == Init /\ [][Next]_vars /\ Fairness

-------------------------------------------------------------------------------
TypeOK ==
  /\ handlers \in [EventTypes -> Seq(Handlers)] /\ seqNum \in Nat
  /\ stack \in Seq(Frame) /\ batch \in Nat \cup {-1}
  /\ seen \in [Handlers -> Seq(Nat)] /\ since \in [Handlers -> Nat]
  /\ published \in Seq([type : EventTypes, queued : BOOLEAN, within : SUBSET Nat])

Times(h, n) == Cardinality({i \in DOMAIN seen[h] : seen[h][i] = n})
Queued == {n \in DOMAIN published : published[n].queued}
Dispatched(n) == \A f \in DOMAIN stack : stack[f].n # n

\* DispatchExact: whatever handlers publish and subscribe while a dispatch is
\* going on, a dispatch that is over has called each handler that had
\* subscribed before it exactly once (a wildcard handler twice with an event of
\* type None), and one that subscribed later at most once.  A handler sees
\* events out of the order of their numbers only when the one it sees first was
\* published from inside the dispatch of the other.  What came through the
\* queue is published once, in the order of acceptance, and never inside
\* another dispatch.
DispatchExact ==
  /\ TypeOK
  /\ \A n \in DOMAIN published, h \in Handlers :
       LET t == published[n].type
           due == Cardinality({u \in {<<"typed", t>>, <<"wildcard", None>>} : Subscribed(h, u[2])})
       IN  /\ Times(h, n) <= due
           /\ Dispatched(n) /\ since[h] < n => Times(h, n) = due
  /\ \A h \in Handlers : \A i, j \in DOMAIN seen[h] :
       i < j /\ seen[h][i] > seen[h][j] => seen[h][j] \in published[seen[h][i]].within
  /\ Cardinality(Queued) = Len(popped)
  /\ \A n \in Queued :
       published[n] = [type |-> popped[Cardinality({m \in Queued : m <= n})], queued |-> TRUE, within |-> {}]

\* QueuedIsPublished: every event that queue() accepts is taken out and its
\* dispatch comes to an end, however the batches cut the queue.
QueuedIsPublished == \A n \in 1..MaxQueued : Len(claimed) >= n ~> Len(popped) >= n /\ ~Running
===============================================================================
