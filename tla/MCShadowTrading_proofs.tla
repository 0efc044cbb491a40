------------------------ MODULE MCShadowTrading_proofs -------------------------
(***************************************************************************)
(* Proofs about ShadowTrading, for every set of strategies, orders and     *)
(* limits, on what MatchingEngine_proofs says of the exchange; and about   *)
(* RiskManager, for every set of symbols, prices and quantities.           *)
(***************************************************************************)
EXTENDS MCShadowTrading, Lemmas, TLAPS

-------------------------------------------------------------------------------
(* The exchange of ShadowTrading is the one MatchingEngine_proofs is about.*)

Book == INSTANCE MatchingEngine_proofs

LEMMA BookAssumptions ==
  /\ Prices \subseteq Int /\ Prices # {}
  /\ MaxOrders \in Nat
  /\ Orders # {} /\ Orders \subseteq [side : Book!Sides, type : Book!OrderTypes, price : Prices, quantity : Int]
  /\ Sizes \subseteq Int
BY ExchangeAssumption DEF Exchange!Sides, Exchange!OrderTypes, Book!Sides, Book!OrderTypes

LEMMA SameTypes == (Exchange!TypeOK <=> Book!TypeOK) /\ (Exchange!TypeOK' <=> Book!TypeOK')
BY DEF Exchange!TypeOK, Exchange!BookTypeOK, Exchange!Ids, Exchange!Sides, Exchange!BookOrder, Exchange!Statuses,
       Book!TypeOK, Book!BookTypeOK, Book!Ids, Book!Sides, Book!BookOrder, Book!Statuses

LEMMA SameInit == Exchange!Init => Book!Init
BY DEF Exchange!Init, Exchange!BookInit, Exchange!Ids, Exchange!Sides, Exchange!NoReport,
       Book!Init, Book!BookInit, Book!Ids, Book!Sides, Book!NoReport

LEMMA SameSubmit == ASSUME NEW o \in Orders, Exchange!Submit(o) PROVE Book!Submit(o)
BY SMTT(40) DEF Exchange!Submit, Exchange!SubmitInvalid, Exchange!SubmitMarket, Exchange!SubmitLimit, Exchange!SubmitIOC,
       Exchange!SubmitFOK, Exchange!KillFOK, Exchange!Invalid, Exchange!Arrive, Exchange!bookVars, Exchange!Execute,
       Exchange!NoReport, Exchange!AvailableLiquidity, Exchange!Crosses, Exchange!SideOf, Exchange!Opposite,
       Exchange!Acceptable, Exchange!BestTotals, Exchange!IsFront, Exchange!Better, Exchange!CanFillOrKill, Exchange!Min,
       Book!Submit, Book!SubmitInvalid, Book!SubmitMarket, Book!SubmitLimit, Book!SubmitIOC,
       Book!SubmitFOK, Book!KillFOK, Book!Invalid, Book!Arrive, Book!bookVars, Book!Execute,
       Book!NoReport, Book!AvailableLiquidity, Book!Crosses, Book!SideOf, Book!Opposite,
       Book!Acceptable, Book!BestTotals, Book!IsFront, Book!Better, Book!CanFillOrKill, Book!Min

LEMMA SameNextLevel == Exchange!NextLevel => Book!NextLevel
BY DEF Exchange!NextLevel, Exchange!Unfilled, Exchange!Crosses, Exchange!SideOf, Exchange!Opposite, Exchange!Acceptable,
       Exchange!BestTotals, Exchange!IsFront, Exchange!Better, Exchange!bookVars, Exchange!Min,
       Book!NextLevel, Book!Unfilled, Book!Crosses, Book!SideOf, Book!Opposite, Book!Acceptable,
       Book!BestTotals, Book!IsFront, Book!Better, Book!bookVars, Book!Min

LEMMA SameFillFront == Exchange!FillFront => Book!FillFront
BY DEF Exchange!FillFront, Exchange!IsFront, Exchange!SideOf, Exchange!Better, Exchange!Opposite, Exchange!Min,
       Exchange!Remaining, Exchange!FillOrder, Exchange!TotalAfter, Exchange!Level, Exchange!TakerId, Exchange!Ids,
       Book!FillFront, Book!IsFront, Book!SideOf, Book!Better, Book!Opposite, Book!Min,
       Book!Remaining, Book!FillOrder, Book!TotalAfter, Book!Level, Book!TakerId, Book!Ids

LEMMA SameEnds ==
  /\ Exchange!EndExecute => Book!EndExecute
  /\ Exchange!RestRemainder => Book!RestRemainder
  /\ Exchange!LimitFilled => Book!LimitFilled
  /\ Exchange!PublishExecution => Book!PublishExecution
BY DEF Exchange!EndExecute, Exchange!SideOf, Exchange!Opposite, Exchange!CleanUpIndex, Exchange!Level, Exchange!FinalStatus,
       Exchange!Unfilled, Exchange!RestRemainder, Exchange!Crosses, Exchange!Acceptable, Exchange!AddOrder,
       Exchange!Remainder, Exchange!TakerId, Exchange!LimitFilled, Exchange!bookVars, Exchange!PublishExecution,
       Exchange!NoReport,
       Book!EndExecute, Book!SideOf, Book!Opposite, Book!CleanUpIndex, Book!Level, Book!FinalStatus,
       Book!Unfilled, Book!RestRemainder, Book!Crosses, Book!Acceptable, Book!AddOrder,
       Book!Remainder, Book!TakerId, Book!LimitFilled, Book!bookVars, Book!PublishExecution,
       Book!NoReport

(* What the proofs about the exchange give for its steps here.             *)
LEMMA BookInvariant == Book!Init => Book!IInv /\ Book!Reported
BY BookAssumptions, Book!InitIInv, Book!InitReported

LEMMA BookStep ==
  Book!IInv /\ Book!Reported /\ [Book!Trading]_(Book!vars) => Book!IInv' /\ Book!Reported'
<1>1. Book!Trading => Book!Next
  BY DEF Book!Trading, Book!Next
<1>2. QED
  BY <1>1, BookAssumptions, Book!NextIInv, Book!NextReported

LEMMA BookSubmit ==
  ASSUME Book!IInv, NEW o \in Orders, Book!Submit(o)
  PROVE  /\ pc = "idle" /\ nextClient <= MaxOrders /\ pc' # "idle"
         /\ taker' = o /\ nextClient' = nextClient + 1
         /\ resting' = resting /\ restingOrders' = restingOrders
<1>1. /\ pc = "idle" /\ nextClient <= MaxOrders
      /\ taker' = o /\ nextClient' = nextClient + 1
      /\ UNCHANGED <<Book!bookVars, restingOrders>>
      /\ pc' \in {"match", "fill", "publish"}
  BY BookAssumptions, Book!SubmitFacts
<1>2. QED
  BY <1>1 DEF Book!bookVars

LEMMA BookKeepsCall ==
  ASSUME Book!IInv, \/ Book!NextLevel \/ Book!FillFront \/ Book!EndExecute
                    \/ Book!RestRemainder \/ Book!LimitFilled
  PROVE  /\ pc # "idle" /\ pc' # "idle" /\ taker' = taker /\ nextClient' = nextClient
         /\ \A c \in Tickets : restingOrders'[c] \in resting' => restingOrders[c] \in resting \/ c = nextClient - 1
<1>1. /\ pc # "idle" /\ pc' # "idle" /\ taker' = taker /\ nextClient' = nextClient
      /\ \A c \in Book!Ids : restingOrders'[c] \in resting' => restingOrders[c] \in resting \/ c = Book!TakerId
  BY BookAssumptions, Book!MatchKeepsCall
<1>2. QED
  BY <1>1 DEF Book!Ids, Book!TakerId, Tickets

(* The parts of the exchange's invariant that are needed here.             *)
LEMMA BookTypes ==
  ASSUME Book!IInv
  PROVE  /\ nextClient \in Int /\ nextClient >= 1 /\ nextClient <= MaxOrders + 1
         /\ taker \in Orders /\ report.filled \in Int
         /\ resting \subseteq Tickets /\ 0 \notin resting
         /\ \A c \in Tickets : c >= nextClient => restingOrders[c] = 0
         /\ pc # "idle" => nextClient - 1 \in Tickets
<1>1. /\ nextClient \in 1..(MaxOrders + 1)
      /\ taker \in Orders /\ report.filled \in Int
      /\ resting \subseteq Tickets /\ 0 \notin resting
      /\ \A c \in Tickets : c >= nextClient => restingOrders[c] = 0
      /\ pc # "idle" => nextClient > 1
  BY DEF Book!IInv, Book!TypeOK, Book!BookTypeOK, Book!Ids, Book!Ownership, Book!Numbering, Tickets
<1>2. QED
  BY <1>1, BookAssumptions DEF Tickets

LEMMA QuantityOfOrder == ASSUME NEW o \in Orders PROVE o.quantity \in Int
BY ExchangeAssumption

-------------------------------------------------------------------------------
(* The inductive invariant of the order path.                              *)

\* An order can be on its way only when the engine has subscribed to it.
Listening ==
  /\ subscriptions = 0 => ~running /\ \A s \in Strategies : state[s] \notin {"Running", "Paused"}
  /\ ~Idle => subscriptions >= 1 /\ current.id # 0
  /\ Idle => pc = "idle"

\* An order on its way is the newest, was within the position limit when it was
\* checked, and nothing has changed since; it is pending until it is answered.
OnItsWay ==
  /\ current.deliveries \in {0, 1}
  /\ current.id \in pending[current.strategy]
  /\ WithinPosition(current.strategy, current.order)
  /\ current.deliveries = 1 => pc = "idle" /\ current.id = nextClient
  /\ current.deliveries = 0 =>
       /\ pc # "idle" /\ current.id = nextClient - 1 /\ taker = current.order
       /\ sender[current.id].strategy = current.strategy

\* Each submission carries the id of the order it is of, and one that rests is known.
Known ==
  /\ \A s \in Strategies : Abs(position[s]) <= MaxPosition
  /\ \A t \in Tickets : t < nextClient => sender[t].id = t
  /\ \A t \in Tickets : restingOrders[t] \in resting =>
       t \in pending[sender[t].strategy] \cup cancelled[sender[t].strategy]

PathInv ==
  /\ Book!IInv /\ Book!Reported /\ TypeOK /\ Listening
  /\ subscriptions <= 1 => Known /\ (~Idle => OnItsWay)

LEMMA PathInvImplies == PathInv => OrdersAreTracked
<1> SUFFICES ASSUME PathInv, subscriptions <= 1, NEW t \in Tickets, restingOrders[t] \in resting
             PROVE  sender[t].id \in pending[sender[t].strategy] \cup cancelled[sender[t].strategy]
  BY DEF PathInv, Known, OrdersAreTracked
<1>1. t < nextClient
  BY BookTypes DEF PathInv, Tickets
<1>2. QED
  BY <1>1 DEF PathInv, Known

LEMMA NoEventTyped ==
  /\ NoOrder \in Orders
  /\ NoEvent \in [strategy : Strategies, order : Orders, id : Tickets \cup {0}, deliveries : 0..MaxStarts]
  /\ NoEvent.id = 0 /\ NoEvent.deliveries = 0
  /\ NoSender \in [strategy : Strategies, id : Tickets \cup {0}]
<1>1. NoOrder \in Orders /\ (CHOOSE s \in Strategies : TRUE) \in Strategies
  BY ExchangeAssumption, EngineAssumption DEF NoOrder
<1>2. 0 \in 0..MaxStarts
  BY EngineAssumption
<1>3. QED
  BY <1>1, <1>2 DEF NoEvent, NoSender

LEMMA PathInit == Init => PathInv
<1> SUFFICES ASSUME Init PROVE PathInv
  OBVIOUS
<1>1. Book!IInv /\ Book!Reported
  BY SameInit, BookInvariant DEF Init
<1>2. Exchange!TypeOK
  BY <1>1, SameTypes DEF Book!IInv
<1>3. TypeOK
  <2>1. /\ 0 \in 0..MaxStarts /\ 0 \in 0..MaxPerSecond /\ 0 \in 0..MaxSeconds
    BY EngineAssumption, LimitsAssumption
  <2>2. /\ running \in BOOLEAN /\ subscriptions \in 0..MaxStarts /\ second \in 0..MaxSeconds
        /\ current \in [strategy : Strategies, order : Orders, id : Tickets \cup {0}, deliveries : 0..MaxStarts]
    BY <2>1, NoEventTyped DEF Init
  <2>3. /\ state \in [Strategies -> {"Initializing", "Stopped", "Running", "Paused"}]
        /\ pending \in [Strategies -> SUBSET Tickets] /\ cancelled \in [Strategies -> SUBSET Tickets]
        /\ position \in [Strategies -> Int] /\ enabled \in [Strategies -> BOOLEAN]
    BY DEF Init
  <2>4. /\ count \in [Strategies -> 0..MaxPerSecond]
        /\ sender \in [Tickets -> [strategy : Strategies, id : Tickets \cup {0}]]
    BY <2>1, NoEventTyped DEF Init
  <2>5. QED
    BY <1>2, <2>2, <2>3, <2>4 DEF TypeOK
<1>4. Idle /\ pc = "idle" /\ resting = {} /\ nextClient = 1
  BY DEF Init, Idle, Exchange!Init, Exchange!BookInit
<1>5. Listening
  BY <1>4 DEF Init, Listening
<1>6. Known
  <2>1. Abs(0) <= MaxPosition
    BY LimitsAssumption DEF Abs
  <2>2. \A t \in Tickets : ~(t < 1)
    BY DEF Tickets
  <2>3. QED
    BY <1>4, <2>1, <2>2 DEF Init, Known
<1>7. QED
  BY <1>1, <1>3, <1>4, <1>5, <1>6 DEF PathInv

-------------------------------------------------------------------------------
(* Steps between two calls leave the exchange alone.                       *)

LEMMA ExchangeStands ==
  ASSUME PathInv, UNCHANGED exchangeVars
  PROVE  /\ Book!IInv' /\ Book!Reported' /\ Exchange!TypeOK'
         /\ UNCHANGED <<pc, nextClient, taker, resting, restingOrders>>
<1>1. UNCHANGED <<order, resting, index, total, nextId, pc, nextClient, taker, report, qty, fills, restingOrders, left>>
  BY DEF exchangeVars
<1>2. UNCHANGED Book!vars
  BY <1>1 DEF Book!vars, Book!bookVars, Book!callVars
<1>3. Book!IInv' /\ Book!Reported'
  BY <1>2, BookStep DEF PathInv
<1>4. Exchange!TypeOK'
  BY <1>3, SameTypes DEF Book!IInv
<1>5. QED
  BY <1>1, <1>3, <1>4

LEMMA StartStep == PathInv /\ Start => PathInv'
<1> SUFFICES ASSUME PathInv, Start PROVE PathInv'
  OBVIOUS
<1>1. /\ Idle /\ subscriptions < MaxStarts /\ running' = TRUE /\ subscriptions' = subscriptions + 1
      /\ state' = [s \in Strategies |-> "Running"]
      /\ UNCHANGED <<exchangeVars, pending, cancelled, position, enabled, count, sender, second, current>>
  BY DEF Start, Started, Subscribe, riskVars
<1>2. /\ Book!IInv' /\ Book!Reported' /\ Exchange!TypeOK'
      /\ UNCHANGED <<pc, nextClient, taker, resting, restingOrders>>
  BY <1>1, ExchangeStands
<1>3. subscriptions \in Nat /\ subscriptions' \in 0..MaxStarts
  BY <1>1, EngineAssumption DEF PathInv, TypeOK
<1>4. TypeOK'
  BY <1>1, <1>2, <1>3 DEF PathInv, TypeOK
<1>5. Listening' /\ Idle'
  BY <1>1, <1>2, <1>3 DEF PathInv, Listening, Idle
<1>6. Known' \/ subscriptions' > 1
  BY <1>1, <1>2, <1>3 DEF PathInv, Known
<1>7. QED
  BY <1>2, <1>3, <1>4, <1>5, <1>6 DEF PathInv

(* An order that leaves the pending ones for the cancelled ones is still   *)
(* one of either.                                                          *)
LEMMA StopStep == PathInv /\ Stop => PathInv'
<1> SUFFICES ASSUME PathInv, Stop PROVE PathInv'
  OBVIOUS
<1> DEFINE stopping == {s \in Strategies : state[s] \in {"Running", "Paused"}}
<1>1. /\ Idle /\ running' = FALSE
      /\ cancelled' = [s \in Strategies |-> IF s \in stopping THEN cancelled[s] \cup pending[s] ELSE cancelled[s]]
      /\ pending' = [s \in Strategies |-> IF s \in stopping THEN {} ELSE pending[s]]
      /\ state' = [s \in Strategies |-> IF s \in stopping THEN "Stopped" ELSE state[s]]
      /\ UNCHANGED <<exchangeVars, subscriptions, position, enabled, count, sender, second, current>>
  BY DEF Stop, CancelAllOrders, riskVars
<1> HIDE DEF stopping
<1>2. /\ Book!IInv' /\ Book!Reported' /\ Exchange!TypeOK'
      /\ UNCHANGED <<pc, nextClient, taker, resting, restingOrders>>
  BY <1>1, ExchangeStands
<1>3. /\ pending \in [Strategies -> SUBSET Tickets] /\ cancelled \in [Strategies -> SUBSET Tickets]
      /\ state \in [Strategies -> {"Initializing", "Stopped", "Running", "Paused"}]
  BY DEF PathInv, TypeOK
<1>4. /\ pending' \in [Strategies -> SUBSET Tickets] /\ cancelled' \in [Strategies -> SUBSET Tickets]
      /\ state' \in [Strategies -> {"Initializing", "Stopped", "Running", "Paused"}]
  BY <1>1, <1>3
<1>5. TypeOK'
  BY <1>1, <1>2, <1>4 DEF PathInv, TypeOK
<1>6. Listening' /\ Idle'
  <2>1. subscriptions = 0 => \A s \in Strategies : state'[s] \notin {"Running", "Paused"}
    BY <1>1 DEF PathInv, Listening
  <2>2. QED
    BY <1>1, <1>2, <2>1 DEF PathInv, Listening, Idle
<1>7. \A s \in Strategies : pending[s] \cup cancelled[s] \subseteq pending'[s] \cup cancelled'[s]
  BY <1>1
<1>8. \A t \in Tickets : sender[t].strategy \in Strategies
  BY DEF PathInv, TypeOK
<1>9. subscriptions <= 1 => Known'
  BY <1>1, <1>2, <1>7, <1>8 DEF PathInv, Known
<1>10. QED
  BY <1>1, <1>2, <1>5, <1>6, <1>9 DEF PathInv

LEMMA PauseStep == ASSUME PathInv, NEW s \in Strategies, Pause(s) \/ Resume(s) PROVE PathInv'
<1>1. /\ Idle /\ state[s] \in {"Running", "Paused"}
      /\ state' = [state EXCEPT ![s] = "Paused"] \/ state' = [state EXCEPT ![s] = "Running"]
      /\ UNCHANGED <<exchangeVars, pending, cancelled, position, enabled, count, running, subscriptions, sender, second, current>>
  BY DEF Pause, Resume, riskVars, engineVars
<1>2. /\ Book!IInv' /\ Book!Reported' /\ Exchange!TypeOK'
      /\ UNCHANGED <<pc, nextClient, taker, resting, restingOrders>>
  BY <1>1, ExchangeStands
<1>3. TypeOK'
  BY <1>1, <1>2 DEF PathInv, TypeOK
<1>4. Listening' /\ Idle'
  BY <1>1, <1>2 DEF PathInv, Listening, Idle
<1>5. subscriptions <= 1 => Known'
  BY <1>1, <1>2 DEF PathInv, Known
<1>6. QED
  BY <1>1, <1>2, <1>3, <1>4, <1>5 DEF PathInv

LEMMA TickStep == PathInv /\ Tick => PathInv'
<1> SUFFICES ASSUME PathInv, Tick PROVE PathInv'
  OBVIOUS
<1>1. /\ Idle /\ second < MaxSeconds /\ second' = second + 1 /\ count' = [s \in Strategies |-> 0]
      /\ UNCHANGED <<exchangeVars, state, pending, cancelled, position, enabled, running, subscriptions, sender, current>>
  BY DEF Tick, strategyVars, engineVars
<1>2. /\ Book!IInv' /\ Book!Reported' /\ Exchange!TypeOK'
      /\ UNCHANGED <<pc, nextClient, taker, resting, restingOrders>>
  BY <1>1, ExchangeStands
<1>3. second' \in 0..MaxSeconds /\ count' \in [Strategies -> 0..MaxPerSecond]
  BY <1>1, EngineAssumption, LimitsAssumption DEF PathInv, TypeOK
<1>4. TypeOK'
  BY <1>1, <1>2, <1>3 DEF PathInv, TypeOK
<1>5. Listening' /\ Idle' /\ (subscriptions <= 1 => Known')
  BY <1>1, <1>2 DEF PathInv, Listening, Idle, Known
<1>6. QED
  BY <1>1, <1>2, <1>4, <1>5 DEF PathInv

LEMMA EnableStep == ASSUME PathInv, NEW s \in Strategies, EnableTrading(s) PROVE PathInv'
<1>1. /\ Idle /\ enabled' = [enabled EXCEPT ![s] = TRUE]
      /\ UNCHANGED <<exchangeVars, state, pending, cancelled, position, count, running, subscriptions, sender, second, current>>
  BY DEF EnableTrading, strategyVars, engineVars
<1>2. /\ Book!IInv' /\ Book!Reported' /\ Exchange!TypeOK'
      /\ UNCHANGED <<pc, nextClient, taker, resting, restingOrders>>
  BY <1>1, ExchangeStands
<1>3. TypeOK'
  BY <1>1, <1>2 DEF PathInv, TypeOK
<1>4. Listening' /\ Idle' /\ (subscriptions <= 1 => Known')
  BY <1>1, <1>2 DEF PathInv, Listening, Idle, Known
<1>5. QED
  BY <1>1, <1>2, <1>3, <1>4 DEF PathInv

LEMMA CancelOrderStep ==
  ASSUME PathInv, NEW s \in Strategies, NEW id \in Tickets, CancelOrder(s, id)
  PROVE  PathInv'
<1>1. /\ Idle /\ id \in pending[s]
      /\ pending' = [pending EXCEPT ![s] = @ \ {id}]
      /\ cancelled' = [cancelled EXCEPT ![s] = @ \cup {id}]
      /\ UNCHANGED <<exchangeVars, state, position, enabled, count, running, subscriptions, sender, second, current>>
  BY DEF CancelOrder, riskVars, engineVars
<1>2. /\ Book!IInv' /\ Book!Reported' /\ Exchange!TypeOK'
      /\ UNCHANGED <<pc, nextClient, taker, resting, restingOrders>>
  BY <1>1, ExchangeStands
<1>3. /\ pending \in [Strategies -> SUBSET Tickets] /\ cancelled \in [Strategies -> SUBSET Tickets]
  BY DEF PathInv, TypeOK
<1>4. TypeOK'
  BY <1>1, <1>2, <1>3 DEF PathInv, TypeOK
<1>5. Listening' /\ Idle'
  BY <1>1, <1>2 DEF PathInv, Listening, Idle
<1>6. \A u \in Strategies : pending[u] \cup cancelled[u] \subseteq pending'[u] \cup cancelled'[u]
  BY <1>1, <1>3
<1>7. \A t \in Tickets : sender[t].strategy \in Strategies
  BY DEF PathInv, TypeOK
<1>8. subscriptions <= 1 => Known'
  BY <1>1, <1>2, <1>6, <1>7 DEF PathInv, Known
<1>9. QED
  BY <1>1, <1>2, <1>4, <1>5, <1>8 DEF PathInv

(* An order that passes the checks is on its way.                          *)
LEMMA SubmitOrderStep ==
  ASSUME PathInv, NEW s \in Strategies, NEW o \in Orders, SubmitOrder(s, o)
  PROVE  PathInv'
<1>1. /\ Idle /\ state[s] = "Running"
      /\ nextClient + subscriptions <= MaxOrders + 1
      /\ count[s] < MaxPerSecond /\ WithinPosition(s, o)
      /\ count' = [count EXCEPT ![s] = @ + 1]
      /\ pending' = [pending EXCEPT ![s] = @ \cup {nextClient}]
      /\ current' = [strategy |-> s, order |-> o, id |-> nextClient, deliveries |-> subscriptions]
      /\ UNCHANGED <<exchangeVars, state, cancelled, position, enabled, running, subscriptions, sender, second>>
  BY DEF SubmitOrder, Allowed, engineVars
<1>2. /\ Book!IInv' /\ Book!Reported' /\ Exchange!TypeOK'
      /\ UNCHANGED <<pc, nextClient, taker, resting, restingOrders>>
  BY <1>1, ExchangeStands
<1>3. subscriptions \in 0..MaxStarts /\ subscriptions >= 1
  BY <1>1, EngineAssumption DEF PathInv, TypeOK, Listening
<1>4. nextClient \in Tickets
  BY <1>1, <1>3, BookTypes, ExchangeAssumption, EngineAssumption DEF PathInv, Tickets
<1>5. TypeOK'
  <2>1. count' \in [Strategies -> 0..MaxPerSecond]
    BY <1>1, LimitsAssumption DEF PathInv, TypeOK
  <2>2. pending' \in [Strategies -> SUBSET Tickets]
    BY <1>1, <1>4 DEF PathInv, TypeOK
  <2>3. current' \in [strategy : Strategies, order : Orders, id : Tickets \cup {0}, deliveries : 0..MaxStarts]
    BY <1>1, <1>3, <1>4
  <2>4. QED
    BY <1>1, <1>2, <2>1, <2>2, <2>3 DEF PathInv, TypeOK
<1>6. Listening'
  <2>1. pc = "idle"
    BY <1>1 DEF PathInv, Listening
  <2>2. current'.id = nextClient /\ nextClient # 0
    BY <1>1, <1>4 DEF Tickets
  <2>3. QED
    BY <1>1, <1>2, <1>3, <2>1, <2>2 DEF PathInv, Listening
<1>7. \A u \in Strategies : pending[u] \subseteq pending'[u]
  BY <1>1 DEF PathInv, TypeOK
<1>8. \A t \in Tickets : sender[t].strategy \in Strategies
  BY DEF PathInv, TypeOK
<1>9. subscriptions <= 1 => Known'
  BY <1>1, <1>2, <1>7, <1>8 DEF PathInv, Known
<1>10. subscriptions <= 1 => OnItsWay'
  <2>1. /\ current'.strategy = s /\ current'.order = o /\ current'.id = nextClient
        /\ current'.deliveries = subscriptions
    BY <1>1
  <2>2. nextClient \in pending'[s]
    BY <1>1 DEF PathInv, TypeOK
  <2>3. WithinPosition(s, o)'
    BY <1>1 DEF WithinPosition
  <2>4. WithinPosition(current.strategy, current.order)'
    BY <2>1, <2>3 DEF WithinPosition
  <2>5. subscriptions <= 1 => current'.deliveries = 1
    BY <1>3, <2>1, EngineAssumption
  <2>6. pc' = "idle"
    BY <1>1, <1>2 DEF PathInv, Listening
  <2>7. QED
    BY <1>2, <2>1, <2>2, <2>4, <2>5, <2>6 DEF OnItsWay
<1>11. QED
  BY <1>1, <1>2, <1>5, <1>6, <1>9, <1>10 DEF PathInv

LEMMA DropStep ==
  ASSUME PathInv, NEW s \in Strategies, NEW o \in Orders, DropTooSoon(s, o)
  PROVE  PathInv'
<1>1. /\ Idle /\ count[s] < MaxPerSecond
      /\ count' = [count EXCEPT ![s] = @ + 1]
      /\ UNCHANGED <<exchangeVars, state, pending, cancelled, position, enabled, running, subscriptions, sender, second, current>>
  BY DEF DropTooSoon, Allowed, strategyVars, engineVars
<1>2. /\ Book!IInv' /\ Book!Reported' /\ Exchange!TypeOK'
      /\ UNCHANGED <<pc, nextClient, taker, resting, restingOrders>>
  BY <1>1, ExchangeStands
<1>3. count' \in [Strategies -> 0..MaxPerSecond]
  BY <1>1, LimitsAssumption DEF PathInv, TypeOK
<1>4. TypeOK'
  BY <1>1, <1>2, <1>3 DEF PathInv, TypeOK
<1>5. Listening' /\ Idle' /\ (subscriptions <= 1 => Known')
  BY <1>1, <1>2 DEF PathInv, Listening, Idle, Known
<1>6. QED
  BY <1>1, <1>2, <1>4, <1>5 DEF PathInv

-------------------------------------------------------------------------------
(* The call into the exchange.                                             *)

(* A step of the exchange keeps the exchange's invariant.                  *)
LEMMA ExchangeMoves ==
  ASSUME PathInv, Book!Trading
  PROVE  Book!IInv' /\ Book!Reported' /\ Exchange!TypeOK'
<1>1. Book!IInv' /\ Book!Reported'
  BY BookStep DEF PathInv
<1>2. QED
  BY <1>1, SameTypes DEF Book!IInv

LEMMA ProcessOrderStep == PathInv /\ ProcessOrder => PathInv'
<1> SUFFICES ASSUME PathInv, ProcessOrder PROVE PathInv'
  OBVIOUS
<1>1. /\ current.deliveries > 0 /\ pc = "idle" /\ Exchange!Submit(current.order)
      /\ sender' = [sender EXCEPT ![nextClient] = [strategy |-> current.strategy, id |-> current.id]]
      /\ current' = [current EXCEPT !.deliveries = @ - 1]
      /\ UNCHANGED <<state, pending, cancelled, position, enabled, count, running, subscriptions, second>>
  BY DEF ProcessOrder, strategyVars, riskVars, engineVars
<1>2. /\ current.strategy \in Strategies /\ current.order \in Orders /\ current.id \in Tickets \cup {0}
      /\ current.deliveries \in 0..MaxStarts
  BY DEF PathInv, TypeOK
<1>3. Book!Submit(current.order)
  BY <1>1, <1>2, SameSubmit
<1>4. /\ nextClient <= MaxOrders /\ pc' # "idle"
      /\ taker' = current.order /\ nextClient' = nextClient + 1
      /\ resting' = resting /\ restingOrders' = restingOrders
  BY <1>2, <1>3, BookSubmit DEF PathInv
<1>5. Book!IInv' /\ Book!Reported' /\ Exchange!TypeOK'
  <2>1. Book!Trading
    BY <1>2, <1>3 DEF Book!Trading
  <2>2. QED
    BY <2>1, ExchangeMoves
<1>6. nextClient \in Tickets /\ nextClient \in Int
  BY <1>4, BookTypes, ExchangeAssumption DEF PathInv, Tickets
<1>7. /\ current'.strategy = current.strategy /\ current'.order = current.order /\ current'.id = current.id
      /\ current'.deliveries = current.deliveries - 1
  BY <1>1 DEF PathInv, TypeOK
<1>8. TypeOK'
  <2>1. sender' \in [Tickets -> [strategy : Strategies, id : Tickets \cup {0}]]
    BY <1>1, <1>2, <1>6 DEF PathInv, TypeOK
  <2>2. current.deliveries - 1 \in 0..MaxStarts
    BY <1>1, <1>2, EngineAssumption
  <2>3. current' \in [strategy : Strategies, order : Orders, id : Tickets \cup {0}, deliveries : 0..MaxStarts]
    BY <1>1, <2>2 DEF PathInv, TypeOK
  <2>4. QED
    BY <1>1, <1>5, <2>1, <2>3 DEF PathInv, TypeOK
<1>9. ~Idle
  BY <1>1, NoEventTyped, EngineAssumption DEF Idle
<1>10. Listening' /\ ~Idle'
  <2>1. current.id # 0 /\ subscriptions >= 1
    BY <1>9 DEF PathInv, Listening
  <2>2. ~Idle'
    BY <1>7, <2>1, NoEventTyped DEF Idle
  <2>3. QED
    BY <1>1, <1>7, <2>1, <2>2 DEF PathInv, Listening
<1>11. ASSUME subscriptions <= 1 PROVE Known' /\ OnItsWay'
  <2>1. OnItsWay /\ Known
    BY <1>9, <1>11 DEF PathInv
  <2>2. current.deliveries = 1 /\ current.id = nextClient
    BY <1>1, <2>1 DEF OnItsWay
  <2>3. /\ sender'[nextClient] = [strategy |-> current.strategy, id |-> current.id]
        /\ \A t \in Tickets : t # nextClient => sender'[t] = sender[t]
    BY <1>1, <1>6 DEF PathInv, TypeOK
  <2>4. Known'
    <3>1. \A t \in Tickets : t < nextClient' => sender'[t].id = t
      BY <1>4, <1>6, <2>1, <2>2, <2>3 DEF Known, Tickets
    <3>2. ASSUME NEW t \in Tickets, restingOrders[t] \in resting
          PROVE  t \in pending[sender'[t].strategy] \cup cancelled[sender'[t].strategy]
      <4>1. t # nextClient
        BY <1>6, <3>2, BookTypes DEF PathInv
      <4>2. QED
        BY <2>1, <2>3, <3>2, <4>1 DEF Known
    <3>3. QED
      BY <1>1, <1>4, <2>1, <3>1, <3>2 DEF Known
  <2>5. OnItsWay'
    <3>1. WithinPosition(current.strategy, current.order)'
      BY <1>1, <1>7, <2>1 DEF OnItsWay, WithinPosition
    <3>2. current'.deliveries = 0
      BY <1>7, <2>2
    <3>3. current'.id = nextClient' - 1
      BY <1>4, <1>6, <1>7, <2>2
    <3>4. sender'[current'.id].strategy = current'.strategy
      BY <1>7, <2>2, <2>3
    <3>5. current'.id \in pending'[current'.strategy]
      BY <1>1, <1>7, <2>1 DEF OnItsWay
    <3>6. taker' = current'.order /\ pc' # "idle"
      BY <1>4, <1>7
    <3>7. QED
      BY <3>1, <3>2, <3>3, <3>4, <3>5, <3>6 DEF OnItsWay
  <2>6. QED
    BY <2>4, <2>5
<1>12. QED
  BY <1>1, <1>5, <1>8, <1>10, <1>11 DEF PathInv

(* While the exchange matches, the order stays what it was checked to be.  *)
LEMMA MatchStep == PathInv /\ Match => PathInv'
<1> SUFFICES ASSUME PathInv, Match PROVE PathInv'
  OBVIOUS
<1>1. UNCHANGED <<state, pending, cancelled, position, enabled, count, running, subscriptions, sender, second, current>>
  BY DEF Match, strategyVars, riskVars, engineVars
<1>2. Book!NextLevel \/ Book!FillFront \/ Book!EndExecute \/ Book!RestRemainder \/ Book!LimitFilled
  BY SameNextLevel, SameFillFront, SameEnds DEF Match
<1>3. /\ pc # "idle" /\ pc' # "idle" /\ taker' = taker /\ nextClient' = nextClient
      /\ \A c \in Tickets : restingOrders'[c] \in resting' => restingOrders[c] \in resting \/ c = nextClient - 1
  BY <1>2, BookKeepsCall DEF PathInv
<1>4. Book!IInv' /\ Book!Reported' /\ Exchange!TypeOK'
  <2>1. Book!Trading
    BY <1>2 DEF Book!Trading, Book!Matching
  <2>2. QED
    BY <2>1, ExchangeMoves
<1>5. TypeOK'
  BY <1>1, <1>4 DEF PathInv, TypeOK
<1>6. ~Idle /\ ~Idle'
  BY <1>1, <1>3 DEF PathInv, Listening, Idle
<1>7. Listening'
  BY <1>1, <1>6 DEF PathInv, Listening
<1>8. ASSUME subscriptions <= 1 PROVE Known' /\ OnItsWay'
  <2>1. Known /\ OnItsWay
    BY <1>6, <1>8 DEF PathInv
  <2>2. OnItsWay'
    BY <1>1, <1>3, <2>1 DEF OnItsWay, WithinPosition
  <2>3. current.deliveries = 0
    BY <1>3, <2>1 DEF OnItsWay
  <2>4. ASSUME NEW t \in Tickets, restingOrders'[t] \in resting'
        PROVE  t \in pending[sender[t].strategy] \cup cancelled[sender[t].strategy]
    <3>1. CASE restingOrders[t] \in resting
      BY <2>1, <3>1 DEF Known
    <3>2. CASE t = nextClient - 1
      BY <2>1, <2>3, <3>2 DEF OnItsWay
    <3>3. QED
      BY <1>3, <2>4, <3>1, <3>2
  <2>5. Known'
    BY <1>1, <1>3, <2>1, <2>4 DEF Known
  <2>6. QED
    BY <2>2, <2>5
<1>9. QED
  BY <1>1, <1>4, <1>5, <1>6, <1>7, <1>8 DEF PathInv

LEMMA BookPublishes ==
  ASSUME Book!IInv, Book!Reported, Book!PublishExecution
  PROVE  /\ pc = "publish" /\ pc' = "idle"
         /\ nextClient' = nextClient /\ resting' = resting /\ restingOrders' = restingOrders
         /\ nextClient - 1 \in Tickets
         /\ report.filled >= 0
         /\ report.status = "Filled" =>
              report.filled <= taker.quantity /\ restingOrders[nextClient - 1] \notin resting
<1>1. /\ pc = "publish" /\ pc' = "idle"
      /\ nextClient' = nextClient /\ resting' = resting /\ restingOrders' = restingOrders
  BY DEF Book!PublishExecution, Book!bookVars
<1>2. nextClient - 1 \in Tickets /\ 0 \notin resting
  BY <1>1, BookTypes
<1>3. QED
  BY <1>1, <1>2 DEF Book!Reported, Book!TakerId

(* A position that was within the limit, and would be with the whole order *)
(* filled, is with a part of it.                                           *)
LEMMA PartKeepsWithin ==
  ASSUME NEW held \in Int, NEW side, NEW asked \in Int, NEW got \in Int, 0 <= got, got <= asked,
         Abs(held) <= MaxPosition, Abs(held + Signed(side, asked)) <= MaxPosition
  PROVE  Abs(held + Signed(side, got)) <= MaxPosition
BY LimitsAssumption DEF Abs, Signed

(* The answer settles the order, or leaves it pending.                     *)
LEMMA RespondStep == PathInv /\ Respond => PathInv'
<1> SUFFICES ASSUME PathInv, Respond PROVE PathInv'
  OBVIOUS
<1> DEFINE s == current.strategy
           fill == IF Settled THEN Signed(taker.side, report.filled) ELSE 0
<1>1. /\ Exchange!PublishExecution
      /\ position' = [position EXCEPT ![s] = @ + fill]
      /\ pending' = [pending EXCEPT ![s] = IF Settled THEN @ \ {current.id} ELSE @]
      /\ \E breach \in BOOLEAN : enabled' = [enabled EXCEPT ![s] = @ /\ ~breach]
      /\ current' = IF current.deliveries = 0 THEN NoEvent ELSE current
      /\ UNCHANGED <<state, cancelled, count, running, subscriptions, sender, second>>
  BY DEF Respond, engineVars
<1>2. Book!PublishExecution
  BY <1>1, SameEnds
<1>3. /\ pc = "publish" /\ pc' = "idle"
      /\ nextClient' = nextClient /\ resting' = resting /\ restingOrders' = restingOrders
      /\ nextClient - 1 \in Tickets
      /\ report.filled >= 0
      /\ Settled => report.filled <= taker.quantity /\ restingOrders[nextClient - 1] \notin resting
  BY <1>2, BookPublishes DEF PathInv, Settled
<1>4. Book!IInv' /\ Book!Reported' /\ Exchange!TypeOK'
  <2>1. Book!Trading
    BY <1>2 DEF Book!Trading, Book!Matching
  <2>2. QED
    BY <2>1, ExchangeMoves
<1>5. /\ current.strategy \in Strategies /\ current.id \in Tickets \cup {0}
      /\ report.filled \in Int /\ taker \in Orders /\ taker.quantity \in Int
  BY BookTypes, QuantityOfOrder DEF PathInv, TypeOK
<1>6. s \in Strategies /\ fill \in Int
  BY <1>5 DEF Signed
<1>7. ~Idle
  BY <1>3 DEF PathInv, Listening
<1>8. TypeOK'
  <2>1. position' \in [Strategies -> Int]
    BY <1>1, <1>6 DEF PathInv, TypeOK
  <2>2. pending' \in [Strategies -> SUBSET Tickets]
    BY <1>1, <1>6 DEF PathInv, TypeOK
  <2>3. enabled' \in [Strategies -> BOOLEAN]
    <3>1. PICK breach \in BOOLEAN : enabled' = [enabled EXCEPT ![s] = @ /\ ~breach]
      BY <1>1
    <3>2. enabled \in [Strategies -> BOOLEAN]
      BY DEF PathInv, TypeOK
    <3>3. (enabled[s] /\ ~breach) \in BOOLEAN
      BY Zenon
    <3>4. QED
      BY <1>6, <3>1, <3>2, <3>3
  <2>4. current' \in [strategy : Strategies, order : Orders, id : Tickets \cup {0}, deliveries : 0..MaxStarts]
    BY <1>1, NoEventTyped DEF PathInv, TypeOK
  <2>5. QED
    BY <1>1, <1>4, <2>1, <2>2, <2>3, <2>4 DEF PathInv, TypeOK
<1>9. Listening'
  <2>1. subscriptions >= 1 /\ current.id # 0
    BY <1>7 DEF PathInv, Listening
  <2>2. ~Idle' => current' = current
    BY <1>1 DEF Idle
  <2>3. QED
    BY <1>1, <1>3, <2>1, <2>2 DEF PathInv, Listening
<1>10. ASSUME subscriptions <= 1 PROVE Known' /\ Idle'
  <2>1. Known /\ OnItsWay
    BY <1>7, <1>10 DEF PathInv
  <2>2. /\ current.deliveries = 0 /\ current.id = nextClient - 1 /\ taker = current.order
        /\ sender[current.id].strategy = s
    BY <1>3, <2>1 DEF OnItsWay
  <2>3. Idle'
    BY <1>1, <2>2 DEF Idle, NoEvent
  <2>4. \A u \in Strategies : Abs(position'[u]) <= MaxPosition
    <3>1. position \in [Strategies -> Int]
      BY DEF PathInv, TypeOK
    <3>2. Abs(position[s]) <= MaxPosition /\ Abs(position[s] + Signed(taker.side, taker.quantity)) <= MaxPosition
      BY <1>6, <2>1, <2>2 DEF Known, OnItsWay, WithinPosition
    <3>3. CASE Settled
      <4>1. Abs(position[s] + Signed(taker.side, report.filled)) <= MaxPosition
        BY <1>3, <1>5, <1>6, <3>1, <3>2, <3>3, PartKeepsWithin
      <4>2. fill = Signed(taker.side, report.filled)
        BY <3>3
      <4> HIDE DEF s, fill
      <4>3. QED
        BY <1>1, <1>6, <2>1, <3>1, <4>1, <4>2 DEF Known
    <3>4. CASE ~Settled
      <4>1. fill = 0
        BY <3>4
      <4> HIDE DEF s, fill
      <4>2. \A u \in Strategies : position'[u] = position[u]
        BY <1>1, <1>6, <3>1, <4>1
      <4>3. QED
        BY <2>1, <4>2 DEF Known
    <3>5. QED
      BY <3>3, <3>4
  <2>5. ASSUME NEW t \in Tickets, restingOrders[t] \in resting
        PROVE  t \in pending'[sender[t].strategy] \cup cancelled[sender[t].strategy]
    <3>1. t \in pending[sender[t].strategy] \cup cancelled[sender[t].strategy] /\ sender[t].strategy \in Strategies
      BY <2>1, <2>5 DEF Known, PathInv, TypeOK
    <3>2. Settled => t # current.id
      BY <1>3, <2>2, <2>5
    <3>3. QED
      BY <1>1, <3>1, <3>2 DEF PathInv, TypeOK
  <2>6. Known'
    BY <1>1, <1>3, <2>1, <2>4, <2>5 DEF Known
  <2>7. QED
    BY <2>3, <2>6
<1>11. QED
  BY <1>1, <1>4, <1>8, <1>9, <1>10 DEF PathInv

LEMMA PathStutter == PathInv /\ UNCHANGED vars => PathInv'
<1> SUFFICES ASSUME PathInv, UNCHANGED vars PROVE PathInv'
  OBVIOUS
<1>1. UNCHANGED <<exchangeVars, state, pending, cancelled, position, enabled, count, running, subscriptions, sender, second, current>>
  BY DEF vars, strategyVars, riskVars, engineVars
<1>2. /\ Book!IInv' /\ Book!Reported' /\ Exchange!TypeOK'
      /\ UNCHANGED <<pc, nextClient, taker, resting, restingOrders>>
  BY <1>1, ExchangeStands
<1>3. TypeOK'
  BY <1>1, <1>2 DEF PathInv, TypeOK
<1>4. Listening' /\ (subscriptions <= 1 => Known' /\ (~Idle' => OnItsWay'))
  BY <1>1, <1>2 DEF PathInv, Listening, Idle, Known, OnItsWay, WithinPosition
<1>5. QED
  BY <1>1, <1>2, <1>3, <1>4 DEF PathInv

LEMMA PathNext == PathInv /\ [Next]_vars => PathInv'
<1> SUFFICES ASSUME PathInv, [Next]_vars PROVE PathInv'
  OBVIOUS
<1>1. CASE UNCHANGED vars
  BY <1>1, PathStutter
<1>2. CASE Start \/ Stop \/ Tick
  BY <1>2, StartStep, StopStep, TickStep
<1>3. CASE Call
  BY <1>3, ProcessOrderStep, MatchStep, RespondStep DEF Call
<1>4. ASSUME NEW s \in Strategies, Pause(s) \/ Resume(s) \/ EnableTrading(s) PROVE PathInv'
  BY <1>4, PauseStep, EnableStep
<1>5. ASSUME NEW s \in Strategies, NEW o \in Orders, SubmitOrder(s, o) \/ DropTooSoon(s, o) PROVE PathInv'
  BY <1>5, SubmitOrderStep, DropStep
<1>6. ASSUME NEW s \in Strategies, NEW id \in Tickets, CancelOrder(s, id) PROVE PathInv'
  BY <1>6, CancelOrderStep
<1>7. QED
  BY <1>1, <1>2, <1>3, <1>4, <1>5, <1>6 DEF Next

(* Whatever strategies submit, cancel and are stopped in, whatever the     *)
(* exchange makes of it and in whatever order the answers come: until the  *)
(* engine is restarted the position a risk manager has on record is within *)
(* its limit, and every order that rests in the book is one its strategy   *)
(* waits for or has cancelled (shadow_engine.hpp, process_order).          *)
THEOREM NoOrderIsForgotten == Spec => []OrdersAreTracked
<1>1. Spec => []PathInv
  BY PathInit, PathNext, PTL DEF Spec
<1>2. QED
  BY <1>1, PathInvImplies, PTL

-------------------------------------------------------------------------------
(* The accounts of RiskManager.                                            *)

LEMMA SignOfProduct ==
  ASSUME NEW a \in Int, NEW b \in Int
  PROVE  /\ a * b < 0 <=> (a > 0 /\ b < 0) \/ (a < 0 /\ b > 0)
         /\ a * b > 0 <=> (a > 0 /\ b > 0) \/ (a < 0 /\ b < 0)
OBVIOUS

(* Closing a part books just what the cash and the rest's cost leave.      *)
LEMMA ReducingFill ==
  ASSUME NEW q \in Int, NEW x \in Int, NEW a \in Int, NEW c \in Int, q * x < 0, Risk!Abs(x) <= Risk!Abs(q)
  PROVE  Risk!Abs(x) * (IF q < 0 THEN a - c ELSE c - a) - ((q + x) * a - q * a - x * c) = 0
<1>1. CASE q > 0 /\ x < 0
  <2>1. Risk!Abs(x) = -x /\ ~(q < 0)
    BY <1>1 DEF Risk!Abs
  <2>2. (-x) * (c - a) - ((q + x) * a - q * a - x * c) = 0
    OBVIOUS
  <2>3. QED
    BY <2>1, <2>2
<1>2. CASE q < 0 /\ x > 0
  <2>1. Risk!Abs(x) = x /\ q < 0
    BY <1>2 DEF Risk!Abs
  <2>2. x * (a - c) - ((q + x) * a - q * a - x * c) = 0
    OBVIOUS
  <2>3. QED
    BY <2>1, <2>2
<1>3. QED
  BY <1>1, <1>2, SignOfProduct

(* The average of what is held loses less than one unit on each.           *)
LEMMA AddingFill ==
  ASSUME NEW q \in Int, NEW x \in Int, NEW a \in Nat, NEW c \in Nat, q * x > 0
  PROVE  LET n == Risk!Abs(q + x)
             b == (a * Risk!Abs(q) + c * Risk!Abs(x)) \div n
         IN  /\ a * Risk!Abs(q) + c * Risk!Abs(x) \in Nat
             /\ b \in Nat
             /\ Risk!Abs((q + x) * b - q * a - x * c) <= n
<1> DEFINE n == Risk!Abs(q + x)
           t == a * Risk!Abs(q) + c * Risk!Abs(x)
           b == t \div n
<1>1. (q > 0 /\ x > 0) \/ (q < 0 /\ x < 0)
  BY SignOfProduct
<1>2. n \in Nat \ {0} /\ Risk!Abs(q) \in Nat /\ Risk!Abs(x) \in Nat
  BY <1>1 DEF Risk!Abs
<1>3. t \in Nat
  BY <1>2
<1> HIDE DEF n, t
<1>4. b \in Nat /\ t % n \in 0..(n - 1) /\ t = b * n + (t % n)
  <2>1. n \in Nat \ {0} /\ t \in Int /\ t \in Nat
    BY <1>2, <1>3
  <2>2. QED
    BY ONLY <2>1, DivMod
<1> HIDE DEF b
<1>5. -n <= b * n - t /\ b * n - t <= 0 /\ b * n \in Int
  BY <1>2, <1>3, <1>4
<1>6. CASE q > 0 /\ x > 0
  <2>1. n = q + x /\ t = a * q + c * x
    BY <1>6 DEF n, t, Risk!Abs
  <2>2. (q + x) * b = b * n /\ a * q + c * x = q * a + x * c
    BY <1>4, <2>1
  <2>3. (q + x) * b - q * a - x * c = b * n - t
    BY <1>4, <2>1, <2>2
  <2>4. QED
    BY <1>2, <1>3, <1>4, <1>5, <2>3 DEF n, t, b, Risk!Abs
<1>7. CASE q < 0 /\ x < 0
  <2>1. n = -(q + x) /\ t = -(a * q + c * x)
    BY <1>7 DEF n, t, Risk!Abs
  <2>2. (q + x) * b = -(b * n) /\ a * q + c * x = q * a + x * c
    BY <1>4, <2>1
  <2>3. (q + x) * b - q * a - x * c = -(b * n - t)
    BY <1>4, <2>1, <2>2
  <2>4. QED
    BY <1>2, <1>3, <1>4, <1>5, <2>3 DEF n, t, b, Risk!Abs
<1>8. QED
  BY <1>1, <1>6, <1>7

LEMMA RiskConstants ==
  /\ MaxProduct \in Nat /\ SecondsPerMinute \in Nat \ {0}
  /\ MaxPerSecond \in Nat /\ MaxPerMinute \in Nat
  /\ QuotedPrices \subseteq Nat \ {0} /\ Quantities \subseteq Nat \ {0}
BY RiskAssumption DEF Risk!LimitsAssumption, Risk!MarketAssumption

LEMMA WrapFits == ASSUME NEW x \in Nat, x <= MaxProduct PROVE Risk!Wrap(x) = x
<1> DEFINE N == 2 * (MaxProduct + 1)
           y == x + MaxProduct + 1
           k == y \div N
<1>1. N \in Nat \ {0} /\ y \in Nat /\ y < N
  BY RiskConstants
<1>2. Risk!Wrap(x) = (y % N) - (MaxProduct + 1)
  BY DEF Risk!Wrap
<1>3. y - (MaxProduct + 1) = x
  BY RiskConstants
<1> HIDE DEF y, N
<1>4. k \in Nat /\ y % N \in 0..(N - 1) /\ y = k * N + (y % N)
  <2>1. N \in Nat \ {0} /\ y \in Int /\ y \in Nat
    BY <1>1
  <2>2. QED
    BY ONLY <2>1, DivMod
<1> HIDE DEF k
<1>5. ~(k >= 1)
  <2>1. SUFFICES ASSUME k >= 1 PROVE FALSE
    OBVIOUS
  <2>2. k * N >= N
    BY <1>1, <1>4, <2>1
  <2>3. k * N \in Int
    BY <1>1, <1>4
  <2>4. QED
    BY <1>1, <1>4, <2>2, <2>3
<1>6. k = 0
  BY <1>4, <1>5
<1>7. k * N = 0
  BY <1>1, <1>6
<1>8. y % N = y
  BY <1>1, <1>4, <1>7
<1>9. QED
  BY <1>2, <1>3, <1>8

LEMMA WrapType == ASSUME NEW x \in Int PROVE Risk!Wrap(x) \in Int
<1> DEFINE N == 2 * (MaxProduct + 1)
           y == x + MaxProduct + 1
<1>1. N \in Nat \ {0} /\ y \in Int
  BY RiskConstants
<1>2. Risk!Wrap(x) = (y % N) - (MaxProduct + 1)
  BY DEF Risk!Wrap
<1> HIDE DEF y, N
<1>3. y % N \in Int
  <2>1. y % N \in 0..(N - 1)
    BY ONLY <1>1, DivMod
  <2>2. QED
    BY <1>1, <2>1
<1>4. QED
  BY <1>2, <1>3, RiskConstants

LEMMA QuotientType == ASSUME NEW a \in Int, NEW b \in Nat \ {0} PROVE Risk!Quotient(a, b) \in Int
<1>1. -a \in Int
  OBVIOUS
<1>2. a \div b \in Int /\ (-a) \div b \in Int
  BY <1>1, DivMod
<1>3. QED
  BY <1>2 DEF Risk!Quotient

LEMMA SmallerOfTwo ==
  ASSUME NEW a \in Int, NEW b \in Int
  PROVE  Risk!Min({a, b}) = IF a <= b THEN a ELSE b
BY DEF Risk!Min

Position == [quantity : Int, average : Int, mark : Int, unrealized : Int, realized : Int]

AccountTypes ==
  /\ positions \in [Symbols -> Position]
  /\ cash \in [Symbols -> Int] /\ exact \in [Symbols -> BOOLEAN] /\ rounding \in [Symbols -> Nat]

\* The average of exact accounts is a price, so that their cost can be divided.
AccountsInv ==
  /\ AccountTypes
  /\ \A s \in Symbols : exact[s] => positions[s].average \in Nat
  /\ AccountsAddUp

Gap(realized, c, q, a) == realized - (c + q * a)
\* What a position has earned beside the cash it moved and the cost of what it holds.
Unexplained(p, c) == Gap(p.realized, c, p.quantity, p.average)

LEMMA InitAccounts == Risk!Init => AccountsInv
<1> SUFFICES ASSUME Risk!Init PROVE AccountsInv
  OBVIOUS
<1>1. /\ positions = [s \in Symbols |-> Risk!Flat] /\ cash = [s \in Symbols |-> 0]
      /\ exact = [s \in Symbols |-> TRUE] /\ rounding = [s \in Symbols |-> 0]
  BY DEF Risk!Init
<1>2. Risk!Flat \in Position /\ Risk!Flat.average = 0 /\ Risk!Flat.quantity = 0 /\ Risk!Flat.realized = 0
  BY DEF Risk!Flat, Position
<1>3. AccountTypes /\ \A s \in Symbols : positions[s].average \in Nat
  BY <1>1, <1>2 DEF AccountTypes
<1>4. 0 - (0 + 0 * 0) = 0 /\ Risk!Abs(0) = 0
  BY DEF Risk!Abs
<1>5. AccountsAddUp
  BY <1>1, <1>2, <1>4 DEF AccountsAddUp, Risk!AccountsAddUp
<1>6. QED
  BY <1>3, <1>5 DEF AccountsInv

(* One fill: what it does to the position.                                 *)
LEMMA FillTypes ==
  ASSUME NEW p \in Position, NEW x \in Int, x # 0, NEW price \in Nat
  PROVE  Risk!Average(p, x, price) \in Int /\ Risk!Closed(p, x) * Risk!Gain(p, price) \in Int
<1>1. p.quantity \in Int /\ p.average \in Int
  BY DEF Position
<1>2. Risk!Closed(p, x) \in Int
  <2>1. Risk!Abs(x) \in Int /\ Risk!Abs(p.quantity) \in Int
    BY <1>1 DEF Risk!Abs
  <2>2. Risk!Min({Risk!Abs(x), Risk!Abs(p.quantity)}) \in Int
    BY <2>1, SmallerOfTwo
  <2>3. QED
    BY <2>2 DEF Risk!Closed
<1>3. Risk!Gain(p, price) \in Int
  BY <1>1 DEF Risk!Gain
<1>4. ASSUME ~Risk!Reduces(p, x), p.quantity # 0 PROVE Risk!Average(p, x, price) \in Int
  <2>1. p.quantity * x > 0
    BY <1>1, <1>4, SignOfProduct DEF Risk!Reduces
  <2>2. Risk!Abs(p.quantity + x) \in Nat \ {0}
    BY <1>1, <2>1, SignOfProduct DEF Risk!Abs
  <2>3. Risk!TotalCost(p, x, price) \in Int
    <3>1. Risk!Abs(x) \in Int /\ Risk!Abs(p.quantity) \in Int
      BY <1>1 DEF Risk!Abs
    <3>2. QED
      BY <1>1, <3>1 DEF Risk!TotalCost
  <2>4. Risk!Quotient(Risk!Wrap(Risk!TotalCost(p, x, price)), Risk!Abs(p.quantity + x)) \in Int
    BY <2>2, <2>3, WrapType, QuotientType
  <2>5. QED
    BY <1>4, <2>4 DEF Risk!Average
<1>5. QED
  <2>1. Risk!Average(p, x, price) \in Int
    BY <1>1, <1>4 DEF Risk!Average
  <2>2. QED
    BY <1>2, <1>3, <2>1

LEMMA FillAddsUp ==
  ASSUME NEW p \in Position, p.average \in Nat, NEW x \in Int, x # 0, NEW price \in Nat, NEW c \in Int,
         Risk!Abs(x) > Risk!Abs(p.quantity) => ~Risk!Reduces(p, x),
         Risk!Adds(p, x) => Risk!TotalCost(p, x, price) <= MaxProduct,
         NEW new \in Position,
         new.quantity = p.quantity + x, new.average = Risk!Average(p, x, price),
         new.realized = p.realized + Risk!Closed(p, x) * Risk!Gain(p, price)
  PROVE  /\ new.average \in Nat
         /\ Risk!Abs(Unexplained(new, c - x * price) - Unexplained(p, c)) <=
              IF Risk!Adds(p, x) THEN Risk!Abs(p.quantity + x) ELSE 0
<1> DEFINE q == p.quantity
           a == p.average
           b == new.average
           g == Risk!Closed(p, x) * Risk!Gain(p, price)
<1>1. q \in Int /\ a \in Nat /\ b \in Int /\ p.realized \in Int /\ g \in Int
  BY FillTypes DEF Position
<1>2. Unexplained(new, c - x * price) - Unexplained(p, c) = g - ((q + x) * b - q * a - x * price)
  <2>1. /\ new.realized = p.realized + g /\ new.quantity = q + x
        /\ (q + x) * b \in Int /\ q * a \in Int /\ x * price \in Int
    BY <1>1
  <2>2. /\ Unexplained(new, c - x * price) = Gap(p.realized + g, c - x * price, q + x, b)
        /\ Unexplained(p, c) = Gap(p.realized, c, q, a)
    BY <2>1 DEF Unexplained
  <2> HIDE DEF q, a, b, g
  <2>3. QED
    BY <1>1, <2>1, <2>2 DEF Gap
<1>3. CASE Risk!Reduces(p, x)
  <2>1. q * x < 0 /\ Risk!Abs(x) <= Risk!Abs(q) /\ ~Risk!Adds(p, x)
    BY <1>1, <1>3 DEF Risk!Reduces, Risk!Adds, Risk!Abs
  <2>2. b = a
    <3>1. p.quantity # 0
      BY <1>1, <2>1, SignOfProduct
    <3>2. QED
      BY <1>3, <3>1 DEF Risk!Average
  <2>3. g = Risk!Abs(x) * (IF q < 0 THEN a - price ELSE price - a)
    <3>1. Risk!Closed(p, x) = Risk!Abs(x)
      BY <1>1, <1>3, <2>1, SmallerOfTwo DEF Risk!Closed, Risk!Abs
    <3>2. Risk!Gain(p, price) = IF q < 0 THEN a - price ELSE price - a
      BY DEF Risk!Gain
    <3>3. QED
      BY <3>1, <3>2
  <2> HIDE DEF q, a, b, g
  <2>4. g - ((q + x) * b - q * a - x * price) = 0
    <3>1. q \in Int /\ a \in Int /\ x \in Int /\ price \in Int
      BY <1>1
    <3>2. Risk!Abs(x) * (IF q < 0 THEN a - price ELSE price - a) - ((q + x) * a - q * a - x * price) = 0
      BY <2>1, <3>1, ReducingFill
    <3>3. QED
      BY <2>2, <2>3, <3>2
  <2>5. QED
    BY <1>1, <1>2, <2>1, <2>2, <2>4 DEF Risk!Abs, b
<1>4. CASE ~Risk!Reduces(p, x)
  <2>1. g = 0
    BY <1>1, <1>4 DEF Risk!Closed, Risk!Gain
  <2>2. CASE q = 0
    <3>1. b = price /\ ~Risk!Adds(p, x)
      BY <1>4, <2>2 DEF Risk!Average, Risk!Adds
    <3> HIDE DEF q, a, b, g
    <3>2. g - ((q + x) * b - q * a - x * price) = 0
      BY <1>1, <2>1, <2>2, <3>1
    <3>3. QED
      BY <1>2, <3>1, <3>2 DEF Risk!Abs, b
  <2>3. CASE q # 0
    <3>1. q * x > 0 /\ Risk!Adds(p, x)
      BY <1>1, <1>4, <2>3, SignOfProduct DEF Risk!Reduces, Risk!Adds
    <3>2. Risk!TotalCost(p, x, price) = a * Risk!Abs(q) + price * Risk!Abs(x)
      BY DEF Risk!TotalCost
    <3>3. /\ a * Risk!Abs(q) + price * Risk!Abs(x) \in Nat
          /\ (a * Risk!Abs(q) + price * Risk!Abs(x)) \div Risk!Abs(q + x) \in Nat
          /\ Risk!Abs((q + x) * ((a * Risk!Abs(q) + price * Risk!Abs(x)) \div Risk!Abs(q + x)) - q * a - x * price)
               <= Risk!Abs(q + x)
      <4> HIDE DEF q, a, b, g
      <4>1. QED
        BY <1>1, <3>1, AddingFill
    <3>4. b = (a * Risk!Abs(q) + price * Risk!Abs(x)) \div Risk!Abs(q + x)
      <4>1. b = Risk!Quotient(Risk!Wrap(Risk!TotalCost(p, x, price)), Risk!Abs(q + x))
        BY <1>4, <2>3 DEF Risk!Average
      <4>2. Risk!Wrap(Risk!TotalCost(p, x, price)) = a * Risk!Abs(q) + price * Risk!Abs(x)
        BY <3>1, <3>2, <3>3, WrapFits
      <4> HIDE DEF q, a, b, g
      <4>3. QED
        BY <3>3, <4>1, <4>2 DEF Risk!Quotient
    <3> HIDE DEF a, b, g
    <3>5. /\ b \in Nat
          /\ Risk!Abs((q + x) * b - q * a - x * price) <= Risk!Abs(q + x)
      BY <3>3, <3>4
    <3> HIDE DEF q
    <3>6. Risk!Abs(g - ((q + x) * b - q * a - x * price)) <= Risk!Abs(q + x)
      <4>1. (q + x) * b - q * a - x * price \in Int
        BY <1>1
      <4>2. QED
        BY <2>1, <3>5, <4>1 DEF Risk!Abs
    <3>7. QED
      BY <1>2, <3>1, <3>5, <3>6 DEF b, q
  <2>4. QED
    BY <2>2, <2>3
<1>5. QED
  BY <1>3, <1>4

LEMMA OnFillStep ==
  ASSUME AccountsInv, NEW s \in Symbols, NEW side \in Risk!Sides, NEW q \in Quantities,
         NEW price \in QuotedPrices, Risk!OnFill(s, side, q, price)
  PROVE  AccountsInv'
<1> DEFINE x == Risk!Signed(side, q)
           p == positions[s]
           earned == Risk!Closed(p, x) * Risk!Gain(p, price)
           average == Risk!Average(p, x, price)
           new == [p EXCEPT !.quantity = @ + x, !.average = average, !.realized = @ + earned]
           lost == IF Risk!Adds(p, x) THEN Risk!Abs(p.quantity + x) ELSE 0
           fits == /\ Risk!Abs(x) > Risk!Abs(p.quantity) => ~Risk!Reduces(p, x)
                   /\ Risk!Adds(p, x) => Risk!TotalCost(p, x, price) <= MaxProduct
<1>1. /\ positions' = [positions EXCEPT ![s] = new]
      /\ cash' = [cash EXCEPT ![s] = @ - x * price]
      /\ exact' = [exact EXCEPT ![s] = @ /\ fits]
      /\ rounding' = [rounding EXCEPT ![s] = IF Risk!Adds(p, x) THEN @ + Risk!Abs(p.quantity + x) ELSE @]
  BY DEF Risk!OnFill
<1>2. /\ x \in Int /\ x # 0 /\ price \in Nat /\ p \in Position
      /\ p.quantity \in Int /\ p.realized \in Int
      /\ cash[s] \in Int /\ rounding[s] \in Nat /\ exact[s] \in BOOLEAN
  BY RiskConstants DEF Risk!Signed, AccountsInv, AccountTypes, Position
<1>3. new \in Position /\ new.quantity = p.quantity + x /\ new.average = average /\ new.realized = p.realized + earned
  <2>1. average \in Int /\ earned \in Int
    BY <1>2, FillTypes
  <2> HIDE DEF average, earned, x, p
  <2>2. p.quantity + x \in Int /\ p.realized + earned \in Int
    BY <1>2, <2>1
  <2> DEFINE more == p.quantity + x
             richer == p.realized + earned
  <2>3. new = [p EXCEPT !.quantity = more, !.average = average, !.realized = richer]
    OBVIOUS
  <2>4. more \in Int /\ richer \in Int
    BY <2>2
  <2> HIDE DEF new, more, richer
  <2>5. new \in Position /\ new.quantity = more /\ new.average = average /\ new.realized = richer
    BY <1>2, <2>1, <2>3, <2>4 DEF Position
  <2>6. QED
    BY <2>5 DEF more, richer
<1>4. x * price \in Int /\ lost \in Nat
  BY <1>2 DEF Risk!Abs
<1>5. rounding' = [rounding EXCEPT ![s] = @ + lost]
  <2> HIDE DEF new
  <2>1. CASE Risk!Adds(p, x)
    BY <1>1, <2>1
  <2>2. CASE ~Risk!Adds(p, x)
    <3>1. rounding[s] + lost = rounding[s]
      BY <1>2, <2>2
    <3> HIDE DEF lost
    <3>2. QED
      BY <1>1, <2>2, <3>1
  <2>3. QED
    BY <2>1, <2>2
<1> HIDE DEF x, p, new, average, earned
<1>6. /\ positions'[s] = new /\ cash'[s] = cash[s] - x * price /\ exact'[s] = (exact[s] /\ fits)
      /\ rounding'[s] = rounding[s] + lost
      /\ \A r \in Symbols : r # s => /\ positions'[r] = positions[r] /\ cash'[r] = cash[r]
                                     /\ exact'[r] = exact[r] /\ rounding'[r] = rounding[r]
  <2> HIDE DEF fits, lost
  <2>1. QED
    BY <1>1, <1>5 DEF AccountsInv, AccountTypes
<1>7. AccountTypes'
  <2>1. positions' \in [Symbols -> Position]
    BY <1>1, <1>3 DEF AccountsInv, AccountTypes
  <2>2. cash' \in [Symbols -> Int]
    BY <1>1, <1>2, <1>4 DEF AccountsInv, AccountTypes
  <2>3. exact' \in [Symbols -> BOOLEAN]
    <3>1. (exact[s] /\ fits) \in BOOLEAN
      BY Zenon
    <3> HIDE DEF fits
    <3>2. QED
      BY <1>1, <3>1 DEF AccountsInv, AccountTypes
  <2>4. rounding' \in [Symbols -> Nat]
    <3>1. rounding[s] + lost \in Nat
      BY <1>2, <1>4
    <3> HIDE DEF lost
    <3>2. QED
      BY <1>5, <3>1 DEF AccountsInv, AccountTypes
  <2>5. QED
    BY <2>1, <2>2, <2>3, <2>4 DEF AccountTypes
<1>8. ASSUME exact'[s]
      PROVE  /\ new.average \in Nat
             /\ Risk!Abs(Unexplained(new, cash[s] - x * price)) <= rounding[s] + lost
  <2>1. exact[s] /\ fits
    BY <1>6, <1>8, Zenon
  <2>2. p.average \in Nat /\ Risk!Abs(Unexplained(p, cash[s])) <= rounding[s]
    BY <2>1 DEF AccountsInv, AccountsAddUp, Risk!AccountsAddUp, Unexplained, Gap, p
  <2>3. /\ new.average \in Nat
        /\ Risk!Abs(Unexplained(new, cash[s] - x * price) - Unexplained(p, cash[s])) <= lost
    BY <1>2, <1>3, <2>1, <2>2, FillAddsUp DEF average, earned
  <2>4. Unexplained(new, cash[s] - x * price) \in Int /\ Unexplained(p, cash[s]) \in Int
    BY <1>2, <1>3, <1>4 DEF Unexplained, Gap, Position
  <2> HIDE DEF lost
  <2>5. QED
    BY <1>2, <1>4, <2>2, <2>3, <2>4 DEF Risk!Abs
<1>9. \A r \in Symbols : exact'[r] => positions'[r].average \in Nat
  BY <1>6, <1>8 DEF AccountsInv
<1>10. ASSUME NEW r \in Symbols, exact'[r]
       PROVE  Risk!Abs(positions'[r].realized - (cash'[r] + positions'[r].quantity * positions'[r].average)) <= rounding'[r]
  <2>1. CASE r = s
    <3>1. Risk!Abs(Unexplained(positions'[r], cash'[r])) <= rounding'[r]
      BY <1>6, <1>8, <1>10, <2>1
    <3>2. QED
      BY <3>1 DEF Unexplained, Gap
  <2>2. CASE r # s
    <3>1. exact[r] /\ positions'[r] = positions[r] /\ cash'[r] = cash[r] /\ rounding'[r] = rounding[r]
      BY <1>6, <1>10, <2>2
    <3>2. Risk!Abs(positions[r].realized - (cash[r] + positions[r].quantity * positions[r].average)) <= rounding[r]
      BY <3>1 DEF AccountsInv, AccountsAddUp, Risk!AccountsAddUp
    <3>3. QED
      BY <3>1, <3>2
  <2>3. QED
    BY <2>1, <2>2
<1>11. AccountsAddUp'
  BY <1>10 DEF AccountsAddUp, Risk!AccountsAddUp
<1>12. QED
  BY <1>7, <1>9, <1>11 DEF AccountsInv

(* A quote moves the mark and the profit on paper only.                    *)
LEMMA OnPriceUpdateStep ==
  ASSUME AccountsInv, NEW s \in Symbols, NEW bid \in QuotedPrices, NEW ask \in QuotedPrices,
         Risk!OnPriceUpdate(s, bid, ask)
  PROVE  AccountsInv'
<1> DEFINE mark == (bid + ask) \div 2
           p == positions[s]
           paper == IF p.quantity = 0 THEN p.unrealized ELSE Risk!Abs(p.quantity) * Risk!Gain(p, mark)
           new == [p EXCEPT !.mark = mark, !.unrealized = paper]
<1>1. positions' = [positions EXCEPT ![s] = new] /\ UNCHANGED <<cash, exact, rounding>>
  <2>1. /\ positions' = [positions EXCEPT ![s].mark = mark,
                           ![s].unrealized = IF p.quantity = 0 THEN @ ELSE Risk!Abs(p.quantity) * Risk!Gain(p, mark)]
        /\ UNCHANGED <<cash, exact, rounding>>
    BY DEF Risk!OnPriceUpdate, Risk!historyVars
  <2>2. positions \in [Symbols -> Position]
    BY DEF AccountsInv, AccountTypes
  <2> HIDE DEF mark
  <2>3. QED
    BY <2>1, <2>2 DEF Position
<1>2. p \in Position /\ mark \in Int
  <2>1. bid + ask \in Int /\ 2 \in Nat \ {0}
    BY RiskConstants
  <2>2. mark \in Int
    BY <2>1, DivMod
  <2>3. QED
    BY <2>2 DEF AccountsInv, AccountTypes
<1> HIDE DEF mark
<1>3. paper \in Int
  <2>1. p.quantity \in Int /\ p.average \in Int /\ p.unrealized \in Int
    BY <1>2 DEF Position
  <2>2. QED
    BY <1>2, <2>1 DEF Risk!Abs, Risk!Gain
<1>4. new \in Position /\ new.quantity = p.quantity /\ new.average = p.average /\ new.realized = p.realized
  <2> HIDE DEF paper
  <2>1. QED
    BY <1>2, <1>3 DEF Position
<1> HIDE DEF new
<1>5. AccountTypes'
  BY <1>1, <1>4 DEF AccountsInv, AccountTypes
<1>6. \A r \in Symbols : /\ positions'[r].quantity = positions[r].quantity
                         /\ positions'[r].average = positions[r].average
                         /\ positions'[r].realized = positions[r].realized
  BY <1>1, <1>4 DEF AccountsInv, AccountTypes
<1>7. AccountsAddUp'
  BY <1>1, <1>6, Zenon DEF AccountsInv, AccountsAddUp, Risk!AccountsAddUp
<1>8. QED
  BY <1>1, <1>5, <1>6, <1>7 DEF AccountsInv

LEMMA AccountsStand == ASSUME AccountsInv, UNCHANGED <<positions, cash, exact, rounding>> PROVE AccountsInv'
<1>1. AccountsAddUp'
  BY Zenon DEF AccountsInv, AccountsAddUp, Risk!AccountsAddUp
<1>2. QED
  BY <1>1 DEF AccountsInv, AccountTypes

LEMMA NextAccounts == AccountsInv /\ [Risk!Next]_(Risk!vars) => AccountsInv'
<1> SUFFICES ASSUME AccountsInv, [Risk!Next]_(Risk!vars) PROVE AccountsInv'
  OBVIOUS
<1>1. CASE UNCHANGED Risk!vars
  BY <1>1, AccountsStand DEF Risk!vars, Risk!accountVars, Risk!historyVars
<1>2. ASSUME NEW o \in Risk!CheckedOrders, Risk!CheckOrder(o) PROVE AccountsInv'
  BY <1>2, AccountsStand DEF Risk!CheckOrder
<1>3. ASSUME NEW s \in Symbols, NEW side \in Risk!Sides, NEW q \in Quantities, NEW p \in QuotedPrices,
             Risk!OnFill(s, side, q, p)
      PROVE  AccountsInv'
  BY <1>3, OnFillStep
<1>4. ASSUME NEW s \in Symbols, NEW bid \in QuotedPrices, NEW ask \in QuotedPrices, Risk!OnPriceUpdate(s, bid, ask)
      PROVE  AccountsInv'
  BY <1>4, OnPriceUpdateStep
<1>5. CASE Risk!EmergencyStop \/ Risk!EnableTrading \/ Risk!ResetDaily \/ Risk!Tick
  BY <1>5, AccountsStand
     DEF Risk!EmergencyStop, Risk!EnableTrading, Risk!ResetDaily, Risk!Tick, Risk!accountVars, Risk!historyVars
<1>6. QED
  BY <1>1, <1>2, <1>3, <1>4, <1>5 DEF Risk!Next

(* However buys and sells, partial closings and quotes follow one another, *)
(* what a symbol has earned is the cash its fills moved and the cost of    *)
(* what is held, up to what the divisions in the average lose, as long as  *)
(* no fill takes the position through zero and the cost fits an int64      *)
(* (risk_manager.hpp, on_fill).                                            *)
THEOREM BooksBalance == Risk!Spec => []AccountsAddUp
<1>1. AccountsInv => AccountsAddUp
  BY DEF AccountsInv
<1>2. Risk!Spec => []AccountsInv
  BY InitAccounts, NextAccounts, PTL DEF Risk!Spec
<1>3. QED
  BY <1>1, <1>2, PTL

-------------------------------------------------------------------------------
(* The rate limits of RiskManager.                                         *)

\* The counters, once brought up to date, are the orders of this second and minute.
RateInv ==
  /\ now \in Nat /\ last.second \in Int /\ last.minute \in Int
  /\ last.second <= now /\ last.minute <= Risk!Minute
  /\ passed.second = Risk!Rolled.second /\ passed.minute = Risk!Rolled.minute
  /\ rateCount.second \in Nat /\ rateCount.minute \in Nat
  /\ RateWithinLimits

LEMMA MinuteType == ASSUME now \in Nat PROVE Risk!Minute \in Int
<1>1. now \in Int /\ SecondsPerMinute \in Nat \ {0}
  BY RiskConstants
<1>2. now \div SecondsPerMinute \in Int
  BY <1>1, DivMod
<1>3. QED
  BY <1>2 DEF Risk!Minute

LEMMA MinutesAdvance ==
  ASSUME NEW n \in Nat, NEW N \in Nat \ {0}
  PROVE  n \div N <= (n + 1) \div N
<1> DEFINE a == n \div N
           b == (n + 1) \div N
<1>1. a \in Int /\ n % N \in 0..(N - 1) /\ n = a * N + (n % N)
  BY DivMod
<1>2. b \in Int /\ (n + 1) % N \in 0..(N - 1) /\ n + 1 = b * N + ((n + 1) % N)
  <2>1. n + 1 \in Int
    OBVIOUS
  <2>2. QED
    BY <2>1, DivMod
<1> HIDE DEF a, b
<1>3. ASSUME b + 1 <= a PROVE FALSE
  <2>1. (b + 1) * N <= a * N
    BY <1>1, <1>2, <1>3
  <2>2. (b + 1) * N = b * N + N /\ b * N \in Int /\ a * N \in Int
    BY <1>1, <1>2
  <2>3. QED
    BY <1>1, <1>2, <2>1, <2>2
<1>4. a <= b
  BY <1>1, <1>2, <1>3
<1>5. QED
  BY <1>4 DEF a, b

LEMMA InitRates == Risk!Init => RateInv
<1> SUFFICES ASSUME Risk!Init PROVE RateInv
  OBVIOUS
<1>1. /\ rateCount = [second |-> 0, minute |-> 0] /\ last = [second |-> 0, minute |-> 0]
      /\ now = 0 /\ passed = [second |-> 0, minute |-> 0]
  BY DEF Risk!Init
<1>2. Risk!Minute >= 0
  <2>1. 0 \in Int /\ 0 \in Nat /\ SecondsPerMinute \in Nat \ {0}
    BY RiskConstants
  <2>2. 0 \div SecondsPerMinute \in Nat
    BY ONLY <2>1, DivMod
  <2>3. QED
    BY <1>1, <2>2 DEF Risk!Minute
<1>3. Risk!Rolled.second = 0 /\ Risk!Rolled.minute = 0
  BY <1>1 DEF Risk!Rolled
<1>4. RateWithinLimits
  BY <1>1, RiskConstants DEF RateWithinLimits, Risk!RateWithinLimits
<1>5. QED
  BY <1>1, <1>2, <1>3, <1>4 DEF RateInv

LEMMA CheckOrderRates ==
  ASSUME RateInv, NEW o \in Risk!CheckedOrders, Risk!CheckOrder(o)
  PROVE  RateInv'
<1> DEFINE passes == Risk!WithinRates /\ Risk!Acceptable(o)
<1>1. /\ last' = [second |-> now, minute |-> Risk!Minute]
      /\ passes => /\ rateCount' = [second |-> Risk!Rolled.second + 1, minute |-> Risk!Rolled.minute + 1]
                   /\ passed' = [second |-> passed.second + 1, minute |-> passed.minute + 1]
      /\ ~passes => rateCount' = Risk!Rolled /\ passed' = passed
      /\ now' = now
  BY DEF Risk!CheckOrder
<1>2. passes => Risk!Rolled.second < MaxPerSecond /\ Risk!Rolled.minute < MaxPerMinute
  BY DEF Risk!WithinRates
<1> HIDE DEF passes
<1>3. Risk!Rolled.second \in Nat /\ Risk!Rolled.minute \in Nat
  BY DEF RateInv, Risk!Rolled
<1>4. Risk!Minute' = Risk!Minute /\ Risk!Minute \in Int
  BY <1>1, MinuteType DEF RateInv, Risk!Minute
<1>5. Risk!Rolled'.second = rateCount'.second /\ Risk!Rolled'.minute = rateCount'.minute
  BY <1>1, <1>4 DEF Risk!Rolled
<1>6. /\ passed'.second = rateCount'.second /\ passed'.minute = rateCount'.minute
      /\ rateCount'.second \in Nat /\ rateCount'.minute \in Nat
      /\ passed'.second <= MaxPerSecond /\ passed'.minute <= MaxPerMinute
  <2>1. CASE passes
    BY <1>1, <1>2, <1>3, <2>1, RiskConstants DEF RateInv
  <2>2. CASE ~passes
    BY <1>1, <1>3, <2>2 DEF RateInv, RateWithinLimits, Risk!RateWithinLimits
  <2>3. QED
    BY <2>1, <2>2
<1>7. QED
  BY <1>1, <1>4, <1>5, <1>6 DEF RateInv, RateWithinLimits, Risk!RateWithinLimits

LEMMA ResetRates == RateInv /\ Risk!ResetDaily => RateInv'
<1> SUFFICES ASSUME RateInv, Risk!ResetDaily PROVE RateInv'
  OBVIOUS
<1>1. /\ rateCount' = [second |-> 0, minute |-> 0] /\ passed' = [second |-> 0, minute |-> 0]
      /\ last' = last /\ now' = now
  BY DEF Risk!ResetDaily
<1>2. Risk!Minute' = Risk!Minute
  BY <1>1 DEF Risk!Minute
<1>3. Risk!Rolled'.second = 0 /\ Risk!Rolled'.minute = 0
  BY <1>1 DEF Risk!Rolled
<1>4. QED
  BY <1>1, <1>2, <1>3, RiskConstants DEF RateInv, RateWithinLimits, Risk!RateWithinLimits

(* A counter that is not of the new second or minute starts again.         *)
LEMMA TickRates == RateInv /\ Risk!Tick => RateInv'
<1> SUFFICES ASSUME RateInv, Risk!Tick PROVE RateInv'
  OBVIOUS
<1>1. /\ now' = now + 1 /\ rateCount' = rateCount /\ last' = last
      /\ passed' = [second |-> 0, minute |-> IF Risk!Minute' = Risk!Minute THEN passed.minute ELSE 0]
  BY DEF Risk!Tick, Risk!rateVars
<1>2. now \in Nat /\ now' \in Nat /\ last.second < now'
  BY <1>1 DEF RateInv
<1>3. Risk!Minute \in Int /\ Risk!Minute' \in Int /\ Risk!Minute <= Risk!Minute'
  <2>1. now \in Int /\ now + 1 \in Int /\ SecondsPerMinute \in Nat \ {0}
    BY <1>2, RiskConstants
  <2>2. now \div SecondsPerMinute \in Int /\ (now + 1) \div SecondsPerMinute \in Int
    BY ONLY <2>1, DivMod
  <2>3. now \div SecondsPerMinute <= (now + 1) \div SecondsPerMinute
    BY <1>2, <2>1, MinutesAdvance
  <2>4. QED
    BY <1>1, <2>2, <2>3 DEF Risk!Minute
<1>4. Risk!Rolled'.second = 0
  BY <1>1, <1>2 DEF Risk!Rolled, RateInv
<1>5. Risk!Rolled'.minute = IF Risk!Minute' = Risk!Minute THEN Risk!Rolled.minute ELSE 0
  BY <1>1, <1>3 DEF Risk!Rolled, RateInv
<1>6. passed'.second = 0 /\ passed'.minute = IF Risk!Minute' = Risk!Minute THEN passed.minute ELSE 0
  BY <1>1
<1>7. RateWithinLimits'
  BY <1>6, RiskConstants DEF RateInv, RateWithinLimits, Risk!RateWithinLimits
<1>8. QED
  BY <1>1, <1>2, <1>3, <1>4, <1>5, <1>6, <1>7 DEF RateInv

LEMMA RatesStand == ASSUME RateInv, UNCHANGED <<rateCount, last, now, passed>> PROVE RateInv'
<1>1. Risk!Minute' = Risk!Minute
  BY DEF Risk!Minute
<1>2. Risk!Rolled' = Risk!Rolled
  BY <1>1 DEF Risk!Rolled
<1>3. QED
  BY <1>1, <1>2 DEF RateInv, RateWithinLimits, Risk!RateWithinLimits

LEMMA NextRates == RateInv /\ [Risk!Next]_(Risk!vars) => RateInv'
<1> SUFFICES ASSUME RateInv, [Risk!Next]_(Risk!vars) PROVE RateInv'
  OBVIOUS
<1>1. CASE UNCHANGED Risk!vars
  BY <1>1, RatesStand DEF Risk!vars, Risk!rateVars, Risk!historyVars
<1>2. ASSUME NEW o \in Risk!CheckedOrders, Risk!CheckOrder(o) PROVE RateInv'
  BY <1>2, CheckOrderRates
<1>3. ASSUME NEW s \in Symbols, NEW side \in Risk!Sides, NEW q \in Quantities, NEW p \in QuotedPrices,
             Risk!OnFill(s, side, q, p)
      PROVE  RateInv'
  BY <1>3, RatesStand DEF Risk!OnFill, Risk!rateVars
<1>4. ASSUME NEW s \in Symbols, NEW bid \in QuotedPrices, NEW ask \in QuotedPrices, Risk!OnPriceUpdate(s, bid, ask)
      PROVE  RateInv'
  BY <1>4, RatesStand DEF Risk!OnPriceUpdate, Risk!rateVars, Risk!historyVars
<1>5. CASE Risk!EmergencyStop \/ Risk!EnableTrading
  BY <1>5, RatesStand DEF Risk!EmergencyStop, Risk!EnableTrading, Risk!rateVars, Risk!historyVars
<1>6. CASE Risk!ResetDaily \/ Risk!Tick
  BY <1>6, ResetRates, TickRates
<1>7. QED
  BY <1>1, <1>2, <1>3, <1>4, <1>5, <1>6 DEF Risk!Next

(* In no second and in no minute of the clock do more orders pass than the *)
(* limits say, although each window rolls over only when an order is next  *)
(* checked, and the two at different times (check_rate_limits).            *)
THEOREM RateIsLimited == Risk!Spec => []RateWithinLimits
<1>1. RateInv => RateWithinLimits
  BY DEF RateInv
<1>2. Risk!Spec => []RateInv
  BY InitRates, NextRates, PTL DEF Risk!Spec
<1>3. QED
  BY <1>1, <1>2, PTL
===============================================================================
