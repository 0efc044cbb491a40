----------------------------- MODULE ShadowTrading -----------------------------
(***************************************************************************)
(* trading/shadow_engine.hpp with the strategies it runs                   *)
(* (strategy/strategy_base.hpp), each with its RiskManager                 *)
(* (trading/risk_manager.hpp), trading one symbol on one MatchingEngine.   *)
(*                                                                         *)
(* Everything runs in one thread.  submit_order() publishes OrderNew; each *)
(* subscription of the shadow engine runs process_order(), which runs the  *)
(* matching engine and hands the outcome to on_order_update(), before      *)
(* submit_order() returns.  "current" is that call: while it lasts nothing *)
(* else happens.                                                           *)
(*                                                                         *)
(* An order is identified by the number its first submission has at the    *)
(* exchange.  Prices and profits are left out: slippage and commission do  *)
(* nothing here, and a limit on losses may be hit by any fill.  Nothing in *)
(* the shadow engine calls on_price_update(): the price check of           *)
(* check_order() passes without a reference price and its exposure check   *)
(* is one more bound on the size of a single order.  The limit per minute  *)
(* has the form of the one per second.  A check that fails leaves all this *)
(* as it was, so that it is no step at all.                                *)
(***************************************************************************)
EXTENDS Integers, FiniteSets

CONSTANTS
  Strategies,     \* the variants under test
  MaxPosition,    \* RiskLimits::max_position_size
  MaxOrderSize,   \* RiskLimits::max_order_size
  MaxPerSecond,   \* RiskLimits::max_orders_per_second
  MaxSeconds,     \* bound on the clock
  MaxStarts,      \* bound on the number of calls of start()
  Prices, Orders, Sizes, MaxOrders  \* see MatchingEngine

ASSUME LimitsAssumption ==
  MaxPosition \in Nat /\ MaxOrderSize \in Nat /\ MaxPerSecond \in Nat
ASSUME EngineAssumption == Strategies # {} /\ MaxSeconds \in Nat /\ MaxStarts \in Nat

VARIABLES
  order, resting, index, total, nextId, pc, nextClient, taker, report, qty, fills,
  restingOrders, left,  \* the exchange, see MatchingEngine
  running,        \* running_
  subscriptions,  \* how often subscribe_events() has run
  state,          \* StrategyBase::state_
  pending,        \* StrategyBase::pending_orders_: ids
  position,       \* RiskManager::positions_, the signed quantity
  enabled,        \* RiskManager::is_trading_enabled_
  count,          \* RiskManager::order_count_second_
  second,         \* the clock
  current,        \* the OrderNew event being delivered
  sender,         \* history: strategy and order id of each submission
  cancelled       \* history: ids each strategy has cancelled

Exchange == INSTANCE MatchingEngine

\* What MatchingEngine and its book assume.
ASSUME ExchangeAssumption ==
  /\ Prices \subseteq Int /\ Prices # {} /\ Sizes \subseteq Int /\ MaxOrders \in Nat
  /\ Orders # {}
  /\ Orders \subseteq [side : Exchange!Sides, type : Exchange!OrderTypes, price : Prices, quantity : Int]

exchangeVars == <<order, resting, index, total, nextId, pc, nextClient, taker, report, qty,
                  fills, restingOrders, left>>
strategyVars == <<state, pending, cancelled>>
riskVars == <<position, enabled, count>>
engineVars == <<running, subscriptions>>
vars == <<exchangeVars, strategyVars, riskVars, engineVars, sender, second, current>>

Tickets == 1..MaxOrders
NoOrder == CHOOSE o \in Orders : TRUE
NoEvent == [strategy |-> CHOOSE s \in Strategies : TRUE, order |-> NoOrder, id |-> 0, deliveries |-> 0]
NoSender == [strategy |-> CHOOSE s \in Strategies : TRUE, id |-> 0]

TypeOK ==
  /\ Exchange!TypeOK
  /\ running \in BOOLEAN /\ subscriptions \in 0..MaxStarts
  /\ state \in [Strategies -> {"Initializing", "Stopped", "Running", "Paused"}]
  /\ pending \in [Strategies -> SUBSET Tickets] /\ cancelled \in [Strategies -> SUBSET Tickets]
  /\ position \in [Strategies -> Int]
  /\ enabled \in [Strategies -> BOOLEAN]
  /\ count \in [Strategies -> 0..MaxPerSecond] /\ second \in 0..MaxSeconds
  /\ current \in [strategy : Strategies, order : Orders, id : Tickets \cup {0}, deliveries : 0..MaxStarts]
  /\ sender \in [Tickets -> [strategy : Strategies, id : Tickets \cup {0}]]

Init ==
  /\ Exchange!Init
  /\ running = FALSE /\ subscriptions = 0
  /\ state = [s \in Strategies |-> "Initializing"]
  /\ pending = [s \in Strategies |-> {}] /\ cancelled = [s \in Strategies |-> {}]
  /\ position = [s \in Strategies |-> 0]
  /\ enabled = [s \in Strategies |-> TRUE]
  /\ count = [s \in Strategies |-> 0] /\ second = 0
  /\ current = NoEvent
  /\ sender = [t \in Tickets |-> NoSender]

Idle == current = NoEvent

-------------------------------------------------------------------------------
(* The life cycle: ShadowEngine::start, stop, and the strategies'.         *)

\* initialize(), then start() of a strategy, from whatever state it was in.
Started(s) == "Running"

\* subscribe_events(): nothing is ever unsubscribed, and each subscription hands an
\* order to the strategy it came from.
Subscribe == subscriptions' = subscriptions + 1

Start ==
  /\ Idle /\ ~running /\ subscriptions < MaxStarts
  /\ running' = TRUE
  /\ state' = [s \in Strategies |-> Started(s)]
  /\ Subscribe
  /\ UNCHANGED <<exchangeVars, pending, cancelled, riskVars, sender, second, current>>

CancelAllOrders(stopping) ==
  /\ cancelled' = [s \in Strategies |-> IF s \in stopping THEN cancelled[s] \cup pending[s] ELSE cancelled[s]]
  /\ pending' = [s \in Strategies |-> IF s \in stopping THEN {} ELSE pending[s]]

\* stop() of every strategy that runs or is paused.
Stop ==
  /\ Idle /\ running
  /\ running' = FALSE
  /\ LET stopping == {s \in Strategies : state[s] \in {"Running", "Paused"}}
     IN  /\ CancelAllOrders(stopping)
         /\ state' = [s \in Strategies |-> IF s \in stopping THEN "Stopped" ELSE state[s]]
  /\ UNCHANGED <<exchangeVars, subscriptions, riskVars, sender, second, current>>

Pause(s) ==
  /\ Idle /\ state[s] = "Running"
  /\ state' = [state EXCEPT ![s] = "Paused"]
  /\ UNCHANGED <<exchangeVars, pending, cancelled, riskVars, engineVars, sender, second, current>>

Resume(s) ==
  /\ Idle /\ state[s] = "Paused"
  /\ state' = [state EXCEPT ![s] = "Running"]
  /\ UNCHANGED <<exchangeVars, pending, cancelled, riskVars, engineVars, sender, second, current>>

-------------------------------------------------------------------------------
(* StrategyBase::submit_order and RiskManager::check_order.                *)

Abs(x) == IF x < 0 THEN -x ELSE x
Signed(side, quantity) == IF side = "buy" THEN quantity ELSE -quantity

\* Mutant: the check adds the quantity whatever the side.
WithinPosition_Unsigned(s, o) == Abs(position[s] + o.quantity) <= MaxPosition
WithinPosition(s, o) == Abs(position[s] + Signed(o.side, o.quantity)) <= MaxPosition

\* check_order(); a failing check changes nothing.
Allowed(s, o) ==
  /\ enabled[s]
  /\ count[s] < MaxPerSecond
  /\ o.quantity <= MaxOrderSize
  /\ WithinPosition(s, o)

\* The order is counted and published.
SubmitOrder(s, o) ==
  /\ Idle /\ state[s] = "Running"
  /\ nextClient + subscriptions <= MaxOrders + 1
  /\ Allowed(s, o)
  /\ count' = [count EXCEPT ![s] = @ + 1]
  /\ pending' = [pending EXCEPT ![s] = @ \cup {nextClient}]
  /\ current' = [strategy |-> s, order |-> o, id |-> nextClient, deliveries |-> subscriptions]
  /\ UNCHANGED <<exchangeVars, state, cancelled, position, enabled, engineVars, sender, second>>

\* min_order_interval_ns: the order is counted by the risk manager, then dropped.
DropTooSoon(s, o) ==
  /\ Idle /\ state[s] = "Running"
  /\ Allowed(s, o)
  /\ count' = [count EXCEPT ![s] = @ + 1]
  /\ UNCHANGED <<exchangeVars, strategyVars, position, enabled, engineVars, sender, second, current>>

\* The next second: check_rate_limits() finds its counter to be of another one.
Tick ==
  /\ Idle /\ second < MaxSeconds
  /\ second' = second + 1
  /\ count' = [s \in Strategies |-> 0]
  /\ UNCHANGED <<exchangeVars, strategyVars, position, enabled, engineVars, sender, current>>

-------------------------------------------------------------------------------
(* ShadowEngine::process_order, once for each subscription.                *)

ProcessOrder ==
  /\ current.deliveries > 0 /\ pc = "idle"
  /\ Exchange!Submit(current.order)
  /\ sender' = [sender EXCEPT ![nextClient] = [strategy |-> current.strategy, id |-> current.id]]
  /\ current' = [current EXCEPT !.deliveries = @ - 1]
  /\ UNCHANGED <<strategyVars, riskVars, engineVars, second>>

Match ==
  /\ \/ Exchange!NextLevel \/ Exchange!FillFront \/ Exchange!EndExecute
     \/ Exchange!RestRemainder \/ Exchange!LimitFilled
  /\ UNCHANGED <<strategyVars, riskVars, engineVars, sender, second, current>>

\* Mutant: any answer settles the order.
Settled_AnyAnswer == TRUE
\* on_order_update() is given OrderFilled only for the status Filled, anything
\* else as OrderRejected, which it ignores.
Settled == report.status = "Filled"

\* The end of process_order(): on_fill_internal() and RiskManager::on_fill().
Respond ==
  /\ Exchange!PublishExecution
  /\ LET s == current.strategy
         fill == IF Settled THEN Signed(taker.side, report.filled) ELSE 0
     IN  /\ position' = [position EXCEPT ![s] = @ + fill]
         /\ pending' = [pending EXCEPT ![s] = IF Settled THEN @ \ {current.id} ELSE @]
         /\ \E breach \in IF Settled THEN BOOLEAN ELSE {FALSE} :
              enabled' = [enabled EXCEPT ![s] = @ /\ ~breach]
  /\ current' = IF current.deliveries = 0 THEN NoEvent ELSE current
  /\ UNCHANGED <<state, cancelled, count, engineVars, sender, second>>

-------------------------------------------------------------------------------

\* StrategyBase::cancel_order(id).  OrderCancelled has no subscriber.
CancelOrder(s, id) ==
  /\ Idle /\ state[s] = "Running"
  /\ id \in pending[s]
  /\ pending' = [pending EXCEPT ![s] = @ \ {id}]
  /\ cancelled' = [cancelled EXCEPT ![s] = @ \cup {id}]
  /\ UNCHANGED <<exchangeVars, state, riskVars, engineVars, sender, second, current>>

EnableTrading(s) ==
  /\ Idle /\ ~enabled[s]
  /\ enabled' = [enabled EXCEPT ![s] = TRUE]
  /\ UNCHANGED <<exchangeVars, strategyVars, position, count, engineVars, sender, second, current>>

-------------------------------------------------------------------------------

Call == ProcessOrder \/ Match \/ Respond

Next ==
  \/ Start \/ Stop \/ Tick \/ Call
  \/ \E s \in Strategies :
       \/ Pause(s) \/ Resume(s) \/ EnableTrading(s)
       \/ \E o \in Orders : SubmitOrder(s, o) \/ DropTooSoon(s, o)
       \/ \E id \in Tickets : CancelOrder(s, id)

Spec == Init /\ [][Next]_vars

-------------------------------------------------------------------------------

\* Until the engine is restarted, the position a risk manager has on record keeps
\* within the limit, although the check is made before the order trades; and an order
\* that rests in the book is one its strategy still waits for or has cancelled: no
\* order is forgotten.
OrdersAreTracked ==
  /\ TypeOK
  /\ subscriptions <= 1 =>
       /\ \A s \in Strategies : Abs(position[s]) <= MaxPosition
       /\ \A t \in Tickets : restingOrders[t] \in resting =>
            sender[t].id \in pending[sender[t].strategy] \cup cancelled[sender[t].strategy]

===============================================================================
