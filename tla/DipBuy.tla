------------------------------- MODULE DipBuy -------------------------------
(***************************************************************************)
(* The dip-buy strategy (strategies/dip_buy.py), run every five minutes by *)
(* a stateless Lambda (_auto_dip of agent/lambda_handler.py) over a state  *)
(* item that it reads at the start and writes whole at the end.            *)
(*                                                                         *)
(* The order service is reduced to what its caller can tell apart: an      *)
(* order commits together with the new strategy state, or is rejected      *)
(* (module TradeCommit has the detail).  Every BUY is of one lot and every *)
(* exit sells it.  A signal is named by the candle and the reference price *)
(* it is hashed from.  Rates are numerators over Scale; stored prices are  *)
(* in 1/Scale of a market price, which makes them exact.                   *)
(***************************************************************************)
EXTENDS Integers, Sequences, FiniteSets

CONSTANTS
  Evaluations,    \* runs of the strategy that may be in progress
  Prices,         \* market prices
  References,     \* values of the highest recent candle
  Scale,
  Slippage,       \* of the simulated fill
  Dip, TakeProfit, StopLoss, Trailing,   \* DipBuyConfig
  Cooldown,       \* in candles
  None,           \* "the field is absent"
  MaxClock,       \* bound on the clock, which counts candles
  MaxManual,      \* bound on the orders submitted beside the strategy's
  Faults          \* a subset of FaultKinds

FaultKinds ==
  {"overlap",      \* an evaluation may start while another is running
   "unavailable",  \* an order may be rejected without having had an effect
   "ambiguous",    \* an order that took effect may be answered with a rejection
   "crash"}        \* an evaluation may stop, or a call of it fail, at any point

ASSUME PriceAssumption == Prices \subseteq Nat \ {0} /\ References \subseteq Nat \ {0}
ASSUME RateAssumption ==
  /\ Scale \in Nat \ {0}
  /\ Slippage \in Nat
  /\ {Dip, TakeProfit, StopLoss, Trailing} \subseteq 1..(Scale - 1)
ASSUME BoundAssumption == Cooldown \in Nat /\ MaxClock \in Nat /\ MaxManual \in Nat
ASSUME NoneAssumption == None \notin Nat /\ None \notin (Nat \X References)
ASSUME FaultAssumption == Faults \subseteq FaultKinds

VARIABLES
  price, reference, clock,   \* the market; reference: the highest recent candle
  (* the table *)
  held,        \* lots in the newest portfolio snapshot
  version,     \* of the risk state
  keys,        \* claimed idempotency keys
  strategy,    \* the strategy state item
  (* the evaluations *)
  pc,
  (* ... and the locals of each, which end with it *)
  loaded,      \* lots of the local Portfolio object
  now,         \* when the evaluation started
  state,       \* the strategy state read, and then the one to be written
  request,     \* the order to be submitted
  expected,    \* expected_risk_version
  (* history *)
  orders       \* committed orders, with the time of their evaluation

locals == <<loaded, now, state, request, expected>>
market == <<price, reference, clock>>
table == <<held, version, keys, strategy>>
vars == <<market, table, pc, locals, orders>>

Signals == (0..MaxClock) \X References
ExitReasons == {"TAKE_PROFIT", "STOP_LOSS", "TRAILING_STOP"}
Positions == [id : Signals, entry : Nat, high : Nat, open : BOOLEAN]
States == [positions : Seq(Positions), signalActive : BOOLEAN,
           lastSignal : Signals \cup {None}, lastBuy : 0..MaxClock \cup {None}]
(* An order is identified by its key: the signal, and BUY or the exit reason. *)
Requests == [id : Signals, action : {"BUY"} \cup ExitReasons, price : Prices]

(* Every variable has its type; a position's high is never below its entry. *)
TypeOK ==
  /\ price \in Prices /\ reference \in References /\ clock \in 0..MaxClock
  /\ held \in Nat /\ version \in Nat
  /\ keys \subseteq Signals \X ({"BUY"} \cup ExitReasons)
  /\ strategy \in States
  /\ \A n \in 1..Len(strategy.positions) :
       strategy.positions[n].high >= strategy.positions[n].entry
  /\ pc \in [Evaluations -> {"idle", "read_state", "decide", "submit", "commit", "save"}]
  /\ loaded \in [Evaluations -> Nat]
  /\ now \in [Evaluations -> 0..MaxClock]
  /\ state \in [Evaluations -> States]
  /\ request \in [Evaluations -> Requests \cup {None}]
  /\ expected \in [Evaluations -> Nat]
  /\ orders \in Seq([id : Signals, action : {"BUY"} \cup ExitReasons, at : 0..MaxClock])

NewState == [positions |-> <<>>, signalActive |-> FALSE, lastSignal |-> None,
             lastBuy |-> None]

Init ==
  /\ price \in Prices /\ reference \in References /\ clock = 0
  /\ held = 0 /\ version = 1 /\ keys = {}
  /\ strategy = NewState
  /\ pc = [e \in Evaluations |-> "idle"]
  /\ loaded = [e \in Evaluations |-> 0]
  /\ now = [e \in Evaluations |-> 0]
  /\ state = [e \in Evaluations |-> NewState]
  /\ request = [e \in Evaluations |-> None]
  /\ expected = [e \in Evaluations |-> 0]
  /\ orders = <<>>

Goto(e, label) == pc' = [pc EXCEPT ![e] = label]

(* The evaluation ends; the next one starts afresh. *)
End(e) ==
  /\ Goto(e, "idle")
  /\ loaded' = [loaded EXCEPT ![e] = 0]
  /\ now' = [now EXCEPT ![e] = 0]
  /\ state' = [state EXCEPT ![e] = NewState]
  /\ request' = [request EXCEPT ![e] = None]
  /\ expected' = [expected EXCEPT ![e] = 0]

-----------------------------------------------------------------------------
(* The decision: operators on a position and the price of the evaluation. *)
Filled(p) == p * (Scale + Slippage)

\* defect: the high follows the price down
FollowedDown(pos, p) == IF pos.open THEN [pos EXCEPT !.high = p * Scale] ELSE pos
Watched(pos, p) ==
  IF pos.open /\ p * Scale > pos.high THEN [pos EXCEPT !.high = p * Scale] ELSE pos

AtProfit(pos, p) == p * Scale * Scale >= pos.entry * (Scale + TakeProfit)
AtLoss(pos, p) == p * Scale * Scale <= pos.entry * (Scale - StopLoss)
BelowHigh(pos, p) ==
  pos.high > pos.entry /\ p * Scale * Scale <= pos.high * (Scale - Trailing)

Triggers(pos, p) ==
  pos.open /\ LET w == Watched(pos, p)
              IN AtProfit(w, p) \/ AtLoss(w, p) \/ BelowHigh(w, p)
ExitReason(pos, p) ==
  IF AtProfit(pos, p) THEN "TAKE_PROFIT"
  ELSE IF AtLoss(pos, p) THEN "STOP_LOSS"
  ELSE "TRAILING_STOP"

Signal == (reference - price) * Scale >= reference * Dip
SignalId == <<clock, reference>>

\* defect: the comparison is one candle short
EarlyCooldown(e) == state[e].lastBuy # None /\ now[e] - state[e].lastBuy + 1 < Cooldown
InCooldown(e) == state[e].lastBuy # None /\ now[e] - state[e].lastBuy < Cooldown

(* The positions after the exit loop; it stops at the first exit. *)
Observed(e, last) ==
  [n \in 1..Len(state[e].positions) |->
     IF n <= last THEN Watched(state[e].positions[n], price) ELSE state[e].positions[n]]

(* The state that is written unless an order replaces it. *)
Evaluated(e, last) ==
  [state[e] EXCEPT !.positions = Observed(e, last),
                   !.lastSignal = IF Signal THEN SignalId ELSE @]

(* strategy_state_builder: the state that is committed with an order. *)
\* defect: the builder returns the pending state, without the new position
PendingState(e) ==
  [state[e] EXCEPT !.signalActive = TRUE, !.lastBuy = now[e]]
OpenedState(e) ==
  [state[e] EXCEPT !.signalActive = TRUE, !.lastBuy = now[e],
     !.positions = Append(@, [id |-> request[e].id, entry |-> Filled(request[e].price),
                              high |-> Filled(request[e].price), open |-> TRUE])]
CompletedState(e) ==
  [state[e] EXCEPT !.positions = [n \in 1..Len(@) |->
     IF @[n].id = request[e].id THEN [@[n] EXCEPT !.open = FALSE] ELSE @[n]]]

-----------------------------------------------------------------------------
(* _load_state. *)
LoadPortfolio(e) ==
  /\ pc[e] = "idle"
  /\ "overlap" \in Faults \/ \A other \in Evaluations \ {e} : pc[other] = "idle"
  /\ loaded' = [loaded EXCEPT ![e] = held]
  /\ Goto(e, "read_state")
  /\ UNCHANGED <<market, table, now, state, request, expected, orders>>

ReadState(e) ==
  /\ pc[e] = "read_state"
  /\ now' = [now EXCEPT ![e] = clock]
  /\ state' = [state EXCEPT ![e] = strategy]
  /\ Goto(e, "decide")
  /\ UNCHANGED <<market, table, loaded, request, expected, orders>>

(* An open position to exit comes before any entry, the first in the list. *)
DecideExit(e) ==
  /\ pc[e] = "decide"
  /\ \E n \in 1..Len(state[e].positions) :
       LET pos == state[e].positions[n]
       IN /\ Triggers(pos, price)
          /\ \A m \in 1..(n - 1) : ~Triggers(state[e].positions[m], price)
          /\ state' = [state EXCEPT ![e] = Evaluated(e, n)]
          /\ request' = [request EXCEPT ![e] =
               [id |-> pos.id, action |-> ExitReason(Watched(pos, price), price),
                price |-> price]]
  /\ Goto(e, "submit")
  /\ UNCHANGED <<market, table, loaded, now, expected, orders>>

NothingToExit(e) ==
  \A n \in 1..Len(state[e].positions) : ~Triggers(state[e].positions[n], price)

(* A signal is new if it is neither active nor the last one, out of the cooldown. *)
Enters(e) ==
  Signal /\ ~state[e].signalActive /\ state[e].lastSignal # SignalId /\ ~InCooldown(e)

DecideBuy(e) ==
  /\ pc[e] = "decide"
  /\ NothingToExit(e)
  /\ Enters(e)
  /\ state' = [state EXCEPT ![e] =
       [Evaluated(e, Len(state[e].positions)) EXCEPT !.signalActive = TRUE]]
  /\ request' = [request EXCEPT ![e] = [id |-> SignalId, action |-> "BUY", price |-> price]]
  /\ Goto(e, "submit")
  /\ UNCHANGED <<market, table, loaded, now, expected, orders>>

(* NO_DIP, SIGNAL_ALREADY_ACTIVE, SIGNAL_REPLAY and COOLDOWN_ACTIVE. *)
DecideNothing(e) ==
  /\ pc[e] = "decide"
  /\ NothingToExit(e)
  /\ ~Enters(e)
  /\ state' = [state EXCEPT ![e] =
       [Evaluated(e, Len(state[e].positions)) EXCEPT !.signalActive = Signal]]
  /\ Goto(e, "save")
  /\ UNCHANGED <<market, table, loaded, now, request, expected, orders>>

-----------------------------------------------------------------------------
\* defect: one key for the entry and the exits of a position
KeyPerPosition(e) == <<request[e].id, "BUY">>
KeyOf(e) == <<request[e].id, request[e].action>>
IsBuy(e) == request[e].action = "BUY"

(* Every evaluation makes a new proposal, so a claimed key is a conflict. *)
\* defect: the key is neither looked up nor a condition of the transaction
NeverClaimed(e) == FALSE
Claimed(e) == KeyOf(e) \in keys

(* A SELL needs holdings, and the position limit of a BUY is one. *)
\* defect: the holdings are not checked
OnlyPositionLimit(e) == IsBuy(e) /\ loaded[e] > 0
AgainstHoldings(e) == IF IsBuy(e) THEN loaded[e] > 0 ELSE loaded[e] < 1

Refused(e) == Claimed(e) \/ AgainstHoldings(e)

SubmitOrder(e) ==
  /\ pc[e] = "submit"
  /\ ~Refused(e)
  /\ expected' = [expected EXCEPT ![e] = version]
  /\ Goto(e, "commit")
  /\ UNCHANGED <<market, table, loaded, now, state, request, orders>>

(* PaperOrderRejected: the handler writes the state it has in memory.  A BUY may
   also be rejected for its size or the loss limits. *)
OrderRejected(e) ==
  /\ \/ pc[e] = "submit" /\ (Refused(e) \/ IsBuy(e) \/ "unavailable" \in Faults)
     \/ /\ pc[e] = "commit"
        /\ Claimed(e) \/ version # expected[e] \/ "unavailable" \in Faults
  /\ Goto(e, "save")
  /\ UNCHANGED <<market, table, locals, orders>>

(* The transaction: claim, snapshot, risk state and strategy state together. *)
TakesEffect(e) ==
  /\ pc[e] = "commit"
  /\ ~Claimed(e)
  /\ version = expected[e]
  /\ keys' = keys \cup {KeyOf(e)}
  /\ version' = version + 1
  /\ held' = loaded[e] + IF IsBuy(e) THEN 1 ELSE -1
  /\ strategy' = IF IsBuy(e) THEN OpenedState(e) ELSE CompletedState(e)
  /\ orders' = Append(orders, [id |-> request[e].id, action |-> request[e].action,
                               at |-> now[e]])
  /\ UNCHANGED market

\* defect: a committed order falls through to the save at the end
FallThrough(e) == Goto(e, "save") /\ UNCHANGED locals
Finish(e) == End(e)

OrderCommits(e) == TakesEffect(e) /\ Finish(e)

(* The commit is answered with a rejection (see RejectedNeverCommits, TradeCommit). *)
OrderLost(e) == "ambiguous" \in Faults /\ TakesEffect(e) /\ Goto(e, "save") /\ UNCHANGED locals

(* save_strategy_state: an unconditional put of the whole item. *)
Save(e) ==
  /\ pc[e] = "save"
  /\ strategy' = state[e]
  /\ End(e)
  /\ UNCHANGED <<market, held, version, keys, orders>>

Crash(e) ==
  /\ "crash" \in Faults
  /\ pc[e] # "idle"
  /\ End(e)
  /\ UNCHANGED <<market, table, orders>>

(* An order of action "paper_order" commits: it uses a version and writes the
   portfolio, of one lot at most, but the strategy state is not among its items.
   Its run may have loaded the portfolio before orders that have committed since. *)
ManualOrders == version - 1 - Len(orders)

ManualOrder ==
  /\ ManualOrders < MaxManual
  /\ version' = version + 1
  /\ held' \in {0, 1}
  /\ UNCHANGED <<market, keys, strategy, pc, locals, orders>>

MarketMoves ==
  /\ \E p \in Prices, r \in References : <<p, r>> # <<price, reference>> /\ price' = p /\ reference' = r
  /\ UNCHANGED <<clock, table, pc, locals, orders>>

Tick ==
  /\ clock < MaxClock
  /\ clock' = clock + 1
  /\ UNCHANGED <<price, reference, table, pc, locals, orders>>

Decide(e) == DecideExit(e) \/ DecideBuy(e) \/ DecideNothing(e)

Next ==
  \/ \E e \in Evaluations :
       \/ LoadPortfolio(e) \/ ReadState(e) \/ Decide(e)
       \/ SubmitOrder(e) \/ OrderRejected(e) \/ OrderCommits(e) \/ OrderLost(e)
       \/ Save(e) \/ Crash(e)
  \/ ManualOrder
  \/ MarketMoves
  \/ Tick

Spec == Init /\ [][Next]_vars

(* The schedule starts evaluations for ever, and no call fails for ever. *)
FairSpec ==
  /\ Spec
  /\ \A e \in Evaluations :
       /\ SF_vars(LoadPortfolio(e)) /\ SF_vars(ReadState(e)) /\ SF_vars(Decide(e))
       /\ SF_vars(SubmitOrder(e)) /\ SF_vars(OrderCommits(e)) /\ SF_vars(Save(e))

-----------------------------------------------------------------------------
Recorded == 1..Len(strategy.positions)

(* As long as nobody else trades, what the portfolio holds is exactly what the
   strategy still watches: no lot is held that no exit will ever sell, and no exit
   is tried for a lot that is gone. *)
PositionsMatchHoldings ==
  ManualOrders = 0 => Cardinality({n \in Recorded : strategy.positions[n].open}) = held

Entries == {n \in 1..Len(orders) : orders[n].action = "BUY"}

(* Two entries are at least the cooldown apart, whatever happened between them. *)
CooldownBetweenBuys ==
  \A m, n \in Entries : m < n => orders[n].at - orders[m].at >= Cooldown

(* A dip is bought at most once, even by evaluations that overlap, repeat or lose
   the answer to their order, and so do not find it in the strategy state. *)
EntersOncePerSignal ==
  \A m, n \in Entries : orders[m].id = orders[n].id => m = n

(* A recorded position stays recorded, and once it is closed it stays closed. *)
ClosedStaysClosed ==
  [][\A n \in Recorded : \E m \in 1..Len(strategy'.positions) :
       /\ strategy'.positions[m].id = strategy.positions[n].id
       /\ strategy'.positions[m].open => strategy.positions[n].open]_vars

(* The persisted high-water mark of a position, from which the trailing stop is
   measured, never falls. *)
HighWaterMarkNeverFalls ==
  [][\A n \in Recorded, m \in 1..Len(strategy'.positions) :
       strategy'.positions[m].id = strategy.positions[n].id
         => strategy'.positions[m].high >= strategy.positions[n].high]_vars

Triggered(id) ==
  \E n \in Recorded : strategy.positions[n].id = id /\ Triggers(strategy.positions[n], price)

(* A position whose exit is triggered is sold, unless the price moves away, or
   somebody else has sold what it refers to. *)
TriggeredExitSettles ==
  \A id \in Signals : Triggered(id) ~> ~Triggered(id) \/ ManualOrders > 0

=============================================================================
