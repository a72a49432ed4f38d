-------------------------- MODULE PaperAccounting --------------------------
(***************************************************************************)
(* The money of one paper portfolio when its orders are submitted one      *)
(* after the other: position sizing (risk/risk_engine.py), the simulated   *)
(* fill (broker/paper_broker.py), the portfolio (portfolio/portfolio.py)   *)
(* and the risk state each commit derives (agent/tools.py).                *)
(*                                                                         *)
(* All rates are numerators over Denominator: 0.0005, 0.001, 0.002, 0.005, *)
(* 0.20, 0.10 and 0.30 in the code are 1, 2, 4, 10, 400, 200 and 600 over  *)
(* 2000.  Quantities are in units of an arbitrarily small lot and money in *)
(* 1/Unit of a lot's price, so that the arithmetic is exact; the rounding  *)
(* of floats is abstracted from.                                           *)
(***************************************************************************)
EXTENDS Integers, Sequences, FiniteSets

CONSTANTS
  Denominator,
  Slippage, Fee,       \* slippage_pct and fee_pct of PaperBroker
  CostBuffer,          \* execution_cost_buffer_pct
  MaxRisk, MaxExposure, DailyCutoff, DrawdownCutoff,   \* RiskConfig
  StartingCash,        \* money
  Prices,              \* market prices of a lot
  Quantities,          \* requested quantities
  MaxDay, MaxVersion   \* bounds on the calendar and on the commits

ASSUME RateAssumption ==
  /\ Denominator \in Nat /\ Slippage \in Nat /\ Fee \in Nat /\ CostBuffer \in Nat
  /\ Slippage < Denominator /\ Fee < Denominator
  /\ {MaxRisk, MaxExposure, DailyCutoff, DrawdownCutoff} \subseteq 0..Denominator

(* The buffer covers slippage and fees: 1.0005 * 1.001 <= 1.002. *)
ASSUME BufferAssumption ==
  (Denominator + Slippage) * (Denominator + Fee) <= Denominator * (Denominator + CostBuffer)

ASSUME DomainAssumption ==
  /\ StartingCash \in Nat
  /\ Prices \subseteq Nat \ {0}
  /\ Quantities \subseteq Nat
  /\ MaxDay \in Nat /\ MaxVersion \in Nat

VARIABLES
  price, day,      \* the market and the UTC date
  cash, lots,      \* available_cash and btc_quantity
  entry,           \* avg_entry_price, in 1/Denominator of a price
  realized,        \* realized_pnl
  risk,            \* the persisted PortfolioRiskState; version 0: none
  answer,          \* of the last submission
  feesPaid,        \* history: all fees
  marks            \* history: [day, equity] of the baseline and of each commit

vars == <<price, day, cash, lots, entry, realized, risk, answer, feesPaid, marks>>

Unit == Denominator * Denominator

RiskStates == [version : Nat, current : Int, peak : Int, dayStart : Int, day : Nat,
               dailyPnl : Int]

(* Every variable has its type: no position is short, and no answer says that the
   risk state of a portfolio that has traded is missing. *)
TypeOK ==
  /\ price \in Prices
  /\ day \in 0..MaxDay
  /\ cash \in Int
  /\ lots \in Nat
  /\ entry \in Nat
  /\ realized \in Int
  /\ risk \in RiskStates
  /\ answer \in {"NONE", "COMMITTED", "DAILY_LOSS_CUTOFF", "MAX_DRAWDOWN_CUTOFF",
                 "INVALID_NOTIONAL", "MAX_POSITIONS_EXCEEDED", "INSUFFICIENT_PAPER_BALANCE",
                 "NOTIONAL_TOO_LARGE", "INVALID_QUANTITY"}
  /\ feesPaid \in Nat
  /\ marks \in Seq([day : Nat, equity : Int])

-----------------------------------------------------------------------------
Equity(c, n, p) == c + n * p * Unit            \* total_equity at market price p

(* executed_price, in 1/Denominator of a price, and the fees on q lots. *)
BuyPrice(p) == p * (Denominator + Slippage)
SellPrice(p) == p * (Denominator - Slippage)
FeesOn(q, executed) == q * executed * Fee
ValueOf(q, executed) == q * executed * Denominator

\* defect: the cash limit ignores the execution costs
AffordableAtMarket(notional) == notional <= cash
Affordable(notional) == notional * (Denominator + CostBuffer) <= cash * Denominator

(* The two loss limits on an account worth equity, given the risk state. *)
DailyLoss(equity, r) ==
  equity * Denominator <= r.dayStart * (Denominator - DailyCutoff)
Drawdown(equity, r) ==
  IF r.peak > 0
  THEN (r.peak - equity) * Denominator >= r.peak * DrawdownCutoff
  ELSE equity * Denominator <= StartingCash * (Denominator - DrawdownCutoff)

(* The largest position the risk per trade and the exposure allow. *)
WithinLimits(notional, equity) ==
  /\ notional * Denominator <= equity * MaxRisk
  /\ (lots * price * Unit + notional) * Denominator <= equity * MaxExposure

(* calculate_position_size for a BUY of q lots: the first check that fails. *)
SizingReason(q, r) ==
  LET equity == Equity(cash, lots, price)
      notional == q * price * Unit
  IN IF DailyLoss(equity, r) THEN "DAILY_LOSS_CUTOFF"
     ELSE IF Drawdown(equity, r) THEN "MAX_DRAWDOWN_CUTOFF"
     ELSE IF q = 0 THEN "INVALID_NOTIONAL"
     ELSE IF lots > 0 THEN "MAX_POSITIONS_EXCEEDED"
     ELSE IF ~Affordable(notional) THEN "INSUFFICIENT_PAPER_BALANCE"
     ELSE IF ~WithinLimits(notional, equity) THEN "NOTIONAL_TOO_LARGE"
     ELSE "COMMITTED"

(* The baseline written for a brand-new portfolio; an established one without a
   risk state gets none. *)
IsNewPortfolio == lots = 0 /\ cash = StartingCash /\ realized = 0
Baseline == [version |-> 1, current |-> cash, peak |-> cash, dayStart |-> cash,
             day |-> day, dailyPnl |-> 0]
Known == IF risk.version = 0 /\ IsNewPortfolio THEN Baseline ELSE risk

(* The answer to a BUY of q lots. *)
BuyAnswer(q) ==
  IF Known.version = 0 THEN "RISK_STATE_UNAVAILABLE" ELSE SizingReason(q, Known)

(* The risk state that is committed with an account worth eq: a first commit of
   a day starts from the equity of the commit before it. *)
\* defect: the rollover follows the update of current_equity
LateRollover(r, eq) ==
  LET start == IF r.day # day THEN eq ELSE r.dayStart
  IN [version |-> r.version + 1, current |-> eq,
      peak |-> IF eq > r.peak THEN eq ELSE r.peak,
      dayStart |-> start, day |-> day, dailyPnl |-> eq - start]
\* defect: the peak follows the equity down
FollowingPeak(r, eq) ==
  LET start == IF r.day # day THEN r.current ELSE r.dayStart
  IN [version |-> r.version + 1, current |-> eq, peak |-> eq,
      dayStart |-> start, day |-> day, dailyPnl |-> eq - start]
NewRisk(r, eq) ==
  LET start == IF r.day # day THEN r.current ELSE r.dayStart
  IN [version |-> r.version + 1, current |-> eq,
      peak |-> IF eq > r.peak THEN eq ELSE r.peak,
      dayStart |-> start, day |-> day, dailyPnl |-> eq - start]

(* The marks, with that of the baseline once there is a risk state. *)
KnownMarks ==
  IF risk.version # Known.version THEN <<[day |-> day, equity |-> cash]>> ELSE marks

(* What a commit stores. *)
Commit(eq) ==
  /\ answer' = "COMMITTED"
  /\ risk' = NewRisk(Known, eq)
  /\ marks' = Append(KnownMarks, [day |-> day, equity |-> eq])

Init ==
  /\ price \in Prices
  /\ day = 0
  /\ cash = StartingCash
  /\ lots = 0 /\ entry = 0 /\ realized = 0
  /\ risk = [version |-> 0, current |-> 0, peak |-> 0, dayStart |-> 0, day |-> 0,
             dailyPnl |-> 0]
  /\ answer = "NONE"
  /\ feesPaid = 0
  /\ marks = <<>>

(* apply_fill of a BUY; a position is only opened when none is held. *)
Buy(q) ==
  LET executed == BuyPrice(price)
      cost == ValueOf(q, executed) + FeesOn(q, executed)
  IN /\ BuyAnswer(q) = "COMMITTED"
     /\ Known.version < MaxVersion
     /\ cash' = cash - cost
     /\ lots' = lots + q
     /\ entry' = executed
     /\ feesPaid' = feesPaid + FeesOn(q, executed)
     /\ Commit(cash' + ValueOf(lots', executed))
     /\ UNCHANGED <<price, day, realized>>

(* A rejected BUY still initialises the risk state of a new portfolio. *)
BuyRejected(q) ==
  /\ BuyAnswer(q) # "COMMITTED"
  /\ answer' = BuyAnswer(q)
  /\ risk' = Known
  /\ marks' = KnownMarks
  /\ UNCHANGED <<price, day, cash, lots, entry, realized, feesPaid>>

(* apply_fill of a SELL: realized_pnl does not count the fees. *)
\* defect: the fees are taken from the realized profit and from the proceeds
ProfitNetOfFees(q, executed) == ValueOf(q, executed) - ValueOf(q, entry) - FeesOn(q, executed)
Profit(q, executed) == ValueOf(q, executed) - ValueOf(q, entry)

(* Quantity and holdings, checked before the sizing. *)
\* defect: the requested quantity is not compared with the holdings
SellableIfLong(q) == q > 0 /\ lots > 0
Sellable(q) == q > 0 /\ q <= lots

Sell(q) ==
  LET executed == SellPrice(price)
  IN /\ Sellable(q)
     /\ Known.version < MaxVersion
     /\ cash' = cash + ValueOf(q, executed) - FeesOn(q, executed)
     /\ realized' = realized + Profit(q, executed)
     /\ lots' = lots - q
     /\ entry' = IF lots' = 0 THEN 0 ELSE entry
     /\ feesPaid' = feesPaid + FeesOn(q, executed)
     /\ Commit(cash' + ValueOf(lots', executed))
     /\ UNCHANGED <<price, day>>

SellRejected(q) ==
  /\ ~Sellable(q)
  /\ answer' = "INVALID_QUANTITY"
  /\ UNCHANGED <<price, day, cash, lots, entry, realized, risk, feesPaid, marks>>

PriceMoves ==
  /\ \E p \in Prices \ {price} : price' = p
  /\ UNCHANGED <<day, cash, lots, entry, realized, risk, answer, feesPaid, marks>>

DayPasses ==
  /\ day < MaxDay
  /\ day' = day + 1
  /\ UNCHANGED <<price, cash, lots, entry, realized, risk, answer, feesPaid, marks>>

Next ==
  \/ \E q \in Quantities : Buy(q) \/ BuyRejected(q) \/ Sell(q) \/ SellRejected(q)
  \/ PriceMoves
  \/ DayPasses

Spec == Init /\ [][Next]_vars

-----------------------------------------------------------------------------
(* No sequence of approved orders overdraws the account, and from_snapshot never
   meets the negative cash it refuses: the size was checked at the market price,
   the fill pays slippage and fees on top. *)
CashNeverNegative == cash >= 0

(* The books balance: what the account has gained is the realized profit plus
   the value of the position over its entry price, less all the fees paid. *)
BooksBalance ==
  cash + ValueOf(lots, entry) = StartingCash + realized - feesPaid

(* The peak is the highest equity ever committed, however it fell since. *)
PeakIsHighest ==
  risk.version > 0 =>
    /\ \E n \in 1..Len(marks) : marks[n].equity = risk.peak
    /\ \A n \in 1..Len(marks) : marks[n].equity <= risk.peak

(* The day's baseline is the equity of the last commit of an earlier day, or the
   portfolio's first when it has traded on one day only. *)
DayStartsFromEarlierDay ==
  LET earlier == {n \in 1..Len(marks) : marks[n].day < risk.day}
      last == IF earlier = {} THEN 1
              ELSE CHOOSE n \in earlier : \A m \in earlier : m <= n
  IN risk.version > 0 =>
       /\ risk.dayStart = marks[last].equity
       /\ risk.dailyPnl = marks[Len(marks)].equity - marks[last].equity

(* The daily-loss limit (README.md:87) is about the loss of the day: an account
   that has held nothing since an earlier day has lost nothing today. *)
DailyLossIsOfToday ==
  [][\A q \in Quantities :
       BuyRejected(q) /\ answer' = "DAILY_LOSS_CUTOFF" /\ lots = 0 => Known.day = day]_vars

=============================================================================
