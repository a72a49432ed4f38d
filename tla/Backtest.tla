------------------------------ MODULE Backtest ------------------------------
(***************************************************************************)
(* The backtester (backtesting/backtester.py): the signals of the EMA      *)
(* crossover strategy (strategies/ema_cross_v1.py) over a history of       *)
(* candles, each executed at the open of the next candle by the broker,    *)
(* the portfolio and the position sizing that PaperAccounting models.  The *)
(* sizing is given no persisted risk state, so it falls back to the        *)
(* starting capital of its own configuration.                              *)
(***************************************************************************)
EXTENDS Indicators, FiniteSets

CONSTANTS
  Fast, Slow,      \* the periods of the two averages, 20 and 50 in the code
  Stake,           \* the notional a BUY requests, in lots at a price of 1
  Histories,       \* sequences of candles [open, high, low, close]
  StartingCash,    \* of the Backtester, in money of PaperAccounting
  RiskCapital,     \* starting_capital of the RiskConfig default
  Denominator, Slippage, Fee, CostBuffer, MaxRisk, MaxExposure, DailyCutoff, DrawdownCutoff

Candles == [open : Nat \ {0}, high : Nat, low : Nat, close : Nat]

ASSUME PeriodAssumption == Fast \in Nat \ {0} /\ Slow \in Nat \ {0}
ASSUME HistoryAssumption == \A h \in Histories : h \in Seq(Candles)
(* The shares of a price that a stake buys are lots. *)
ASSUME StakeAssumption ==
  /\ Stake \in Nat
  /\ \A h \in Histories : \A i \in 1..Len(h) : Stake % h[i].open = 0
ASSUME AccountAssumption ==
  /\ StartingCash \in Nat /\ RiskCapital \in Nat
  /\ Denominator \in Nat /\ Slippage \in Nat /\ Fee \in Nat /\ CostBuffer \in Nat
  /\ Slippage < Denominator /\ Fee < Denominator
  /\ {MaxRisk, MaxExposure, DailyCutoff, DrawdownCutoff} \subseteq 0..Denominator
  /\ (Denominator + Slippage) * (Denominator + Fee) <= Denominator * (Denominator + CostBuffer)

VARIABLES
  candles, signals, index,      \* the history, its signals and the next one
  cash, lots, entry, realized,  \* the portfolio
  ledger

vars == <<candles, signals, index, cash, lots, entry, realized, ledger>>

Closes(h) == [i \in 1..Len(h) |-> h[i].close]

-----------------------------------------------------------------------------
(* generate_signals.  How far the fast average is above the slow one of the same
   index, times their denominators. *)
Order(closes, i) ==
  LET fast == Ema(closes, Fast)[i]
      slow == Ema(closes, Slow)[i]
  IN fast.num * slow.den - slow.num * fast.den
Compared(i) == i >= Fast /\ i >= Slow

\* defect: < and > for <= and >=
StrictCross(before, now) ==
  IF before < 0 /\ now > 0 THEN "BUY" ELSE IF before > 0 /\ now < 0 THEN "SELL" ELSE "HOLD"
Cross(before, now) ==
  IF before <= 0 /\ now > 0 THEN "BUY" ELSE IF before >= 0 /\ now < 0 THEN "SELL" ELSE "HOLD"

Signals(closes) ==
  [i \in 1..Len(closes) |->
     IF i > 1 /\ Compared(i - 1)
     THEN Cross(Order(closes, i - 1), Order(closes, i)) ELSE "HOLD"]

-----------------------------------------------------------------------------
Init ==
  /\ candles \in Histories
  /\ signals = Signals(Closes(candles))
  /\ index = 1
  /\ cash = StartingCash
  /\ lots = 0 /\ entry = 0 /\ realized = 0
  /\ ledger = <<>>

(* A signal executes at the open of the next candle, so that of the last does not. *)
CanExecute == index < Len(candles)
ExecPrice == candles[index + 1].open

Fallback == [version |-> 0, current |-> 0, peak |-> 0, dayStart |-> RiskCapital, day |-> 0,
             dailyPnl |-> 0]
Account == INSTANCE PaperAccounting WITH
  price <- ExecPrice, risk <- Fallback, StartingCash <- RiskCapital,
  Prices <- {}, Quantities <- {}, day <- 0, MaxDay <- 0, MaxVersion <- 0,
  answer <- "NONE", feesPaid <- 0, marks <- <<>>

Quantity == Stake \div ExecPrice

\* defect: every signal is bought as if no position were open
SizingWhenFlat ==
  IF lots > 0 THEN "COMMITTED" ELSE Account!SizingReason(Quantity, Fallback)
Sizing == Account!SizingReason(Quantity, Fallback)

Record(action, reason, quantity, executed) ==
  ledger' = Append(ledger, [index |-> index, action |-> action, reason |-> reason,
                            quantity |-> quantity, executed |-> executed])

Buy ==
  LET q == Quantity
      executed == Account!BuyPrice(ExecPrice)
  IN /\ CanExecute /\ signals[index] = "BUY"
     /\ Sizing = "COMMITTED"
     /\ cash' = cash - Account!ValueOf(q, executed) - Account!FeesOn(q, executed)
     /\ lots' = lots + q
     /\ entry' = executed      \* only bought when nothing is held
     /\ Record("BUY", "NONE", q, executed)
     /\ index' = index + 1
     /\ UNCHANGED <<candles, signals, realized>>

BuyRejected ==
  /\ CanExecute /\ signals[index] = "BUY"
  /\ Sizing # "COMMITTED"
  /\ Record("REJECTED", Sizing, 0, 0)
  /\ index' = index + 1
  /\ UNCHANGED <<candles, signals, cash, lots, entry, realized>>

(* A SELL closes the position. *)
\* defect: a SELL is of the stake, not of the position
SoldStake == Quantity
Sold == lots

Sell ==
  LET executed == Account!SellPrice(ExecPrice)
  IN /\ CanExecute /\ signals[index] = "SELL"
     /\ lots > 0
     /\ cash' = cash + Account!ValueOf(Sold, executed) - Account!FeesOn(Sold, executed)
     /\ realized' = realized + Account!Profit(Sold, executed)
     /\ lots' = lots - Sold
     /\ entry' = IF lots' = 0 THEN 0 ELSE entry
     /\ Record("SELL", "NONE", Sold, executed)
     /\ index' = index + 1
     /\ UNCHANGED <<candles, signals>>

NoPosition ==
  /\ CanExecute /\ signals[index] = "SELL"
  /\ lots = 0
  /\ Record("NO_POSITION", "NONE", 0, 0)
  /\ index' = index + 1
  /\ UNCHANGED <<candles, signals, cash, lots, entry, realized>>

Hold ==
  /\ index <= Len(candles)
  /\ signals[index] = "HOLD" \/ ~CanExecute
  /\ index' = index + 1
  /\ UNCHANGED <<candles, signals, cash, lots, entry, realized, ledger>>

Next == Buy \/ BuyRejected \/ Sell \/ NoPosition \/ Hold

Spec == Init /\ [][Next]_vars

-----------------------------------------------------------------------------
Actions == {"BUY", "SELL", "REJECTED", "NO_POSITION"}

(* Every variable has its type: no position is short, and the ledger has at most
   one entry per candle that was executed at. *)
TypeOK ==
  /\ candles \in Seq(Candles)
  /\ signals \in [1..Len(candles) -> {"BUY", "SELL", "HOLD"}]
  /\ index \in 1..(Len(candles) + 1)
  /\ cash \in Int /\ realized \in Int
  /\ lots \in Nat /\ entry \in Nat
  /\ Len(ledger) < index
  /\ \A n \in 1..Len(ledger) :
       /\ ledger[n].index \in 1..(Len(candles) - 1) /\ ledger[n].action \in Actions
       /\ n > 1 => ledger[n - 1].index < ledger[n].index

(* The candles never change, so what concerns them alone is checked once. *)
Once(P) == index = 1 => P

(* "Signal at index i is based on data up to i (no look-ahead)"
   (ema_cross_v1.py:12): the signals of a history cut off after i end with the
   signal that the whole history has at i. *)
SignalsNeverLookAhead ==
  Once(\A i \in 1..Len(candles) :
         Signals(SubSeq(Closes(candles), 1, i))[i] = signals[i])

(* The last signal between i and j that is not HOLD. *)
LastSignal(signal, i, j) ==
  \E k \in (i + 1)..j : signals[k] = signal /\ \A m \in (k + 1)..j : signals[m] = "HOLD"

(* No crossover is lost, not even one that stops where the averages are equal:
   while the fast average is above the slow one, having been at or below it
   before, the last signal was BUY; and SELL the other way round. *)
SignalsFollowOrder ==
  LET closes == Closes(candles)
      known == {i \in 1..Len(candles) : Compared(i)}
  IN Once(\A i, j \in known : i < j =>
       /\ Order(closes, i) <= 0 /\ Order(closes, j) > 0 => LastSignal("BUY", i, j)
       /\ Order(closes, i) >= 0 /\ Order(closes, j) < 0 => LastSignal("SELL", i, j))

(* An average stays within the prices it has seen (ema) and the average true
   range within the true ranges, which do not count the first candle's (atr). *)
AveragesStayInRange ==
  LET closes == Closes(candles)
  IN Once(\A p \in 1..Slow :
       /\ \A i \in p..Len(candles) : IsMean(Ema(closes, p)[i], closes, 1, i)
       /\ \A i \in (p + 1)..Len(candles) :
            IsMean(Atr(candles, p)[i], TrueRanges(candles), 2, i))

(* rsi is between 0 and 100; 100 as long as no price has fallen; and turning the
   prices upside down turns it around, unless they never changed.  (With a period
   of 1 it only knows the last change.) *)
RsiMirrors ==
  LET closes == Closes(candles)
  IN Once(\A p \in 2..Slow : \A i \in (p + 1)..Len(closes) :
       LET here == Rsi(closes, p)[i]
           there == Rsi(Mirror(closes), p)[i]
           changed == \E j \in 2..i : closes[j] # closes[j - 1]
           fallen == \E j \in 2..i : closes[j] < closes[j - 1]
       IN /\ 0 <= here.num /\ here.num <= 100 * here.den
          /\ ~fallen => here.num = 100 * here.den
          /\ changed => here.num * there.den + there.num * here.den
                          = 100 * here.den * there.den)

(* What the first n entries of the ledger have bought and not sold again. *)
Bought(e) ==
  IF e.action = "BUY" THEN e.quantity ELSE IF e.action = "SELL" THEN -e.quantity ELSE 0
Position(n) == Total([m \in 1..Len(ledger) |-> Bought(ledger[m])], 1, n)

(* One position at a time: an entry of the ledger fits what the entries before it
   have left, and a sale is of all that was bought (averages that meet give two
   BUY signals in a row, and the first SELL signal may come before any BUY). *)
FillsAlternate ==
  /\ \A n \in 1..Len(ledger) :
       LET e == ledger[n]
       IN /\ e.action = "BUY" => e.quantity > 0 /\ Position(n - 1) = 0
          /\ e.action = "SELL" => e.quantity > 0 /\ Position(n - 1) = e.quantity
          /\ e.action = "NO_POSITION" => Position(n - 1) = 0
          /\ e.reason = "MAX_POSITIONS_EXCEEDED" => Position(n - 1) > 0
  /\ lots = Position(Len(ledger))

Spent(e) == Account!ValueOf(Bought(e), e.executed)
FeesOf(e) == Account!FeesOn(e.quantity, e.executed)

(* The ledger explains the result: the realized profit is what the fills brought
   in above what they cost, the open position counted at its entry price; and the
   money is what it started with, plus that profit, less the fees of all fills,
   less the open position. *)
LedgerExplainsResult ==
  LET spent == Total([m \in 1..Len(ledger) |-> Spent(ledger[m])], 1, Len(ledger))
      fees == Total([m \in 1..Len(ledger) |-> FeesOf(ledger[m])], 1, Len(ledger))
      open == Account!ValueOf(lots, entry)
  IN /\ realized = open - spent
     /\ cash = StartingCash + realized - fees - open

(* A backtest never spends more than it has: the size of a BUY was checked at the
   open price, the fill pays slippage and fees on top. *)
CashNeverNegative == cash >= 0

=============================================================================
