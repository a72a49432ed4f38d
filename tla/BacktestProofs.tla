---------------------------- MODULE BacktestProofs ----------------------------
(***************************************************************************)
(* Theorems about Backtest, for histories of any length, any periods and   *)
(* any rates: what concerns the candles alone follows from the lemmas      *)
(* about the indicators; the ledger is explained by an invariant of the    *)
(* steps.                                                                  *)
(***************************************************************************)
EXTENDS Backtest, IndicatorProofs

(* The history is one of the given ones, and the signals are those of it. *)
Given == candles \in Histories /\ signals = Signals(Closes(candles))

LEMMA GivenAlways == Spec => []Given
<1>1. Init => Given
  BY DEF Init, Given
<1>2. Given /\ [Next]_vars => Given'
  BY DEF Given, Next, vars, Buy, BuyRejected, Sell, NoPosition, Hold
<1> QED BY <1>1, <1>2, PTL DEF Spec

LEMMA HistoryType ==
  ASSUME NEW h \in Histories
  PROVE  /\ Len(h) \in Nat /\ \A i \in 1..Len(h) : h[i] \in Candles
         /\ Len(Closes(h)) = Len(h) /\ Numbers(Closes(h), 1, Len(h))
         /\ \A i \in 1..Len(h) : Closes(h)[i] = h[i].close /\ Closes(h)[i] \in Nat
<1>1. h \in Seq(Candles)
  BY HistoryAssumption
<1>2. PICK n \in Nat : n = Len(h)
  BY <1>1
<1>3. \A i \in 1..n : h[i] \in Candles
  BY <1>1, <1>2
<1>4. Len(Closes(h)) = n
  BY <1>2 DEF Closes
<1>5. \A i \in 1..n : Closes(h)[i] = h[i].close /\ Closes(h)[i] \in Nat
  BY <1>2, <1>3 DEF Closes, Candles
<1> QED BY <1>2, <1>3, <1>4, <1>5 DEF Numbers

-----------------------------------------------------------------------------
(* Signals. *)

LEMMA OrderType ==
  ASSUME NEW s, Len(s) \in Nat, Numbers(s, 1, Len(s)), NEW i \in 1..Len(s), Compared(i)
  PROVE  Order(s, i) \in Int
<1>1. i \in Fast..Len(s) /\ i \in Slow..Len(s) /\ Fast \in Nat \ {0} /\ Slow \in Nat \ {0}
  BY PeriodAssumption DEF Compared
<1>2. Ema(s, Fast)[i] \in Fractions /\ Ema(s, Slow)[i] \in Fractions
  BY <1>1, EmaType
<1> QED BY <1>2 DEF Order, Fractions

(* What the averages say at i, they say from the prices up to i. *)
LEMMA OrderSame ==
  ASSUME NEW s, Len(s) \in Nat, Numbers(s, 1, Len(s)),
         NEW t, Len(t) \in Nat, Len(t) <= Len(s), Same(s, t, 1, Len(t)),
         NEW i \in 1..Len(t), Compared(i)
  PROVE  Order(s, i) = Order(t, i)
<1>1. i \in Fast..Len(t) /\ i \in Slow..Len(t) /\ Fast \in Nat \ {0} /\ Slow \in Nat \ {0}
  BY PeriodAssumption DEF Compared
<1>2. Ema(s, Fast)[i] = Ema(t, Fast)[i] /\ Ema(s, Slow)[i] = Ema(t, Slow)[i]
  BY <1>1, EmaNeverLooksAhead
<1> QED BY <1>2 DEF Order

LEMMA SignalAt ==
  ASSUME NEW s, Len(s) \in Nat, NEW i \in 1..Len(s)
  PROVE  Signals(s)[i] = IF i > 1 /\ Compared(i - 1)
                         THEN Cross(Order(s, i - 1), Order(s, i)) ELSE "HOLD"
BY DEF Signals

(* No signal depends on a later candle (ema_cross_v1.py:9-38), whatever the
   history and the periods. *)
THEOREM NoLookAhead == Spec => []SignalsNeverLookAhead
<1>1. ASSUME Given PROVE SignalsNeverLookAhead
  <2> DEFINE s == Closes(candles)
  <2>1. Len(s) \in Nat /\ Len(candles) = Len(s) /\ Numbers(s, 1, Len(s)) /\ signals = Signals(s)
    BY <1>1, HistoryType DEF Given
  <2>2. ASSUME NEW i \in 1..Len(s) PROVE Signals(SubSeq(s, 1, i))[i] = Signals(s)[i]
    <3> DEFINE t == SubSeq(s, 1, i)
    <3> SUFFICES Signals(t)[i] = Signals(s)[i]
      OBVIOUS
    <3>1. Len(t) = i /\ \A j \in 1..i : t[j] = s[j]
      BY <2>1
    <3>2. Len(t) \in Nat /\ Len(t) <= Len(s) /\ Same(s, t, 1, Len(t)) /\ i \in 1..Len(t)
      BY <2>1, <3>1 DEF Same
    <3> HIDE DEF s, t
    <3>3. CASE i > 1 /\ Compared(i - 1)
      <4>1. i - 1 \in 1..Len(t) /\ Compared(i)
        BY <3>1, <3>3, PeriodAssumption DEF Compared
      <4>2. Order(s, i - 1) = Order(t, i - 1) /\ Order(s, i) = Order(t, i)
        BY <2>1, <3>2, <3>3, <4>1, OrderSame
      <4> QED BY <2>1, <3>2, <3>3, <4>2, SignalAt
    <3>4. CASE ~(i > 1 /\ Compared(i - 1))
      BY <2>1, <3>2, <3>4, SignalAt
    <3> QED BY <3>3, <3>4
  <2> QED BY <2>1, <2>2 DEF SignalsNeverLookAhead, Once
<1> QED BY <1>1, GivenAlways, PTL

LEMMA CrossUp ==
  \A before, now \in Int :
    /\ before <= 0 /\ now > 0 => Cross(before, now) = "BUY"
    /\ before > 0 /\ now > 0 => Cross(before, now) = "HOLD"
BY DEF Cross

LEMMA CrossDown ==
  \A before, now \in Int :
    /\ before >= 0 /\ now < 0 => Cross(before, now) = "SELL"
    /\ before < 0 /\ now < 0 => Cross(before, now) = "HOLD"
BY DEF Cross

(* Between an index outside a set and one inside it, the set is entered to stay. *)
LEMMA LastEntry ==
  ASSUME NEW i \in Int, NEW j \in Int, i < j, NEW P, i \notin P, j \in P
  PROVE  \E k \in (i + 1)..j : k - 1 \notin P /\ k..j \subseteq P
<1> DEFINE T == {d \in Nat : i + 1 + d <= j /\ (i + 1 + d)..j \subseteq P}
<1>1. j - i - 1 \in T
  OBVIOUS
<1>2. T \in SUBSET Nat
  OBVIOUS
<1>3. PICK d \in T : \A e \in T : d <= e
  BY <1>1, <1>2, LeastNatural
<1>4. PICK k \in Int : k = i + 1 + d
  BY <1>2
<1>5. k \in (i + 1)..j /\ k..j \subseteq P
  BY <1>2, <1>3, <1>4
<1>6. k - 1 \notin P
  <2>1. SUFFICES ASSUME k - 1 \in P PROVE FALSE
    OBVIOUS
  <2>2. k - 1 # i
    BY <2>1
  <2>3. d - 1 \in Nat /\ i + 1 + (d - 1) = k - 1 /\ k - 1 <= j
    BY <1>2, <1>4, <1>5, <2>2
  <2>4. (k - 1)..j \subseteq P
    BY <1>5, <2>1
  <2>5. d - 1 \in T
    BY <2>3, <2>4
  <2> QED BY <1>2, <1>3, <2>5
<1> QED BY <1>5, <1>6

(* While the averages are in an order they were not in before, the last signal is
   the one that said so (ema_cross_v1.py:23-36). *)
THEOREM FollowsOrder == Spec => []SignalsFollowOrder
<1>1. ASSUME Given PROVE SignalsFollowOrder
  <2> DEFINE s == Closes(candles)
             known == {i \in 1..Len(candles) : Compared(i)}
  <2>1. Len(s) \in Nat /\ Len(candles) = Len(s) /\ Numbers(s, 1, Len(s)) /\ signals = Signals(s)
    BY <1>1, HistoryType DEF Given
  <2>2. known \subseteq 1..Len(s) /\ \A i \in known : Order(s, i) \in Int
    BY <2>1, OrderType
  <2>3. \A i, j \in known : i < j => i..j \subseteq known
    BY <2>1, PeriodAssumption DEF Compared
  <2>4. \A i, k \in known : k = i + 1 => signals[k] = Cross(Order(s, i), Order(s, k))
    <3>1. ASSUME NEW i \in known, NEW k \in known, k = i + 1
          PROVE  signals[k] = Cross(Order(s, i), Order(s, k))
      <4>1. k \in 1..Len(s) /\ k > 1 /\ k - 1 = i /\ Compared(i)
        BY <2>2, <3>1
      <4> HIDE DEF s, known
      <4> QED BY <2>1, <4>1, SignalAt
    <3> QED BY <3>1
  <2>5. ASSUME NEW i \in known, NEW j \in known, i < j, Order(s, i) <= 0, Order(s, j) > 0
        PROVE  LastSignal("BUY", i, j)
    <3> DEFINE P == {m \in known : Order(s, m) > 0}
    <3>1. i \in Int /\ j \in Int /\ i \notin P /\ j \in P
      BY <2>2, <2>5
    <3> HIDE DEF P
    <3>2. PICK k \in (i + 1)..j : k - 1 \notin P /\ k..j \subseteq P
      BY <2>5, <3>1, LastEntry
    <3> USE DEF P
    <3> HIDE DEF s, known
    <3>3. \A m \in k..j : m \in known /\ m - 1 \in known /\ m = (m - 1) + 1
      <4>1. \A m \in k..j : m \in i..j /\ m - 1 \in i..j /\ m = (m - 1) + 1
        BY <3>1
      <4> QED BY <2>3, <2>5, <4>1
    <3>4. k \in k..j
      BY <3>1
    <3>5. signals[k] = "BUY"
      <4>1. Order(s, k) > 0 /\ ~(Order(s, k - 1) > 0)
        BY <3>2, <3>3, <3>4
      <4>2. Order(s, k) \in Int /\ Order(s, k - 1) \in Int
        BY <2>2, <3>3, <3>4
      <4>3. signals[k] = Cross(Order(s, k - 1), Order(s, k))
        BY <2>4, <3>3, <3>4
      <4> QED BY <4>1, <4>2, <4>3, CrossUp
    <3>6. ASSUME NEW m \in (k + 1)..j PROVE signals[m] = "HOLD"
      <4>1. m \in k..j /\ m - 1 \in k..j
        BY <3>1
      <4>2. Order(s, m) > 0 /\ Order(s, m - 1) > 0
        BY <3>2, <4>1
      <4>3. Order(s, m) \in Int /\ Order(s, m - 1) \in Int
        BY <2>2, <3>3, <4>1
      <4>4. signals[m] = Cross(Order(s, m - 1), Order(s, m))
        BY <2>4, <3>3, <4>1
      <4> QED BY <4>2, <4>3, <4>4, CrossUp
    <3> QED BY <3>5, <3>6 DEF LastSignal
  <2>6. ASSUME NEW i \in known, NEW j \in known, i < j, Order(s, i) >= 0, Order(s, j) < 0
        PROVE  LastSignal("SELL", i, j)
    <3> DEFINE P == {m \in known : Order(s, m) < 0}
    <3>1. i \in Int /\ j \in Int /\ i \notin P /\ j \in P
      BY <2>2, <2>6
    <3> HIDE DEF P
    <3>2. PICK k \in (i + 1)..j : k - 1 \notin P /\ k..j \subseteq P
      BY <2>6, <3>1, LastEntry
    <3> USE DEF P
    <3> HIDE DEF s, known
    <3>3. \A m \in k..j : m \in known /\ m - 1 \in known /\ m = (m - 1) + 1
      <4>1. \A m \in k..j : m \in i..j /\ m - 1 \in i..j /\ m = (m - 1) + 1
        BY <3>1
      <4> QED BY <2>3, <2>6, <4>1
    <3>4. k \in k..j
      BY <3>1
    <3>5. signals[k] = "SELL"
      <4>1. Order(s, k) < 0 /\ ~(Order(s, k - 1) < 0)
        BY <3>2, <3>3, <3>4
      <4>2. Order(s, k) \in Int /\ Order(s, k - 1) \in Int
        BY <2>2, <3>3, <3>4
      <4>3. signals[k] = Cross(Order(s, k - 1), Order(s, k))
        BY <2>4, <3>3, <3>4
      <4> QED BY <4>1, <4>2, <4>3, CrossDown
    <3>6. ASSUME NEW m \in (k + 1)..j PROVE signals[m] = "HOLD"
      <4>1. m \in k..j /\ m - 1 \in k..j
        BY <3>1
      <4>2. Order(s, m) < 0 /\ Order(s, m - 1) < 0
        BY <3>2, <4>1
      <4>3. Order(s, m) \in Int /\ Order(s, m - 1) \in Int
        BY <2>2, <3>3, <4>1
      <4>4. signals[m] = Cross(Order(s, m - 1), Order(s, m))
        BY <2>4, <3>3, <4>1
      <4> QED BY <4>2, <4>3, <4>4, CrossDown
    <3> QED BY <3>5, <3>6 DEF LastSignal
  <2> QED BY <2>5, <2>6 DEF SignalsFollowOrder, Once
<1> QED BY <1>1, GivenAlways, PTL

-----------------------------------------------------------------------------
(* Indicators of the history. *)

(* The averages of the indicators stay among the values they average. *)
THEOREM AverageRange == Spec => []AveragesStayInRange
<1>1. ASSUME Given PROVE AveragesStayInRange
  <2> DEFINE s == Closes(candles)
             x == TrueRanges(candles)
  <2>1. Len(s) \in Nat /\ Len(candles) = Len(s) /\ Numbers(s, 1, Len(s))
    BY <1>1, HistoryType DEF Given
  <2>2. Len(x) = Len(candles) /\ Numbers(x, 2, Len(candles))
    <3>1. Len(candles) \in Nat /\ \A i \in 1..Len(candles) : candles[i] \in Candles
      BY <1>1, HistoryType DEF Given
    <3>2. \A i \in 1..Len(candles) :
            candles[i].high \in Int /\ candles[i].low \in Int /\ candles[i].close \in Int
      BY <3>1 DEF Candles
    <3> QED BY <3>1, <3>2, TrueRangesType
  <2> HIDE DEF s, x
  <2>3. \A p \in 1..Slow : \A i \in p..Len(candles) : IsMean(Ema(s, p)[i], s, 1, i)
    <3>1. \A p \in 1..Slow : p \in Nat \ {0}
      BY PeriodAssumption
    <3> QED BY <2>1, <3>1, EmaMean
  <2>4. \A p \in 1..Slow : \A i \in (p + 1)..Len(candles) : IsMean(Smoothed(x, p)[i], x, 2, i)
    <3>1. \A p \in 1..Slow : p \in Nat \ {0}
      BY PeriodAssumption
    <3> QED BY <2>1, <2>2, <3>1, SmoothedMean
  <2>5. \A p : Atr(candles, p) = Smoothed(x, p)
    BY DEF Atr, x
  <2> QED BY <2>3, <2>4, <2>5 DEF AveragesStayInRange, Once, s, x
<1> QED BY <1>1, GivenAlways, PTL

(* rsi is a percentage, 100 without a fall, and turned around by prices that are
   turned upside down. *)
THEOREM RsiSymmetry == Spec => []RsiMirrors
<1>1. ASSUME Given PROVE RsiMirrors
  <2> DEFINE s == Closes(candles)
  <2>1. Len(s) \in Nat /\ Numbers(s, 1, Len(s))
    BY <1>1, HistoryType DEF Given
  <2> HIDE DEF s
  <2>2. ASSUME NEW p \in 2..Slow, NEW i \in (p + 1)..Len(s)
        PROVE  LET here == Rsi(s, p)[i]
                   there == Rsi(Mirror(s), p)[i]
                   changed == \E j \in 2..i : s[j] # s[j - 1]
                   fallen == \E j \in 2..i : s[j] < s[j - 1]
               IN /\ 0 <= here.num /\ here.num <= 100 * here.den
                  /\ ~fallen => here.num = 100 * here.den
                  /\ changed => here.num * there.den + there.num * here.den
                                  = 100 * here.den * there.den
    <3>1. p \in Nat \ {0, 1} /\ p \in Nat \ {0}
      BY PeriodAssumption
    <3>2. 0 <= Rsi(s, p)[i].num /\ Rsi(s, p)[i].num <= 100 * Rsi(s, p)[i].den
      BY <2>1, <3>1, RsiBounded
    <3>3. (\A j \in 2..i : ~(s[j] < s[j - 1])) => Rsi(s, p)[i].num = 100 * Rsi(s, p)[i].den
      BY <2>1, <3>1, RsiWithoutFall
    <3>4. ASSUME NEW j \in 2..i, s[j] # s[j - 1]
          PROVE  Rsi(s, p)[i].num * Rsi(Mirror(s), p)[i].den
                   + Rsi(Mirror(s), p)[i].num * Rsi(s, p)[i].den
                   = 100 * Rsi(s, p)[i].den * Rsi(Mirror(s), p)[i].den
      BY <2>1, <3>1, <3>4, RsiTurns
    <3> QED BY <3>2, <3>3, <3>4
  <2> QED BY <2>2 DEF RsiMirrors, Once, s
<1> QED BY <1>1, GivenAlways, PTL

-----------------------------------------------------------------------------
(***************************************************************************)
(* The ledger.  Its sums are those of the entries before, plus what the    *)
(* new entry adds; that a BUY finds no position open is what the sizing    *)
(* refuses otherwise.                                                      *)
(***************************************************************************)

Reasons == {"NONE", "DAILY_LOSS_CUTOFF", "MAX_DRAWDOWN_CUTOFF", "INVALID_NOTIONAL",
            "MAX_POSITIONS_EXCEEDED", "INSUFFICIENT_PAPER_BALANCE", "NOTIONAL_TOO_LARGE"}
Entries == [index : Nat \ {0}, action : Actions, reason : Reasons, quantity : Nat, executed : Nat]

BoughtOf(l) == [m \in 1..Len(l) |-> Bought(l[m])]
SpentOf(l) == [m \in 1..Len(l) |-> Spent(l[m])]
FeesIn(l) == [m \in 1..Len(l) |-> FeesOf(l[m])]

Books ==
  /\ Given /\ TypeOK
  /\ ledger \in Seq(Entries)
  /\ \A n \in 1..Len(ledger) : ledger[n].index < index
  /\ FillsAlternate
  /\ LedgerExplainsResult

(* A series that goes on with one more value. *)
LEMMA TotalExtends ==
  ASSUME NEW n \in Nat, NEW s, NEW t, Numbers(t, 1, n + 1), Same(s, t, 1, n)
  PROVE  /\ Total(t, 1, n + 1) = Total(s, 1, n) + t[n + 1]
         /\ \A k \in 0..n : Total(t, 1, k) = Total(s, 1, k)
         /\ Total(s, 1, n) \in Int
<1>1. Numbers(s, 1, n)
  BY DEF Numbers, Same
<1>2. Total(s, 1, n) \in Int
  BY <1>1, TotalType
<1>3. ASSUME NEW k \in 0..n PROVE Total(t, 1, k) = Total(s, 1, k)
  <2>1. Numbers(s, 1, k) /\ Same(s, t, 1, k) /\ k \in Int /\ 1 - 1 <= k
    BY <1>1 DEF Numbers, Same
  <2> QED BY <2>1, TotalSame
<1>4. Total(t, 1, n + 1) = Total(t, 1, n) + t[n + 1]
  <2>1. PICK k \in Int : k = n + 1 /\ k - 1 = n /\ 1 <= k
    OBVIOUS
  <2>2. Total(t, 1, k) = Total(t, 1, k - 1) + t[k]
    BY <2>1, TotalStep
  <2> QED BY <2>1, <2>2
<1>5. Total(t, 1, n) = Total(s, 1, n)
  BY <1>3
<1> QED BY <1>2, <1>3, <1>4, <1>5

LEMMA MoneyType ==
  ASSUME NEW q \in Int, NEW executed \in Nat
  PROVE  Account!ValueOf(q, executed) \in Int /\ Account!FeesOn(q, executed) \in Int
BY AccountAssumption DEF Account!ValueOf, Account!FeesOn

LEMMA EntryType ==
  ASSUME NEW e \in Entries
  PROVE  Bought(e) \in Int /\ Spent(e) \in Int /\ FeesOf(e) \in Int
<1>1. e.quantity \in Nat /\ e.executed \in Nat
  BY DEF Entries
<1>2. Bought(e) \in Int
  BY <1>1 DEF Bought
<1>3. Spent(e) \in Int
  BY <1>1, <1>2, MoneyType DEF Spent
<1>4. FeesOf(e) \in Int
  <2>1. e.quantity \in Int
    BY <1>1
  <2> QED BY <1>1, <2>1, MoneyType DEF FeesOf
<1> QED BY <1>2, <1>3, <1>4

(* What an entry adds to the sums. *)
LEMMA SumsExtend ==
  ASSUME NEW l \in Seq(Entries), NEW e \in Entries
  PROVE  LET n == Len(l)
             l2 == Append(l, e)
         IN /\ Total(BoughtOf(l2), 1, n + 1) = Total(BoughtOf(l), 1, n) + Bought(e)
            /\ \A k \in 0..n : Total(BoughtOf(l2), 1, k) = Total(BoughtOf(l), 1, k)
            /\ Total(SpentOf(l2), 1, n + 1) = Total(SpentOf(l), 1, n) + Spent(e)
            /\ Total(FeesIn(l2), 1, n + 1) = Total(FeesIn(l), 1, n) + FeesOf(e)
            /\ Total(BoughtOf(l), 1, n) \in Int
            /\ Total(SpentOf(l), 1, n) \in Int /\ Total(FeesIn(l), 1, n) \in Int
<1>1. PICK n \in Nat : n = Len(l)
  OBVIOUS
<1>2. PICK l2 : l2 = Append(l, e)
  OBVIOUS
<1>3. /\ Len(l2) = n + 1 /\ l2[n + 1] = e
      /\ \A m \in 1..n : l2[m] = l[m]
      /\ \A m \in 1..(n + 1) : l2[m] \in Entries
  BY <1>1, <1>2
<1>4. /\ \A m \in 1..n : m \in 1..(n + 1)
      /\ n + 1 \in 1..(n + 1)
  OBVIOUS
<1>5. /\ Numbers(BoughtOf(l2), 1, n + 1) /\ Same(BoughtOf(l), BoughtOf(l2), 1, n)
      /\ BoughtOf(l2)[n + 1] = Bought(e)
  BY <1>1, <1>3, <1>4, EntryType DEF BoughtOf, Numbers, Same
<1>6. /\ Numbers(SpentOf(l2), 1, n + 1) /\ Same(SpentOf(l), SpentOf(l2), 1, n)
      /\ SpentOf(l2)[n + 1] = Spent(e)
  BY <1>1, <1>3, <1>4, EntryType DEF SpentOf, Numbers, Same
<1>7. /\ Numbers(FeesIn(l2), 1, n + 1) /\ Same(FeesIn(l), FeesIn(l2), 1, n)
      /\ FeesIn(l2)[n + 1] = FeesOf(e)
  BY <1>1, <1>3, <1>4, EntryType DEF FeesIn, Numbers, Same
<1>8. /\ Total(BoughtOf(l2), 1, n + 1) = Total(BoughtOf(l), 1, n) + Bought(e)
      /\ \A k \in 0..n : Total(BoughtOf(l2), 1, k) = Total(BoughtOf(l), 1, k)
      /\ Total(BoughtOf(l), 1, n) \in Int
  BY <1>5, TotalExtends
<1>9. /\ Total(SpentOf(l2), 1, n + 1) = Total(SpentOf(l), 1, n) + Spent(e)
      /\ Total(SpentOf(l), 1, n) \in Int
  BY <1>6, TotalExtends
<1>10. /\ Total(FeesIn(l2), 1, n + 1) = Total(FeesIn(l), 1, n) + FeesOf(e)
       /\ Total(FeesIn(l), 1, n) \in Int
  BY <1>7, TotalExtends
<1> QED BY <1>1, <1>2, <1>8, <1>9, <1>10

LEMMA BooksInit == Init => Books
<1> SUFFICES ASSUME Init PROVE Books
  OBVIOUS
<1>1. Given
  BY DEF Init, Given
<1>2. Len(candles) \in Nat /\ candles \in Seq(Candles) /\ Len(Closes(candles)) = Len(candles)
  BY <1>1, HistoryType, HistoryAssumption DEF Given
<1>3. TypeOK
  <2>1. signals \in [1..Len(candles) -> {"BUY", "SELL", "HOLD"}]
    BY <1>1, <1>2 DEF Given, Signals, Cross
  <2> QED BY <1>2, <2>1, AccountAssumption DEF TypeOK, Init
<1>4. ledger = <<>> /\ lots = 0 /\ entry = 0 /\ realized = 0 /\ cash = StartingCash
  BY DEF Init
<1>5. \A s : Total(s, 1, 0) = 0
  <2>1. 1 - 1 = 0 /\ 1 \in Int
    OBVIOUS
  <2> QED BY <2>1, TotalEmpty
<1>6. FillsAlternate
  BY <1>4, <1>5 DEF FillsAlternate, Position
<1>7. LedgerExplainsResult
  <2>1. Account!ValueOf(lots, entry) = 0
    BY <1>4, AccountAssumption DEF Account!ValueOf
  <2> QED BY <1>4, <1>5, <2>1, AccountAssumption DEF LedgerExplainsResult
<1> QED BY <1>1, <1>3, <1>4, <1>6, <1>7 DEF Books

(* An entry fits the position it meets. *)
Fits(e) ==
  /\ e.action = "BUY" => e.quantity > 0 /\ lots = 0
  /\ e.action = "SELL" => e.quantity > 0 /\ lots = e.quantity
  /\ e.action = "NO_POSITION" => lots = 0
  /\ e.reason = "MAX_POSITIONS_EXCEEDED" => lots > 0

(* What an entry that adds more and fee to the sums leaves of a balance. *)
LEMMA Balances ==
  ASSUME NEW start \in Int, NEW open \in Int, NEW next \in Int, NEW spent \in Int,
         NEW fees \in Int, NEW more \in Int, NEW fee \in Int,
         NEW profit, profit = open - spent,
         NEW money, money = start + profit - fees - open
  PROVE  /\ profit + next - open - more = next - (spent + more)
         /\ money - more - fee = start + (profit + next - open - more) - (fees + fee) - next
OBVIOUS

(* The books stay in order when an entry is recorded that fits and is accounted for. *)
LEMMA Recorded ==
  ASSUME Books, CanExecute, NEW e \in Entries, e.index = index, Fits(e),
         ledger' = Append(ledger, e), index' = index + 1, UNCHANGED <<candles, signals>>,
         lots' = lots + Bought(e), lots' \in Nat, entry' \in Nat,
         cash' = cash - Spent(e) - FeesOf(e),
         realized' = realized + Account!ValueOf(lots', entry')
                       - Account!ValueOf(lots, entry) - Spent(e)
  PROVE  Books'
<1> PICK n \in Nat : n = Len(ledger)
  BY DEF Books
<1>0. /\ ledger \in Seq(Entries) /\ n = Len(ledger) /\ TypeOK /\ Given
      /\ Len(candles) \in Nat /\ index \in 1..(Len(candles) - 1)
      /\ Bought(e) \in Int /\ Spent(e) \in Int /\ FeesOf(e) \in Int
  <2>1. ledger \in Seq(Entries) /\ n = Len(ledger) /\ TypeOK /\ Given
    BY DEF Books
  <2>2. Len(candles) \in Nat /\ index \in 1..(Len(candles) - 1)
    BY <2>1 DEF TypeOK, CanExecute
  <2> QED BY <2>1, <2>2, EntryType
<1>1. /\ Len(ledger') = n + 1 /\ ledger'[n + 1] = e
      /\ \A m \in 1..n : ledger'[m] = ledger[m]
      /\ ledger' \in Seq(Entries)
  BY <1>0
<1>2. ASSUME NEW m \in 1..(n + 1)
      PROVE  m \in 1..n \/ m = n + 1
  OBVIOUS
<1>3. \A m \in 1..n : /\ ledger[m].index < index /\ ledger[m].index \in 1..(Len(candles) - 1)
                      /\ ledger[m].action \in Actions
                      /\ m > 1 => ledger[m - 1].index < ledger[m].index
  BY <1>0 DEF Books, TypeOK
<1>4. ASSUME NEW m \in 1..(n + 1) PROVE ledger'[m].index < index'
  <2>1. index \in Int /\ index' = index + 1
    BY <1>0
  <2>2. CASE m \in 1..n
    BY <1>1, <1>3, <2>1, <2>2
  <2>3. CASE m = n + 1
    BY <1>1, <2>1, <2>3
  <2> QED BY <1>2, <2>2, <2>3
<1>5. ASSUME NEW m \in 1..(n + 1)
      PROVE  /\ ledger'[m].index \in 1..(Len(candles') - 1) /\ ledger'[m].action \in Actions
             /\ m > 1 => ledger'[m - 1].index < ledger'[m].index
  <2>1. CASE m \in 1..n
    <3>1. m > 1 => m - 1 \in 1..n
      BY <2>1
    <3> QED BY <1>1, <1>3, <2>1, <3>1
  <2>2. CASE m = n + 1
    <3>1. m > 1 => m - 1 \in 1..n
      BY <1>0, <2>2
    <3>2. e.action \in Actions
      BY DEF Entries
    <3> QED BY <1>0, <1>1, <1>3, <2>2, <3>1, <3>2
  <2> QED BY <1>2, <2>1, <2>2
<1>6. cash' \in Int /\ realized' \in Int
  <2>1. cash \in Int /\ realized \in Int /\ lots \in Nat /\ entry \in Nat
    BY <1>0 DEF TypeOK
  <2>2. Account!ValueOf(lots, entry) \in Int /\ Account!ValueOf(lots', entry') \in Int
    BY <2>1, MoneyType
  <2>3. cash - Spent(e) - FeesOf(e) \in Int
    BY <1>0, <2>1
  <2>4. \A a, b, c, d \in Int : a + b - c - d \in Int
    OBVIOUS
  <2>5. realized + Account!ValueOf(lots', entry') - Account!ValueOf(lots, entry) - Spent(e) \in Int
    BY <1>0, <2>1, <2>2, <2>4, Zenon
  <2> QED BY <2>3, <2>5
<1>7. TypeOK'
  <2>1. /\ candles' \in Seq(Candles)
        /\ signals' \in [1..Len(candles') -> {"BUY", "SELL", "HOLD"}]
        /\ index' \in 1..(Len(candles') + 1)
    <3>1. /\ candles \in Seq(Candles)
          /\ signals \in [1..Len(candles) -> {"BUY", "SELL", "HOLD"}]
      BY <1>0 DEF TypeOK
    <3>2. index' \in 1..(Len(candles) + 1)
      BY <1>0
    <3> QED BY <3>1, <3>2
  <2>2. Len(ledger') < index'
    BY <1>0, <1>1 DEF TypeOK
  <2>3. \A m \in 1..Len(ledger') :
          /\ ledger'[m].index \in 1..(Len(candles') - 1) /\ ledger'[m].action \in Actions
          /\ m > 1 => ledger'[m - 1].index < ledger'[m].index
    BY <1>1, <1>5
  <2> QED BY <1>6, <2>1, <2>2, <2>3 DEF TypeOK
<1>8. /\ Position(n + 1)' = Position(n) + Bought(e)
      /\ \A k \in 0..n : Position(k)' = Position(k)
      /\ Position(n) \in Int
  <2>1. /\ Total(BoughtOf(ledger'), 1, n + 1) = Total(BoughtOf(ledger), 1, n) + Bought(e)
        /\ \A k \in 0..n : Total(BoughtOf(ledger'), 1, k) = Total(BoughtOf(ledger), 1, k)
        /\ Total(BoughtOf(ledger), 1, n) \in Int
    BY <1>0, SumsExtend
  <2>2. \A k : Position(k) = Total(BoughtOf(ledger), 1, k)
    BY DEF Position, BoughtOf
  <2>3. \A k : Position(k)' = Total(BoughtOf(ledger'), 1, k)
    BY DEF Position, BoughtOf
  <2> QED BY <2>1, <2>2, <2>3
<1>9. /\ Total(SpentOf(ledger'), 1, n + 1) = Total(SpentOf(ledger), 1, n) + Spent(e)
      /\ Total(FeesIn(ledger'), 1, n + 1) = Total(FeesIn(ledger), 1, n) + FeesOf(e)
      /\ Total(SpentOf(ledger), 1, n) \in Int /\ Total(FeesIn(ledger), 1, n) \in Int
  BY <1>0, SumsExtend
<1>10. FillsAlternate'
  <2>1. lots = Position(n)
    BY DEF Books, FillsAlternate
  <2>2. lots' = Position(Len(ledger))'
    BY <1>1, <1>8, <2>1
  <2>3. ASSUME NEW m \in 1..(n + 1)
        PROVE  LET f == ledger'[m]
               IN /\ f.action = "BUY" => f.quantity > 0 /\ Position(m - 1)' = 0
                  /\ f.action = "SELL" => f.quantity > 0 /\ Position(m - 1)' = f.quantity
                  /\ f.action = "NO_POSITION" => Position(m - 1)' = 0
                  /\ f.reason = "MAX_POSITIONS_EXCEEDED" => Position(m - 1)' > 0
    <3>1. Position(m - 1)' = Position(m - 1)
      <4>1. m - 1 \in 0..n
        BY <1>0
      <4> QED BY <1>8, <4>1
    <3>2. CASE m \in 1..n
      <4>1. ledger'[m] = ledger[m]
        BY <1>1, <3>2
      <4>2. LET f == ledger[m]
            IN /\ f.action = "BUY" => f.quantity > 0 /\ Position(m - 1) = 0
               /\ f.action = "SELL" => f.quantity > 0 /\ Position(m - 1) = f.quantity
               /\ f.action = "NO_POSITION" => Position(m - 1) = 0
               /\ f.reason = "MAX_POSITIONS_EXCEEDED" => Position(m - 1) > 0
        BY <3>2 DEF Books, FillsAlternate
      <4> QED BY <3>1, <4>1, <4>2
    <3>3. CASE m = n + 1
      <4>1. m - 1 = n /\ ledger'[m] = e
        BY <1>0, <1>1, <3>3
      <4> QED BY <2>1, <3>1, <4>1 DEF Fits
    <3> QED BY <1>2, <3>2, <3>3
  <2> QED BY <1>1, <2>2, <2>3 DEF FillsAlternate
<1>11. LedgerExplainsResult'
  <2> DEFINE open == Account!ValueOf(lots, entry)
             spent == Total(SpentOf(ledger), 1, n)
             fees == Total(FeesIn(ledger), 1, n)
  <2>1. lots \in Nat /\ entry \in Nat
    BY <1>0 DEF TypeOK
  <2>2. open \in Int /\ Account!ValueOf(lots', entry') \in Int
    BY <2>1, MoneyType
  <2>3. realized = open - spent /\ cash = StartingCash + realized - fees - open
    BY DEF Books, LedgerExplainsResult, SpentOf, FeesIn
  <2>4. /\ realized' = Account!ValueOf(lots', entry') - (spent + Spent(e))
        /\ cash' = StartingCash + realized' - (fees + FeesOf(e)) - Account!ValueOf(lots', entry')
    <3>1. StartingCash \in Int /\ spent \in Int /\ fees \in Int
      BY <1>9, AccountAssumption
    <3> DEFINE next == Account!ValueOf(lots', entry')
               more == Spent(e)
               fee == FeesOf(e)
    <3>2. realized' = realized + next - open - more /\ cash' = cash - more - fee
      OBVIOUS
    <3>3. open \in Int /\ next \in Int /\ more \in Int /\ fee \in Int
      BY <1>0, <2>2
    <3> HIDE DEF open, spent, fees, next, more, fee
    <3>4. /\ realized + next - open - more = next - (spent + more)
          /\ cash - more - fee
               = StartingCash + (realized + next - open - more) - (fees + fee) - next
      BY <2>3, <3>1, <3>3, Balances
    <3>5. realized' = next - (spent + more) /\ cash' = StartingCash + realized' - (fees + fee) - next
      BY <3>2, <3>4
    <3> QED BY <3>5 DEF next, more, fee
  <2>5. /\ Total(SpentOf(ledger'), 1, Len(ledger')) = spent + Spent(e)
        /\ Total(FeesIn(ledger'), 1, Len(ledger')) = fees + FeesOf(e)
    BY <1>1, <1>9
  <2> HIDE DEF open, spent, fees
  <2> QED BY <2>4, <2>5 DEF LedgerExplainsResult, SpentOf, FeesIn
<1> QED BY <1>0, <1>1, <1>4, <1>7, <1>10, <1>11 DEF Books, Given

LEMMA PriceType ==
  ASSUME Books, CanExecute
  PROVE  ExecPrice \in Nat \ {0} /\ Quantity \in Nat
<1>1. candles \in Seq(Candles) /\ index + 1 \in 1..Len(candles)
  BY DEF Books, TypeOK, CanExecute
<1>2. ExecPrice \in Nat \ {0}
  <2>1. candles[index + 1] \in Candles
    BY <1>1
  <2> QED BY <2>1 DEF ExecPrice, Candles
<1>3. Stake \in Nat
  BY StakeAssumption
<1> QED BY <1>2, <1>3 DEF Quantity

LEMMA ExecutedType ==
  ASSUME NEW p \in Nat
  PROVE  Account!BuyPrice(p) \in Nat /\ Account!SellPrice(p) \in Nat
<1>1. Denominator + Slippage \in Nat /\ Denominator - Slippage \in Nat
  BY AccountAssumption
<1> QED BY <1>1, ProductNat DEF Account!BuyPrice, Account!SellPrice

(* The reasons of the sizing, and what they say. *)
LEMMA SizingType ==
  ASSUME Books, CanExecute
  PROVE  /\ Sizing \in (Reasons \ {"NONE"}) \cup {"COMMITTED"}
         /\ Sizing = "MAX_POSITIONS_EXCEEDED" => lots > 0
         /\ Sizing = "COMMITTED" =>
              Quantity # 0 /\ lots = 0 /\ Account!Affordable(Quantity * ExecPrice * Account!Unit)
<1>1. lots \in Nat
  BY DEF Books, TypeOK
<1> QED BY <1>1 DEF Sizing, Account!SizingReason, Reasons

LEMMA NothingHeld == \A executed \in Int :
  Account!ValueOf(0, executed) = 0 /\ Account!FeesOn(0, executed) = 0
BY AccountAssumption DEF Account!ValueOf, Account!FeesOn

LEMMA BooksBuy == ASSUME Books, Buy PROVE Books'
<1> DEFINE executed == Account!BuyPrice(ExecPrice)
           e == [index |-> index, action |-> "BUY", reason |-> "NONE",
                 quantity |-> Quantity, executed |-> executed]
<1>1. CanExecute /\ Quantity \in Nat /\ Quantity # 0 /\ lots = 0 /\ executed \in Nat
  <2>1. CanExecute /\ Sizing = "COMMITTED"
    BY DEF Buy
  <2> QED BY <2>1, PriceType, ExecutedType, SizingType
<1>2. index \in Nat \ {0} /\ entry \in Nat /\ cash \in Int /\ realized \in Int
  BY DEF Books, TypeOK
<1>3. e \in Entries
  BY <1>1, <1>2 DEF Entries, Actions, Reasons
<1>4. Fits(e)
  BY <1>1 DEF Fits
<1>5. /\ Bought(e) = Quantity
      /\ Spent(e) = Account!ValueOf(Quantity, executed)
      /\ FeesOf(e) = Account!FeesOn(Quantity, executed)
  BY DEF Bought, Spent, FeesOf
<1>6. /\ ledger' = Append(ledger, e) /\ index' = index + 1 /\ UNCHANGED <<candles, signals>>
      /\ lots' = lots + Quantity /\ entry' = executed /\ realized' = realized
      /\ cash' = cash - Account!ValueOf(Quantity, executed) - Account!FeesOn(Quantity, executed)
  BY DEF Buy, Record
<1>7. Account!ValueOf(lots, entry) = 0 /\ Account!ValueOf(lots', entry') = Spent(e)
      /\ Spent(e) \in Int
  BY <1>1, <1>2, <1>3, <1>5, <1>6, NothingHeld, EntryType
<1>8. realized' = realized + Account!ValueOf(lots', entry')
                    - Account!ValueOf(lots, entry) - Spent(e)
  BY <1>2, <1>6, <1>7
<1>9. /\ lots' = lots + Bought(e) /\ lots' \in Nat /\ entry' \in Nat
      /\ cash' = cash - Spent(e) - FeesOf(e) /\ e.index = index
  BY <1>1, <1>5, <1>6
<1> HIDE DEF e
<1> QED BY <1>1, <1>3, <1>4, <1>6, <1>8, <1>9, Recorded

(* An entry that is no fill. *)
LEMMA BooksUnfilled ==
  ASSUME Books, CanExecute, NEW action \in {"REJECTED", "NO_POSITION"}, NEW reason \in Reasons,
         Record(action, reason, 0, 0), index' = index + 1,
         action = "NO_POSITION" => lots = 0,
         reason = "MAX_POSITIONS_EXCEEDED" => lots > 0,
         UNCHANGED <<candles, signals, cash, lots, entry, realized>>
  PROVE  Books'
<1> DEFINE e == [index |-> index, action |-> action, reason |-> reason,
                 quantity |-> 0, executed |-> 0]
<1>1. index \in Nat \ {0} /\ lots \in Nat /\ entry \in Nat /\ cash \in Int /\ realized \in Int
  BY DEF Books, TypeOK
<1>2. e \in Entries
  BY <1>1 DEF Entries, Actions
<1>3. Fits(e)
  BY DEF Fits
<1>4. Bought(e) = 0 /\ Spent(e) = 0 /\ FeesOf(e) = 0
  <2>1. Bought(e) = 0
    BY DEF Bought
  <2>2. Spent(e) = Account!ValueOf(0, 0) /\ FeesOf(e) = Account!FeesOn(0, 0)
    BY <2>1 DEF Spent, FeesOf
  <2> QED BY <2>1, <2>2, NothingHeld
<1>5. ledger' = Append(ledger, e) /\ e.index = index
  BY DEF Record
<1> HIDE DEF e
<1>6. lots' = lots + Bought(e) /\ cash' = cash - Spent(e) - FeesOf(e)
  BY <1>1, <1>4
<1>7. realized' = realized + Account!ValueOf(lots', entry')
                    - Account!ValueOf(lots, entry) - Spent(e)
  <2>1. Account!ValueOf(lots, entry) \in Int /\ Account!ValueOf(lots', entry') = Account!ValueOf(lots, entry)
    BY <1>1, MoneyType
  <2> QED BY <1>1, <1>4, <2>1
<1> QED BY <1>1, <1>2, <1>3, <1>5, <1>6, <1>7, Recorded

LEMMA BooksBuyRejected == ASSUME Books, BuyRejected PROVE Books'
<1>1. CanExecute /\ Sizing # "COMMITTED" /\ Record("REJECTED", Sizing, 0, 0) /\ index' = index + 1
      /\ UNCHANGED <<candles, signals, cash, lots, entry, realized>>
  BY DEF BuyRejected
<1>2. Sizing \in Reasons /\ (Sizing = "MAX_POSITIONS_EXCEEDED" => lots > 0)
  BY <1>1, SizingType
<1> QED BY <1>1, <1>2, BooksUnfilled

LEMMA BooksNoPosition == ASSUME Books, NoPosition PROVE Books'
<1>1. CanExecute /\ lots = 0 /\ Record("NO_POSITION", "NONE", 0, 0) /\ index' = index + 1
      /\ UNCHANGED <<candles, signals, cash, lots, entry, realized>>
  BY DEF NoPosition
<1> QED BY <1>1, BooksUnfilled DEF Reasons

LEMMA BooksSell == ASSUME Books, Sell PROVE Books'
<1> DEFINE executed == Account!SellPrice(ExecPrice)
           e == [index |-> index, action |-> "SELL", reason |-> "NONE",
                 quantity |-> lots, executed |-> executed]
<1>1. CanExecute /\ lots \in Nat /\ lots > 0 /\ executed \in Nat
  <2>1. CanExecute /\ lots > 0
    BY DEF Sell
  <2>2. lots \in Nat
    BY DEF Books, TypeOK
  <2> QED BY <2>1, <2>2, PriceType, ExecutedType
<1>2. index \in Nat \ {0} /\ entry \in Nat /\ cash \in Int /\ realized \in Int
  BY DEF Books, TypeOK
<1>3. e \in Entries
  BY <1>1, <1>2 DEF Entries, Actions, Reasons
<1>4. Fits(e)
  BY <1>1 DEF Fits
<1>5. /\ Bought(e) = -lots
      /\ Spent(e) = Account!ValueOf(-lots, executed)
      /\ FeesOf(e) = Account!FeesOn(lots, executed)
  BY DEF Bought, Spent, FeesOf
<1>6. /\ ledger' = Append(ledger, e) /\ index' = index + 1 /\ UNCHANGED <<candles, signals>>
      /\ lots' = lots - lots /\ entry' = (IF lots' = 0 THEN 0 ELSE entry)
      /\ realized' = realized + (Account!ValueOf(lots, executed) - Account!ValueOf(lots, entry))
      /\ cash' = cash + Account!ValueOf(lots, executed) - Account!FeesOn(lots, executed)
  BY DEF Sell, Record, Sold, Account!Profit
<1>7. lots' = 0 /\ entry' = 0
  BY <1>1, <1>6
<1> HIDE DEF executed
<1>8. /\ Account!ValueOf(lots', entry') = 0 /\ Account!ValueOf(lots, entry) \in Int
      /\ Account!ValueOf(lots, executed) \in Int /\ Account!FeesOn(lots, executed) \in Int
  <2>1. Account!ValueOf(lots', entry') = 0
    BY <1>7, NothingHeld
  <2>2. lots \in Int
    BY <1>1
  <2>3. Account!ValueOf(lots, entry) \in Int
    BY <1>2, <2>2, MoneyType
  <2>4. Account!ValueOf(lots, executed) \in Int /\ Account!FeesOn(lots, executed) \in Int
    BY <1>1, <2>2, MoneyType
  <2> QED BY <2>1, <2>3, <2>4
<1>9. Spent(e) = -Account!ValueOf(lots, executed)
  BY <1>1, <1>5, AccountAssumption DEF Account!ValueOf
<1>10. realized' = realized + Account!ValueOf(lots', entry')
                     - Account!ValueOf(lots, entry) - Spent(e)
  BY <1>2, <1>6, <1>8, <1>9
<1>11. /\ lots' = lots + Bought(e) /\ lots' \in Nat /\ entry' \in Nat
       /\ cash' = cash - Spent(e) - FeesOf(e) /\ e.index = index
  BY <1>1, <1>2, <1>5, <1>6, <1>7, <1>8, <1>9
<1> HIDE DEF e
<1> QED BY <1>1, <1>3, <1>4, <1>6, <1>10, <1>11, Recorded

LEMMA BooksHold ==
  ASSUME Books, Hold \/ UNCHANGED vars
  PROVE  Books'
<1>1. UNCHANGED <<candles, signals, cash, lots, entry, realized, ledger>>
  BY DEF Hold, vars
<1>2. /\ index' \in 1..(Len(candles) + 1) /\ index <= index'
      /\ index \in Int /\ index' \in Int
  <2>1. index \in 1..(Len(candles) + 1)
    BY DEF Books, TypeOK
  <2>2. Len(candles) \in Nat
    BY DEF Books, TypeOK
  <2>3. CASE Hold
    BY <2>1, <2>2, <2>3 DEF Hold
  <2>4. CASE UNCHANGED vars
    BY <2>1, <2>2, <2>4 DEF vars
  <2> QED BY <2>3, <2>4
<1>3. TypeOK'
  <2>1. Len(ledger) \in Nat /\ Len(ledger) < index
    BY DEF Books, TypeOK
  <2> QED BY <1>1, <1>2, <2>1 DEF Books, TypeOK
<1>4. (\A n \in 1..Len(ledger) : ledger[n].index < index)'
  <2>1. ASSUME NEW n \in 1..Len(ledger) PROVE ledger[n].index < index'
    <3>1. ledger[n].index < index /\ ledger[n].index \in Int
      BY DEF Books, TypeOK
    <3> QED BY <1>2, <3>1
  <2> QED BY <1>1, <2>1
<1>5. FillsAlternate'
  <2>1. Position(Len(ledger))' = Position(Len(ledger)) /\ \A k : Position(k)' = Position(k)
    BY <1>1 DEF Position
  <2> QED BY <1>1, <2>1 DEF Books, FillsAlternate
<1>6. LedgerExplainsResult'
  BY <1>1 DEF Books, LedgerExplainsResult
<1> QED BY <1>1, <1>3, <1>4, <1>5, <1>6 DEF Books, Given

LEMMA BooksAlways == Spec => []Books
<1>1. Books /\ [Next]_vars => Books'
  BY BooksBuy, BooksBuyRejected, BooksNoPosition, BooksSell, BooksHold DEF Next
<1> QED BY <1>1, BooksInit, PTL DEF Spec

(* Every variable has its type. *)
THEOREM BacktestTypeCorrect == Spec => []TypeOK
<1>1. Books => TypeOK
  BY DEF Books
<1> QED BY <1>1, BooksAlways, PTL

(* One position at a time, and every sale is of all of it (backtester.py:28-46). *)
THEOREM FillsSafety == Spec => []FillsAlternate
<1>1. Books => FillsAlternate
  BY DEF Books
<1> QED BY <1>1, BooksAlways, PTL

(* The ledger explains the cash and the realized profit (backtester.py:28-46). *)
THEOREM LedgerSafety == Spec => []LedgerExplainsResult
<1>1. Books => LedgerExplainsResult
  BY DEF Books
<1> QED BY <1>1, BooksAlways, PTL

-----------------------------------------------------------------------------
(* The cash.  What a BUY costs is at most what the sizing allows for. *)

LEMMA Cancel == \A a, b \in Nat, d \in Nat \ {0} : a * d <= b * d => a <= b
<1> SUFFICES ASSUME NEW a \in Nat, NEW b \in Nat, NEW d \in Nat \ {0}, a * d <= b * d, b < a
             PROVE  FALSE
  OBVIOUS
<1>1. d * (b + 1) <= d * a
  BY ProductMonotone
<1>2. d * (b + 1) = b * d + d /\ d * a = a * d
  OBVIOUS
<1>3. b * d \in Nat /\ a * d \in Nat
  BY ProductNat
<1> QED BY <1>1, <1>2, <1>3

LEMMA CostCovered ==
  ASSUME NEW q \in Nat, NEW p \in Nat, cash \in Nat, Account!Affordable(q * p * Account!Unit)
  PROVE  Account!ValueOf(q, Account!BuyPrice(p)) + Account!FeesOn(q, Account!BuyPrice(p)) <= cash
<1> DEFINE n == q * p
           D == Denominator
           paid == (D + Slippage) * (D + Fee)
           planned == D * (D + CostBuffer)
<1>1. n \in Nat /\ D \in Nat \ {0} /\ Slippage \in Nat /\ Fee \in Nat /\ CostBuffer \in Nat
  BY AccountAssumption
<1>2. paid \in Nat /\ planned \in Nat /\ paid <= planned
  BY <1>1, ProductNat, AccountAssumption
<1>3. Account!ValueOf(q, Account!BuyPrice(p)) + Account!FeesOn(q, Account!BuyPrice(p)) = n * paid
  BY <1>1 DEF Account!ValueOf, Account!FeesOn, Account!BuyPrice
<1>4. (n * planned) * D <= cash * D
  <2>1. q * p * Account!Unit * (D + CostBuffer) <= cash * D
    BY DEF Account!Affordable
  <2>2. q * p * Account!Unit * (D + CostBuffer) = (n * planned) * D
    BY <1>1 DEF Account!Unit
  <2> QED BY <2>1, <2>2
<1> HIDE DEF n, D, paid, planned
<1>5. n * planned \in Nat /\ n * paid \in Nat
  BY <1>1, <1>2, ProductNat
<1>6. n * paid <= n * planned
  BY <1>1, <1>2, ProductMonotone
<1>7. n * planned <= cash
  BY <1>1, <1>4, <1>5, Cancel
<1> QED BY <1>3, <1>5, <1>6, <1>7

(* A backtest never spends more than it has: the buffer of the sizing covers the
   slippage and the fees (backtester.py:28-38). *)
THEOREM BacktestSolvency == Spec => []CashNeverNegative
<1>1. Init => CashNeverNegative
  BY AccountAssumption DEF Init, CashNeverNegative
<1>2. Books /\ CashNeverNegative /\ [Next]_vars => CashNeverNegative'
  <2> SUFFICES ASSUME Books, cash >= 0, [Next]_vars PROVE cash' >= 0
    BY DEF CashNeverNegative
  <2>1. cash \in Nat /\ lots \in Nat
    BY DEF Books, TypeOK
  <2>2. CASE Buy
    <3> DEFINE executed == Account!BuyPrice(ExecPrice)
    <3>1. CanExecute /\ Sizing = "COMMITTED"
      BY <2>2 DEF Buy
    <3>2. ExecPrice \in Nat /\ Quantity \in Nat /\ Quantity \in Int /\ executed \in Nat
      BY <3>1, PriceType, ExecutedType
    <3>3. Account!Affordable(Quantity * ExecPrice * Account!Unit)
      BY <3>1, SizingType
    <3>4. Account!ValueOf(Quantity, executed) + Account!FeesOn(Quantity, executed) <= cash
      BY <2>1, <3>2, <3>3, CostCovered
    <3>5. cash' = cash - Account!ValueOf(Quantity, executed) - Account!FeesOn(Quantity, executed)
      BY <2>2 DEF Buy
    <3> HIDE DEF executed
    <3>6. Account!ValueOf(Quantity, executed) \in Int /\ Account!FeesOn(Quantity, executed) \in Int
      BY <3>2, MoneyType
    <3> QED BY <2>1, <3>4, <3>5, <3>6
  <2>3. CASE Sell
    <3> DEFINE executed == Account!SellPrice(ExecPrice)
    <3>1. executed \in Nat
      <4>1. CanExecute
        BY <2>3 DEF Sell
      <4> QED BY <4>1, PriceType, ExecutedType
    <3>2. cash' = cash + Account!ValueOf(lots, executed) - Account!FeesOn(lots, executed)
      BY <2>3 DEF Sell, Sold
    <3> HIDE DEF executed
    <3>3. lots * executed \in Nat
      BY <2>1, <3>1, ProductNat
    <3>4. (lots * executed) * Fee <= (lots * executed) * Denominator
      BY <3>3, AccountAssumption, ProductMonotone
    <3>5. /\ Account!ValueOf(lots, executed) = (lots * executed) * Denominator
          /\ Account!FeesOn(lots, executed) = (lots * executed) * Fee
      BY DEF Account!ValueOf, Account!FeesOn
    <3>6. Account!ValueOf(lots, executed) \in Int /\ Account!FeesOn(lots, executed) \in Int
      BY <2>1, <3>1, MoneyType
    <3> QED BY <2>1, <3>2, <3>4, <3>5, <3>6
  <2>4. CASE BuyRejected \/ NoPosition \/ Hold \/ UNCHANGED vars
    BY <2>1, <2>4 DEF BuyRejected, NoPosition, Hold, vars
  <2> QED BY <2>2, <2>3, <2>4 DEF Next
<1> QED BY <1>1, <1>2, BooksAlways, PTL DEF Spec

=============================================================================
