------------------------ MODULE PaperAccountingProofs ------------------------
(***************************************************************************)
(* Proofs about PaperAccounting, for all rates the cost buffer covers, all *)
(* prices and all quantities.                                              *)
(***************************************************************************)
EXTENDS PaperAccounting, TLAPS

-----------------------------------------------------------------------------
(* Arithmetic: products of naturals, which the solver treats as opaque. *)
LEMMA ProductNat == \A a, b \in Nat : a * b \in Nat
  OBVIOUS

LEMMA Monotone == \A a, b, c \in Nat : a <= b => c * a <= c * b
  <1> TAKE a, b, c \in Nat
  <1> HAVE a <= b
  <1>1. b - a \in Nat
    OBVIOUS
  <1>2. c * (b - a) \in Nat
    BY <1>1, ProductNat
  <1>3. c * (b - a) = c * b - c * a
    OBVIOUS
  <1> QED
    BY <1>2, <1>3, ProductNat

LEMMA Cancel == \A a, b \in Nat, d \in Nat \ {0} : a * d <= b * d => a <= b
  <1> TAKE a, b \in Nat, d \in Nat \ {0}
  <1> HAVE a * d <= b * d
  <1>1. SUFFICES ASSUME b + 1 <= a PROVE FALSE
    OBVIOUS
  <1>2. d * (b + 1) <= d * a
    BY <1>1, Monotone
  <1>3. d * (b + 1) = b * d + d /\ d * a = a * d
    OBVIOUS
  <1> QED
    BY <1>2, <1>3, ProductNat

(* What a BUY costs at the price of the fill is covered by the cash its notional
   was checked against: the buffer of calculate_position_size is sufficient. *)
LEMMA BufferCovers ==
  ASSUME NEW q \in Nat, NEW p \in Nat, cash \in Nat, Affordable(q * p * Unit)
  PROVE  ValueOf(q, BuyPrice(p)) + FeesOn(q, BuyPrice(p)) <= cash
  <1> DEFINE n == q * p
             D == Denominator
  <1>1. n \in Nat /\ D \in Nat \ {0} /\ Slippage \in Nat /\ Fee \in Nat /\ CostBuffer \in Nat
    BY RateAssumption
  <1>2. (D + Slippage) * (D + Fee) \in Nat /\ D * (D + CostBuffer) \in Nat
    BY <1>1, ProductNat
  <1>3. n * ((D + Slippage) * (D + Fee)) <= n * (D * (D + CostBuffer))
    BY <1>1, <1>2, BufferAssumption, Monotone
  <1>4. ValueOf(q, BuyPrice(p)) + FeesOn(q, BuyPrice(p)) = n * ((D + Slippage) * (D + Fee))
    BY <1>1 DEF ValueOf, FeesOn, BuyPrice
  <1>5. n * (D * (D + CostBuffer)) \in Nat
    BY <1>1, <1>2, ProductNat
  <1>6. n * (D * (D + CostBuffer)) * D <= cash * D
    <2>1. q * p * Unit * (D + CostBuffer) <= cash * D
      BY DEF Affordable
    <2>2. q * p * Unit * (D + CostBuffer) = n * (D * (D + CostBuffer)) * D
      BY <1>1 DEF Unit
    <2> QED
      BY <2>1, <2>2
  <1>7. n * (D * (D + CostBuffer)) <= cash
    BY <1>1, <1>5, <1>6, Cancel
  <1> HIDE DEF n, D
  <1>8. n * ((D + Slippage) * (D + Fee)) \in Nat
    BY <1>1, <1>2, ProductNat
  <1> QED
    BY <1>3, <1>4, <1>5, <1>7, <1>8

(* The proceeds of a SELL are never negative: the fee rate is below one. *)
LEMMA ProceedsNat ==
  ASSUME NEW q \in Nat, NEW p \in Nat
  PROVE  /\ ValueOf(q, SellPrice(p)) \in Nat
         /\ FeesOn(q, SellPrice(p)) \in Nat
         /\ FeesOn(q, SellPrice(p)) <= ValueOf(q, SellPrice(p))
  <1>1. /\ Denominator \in Nat /\ Fee \in Nat /\ Fee <= Denominator
        /\ Denominator - Slippage \in Nat
    BY RateAssumption
  <1>2. SellPrice(p) \in Nat
    BY <1>1, ProductNat DEF SellPrice
  <1>3. q * SellPrice(p) \in Nat
    BY <1>2, ProductNat
  <1> QED
    BY <1>1, <1>3, ProductNat, Monotone DEF ValueOf, FeesOn

LEMMA CostNat ==
  ASSUME NEW q \in Nat, NEW p \in Nat
  PROVE  /\ BuyPrice(p) \in Nat
         /\ ValueOf(q, BuyPrice(p)) \in Nat
         /\ FeesOn(q, BuyPrice(p)) \in Nat
  <1>1. Denominator \in Nat /\ Fee \in Nat /\ Denominator + Slippage \in Nat
    BY RateAssumption
  <1>2. BuyPrice(p) \in Nat
    BY <1>1, ProductNat DEF BuyPrice
  <1>3. q * BuyPrice(p) \in Nat
    BY <1>2, ProductNat
  <1> QED
    BY <1>1, <1>2, <1>3, ProductNat DEF ValueOf, FeesOn

-----------------------------------------------------------------------------
(* The money: what the two properties below need of each other. *)
Money ==
  /\ price \in Nat
  /\ cash \in Nat
  /\ lots \in Nat
  /\ entry \in Nat
  /\ realized \in Int
  /\ feesPaid \in Nat
  /\ BooksBalance

LEMMA MoneyInit == Init => Money
  BY DomainAssumption, RateAssumption DEF Init, Money, BooksBalance, ValueOf

(* A committed BUY found the account flat and the order affordable. *)
LEMMA BuyChecked ==
  ASSUME NEW q, BuyAnswer(q) = "COMMITTED", lots \in Nat
  PROVE  lots = 0 /\ Affordable(q * price * Unit)
  BY DEF BuyAnswer, SizingReason

LEMMA MoneyBuy ==
  ASSUME Money, NEW q \in Quantities, Buy(q)
  PROVE  Money'
  <1> DEFINE value == ValueOf(q, BuyPrice(price))
             fees == FeesOn(q, BuyPrice(price))
  <1>1. q \in Nat
    BY DomainAssumption
  <1>2. lots = 0 /\ Affordable(q * price * Unit)
    BY BuyChecked DEF Buy, Money
  <1>3. BuyPrice(price) \in Nat /\ value \in Nat /\ fees \in Nat
    BY <1>1, CostNat DEF Money
  <1>4. value + fees <= cash
    BY <1>1, <1>2, BufferCovers DEF Money
  <1>5. /\ cash' = cash - (value + fees)
        /\ lots' = q
        /\ entry' = BuyPrice(price)
        /\ feesPaid' = feesPaid + fees
        /\ realized' = realized
        /\ price' = price
    BY <1>1, <1>2 DEF Buy
  <1>6. ValueOf(lots, entry) = 0
    BY <1>2, RateAssumption DEF ValueOf, Money
  <1>7. ValueOf(lots, entry)' = value
    BY <1>5 DEF ValueOf
  <1> HIDE DEF value, fees
  <1> QED
    BY <1>1, <1>3, <1>4, <1>5, <1>6, <1>7, DomainAssumption DEF Money, BooksBalance

LEMMA MoneySell ==
  ASSUME Money, NEW q \in Quantities, Sell(q)
  PROVE  Money'
  <1> DEFINE value == ValueOf(q, SellPrice(price))
             fees == FeesOn(q, SellPrice(price))
             basis == ValueOf(q, entry)
             held == ValueOf(lots, entry)
  <1>1. q \in Nat /\ q <= lots
    BY DomainAssumption DEF Sell, Sellable
  <1>2. value \in Nat /\ fees \in Nat /\ fees <= value
    BY <1>1, ProceedsNat DEF Money
  <1>3. basis \in Nat /\ held \in Nat
    BY <1>1, ProductNat, RateAssumption DEF ValueOf, Money
  <1>4. /\ cash' = cash + value - fees
        /\ lots' = lots - q
        /\ entry' = IF lots' = 0 THEN 0 ELSE entry
        /\ feesPaid' = feesPaid + fees
        /\ realized' = realized + (value - basis)
        /\ price' = price
    BY DEF Sell, Profit
  <1>5. ValueOf(lots, entry)' = held - basis
    <2>1. ValueOf(lots - q, entry) = held - basis
      BY <1>1, RateAssumption DEF ValueOf, Money
    <2>2. lots' = 0 => ValueOf(lots', entry') = ValueOf(lots - q, entry)
      BY <1>4, RateAssumption DEF ValueOf, Money
    <2>3. lots' # 0 => ValueOf(lots', entry') = ValueOf(lots - q, entry)
      BY <1>4
    <2>4. ValueOf(lots, entry)' = ValueOf(lots', entry')
      BY DEF ValueOf
    <2> QED
      BY <2>1, <2>2, <2>3, <2>4
  <1>6. cash + held = StartingCash + realized - feesPaid
    BY DEF Money, BooksBalance
  <1>7. BooksBalance' <=> cash' + ValueOf(lots, entry)' = StartingCash + realized' - feesPaid'
    BY DEF BooksBalance
  <1>8. lots' \in Nat /\ entry' \in Nat
    BY <1>1, <1>4 DEF Money
  <1> HIDE DEF value, fees, basis, held
  <1> QED
    BY <1>2, <1>3, <1>4, <1>5, <1>6, <1>7, <1>8, DomainAssumption DEF Money

LEMMA MoneyNext == Money /\ [Next]_vars => Money'
  <1> SUFFICES ASSUME Money, [Next]_vars PROVE Money'
    OBVIOUS
  <1> USE DEF Money, BooksBalance, ValueOf
  <1>1. ASSUME NEW q \in Quantities, Buy(q) PROVE Money'
    BY <1>1, MoneyBuy
  <1>2. ASSUME NEW q \in Quantities, BuyRejected(q) PROVE Money'
    BY <1>2 DEF BuyRejected
  <1>3. ASSUME NEW q \in Quantities, Sell(q) PROVE Money'
    BY <1>3, MoneySell
  <1>4. ASSUME NEW q \in Quantities, SellRejected(q) PROVE Money'
    BY <1>4 DEF SellRejected
  <1>5. CASE PriceMoves
    BY <1>5, DomainAssumption DEF PriceMoves
  <1>6. CASE DayPasses
    BY <1>6 DEF DayPasses
  <1>7. CASE UNCHANGED vars
    BY <1>7 DEF vars
  <1> QED
    BY <1>1, <1>2, <1>3, <1>4, <1>5, <1>6, <1>7 DEF Next

(* No sequence of approved orders at any prices overdraws the account: the risk
   engine's cash limit and the broker's costs fit together. *)
THEOREM Solvency == Spec => []CashNeverNegative
  <1>1. Money => CashNeverNegative
    BY DEF Money, CashNeverNegative
  <1> QED
    BY <1>1, MoneyInit, MoneyNext, PTL DEF Spec

(* The cash is always the starting cash with the realized profit, less the cost of
   the open position and all the fees: apply_fill loses nothing. *)
THEOREM Balance == Spec => []BooksBalance
  <1>1. Money => BooksBalance
    BY DEF Money
  <1> QED
    BY <1>1, MoneyInit, MoneyNext, PTL DEF Spec

-----------------------------------------------------------------------------
(* The risk state and the equities it summarises. *)
Marks == Seq([day : Nat, equity : Int])

PeakOf(r, m) ==
  /\ \E n \in 1..Len(m) : m[n].equity = r.peak
  /\ \A n \in 1..Len(m) : m[n].equity <= r.peak

RiskInv ==
  /\ TypeOK
  /\ risk.version = 0 => IsNewPortfolio
  /\ risk.version > 0 => PeakOf(risk, marks)

(* The state a submission starts from: the stored one, or the baseline. *)
LEMMA KnownType ==
  ASSUME RiskInv
  PROVE  /\ Known \in RiskStates
         /\ Known.version > 0
         /\ KnownMarks \in Marks
         /\ PeakOf(Known, KnownMarks)
  <1> day \in Nat /\ risk \in RiskStates /\ cash \in Int /\ marks \in Marks
    BY DomainAssumption DEF RiskInv, TypeOK, Marks
  <1>1. CASE risk.version = 0
    <2>1. Known = Baseline /\ Baseline \in RiskStates /\ Baseline.version = 1
      BY <1>1 DEF RiskInv, Known, Baseline, RiskStates
    <2>2. KnownMarks = <<[day |-> day, equity |-> cash]>>
      BY <1>1, <2>1 DEF KnownMarks
    <2>3. Baseline.peak = cash
      BY DEF Baseline
    <2> QED
      BY <2>1, <2>2, <2>3 DEF Marks, PeakOf
  <1>2. CASE risk.version # 0
    <2>1. Known = risk /\ KnownMarks = marks /\ risk.version > 0
      BY <1>2 DEF Known, KnownMarks, RiskStates
    <2> QED
      BY <2>1 DEF RiskInv
  <1> QED
    BY <1>1, <1>2

LEMMA ElementOf ==
  ASSUME NEW S, NEW m \in Seq(S), NEW n \in 1..Len(m)
  PROVE  m[n] \in S
  OBVIOUS

(* A commit carries the peak over: it is one of the old marks or the new one. *)
LEMMA CommitRisk ==
  ASSUME RiskInv, NEW eq \in Int, Commit(eq)
  PROVE  /\ risk' \in RiskStates
         /\ risk'.version > 0
         /\ marks' \in Marks
         /\ PeakOf(risk', marks')
  <1> DEFINE new == [day |-> day, equity |-> eq]
  <1>1. /\ Known \in RiskStates /\ Known.version > 0
        /\ KnownMarks \in Marks /\ PeakOf(Known, KnownMarks)
    BY KnownType
  <1>2. new \in [day : Nat, equity : Int]
    BY DomainAssumption DEF RiskInv, TypeOK
  <1>3. /\ marks' = Append(KnownMarks, new)
        /\ risk' = NewRisk(Known, eq)
    BY DEF Commit
  <1>4. /\ risk' \in RiskStates
        /\ risk'.version > 0
        /\ risk'.peak = IF eq > Known.peak THEN eq ELSE Known.peak
    BY <1>1, <1>3, DomainAssumption DEF NewRisk, RiskStates, RiskInv, TypeOK
  <1>5. /\ marks' \in Marks
        /\ Len(marks') = Len(KnownMarks) + 1
        /\ Len(KnownMarks) \in Nat
        /\ \A n \in 1..Len(KnownMarks) : marks'[n] = KnownMarks[n]
        /\ marks'[Len(marks')] = new
    BY <1>1, <1>2, <1>3 DEF Marks
  <1>6. \A n \in 1..Len(KnownMarks) : KnownMarks[n].equity \in Int
    <2> TAKE n \in 1..Len(KnownMarks)
    <2>1. KnownMarks[n] \in [day : Nat, equity : Int]
      BY <1>1, ElementOf DEF Marks
    <2> QED
      BY <2>1
  <1>7. Known.peak \in Int
    BY <1>1 DEF RiskStates
  <1>8. marks'[Len(marks')].equity = eq
    BY <1>5
  <1>9. \A n \in 1..Len(marks') : marks'[n].equity <= risk'.peak
    <2> TAKE n \in 1..Len(marks')
    <2>1. CASE n \in 1..Len(KnownMarks)
      BY <1>1, <1>4, <1>5, <1>6, <1>7, <2>1 DEF PeakOf
    <2>2. CASE n = Len(marks')
      BY <1>4, <1>7, <1>8, <2>2
    <2> QED
      BY <1>5, <2>1, <2>2
  <1>10. \E n \in 1..Len(marks') : marks'[n].equity = risk'.peak
    <2>1. CASE eq > Known.peak
      BY <1>4, <1>5, <1>8, <2>1
    <2>2. CASE ~(eq > Known.peak)
      <3>1. PICK n \in 1..Len(KnownMarks) : KnownMarks[n].equity = Known.peak
        BY <1>1 DEF PeakOf
      <3>2. n \in 1..Len(marks') /\ marks'[n].equity = risk'.peak
        BY <1>4, <1>5, <2>2, <3>1
      <3> QED
        BY <3>2
    <2> QED
      BY <2>1, <2>2
  <1> QED
    BY <1>4, <1>5, <1>9, <1>10 DEF PeakOf

LEMMA RiskInit == Init => RiskInv
  BY DomainAssumption DEF Init, RiskInv, TypeOK, RiskStates, IsNewPortfolio

LEMMA RiskBuy ==
  ASSUME Money, Money', RiskInv, NEW q \in Quantities, Buy(q)
  PROVE  RiskInv'
  <1>1. q \in Nat /\ price \in Nat
    BY DomainAssumption DEF Money
  <1>2. lots = 0
    BY BuyChecked DEF Buy, Money
  <1>3. cash' + ValueOf(lots', BuyPrice(price)) \in Int
    BY <1>1, <1>2, CostNat DEF Money, Buy
  <1>4. Commit(cash' + ValueOf(lots', BuyPrice(price)))
    BY DEF Buy
  <1>5. /\ risk' \in RiskStates /\ risk'.version > 0 /\ marks' \in Marks
        /\ PeakOf(risk', marks')
    BY <1>3, <1>4, CommitRisk
  <1>6. risk'.version # 0
    BY <1>5 DEF RiskStates
  <1>7. price' = price /\ day' = day /\ answer' = "COMMITTED"
    BY <1>4 DEF Buy, Commit
  <1> QED
    BY <1>5, <1>6, <1>7 DEF RiskInv, TypeOK, Money, Marks, PeakOf

LEMMA RiskSell ==
  ASSUME Money, Money', RiskInv, NEW q \in Quantities, Sell(q)
  PROVE  RiskInv'
  <1>1. price \in Nat /\ lots' \in Nat
    BY DEF Money
  <1>2. cash' + ValueOf(lots', SellPrice(price)) \in Int
    BY <1>1, ProceedsNat DEF Money
  <1>3. Commit(cash' + ValueOf(lots', SellPrice(price)))
    BY DEF Sell
  <1>4. /\ risk' \in RiskStates /\ risk'.version > 0 /\ marks' \in Marks
        /\ PeakOf(risk', marks')
    BY <1>2, <1>3, CommitRisk
  <1>5. risk'.version # 0
    BY <1>4 DEF RiskStates
  <1>6. price' = price /\ day' = day /\ answer' = "COMMITTED"
    BY <1>3 DEF Sell, Commit
  <1> QED
    BY <1>4, <1>5, <1>6 DEF RiskInv, TypeOK, Money, Marks, PeakOf

LEMMA RiskBuyRejected ==
  ASSUME RiskInv, NEW q \in Quantities, BuyRejected(q)
  PROVE  RiskInv'
  <1>1. /\ Known \in RiskStates /\ Known.version > 0
        /\ KnownMarks \in Marks /\ PeakOf(Known, KnownMarks)
    BY KnownType
  <1>2. risk' = Known /\ marks' = KnownMarks /\ Known.version # 0
    BY <1>1 DEF BuyRejected, RiskStates
  <1>3. answer' \in {"DAILY_LOSS_CUTOFF", "MAX_DRAWDOWN_CUTOFF", "INVALID_NOTIONAL",
                     "MAX_POSITIONS_EXCEEDED", "INSUFFICIENT_PAPER_BALANCE",
                     "NOTIONAL_TOO_LARGE"}
    BY <1>2 DEF BuyRejected, BuyAnswer, SizingReason
  <1>4. UNCHANGED <<price, day, cash, lots, entry, realized, feesPaid>>
    BY DEF BuyRejected
  <1> QED
    BY <1>1, <1>2, <1>3, <1>4 DEF RiskInv, TypeOK, Marks, PeakOf

LEMMA RiskNext == Money /\ Money' /\ RiskInv /\ [Next]_vars => RiskInv'
  <1> SUFFICES ASSUME Money, Money', RiskInv, [Next]_vars PROVE RiskInv'
    OBVIOUS
  <1> USE DEF RiskInv, TypeOK, PeakOf, IsNewPortfolio
  <1>1. ASSUME NEW q \in Quantities, Buy(q) PROVE RiskInv'
    BY <1>1, RiskBuy
  <1>2. ASSUME NEW q \in Quantities, BuyRejected(q) PROVE RiskInv'
    BY <1>2, RiskBuyRejected
  <1>3. ASSUME NEW q \in Quantities, Sell(q) PROVE RiskInv'
    BY <1>3, RiskSell
  <1>4. ASSUME NEW q \in Quantities, SellRejected(q) PROVE RiskInv'
    BY <1>4 DEF SellRejected
  <1>5. CASE PriceMoves
    BY <1>5 DEF PriceMoves
  <1>6. CASE DayPasses
    BY <1>6, DomainAssumption DEF DayPasses
  <1>7. CASE UNCHANGED vars
    BY <1>7 DEF vars
  <1> QED
    BY <1>1, <1>2, <1>3, <1>4, <1>5, <1>6, <1>7 DEF Next

(* Every variable has its type; an account that has traded has its risk state. *)
THEOREM AccountTypeCorrect == Spec => []TypeOK
  <1>1. RiskInv => TypeOK
    BY DEF RiskInv
  <1>2. Spec => []Money
    BY MoneyInit, MoneyNext, PTL DEF Spec
  <1> QED
    BY <1>1, <1>2, RiskInit, RiskNext, PTL DEF Spec

(* The drawdown limit measures from the highest equity ever committed. *)
THEOREM PeakSafety == Spec => []PeakIsHighest
  <1>1. RiskInv => PeakIsHighest
    BY DEF RiskInv, PeakIsHighest, PeakOf
  <1>2. Spec => []Money
    BY MoneyInit, MoneyNext, PTL DEF Spec
  <1> QED
    BY <1>1, <1>2, RiskInit, RiskNext, PTL DEF Spec

-----------------------------------------------------------------------------
(* The day's baseline.  Of the marks made on a day before r's, the last. *)
EarlierMarks(r, m) == {n \in 1..Len(m) : m[n].day < r.day}
LastEarlier(r, m) ==
  IF EarlierMarks(r, m) = {} THEN 1
  ELSE CHOOSE n \in EarlierMarks(r, m) : \A k \in EarlierMarks(r, m) : k <= n

(* r summarises the marks m: none is of a later day, the last one is of its day,
   and its day started from the last mark before. *)
DayOf(r, m) ==
  /\ Len(m) > 0
  /\ \A n \in 1..Len(m) : m[n].day <= r.day
  /\ m[Len(m)].equity = r.current
  /\ LastEarlier(r, m) \in 1..Len(m)
  /\ r.dayStart = m[LastEarlier(r, m)].equity
  /\ r.dailyPnl = r.current - r.dayStart

DayInv == risk.version > 0 => risk.day <= day /\ DayOf(risk, marks)

LEMMA DayInit == Init => DayInv
  BY DEF Init, DayInv

(* What a submission starts from has a day's baseline. *)
LEMMA KnownDay ==
  ASSUME RiskInv, DayInv
  PROVE  Known.day <= day /\ DayOf(Known, KnownMarks)
  <1> day \in Nat /\ risk \in RiskStates /\ cash \in Int
    BY DomainAssumption DEF RiskInv, TypeOK
  <1>1. CASE risk.version = 0
    <2> DEFINE m == <<[day |-> day, equity |-> cash]>>
    <2>1. Known = Baseline /\ Baseline.version = 1
      BY <1>1 DEF RiskInv, Known, Baseline
    <2>2. KnownMarks = m
      BY <1>1, <2>1 DEF KnownMarks
    <2>3. Len(m) = 1 /\ m[1].day = day /\ m[1].equity = cash
      OBVIOUS
    <2>4. /\ Baseline.day = day /\ Baseline.current = cash /\ Baseline.dayStart = cash
          /\ Baseline.dailyPnl = 0
      BY DEF Baseline
    <2> HIDE DEF m
    <2>5. EarlierMarks(Baseline, m) = {}
      BY <2>3, <2>4 DEF EarlierMarks
    <2>6. LastEarlier(Baseline, m) = 1
      BY <2>5 DEF LastEarlier
    <2>7. DayOf(Baseline, m)
      BY <2>3, <2>4, <2>6 DEF DayOf
    <2> QED BY <2>1, <2>2, <2>4, <2>7
  <1>2. CASE risk.version # 0
    <2>1. Known = risk /\ KnownMarks = marks /\ risk.version > 0
      BY <1>2 DEF Known, KnownMarks, RiskStates
    <2> QED BY <2>1 DEF DayInv
  <1> QED BY <1>1, <1>2

(* A commit of the same day keeps the baseline; one of a later day takes the equity
   of the commit before it, and not its own. *)
LEMMA CommitDay ==
  ASSUME RiskInv, DayInv, NEW eq \in Int, Commit(eq), day' = day
  PROVE  DayInv'
  <1> DEFINE r == Known
             m == KnownMarks
             L == Len(KnownMarks)
  <1>1. r \in RiskStates /\ m \in Marks /\ L \in Nat /\ day \in Nat
    BY KnownType, DomainAssumption DEF Marks, RiskInv, TypeOK
  <1>2. r.day <= day /\ DayOf(r, m)
    BY KnownDay
  <1>3. /\ marks' = Append(m, [day |-> day, equity |-> eq])
        /\ risk' = NewRisk(r, eq)
    BY DEF Commit
  <1>4. /\ Len(marks') = L + 1
        /\ \A n \in 1..L : marks'[n] = m[n]
        /\ marks'[L + 1].day = day /\ marks'[L + 1].equity = eq
    BY <1>1, <1>3, DomainAssumption DEF Marks
  <1>5. /\ r.day \in Nat /\ r.current \in Int /\ r.dayStart \in Int
        /\ \A n \in 1..L : m[n].day \in Nat /\ m[n].equity \in Int
    <2>1. \A n \in 1..L : m[n] \in [day : Nat, equity : Int]
      BY <1>1, ElementOf DEF Marks
    <2> QED BY <1>1, <2>1 DEF RiskStates
  <1>6. /\ L > 0
        /\ \A n \in 1..L : m[n].day <= r.day
        /\ m[L].equity = r.current
        /\ LastEarlier(r, m) \in 1..L
        /\ r.dayStart = m[LastEarlier(r, m)].equity
    BY <1>2 DEF DayOf
  <1>7. /\ risk'.day = day /\ risk'.current = eq
        /\ risk'.dayStart = IF r.day # day THEN r.current ELSE r.dayStart
        /\ risk'.dailyPnl = eq - risk'.dayStart
    BY <1>3 DEF NewRisk
  <1> HIDE DEF r, m, L
  <1>8. /\ LastEarlier(risk', marks') \in 1..L
        /\ marks'[LastEarlier(risk', marks')].equity = risk'.dayStart
    <2>1. EarlierMarks(risk', marks') = {n \in 1..L : m[n].day < day}
      BY <1>1, <1>4, <1>7 DEF EarlierMarks
    <2>2. CASE r.day = day
      <3>1. EarlierMarks(risk', marks') = EarlierMarks(r, m)
        BY <2>1, <2>2 DEF EarlierMarks, m, L
      <3>2. LastEarlier(risk', marks') = LastEarlier(r, m)
        BY <3>1 DEF LastEarlier
      <3> QED BY <1>4, <1>6, <1>7, <2>2, <3>2
    <2>3. CASE r.day # day
      <3>1. EarlierMarks(risk', marks') = 1..L
        BY <1>1, <1>2, <1>5, <1>6, <2>1, <2>3
      <3>2. LastEarlier(risk', marks') = CHOOSE n \in 1..L : \A k \in 1..L : k <= n
        BY <1>1, <1>6, <3>1 DEF LastEarlier
      <3>3. L \in 1..L /\ \A k \in 1..L : k <= L
        BY <1>1, <1>6
      <3>4. /\ LastEarlier(risk', marks') \in 1..L
            /\ \A k \in 1..L : k <= LastEarlier(risk', marks')
        BY <3>2, <3>3
      <3>5. LastEarlier(risk', marks') = L
        BY <1>1, <3>3, <3>4
      <3> QED BY <1>4, <1>6, <1>7, <2>3, <3>3, <3>5
    <2> QED BY <2>2, <2>3
  <1>9. \A n \in 1..Len(marks') : marks'[n].day <= risk'.day
    <2> TAKE n \in 1..Len(marks')
    <2>1. CASE n \in 1..L
      BY <1>1, <1>2, <1>4, <1>5, <1>6, <1>7, <2>1
    <2>2. CASE n = L + 1
      BY <1>1, <1>4, <1>7, <2>2
    <2> QED BY <1>1, <1>4, <2>1, <2>2
  <1>10. DayOf(risk', marks')
    BY <1>1, <1>4, <1>6, <1>7, <1>8, <1>9 DEF DayOf
  <1> QED BY <1>1, <1>7, <1>10 DEF DayInv

LEMMA DayNext == Money /\ Money' /\ RiskInv /\ DayInv /\ [Next]_vars => DayInv'
  <1> SUFFICES ASSUME Money, Money', RiskInv, DayInv, [Next]_vars PROVE DayInv'
    OBVIOUS
  <1>1. ASSUME NEW q \in Quantities, Buy(q) PROVE DayInv'
    <2>1. q \in Nat /\ price \in Nat /\ lots = 0
      BY <1>1, DomainAssumption, BuyChecked DEF Buy, Money
    <2>2. lots' = q
      BY <1>1, <2>1 DEF Buy
    <2>3. cash' + ValueOf(lots', BuyPrice(price)) \in Int
      BY <2>1, <2>2, CostNat DEF Money
    <2> QED BY <1>1, <2>3, CommitDay DEF Buy
  <1>2. ASSUME NEW q \in Quantities, BuyRejected(q) PROVE DayInv'
    <2>1. risk' = Known /\ marks' = KnownMarks /\ day' = day
      BY <1>2 DEF BuyRejected
    <2> QED BY <2>1, KnownDay DEF DayInv, DayOf, LastEarlier, EarlierMarks
  <1>3. ASSUME NEW q \in Quantities, Sell(q) PROVE DayInv'
    <2>1. price \in Nat /\ lots' \in Nat
      BY DEF Money
    <2>2. cash' + ValueOf(lots', SellPrice(price)) \in Int
      BY <2>1, ProceedsNat DEF Money
    <2>3. Commit(cash' + ValueOf(lots', SellPrice(price))) /\ day' = day
      BY <1>3 DEF Sell
    <2> QED BY <2>2, <2>3, CommitDay
  <1>4. ASSUME NEW q \in Quantities, SellRejected(q) PROVE DayInv'
    BY <1>4 DEF SellRejected, DayInv, DayOf, LastEarlier, EarlierMarks
  <1>5. CASE PriceMoves
    BY <1>5 DEF PriceMoves, DayInv, DayOf, LastEarlier, EarlierMarks
  <1>6. CASE DayPasses
    <2>1. day' = day + 1 /\ UNCHANGED <<risk, marks>>
      BY <1>6 DEF DayPasses
    <2>2. day \in Nat /\ risk.day \in Nat
      BY DomainAssumption DEF RiskInv, TypeOK, RiskStates
    <2> QED BY <2>1, <2>2 DEF DayInv, DayOf, LastEarlier, EarlierMarks
  <1>7. CASE UNCHANGED vars
    BY <1>7 DEF vars, DayInv, DayOf, LastEarlier, EarlierMarks
  <1> QED
    BY <1>1, <1>2, <1>3, <1>4, <1>5, <1>6, <1>7 DEF Next

(* The loss of a day is measured from the equity the day began with, on however many
   days the account trades or does not. *)
THEOREM DaySafety == Spec => []DayStartsFromEarlierDay
  <1>1. RiskInv /\ DayInv => DayStartsFromEarlierDay
    BY DEF DayInv, DayOf, LastEarlier, EarlierMarks, DayStartsFromEarlierDay
  <1>2. Spec => []Money
    BY MoneyInit, MoneyNext, PTL DEF Spec
  <1>3. Spec => []RiskInv
    BY <1>2, RiskInit, RiskNext, PTL DEF Spec
  <1> QED
    BY <1>1, <1>2, <1>3, DayInit, DayNext, PTL DEF Spec

=============================================================================
