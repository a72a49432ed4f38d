----------------------------- MODULE Indicators -----------------------------
(***************************************************************************)
(* The technical indicators (indicators/indicators.py) over integer        *)
(* prices, exactly: an average is a fraction [num, den] that is never      *)
(* reduced, so that averages of the same period and index have the same    *)
(* denominator.  An indicator is a function on the indices that have a     *)
(* value.  Indices start at 1; outside the domain the code has None.       *)
(***************************************************************************)
EXTENDS Integers, Sequences

Fractions == [num : Int, den : Nat \ {0}]

(* The sum of s[m] to s[n]. *)
Total(s, m, n) ==
  LET sum[i \in (m - 1)..n] == IF i = m - 1 THEN 0 ELSE sum[i - 1] + s[i] IN sum[n]

(* An average that starts with seed at index m; a later one gives keep parts to
   the average before it and add parts to the new value. *)
Mix(last, keep, value, add) ==
  [num |-> keep * last.num + add * value * last.den, den |-> (keep + add) * last.den]
Averages(x, m, seed, keep, add) ==
  LET avg[i \in m..Len(x)] == IF i = m THEN seed ELSE Mix(avg[i - 1], keep, x[i], add) IN avg

-----------------------------------------------------------------------------
(* ema: the first value is the plain average of the first p prices; a later one
   moves from the value before it by 2/(p+1) of the distance to the new price. *)
\* defect: seeded with the average of the last p prices
EmaFromEnd(s, p) ==
  Averages(s, p, [num |-> Total(s, Len(s) - p + 1, Len(s)), den |-> p], p - 1, 2)
Ema(s, p) == Averages(s, p, [num |-> Total(s, 1, p), den |-> p], p - 1, 2)

(* The average that rsi and atr share: the plain average of x[2] to x[p+1], and
   then one p-th of the new value and the rest of the average before it. *)
\* defect: x[1], which stands for no change, is averaged as well
SmoothedFromFirst(x, p) ==
  Averages(x, p + 1, [num |-> Total(x, 1, p + 1), den |-> p], p - 1, 1)
Smoothed(x, p) == Averages(x, p + 1, [num |-> Total(x, 2, p + 1), den |-> p], p - 1, 1)

-----------------------------------------------------------------------------
Larger(x, y) == IF x >= y THEN x ELSE y

Gains(s) == [i \in 1..Len(s) |-> IF i = 1 THEN 0 ELSE Larger(s[i] - s[i - 1], 0)]
Losses(s) == [i \in 1..Len(s) |-> IF i = 1 THEN 0 ELSE Larger(s[i - 1] - s[i], 0)]

(* rsi: 100 - 100 / (1 + gain / loss), the averages having one denominator; 100
   when there is no loss. *)
\* defect: 0 when there is no gain, asked first
RsiGainFirst(gain, loss) ==
  IF gain.num = 0 THEN [num |-> 0, den |-> 1]
  ELSE [num |-> 100 * gain.num, den |-> gain.num + loss.num]
RsiOf(gain, loss) ==
  IF loss.num = 0 THEN [num |-> 100, den |-> 1]
  ELSE [num |-> 100 * gain.num, den |-> gain.num + loss.num]

Rsi(s, p) ==
  LET gain == Smoothed(Gains(s), p)
      loss == Smoothed(Losses(s), p)
  IN [i \in (p + 1)..Len(s) |-> RsiOf(gain[i], loss[i])]

(* atr: the average true range. *)
Distance(x, y) == Larger(x - y, y - x)
TrueRange(candles, i) ==
  LET c == candles[i]
      before == candles[i - 1].close
  IN IF i = 1 THEN c.high - c.low
     ELSE Larger(c.high - c.low, Larger(Distance(c.high, before), Distance(c.low, before)))
TrueRanges(candles) == [i \in 1..Len(candles) |-> TrueRange(candles, i)]

Atr(candles, p) == Smoothed(TrueRanges(candles), p)

-----------------------------------------------------------------------------
(* What the properties of the indicators are about. *)

(* The average of x[from] to x[to] lies between the least and the greatest. *)
IsMean(average, x, from, to) ==
  /\ \E j \in from..to : x[j] * average.den <= average.num
  /\ \E j \in from..to : average.num <= x[j] * average.den

(* The prices turned upside down. *)
Mirror(s) == [i \in 1..Len(s) |-> -s[i]]

=============================================================================
