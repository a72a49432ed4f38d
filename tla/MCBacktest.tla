----------------------------- MODULE MCBacktest -----------------------------
(* All histories of MCLength candles over three closes, with and without gaps
   between a close and the next open, and with wicks that reach beyond both. *)
EXTENDS Backtest

CONSTANT MCLength

MCCloses == {1, 2, 3}
Candle(o, c, wick) ==
  [open |-> o, close |-> c, high |-> (IF o > c THEN o ELSE c) + wick, low |-> IF o < c THEN o ELSE c]
MCHistories ==
  {[i \in 1..MCLength |->
      Candle(IF i = 1 THEN 2 ELSE IF gaps THEN 6 \div closes[i - 1] ELSE closes[i - 1], closes[i], i % 2)]
     : closes \in [1..MCLength -> MCCloses], gaps \in BOOLEAN}

=============================================================================
