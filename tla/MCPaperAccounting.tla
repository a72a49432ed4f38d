------------------------- MODULE MCPaperAccounting -------------------------
(* Rates over 10 instead of 2000 and coarse prices, so that five commits meet
   every limit; the costs still fit the buffer: 11 * 12 <= 10 * 14. *)
EXTENDS PaperAccounting

MCPrices == {2, 3, 5}
MCQuantities == {0, 1, 2, 4}

=============================================================================
