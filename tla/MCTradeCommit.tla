--------------------------- MODULE MCTradeCommit ---------------------------
(* Instances of TradeCommit for TLC. *)
EXTENDS TradeCommit, TLC

CONSTANTS i1, i2, i3, buy, buyAgain, otherBuy, sell, k1, k2, k3

(* buy and buyAgain share a key and differ in their fingerprint. *)
MCKeyOf == [p \in Proposals |->
              CASE p \in {buy, buyAgain} -> k1 [] p = otherBuy -> k2 [] p = sell -> k3]
MCSideOf == [p \in Proposals |-> IF p = sell THEN "SELL" ELSE "BUY"]

(* The invocations are interchangeable. *)
InvocationSymmetry == Permutations(Invocations)

=============================================================================
