------------------------------ MODULE MCDipBuy ------------------------------
(* Prices at which a position bought in a dip (97 below 100) can take its profit
   (100), stop its loss (95) and trail its stop (99, then 97); the rates are those
   of DipBuyConfig over 2000. *)
EXTENDS DipBuy, TLC

CONSTANTS e1, e2

MCPrices == {95, 97, 99, 100}

(* The evaluations are interchangeable. *)
EvaluationSymmetry == Permutations(Evaluations)

=============================================================================
