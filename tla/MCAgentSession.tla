--------------------------- MODULE MCAgentSession ---------------------------
(* Instances of AgentSession for TLC. *)
EXTENDS AgentSession

CONSTANTS a1, a2, buy, buyHigher, sell, buyNoKey, k1, k2

(* One BUY decision at two prices, a SELL, and a BUY without a key. *)
MCKeyOf == [p \in Proposals |-> IF p = sell THEN k2 ELSE k1]
MCSideOf == [p \in Proposals |-> IF p = sell THEN "SELL" ELSE "BUY"]

=============================================================================
