---------------------------- MODULE PaperAccount ----------------------------
(***************************************************************************)
(* The stronger promise README.md:51 makes ("Maintains portfolio and       *)
(* position state across stateless runtime invocations"): the persisted    *)
(* portfolio is the one obtained by applying every committed trade, each   *)
(* to the result of the ones before it.  A lot is one unit of BTC.         *)
(***************************************************************************)
EXTENDS TradeLedger, FiniteSets

CONSTANT SideOf   \* BUY or SELL, of each proposal

VARIABLE book     \* the orders whose fills the persisted portfolio contains

OrdersOn(side) == {log[n].order : n \in {m \in 1..Len(log) : SideOf[log[m].proposal] = side}}

(* BTC held in the persisted portfolio, in lots. *)
LotsHeld == Cardinality(book \cap OrdersOn("BUY")) - Cardinality(book \cap OrdersOn("SELL"))

AccountInit == Init /\ book = {}

(***************************************************************************)
(* One trade: at most one position is open (max_concurrent_positions = 1), *)
(* and a SELL only reduces a position that is held.                        *)
(***************************************************************************)
Trade(o, p) ==
  /\ Commit(o, p)
  /\ LotsHeld = IF SideOf[p] = "SELL" THEN 1 ELSE 0
  /\ book' = book \cup {o}

AccountNext == \E o \in Orders, p \in Proposals : Trade(o, p)

AccountSpec == AccountInit /\ [][AccountNext]_<<log, book>>

=============================================================================
