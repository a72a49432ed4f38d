---------------------------- MODULE TradeLedger ----------------------------
(***************************************************************************)
(* What the trade-event store promises about submitted paper orders,       *)
(* whatever happens to the invocations that submit them: committed trades  *)
(* form a log that only grows, and an idempotency key buys at most one     *)
(* entry of it (README.md:50, "Uses idempotency keys and transactional     *)
(* persistence to prevent duplicate paper orders").                        *)
(***************************************************************************)
EXTENDS Naturals, Sequences

CONSTANTS
  Orders,      \* identifiers of paper orders (uuid4, so each is built once)
  Proposals,   \* distinct AgentTradeProposal values, i.e. distinct fingerprints
  KeyOf,       \* the idempotency key of each proposal
  Unkeyed      \* proposals without a key, which are never duplicates

VARIABLE log   \* the committed trades, in the order their transactions took effect

Entry == [order : Orders, proposal : Proposals]

TypeOK == log \in Seq(Entry)

Init == log = <<>>

(***************************************************************************)
(* A transaction commits order o for proposal p.  Neither the order nor    *)
(* the key of the proposal, if it has one, may be in the log already.      *)
(***************************************************************************)
Commit(o, p) ==
  /\ \A n \in 1..Len(log) :
       /\ log[n].order # o
       /\ p \in Unkeyed \/ log[n].proposal \in Unkeyed
          \/ KeyOf[log[n].proposal] # KeyOf[p]
  /\ log' = Append(log, [order |-> o, proposal |-> p])

Next == \E o \in Orders, p \in Proposals : Commit(o, p)

Spec == Init /\ [][Next]_log

=============================================================================
