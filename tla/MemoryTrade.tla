---------------------------- MODULE MemoryTrade ----------------------------
(***************************************************************************)
(* Submission of paper orders by agents that share one in-memory store     *)
(* (agent/store.py): AgentTradeService.submit_paper_order (agent/tools.py) *)
(* over InMemoryTradeEventStore.  Each agent has a ToolRegistry with a     *)
(* portfolio of its own that lives as long as the agent; every method of   *)
(* the store holds the store's lock, so an action is the code up to and    *)
(* including one such call.                                                *)
(*                                                                         *)
(* An order is named by its agent and its number; <<a, 0>> is a holding    *)
(* the agent started with.  A proposal is its fingerprint: decision,       *)
(* quantity at the price of the moment, time.  A fill is of one lot.       *)
(***************************************************************************)
EXTENDS Integers, Sequences, FiniteSets

CONSTANTS
  Agents,
  Proposals,   \* AgentTradeProposal values
  Keys,        \* idempotency keys
  KeyOf,       \* proposal -> its key
  Unkeyed,     \* proposals without a key: each submission gets one of its own
  SideOf,      \* proposal -> "BUY" or "SELL"
  Missing,
  MaxOrders    \* bound on the orders of an agent

ASSUME ProposalAssumption ==
  /\ KeyOf \in [Proposals -> Keys] /\ SideOf \in [Proposals -> {"BUY", "SELL"}]
  /\ Unkeyed \subseteq Proposals
ASSUME OrderAssumption == MaxOrders \in Nat

Orders == Agents \X (0..MaxOrders)
Entries == [order : Orders, proposal : Proposals]
Fills == [order : Orders, side : {"BUY", "SELL"}]

ASSUME MissingAssumption == Missing \notin Entries /\ Missing \notin Proposals

VARIABLES
  (* the store *)
  riskVersion,   \* version of the risk state, 0 when there is none
  index,         \* idempotency_index, with the order and the fingerprint
  latest,        \* latest_snapshots: the fills of the portfolio stored last
  (* the agents *)
  portfolio,     \* the fills of the agent's Portfolio object
  step,          \* where its submit_paper_order is
  orders,        \* the number of its orders so far
  request,       \* the proposal it submits
  expected,      \* expected_risk_version
  outcome, result,   \* the answer of its last submission
  (* history *)
  log            \* the committed orders

store == <<riskVersion, index, latest, log>>
tradeVars == <<store, portfolio, step, orders, request, expected, outcome, result>>

Steps == {"idle", "submit", "read_risk", "init_risk", "execute", "existing", "apply"}
Outcomes == {"NONE", "COMMITTED", "REJECTED", "IDEMPOTENCY_CONFLICT",
             "RISK_STATE_CONFLICT", "RISK_STATE_NOT_FOUND"}

TradeTypeOK ==
  /\ riskVersion \in Nat
  /\ index \in [Keys -> Entries \cup {Missing}]
  /\ latest \subseteq Fills
  /\ portfolio \in [Agents -> SUBSET Fills]
  /\ step \in [Agents -> Steps]
  /\ orders \in [Agents -> 0..MaxOrders]
  /\ request \in [Agents -> Proposals \cup {Missing}]
  /\ expected \in [Agents -> Nat]
  /\ outcome \in [Agents -> Outcomes]
  /\ result \in [Agents -> Orders \cup {Missing}]
  /\ log \in Seq(Entries)

-----------------------------------------------------------------------------
Order(a) == <<a, orders[a]>>
Side(a) == SideOf[request[a]]
Key(a) == KeyOf[request[a]]
Lots(fills) == Cardinality({f \in fills : f.side = "BUY"})
             - Cardinality({f \in fills : f.side = "SELL"})

\* defect: the order is stored under another name than its key
StoredElsewhere(a) == Missing
(* get_by_idempotency_key; nothing is stored under a key made up just now. *)
Stored(a) == IF request[a] \in Unkeyed THEN Missing ELSE index[Key(a)]

TradeInit ==
  /\ riskVersion = 0
  /\ index = [k \in Keys |-> Missing]
  /\ latest = {}
  /\ portfolio \in [Agents -> {{}} \cup {{[order |-> <<a, 0>>, side |-> "BUY"]} : a \in Agents}]
  /\ \A a \in Agents : \A f \in portfolio[a] : f.order = <<a, 0>>
  /\ step = [a \in Agents |-> "idle"]
  /\ orders = [a \in Agents |-> 0]
  /\ request = [a \in Agents |-> Missing]
  /\ expected = [a \in Agents |-> 0]
  /\ outcome = [a \in Agents |-> "NONE"]
  /\ result = [a \in Agents |-> Missing]
  /\ log = <<>>

Goto(a, s) == step' = [step EXCEPT ![a] = s] /\ UNCHANGED <<outcome, result>>
Answer(a, o, order) ==
  /\ step' = [step EXCEPT ![a] = "idle"]
  /\ outcome' = [outcome EXCEPT ![a] = o]
  /\ result' = [result EXCEPT ![a] = order]
Reject(a, o) == Answer(a, o, Missing)

(* The registry's submit_paper_order makes proposal p of a decision. *)
Begin(a, p) ==
  /\ step[a] = "idle"
  /\ orders[a] < MaxOrders
  /\ orders' = [orders EXCEPT ![a] = @ + 1]
  /\ request' = [request EXCEPT ![a] = p]
  /\ Goto(a, "submit")
  /\ UNCHANGED <<store, portfolio, expected>>

(* _validate_proposal, as for market data that has become stale. *)
PreValidationFails(a) ==
  /\ step[a] = "submit"
  /\ Reject(a, "REJECTED")
  /\ UNCHANGED <<store, portfolio, orders, request, expected>>

\* defect: the fingerprint covers what a retry does not repeat
FingerprintOfAttempt(a, entry) == entry = [order |-> Order(a), proposal |-> request[a]]
SameFingerprint(a, entry) == entry.proposal = request[a]

Lookup(a) ==
  /\ step[a] = "submit"
  /\ \/ Stored(a) # Missing /\ SameFingerprint(a, Stored(a)) /\
          Answer(a, "COMMITTED", Stored(a).order)
     \/ Stored(a) # Missing /\ ~SameFingerprint(a, Stored(a)) /\
          Reject(a, "IDEMPOTENCY_CONFLICT")
     \/ Stored(a) = Missing /\
          IF Side(a) = "SELL" /\ Lots(portfolio[a]) < 1
          THEN Reject(a, "REJECTED") ELSE Goto(a, "read_risk")
  /\ UNCHANGED <<store, portfolio, orders, request, expected>>

(* An established portfolio without a risk state may only SELL, expecting 0. *)
ReadRisk(a) ==
  /\ step[a] = "read_risk"
  /\ expected' = [expected EXCEPT ![a] = riskVersion]
  /\ IF riskVersion > 0 \/ (portfolio[a] # {} /\ Side(a) = "SELL") THEN Goto(a, "execute")
     ELSE IF portfolio[a] = {} THEN Goto(a, "init_risk")
     ELSE Reject(a, "REJECTED")
  /\ UNCHANGED <<store, portfolio, orders, request>>

(* initialize_portfolio_risk_state.  The loser of two initialisations is told of
   the conflict in a dictionary without a version, and goes on expecting 0. *)
InitRisk(a) ==
  /\ step[a] = "init_risk"
  /\ IF riskVersion = 0
     THEN riskVersion' = 1 /\ expected' = [expected EXCEPT ![a] = 1]
     ELSE UNCHANGED <<riskVersion, expected>>
  /\ Goto(a, "execute")
  /\ UNCHANGED <<index, latest, log, portfolio, orders, request>>

(* The sizing may reject any BUY, and does when a position is open. *)
RiskRejects(a) ==
  /\ step[a] = "execute" /\ Side(a) = "BUY"
  /\ Reject(a, "REJECTED")
  /\ UNCHANGED <<store, portfolio, orders, request, expected>>

Approved(a) == Side(a) = "BUY" => Lots(portfolio[a]) < 1

(* The fill on a copy of the portfolio: the agent's own is unchanged until the
   order is stored. *)
\* defect: apply_to_portfolio is left at its default
AppliedAtOnce(a) == portfolio' = [portfolio EXCEPT ![a] = @ \cup {[order |-> Order(a), side |-> Side(a)]}]
OnACopy(a) == UNCHANGED portfolio

Candidate(a) == portfolio[a] \cup {[order |-> Order(a), side |-> Side(a)]}

(* atomic_trade_commit: the two checks under the lock, in this order ... *)
\* defect: the version is not compared
AnyVersion(a) == TRUE
VersionMatches(a) == riskVersion = expected[a]

Commit(a) ==
  /\ step[a] = "execute" /\ Approved(a)
  /\ Stored(a) = Missing /\ riskVersion > 0 /\ VersionMatches(a)
  /\ index' = IF request[a] \in Unkeyed THEN index
              ELSE [index EXCEPT ![Key(a)] = [order |-> Order(a), proposal |-> request[a]]]
  /\ latest' = Candidate(a)
  /\ riskVersion' = expected[a] + 1
  /\ log' = Append(log, [order |-> Order(a), proposal |-> request[a]])
  /\ OnACopy(a)
  /\ Goto(a, "apply")
  /\ UNCHANGED <<orders, request, expected>>

(* ... and the answers of those that fail. *)
CommitRefused(a) ==
  /\ step[a] = "execute" /\ Approved(a)
  /\ \/ Stored(a) # Missing /\ SameFingerprint(a, Stored(a)) /\ Goto(a, "existing")
     \/ Stored(a) # Missing /\ ~SameFingerprint(a, Stored(a)) /\
          Reject(a, "IDEMPOTENCY_CONFLICT")
     \/ Stored(a) = Missing /\ riskVersion = 0 /\ Reject(a, "RISK_STATE_NOT_FOUND")
     \/ Stored(a) = Missing /\ riskVersion > 0 /\ ~VersionMatches(a) /\
          Reject(a, "RISK_STATE_CONFLICT")
  /\ OnACopy(a)
  /\ UNCHANGED <<store, orders, request, expected>>

(* ExistingIdempotency: the stored order is returned, and nothing is applied. *)
\* defect: the order built here is returned
OwnOrder(a) == Order(a)
ExistingOrder(a) == Stored(a).order

ReturnExisting(a) ==
  /\ step[a] = "existing"
  /\ Answer(a, "COMMITTED", ExistingOrder(a))
  /\ UNCHANGED <<store, portfolio, orders, request, expected>>

(* The report, which may fail, and the fill on the agent's own portfolio. *)
Apply(a) ==
  /\ step[a] = "apply"
  /\ portfolio' = [portfolio EXCEPT ![a] = Candidate(a)]
  /\ Answer(a, "COMMITTED", Order(a))
  /\ UNCHANGED <<store, orders, request, expected>>

Serve(a) ==
  \/ PreValidationFails(a) \/ Lookup(a) \/ ReadRisk(a) \/ InitRisk(a)
  \/ RiskRejects(a) \/ Commit(a) \/ CommitRefused(a) \/ ReturnExisting(a) \/ Apply(a)

TradeNext == \E a \in Agents : Serve(a) \/ \E p \in Proposals : Begin(a, p)

TradeSpec == TradeInit /\ [][TradeNext]_tradeVars

-----------------------------------------------------------------------------
(* Every commit consumed the risk-state version its agent had read, and no two
   the same one, although the loser of an initialisation goes on without one. *)
VersionCountsCommits ==
  IF riskVersion = 0 THEN log = <<>> ELSE Len(log) = riskVersion - 1

(* "if existing idempotency was found during commit, return that result"
   (tools.py:281): a COMMITTED answer names an order that is stored, for the
   proposal that was submitted, whoever stored it. *)
ReturnedOrderIsStored ==
  \A a \in Agents : step[a] = "idle" /\ outcome[a] = "COMMITTED" =>
    \E n \in 1..Len(log) : log[n] = [order |-> result[a], proposal |-> request[a]]

OwnCommits(a) ==
  {[order |-> log[n].order, side |-> SideOf[log[n].proposal]] :
     n \in {m \in 1..Len(log) : log[m].order[1] = a}}

(* "Authoritative state is mutated only after the persistence transaction
   succeeds" (paper_broker.py:36): between submissions an agent's portfolio holds
   what it started with and its own stored orders, each once, whether they were
   refused, found stored, or overtaken by another agent's. *)
PortfolioAppliesOwnCommits ==
  \A a \in Agents : step[a] # "apply" =>
    {f \in portfolio[a] : f.order[2] > 0} = OwnCommits(a)

(* A conflict is reported only for its cause. *)
ConflictNamesItsCause ==
  \A a \in Agents : step[a] = "idle" =>
    /\ outcome[a] = "IDEMPOTENCY_CONFLICT" =>
         Stored(a) # Missing /\ Stored(a).proposal # request[a]
    /\ outcome[a] = "RISK_STATE_CONFLICT" => riskVersion # expected[a]
    /\ outcome[a] = "RISK_STATE_NOT_FOUND" => expected[a] = 0

(* The in-memory store, too, implements the ledger. *)
Ledger == INSTANCE TradeLedger
ImplementsLedger == Ledger!Spec

=============================================================================
