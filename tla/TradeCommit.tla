---------------------------- MODULE TradeCommit ----------------------------
(***************************************************************************)
(* Submission of a paper order by concurrent, stateless runs of the Lambda *)
(* over one DynamoDB table: _load_state (agent/lambda_handler.py),         *)
(* AgentTradeService.submit_paper_order (agent/tools.py) and the table     *)
(* adapter (agent/dynamo_store.py).  An action is the code between two     *)
(* calls that leave the process.                                           *)
(*                                                                         *)
(* uuid4 identifiers are fresh, and a run submits one order, so an order   *)
(* is named by the invocation that builds it.  The fingerprint is a hash   *)
(* of the whole proposal, so it is modelled by the proposal.  A portfolio  *)
(* is the set of the fills it contains; every order trades one lot (the    *)
(* money is the subject of PaperAccounting).                               *)
(***************************************************************************)
EXTENDS Integers, Sequences, FiniteSets

CONSTANTS
  Invocations,   \* runs of the handler with action "paper_order"
  Proposals,     \* the proposals callers submit; a caller's retry repeats one
  Keys,          \* idempotency keys
  KeyOf,         \* proposal -> its idempotency key
  SideOf,        \* proposal -> "BUY" or "SELL"
  Automatic,     \* proposals of the dip-buy strategy, committed with its state
  Missing,       \* "the table has no such item"
  MaxAttempts,   \* max_attempts of _transact_write (4 in the code)
  MaxClock,      \* bound on the wall clock
  Faults         \* what the environment may do, a subset of FaultKinds

FaultKinds ==
  {"overlap",      \* an invocation may start while another is running
   "stale",        \* a default (eventually consistent) read may miss a recent write
   "unavailable",  \* a call may fail without having had an effect
   "lostReply",    \* a write may take effect although the caller sees an error
   "late",         \* a write given up by its caller may still take effect later
   "crash"}        \* an invocation may stop at any point (30 s Lambda timeout)

ASSUME ProposalAssumption ==
  /\ KeyOf \in [Proposals -> Keys] /\ SideOf \in [Proposals -> {"BUY", "SELL"}]
  /\ Automatic \subseteq Proposals
ASSUME MissingAssumption == Missing \notin Invocations
ASSUME BoundAssumption == MaxAttempts \in Nat \ {0} /\ MaxClock \in Nat
ASSUME FaultAssumption == Faults \subseteq FaultKinds

VARIABLES
  (* the table *)
  riskVersion,   \* version of the RISK_STATE item, 0 when there is none
  snapshots,     \* SNAPSHOT#<time> items: time -> portfolio
  idempotency,   \* IDEMPOTENCY#<key> items: key -> order stored under it, or Missing
  decisions,     \* orders whose RISK#... decision item is stored
  replica,       \* the older values a stale read may return
  late,          \* invocations whose transaction is still on its way
  (* the bucket and the clock *)
  latestReport,  \* order reports/paper_performance/latest.json was written for
  clock,
  (* the invocations *)
  proposal, pc,
  riskSeen,      \* risk-state version _load_state read
  portfolio,     \* the local Portfolio object
  expected,      \* expected_risk_version
  snapshotKey,   \* time in the sort key of the snapshot to put
  attempt,       \* failed attempts in _transact_write
  outcome,       \* what the caller is told
  result,        \* the order a COMMITTED answer names
  (* history *)
  commits        \* orders in the order their transactions took effect

table == <<riskVersion, snapshots, idempotency, decisions>>
vars == <<table, replica, late, latestReport, clock, proposal, pc, riskSeen,
          portfolio, expected, snapshotKey, attempt, outcome, result, commits>>

Labels == {"start", "load_snapshot", "submit", "read_risk", "init_risk", "size",
           "transact", "check_idempotency", "report", "done"}

Rejections == {"REJECTED", "IDEMPOTENCY_CONFLICT", "RISK_STATE_CONFLICT",
               "TRANSACTION_CANCELED"}
Outcomes == {"NONE", "COMMITTED", "ERROR", "SNAPSHOT_UNAVAILABLE"} \cup Rejections

Portfolios == SUBSET Invocations
SnapshotTables == UNION {[T -> Portfolios] : T \in SUBSET (0..MaxClock)}
IdempotencyTables == [Keys -> Invocations \cup {Missing}]

(* Every variable has its type; versions are bounded by the orders there can be. *)
TypeOK ==
  /\ riskVersion \in Nat
  /\ snapshots \in SnapshotTables
  /\ idempotency \in IdempotencyTables
  /\ decisions \subseteq Invocations
  /\ replica \in [risk : Nat, snapshots : SnapshotTables, idempotency : IdempotencyTables]
  /\ late \subseteq Invocations
  /\ latestReport \in Invocations \cup {Missing}
  /\ clock \in 0..MaxClock
  /\ proposal \in [Invocations -> Proposals]
  /\ pc \in [Invocations -> Labels]
  /\ riskSeen \in [Invocations -> Nat]
  /\ portfolio \in [Invocations -> Portfolios]
  /\ expected \in [Invocations -> Nat]
  /\ snapshotKey \in [Invocations -> 0..MaxClock]
  /\ attempt \in [Invocations -> 0..MaxAttempts]
  /\ outcome \in [Invocations -> Outcomes]
  /\ result \in [Invocations -> Invocations \cup {Missing}]
  /\ commits \in Seq(Invocations)

-----------------------------------------------------------------------------
Key(i) == KeyOf[proposal[i]]
Side(i) == SideOf[proposal[i]]

(* btc_quantity of a portfolio, in lots. *)
Lots(fills) == Cardinality({i \in fills : Side(i) = "BUY"})
             - Cardinality({i \in fills : Side(i) = "SELL"})

\* defect: ScanIndexForward=True, the query returns the oldest snapshot
OldestKey(snaps) == CHOOSE t \in DOMAIN snaps : \A u \in DOMAIN snaps : t <= u
LatestKey(snaps) == CHOOSE t \in DOMAIN snaps : \A u \in DOMAIN snaps : u <= t

(* Portfolio in the newest snapshot item; a new portfolio if there is none. *)
LatestPortfolio(snaps) == IF DOMAIN snaps = {} THEN {} ELSE snaps[LatestKey(snaps)]

(* The results a default read of each item may return. *)
RiskReads == {riskVersion} \cup IF "stale" \in Faults THEN {replica.risk} ELSE {}
SnapshotReads == {snapshots} \cup IF "stale" \in Faults THEN {replica.snapshots} ELSE {}
IdempotencyReads(k) ==
  {idempotency[k]} \cup IF "stale" \in Faults THEN {replica.idempotency[k]} ELSE {}

Init ==
  /\ riskVersion = 0
  /\ snapshots = [t \in {} |-> {}]
  /\ idempotency = [k \in Keys |-> Missing]
  /\ decisions = {}
  /\ replica = [risk |-> 0, snapshots |-> snapshots, idempotency |-> idempotency]
  /\ late = {}
  /\ latestReport = Missing
  /\ clock = 0
  /\ proposal \in [Invocations -> Proposals]
  /\ pc = [i \in Invocations |-> "start"]
  /\ riskSeen = [i \in Invocations |-> 0]
  /\ portfolio = [i \in Invocations |-> {}]
  /\ expected = [i \in Invocations |-> 0]
  /\ snapshotKey = [i \in Invocations |-> 0]
  /\ attempt = [i \in Invocations |-> 0]
  /\ outcome = [i \in Invocations |-> "NONE"]
  /\ result = [i \in Invocations |-> Missing]
  /\ commits = <<>>

Goto(i, label) ==
  pc' = [pc EXCEPT ![i] = label] /\ UNCHANGED <<outcome, result>>

Answer(i, o) ==
  /\ pc' = [pc EXCEPT ![i] = "done"]
  /\ outcome' = [outcome EXCEPT ![i] = o]
  /\ UNCHANGED result

AnswerOrder(i, order) ==
  /\ pc' = [pc EXCEPT ![i] = "done"]
  /\ outcome' = [outcome EXCEPT ![i] = "COMMITTED"]
  /\ result' = [result EXCEPT ![i] = order]

external == <<replica, late, latestReport, clock>>

-----------------------------------------------------------------------------
(* _load_state: the risk state is read before the snapshot. *)
LoadRisk(i) ==
  /\ pc[i] = "start"
  /\ "overlap" \in Faults \/ \A j \in Invocations \ {i} : pc[j] \in {"start", "done"}
  /\ \E v \in RiskReads : riskSeen' = [riskSeen EXCEPT ![i] = v]
  /\ Goto(i, "load_snapshot")
  /\ UNCHANGED <<table, external, proposal, portfolio, expected, snapshotKey,
                 attempt, commits>>

(* No snapshot is acceptable only beside no risk state, or beside the pristine
   baseline, version 1, that initialisation wrote. *)
\* defect: the pristine baseline is not recognised
OnlyBeforeRiskState(i) == riskSeen[i] = 0
MayLackSnapshot(i) == riskSeen[i] <= 1

LoadSnapshot(i) ==
  /\ pc[i] = "load_snapshot"
  /\ \E s \in SnapshotReads :
       IF DOMAIN s = {} /\ ~MayLackSnapshot(i)
       THEN Answer(i, "SNAPSHOT_UNAVAILABLE") /\ UNCHANGED portfolio
       ELSE /\ portfolio' = [portfolio EXCEPT ![i] = LatestPortfolio(s)]
            /\ Goto(i, "submit")
  /\ UNCHANGED <<table, external, proposal, riskSeen, expected, snapshotKey,
                 attempt, commits>>

(* Market data, or the checks of _validate_proposal: nothing was read or written. *)
PreValidationFails(i) ==
  /\ pc[i] = "submit"
  /\ "unavailable" \in Faults
  /\ Answer(i, "REJECTED") \/ Answer(i, "ERROR")
  /\ UNCHANGED <<table, external, proposal, riskSeen, portfolio, expected,
                 snapshotKey, attempt, commits>>

(* The stored fingerprint is that of this request. *)
\* defect: only the key is compared
AnyRequest(i, stored) == TRUE
SameRequest(i, stored) == proposal[stored] = proposal[i]

(* The key decides whether this is a committed retry; a SELL then needs holdings. *)
LookupIdempotency(i) ==
  /\ pc[i] = "submit"
  /\ \E stored \in IdempotencyReads(Key(i)) :
       \/ /\ stored # Missing
          /\ SameRequest(i, stored)
          /\ AnswerOrder(i, stored)
       \/ /\ stored # Missing
          /\ ~SameRequest(i, stored)
          /\ Answer(i, "IDEMPOTENCY_CONFLICT")
       \/ /\ stored = Missing
          /\ IF Side(i) = "SELL" /\ Lots(portfolio[i]) < 1
             THEN Answer(i, "REJECTED")
             ELSE Goto(i, "read_risk")
  /\ UNCHANGED <<table, external, proposal, riskSeen, portfolio, expected,
                 snapshotKey, attempt, commits>>

(* The version the commit will be conditioned on.  Without a risk state a new
   portfolio initialises one, an established one may only SELL (and then
   expects version 0, which no item has). *)
ReadRisk(i) ==
  /\ pc[i] = "read_risk"
  /\ \E v \in RiskReads :
       /\ expected' = [expected EXCEPT ![i] = v]
       /\ \/ v > 0 /\ Goto(i, "size")
          \/ v = 0 /\ portfolio[i] = {} /\ Goto(i, "init_risk")
          \/ v = 0 /\ portfolio[i] # {} /\ Side(i) = "SELL" /\ Goto(i, "size")
          \/ v = 0 /\ portfolio[i] # {} /\ Side(i) = "BUY" /\ Answer(i, "REJECTED")
  /\ UNCHANGED <<table, external, proposal, riskSeen, portfolio, snapshotKey,
                 attempt, commits>>

(* initialize_portfolio_risk_state: put if absent; any failure is raised and
   nothing above catches it.  The put may have worked all the same. *)
InitRisk(i) ==
  /\ pc[i] = "init_risk"
  /\ \/ /\ riskVersion = 0
        /\ riskVersion' = 1
        /\ expected' = [expected EXCEPT ![i] = 1]
        /\ Goto(i, "size")
     \/ /\ riskVersion # 0
        /\ Answer(i, "ERROR")
        /\ UNCHANGED <<riskVersion, expected>>
     \/ /\ "lostReply" \in Faults
        /\ riskVersion = 0
        /\ riskVersion' = 1
        /\ Answer(i, "ERROR")
        /\ UNCHANGED expected
  /\ UNCHANGED <<snapshots, idempotency, decisions, external, proposal, riskSeen,
                 portfolio, snapshotKey, attempt, commits>>

(* Sizing, the simulated fill on a copy of the portfolio, and the items of the
   transaction, whose snapshot key is the time they are built.  A BUY while a
   position is open is always rejected; any BUY may be, on prices and equity. *)
SizeAndBuild(i) ==
  /\ pc[i] = "size"
  /\ Side(i) = "BUY" => Lots(portfolio[i]) < 1
  /\ snapshotKey' = [snapshotKey EXCEPT ![i] = clock]
  /\ Goto(i, "transact")
  /\ UNCHANGED <<table, external, proposal, riskSeen, portfolio, expected,
                 attempt, commits>>

RiskRejects(i) ==
  /\ pc[i] = "size"
  /\ Side(i) = "BUY"
  /\ decisions' = decisions \cup {i}
  /\ Answer(i, "REJECTED")
  /\ UNCHANGED <<riskVersion, snapshots, idempotency, external, proposal,
                 riskSeen, portfolio, expected, snapshotKey, attempt, commits>>

-----------------------------------------------------------------------------
(* The two conditions of the transaction that can fail. *)
\* defect: the put of the idempotency item is unconditional
KeyNeverTaken(i) == FALSE
KeyTaken(i) == idempotency[Key(i)] # Missing

\* defect: the condition is attribute_exists instead of version = :v
VersionAbsent(i) == riskVersion = 0
VersionMoved(i) == riskVersion = 0 \/ riskVersion # expected[i]

Applicable(i) == ~KeyTaken(i) /\ ~VersionMoved(i)

(* new_portfolio_snapshot: the fill applied to the portfolio that was loaded. *)
\* defect: the fill is applied to a new portfolio
LoneFill(i) == {i}
Candidate(i) == portfolio[i] \cup {i}

(* The effect of the transaction's items, all together. *)
Apply(i) ==
  /\ idempotency' = [idempotency EXCEPT ![Key(i)] = i]
  /\ decisions' = decisions \cup {i}
  /\ snapshots' = [t \in DOMAIN snapshots \cup {snapshotKey[i]} |->
                     IF t = snapshotKey[i] THEN Candidate(i) ELSE snapshots[t]]
  /\ riskVersion' = expected[i] + 1
  /\ commits' = Append(commits, i)

TransactCommits(i) ==
  /\ pc[i] = "transact"
  /\ Applicable(i)
  /\ Apply(i)
  /\ Goto(i, "report")
  /\ UNCHANGED <<external, proposal, riskSeen, portfolio, expected, snapshotKey, attempt>>

(* TransactionCanceledException with a reason per item.  A failed condition is told
   by name if it is the only reason and the items are the six of a commit: with the
   strategy state they are seven.  A list that is missing, or incomplete, or that
   has a reason which is no condition (throttling, a transaction in progress), is
   told as a cancellation, whatever the conditions. *)
\* defect: several reasons are not told apart from one
FirstReason(i, listed) ==
  IF listed /\ proposal[i] \notin Automatic
  THEN IF KeyTaken(i) THEN "IDEMPOTENCY_CONFLICT" ELSE "RISK_STATE_CONFLICT"
  ELSE "TRANSACTION_CANCELED"
CancellationReason(i, listed) ==
  IF listed /\ proposal[i] \notin Automatic /\ KeyTaken(i) # VersionMoved(i)
  THEN IF KeyTaken(i) THEN "IDEMPOTENCY_CONFLICT" ELSE "RISK_STATE_CONFLICT"
  ELSE "TRANSACTION_CANCELED"

TransactCancelled(i) ==
  /\ pc[i] = "transact"
  /\ \E listed \in BOOLEAN :
       /\ IF listed THEN ~Applicable(i) ELSE "unavailable" \in Faults
       /\ Answer(i, CancellationReason(i, listed))
  /\ UNCHANGED <<table, external, proposal, riskSeen, portfolio, expected,
                 snapshotKey, attempt, commits>>

(* Any other error that _classify_exception does not call transient is not retried. *)
TransactRefused(i) ==
  /\ pc[i] = "transact"
  /\ "unavailable" \in Faults
  /\ Answer(i, "REJECTED")
  /\ UNCHANGED <<table, external, proposal, riskSeen, portfolio, expected,
                 snapshotKey, attempt, commits>>

(* A transient error: throttled before it had an effect ... *)
TransactThrottled(i) ==
  /\ pc[i] = "transact"
  /\ "unavailable" \in Faults
  /\ Goto(i, "check_idempotency")
  /\ UNCHANGED <<table, external, proposal, riskSeen, portfolio, expected,
                 snapshotKey, attempt, commits>>

(* ... or after it had taken effect (a connection closed before the reply is not
   called transient either) ... *)
TransactReplyLost(i) ==
  /\ pc[i] = "transact"
  /\ "lostReply" \in Faults
  /\ Applicable(i)
  /\ Apply(i)
  /\ Goto(i, "check_idempotency") \/ Answer(i, "REJECTED")
  /\ UNCHANGED <<external, proposal, riskSeen, portfolio, expected, snapshotKey, attempt>>

(* ... or while it is still on its way. *)
TransactDelayed(i) ==
  /\ pc[i] = "transact"
  /\ "late" \in Faults
  /\ late' = late \cup {i}
  /\ Goto(i, "check_idempotency")
  /\ UNCHANGED <<table, replica, latestReport, clock, proposal, riskSeen, portfolio,
                 expected, snapshotKey, attempt, commits>>

DeliverLate(i) ==
  /\ i \in late
  /\ late' = late \ {i}
  /\ \/ Applicable(i) /\ Apply(i)
     \/ ~Applicable(i) /\ UNCHANGED <<table, commits>>
  /\ UNCHANGED <<replica, latestReport, clock, proposal, pc, riskSeen, portfolio,
                 expected, snapshotKey, attempt, outcome, result>>

(* One more failed attempt; the last one allowed rejects the order. *)
\* defect: <= for <
RetryOnceMore(i) ==
  /\ attempt' = [attempt EXCEPT ![i] = @ + 1]
  /\ IF attempt[i] + 1 <= MaxAttempts THEN Goto(i, "transact") ELSE Answer(i, "REJECTED")
\* defect: the attempt is not counted
RetryForever(i) == Goto(i, "transact") /\ UNCHANGED attempt
\* defect: the exhausted loop is left without an exception
RetryFallsThrough(i) ==
  /\ attempt' = [attempt EXCEPT ![i] = @ + 1]
  /\ Goto(i, IF attempt[i] + 1 < MaxAttempts THEN "transact" ELSE "report")
Retry(i) ==
  /\ attempt' = [attempt EXCEPT ![i] = @ + 1]
  /\ IF attempt[i] + 1 < MaxAttempts THEN Goto(i, "transact") ELSE Answer(i, "REJECTED")

(* After a transient error: a stored key ends the retries.  The stored item that
   _transact_write then returns is discarded by atomic_trade_commit, so the
   caller goes on with its own order. *)
CheckIdempotency(i) ==
  /\ pc[i] = "check_idempotency"
  /\ \E stored \in IdempotencyReads(Key(i)) :
       \/ stored # Missing /\ Goto(i, "report") /\ UNCHANGED attempt
       \/ stored = Missing /\ Retry(i)
  /\ UNCHANGED <<table, external, proposal, riskSeen, portfolio, expected,
                 snapshotKey, commits>>

\* defect: an S3 outage rejects the committed trade
ReportRejects(i) == Answer(i, "REJECTED") /\ UNCHANGED latestReport
ReportLost(i) == AnswerOrder(i, i) /\ UNCHANGED latestReport

(* The best-effort report, the local apply_fill and the answer. *)
ReportAndAnswer(i) ==
  /\ pc[i] = "report"
  /\ \/ latestReport' = i /\ AnswerOrder(i, i)
     \/ "unavailable" \in Faults /\ ReportLost(i)
  /\ portfolio' = [portfolio EXCEPT ![i] = Candidate(i)]
  /\ UNCHANGED <<table, replica, late, clock, proposal, riskSeen, expected,
                 snapshotKey, attempt, commits>>

(* A failing read: uncaught, except in _transact_write where it ends as a rejection. *)
CallFails(i) ==
  /\ "unavailable" \in Faults
  /\ \/ /\ \/ pc[i] \in {"load_snapshot", "submit", "read_risk", "init_risk"}
           \/ pc[i] = "size" /\ Side(i) = "BUY"   \* save_risk_decision
        /\ Answer(i, "ERROR")
     \/ pc[i] = "check_idempotency" /\ Answer(i, "REJECTED")
  /\ UNCHANGED <<table, external, proposal, riskSeen, portfolio, expected,
                 snapshotKey, attempt, commits>>

-----------------------------------------------------------------------------
(* The invocation stops without an answer, perhaps with its transaction sent. *)
Crash(i) ==
  /\ "crash" \in Faults
  /\ pc[i] \notin {"start", "done"}
  /\ Goto(i, "done")
  /\ \/ UNCHANGED late
     \/ pc[i] = "transact" /\ "late" \in Faults /\ late' = late \cup {i}
  /\ UNCHANGED <<table, replica, latestReport, clock, proposal, riskSeen, portfolio,
                 expected, snapshotKey, attempt, commits>>

(* A replica catches up with one item. *)
Replicate ==
  /\ "stale" \in Faults
  /\ \/ replica' = [replica EXCEPT !.risk = riskVersion]
     \/ replica' = [replica EXCEPT !.snapshots = snapshots]
     \/ replica' = [replica EXCEPT !.idempotency = idempotency]
  /\ UNCHANGED <<table, late, latestReport, clock, proposal, pc, riskSeen, portfolio,
                 expected, snapshotKey, attempt, outcome, result, commits>>

Tick ==
  /\ clock < MaxClock
  /\ clock' = clock + 1
  /\ UNCHANGED <<table, replica, late, latestReport, proposal, pc, riskSeen, portfolio,
                 expected, snapshotKey, attempt, outcome, result, commits>>

(* A step of the code of invocation i. *)
Step(i) ==
  \/ LoadRisk(i) \/ LoadSnapshot(i)
  \/ PreValidationFails(i) \/ LookupIdempotency(i)
  \/ ReadRisk(i) \/ InitRisk(i) \/ SizeAndBuild(i) \/ RiskRejects(i)
  \/ TransactCommits(i) \/ TransactCancelled(i) \/ TransactRefused(i)
  \/ TransactThrottled(i) \/ TransactReplyLost(i) \/ TransactDelayed(i)
  \/ CheckIdempotency(i) \/ ReportAndAnswer(i) \/ CallFails(i)

Next ==
  \/ \E i \in Invocations : Step(i) \/ DeliverLate(i) \/ Crash(i)
  \/ Replicate
  \/ Tick

Spec == Init /\ [][Next]_vars

(* A running invocation keeps executing: nothing in it waits for another. *)
FairSpec == Spec /\ \A i \in Invocations : WF_vars(Step(i))

-----------------------------------------------------------------------------
Committed == {commits[n] : n \in 1..Len(commits)}

(* Every transaction that took effect consumed the risk-state version it had
   read, and no two consumed the same one (the condition on "version = :v"). *)
VersionCountsCommits ==
  IF riskVersion = 0 THEN commits = <<>> ELSE Len(commits) = riskVersion - 1

(* The snapshot a later run loads, the one with the greatest sort key, is the one
   the last committed transaction wrote, whoever built it first. *)
LatestSnapshotIsLastCommit ==
  IF commits = <<>>
  THEN DOMAIN snapshots = {}
  ELSE LatestPortfolio(snapshots) = Candidate(commits[Len(commits)])

(* With consistent reads, _load_state never finds a used risk state without a
   portfolio snapshot, because the risk state is read first. *)
SnapshotAlwaysLoadable ==
  \A i \in Invocations : outcome[i] # "SNAPSHOT_UNAVAILABLE"

(* Maintaining the portfolio across stateless invocations: the snapshot a later
   run loads contains the fill of every committed order. *)
SnapshotReflectsLedger == LatestPortfolio(snapshots) = Committed

(* A COMMITTED answer names an order that is stored, for the caller's proposal. *)
ReturnedOrderIsStored ==
  \A i \in Invocations : outcome[i] = "COMMITTED" =>
    result[i] \in Committed /\ proposal[result[i]] = proposal[i]

(* The published performance report is of a trade that was committed. *)
ReportIsOfCommittedTrade == latestReport # Missing => latestReport \in Committed

(* An order whose submission was answered with a rejection is not in the ledger,
   and has no transaction on its way that could still put it there. *)
RejectedNeverCommits ==
  \A i \in Invocations : outcome[i] \in Rejections => i \notin Committed \cup late

(* A conflict that is told by name has that cause and is final, whatever happened
   to the attempts before it: the order is not stored, and a transaction of it that
   is still on its way can no longer take effect.  (TRANSACTION_CANCELED promises
   neither: the order may be stored.) *)
NamedConflictIsFinal ==
  \A i \in Invocations :
    /\ outcome[i] = "IDEMPOTENCY_CONFLICT" => idempotency[Key(i)] \notin {i, Missing}
    /\ outcome[i] = "RISK_STATE_CONFLICT" => riskVersion # expected[i]
    /\ outcome[i] \in {"IDEMPOTENCY_CONFLICT", "RISK_STATE_CONFLICT"} => i \notin Committed

(* Every run that starts stops: the retries are bounded and nothing waits. *)
Termination == \A i \in Invocations : (pc[i] # "start") ~> (pc[i] = "done")

LogEntries == [n \in 1..Len(commits) |->
                 [order |-> commits[n], proposal |-> proposal[commits[n]]]]

(* The table implements the ledger in which a key commits at most once. *)
Ledger == INSTANCE TradeLedger WITH Orders <- Invocations, Unkeyed <- {}, log <- LogEntries
ImplementsLedger == Ledger!Spec

(* Without overlap and with consistent reads, the table also implements the
   account in which each trade is applied to the result of those before it. *)
Account == INSTANCE PaperAccount WITH
  Orders <- Invocations, Unkeyed <- {}, log <- LogEntries, book <- LatestPortfolio(snapshots)
ImplementsAccount == Account!AccountSpec

=============================================================================
