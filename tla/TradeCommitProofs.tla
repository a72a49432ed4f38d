------------------------- MODULE TradeCommitProofs -------------------------
(***************************************************************************)
(* Safety of TradeCommit for every number of invocations, every set of     *)
(* proposals and every set of faults.                                      *)
(***************************************************************************)
EXTENDS TradeCommit, TLAPS

(* A snapshot table that is not empty has a newest key, as the CHOOSE of
   LatestKey needs.  (Every finite set of numbers has one; carrying it as an
   invariant avoids the induction.) *)
HasLatest(s) == DOMAIN s # {} => \E t \in DOMAIN s : \A u \in DOMAIN s : u <= t

(* An invocation that is still running may make another attempt. *)
AttemptsLeft == \A i \in Invocations : pc[i] # "done" => attempt[i] < MaxAttempts

(* TypeOK, with what the types of a loaded portfolio and of the attempts rest on. *)
TypeInv ==
  /\ TypeOK
  /\ AttemptsLeft
  /\ HasLatest(snapshots)
  /\ HasLatest(replica.snapshots)

-----------------------------------------------------------------------------
(* Values: keys, reads, loaded portfolios, and the items of a transaction.  *)

LEMMA KeyType ==
  ASSUME NEW i \in Invocations, TypeOK
  PROVE  Key(i) \in Keys /\ Side(i) \in {"BUY", "SELL"}
BY ProposalAssumption DEF TypeOK, Key, Side

(* A read returns a value of the item's type. *)
LEMMA ReadType ==
  ASSUME TypeInv
  PROVE  /\ \A v \in RiskReads : v \in Nat
         /\ \A s \in SnapshotReads : s \in SnapshotTables /\ HasLatest(s)
         /\ \A k \in Keys : \A x \in IdempotencyReads(k) : x \in Invocations \cup {Missing}
<1>1. \A v \in RiskReads : v \in Nat
  BY DEF TypeInv, TypeOK, RiskReads
<1>2. \A s \in SnapshotReads : s \in SnapshotTables /\ HasLatest(s)
  BY DEF TypeInv, TypeOK, SnapshotReads
<1>3. \A k \in Keys : \A x \in IdempotencyReads(k) : x \in Invocations \cup {Missing}
  BY DEF TypeInv, TypeOK, IdempotencyReads, IdempotencyTables
<1> QED BY <1>1, <1>2, <1>3

LEMMA LatestPortfolioType ==
  ASSUME NEW s \in SnapshotTables, HasLatest(s)
  PROVE  LatestPortfolio(s) \in Portfolios
<1>1. CASE DOMAIN s = {}
  BY <1>1 DEF LatestPortfolio, Portfolios
<1>2. CASE DOMAIN s # {}
  <2>1. LatestKey(s) \in DOMAIN s
    BY <1>2 DEF HasLatest, LatestKey
  <2>2. PICK T \in SUBSET (0..MaxClock) : s \in [T -> Portfolios]
    BY DEF SnapshotTables
  <2> QED BY <1>2, <2>1, <2>2 DEF LatestPortfolio
<1> QED BY <1>1, <1>2

LEMMA ApplyType ==
  ASSUME TypeInv, NEW i \in Invocations, Apply(i)
  PROVE  /\ riskVersion' \in Nat
         /\ snapshots' \in SnapshotTables
         /\ idempotency' \in IdempotencyTables
         /\ decisions' \subseteq Invocations
         /\ commits' \in Seq(Invocations)
         /\ HasLatest(snapshots')
<1>1. riskVersion' \in Nat /\ decisions' \subseteq Invocations /\ commits' \in Seq(Invocations)
  BY DEF TypeInv, TypeOK, Apply
<1>2. idempotency' \in IdempotencyTables
  BY KeyType DEF TypeInv, TypeOK, Apply, IdempotencyTables
<1>3. PICK T \in SUBSET (0..MaxClock) : snapshots \in [T -> Portfolios]
  BY DEF TypeInv, TypeOK, SnapshotTables
<1>4. snapshots' \in SnapshotTables
  <2>1. T \cup {snapshotKey[i]} \in SUBSET (0..MaxClock)
    BY DEF TypeInv, TypeOK
  <2>2. Candidate(i) \in Portfolios
    BY DEF TypeInv, TypeOK, Candidate, Portfolios
  <2>3. snapshots' \in [T \cup {snapshotKey[i]} -> Portfolios]
    BY <1>3, <2>2 DEF Apply
  <2> QED BY <2>1, <2>3 DEF SnapshotTables
<1>5. HasLatest(snapshots')
  <2>1. DOMAIN snapshots = T /\ DOMAIN snapshots' = T \cup {snapshotKey[i]}
    BY <1>3 DEF Apply
  <2>2. snapshotKey[i] \in 0..MaxClock /\ MaxClock \in Nat
    BY BoundAssumption DEF TypeInv, TypeOK
  <2>3. CASE T = {}
    BY <2>1, <2>2, <2>3 DEF HasLatest
  <2>4. CASE T # {}
    <3>1. PICK t \in T : \A u \in T : u <= t
      BY <2>1, <2>4 DEF TypeInv, HasLatest
    <3>2. CASE snapshotKey[i] <= t
      BY <2>1, <2>2, <3>1, <3>2 DEF HasLatest
    <3>3. CASE t <= snapshotKey[i]
      <4>1. \A u \in T : u <= snapshotKey[i]
        BY <1>3, <2>2, <3>1, <3>3
      <4>2. snapshotKey[i] <= snapshotKey[i]
        BY <2>2
      <4>3. \A u \in DOMAIN snapshots' : u <= snapshotKey[i]
        BY <2>1, <4>1, <4>2
      <4>4. snapshotKey[i] \in DOMAIN snapshots'
        BY <2>1
      <4> QED BY <4>3, <4>4 DEF HasLatest
    <3> QED BY <2>2, <3>1, <3>2, <3>3
  <2> QED BY <2>3, <2>4
<1> QED BY <1>1, <1>2, <1>4, <1>5

-----------------------------------------------------------------------------
(* Type correctness. *)

LEMMA TypeInit == Init => TypeInv
<1> SUFFICES ASSUME Init PROVE TypeInv
  OBVIOUS
<1>1. snapshots \in [{} -> Portfolios] /\ DOMAIN snapshots = {}
  BY DEF Init
<1>2. snapshots \in SnapshotTables
  BY <1>1 DEF SnapshotTables
<1>3. idempotency \in IdempotencyTables
  BY DEF Init, IdempotencyTables
<1>4. replica \in [risk : Nat, snapshots : SnapshotTables, idempotency : IdempotencyTables]
  BY <1>2, <1>3 DEF Init
<1>5. TypeOK
  BY <1>2, <1>3, <1>4, BoundAssumption DEF Init, TypeOK, Labels, Outcomes, Portfolios
<1>6. AttemptsLeft
  BY BoundAssumption DEF Init, AttemptsLeft
<1> QED BY <1>1, <1>5, <1>6 DEF Init, TypeInv, HasLatest

(* What every step does to the answers. *)
LEMMA AnswerType ==
  ASSUME TypeOK, NEW i \in Invocations, NEW o \in Outcomes, Answer(i, o)
  PROVE  /\ pc' \in [Invocations -> Labels]
         /\ outcome' \in [Invocations -> Outcomes]
         /\ result' \in [Invocations -> Invocations \cup {Missing}]
BY DEF TypeOK, Answer, Labels

LEMMA AnswerOrderType ==
  ASSUME TypeOK, NEW i \in Invocations, NEW r \in Invocations, AnswerOrder(i, r)
  PROVE  /\ pc' \in [Invocations -> Labels]
         /\ outcome' \in [Invocations -> Outcomes]
         /\ result' \in [Invocations -> Invocations \cup {Missing}]
BY DEF TypeOK, AnswerOrder, Labels, Outcomes

LEMMA GotoType ==
  ASSUME TypeOK, NEW i \in Invocations, NEW label \in Labels, Goto(i, label)
  PROVE  /\ pc' \in [Invocations -> Labels]
         /\ outcome' \in [Invocations -> Outcomes]
         /\ result' \in [Invocations -> Invocations \cup {Missing}]
BY DEF TypeOK, Goto

(* Only Retry counts, and it goes on only while attempts are left. *)
LEMMA StepAttempts ==
  ASSUME TypeInv, NEW i \in Invocations, Step(i)
  PROVE  AttemptsLeft'
<1> USE DEF Goto, Answer, AnswerOrder
<1>0. /\ pc \in [Invocations -> Labels]
      /\ attempt \in [Invocations -> 0..MaxAttempts]
      /\ \A j \in Invocations : pc[j] # "done" => attempt[j] < MaxAttempts
  BY DEF TypeInv, TypeOK, AttemptsLeft
<1>1. CASE LoadRisk(i) \/ LoadSnapshot(i) \/ PreValidationFails(i)
  BY <1>0, <1>1 DEF LoadRisk, LoadSnapshot, PreValidationFails, AttemptsLeft
<1>2. CASE LookupIdempotency(i)
  BY <1>0, <1>2 DEF LookupIdempotency, AttemptsLeft
<1>3. CASE ReadRisk(i) \/ InitRisk(i)
  BY <1>0, <1>3 DEF ReadRisk, InitRisk, AttemptsLeft
<1>4. CASE SizeAndBuild(i) \/ RiskRejects(i)
  BY <1>0, <1>4 DEF SizeAndBuild, RiskRejects, AttemptsLeft
<1>5. CASE TransactCommits(i) \/ TransactCancelled(i) \/ TransactRefused(i)
  BY <1>0, <1>5 DEF TransactCommits, TransactCancelled, TransactRefused, AttemptsLeft
<1>6. CASE TransactThrottled(i) \/ TransactReplyLost(i) \/ TransactDelayed(i)
  BY <1>0, <1>6 DEF TransactThrottled, TransactReplyLost, TransactDelayed, AttemptsLeft
<1>7. CASE CheckIdempotency(i)
  BY <1>0, <1>7 DEF CheckIdempotency, Retry, AttemptsLeft
<1>8. CASE ReportAndAnswer(i) \/ CallFails(i)
  BY <1>0, <1>8 DEF ReportAndAnswer, ReportLost, CallFails, AttemptsLeft
<1> QED BY <1>1, <1>2, <1>3, <1>4, <1>5, <1>6, <1>7, <1>8 DEF Step

(* Every step of an invocation keeps the types. *)
LEMMA StepType ==
  ASSUME TypeInv, NEW i \in Invocations, Step(i)
  PROVE  TypeInv'
<1> USE DEF external, table
<1>a. TypeOK
  BY DEF TypeInv
<1>b. AttemptsLeft'
  BY StepAttempts
<1>1. CASE LoadRisk(i)
  <2>1. riskSeen' \in [Invocations -> Nat]
    BY <1>1, ReadType DEF LoadRisk, TypeInv, TypeOK
  <2> QED BY <1>1, <1>b, <1>a, <2>1, GotoType DEF LoadRisk, TypeInv, TypeOK, HasLatest, Labels
<1>2. CASE LoadSnapshot(i)
  <2>1. portfolio' \in [Invocations -> Portfolios]
    <3>1. PICK s \in SnapshotReads :
            \/ UNCHANGED portfolio
            \/ portfolio' = [portfolio EXCEPT ![i] = LatestPortfolio(s)]
      BY <1>2 DEF LoadSnapshot
    <3>2. LatestPortfolio(s) \in Portfolios
      BY ReadType, LatestPortfolioType
    <3> QED BY <3>1, <3>2 DEF TypeInv, TypeOK
  <2>2. Answer(i, "SNAPSHOT_UNAVAILABLE") \/ Goto(i, "submit")
    BY <1>2 DEF LoadSnapshot
  <2>3. /\ pc' \in [Invocations -> Labels]
        /\ outcome' \in [Invocations -> Outcomes]
        /\ result' \in [Invocations -> Invocations \cup {Missing}]
    BY <1>a, <2>2, AnswerType, GotoType DEF Labels, Outcomes
  <2> QED BY <1>2, <1>b, <2>1, <2>3 DEF LoadSnapshot, TypeInv, TypeOK, HasLatest
<1>3. CASE PreValidationFails(i)
  <2>1. /\ pc' \in [Invocations -> Labels]
        /\ outcome' \in [Invocations -> Outcomes]
        /\ result' \in [Invocations -> Invocations \cup {Missing}]
    BY <1>3, <1>a, AnswerType DEF PreValidationFails, Outcomes, Rejections
  <2> QED BY <1>3, <1>b, <2>1 DEF PreValidationFails, TypeInv, TypeOK, HasLatest
<1>4. CASE LookupIdempotency(i)
  <2>1. PICK stored \in IdempotencyReads(Key(i)) :
          \/ stored # Missing /\ AnswerOrder(i, stored)
          \/ Answer(i, "IDEMPOTENCY_CONFLICT")
          \/ Answer(i, "REJECTED")
          \/ Goto(i, "read_risk")
    BY <1>4 DEF LookupIdempotency
  <2>2. stored # Missing => stored \in Invocations
    BY <1>a, <2>1, ReadType, KeyType
  <2>3. /\ pc' \in [Invocations -> Labels]
        /\ outcome' \in [Invocations -> Outcomes]
        /\ result' \in [Invocations -> Invocations \cup {Missing}]
    BY <1>a, <2>1, <2>2, AnswerType, AnswerOrderType, GotoType
       DEF Outcomes, Rejections, Labels
  <2> QED BY <1>4, <1>b, <2>3 DEF LookupIdempotency, TypeInv, TypeOK, HasLatest
<1>5. CASE ReadRisk(i)
  <2>1. expected' \in [Invocations -> Nat]
    BY <1>5, ReadType DEF ReadRisk, TypeInv, TypeOK
  <2>2. Goto(i, "size") \/ Goto(i, "init_risk") \/ Answer(i, "REJECTED")
    BY <1>5 DEF ReadRisk
  <2>3. /\ pc' \in [Invocations -> Labels]
        /\ outcome' \in [Invocations -> Outcomes]
        /\ result' \in [Invocations -> Invocations \cup {Missing}]
    BY <1>a, <2>2, AnswerType, GotoType DEF Outcomes, Rejections, Labels
  <2> QED BY <1>5, <1>b, <2>1, <2>3 DEF ReadRisk, TypeInv, TypeOK, HasLatest
<1>6. CASE InitRisk(i)
  <2>0. riskVersion \in Nat /\ expected \in [Invocations -> Nat]
    BY DEF TypeInv, TypeOK
  <2>1. riskVersion' \in Nat /\ expected' \in [Invocations -> Nat]
    BY <1>6, <2>0 DEF InitRisk
  <2>2. Goto(i, "size") \/ Answer(i, "ERROR")
    BY <1>6 DEF InitRisk
  <2>3. /\ pc' \in [Invocations -> Labels]
        /\ outcome' \in [Invocations -> Outcomes]
        /\ result' \in [Invocations -> Invocations \cup {Missing}]
    BY <1>a, <2>2, AnswerType, GotoType DEF Outcomes, Labels
  <2> QED BY <1>6, <1>b, <2>1, <2>3 DEF InitRisk, TypeInv, TypeOK, HasLatest
<1>7. CASE SizeAndBuild(i)
  <2>1. snapshotKey' \in [Invocations -> 0..MaxClock]
    BY <1>7 DEF SizeAndBuild, TypeInv, TypeOK
  <2> QED BY <1>7, <1>b, <1>a, <2>1, GotoType DEF SizeAndBuild, TypeInv, TypeOK, HasLatest, Labels
<1>8. CASE RiskRejects(i)
  BY <1>8, <1>a, <1>b, AnswerType DEF RiskRejects, TypeInv, TypeOK, HasLatest, Outcomes, Rejections
<1>9. CASE TransactCommits(i)
  BY <1>9, <1>a, <1>b, ApplyType, GotoType DEF TransactCommits, TypeInv, TypeOK, Labels
<1>10. CASE TransactCancelled(i)
  <2>1. \A listed : CancellationReason(i, listed) \in Outcomes
    BY DEF CancellationReason, Outcomes, Rejections
  <2> QED BY <1>10, <1>b, <1>a, <2>1, AnswerType DEF TransactCancelled, TypeInv, TypeOK, HasLatest
<1>11. CASE TransactRefused(i)
  BY <1>11, <1>a, <1>b, AnswerType
     DEF TransactRefused, TypeInv, TypeOK, HasLatest, Outcomes, Rejections
<1>12. CASE TransactThrottled(i)
  BY <1>12, <1>a, <1>b, GotoType DEF TransactThrottled, TypeInv, TypeOK, HasLatest, Labels
<1>13. CASE TransactReplyLost(i)
  <2>1. /\ pc' \in [Invocations -> Labels]
        /\ outcome' \in [Invocations -> Outcomes]
        /\ result' \in [Invocations -> Invocations \cup {Missing}]
    BY <1>13, <1>a, AnswerType, GotoType DEF TransactReplyLost, Labels, Outcomes, Rejections
  <2> QED BY <1>13, <1>b, <2>1, ApplyType DEF TransactReplyLost, TypeInv, TypeOK
<1>14. CASE TransactDelayed(i)
  BY <1>14, <1>a, <1>b, GotoType DEF TransactDelayed, TypeInv, TypeOK, HasLatest, Labels
<1>15. CASE CheckIdempotency(i)
  <2>0. attempt \in [Invocations -> 0..MaxAttempts] /\ MaxAttempts \in Nat
    BY BoundAssumption DEF TypeInv, TypeOK
  <2>1. attempt[i] + 1 \in 0..MaxAttempts
    BY <1>15, <2>0 DEF CheckIdempotency, TypeInv, AttemptsLeft
  <2>2. attempt' \in [Invocations -> 0..MaxAttempts]
    BY <1>15, <2>0, <2>1 DEF CheckIdempotency, Retry
  <2>3. Goto(i, "report") \/ Goto(i, "transact") \/ Answer(i, "REJECTED")
    BY <1>15 DEF CheckIdempotency, Retry
  <2>4. /\ pc' \in [Invocations -> Labels]
        /\ outcome' \in [Invocations -> Outcomes]
        /\ result' \in [Invocations -> Invocations \cup {Missing}]
    BY <1>a, <2>3, AnswerType, GotoType DEF Outcomes, Rejections, Labels
  <2> QED BY <1>15, <1>b, <2>2, <2>4 DEF CheckIdempotency, TypeInv, TypeOK, HasLatest
<1>16. CASE ReportAndAnswer(i)
  <2>1. AnswerOrder(i, i) /\ latestReport' \in Invocations \cup {Missing}
    BY <1>16 DEF ReportAndAnswer, ReportLost, TypeInv, TypeOK
  <2>2. portfolio' \in [Invocations -> Portfolios]
    BY <1>16 DEF ReportAndAnswer, Candidate, Portfolios, TypeInv, TypeOK
  <2> QED BY <1>16, <1>b, <1>a, <2>1, <2>2, AnswerOrderType
          DEF ReportAndAnswer, TypeInv, TypeOK, HasLatest
<1>17. CASE CallFails(i)
  <2>1. Answer(i, "ERROR") \/ Answer(i, "REJECTED")
    BY <1>17 DEF CallFails
  <2>2. /\ pc' \in [Invocations -> Labels]
        /\ outcome' \in [Invocations -> Outcomes]
        /\ result' \in [Invocations -> Invocations \cup {Missing}]
    BY <1>a, <2>1, AnswerType DEF Outcomes, Rejections
  <2> QED BY <1>17, <1>b, <2>2 DEF CallFails, TypeInv, TypeOK, HasLatest
<1> QED BY <1>1, <1>2, <1>3, <1>4, <1>5, <1>6, <1>7, <1>8, <1>9, <1>10, <1>11, <1>12,
           <1>13, <1>14, <1>15, <1>16, <1>17 DEF Step

LEMMA TypeNext == TypeInv /\ [Next]_vars => TypeInv'
<1> SUFFICES ASSUME TypeInv, [Next]_vars PROVE TypeInv'
  OBVIOUS
<1> USE DEF external, table
<1>1. ASSUME NEW i \in Invocations, Step(i) PROVE TypeInv'
  BY <1>1, StepType
<1>2. ASSUME NEW i \in Invocations, DeliverLate(i) PROVE TypeInv'
  <2>1. CASE Apply(i)
    BY <1>2, <2>1, ApplyType DEF DeliverLate, TypeInv, TypeOK, AttemptsLeft
  <2>2. CASE UNCHANGED <<table, commits>>
    BY <1>2, <2>2 DEF DeliverLate, TypeInv, TypeOK, AttemptsLeft, HasLatest
  <2> QED BY <1>2, <2>1, <2>2 DEF DeliverLate
<1>3. ASSUME NEW i \in Invocations, Crash(i) PROVE TypeInv'
  <2>1. late' \subseteq Invocations
    BY <1>3 DEF Crash, TypeInv, TypeOK
  <2> QED BY <1>3, <2>1 DEF Crash, Goto, Labels, TypeInv, TypeOK, AttemptsLeft, HasLatest
<1>4. CASE Replicate
  <2>1. /\ replica' \in [risk : Nat, snapshots : SnapshotTables,
                          idempotency : IdempotencyTables]
        /\ HasLatest(replica'.snapshots)
    BY <1>4 DEF Replicate, TypeInv, TypeOK
  <2> QED BY <1>4, <2>1 DEF Replicate, TypeInv, TypeOK, AttemptsLeft, HasLatest
<1>5. CASE Tick
  <2>1. clock' \in 0..MaxClock
    BY <1>5, BoundAssumption DEF Tick, TypeInv, TypeOK
  <2> QED BY <1>5, <2>1 DEF Tick, TypeInv, TypeOK, AttemptsLeft, HasLatest
<1>6. CASE UNCHANGED vars
  BY <1>6 DEF vars, TypeInv, TypeOK, AttemptsLeft, HasLatest
<1> QED BY <1>1, <1>2, <1>3, <1>4, <1>5, <1>6 DEF Next

(* Type correctness, for the state of the table and of every invocation. *)
THEOREM TypeCorrect == Spec => []TypeOK
<1>1. Init => TypeInv
  BY TypeInit
<1>2. TypeInv /\ [Next]_vars => TypeInv'
  BY TypeNext
<1>3. TypeInv => TypeOK
  BY DEF TypeInv
<1> QED BY <1>1, <1>2, <1>3, PTL DEF Spec

-----------------------------------------------------------------------------
(***************************************************************************)
(* The inductive invariant.  A transaction is conditioned on the version   *)
(* its invocation read, so of the transactions that can still take effect, *)
(* those that expect the current version were built after the last commit, *)
(* and their snapshot keys are at least as late as every stored one.       *)
(***************************************************************************)

(* Where an invocation is once its transaction has been built. *)
Past == {"transact", "check_idempotency", "report", "done"}

(* Its transaction may still be sent or arrive. *)
Pending(i) == pc[i] \in {"transact", "check_idempotency"} \/ i \in late

VersionInv ==
  /\ VersionCountsCommits
  /\ \A i \in Invocations : expected[i] <= riskVersion
  /\ replica.risk <= riskVersion

(* The key of a committed order stays claimed by it. *)
KeyInv == \A n \in 1..Len(commits) : idempotency[Key(commits[n])] = commits[n]

PhaseInv ==
  /\ \A n \in 1..Len(commits) : pc[commits[n]] \in Past
  /\ \A i \in late : pc[i] \in Past

TimeInv ==
  /\ \A t \in DOMAIN snapshots : t <= clock
  /\ \A i \in Invocations : snapshotKey[i] <= clock
  /\ \A i \in Invocations : Pending(i) /\ expected[i] = riskVersion =>
        \A t \in DOMAIN snapshots : t <= snapshotKey[i]

IInv == TypeInv /\ VersionInv /\ KeyInv /\ PhaseInv /\ TimeInv /\ LatestSnapshotIsLastCommit

-----------------------------------------------------------------------------
(* The steps, by what they do to the variables of the invariant. *)

core == <<riskVersion, snapshots, idempotency, commits, proposal, clock, replica>>
built == <<expected, snapshotKey, portfolio>>

(* Only the program counter of i moves, and i may leave its transaction behind. *)
Moves(i) ==
  /\ \A j \in Invocations : j # i => pc'[j] = pc[j]
  /\ pc[i] \in Past => pc'[i] \in Past
  /\ pc'[i] \in {"transact", "check_idempotency"} =>
       pc[i] \in {"transact", "check_idempotency", "size"}
  /\ \A j \in late' : j \in late \/ (j = i /\ pc[i] = "transact" /\ pc'[i] \in Past)

Quiet(i) ==
  /\ UNCHANGED <<core, built>>
  /\ Moves(i)
  /\ pc'[i] \in {"transact", "check_idempotency"} => pc[i] # "size"

(* The transaction of i takes effect. *)
Commits(i) ==
  /\ Applicable(i) /\ Apply(i)
  /\ Pending(i)
  /\ UNCHANGED <<proposal, clock, replica, built>>
  /\ Moves(i)
  /\ pc'[i] \in Past

LEMMA StepEffect ==
  ASSUME TypeInv, PhaseInv, NEW i \in Invocations, Step(i) \/ DeliverLate(i) \/ Crash(i)
  PROVE  \/ Quiet(i)
         \/ Commits(i)
         \/ LoadSnapshot(i) /\ Moves(i)
         \/ ReadRisk(i) /\ Moves(i)
         \/ InitRisk(i) /\ Moves(i)
         \/ SizeAndBuild(i) /\ Moves(i)
         \/ ReportAndAnswer(i) /\ Moves(i)
<1> USE DEF Goto, Answer, AnswerOrder, external, table, core, built, Moves, Quiet
<1>0. pc \in [Invocations -> Labels]
  BY DEF TypeInv, TypeOK
<1>1. CASE LoadRisk(i) \/ PreValidationFails(i) \/ LookupIdempotency(i) \/ RiskRejects(i)
  BY <1>0, <1>1 DEF LoadRisk, PreValidationFails, LookupIdempotency, RiskRejects, Past
<1>2. CASE LoadSnapshot(i)
  BY <1>0, <1>2 DEF LoadSnapshot, Past
<1>3. CASE ReadRisk(i)
  BY <1>0, <1>3 DEF ReadRisk, Past
<1>4. CASE InitRisk(i)
  BY <1>0, <1>4 DEF InitRisk, Past
<1>5. CASE SizeAndBuild(i)
  BY <1>0, <1>5 DEF SizeAndBuild, Past
<1>6. CASE TransactCommits(i)
  BY <1>0, <1>6 DEF TransactCommits, Commits, Pending, Past
<1>7. CASE TransactReplyLost(i)
  BY <1>0, <1>7 DEF TransactReplyLost, Commits, Pending, Past
<1>8. CASE TransactCancelled(i) \/ TransactRefused(i) \/ TransactThrottled(i)
  BY <1>0, <1>8 DEF TransactCancelled, TransactRefused, TransactThrottled, Past
<1>9. CASE TransactDelayed(i)
  BY <1>0, <1>9 DEF TransactDelayed, Past
<1>10. CASE CheckIdempotency(i)
  BY <1>0, <1>10 DEF CheckIdempotency, Retry, Past
<1>11. CASE ReportAndAnswer(i)
  BY <1>0, <1>11 DEF ReportAndAnswer, ReportLost, Past
<1>12. CASE CallFails(i)
  BY <1>0, <1>12 DEF CallFails, Past
<1>13. CASE DeliverLate(i)
  BY <1>0, <1>13 DEF DeliverLate, Commits, Pending, PhaseInv
<1>14. CASE Crash(i)
  BY <1>0, <1>14 DEF Crash, Past
<1> QED BY <1>1, <1>2, <1>3, <1>4, <1>5, <1>6, <1>7, <1>8, <1>9, <1>10, <1>11, <1>12,
           <1>13, <1>14 DEF Step

-----------------------------------------------------------------------------
(* One lemma per conjunct of the invariant, by cases on the effect of a step. *)

LEMMA VersionNext ==
  ASSUME TypeInv, VersionInv, NEW i \in Invocations,
         \/ Quiet(i) \/ Commits(i) \/ LoadSnapshot(i) \/ ReadRisk(i)
         \/ InitRisk(i) \/ SizeAndBuild(i) \/ ReportAndAnswer(i)
  PROVE  VersionInv'
<1> USE DEF core, built, table, external
<1>0. /\ riskVersion \in Nat /\ expected \in [Invocations -> Nat]
      /\ replica.risk \in Nat /\ commits \in Seq(Invocations)
  BY DEF TypeInv, TypeOK
<1>1. CASE Quiet(i)
  BY <1>1 DEF Quiet, VersionInv, VersionCountsCommits
<1>2. CASE Commits(i)
  <2>1. riskVersion # 0 /\ riskVersion = expected[i] /\ riskVersion' = riskVersion + 1
    BY <1>2 DEF Commits, Applicable, VersionMoved, Apply
  <2>2. commits' = Append(commits, i) /\ expected' = expected /\ replica' = replica
    BY <1>2 DEF Commits, Apply
  <2>3. Len(commits') = Len(commits) + 1
    BY <1>0, <2>2
  <2> QED BY <1>0, <2>1, <2>2, <2>3 DEF VersionInv, VersionCountsCommits
<1>3. CASE LoadSnapshot(i)
  BY <1>3 DEF LoadSnapshot, VersionInv, VersionCountsCommits
<1>4. CASE ReadRisk(i)
  <2>1. \A v \in RiskReads : v <= riskVersion
    BY <1>0 DEF RiskReads, VersionInv
  <2> QED BY <1>0, <1>4, <2>1 DEF ReadRisk, VersionInv, VersionCountsCommits
<1>5. CASE InitRisk(i)
  <2>1. CASE UNCHANGED <<riskVersion, expected>>
    BY <1>5, <2>1 DEF InitRisk, VersionInv, VersionCountsCommits
  <2>2. CASE riskVersion = 0 /\ riskVersion' = 1
    <3>1. commits' = <<>> /\ Len(commits') = 0 /\ replica' = replica
      BY <1>5, <2>2 DEF InitRisk, VersionInv, VersionCountsCommits
    <3>2. \A j \in Invocations : expected'[j] <= 1
      BY <1>0, <1>5, <2>2 DEF InitRisk, VersionInv
    <3> QED BY <1>0, <2>2, <3>1, <3>2 DEF VersionInv, VersionCountsCommits
  <2> QED BY <1>5, <2>1, <2>2 DEF InitRisk
<1>6. CASE SizeAndBuild(i)
  BY <1>6 DEF SizeAndBuild, VersionInv, VersionCountsCommits
<1>7. CASE ReportAndAnswer(i)
  BY <1>7 DEF ReportAndAnswer, VersionInv, VersionCountsCommits
<1> QED BY <1>1, <1>2, <1>3, <1>4, <1>5, <1>6, <1>7

LEMMA KeyNext ==
  ASSUME TypeInv, KeyInv, NEW i \in Invocations,
         \/ Quiet(i) \/ Commits(i) \/ LoadSnapshot(i) \/ ReadRisk(i)
         \/ InitRisk(i) \/ SizeAndBuild(i) \/ ReportAndAnswer(i)
  PROVE  KeyInv'
<1> USE DEF core, built, table, external
<1>1. CASE Commits(i)
  <2>0. /\ commits \in Seq(Invocations) /\ idempotency \in IdempotencyTables
        /\ Key(i) \in Keys
    BY KeyType DEF TypeInv, TypeOK
  <2>1. /\ idempotency[Key(i)] = Missing
        /\ idempotency' = [idempotency EXCEPT ![Key(i)] = i]
        /\ commits' = Append(commits, i)
        /\ proposal' = proposal
    BY <1>1 DEF Commits, Applicable, KeyTaken, Apply
  <2>2. ASSUME NEW n \in 1..Len(commits')
        PROVE  idempotency'[Key(commits'[n])] = commits'[n]
    <3>1. CASE n = Len(commits) + 1
      BY <2>0, <2>1, <3>1 DEF IdempotencyTables
    <3>2. CASE n \in 1..Len(commits)
      <4>1. commits'[n] = commits[n] /\ commits[n] \in Invocations
        BY <2>0, <2>1, <3>2
      <4>2. idempotency[Key(commits[n])] = commits[n]
        BY <3>2 DEF KeyInv
      <4>3. Key(commits[n]) # Key(i)
        BY <2>1, <4>1, <4>2, MissingAssumption
      <4>4. Key(commits[n]) \in Keys
        BY <4>1, KeyType DEF TypeInv
      <4> QED BY <2>0, <2>1, <4>1, <4>2, <4>3, <4>4 DEF IdempotencyTables
    <3> QED BY <2>0, <2>1, <3>1, <3>2
  <2> QED BY <2>1, <2>2 DEF KeyInv, Key
<1>2. CASE ~Commits(i)
  <2>1. UNCHANGED <<idempotency, commits, proposal>>
    BY <1>2 DEF Quiet, LoadSnapshot, ReadRisk, InitRisk, SizeAndBuild, ReportAndAnswer
  <2> QED BY <2>1 DEF KeyInv, Key
<1> QED BY <1>1, <1>2

LEMMA PhaseNext ==
  ASSUME TypeInv, PhaseInv, NEW i \in Invocations, Moves(i),
         \/ Quiet(i) \/ Commits(i) \/ LoadSnapshot(i) \/ ReadRisk(i)
         \/ InitRisk(i) \/ SizeAndBuild(i) \/ ReportAndAnswer(i)
  PROVE  PhaseInv'
<1> USE DEF core, built, table, external
<1>0. commits \in Seq(Invocations) /\ late \subseteq Invocations
  BY DEF TypeInv, TypeOK
<1>1. \A j \in Invocations : pc[j] \in Past => pc'[j] \in Past
  BY DEF Moves
<1>2. \A j \in late' : pc'[j] \in Past
  BY <1>0, <1>1 DEF Moves, PhaseInv
<1>3. CASE Commits(i)
  <2>1. commits' = Append(commits, i) /\ pc'[i] \in Past
    BY <1>3 DEF Commits, Apply
  <2>2. ASSUME NEW n \in 1..Len(commits') PROVE pc'[commits'[n]] \in Past
    <3>1. CASE n = Len(commits) + 1
      BY <1>0, <2>1, <3>1
    <3>2. CASE n \in 1..Len(commits)
      BY <1>0, <1>1, <2>1, <3>2 DEF PhaseInv
    <3> QED BY <1>0, <2>1, <3>1, <3>2
  <2> QED BY <1>2, <2>2 DEF PhaseInv
<1>4. CASE ~Commits(i)
  <2>1. commits' = commits
    BY <1>4 DEF Quiet, LoadSnapshot, ReadRisk, InitRisk, SizeAndBuild, ReportAndAnswer
  <2> QED BY <1>0, <1>1, <1>2, <2>1 DEF PhaseInv
<1> QED BY <1>3, <1>4

LEMMA TimesAreNumbers ==
  ASSUME TypeOK
  PROVE  /\ clock \in Int
         /\ \A t \in DOMAIN snapshots : t \in Int
         /\ \A i \in Invocations : snapshotKey[i] \in Int
<1>1. \A t \in 0..MaxClock : t \in Int
  BY BoundAssumption
<1>2. clock \in 0..MaxClock /\ snapshotKey \in [Invocations -> 0..MaxClock]
  BY DEF TypeOK
<1>3. PICK T \in SUBSET (0..MaxClock) : snapshots \in [T -> Portfolios]
  BY DEF TypeOK, SnapshotTables
<1>4. DOMAIN snapshots = T
  BY <1>3
<1>5. \A t \in DOMAIN snapshots : t \in 0..MaxClock
  BY <1>3, <1>4
<1>6. \A i \in Invocations : snapshotKey[i] \in 0..MaxClock
  BY <1>2
<1> QED BY <1>1, <1>2, <1>5, <1>6, Zenon

(* Of a transaction that takes effect, the snapshot key is the newest. *)
LEMMA NewestKey ==
  ASSUME TypeInv, TimeInv, NEW i \in Invocations, Commits(i)
  PROVE  /\ DOMAIN snapshots' = DOMAIN snapshots \cup {snapshotKey[i]}
         /\ \A t \in DOMAIN snapshots' : t <= snapshotKey[i]
         /\ LatestKey(snapshots') = snapshotKey[i]
<1>0. snapshotKey[i] \in Int /\ \A t \in DOMAIN snapshots : t \in Int
  BY TimesAreNumbers DEF TypeInv
<1>1. DOMAIN snapshots' = DOMAIN snapshots \cup {snapshotKey[i]}
  BY DEF Commits, Apply
<1>2. \A t \in DOMAIN snapshots : t <= snapshotKey[i]
  BY DEF Commits, Applicable, VersionMoved, TimeInv
<1>3. \A t \in DOMAIN snapshots' : t <= snapshotKey[i] /\ t \in Int
  BY <1>0, <1>1, <1>2
<1>4. snapshotKey[i] \in DOMAIN snapshots'
  BY <1>1
<1>5. LatestKey(snapshots') \in DOMAIN snapshots' /\ snapshotKey[i] <= LatestKey(snapshots')
  BY <1>3, <1>4 DEF LatestKey
<1>6. LatestKey(snapshots') = snapshotKey[i]
  BY <1>0, <1>3, <1>5
<1> QED BY <1>1, <1>3, <1>6

LEMMA TimeNext ==
  ASSUME TypeInv, VersionInv, PhaseInv, TimeInv, NEW i \in Invocations, Moves(i),
         \/ Quiet(i) \/ Commits(i) \/ LoadSnapshot(i) \/ ReadRisk(i)
         \/ InitRisk(i) \/ SizeAndBuild(i) \/ ReportAndAnswer(i)
  PROVE  TimeInv'
<1> USE DEF core, built, table, external
<1>0. /\ riskVersion \in Nat /\ expected \in [Invocations -> Nat]
      /\ snapshotKey \in [Invocations -> 0..MaxClock]
      /\ \A j \in Invocations : expected[j] <= riskVersion
      /\ late \subseteq Invocations
  BY DEF TypeInv, TypeOK, VersionInv
<1>1. \A j \in Invocations : Pending(j)' => Pending(j) \/ (j = i /\ pc[i] = "size")
  BY DEF Moves, Pending
<1>2. CASE Commits(i)
  <2>1. riskVersion' = riskVersion + 1 /\ UNCHANGED <<expected, snapshotKey, clock>>
    BY <1>2 DEF Commits, Applicable, VersionMoved, Apply
  <2>2. \A j \in Invocations : expected'[j] # riskVersion'
    BY <1>0, <2>1
  <2>3. \A t \in DOMAIN snapshots' : t <= clock'
    BY <1>2, <2>1, NewestKey DEF TimeInv
  <2> QED BY <2>1, <2>2, <2>3 DEF TimeInv
<1>3. CASE SizeAndBuild(i)
  <2>1. snapshotKey' = [snapshotKey EXCEPT ![i] = clock]
        /\ UNCHANGED <<riskVersion, snapshots, expected, clock>>
    BY <1>3 DEF SizeAndBuild
  <2>2. clock <= clock
    BY BoundAssumption DEF TypeInv, TypeOK
  <2>3. \A j \in Invocations : snapshotKey'[j] <= clock
    BY <1>0, <2>1, <2>2 DEF TimeInv
  <2>4. ASSUME NEW j \in Invocations, Pending(j)', expected[j] = riskVersion
        PROVE  \A t \in DOMAIN snapshots : t <= snapshotKey'[j]
    BY <1>0, <1>1, <2>1, <2>4 DEF TimeInv
  <2> QED BY <2>1, <2>3, <2>4 DEF TimeInv
<1>4. CASE ReadRisk(i)
  <2>1. pc[i] = "read_risk" /\ UNCHANGED <<riskVersion, snapshots, snapshotKey, clock>>
        /\ \A j \in Invocations : j # i => expected'[j] = expected[j]
    BY <1>0, <1>4 DEF ReadRisk
  <2>2. ~Pending(i)'
    BY <1>1, <2>1 DEF Pending, PhaseInv, Past
  <2>3. \A j \in Invocations : Pending(j)' => j # i /\ Pending(j)
    BY <1>1, <2>1, <2>2
  <2> QED BY <2>1, <2>3 DEF TimeInv
<1>5. CASE InitRisk(i)
  <2>1. pc[i] = "init_risk" /\ UNCHANGED <<snapshots, snapshotKey, clock>>
        /\ \A j \in Invocations : j # i => expected'[j] = expected[j]
    BY <1>0, <1>5 DEF InitRisk
  <2>2. ~Pending(i)'
    BY <1>1, <2>1 DEF Pending, PhaseInv, Past
  <2>3. \A j \in Invocations : Pending(j)' => j # i /\ Pending(j)
    BY <1>1, <2>1, <2>2
  <2>4. riskVersion' = riskVersion \/ (riskVersion = 0 /\ riskVersion' = 1)
    BY <1>5 DEF InitRisk
  <2>5. \A j \in Invocations : Pending(j)' /\ expected'[j] = riskVersion' =>
                                 expected[j] = riskVersion
    BY <1>0, <2>1, <2>3, <2>4
  <2> QED BY <2>1, <2>3, <2>5 DEF TimeInv
<1>6. CASE Quiet(i) \/ LoadSnapshot(i) \/ ReportAndAnswer(i)
  <2>1. UNCHANGED <<riskVersion, snapshots, snapshotKey, clock, expected>>
    BY <1>6 DEF Quiet, LoadSnapshot, ReportAndAnswer
  <2>2. \A j \in Invocations : Pending(j)' => Pending(j)
    BY <1>1, <1>6 DEF Quiet, Moves, Pending, LoadSnapshot, ReportAndAnswer
  <2> QED BY <2>1, <2>2 DEF TimeInv
<1> QED BY <1>2, <1>3, <1>4, <1>5, <1>6

LEMMA LatestNext ==
  ASSUME TypeInv, PhaseInv, TimeInv, LatestSnapshotIsLastCommit, NEW i \in Invocations,
         \/ Quiet(i) \/ Commits(i) \/ LoadSnapshot(i) \/ ReadRisk(i)
         \/ InitRisk(i) \/ SizeAndBuild(i) \/ ReportAndAnswer(i)
  PROVE  LatestSnapshotIsLastCommit'
<1> USE DEF core, built, table, external
<1>0. commits \in Seq(Invocations) /\ portfolio \in [Invocations -> Portfolios]
  BY DEF TypeInv, TypeOK
<1>1. CASE Commits(i)
  <2>1. commits' = Append(commits, i) /\ portfolio' = portfolio
    BY <1>1 DEF Commits, Apply
  <2>2. commits' # <<>> /\ commits'[Len(commits')] = i
    BY <1>0, <2>1
  <2>3. LatestPortfolio(snapshots') = snapshots'[snapshotKey[i]]
    BY <1>1, NewestKey DEF LatestPortfolio
  <2>4. snapshots'[snapshotKey[i]] = Candidate(i)
    BY <1>1 DEF Commits, Apply
  <2> QED BY <2>1, <2>2, <2>3, <2>4 DEF LatestSnapshotIsLastCommit, Candidate
<1>2. CASE ~Commits(i)
  <2>1. UNCHANGED <<snapshots, commits>>
    BY <1>2 DEF Quiet, LoadSnapshot, ReadRisk, InitRisk, SizeAndBuild, ReportAndAnswer
  <2>2. ASSUME commits # <<>>
        PROVE  Candidate(commits[Len(commits)])' = Candidate(commits[Len(commits)])
    <3> DEFINE last == commits[Len(commits)]
    <3>1. Len(commits) \in 1..Len(commits) /\ last \in Invocations
      BY <1>0, <2>2
    <3>2. pc[last] \in Past
      BY <3>1 DEF PhaseInv
    <3>3. CASE LoadSnapshot(i)
      <4>1. last # i
        BY <3>2, <3>3 DEF LoadSnapshot, Past
      <4>2. portfolio'[last] = portfolio[last]
        BY <1>0, <3>1, <3>3, <4>1 DEF LoadSnapshot
      <4> QED BY <2>1, <4>2 DEF Candidate
    <3>4. CASE ReportAndAnswer(i)
      <4>1. portfolio' = [portfolio EXCEPT ![i] = portfolio[i] \cup {i}]
        BY <3>4 DEF ReportAndAnswer, Candidate
      <4>2. portfolio'[last] \cup {last} = portfolio[last] \cup {last}
        BY <1>0, <3>1, <4>1
      <4> QED BY <2>1, <4>2 DEF Candidate
    <3>5. CASE Quiet(i) \/ ReadRisk(i) \/ InitRisk(i) \/ SizeAndBuild(i)
      <4>1. portfolio' = portfolio
        BY <3>5 DEF Quiet, ReadRisk, InitRisk, SizeAndBuild
      <4> QED BY <2>1, <4>1 DEF Candidate
    <3> QED BY <1>2, <3>3, <3>4, <3>5
  <2> QED BY <2>1, <2>2 DEF LatestSnapshotIsLastCommit
<1> QED BY <1>1, <1>2

-----------------------------------------------------------------------------
(* The invariant is inductive. *)

LEMMA InvInit == Init => IInv
<1> SUFFICES ASSUME Init PROVE IInv
  OBVIOUS
<1>1. TypeInv
  BY TypeInit
<1>2. riskVersion = 0 /\ commits = <<>> /\ Len(commits) = 0 /\ DOMAIN snapshots = {}
  BY DEF Init
<1>3. VersionInv
  BY <1>2 DEF Init, VersionInv, VersionCountsCommits
<1>4. KeyInv /\ PhaseInv
  BY <1>2 DEF Init, KeyInv, PhaseInv
<1>5. TimeInv
  BY <1>2 DEF Init, TimeInv
<1>6. LatestSnapshotIsLastCommit
  BY <1>2 DEF LatestSnapshotIsLastCommit
<1> QED BY <1>1, <1>3, <1>4, <1>5, <1>6 DEF IInv

LEMMA InvNext == IInv /\ [Next]_vars => IInv'
<1> SUFFICES ASSUME IInv, [Next]_vars PROVE IInv'
  OBVIOUS
<1>0. TypeInv'
  BY TypeNext DEF IInv
<1>1. ASSUME NEW i \in Invocations, Step(i) \/ DeliverLate(i) \/ Crash(i)
      PROVE  IInv'
  <2>1. /\ Moves(i)
        /\ \/ Quiet(i) \/ Commits(i) \/ LoadSnapshot(i) \/ ReadRisk(i)
           \/ InitRisk(i) \/ SizeAndBuild(i) \/ ReportAndAnswer(i)
    BY <1>1, StepEffect DEF IInv, Quiet, Commits
  <2>2. VersionInv'
    BY <2>1, VersionNext DEF IInv
  <2>3. KeyInv'
    BY <2>1, KeyNext DEF IInv
  <2>4. PhaseInv'
    BY <2>1, PhaseNext DEF IInv
  <2>5. TimeInv'
    BY <2>1, TimeNext DEF IInv
  <2>6. LatestSnapshotIsLastCommit'
    BY <2>1, LatestNext DEF IInv
  <2> QED BY <1>0, <2>2, <2>3, <2>4, <2>5, <2>6 DEF IInv
<1>2. CASE Replicate
  <2>1. /\ UNCHANGED <<riskVersion, snapshots, idempotency, commits, proposal, clock, pc,
                       late, expected, snapshotKey, portfolio>>
        /\ replica'.risk \in {replica.risk, riskVersion}
    BY <1>2 DEF Replicate, table, IInv, TypeInv, TypeOK
  <2>2. VersionInv'
    BY <2>1 DEF IInv, VersionInv, VersionCountsCommits, TypeInv, TypeOK
  <2>3. KeyInv' /\ PhaseInv' /\ TimeInv'
    BY <2>1 DEF IInv, KeyInv, PhaseInv, TimeInv, Pending, Key
  <2>4. LatestSnapshotIsLastCommit'
    BY <2>1 DEF IInv, LatestSnapshotIsLastCommit, Candidate
  <2> QED BY <1>0, <2>2, <2>3, <2>4 DEF IInv
<1>3. CASE Tick
  <2>1. /\ UNCHANGED <<riskVersion, snapshots, idempotency, commits, proposal, pc, replica,
                       late, expected, snapshotKey, portfolio>>
        /\ clock' = clock + 1
    BY <1>3 DEF Tick, table
  <2>2. VersionInv' /\ KeyInv' /\ PhaseInv' /\ LatestSnapshotIsLastCommit'
    BY <2>1 DEF IInv, VersionInv, VersionCountsCommits, KeyInv, PhaseInv, Key,
                LatestSnapshotIsLastCommit, Candidate
  <2>3. TimeInv'
    <3>1. /\ clock \in Int
          /\ \A t \in DOMAIN snapshots : t \in Int /\ t <= clock
          /\ \A i \in Invocations : snapshotKey[i] \in Int /\ snapshotKey[i] <= clock
      BY TimesAreNumbers DEF IInv, TypeInv, TimeInv
    <3>2. \A t \in DOMAIN snapshots : t <= clock + 1
      BY <3>1
    <3>3. \A i \in Invocations : snapshotKey[i] <= clock + 1
      BY <3>1
    <3> QED BY <2>1, <3>2, <3>3 DEF IInv, TimeInv, Pending
  <2> QED BY <1>0, <2>2, <2>3 DEF IInv
<1>4. CASE UNCHANGED vars
  <2>1. UNCHANGED <<riskVersion, snapshots, idempotency, commits, proposal, clock, pc,
                    replica, late, expected, snapshotKey, portfolio>>
    BY <1>4 DEF vars, table
  <2>2. VersionInv' /\ KeyInv' /\ PhaseInv' /\ TimeInv' /\ LatestSnapshotIsLastCommit'
    BY <2>1 DEF IInv, VersionInv, VersionCountsCommits, KeyInv, PhaseInv, TimeInv, Pending,
                Key, LatestSnapshotIsLastCommit, Candidate
  <2> QED BY <1>0, <2>2 DEF IInv
<1> QED BY <1>1, <1>2, <1>3, <1>4 DEF Next

THEOREM Invariance == Spec => []IInv
BY InvInit, InvNext, PTL DEF Spec

(* No two committed orders consumed the same version of the risk state, under
   any combination of faults. *)
THEOREM VersionSafety == Spec => []VersionCountsCommits
<1>1. IInv => VersionCountsCommits
  BY DEF IInv, VersionInv
<1> QED BY <1>1, Invariance, PTL

(* A run that reads the newest snapshot item reads the one of the last commit,
   although its sort key was chosen before the transaction was sent. *)
THEOREM SnapshotSafety == Spec => []LatestSnapshotIsLastCommit
<1>1. IInv => LatestSnapshotIsLastCommit
  BY DEF IInv
<1> QED BY <1>1, Invariance, PTL

-----------------------------------------------------------------------------
(* The table implements TradeLedger: each step appends an order under a key no
   order of the log has, or leaves the log as it is. *)

LEMMA LedgerInit == Init => Ledger!Init
BY DEF Init, Ledger!Init, LogEntries

LEMMA LedgerCommit ==
  ASSUME TypeOK, KeyInv, NEW i \in Invocations, Commits(i)
  PROVE  Ledger!Commit(i, proposal[i])
<1>0. /\ commits \in Seq(Invocations) /\ proposal \in [Invocations -> Proposals]
  BY DEF TypeOK
<1>1. /\ idempotency[Key(i)] = Missing
      /\ commits' = Append(commits, i) /\ proposal' = proposal
  BY DEF Commits, Applicable, KeyTaken, Apply
<1>2. Len(LogEntries) = Len(commits)
  BY <1>0 DEF LogEntries
<1>3. ASSUME NEW n \in 1..Len(commits)
      PROVE  /\ LogEntries[n].order # i
             /\ KeyOf[LogEntries[n].proposal] # KeyOf[proposal[i]]
  <2>1. commits[n] \in Invocations /\ idempotency[Key(commits[n])] = commits[n]
    BY <1>0 DEF KeyInv
  <2>2. Key(commits[n]) # Key(i)
    BY <1>1, <2>1, MissingAssumption
  <2> QED BY <2>2 DEF LogEntries, Key
<1>4. LogEntries' = Append(LogEntries, [order |-> i, proposal |-> proposal[i]])
  BY <1>0, <1>1 DEF LogEntries
<1> QED BY <1>2, <1>3, <1>4 DEF Ledger!Commit

LEMMA LedgerNext == IInv /\ [Next]_vars => [Ledger!Next]_LogEntries
<1> SUFFICES ASSUME IInv, [Next]_vars PROVE [Ledger!Next]_LogEntries
  OBVIOUS
<1>0. /\ commits \in Seq(Invocations) /\ proposal \in [Invocations -> Proposals]
  BY DEF IInv, TypeInv, TypeOK
<1>1. ASSUME NEW i \in Invocations, Commits(i) PROVE Ledger!Commit(i, proposal[i])
  BY <1>1, LedgerCommit DEF IInv, TypeInv
<1>2. ASSUME UNCHANGED <<commits, proposal>> PROVE UNCHANGED LogEntries
  BY <1>2 DEF LogEntries
<1>3. ASSUME NEW i \in Invocations, Step(i) \/ DeliverLate(i) \/ Crash(i)
      PROVE  [Ledger!Next]_LogEntries
  <2>1. CASE Commits(i)
    BY <1>0, <1>1, <2>1 DEF Ledger!Next
  <2>2. CASE ~Commits(i)
    <3>1. UNCHANGED <<commits, proposal>>
      BY <1>3, <2>2, StepEffect
         DEF IInv, Quiet, core, LoadSnapshot, ReadRisk, InitRisk, SizeAndBuild, ReportAndAnswer
    <3> QED BY <1>2, <3>1
  <2> QED BY <2>1, <2>2
<1>4. CASE Replicate \/ Tick \/ UNCHANGED vars
  BY <1>2, <1>4 DEF Replicate, Tick, vars
<1> QED BY <1>3, <1>4 DEF Next

(* Whatever the invocations, the callers' retries and the faults, an idempotency
   key commits at most one order and a committed order is never taken back. *)
THEOREM LedgerRefinement == Spec => ImplementsLedger
<1>1. Spec => []IInv
  BY Invariance
<1> QED BY <1>1, LedgerInit, LedgerNext, PTL DEF Spec, ImplementsLedger, Ledger!Spec

-----------------------------------------------------------------------------
(***************************************************************************)
(* A rejection is final unless a write can take effect without its caller  *)
(* knowing: then, and only then, the answer of an invocation and the table *)
(* may disagree (run rejected_yet_committed).                              *)
(***************************************************************************)

(* A committed order's invocation is answering, or has answered, COMMITTED. *)
AnswerInv ==
  /\ late = {}
  /\ \A i \in Invocations : pc[i] # "done" => outcome[i] = "NONE"
  /\ \A n \in 1..Len(commits) : /\ pc[commits[n]] \in {"report", "done"}
                                /\ outcome[commits[n]] \notin Rejections

LEMMA AnswerStep ==
  ASSUME "lostReply" \notin Faults, "late" \notin Faults, TypeInv, AnswerInv,
         NEW i \in Invocations, Step(i) \/ DeliverLate(i) \/ Crash(i)
  PROVE  AnswerInv'
<1> USE DEF Goto, Answer, AnswerOrder, external, table
<1>0. /\ pc \in [Invocations -> Labels] /\ outcome \in [Invocations -> Outcomes]
      /\ commits \in Seq(Invocations)
      /\ \A j \in Invocations : pc[j] # "done" => outcome[j] = "NONE"
      /\ late = {}
  BY DEF TypeInv, TypeOK, AnswerInv
<1>1. \A n \in 1..Len(commits) : /\ commits[n] \in Invocations
                                 /\ pc[commits[n]] \in {"report", "done"}
                                 /\ outcome[commits[n]] \notin Rejections
  BY <1>0 DEF AnswerInv
<1>2. CASE TransactCommits(i)
  <2>1. commits' = Append(commits, i) /\ late' = {} /\ outcome' = outcome
        /\ pc[i] = "transact" /\ pc' = [pc EXCEPT ![i] = "report"]
    BY <1>0, <1>2 DEF TransactCommits, Apply
  <2>2. ASSUME NEW n \in 1..Len(commits')
        PROVE  /\ pc'[commits'[n]] \in {"report", "done"}
               /\ outcome'[commits'[n]] \notin Rejections
    <3>1. CASE n = Len(commits) + 1
      BY <1>0, <2>1, <3>1 DEF Rejections
    <3>2. CASE n \in 1..Len(commits)
      BY <1>0, <1>1, <2>1, <3>2
    <3> QED BY <1>0, <2>1, <3>1, <3>2
  <2> QED BY <1>0, <2>1, <2>2 DEF AnswerInv
<1>3. CASE LoadRisk(i) \/ LoadSnapshot(i) \/ PreValidationFails(i) \/ LookupIdempotency(i)
  BY <1>0, <1>1, <1>3
     DEF LoadRisk, LoadSnapshot, PreValidationFails, LookupIdempotency, AnswerInv, Rejections
<1>4. CASE ReadRisk(i) \/ InitRisk(i) \/ SizeAndBuild(i) \/ RiskRejects(i)
  BY <1>0, <1>1, <1>4 DEF ReadRisk, InitRisk, SizeAndBuild, RiskRejects, AnswerInv, Rejections
<1>5. CASE TransactCancelled(i) \/ TransactRefused(i) \/ TransactThrottled(i)
  BY <1>0, <1>1, <1>5 DEF TransactCancelled, TransactRefused, TransactThrottled, AnswerInv
<1>6. CASE CheckIdempotency(i)
  BY <1>0, <1>1, <1>6 DEF CheckIdempotency, Retry, AnswerInv
<1>7. CASE ReportAndAnswer(i) \/ CallFails(i)
  BY <1>0, <1>1, <1>7 DEF ReportAndAnswer, ReportLost, CallFails, AnswerInv, Rejections
<1>8. CASE Crash(i)
  BY <1>0, <1>1, <1>8 DEF Crash, AnswerInv
<1>9. ~TransactReplyLost(i) /\ ~TransactDelayed(i) /\ ~DeliverLate(i)
  BY <1>0 DEF TransactReplyLost, TransactDelayed, DeliverLate
<1> QED BY <1>2, <1>3, <1>4, <1>5, <1>6, <1>7, <1>8, <1>9 DEF Step

(* If every write either takes effect and is acknowledged or has no effect, an
   order answered with a rejection is not in the ledger and never will be. *)
THEOREM RejectionSafety ==
  ASSUME "lostReply" \notin Faults, "late" \notin Faults
  PROVE  Spec => []RejectedNeverCommits
<1>1. Init => AnswerInv
  BY DEF Init, AnswerInv
<1>2. TypeInv /\ AnswerInv /\ [Next]_vars => AnswerInv'
  <2> SUFFICES ASSUME TypeInv, AnswerInv, [Next]_vars PROVE AnswerInv'
    OBVIOUS
  <2>1. ASSUME NEW i \in Invocations, Step(i) \/ DeliverLate(i) \/ Crash(i) PROVE AnswerInv'
    BY <2>1, AnswerStep
  <2>2. CASE Replicate \/ Tick \/ UNCHANGED vars
    BY <2>2 DEF Replicate, Tick, vars, AnswerInv
  <2> QED BY <2>1, <2>2 DEF Next
<1>3. AnswerInv => RejectedNeverCommits
  BY DEF AnswerInv, RejectedNeverCommits, Committed
<1> QED BY <1>1, <1>2, <1>3, TypeInit, TypeNext, PTL DEF Spec

=============================================================================
