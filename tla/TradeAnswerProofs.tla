------------------------- MODULE TradeAnswerProofs -------------------------
(***************************************************************************)
(* What the answers of TradeCommit mean: that a named conflict is final,    *)
(* the portfolio that can always be loaded, the order a COMMITTED names,   *)
(* and the account that the committed trades make.                         *)
(***************************************************************************)
EXTENDS TradeCommitProofs, FiniteSetTheorems

-----------------------------------------------------------------------------
(***************************************************************************)
(* Reasons, under every fault.  A key is claimed once and for all, also as *)
(* a lagging replica sees it, and the version of the risk state only       *)
(* grows, so a cause once met stays.                                       *)
(***************************************************************************)

OutcomeInv == \A i \in Invocations : pc[i] # "done" => outcome[i] = "NONE"

(* The invocation a key is claimed by has used up the version it expected. *)
ClaimInv ==
  \A k \in Keys : idempotency[k] # Missing =>
    pc[idempotency[k]] \in Past /\ expected[idempotency[k]] < riskVersion

(* A replica is behind, but not wrong. *)
ReplicaInv ==
  /\ \A k \in Keys : replica.idempotency[k] \in {Missing, idempotency[k]}
  /\ DOMAIN replica.snapshots # {} => riskVersion > 0

(* Only beside a risk state is a portfolio established, and without a risk state
   to expect none is built on. *)
EstablishedInv ==
  /\ \A i \in Invocations : pc[i] # "done" /\ portfolio[i] # {} => riskVersion > 0
  /\ \A i \in Invocations : pc[i] \in {"size", "transact", "check_idempotency"} =>
       riskVersion > 0

CauseInv == OutcomeInv /\ ClaimInv /\ ReplicaInv /\ EstablishedInv /\ NamedConflictIsFinal

-----------------------------------------------------------------------------
(* What any step of an invocation does to the table, as far as causes go. *)
Grows ==
  /\ proposal' = proposal
  /\ riskVersion <= riskVersion'
  /\ \A k \in Keys : idempotency[k] # Missing => idempotency'[k] = idempotency[k]
  /\ \A k \in Keys : idempotency[k] = Missing => idempotency'[k] = Missing \/ riskVersion' > 0

LEMMA TableGrows ==
  ASSUME IInv, [Next]_vars
  PROVE  Grows
<1> USE DEF external, table
<1>0. /\ riskVersion \in Nat /\ expected \in [Invocations -> Nat]
      /\ idempotency \in IdempotencyTables
  BY DEF IInv, TypeInv, TypeOK
<1>1. ASSUME NEW i \in Invocations, Commits(i) PROVE Grows
  <2>1. /\ idempotency[Key(i)] = Missing /\ riskVersion' = riskVersion + 1
        /\ idempotency' = [idempotency EXCEPT ![Key(i)] = i] /\ proposal' = proposal
    BY <1>0, <1>1 DEF Commits, Applicable, KeyTaken, VersionMoved, Apply
  <2> QED BY <1>0, <2>1 DEF Grows, IdempotencyTables
<1>2. ASSUME NEW i \in Invocations, InitRisk(i) PROVE Grows
  BY <1>0, <1>2 DEF InitRisk, Grows
<1>3. ASSUME UNCHANGED <<riskVersion, idempotency, proposal>> PROVE Grows
  BY <1>0, <1>3 DEF Grows
<1>4. ASSUME NEW i \in Invocations, Step(i) \/ DeliverLate(i) \/ Crash(i) PROVE Grows
  <2>1. \/ Commits(i) \/ InitRisk(i) \/ UNCHANGED <<riskVersion, idempotency, proposal>>
    BY <1>4, StepEffect
       DEF IInv, Quiet, core, LoadSnapshot, ReadRisk, SizeAndBuild, ReportAndAnswer
  <2> QED BY <1>1, <1>2, <1>3, <2>1
<1>5. CASE Replicate \/ Tick \/ UNCHANGED vars
  BY <1>3, <1>5 DEF Replicate, Tick, vars
<1> QED BY <1>4, <1>5 DEF Next

(* The ledger grows by the order whose transaction takes effect. *)
LEMMA CommittedGrows ==
  ASSUME TypeInv, NEW i \in Invocations
  PROVE  /\ UNCHANGED commits => Committed' = Committed
         /\ commits' = Append(commits, i) => Committed' = Committed \cup {i}
<1>0. commits \in Seq(Invocations)
  BY DEF TypeInv, TypeOK
<1>1. ASSUME commits' = Append(commits, i) PROVE Committed' = Committed \cup {i}
  <2>1. /\ Len(commits') = Len(commits) + 1 /\ commits'[Len(commits) + 1] = i
        /\ \A n \in 1..Len(commits) : commits'[n] = commits[n]
    BY <1>0, <1>1
  <2> QED BY <1>0, <2>1 DEF Committed
<1> QED BY <1>1 DEF Committed

LEMMA OnlyCommitsCommit ==
  ASSUME IInv, [Next]_vars
  PROVE  UNCHANGED commits \/ \E i \in Invocations : Commits(i)
<1>1. ASSUME NEW i \in Invocations, Step(i) \/ DeliverLate(i) \/ Crash(i)
      PROVE  UNCHANGED commits \/ Commits(i)
  BY <1>1, StepEffect
     DEF IInv, Quiet, core, LoadSnapshot, ReadRisk, InitRisk, SizeAndBuild, ReportAndAnswer
<1>2. CASE Replicate \/ Tick \/ UNCHANGED vars
  BY <1>2 DEF Replicate, Tick, vars
<1> QED BY <1>1, <1>2 DEF Next

(* A step of one invocation leaves the others alone, and what has stopped. *)
LEMMA OthersKept ==
  ASSUME TypeInv, NEW i \in Invocations, Step(i) \/ DeliverLate(i) \/ Crash(i),
         NEW j \in Invocations, j # i \/ pc[i] = "done"
  PROVE  /\ pc'[j] = pc[j] /\ outcome'[j] = outcome[j]
         /\ expected'[j] = expected[j] /\ portfolio'[j] = portfolio[j]
<1> USE DEF Goto, Answer, AnswerOrder, external, table
<1>0. /\ pc \in [Invocations -> Labels] /\ outcome \in [Invocations -> Outcomes]
      /\ expected \in [Invocations -> Nat] /\ portfolio \in [Invocations -> Portfolios]
  BY DEF TypeInv, TypeOK
<1>1. CASE LoadRisk(i) \/ LoadSnapshot(i) \/ PreValidationFails(i)
  BY <1>0, <1>1 DEF LoadRisk, LoadSnapshot, PreValidationFails
<1>2. CASE LookupIdempotency(i) \/ ReadRisk(i) \/ InitRisk(i)
  BY <1>0, <1>2 DEF LookupIdempotency, ReadRisk, InitRisk
<1>3. CASE SizeAndBuild(i) \/ RiskRejects(i) \/ TransactCommits(i) \/ TransactReplyLost(i)
  BY <1>0, <1>3 DEF SizeAndBuild, RiskRejects, TransactCommits, TransactReplyLost, Apply
<1>4. CASE TransactCancelled(i) \/ TransactRefused(i) \/ TransactThrottled(i) \/ TransactDelayed(i)
  BY <1>0, <1>4 DEF TransactCancelled, TransactRefused, TransactThrottled, TransactDelayed
<1>5. CASE CheckIdempotency(i) \/ ReportAndAnswer(i) \/ CallFails(i)
  BY <1>0, <1>5 DEF CheckIdempotency, Retry, ReportAndAnswer, ReportLost, CallFails
<1>6. CASE DeliverLate(i) \/ Crash(i)
  BY <1>0, <1>6 DEF DeliverLate, Crash, Apply
<1> QED BY <1>1, <1>2, <1>3, <1>4, <1>5, <1>6 DEF Step

LEMMA OutcomeStep ==
  ASSUME TypeInv, OutcomeInv, NEW i \in Invocations, Step(i) \/ DeliverLate(i) \/ Crash(i)
  PROVE  OutcomeInv'
<1> USE DEF Goto, Answer, AnswerOrder, external, table
<1>0. pc \in [Invocations -> Labels] /\ outcome \in [Invocations -> Outcomes]
  BY DEF TypeInv, TypeOK
<1>1. pc'[i] # "done" => outcome'[i] = outcome[i] /\ (pc[i] # "done" \/ pc'[i] = pc[i])
  <2>1. CASE Step(i)
    BY <1>0, <2>1
       DEF Step, LoadRisk, LoadSnapshot, PreValidationFails, LookupIdempotency, ReadRisk,
           InitRisk, SizeAndBuild, RiskRejects, TransactCommits, TransactCancelled,
           TransactRefused, TransactThrottled, TransactReplyLost, TransactDelayed,
           CheckIdempotency, Retry, ReportAndAnswer, ReportLost, CallFails
  <2>2. CASE DeliverLate(i) \/ Crash(i)
    BY <1>0, <2>2 DEF DeliverLate, Crash
  <2> QED BY <2>1, <2>2
<1>2. ASSUME NEW j \in Invocations, pc'[j] # "done" PROVE outcome'[j] = "NONE"
  BY <1>1, <1>2, OthersKept DEF OutcomeInv
<1> QED BY <1>2 DEF OutcomeInv

LEMMA ClaimStep ==
  ASSUME IInv, ClaimInv, [Next]_vars,
         NEW i \in Invocations, Step(i) \/ DeliverLate(i) \/ Crash(i)
  PROVE  ClaimInv'
<1>0. /\ riskVersion \in Nat /\ expected \in [Invocations -> Nat]
      /\ idempotency \in IdempotencyTables /\ riskVersion' \in Nat /\ Key(i) \in Keys
      /\ TypeInv
  BY KeyType, TypeNext DEF IInv, TypeInv, TypeOK
<1>1. SUFFICES ASSUME NEW k \in Keys, idempotency'[k] # Missing
      PROVE  pc'[idempotency'[k]] \in Past /\ expected'[idempotency'[k]] < riskVersion'
  BY DEF ClaimInv
<1>2. Moves(i) /\ (ReadRisk(i) \/ InitRisk(i) => pc[i] \notin Past)
  BY StepEffect DEF IInv, Quiet, Commits, ReadRisk, InitRisk, Past
<1>3. CASE idempotency[k] # Missing
  <2> DEFINE o == idempotency[k]
  <2>1. o \in Invocations /\ idempotency'[k] = o /\ riskVersion <= riskVersion'
    BY <1>0, <1>3, TableGrows DEF Grows, IdempotencyTables
  <2>2. pc[o] \in Past /\ expected[o] < riskVersion
    BY <1>3 DEF ClaimInv
  <2>3. pc'[o] \in Past
    BY <1>2, <2>1, <2>2 DEF Moves
  <2>4. expected'[o] = expected[o]
    <3>1. CASE o = i
      BY <1>2, <2>2, <3>1, StepEffect
         DEF IInv, Quiet, Commits, LoadSnapshot, SizeAndBuild, ReportAndAnswer, built
    <3>2. CASE o # i
      BY <1>0, <2>1, <3>2, OthersKept
    <3> QED BY <3>1, <3>2
  <2>5. expected[o] \in Nat
    BY <1>0, <2>1
  <2> QED BY <1>0, <2>1, <2>2, <2>3, <2>4, <2>5
<1>4. CASE idempotency[k] = Missing
  <2>1. Commits(i)
    BY <1>1, <1>4, StepEffect
       DEF IInv, Quiet, core, LoadSnapshot, ReadRisk, InitRisk, SizeAndBuild,
           ReportAndAnswer, table
  <2>2. /\ idempotency' = [idempotency EXCEPT ![Key(i)] = i] /\ pc'[i] \in Past
        /\ riskVersion' = expected[i] + 1 /\ expected' = expected
    BY <2>1 DEF Commits, Apply, built
  <2>3. idempotency'[k] = i
    BY <1>0, <1>1, <1>4, <2>2 DEF IdempotencyTables
  <2> QED BY <1>0, <2>2, <2>3
<1> QED BY <1>3, <1>4

(* Without a risk state nothing was committed, so there is no snapshot. *)
LEMMA SnapshotsNeedRisk ==
  ASSUME IInv, DOMAIN snapshots # {}
  PROVE  riskVersion > 0 /\ commits # <<>>
<1>1. commits # <<>>
  BY DEF IInv, LatestSnapshotIsLastCommit
<1>2. riskVersion \in Nat
  BY DEF IInv, TypeInv, TypeOK
<1> QED BY <1>1, <1>2 DEF IInv, VersionInv, VersionCountsCommits

LEMMA ReplicaNext ==
  ASSUME IInv, ReplicaInv, [Next]_vars
  PROVE  ReplicaInv'
<1>0. /\ riskVersion \in Nat /\ idempotency \in IdempotencyTables /\ riskVersion' \in Nat
      /\ replica \in [risk : Nat, snapshots : SnapshotTables, idempotency : IdempotencyTables]
  BY TypeNext DEF IInv, TypeInv, TypeOK
<1>1. Grows
  BY TableGrows
<1>2. CASE replica' = replica
  <2>1. ASSUME NEW k \in Keys PROVE replica'.idempotency[k] \in {Missing, idempotency'[k]}
    BY <1>1, <1>2, <2>1 DEF ReplicaInv, Grows
  <2>2. DOMAIN replica'.snapshots # {} => riskVersion' > 0
    BY <1>0, <1>1, <1>2 DEF ReplicaInv, Grows
  <2> QED BY <2>1, <2>2 DEF ReplicaInv
<1>3. CASE Replicate
  <2>1. UNCHANGED <<riskVersion, idempotency>>
    BY <1>3 DEF Replicate, table
  <2>2. \/ /\ replica'.snapshots = replica.snapshots
           /\ replica'.idempotency \in {replica.idempotency, idempotency}
        \/ /\ replica'.snapshots = snapshots /\ replica'.idempotency = replica.idempotency
    BY <1>0, <1>3 DEF Replicate
  <2>3. DOMAIN snapshots # {} => riskVersion > 0
    BY SnapshotsNeedRisk
  <2> QED BY <2>1, <2>2, <2>3 DEF ReplicaInv
<1>4. replica' = replica \/ Replicate
  <2>1. ASSUME NEW i \in Invocations, Step(i) \/ DeliverLate(i) \/ Crash(i)
        PROVE  replica' = replica
    BY <2>1, StepEffect
       DEF IInv, Quiet, Commits, core, LoadSnapshot, ReadRisk, InitRisk, SizeAndBuild,
           ReportAndAnswer, external
  <2>2. CASE Tick \/ UNCHANGED vars
    BY <2>2 DEF Tick, vars
  <2> QED BY <2>1, <2>2 DEF Next
<1> QED BY <1>2, <1>3, <1>4

LEMMA EstablishedStep ==
  ASSUME IInv, ReplicaInv, EstablishedInv, [Next]_vars,
         NEW i \in Invocations, Step(i) \/ DeliverLate(i) \/ Crash(i)
  PROVE  EstablishedInv'
<1> USE DEF Goto, Answer, AnswerOrder
<1>0. /\ riskVersion \in Nat /\ riskVersion' \in Nat /\ riskVersion <= riskVersion'
      /\ pc \in [Invocations -> Labels] /\ portfolio \in [Invocations -> Portfolios]
      /\ TypeInv
  BY TypeNext, TableGrows DEF IInv, TypeInv, TypeOK, Grows
<1>1. ASSUME NEW j \in Invocations, j # i \/ pc[i] = "done"
      PROVE  /\ pc'[j] # "done" /\ portfolio'[j] # {} => riskVersion' > 0
             /\ pc'[j] \in {"size", "transact", "check_idempotency"} => riskVersion' > 0
  BY <1>0, <1>1, OthersKept DEF EstablishedInv
<1>2. ASSUME pc[i] # "done", pc'[i] # "done", portfolio'[i] # {} PROVE riskVersion' > 0
  <2>1. CASE LoadSnapshot(i)
    <3>1. PICK s \in SnapshotReads : UNCHANGED portfolio
                 \/ portfolio' = [portfolio EXCEPT ![i] = LatestPortfolio(s)]
      BY <2>1 DEF LoadSnapshot
    <3>2. LatestPortfolio(s) # {} => DOMAIN s # {}
      BY DEF LatestPortfolio
    <3>3. DOMAIN s # {} => riskVersion > 0
      BY SnapshotsNeedRisk DEF SnapshotReads, ReplicaInv
    <3> QED BY <1>0, <1>2, <3>1, <3>2, <3>3 DEF EstablishedInv
  <2>2. CASE ReportAndAnswer(i)
    BY <1>0, <1>2, <2>2 DEF ReportAndAnswer, ReportLost
  <2>3. CASE ~LoadSnapshot(i) /\ ~ReportAndAnswer(i)
    <3>1. portfolio' = portfolio
      BY <2>3, StepEffect
         DEF IInv, Quiet, Commits, built, ReadRisk, InitRisk, SizeAndBuild
    <3> QED BY <1>0, <1>2, <3>1 DEF EstablishedInv
  <2> QED BY <2>1, <2>2, <2>3
<1>3. ASSUME pc[i] # "done", pc'[i] \in {"size", "transact", "check_idempotency"}
      PROVE  riskVersion' > 0
  <2>1. CASE ReadRisk(i)
    <3>1. PICK v \in RiskReads :
            \/ v > 0
            \/ portfolio[i] # {}
            \/ pc'[i] \in {"init_risk", "done"}
      BY <1>0, <2>1 DEF ReadRisk
    <3>2. v \in Nat /\ v <= riskVersion
      BY <1>0 DEF RiskReads, IInv, VersionInv, TypeInv, TypeOK
    <3> QED BY <1>0, <1>3, <3>1, <3>2 DEF EstablishedInv
  <2>2. CASE InitRisk(i)
    BY <1>0, <1>3, <2>2 DEF InitRisk
  <2>3. CASE ~ReadRisk(i) /\ ~InitRisk(i)
    <3>1. pc[i] \in {"size", "transact", "check_idempotency"}
      BY <1>0, <1>3, <2>3
         DEF Step, LoadRisk, LoadSnapshot, PreValidationFails, LookupIdempotency,
             SizeAndBuild, RiskRejects, TransactCommits, TransactCancelled,
             TransactRefused, TransactThrottled, TransactReplyLost, TransactDelayed,
             CheckIdempotency, Retry, ReportAndAnswer, ReportLost, CallFails,
             DeliverLate, Crash
    <3> QED BY <1>0, <3>1 DEF EstablishedInv
  <2> QED BY <2>1, <2>2, <2>3
<1>4. ASSUME NEW j \in Invocations
      PROVE  /\ pc'[j] # "done" /\ portfolio'[j] # {} => riskVersion' > 0
             /\ pc'[j] \in {"size", "transact", "check_idempotency"} => riskVersion' > 0
  BY <1>1, <1>2, <1>3
<1> QED BY <1>4 DEF EstablishedInv

-----------------------------------------------------------------------------
(* The reasons of i that have been given, and those it gives now. *)
Named(i) ==
  /\ outcome[i] = "IDEMPOTENCY_CONFLICT" => idempotency[Key(i)] \notin {i, Missing}
  /\ outcome[i] = "RISK_STATE_CONFLICT" => riskVersion # expected[i]
  /\ outcome[i] \in {"IDEMPOTENCY_CONFLICT", "RISK_STATE_CONFLICT"} => i \notin Committed

(* A committed order has claimed its key. *)
LEMMA UnclaimedUncommitted ==
  ASSUME IInv, NEW i \in Invocations, idempotency[Key(i)] # i
  PROVE  i \notin Committed
BY DEF IInv, KeyInv, Committed

(* A cause that is met stays, and keeps a transaction still on its way from taking
   effect. *)
LEMMA NamedStays ==
  ASSUME IInv, [Next]_vars, NEW i \in Invocations, Named(i),
         outcome'[i] = outcome[i], expected'[i] = expected[i]
  PROVE  Named(i)'
<1>0. /\ riskVersion \in Nat /\ expected \in [Invocations -> Nat] /\ Key(i) \in Keys
      /\ expected[i] <= riskVersion /\ riskVersion' \in Nat /\ TypeInv
  BY KeyType, TypeNext DEF IInv, TypeInv, TypeOK, VersionInv
<1>1. /\ Key(i)' = Key(i) /\ proposal' = proposal /\ riskVersion <= riskVersion'
      /\ idempotency[Key(i)] # Missing => idempotency'[Key(i)] = idempotency[Key(i)]
  BY <1>0, TableGrows DEF Grows, Key
<1>2. riskVersion # expected[i] => riskVersion' # expected'[i]
  BY <1>0, <1>1
<1>3. ASSUME outcome[i] \in {"IDEMPOTENCY_CONFLICT", "RISK_STATE_CONFLICT"}
      PROVE  i \notin Committed'
  <2>1. i \notin Committed
    BY <1>3 DEF Named
  <2>2. ~Commits(i)
    BY <1>3 DEF Named, Commits, Applicable, KeyTaken, VersionMoved
  <2>3. CASE UNCHANGED commits
    BY <2>1, <2>3 DEF Committed
  <2>4. ASSUME NEW j \in Invocations, Commits(j) PROVE i \notin Committed'
    <3>1. commits' = Append(commits, j) /\ j # i
      BY <2>2, <2>4 DEF Commits, Apply
    <3>2. Committed' = Committed \cup {j}
      BY <1>0, <3>1, CommittedGrows
    <3> QED BY <2>1, <3>1, <3>2
  <2> QED BY <2>3, <2>4, OnlyCommitsCommit
<1> QED BY <1>1, <1>2, <1>3 DEF Named

LEMMA NamedLookup ==
  ASSUME IInv, OutcomeInv, ReplicaInv, NEW i \in Invocations, LookupIdempotency(i)
  PROVE  Named(i)'
<1>0. /\ outcome \in [Invocations -> Outcomes] /\ Key(i) \in Keys /\ outcome[i] = "NONE"
      /\ UNCHANGED <<idempotency, proposal, commits>>
  BY KeyType DEF IInv, TypeInv, TypeOK, OutcomeInv, LookupIdempotency, table
<1>1. CASE outcome'[i] = "IDEMPOTENCY_CONFLICT"
  <2>1. PICK stored \in IdempotencyReads(Key(i)) : stored # Missing /\ ~SameRequest(i, stored)
    BY <1>0, <1>1 DEF LookupIdempotency, Goto, Answer, AnswerOrder
  <2>2. stored = idempotency[Key(i)] /\ stored # i
    BY <1>0, <2>1 DEF IdempotencyReads, ReplicaInv, SameRequest
  <2>3. i \notin Committed /\ Committed' = Committed
    BY <1>0, <2>2, UnclaimedUncommitted DEF Committed
  <2> QED BY <1>0, <1>1, <2>1, <2>2, <2>3 DEF Named, Key
<1>2. outcome'[i] \in {"NONE", "COMMITTED", "IDEMPOTENCY_CONFLICT", "REJECTED"}
  BY <1>0 DEF LookupIdempotency, Goto, Answer, AnswerOrder
<1> QED BY <1>1, <1>2 DEF Named

(* A name is told for the only condition that failed.  Had the order of i been
   stored, its version would be used up and its key taken: two. *)
LEMMA NamedCancelled ==
  ASSUME IInv, ClaimInv, EstablishedInv, NEW i \in Invocations, TransactCancelled(i)
  PROVE  Named(i)'
<1>0. /\ outcome \in [Invocations -> Outcomes] /\ Key(i) \in Keys /\ riskVersion > 0
      /\ riskVersion \in Nat /\ expected \in [Invocations -> Nat]
      /\ UNCHANGED <<idempotency, proposal, riskVersion, expected, commits>>
  BY KeyType DEF IInv, TypeInv, TypeOK, EstablishedInv, TransactCancelled, table
<1>1. PICK listed \in BOOLEAN : outcome'[i] = CancellationReason(i, listed)
  BY <1>0 DEF TransactCancelled, Answer
<1>2. VersionMoved(i) => riskVersion # expected[i]
  BY <1>0 DEF VersionMoved
<1>3. idempotency[Key(i)] = i => VersionMoved(i)
  BY <1>0, MissingAssumption DEF ClaimInv, VersionMoved
<1>4. CASE outcome'[i] = "IDEMPOTENCY_CONFLICT"
  <2>1. KeyTaken(i) /\ ~VersionMoved(i)
    BY <1>1, <1>4 DEF CancellationReason
  <2>2. idempotency[Key(i)] \notin {i, Missing} /\ i \notin Committed
    BY <1>3, <2>1, UnclaimedUncommitted DEF KeyTaken
  <2> QED BY <1>0, <1>4, <2>2 DEF Named, Key, Committed
<1>5. CASE outcome'[i] = "RISK_STATE_CONFLICT"
  <2>1. ~KeyTaken(i) /\ VersionMoved(i)
    BY <1>1, <1>5 DEF CancellationReason, KeyTaken, VersionMoved
  <2>2. riskVersion # expected[i] /\ i \notin Committed
    BY <1>2, <2>1, MissingAssumption, UnclaimedUncommitted DEF KeyTaken
  <2> QED BY <1>0, <1>5, <2>2 DEF Named, Key, Committed
<1> QED BY <1>4, <1>5 DEF Named

LEMMA NamedStep ==
  ASSUME IInv, OutcomeInv, ClaimInv, ReplicaInv, EstablishedInv, [Next]_vars,
         NEW i \in Invocations, Step(i) \/ DeliverLate(i) \/ Crash(i),
         \A j \in Invocations : Named(j)
  PROVE  \A j \in Invocations : Named(j)'
<1> USE DEF Goto, Answer, AnswerOrder
<1>0. /\ pc \in [Invocations -> Labels] /\ outcome \in [Invocations -> Outcomes] /\ TypeInv
  BY DEF IInv, TypeInv, TypeOK
<1>1. ASSUME NEW j \in Invocations, j # i \/ pc[i] = "done" PROVE Named(j)'
  BY <1>0, <1>1, OthersKept, NamedStays
<1>2. ASSUME pc[i] # "done" PROVE Named(i)'
  <2>1. CASE LookupIdempotency(i)
    BY <2>1, NamedLookup
  <2>2. CASE TransactCancelled(i)
    BY <2>2, NamedCancelled
  <2>3. CASE ~LookupIdempotency(i) /\ ~TransactCancelled(i)
    <3>1. outcome'[i] \notin {"IDEMPOTENCY_CONFLICT", "RISK_STATE_CONFLICT"}
      <4>1. outcome[i] = "NONE"
        BY <1>2 DEF OutcomeInv
      <4>2. CASE DeliverLate(i) \/ Crash(i)
        BY <1>0, <4>1, <4>2 DEF DeliverLate, Crash
      <4>3. CASE Step(i)
        BY <1>0, <2>3, <4>1, <4>3
           DEF Step, LoadRisk, LoadSnapshot, PreValidationFails, ReadRisk, InitRisk,
               SizeAndBuild, RiskRejects, TransactCommits, TransactRefused,
               TransactThrottled, TransactReplyLost, TransactDelayed, CheckIdempotency,
               Retry, ReportAndAnswer, ReportLost, CallFails
      <4> QED BY <4>2, <4>3
    <3> QED BY <3>1 DEF Named
  <2> QED BY <2>1, <2>2, <2>3
<1> QED BY <1>1, <1>2

LEMMA CauseInit == Init => CauseInv
<1> SUFFICES ASSUME Init PROVE CauseInv
  OBVIOUS
<1>1. OutcomeInv /\ NamedConflictIsFinal
  BY DEF Init, OutcomeInv, NamedConflictIsFinal
<1>2. ClaimInv /\ ReplicaInv
  BY DEF Init, ClaimInv, ReplicaInv
<1>3. EstablishedInv
  BY DEF Init, EstablishedInv
<1> QED BY <1>1, <1>2, <1>3 DEF CauseInv

LEMMA CauseNext == IInv /\ CauseInv /\ [Next]_vars => CauseInv'
<1> SUFFICES ASSUME IInv, CauseInv, [Next]_vars PROVE CauseInv'
  OBVIOUS
<1>0. ReplicaInv'
  BY ReplicaNext DEF CauseInv
<1>1. NamedConflictIsFinal <=> \A i \in Invocations : Named(i)
  BY DEF NamedConflictIsFinal, Named
<1>2. (NamedConflictIsFinal <=> \A i \in Invocations : Named(i))'
  BY DEF NamedConflictIsFinal, Named
<1>3. ASSUME NEW i \in Invocations, Step(i) \/ DeliverLate(i) \/ Crash(i) PROVE CauseInv'
  <2>1. OutcomeInv' /\ ClaimInv' /\ EstablishedInv'
    BY <1>3, OutcomeStep, ClaimStep, EstablishedStep DEF IInv, CauseInv
  <2>2. NamedConflictIsFinal'
    BY <1>1, <1>2, <1>3, NamedStep DEF CauseInv
  <2> QED BY <1>0, <2>1, <2>2 DEF CauseInv
<1>4. CASE Replicate \/ Tick \/ UNCHANGED vars
  <2>1. UNCHANGED <<riskVersion, idempotency, expected, pc, outcome, proposal, portfolio,
                     commits>>
    BY <1>4 DEF Replicate, Tick, vars, table
  <2>2. OutcomeInv' /\ ClaimInv' /\ EstablishedInv' /\ NamedConflictIsFinal'
    BY <2>1 DEF CauseInv, OutcomeInv, ClaimInv, EstablishedInv, NamedConflictIsFinal, Key,
                Committed
  <2> QED BY <1>0, <2>2 DEF CauseInv
<1> QED BY <1>3, <1>4 DEF Next

(* Under every fault a named conflict has its cause and is final, also when an earlier
   attempt took effect unnoticed or is still on its way. *)
THEOREM ConflictSafety == Spec => []NamedConflictIsFinal
<1>1. CauseInv => NamedConflictIsFinal
  BY DEF CauseInv
<1> QED BY <1>1, CauseInit, CauseNext, Invariance, PTL DEF Spec

-----------------------------------------------------------------------------
(***************************************************************************)
(* _load_state with consistent reads: the risk state is read first, so the *)
(* snapshot of the commit that used it is there.                           *)
(***************************************************************************)
LoadInv ==
  /\ \A i \in Invocations : riskSeen[i] <= riskVersion
  /\ SnapshotAlwaysLoadable

LEMMA LoadStep ==
  ASSUME "stale" \notin Faults, IInv, LoadInv, [Next]_vars,
         NEW i \in Invocations, Step(i) \/ DeliverLate(i) \/ Crash(i)
  PROVE  LoadInv'
<1> USE DEF Goto, Answer, AnswerOrder
<1>0. /\ riskVersion \in Nat /\ riskVersion' \in Nat /\ riskVersion <= riskVersion'
      /\ riskSeen \in [Invocations -> Nat] /\ outcome \in [Invocations -> Outcomes]
      /\ pc \in [Invocations -> Labels] /\ TypeInv
      /\ \A j \in Invocations : riskSeen[j] <= riskVersion
      /\ \A j \in Invocations : outcome[j] # "SNAPSHOT_UNAVAILABLE"
  BY TypeNext, TableGrows DEF IInv, TypeInv, TypeOK, Grows, LoadInv, SnapshotAlwaysLoadable
<1>1. CASE LoadRisk(i)
  <2>1. riskSeen' = [riskSeen EXCEPT ![i] = riskVersion] /\ outcome' = outcome
    BY <1>1 DEF LoadRisk, RiskReads
  <2> QED BY <1>0, <2>1 DEF LoadInv, SnapshotAlwaysLoadable
<1>2. CASE LoadSnapshot(i)
  <2>1. DOMAIN snapshots = {} => riskVersion <= 1
    <3>1. SUFFICES ASSUME DOMAIN snapshots = {} PROVE riskVersion <= 1
      OBVIOUS
    <3>2. LatestPortfolio(snapshots) = {}
      BY <3>1 DEF LatestPortfolio
    <3>3. commits = <<>>
      BY <3>2 DEF IInv, LatestSnapshotIsLastCommit, Candidate
    <3>4. Len(commits) = 0
      BY <3>3
    <3> QED BY <1>0, <3>4 DEF IInv, VersionInv, VersionCountsCommits
  <2>2. DOMAIN snapshots = {} => MayLackSnapshot(i)
    BY <1>0, <2>1 DEF MayLackSnapshot
  <2>3. outcome' = outcome /\ riskSeen' = riskSeen
    BY <1>2, <2>2 DEF LoadSnapshot, SnapshotReads
  <2> QED BY <1>0, <2>3 DEF LoadInv, SnapshotAlwaysLoadable
<1>3. CASE ~LoadRisk(i) /\ ~LoadSnapshot(i)
  <2>1. riskSeen' = riskSeen
    BY <1>3 DEF Step, PreValidationFails, LookupIdempotency, ReadRisk, InitRisk,
         SizeAndBuild, RiskRejects, TransactCommits, TransactCancelled, TransactRefused,
         TransactThrottled, TransactReplyLost, TransactDelayed, CheckIdempotency,
         ReportAndAnswer, CallFails, DeliverLate, Crash
  <2>2. outcome'[i] # "SNAPSHOT_UNAVAILABLE"
    BY <1>0, <1>3 DEF Step, PreValidationFails, LookupIdempotency, ReadRisk, InitRisk,
         SizeAndBuild, RiskRejects, TransactCommits, TransactCancelled, TransactRefused,
         TransactThrottled, TransactReplyLost, TransactDelayed, CheckIdempotency, Retry,
         ReportAndAnswer, ReportLost, CallFails, DeliverLate, Crash, CancellationReason
  <2>3. \A j \in Invocations : outcome'[j] # "SNAPSHOT_UNAVAILABLE"
    BY <1>0, <2>2, OthersKept
  <2> QED BY <1>0, <2>1, <2>3 DEF LoadInv, SnapshotAlwaysLoadable
<1> QED BY <1>1, <1>2, <1>3

(* With consistent reads, whatever else happens, no run finds a used risk state
   without a snapshot. *)
THEOREM LoadSafety ==
  ASSUME "stale" \notin Faults
  PROVE  Spec => []SnapshotAlwaysLoadable
<1>1. Init => LoadInv
  BY DEF Init, LoadInv, SnapshotAlwaysLoadable
<1>2. IInv /\ LoadInv /\ [Next]_vars => LoadInv'
  <2> SUFFICES ASSUME IInv, LoadInv, [Next]_vars PROVE LoadInv'
    OBVIOUS
  <2>1. ASSUME NEW i \in Invocations, Step(i) \/ DeliverLate(i) \/ Crash(i) PROVE LoadInv'
    BY <2>1, LoadStep
  <2>2. CASE Replicate \/ Tick \/ UNCHANGED vars
    BY <2>2 DEF Replicate, Tick, vars, table, LoadInv, SnapshotAlwaysLoadable
  <2> QED BY <2>1, <2>2 DEF Next
<1>3. LoadInv => SnapshotAlwaysLoadable
  BY DEF LoadInv
<1> QED BY <1>1, <1>2, <1>3, Invariance, PTL DEF Spec

-----------------------------------------------------------------------------
(***************************************************************************)
(* One invocation at a time: between its lookup and its answer the key of  *)
(* the running one is free or its own, so the order it answers with is the *)
(* one in the table, whether it learns that from its own transaction, or   *)
(* from the check after a lost reply.                                      *)
(***************************************************************************)
Running(i) == pc[i] \notin {"start", "done"}
LookedUp == {"read_risk", "init_risk", "size", "transact", "check_idempotency"}

SerialInv ==
  /\ late = {}
  /\ \A i, j \in Invocations : Running(i) /\ Running(j) => i = j
  /\ \A i \in Invocations : pc[i] \in LookedUp => idempotency[Key(i)] \in {Missing, i}
  /\ \A k \in Keys : idempotency[k] # Missing => idempotency[k] \in Committed
  /\ \A i \in Invocations : pc[i] = "report" => i \in Committed
  /\ ReturnedOrderIsStored
  /\ ReportIsOfCommittedTrade

(* The steps that leave table, answers and reports as they are. *)
LEMMA SerialQuiet ==
  ASSUME TypeInv, SerialInv, NEW i \in Invocations,
         Running(i), \A j \in Invocations : j # i => pc'[j] = pc[j],
         UNCHANGED <<idempotency, commits, late, proposal, latestReport>>,
         pc'[i] \in LookedUp => pc[i] \in LookedUp \/ idempotency[Key(i)] = Missing,
         pc'[i] = "report" => idempotency[Key(i)] = i,
         \A j \in Invocations : outcome'[j] = "COMMITTED" =>
            \/ outcome[j] = "COMMITTED" /\ result'[j] = result[j]
            \/ result'[j] \in Committed /\ proposal[result'[j]] = proposal[j]
  PROVE  SerialInv'
<1>1. Committed' = Committed /\ \A j \in Invocations : Key(j)' = Key(j) /\ Key(j) \in Keys
  BY CommittedGrows, KeyType DEF Key, TypeInv
<1>2. /\ late' = {}
      /\ \A j, h \in Invocations : Running(j)' /\ Running(h)' => j = h
  BY DEF SerialInv, Running
<1>3. \A j \in Invocations : pc'[j] \in LookedUp => idempotency'[Key(j)'] \in {Missing, j}
  BY <1>1 DEF SerialInv
<1>4. \A j \in Invocations : pc'[j] = "report" => j \in Committed'
  BY <1>1, MissingAssumption DEF SerialInv
<1>5. \A k \in Keys : idempotency'[k] # Missing => idempotency'[k] \in Committed'
  BY <1>1 DEF SerialInv
<1>6. ReturnedOrderIsStored' /\ ReportIsOfCommittedTrade'
  BY <1>1 DEF SerialInv, ReturnedOrderIsStored, ReportIsOfCommittedTrade
<1> QED BY <1>2, <1>3, <1>4, <1>5, <1>6 DEF SerialInv

LEMMA SerialCommit ==
  ASSUME TypeInv, OutcomeInv, SerialInv, NEW i \in Invocations, Running(i),
         TransactCommits(i) \/ TransactReplyLost(i)
  PROVE  SerialInv'
<1> USE DEF Goto, Answer, external, table
<1>0. /\ pc \in [Invocations -> Labels] /\ outcome \in [Invocations -> Outcomes]
      /\ idempotency \in IdempotencyTables /\ outcome[i] = "NONE"
      /\ \A j \in Invocations : Key(j) \in Keys
  BY KeyType DEF TypeInv, TypeOK, OutcomeInv, Running
<1>1. /\ commits' = Append(commits, i) /\ UNCHANGED <<late, proposal, latestReport, result>>
      /\ idempotency' = [idempotency EXCEPT ![Key(i)] = i]
      /\ \A j \in Invocations : j # i => pc'[j] = pc[j] /\ outcome'[j] = outcome[j]
      /\ pc'[i] \in {"report", "check_idempotency", "done"}
      /\ outcome'[i] \in {"NONE", "REJECTED"}
  BY <1>0 DEF TransactCommits, TransactReplyLost, Apply
<1>2. Committed' = Committed \cup {i} /\ \A j \in Invocations : Key(j)' = Key(j)
  BY <1>1, CommittedGrows DEF Key
<1>3. \A j \in Invocations : Running(j)' => j = i
  BY <1>1 DEF SerialInv, Running
<1>4. \A j \in Invocations : pc'[j] \in LookedUp => idempotency'[Key(j)'] \in {Missing, j}
  BY <1>0, <1>1, <1>2, <1>3 DEF IdempotencyTables, LookedUp, Running
<1>5. \A k \in Keys : idempotency'[k] # Missing => idempotency'[k] \in Committed'
  BY <1>0, <1>1, <1>2 DEF SerialInv, IdempotencyTables
<1>6. \A j \in Invocations : pc'[j] = "report" => j \in Committed'
  BY <1>2, <1>3 DEF Running
<1>7. ReturnedOrderIsStored' /\ ReportIsOfCommittedTrade'
  BY <1>1, <1>2 DEF SerialInv, ReturnedOrderIsStored, ReportIsOfCommittedTrade
<1>8. late' = {} /\ \A j, h \in Invocations : Running(j)' /\ Running(h)' => j = h
  BY <1>1, <1>3 DEF SerialInv
<1> QED BY <1>4, <1>5, <1>6, <1>7, <1>8 DEF SerialInv

LEMMA SerialReport ==
  ASSUME TypeInv, SerialInv, NEW i \in Invocations, ReportAndAnswer(i)
  PROVE  SerialInv'
<1> USE DEF AnswerOrder, external, table
<1>0. /\ pc \in [Invocations -> Labels] /\ outcome \in [Invocations -> Outcomes]
      /\ result \in [Invocations -> Invocations \cup {Missing}]
  BY DEF TypeInv, TypeOK
<1>1. /\ UNCHANGED <<idempotency, commits, late, proposal>>
      /\ pc' = [pc EXCEPT ![i] = "done"] /\ latestReport' \in {latestReport, i}
      /\ \A j \in Invocations : j # i => outcome'[j] = outcome[j] /\ result'[j] = result[j]
      /\ result'[i] = i /\ i \in Committed
  BY <1>0 DEF ReportAndAnswer, ReportLost, SerialInv
<1>2. Committed' = Committed /\ \A j \in Invocations : Key(j)' = Key(j)
  BY <1>1, CommittedGrows DEF Key
<1>3. late' = {} /\ \A j, h \in Invocations : Running(j)' /\ Running(h)' => j = h
  BY <1>0, <1>1 DEF SerialInv, Running
<1>4. /\ \A j \in Invocations : pc'[j] \in LookedUp => idempotency'[Key(j)'] \in {Missing, j}
      /\ \A k \in Keys : idempotency'[k] # Missing => idempotency'[k] \in Committed'
      /\ \A j \in Invocations : pc'[j] = "report" => j \in Committed'
  BY <1>0, <1>1, <1>2 DEF SerialInv, LookedUp
<1>5. ReturnedOrderIsStored' /\ ReportIsOfCommittedTrade'
  BY <1>1, <1>2 DEF SerialInv, ReturnedOrderIsStored, ReportIsOfCommittedTrade
<1> QED BY <1>3, <1>4, <1>5 DEF SerialInv

LEMMA SerialStart ==
  ASSUME "overlap" \notin Faults, TypeInv, SerialInv, NEW i \in Invocations, LoadRisk(i)
  PROVE  SerialInv'
<1> USE DEF Goto, external, table
<1>0. pc \in [Invocations -> Labels]
  BY DEF TypeInv, TypeOK
<1>1. /\ UNCHANGED <<idempotency, commits, late, proposal, latestReport, outcome, result>>
      /\ pc' = [pc EXCEPT ![i] = "load_snapshot"]
      /\ \A j \in Invocations \ {i} : ~Running(j)
  BY DEF LoadRisk, Running
<1>2. Committed' = Committed /\ \A j \in Invocations : Key(j)' = Key(j)
  BY <1>1, CommittedGrows DEF Key
<1>3. late' = {} /\ \A j, h \in Invocations : Running(j)' /\ Running(h)' => j = h
  BY <1>0, <1>1 DEF SerialInv, Running
<1>4. /\ \A j \in Invocations : pc'[j] \in LookedUp => idempotency'[Key(j)'] \in {Missing, j}
      /\ \A k \in Keys : idempotency'[k] # Missing => idempotency'[k] \in Committed'
      /\ \A j \in Invocations : pc'[j] = "report" => j \in Committed'
  BY <1>0, <1>1, <1>2 DEF SerialInv, LookedUp
<1>5. ReturnedOrderIsStored' /\ ReportIsOfCommittedTrade'
  BY <1>1, <1>2 DEF SerialInv, ReturnedOrderIsStored, ReportIsOfCommittedTrade
<1> QED BY <1>3, <1>4, <1>5 DEF SerialInv

LEMMA SerialLookup ==
  ASSUME "stale" \notin Faults, TypeInv, SerialInv, NEW i \in Invocations, LookupIdempotency(i)
  PROVE  SerialInv'
<1> USE DEF Goto, Answer, AnswerOrder, external, table
<1>0. /\ pc \in [Invocations -> Labels] /\ outcome \in [Invocations -> Outcomes]
      /\ result \in [Invocations -> Invocations \cup {Missing}] /\ Key(i) \in Keys
  BY KeyType DEF TypeInv, TypeOK
<1> DEFINE stored == idempotency[Key(i)]
<1>1. \/ stored # Missing /\ SameRequest(i, stored) /\ AnswerOrder(i, stored)
      \/ stored # Missing /\ Answer(i, "IDEMPOTENCY_CONFLICT")
      \/ stored = Missing /\ Answer(i, "REJECTED")
      \/ stored = Missing /\ Goto(i, "read_risk")
  BY DEF LookupIdempotency, IdempotencyReads
<1>2. Running(i) /\ UNCHANGED <<idempotency, commits, late, proposal, latestReport>>
  BY DEF LookupIdempotency, Running
<1>3. \A j \in Invocations : j # i => pc'[j] = pc[j] /\ outcome'[j] = outcome[j] /\ result'[j] = result[j]
  BY <1>0, <1>1
<1>4. outcome'[i] = "COMMITTED" =>
        \/ outcome[i] = "COMMITTED" /\ result'[i] = result[i]
        \/ result'[i] \in Committed /\ proposal[result'[i]] = proposal[i]
  <2>1. stored # Missing => stored \in Committed
    BY <1>0 DEF SerialInv
  <2> QED BY <1>0, <1>1, <2>1 DEF SameRequest
<1>5. pc'[i] # "report" /\ (pc'[i] \in LookedUp => stored = Missing)
  BY <1>0, <1>1 DEF LookedUp
<1> QED BY <1>2, <1>3, <1>4, <1>5, SerialQuiet

LEMMA SerialCheck ==
  ASSUME "stale" \notin Faults, TypeInv, SerialInv, NEW i \in Invocations, CheckIdempotency(i)
  PROVE  SerialInv'
<1> USE DEF Goto, Answer, external, table
<1>0. /\ pc \in [Invocations -> Labels] /\ outcome \in [Invocations -> Outcomes]
      /\ pc[i] = "check_idempotency"
  BY DEF TypeInv, TypeOK, CheckIdempotency
<1>1. pc'[i] = "report" => idempotency[Key(i)] = i
  <2>1. pc'[i] = "report" => idempotency[Key(i)] # Missing
    BY <1>0 DEF CheckIdempotency, IdempotencyReads, Retry
  <2> QED BY <1>0, <2>1 DEF SerialInv, LookedUp
<1>2. /\ Running(i) /\ pc[i] \in LookedUp
      /\ UNCHANGED <<idempotency, commits, late, proposal, latestReport>>
  BY <1>0 DEF CheckIdempotency, Running, LookedUp
<1>3. /\ \A j \in Invocations : j # i => pc'[j] = pc[j]
      /\ \A j \in Invocations : outcome'[j] = "COMMITTED" =>
            outcome[j] = "COMMITTED" /\ result'[j] = result[j]
  BY <1>0 DEF CheckIdempotency, Retry
<1> QED BY <1>1, <1>2, <1>3, SerialQuiet

LEMMA SerialStep ==
  ASSUME "overlap" \notin Faults, "stale" \notin Faults, "late" \notin Faults,
         TypeInv, OutcomeInv, SerialInv,
         NEW i \in Invocations, Step(i) \/ DeliverLate(i) \/ Crash(i)
  PROVE  SerialInv'
<1> USE DEF Goto, Answer, AnswerOrder, external, table
<1>0. /\ pc \in [Invocations -> Labels] /\ outcome \in [Invocations -> Outcomes]
      /\ result \in [Invocations -> Invocations \cup {Missing}]
  BY DEF TypeInv, TypeOK
<1>1. CASE LoadRisk(i)
  BY <1>1, SerialStart
<1>2. CASE LookupIdempotency(i)
  BY <1>2, SerialLookup
<1>3. CASE CheckIdempotency(i)
  BY <1>3, SerialCheck
<1>4. CASE TransactCommits(i) \/ TransactReplyLost(i)
  <2>1. Running(i)
    BY <1>4 DEF TransactCommits, TransactReplyLost, Running
  <2> QED BY <1>4, <2>1, SerialCommit
<1>5. CASE ReportAndAnswer(i)
  BY <1>5, SerialReport
<1>6. CASE \/ LoadSnapshot(i) \/ PreValidationFails(i) \/ ReadRisk(i) \/ InitRisk(i)
           \/ SizeAndBuild(i) \/ RiskRejects(i) \/ TransactCancelled(i) \/ TransactRefused(i)
           \/ TransactThrottled(i) \/ CallFails(i) \/ Crash(i)
  <2> USE DEF LoadSnapshot, PreValidationFails, ReadRisk, InitRisk, SizeAndBuild,
              RiskRejects, TransactCancelled, TransactRefused, TransactThrottled,
              CallFails, Crash
  <2>1. Running(i)
    BY <1>6 DEF Running
  <2>2. UNCHANGED <<idempotency, commits, late, proposal, latestReport>>
    BY <1>6
  <2>3. \A j \in Invocations : j # i => pc'[j] = pc[j]
    BY <1>0, <1>6
  <2>4. pc'[i] # "report" /\ (pc'[i] \in LookedUp => pc[i] \in LookedUp)
    BY <1>0, <1>6 DEF LookedUp
  <2>5. \A j \in Invocations : outcome'[j] = "COMMITTED" =>
          outcome[j] = "COMMITTED" /\ result'[j] = result[j]
    BY <1>0, <1>6 DEF CancellationReason
  <2> QED BY <2>1, <2>2, <2>3, <2>4, <2>5, SerialQuiet
<1>7. ~TransactDelayed(i) /\ ~DeliverLate(i)
  BY DEF TransactDelayed, DeliverLate, SerialInv
<1> QED BY <1>1, <1>2, <1>3, <1>4, <1>5, <1>6, <1>7 DEF Step

LEMMA SerialSafety ==
  ASSUME "overlap" \notin Faults, "stale" \notin Faults, "late" \notin Faults
  PROVE  Spec => []SerialInv
<1>1. Init => SerialInv
  BY DEF Init, SerialInv, Running, LookedUp, ReturnedOrderIsStored, ReportIsOfCommittedTrade
<1>2. IInv /\ CauseInv /\ SerialInv /\ [Next]_vars => SerialInv'
  <2> SUFFICES ASSUME IInv, CauseInv, SerialInv, [Next]_vars PROVE SerialInv'
    OBVIOUS
  <2>1. ASSUME NEW i \in Invocations, Step(i) \/ DeliverLate(i) \/ Crash(i) PROVE SerialInv'
    BY <2>1, SerialStep DEF IInv, CauseInv
  <2>2. CASE Replicate \/ Tick \/ UNCHANGED vars
    <3>1. UNCHANGED <<late, pc, idempotency, proposal, commits, outcome, result, latestReport>>
      BY <2>2 DEF Replicate, Tick, vars, table
    <3> QED BY <3>1 DEF SerialInv, Running, Key, Committed, ReturnedOrderIsStored,
                        ReportIsOfCommittedTrade
  <2> QED BY <2>1, <2>2 DEF Next
<1> QED BY <1>1, <1>2, CauseInit, CauseNext, Invariance, PTL DEF Spec

(* Runs that do not overlap, over consistent reads, with errors, lost replies and
   crashes: a COMMITTED answer names a stored order of the caller's proposal ... *)
THEOREM AnswerSafety ==
  ASSUME "overlap" \notin Faults, "stale" \notin Faults, "late" \notin Faults
  PROVE  Spec => []ReturnedOrderIsStored
<1>1. SerialInv => ReturnedOrderIsStored
  BY DEF SerialInv
<1> QED BY <1>1, SerialSafety, PTL

(* ... and the report that is published is of a stored order. *)
THEOREM ReportSafety ==
  ASSUME "overlap" \notin Faults, "stale" \notin Faults, "late" \notin Faults
  PROVE  Spec => []ReportIsOfCommittedTrade
<1>1. SerialInv => ReportIsOfCommittedTrade
  BY DEF SerialInv
<1> QED BY <1>1, SerialSafety, PTL

-----------------------------------------------------------------------------
(***************************************************************************)
(* The account, when invocations do not overlap, over consistent reads:    *)
(* each builds on the portfolio the last commit left, so TradeCommit       *)
(* implements PaperAccount, whatever errors, lost replies and crashes      *)
(* there are.                                                              *)
(***************************************************************************)

(* The persisted portfolio. *)
Book == LatestPortfolio(snapshots)

Loaded == {"submit"} \cup LookedUp

(* The portfolio of the invocation that is running is the persisted one, and
   its order was checked against what that holds. *)
BuildsOnBook(i) ==
  /\ pc[i] \in Loaded => portfolio[i] = Book
  /\ pc[i] \in LookedUp /\ Side(i) = "SELL" => Lots(Book) = 1
  /\ pc[i] \in {"transact", "check_idempotency"} /\ Side(i) = "BUY" => Lots(Book) = 0

BookInv ==
  /\ IsFiniteSet(Book) /\ Book \subseteq Committed
  /\ Lots(Book) \in {0, 1}
  /\ \A i \in Invocations : i \notin Committed => BuildsOnBook(i)

-----------------------------------------------------------------------------
(* One more fill is one lot more, or less. *)
LEMMA LotsAdd ==
  ASSUME TypeOK, NEW fills \in SUBSET Invocations, IsFiniteSet(fills),
         NEW i \in Invocations, i \notin fills
  PROVE  /\ Lots(fills) \in Int
         /\ Lots(fills \cup {i}) = IF Side(i) = "BUY" THEN Lots(fills) + 1 ELSE Lots(fills) - 1
<1> DEFINE Of(s, side) == {j \in s : Side(j) = side}
<1>1. \A side : IsFiniteSet(Of(fills, side)) /\ Cardinality(Of(fills, side)) \in Nat
  BY FS_Subset, FS_CardinalityType
<1>2. ASSUME NEW side \in {"BUY", "SELL"}
      PROVE  Cardinality(Of(fills \cup {i}, side)) =
               Cardinality(Of(fills, side)) + IF Side(i) = side THEN 1 ELSE 0
  <2>1. CASE Side(i) = side
    <3>1. Of(fills \cup {i}, side) = Of(fills, side) \cup {i} /\ i \notin Of(fills, side)
      BY <2>1
    <3> HIDE DEF Of
    <3> QED BY <1>1, <2>1, <3>1, FS_AddElement
  <2>2. CASE Side(i) # side
    <3>1. Of(fills \cup {i}, side) = Of(fills, side)
      BY <2>2
    <3> HIDE DEF Of
    <3> QED BY <1>1, <2>2, <3>1
  <2> QED BY <2>1, <2>2
<1>3. /\ Lots(fills) = Cardinality(Of(fills, "BUY")) - Cardinality(Of(fills, "SELL"))
      /\ Lots(fills \cup {i}) =
           Cardinality(Of(fills \cup {i}, "BUY")) - Cardinality(Of(fills \cup {i}, "SELL"))
  BY DEF Lots
<1>4. Side(i) \in {"BUY", "SELL"}
  BY KeyType
<1> HIDE DEF Of
<1> QED BY <1>1, <1>2, <1>3, <1>4

(* What the account holds is what the persisted portfolio holds. *)
LEMMA LotsHeldIsLots ==
  ASSUME TypeOK, Book \subseteq Committed
  PROVE  Account!LotsHeld = Lots(Book)
<1>0. commits \in Seq(Invocations)
  BY DEF TypeOK
<1>1. ASSUME NEW side PROVE Account!OrdersOn(side) = {j \in Committed : Side(j) = side}
  <2>1. /\ Len(LogEntries) = Len(commits)
        /\ \A n \in 1..Len(commits) : /\ LogEntries[n].order = commits[n]
                                      /\ LogEntries[n].proposal = proposal[commits[n]]
    BY <1>0 DEF LogEntries
  <2> QED BY <2>1 DEF Account!OrdersOn, Committed, Side
<1>2. ASSUME NEW side PROVE Book \cap Account!OrdersOn(side) = {j \in Book : Side(j) = side}
  BY <1>1
<1>3. \A S : Account!Cardinality(S) = Cardinality(S)
  BY DEF Account!Cardinality, Cardinality
<1> QED BY <1>2, <1>3 DEF Account!LotsHeld, Lots, Book

-----------------------------------------------------------------------------
(* The transaction of i takes effect: the account makes the trade. *)
LEMMA CommitTrades ==
  ASSUME IInv, IInv', SerialInv, BookInv, NEW i \in Invocations, Commits(i)
  PROVE  /\ Account!Trade(i, proposal[i])
         /\ BookInv'
<1>0. /\ TypeInv /\ TypeOK /\ KeyInv
      /\ commits \in Seq(Invocations) /\ Committed \subseteq Invocations
  <2>1. TypeInv /\ TypeOK /\ KeyInv
    BY DEF IInv, TypeInv
  <2>2. commits \in Seq(Invocations)
    BY <2>1 DEF TypeOK
  <2>3. \A n \in 1..Len(commits) : commits[n] \in Invocations
    BY <2>2
  <2> QED BY <2>1, <2>2, <2>3 DEF Committed
<1>1. /\ idempotency[Key(i)] = Missing /\ commits' = Append(commits, i)
      /\ UNCHANGED <<proposal, portfolio>>
      /\ pc[i] \in {"transact", "check_idempotency"}
      /\ \A j \in Invocations : j # i => pc'[j] = pc[j]
  BY DEF Commits, Applicable, KeyTaken, Apply, built, Pending, Moves, SerialInv
<1>2. i \notin Committed /\ Committed' = Committed \cup {i}
  BY <1>0, <1>1, CommittedGrows, MissingAssumption DEF KeyInv, Committed
<1>3. /\ portfolio[i] = Book
      /\ Lots(Book) = IF Side(i) = "SELL" THEN 1 ELSE 0
  BY <1>0, <1>1, <1>2, KeyType DEF BookInv, BuildsOnBook, Loaded, LookedUp
<1>4. Book' = Book \cup {i}
  <2>1. commits' # <<>> /\ commits'[Len(commits')] = i
    BY <1>0, <1>1
  <2>2. LatestPortfolio(snapshots') = Candidate(i)'
    BY <2>1 DEF IInv, LatestSnapshotIsLastCommit
  <2> QED BY <1>1, <1>3, <2>2 DEF Book, Candidate
<1>5. Account!Trade(i, proposal[i])
  <2>1. Account!Commit(i, proposal[i])
    BY <1>0, LedgerCommit DEF Account!Commit, Ledger!Commit
  <2>2. Account!LotsHeld = IF SideOf[proposal[i]] = "SELL" THEN 1 ELSE 0
    BY <1>0, <1>3, LotsHeldIsLots DEF BookInv, Side
  <2> QED BY <1>4, <2>1, <2>2 DEF Account!Trade, Book
<1>6. IsFiniteSet(Book') /\ Book' \subseteq Committed'
  BY <1>2, <1>4, FS_AddElement DEF BookInv
<1>7. Lots(Book)' \in {0, 1}
  <2>1. Lots(Book)' = Lots(Book \cup {i})
    BY <1>1, <1>4 DEF Lots, Side
  <2>2. Lots(Book \cup {i}) = IF Side(i) = "BUY" THEN Lots(Book) + 1 ELSE Lots(Book) - 1
    BY <1>0, <1>2, LotsAdd DEF BookInv
  <2> QED BY <1>0, <1>3, <2>1, <2>2, KeyType
<1>8. ASSUME NEW j \in Invocations, j \notin Committed' PROVE BuildsOnBook(j)'
  <2>1. j # i /\ pc'[j] \in {"start", "done"}
    BY <1>0, <1>1, <1>2, <1>8 DEF SerialInv, Running
  <2> QED BY <2>1 DEF BuildsOnBook, Loaded, LookedUp
<1> QED BY <1>5, <1>6, <1>7, <1>8 DEF BookInv

(* Any other step leaves the account alone, and the running invocation on its way. *)
LEMMA BuildsStep ==
  ASSUME "stale" \notin Faults, TypeInv, NEW i \in Invocations, BuildsOnBook(i),
         Lots(Book) \in {0, 1}, Step(i) \/ DeliverLate(i) \/ Crash(i),
         UNCHANGED <<snapshots, proposal>>
  PROVE  BuildsOnBook(i)'
<1> USE DEF Goto, Answer, AnswerOrder, external, table, BuildsOnBook, Loaded, LookedUp
<1>0. /\ pc \in [Invocations -> Labels] /\ portfolio \in [Invocations -> Portfolios]
      /\ Side(i) \in {"BUY", "SELL"}
      /\ Book' = Book /\ Side(i)' = Side(i) /\ Lots(Book)' = Lots(Book)
  BY KeyType DEF TypeInv, TypeOK, Book, Lots, Side
<1>1. CASE LoadRisk(i) \/ PreValidationFails(i)
  BY <1>0, <1>1 DEF LoadRisk, PreValidationFails
<1>2. CASE LoadSnapshot(i)
  BY <1>0, <1>2 DEF LoadSnapshot, SnapshotReads, Book
<1>3. CASE LookupIdempotency(i)
  BY <1>0, <1>3 DEF LookupIdempotency
<1>4. CASE ReadRisk(i) \/ InitRisk(i)
  BY <1>0, <1>4 DEF ReadRisk, InitRisk
<1>5. CASE SizeAndBuild(i)
  BY <1>0, <1>5 DEF SizeAndBuild
<1>6. CASE RiskRejects(i) \/ TransactCommits(i) \/ TransactReplyLost(i)
  BY <1>0, <1>6 DEF RiskRejects, TransactCommits, TransactReplyLost, Apply
<1>7. CASE TransactCancelled(i) \/ TransactRefused(i) \/ TransactThrottled(i) \/ TransactDelayed(i)
  BY <1>0, <1>7 DEF TransactCancelled, TransactRefused, TransactThrottled, TransactDelayed
<1>8. CASE CheckIdempotency(i) \/ ReportAndAnswer(i) \/ CallFails(i)
  BY <1>0, <1>8 DEF CheckIdempotency, Retry, ReportAndAnswer, ReportLost, CallFails
<1>9. CASE DeliverLate(i) \/ Crash(i)
  BY <1>0, <1>9 DEF DeliverLate, Crash, Apply
<1> QED BY <1>1, <1>2, <1>3, <1>4, <1>5, <1>6, <1>7, <1>8, <1>9 DEF Step

LEMMA AccountStep ==
  ASSUME "stale" \notin Faults, IInv, IInv', SerialInv, BookInv, [Next]_vars
  PROVE  BookInv' /\ [Account!AccountNext]_<<LogEntries, Book>>
<1>0. TypeInv /\ TypeOK /\ PhaseInv /\ proposal \in [Invocations -> Proposals]
  BY DEF IInv, TypeInv, TypeOK
<1>1. ASSUME UNCHANGED <<snapshots, commits, proposal>>
      PROVE  /\ UNCHANGED <<LogEntries, Book, Committed>>
             /\ Lots(Book)' = Lots(Book)
             /\ \A j \in Invocations : pc'[j] = pc[j] /\ portfolio'[j] = portfolio[j] =>
                  (BuildsOnBook(j)' <=> BuildsOnBook(j))
  BY <1>1 DEF LogEntries, Book, Committed, Lots, Side, BuildsOnBook
<1>2. ASSUME NEW i \in Invocations, Step(i) \/ DeliverLate(i) \/ Crash(i), ~Commits(i)
      PROVE  BookInv' /\ UNCHANGED <<LogEntries, Book>>
  <2>1. UNCHANGED <<snapshots, commits, proposal>>
    BY <1>0, <1>2, StepEffect
       DEF Quiet, core, LoadSnapshot, ReadRisk, InitRisk, SizeAndBuild, ReportAndAnswer, table
  <2>2. ASSUME NEW j \in Invocations, j \notin Committed PROVE BuildsOnBook(j)'
    <3>1. CASE j = i
      BY <1>0, <1>2, <2>1, <2>2, <3>1, BuildsStep DEF BookInv
    <3>2. CASE j # i
      BY <1>0, <1>1, <1>2, <2>1, <2>2, <3>2, OthersKept DEF BookInv
    <3> QED BY <3>1, <3>2
  <2> QED BY <1>1, <2>1, <2>2 DEF BookInv
<1>3. CASE Replicate \/ Tick \/ UNCHANGED vars
  <2>1. UNCHANGED <<snapshots, commits, proposal, pc, portfolio>>
    BY <1>3 DEF Replicate, Tick, vars, table
  <2> QED BY <1>1, <2>1 DEF BookInv
<1>4. ASSUME NEW i \in Invocations, Commits(i)
      PROVE  BookInv' /\ Account!AccountNext
  BY <1>0, <1>4, CommitTrades DEF Account!AccountNext
<1> QED BY <1>2, <1>3, <1>4 DEF Next

LEMMA AccountInit == Init => BookInv /\ Account!AccountInit
<1> SUFFICES ASSUME Init PROVE BookInv /\ Account!AccountInit
  OBVIOUS
<1>1. Book = {} /\ commits = <<>> /\ LogEntries = <<>>
  BY DEF Init, Book, LatestPortfolio, LogEntries
<1>2. Lots(Book) = 0
  <2>1. \A side : {j \in Book : Side(j) = side} = {}
    BY <1>1
  <2> QED BY <2>1, FS_EmptySet DEF Lots
<1>3. BookInv
  BY <1>1, <1>2, FS_EmptySet DEF Init, BookInv, BuildsOnBook, Loaded, LookedUp
<1>4. Account!AccountInit
  BY <1>1 DEF Account!AccountInit, Account!Init, Book
<1> QED BY <1>3, <1>4

(* Without overlap, stale reads and late effects, the portfolio in the table is the
   account in which every committed trade is applied to the result of those before
   it, with at most one position open, for any number of invocations. *)
THEOREM AccountRefinement ==
  ASSUME "overlap" \notin Faults, "stale" \notin Faults, "late" \notin Faults
  PROVE  Spec => ImplementsAccount
<1>1. Spec => []IInv /\ []SerialInv
  BY Invariance, SerialSafety, PTL
<1>2. IInv /\ IInv' /\ SerialInv /\ BookInv /\ [Next]_vars =>
        BookInv' /\ [Account!AccountNext]_<<LogEntries, Book>>
  BY AccountStep
<1>3. Spec => Account!AccountInit /\ [][Account!AccountNext]_<<LogEntries, Book>>
  BY <1>1, <1>2, AccountInit, PTL DEF Spec
<1>4. Spec => Account!AccountSpec
  BY <1>3 DEF Account!AccountSpec, Book
<1> QED BY <1>4 DEF ImplementsAccount

=============================================================================
