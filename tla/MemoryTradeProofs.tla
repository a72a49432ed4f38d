------------------------- MODULE MemoryTradeProofs -------------------------
(***************************************************************************)
(* Safety of MemoryTrade for every set of agents, every set of proposals   *)
(* and any number of orders.                                               *)
(***************************************************************************)
EXTENDS MemoryTrade, TLAPS

ServiceStep(a) == Serve(a) \/ \E p \in Proposals : Begin(a, p)

-----------------------------------------------------------------------------
(* Types. *)

LEMMA RequestType ==
  ASSUME TradeTypeOK, NEW a \in Agents, step[a] # "idle", request[a] \in Proposals
  PROVE  /\ Key(a) \in Keys /\ Side(a) \in {"BUY", "SELL"} /\ Order(a) \in Orders
         /\ Stored(a) \in Entries \cup {Missing}
         /\ [order |-> Order(a), side |-> Side(a)] \in Fills
         /\ [order |-> Order(a), proposal |-> request[a]] \in Entries
<1>1. Key(a) \in Keys /\ Side(a) \in {"BUY", "SELL"}
  BY ProposalAssumption DEF Key, Side
<1>2. Order(a) \in Orders
  BY DEF TradeTypeOK, Order, Orders
<1>3. Stored(a) \in Entries \cup {Missing}
  BY <1>1 DEF TradeTypeOK, Stored
<1> QED BY <1>1, <1>2, <1>3 DEF Fills, Entries

(* An agent that is not idle has a proposal, and the stored order it is about to
   return is there, for that proposal. *)
TypeInv ==
  /\ TradeTypeOK
  /\ \A a \in Agents : step[a] # "idle" => request[a] \in Proposals
  /\ \A a \in Agents : step[a] = "existing" =>
       Stored(a) # Missing /\ SameFingerprint(a, Stored(a))

LEMMA TypeInit == TradeInit => TypeInv
<1> SUFFICES ASSUME TradeInit PROVE TypeInv
  OBVIOUS
<1>1. portfolio \in [Agents -> SUBSET Fills]
  <2>1. \A a \in Agents : {[order |-> <<a, 0>>, side |-> "BUY"]} \in SUBSET Fills
    BY OrderAssumption DEF Fills, Orders
  <2>2. {{}} \cup {{[order |-> <<a, 0>>, side |-> "BUY"]} : a \in Agents} \subseteq SUBSET Fills
    BY <2>1
  <2>3. portfolio \in [Agents -> {{}} \cup {{[order |-> <<a, 0>>, side |-> "BUY"]} : a \in Agents}]
    BY DEF TradeInit
  <2> QED BY <2>2, <2>3
<1>2. TradeTypeOK
  BY <1>1, OrderAssumption DEF TradeInit, TradeTypeOK, Steps, Outcomes
<1> QED BY <1>2 DEF TradeInit, TypeInv

(* An agent's step concerns its own variables, and the store if it commits or
   initialises the risk state. *)
LEMMA StepEffect ==
  ASSUME TypeInv, NEW a \in Agents, ServiceStep(a)
  PROVE  /\ \/ Commit(a)
            \/ /\ UNCHANGED <<index, latest, log>>
               /\ riskVersion' = riskVersion \/ (riskVersion = 0 /\ riskVersion' = 1)
         /\ \A b \in Agents : b # a =>
              /\ portfolio'[b] = portfolio[b] /\ step'[b] = step[b]
              /\ orders'[b] = orders[b] /\ request'[b] = request[b]
              /\ expected'[b] = expected[b] /\ outcome'[b] = outcome[b]
              /\ result'[b] = result[b]
<1> USE DEF Goto, Answer, Reject, store, OnACopy
<1>0. /\ portfolio \in [Agents -> SUBSET Fills] /\ step \in [Agents -> Steps]
      /\ orders \in [Agents -> 0..MaxOrders] /\ request \in [Agents -> Proposals \cup {Missing}]
      /\ expected \in [Agents -> Nat] /\ outcome \in [Agents -> Outcomes]
      /\ result \in [Agents -> Orders \cup {Missing}]
  BY DEF TypeInv, TradeTypeOK
<1>1. CASE \E p \in Proposals : Begin(a, p)
  BY <1>0, <1>1 DEF Begin
<1>2. CASE PreValidationFails(a) \/ Lookup(a) \/ ReadRisk(a)
  BY <1>0, <1>2 DEF PreValidationFails, Lookup, ReadRisk
<1>3. CASE InitRisk(a) \/ RiskRejects(a) \/ Commit(a)
  BY <1>0, <1>3 DEF InitRisk, RiskRejects, Commit
<1>4. CASE CommitRefused(a) \/ ReturnExisting(a) \/ Apply(a)
  BY <1>0, <1>4 DEF CommitRefused, ReturnExisting, Apply
<1> QED BY <1>1, <1>2, <1>3, <1>4 DEF ServiceStep, Serve

(* A key is claimed once and for all. *)
LEMMA StoredStays ==
  ASSUME TypeInv, NEW a \in Agents, ServiceStep(a),
         NEW b \in Agents, request'[b] = request[b], request[b] \in Proposals,
         Stored(b) # Missing
  PROVE  Stored(b)' = Stored(b)
<1>1. Key(b) \in Keys
  BY ProposalAssumption DEF Key
<1>2. CASE Commit(a)
  <2>1. Stored(a) = Missing
    BY <1>2 DEF Commit
  <2>2. request[b] \notin Unkeyed /\ index[Key(b)] # Missing
    BY DEF Stored
  <2>3. index'[Key(b)] = index[Key(b)]
    BY <1>1, <1>2, <2>1, <2>2 DEF Commit, Stored, TypeInv, TradeTypeOK
  <2> QED BY <2>2, <2>3 DEF Stored, Key
<1>3. CASE index' = index
  BY <1>3 DEF Stored, Key
<1> QED BY <1>2, <1>3, StepEffect

LEMMA StepType ==
  ASSUME TypeInv, NEW a \in Agents, ServiceStep(a)
  PROVE  TypeInv'
<1> USE DEF Goto, Answer, Reject, store, OnACopy
<1>0. /\ riskVersion \in Nat /\ index \in [Keys -> Entries \cup {Missing}]
      /\ latest \subseteq Fills /\ portfolio \in [Agents -> SUBSET Fills]
      /\ step \in [Agents -> Steps] /\ orders \in [Agents -> 0..MaxOrders]
      /\ request \in [Agents -> Proposals \cup {Missing}] /\ expected \in [Agents -> Nat]
      /\ outcome \in [Agents -> Outcomes] /\ result \in [Agents -> Orders \cup {Missing}]
      /\ log \in Seq(Entries) /\ TradeTypeOK
      /\ \A b \in Agents : step[b] # "idle" => request[b] \in Proposals
  BY DEF TypeInv, TradeTypeOK
<1>1. ASSUME step[a] # "idle"
      PROVE  /\ Key(a) \in Keys /\ Order(a) \in Orders /\ Stored(a) \in Entries \cup {Missing}
             /\ [order |-> Order(a), side |-> Side(a)] \in Fills
             /\ [order |-> Order(a), proposal |-> request[a]] \in Entries
             /\ Stored(a) # Missing => Stored(a).order \in Orders
  BY <1>0, <1>1, RequestType DEF Entries
<1>2. TradeTypeOK' /\ (step'[a] # "idle" => request'[a] \in Proposals)
  <2>1. CASE \E p \in Proposals : Begin(a, p)
    <3>1. PICK p \in Proposals : Begin(a, p)
      BY <2>1
    <3>2. orders' \in [Agents -> 0..MaxOrders]
      BY <1>0, <3>1, OrderAssumption DEF Begin
    <3> QED BY <1>0, <3>1, <3>2 DEF Begin, TradeTypeOK, Steps
  <2>2. CASE PreValidationFails(a) \/ RiskRejects(a)
    BY <1>0, <2>2 DEF PreValidationFails, RiskRejects, TradeTypeOK, Steps, Outcomes
  <2>3. CASE Lookup(a)
    <3>1. /\ step' \in [Agents -> Steps] /\ outcome' \in [Agents -> Outcomes]
          /\ result' \in [Agents -> Orders \cup {Missing}]
      BY <1>0, <1>1, <2>3 DEF Lookup, Steps, Outcomes
    <3> QED BY <1>0, <2>3, <3>1 DEF Lookup, TradeTypeOK
  <2>4. CASE ReadRisk(a) \/ InitRisk(a)
    <3>1. ReadRisk(a) => TradeTypeOK'
      BY <1>0 DEF ReadRisk, TradeTypeOK, Steps, Outcomes
    <3>2. CASE InitRisk(a)
      <4>1. step' \in [Agents -> Steps]
        BY <1>0, <3>2 DEF InitRisk, Steps
      <4>2. CASE riskVersion = 0
        <5>1. riskVersion' = 1 /\ expected' = [expected EXCEPT ![a] = 1]
          BY <3>2, <4>2 DEF InitRisk
        <5> QED BY <1>0, <3>2, <4>1, <5>1 DEF InitRisk, TradeTypeOK
      <4>3. CASE riskVersion # 0
        BY <1>0, <3>2, <4>1, <4>3 DEF InitRisk, TradeTypeOK
      <4> QED BY <4>2, <4>3
    <3>3. request' = request /\ (step'[a] # "idle" => step[a] # "idle")
      BY <1>0, <2>4 DEF ReadRisk, InitRisk
    <3> QED BY <1>0, <2>4, <3>1, <3>2, <3>3
  <2>5. CASE Commit(a)
    <3>1. Candidate(a) \subseteq Fills
      BY <1>0, <1>1, <2>5 DEF Candidate, Commit
    <3>2. index' \in [Keys -> Entries \cup {Missing}]
      BY <1>0, <1>1, <2>5 DEF Commit
    <3>3. log' \in Seq(Entries) /\ riskVersion' \in Nat
      BY <1>0, <1>1, <2>5 DEF Commit
    <3>4. step' \in [Agents -> Steps] /\ UNCHANGED <<outcome, result, orders, request, expected, portfolio>>
      BY <1>0, <2>5 DEF Commit, Steps
    <3>5. latest' \subseteq Fills
      BY <2>5, <3>1 DEF Commit
    <3>6. request[a] \in Proposals
      BY <1>0, <2>5 DEF Commit
    <3> QED BY <1>0, <3>2, <3>3, <3>4, <3>5, <3>6 DEF TradeTypeOK
  <2>6. CASE CommitRefused(a)
    BY <1>0, <2>6 DEF CommitRefused, TradeTypeOK, Steps, Outcomes
  <2>7. CASE ReturnExisting(a)
    <3>1. ExistingOrder(a) \in Orders
      BY <1>1, <2>7 DEF ReturnExisting, ExistingOrder, TypeInv
    <3> QED BY <1>0, <2>7, <3>1 DEF ReturnExisting, TradeTypeOK, Steps, Outcomes
  <2>8. CASE Apply(a)
    <3>1. Candidate(a) \subseteq Fills
      BY <1>0, <1>1, <2>8 DEF Candidate, Apply
    <3> QED BY <1>0, <1>1, <2>8, <3>1 DEF Apply, TradeTypeOK, Steps, Outcomes
  <2> QED BY <2>1, <2>2, <2>3, <2>4, <2>5, <2>6, <2>7, <2>8 DEF ServiceStep, Serve
<1>3. ASSUME NEW b \in Agents, step'[b] # "idle" PROVE request'[b] \in Proposals
  BY <1>0, <1>2, <1>3, StepEffect
<1>4. ASSUME NEW b \in Agents, step'[b] = "existing"
      PROVE  Stored(b)' # Missing /\ SameFingerprint(b, Stored(b))'
  <2>1. /\ request'[b] = request[b] /\ request[b] \in Proposals
        /\ Stored(b) # Missing /\ SameFingerprint(b, Stored(b))
    <3>1. CASE b = a
      <4>1. CommitRefused(a)
        BY <1>0, <1>4, <3>1
           DEF ServiceStep, Serve, Begin, PreValidationFails, Lookup, ReadRisk, InitRisk,
               RiskRejects, Commit, CommitRefused, ReturnExisting, Apply
      <4> QED BY <1>0, <1>4, <3>1, <4>1 DEF CommitRefused
    <3>2. CASE b # a
      BY <1>0, <1>4, <3>2, StepEffect DEF TypeInv
    <3> QED BY <3>1, <3>2
  <2>2. Stored(b)' = Stored(b)
    BY <2>1, StoredStays
  <2> QED BY <2>1, <2>2 DEF SameFingerprint
<1> QED BY <1>2, <1>3, <1>4 DEF TypeInv

LEMMA TypeNext == TypeInv /\ [TradeNext]_tradeVars => TypeInv'
<1> SUFFICES ASSUME TypeInv, [TradeNext]_tradeVars PROVE TypeInv'
  OBVIOUS
<1>1. CASE UNCHANGED tradeVars
  BY <1>1 DEF tradeVars, store, TypeInv, TradeTypeOK, Stored, Key, SameFingerprint
<1>2. ASSUME NEW a \in Agents, ServiceStep(a) PROVE TypeInv'
  BY <1>2, StepType
<1> QED BY <1>1, <1>2 DEF TradeNext, ServiceStep

-----------------------------------------------------------------------------
(* The risk-state version. *)

VersionInv ==
  /\ VersionCountsCommits
  /\ \A a \in Agents : expected[a] <= riskVersion

LEMMA VersionInit == TradeInit => VersionInv
BY DEF TradeInit, VersionInv, VersionCountsCommits

LEMMA VersionStep ==
  ASSUME TypeInv, VersionInv, NEW a \in Agents, ServiceStep(a)
  PROVE  VersionInv' /\ riskVersion <= riskVersion'
<1>0. /\ riskVersion \in Nat /\ riskVersion' \in Nat /\ expected \in [Agents -> Nat]
      /\ expected' \in [Agents -> Nat] /\ log \in Seq(Entries)
  BY StepType DEF TypeInv, TradeTypeOK
<1>1. CASE Commit(a)
  <2>1. riskVersion > 0 /\ riskVersion' = riskVersion + 1 /\ expected' = expected
    BY <1>1 DEF Commit, VersionMatches
  <2>2. Len(log') = Len(log) + 1
    BY <1>0, <1>1 DEF Commit
  <2>3. Len(log) = riskVersion - 1
    BY <2>1 DEF VersionInv, VersionCountsCommits
  <2> QED BY <1>0, <2>1, <2>2, <2>3 DEF VersionInv, VersionCountsCommits
<1>2. CASE ~Commit(a)
  <2>1. log' = log /\ (riskVersion' = riskVersion \/ (riskVersion = 0 /\ riskVersion' = 1))
    BY <1>2, StepEffect
  <2>2. \A b \in Agents : b # a => expected'[b] = expected[b]
    BY StepEffect
  <2>3. expected'[a] <= riskVersion'
    <3>1. CASE ReadRisk(a)
      BY <1>0, <3>1 DEF ReadRisk, store
    <3>2. CASE InitRisk(a)
      <4>1. CASE riskVersion = 0
        BY <1>0, <3>2, <4>1 DEF InitRisk
      <4>2. CASE riskVersion # 0
        BY <1>0, <3>2, <4>2 DEF InitRisk, VersionInv
      <4> QED BY <4>1, <4>2
    <3>3. CASE ~ReadRisk(a) /\ ~InitRisk(a)
      <4>1. expected' = expected
        BY <1>2, <3>3 DEF ServiceStep, Serve, Begin, PreValidationFails, Lookup, RiskRejects,
                          CommitRefused, ReturnExisting, Apply
      <4> QED BY <1>0, <2>1, <4>1 DEF VersionInv
    <3> QED BY <3>1, <3>2, <3>3
  <2>4. VersionCountsCommits'
    <3>1. CASE riskVersion' = riskVersion
      BY <2>1, <3>1 DEF VersionInv, VersionCountsCommits
    <3>2. CASE riskVersion = 0 /\ riskVersion' = 1
      <4>1. log' = <<>>
        BY <2>1, <3>2 DEF VersionInv, VersionCountsCommits
      <4>2. Len(log') = 0
        BY <4>1
      <4> QED BY <3>2, <4>2 DEF VersionCountsCommits
    <3> QED BY <2>1, <3>1, <3>2
  <2> QED BY <1>0, <2>1, <2>2, <2>3, <2>4 DEF VersionInv
<1> QED BY <1>1, <1>2

LEMMA VersionNext == TypeInv /\ VersionInv /\ [TradeNext]_tradeVars => VersionInv'
<1> SUFFICES ASSUME TypeInv, VersionInv, [TradeNext]_tradeVars PROVE VersionInv'
  OBVIOUS
<1>1. CASE UNCHANGED tradeVars
  BY <1>1 DEF tradeVars, store, VersionInv, VersionCountsCommits
<1>2. ASSUME NEW a \in Agents, ServiceStep(a) PROVE VersionInv'
  BY <1>2, VersionStep
<1> QED BY <1>1, <1>2 DEF TradeNext, ServiceStep

-----------------------------------------------------------------------------
(* The index and the log. *)

Entry(a) == [order |-> Order(a), proposal |-> request[a]]

(* The index holds the order stored under each key, an order is stored under the
   proposal it was built for, and an agent whose order is not yet stored builds
   one that nobody else has. *)
LedgerInv ==
  /\ \A n \in 1..Len(log) : log[n].proposal \notin Unkeyed =>
       index[KeyOf[log[n].proposal]] = log[n]
  /\ \A k \in Keys : index[k] # Missing => \E n \in 1..Len(log) : log[n] = index[k]
  /\ \A n \in 1..Len(log) : log[n].order[2] \in 1..orders[log[n].order[1]]
  /\ \A a \in Agents : \A n \in 1..Len(log) :
       log[n].order = Order(a) => step[a] \in {"idle", "apply"} /\ log[n] = Entry(a)
  /\ \A a \in Agents : step[a] = "apply" => \E n \in 1..Len(log) : log[n] = Entry(a)
  /\ \A a \in Agents : step[a] # "idle" => orders[a] > 0

LEMMA LedgerInit == TradeInit => LedgerInv
BY DEF TradeInit, LedgerInv

LEMMA LogGrows ==
  ASSUME TypeInv, NEW a \in Agents, ServiceStep(a)
  PROVE  /\ Len(log) \in Nat /\ Len(log') \in Nat /\ Len(log) <= Len(log')
         /\ \A n \in 1..Len(log) : log[n] \in Entries /\ log'[n] = log[n]
         /\ Commit(a) => Len(log') = Len(log) + 1 /\ log'[Len(log) + 1] = Entry(a)
                         /\ Entry(a) \in Entries
         /\ ~Commit(a) => log' = log /\ index' = index
<1>1. log \in Seq(Entries)
  BY DEF TypeInv, TradeTypeOK
<1>2. CASE Commit(a)
  <2>1. step[a] # "idle" /\ log' = Append(log, Entry(a))
    BY <1>2 DEF Commit, Entry
  <2>2. Entry(a) \in Entries
    BY <2>1, RequestType DEF TypeInv, Entry
  <2> QED BY <1>1, <1>2, <2>1, <2>2
<1>3. CASE ~Commit(a)
  <2>1. log' = log /\ index' = index
    BY <1>3, StepEffect
  <2> QED BY <1>1, <1>3, <2>1
<1> QED BY <1>2, <1>3

LEMMA LedgerStep ==
  ASSUME TypeInv, LedgerInv, NEW a \in Agents, ServiceStep(a)
  PROVE  LedgerInv'
<1>0. /\ index \in [Keys -> Entries \cup {Missing}] /\ orders \in [Agents -> 0..MaxOrders]
      /\ step \in [Agents -> Steps] /\ request \in [Agents -> Proposals \cup {Missing}]
  BY DEF TypeInv, TradeTypeOK
<1>1. \A n \in 1..Len(log) : /\ log[n] \in Entries /\ log'[n] = log[n] /\ n \in 1..Len(log')
                             /\ log[n].order[1] \in Agents /\ log[n].proposal \in Proposals
  BY LogGrows DEF Entries, Orders
<1>2. \A b \in Agents : b # a => /\ Order(b)' = Order(b) /\ Entry(b)' = Entry(b)
                                 /\ step'[b] = step[b] /\ orders'[b] = orders[b]
  BY StepEffect DEF Order, Entry
<1>3. Missing \notin Entries
  BY MissingAssumption
<1>4. ~(\E p \in Proposals : Begin(a, p)) =>
        Order(a)' = Order(a) /\ Entry(a)' = Entry(a) /\ orders' = orders /\ step[a] # "idle"
  BY DEF ServiceStep, Serve, PreValidationFails, Lookup, ReadRisk, InitRisk, RiskRejects,
         Commit, CommitRefused, ReturnExisting, Apply, Order, Entry
<1>5. CASE Commit(a)
  <2>1. /\ Len(log) \in Nat /\ Len(log') = Len(log) + 1 /\ log'[Len(log) + 1] = Entry(a)
        /\ Entry(a) \in Entries
    BY <1>5, LogGrows
  <2>2. /\ step[a] = "execute" /\ step'[a] = "apply" /\ orders' = orders
        /\ Order(a)' = Order(a) /\ Entry(a)' = Entry(a) /\ Stored(a) = Missing
        /\ request[a] \in Proposals
        /\ index' = IF request[a] \in Unkeyed THEN index ELSE [index EXCEPT ![Key(a)] = Entry(a)]
    BY <1>0, <1>5 DEF Commit, Goto, Order, Entry, TypeInv
  <2>3. Key(a) \in Keys /\ Order(a)[1] = a /\ Order(a)[2] = orders[a]
        /\ Entry(a).order = Order(a) /\ Entry(a).proposal = request[a]
    BY <2>2, ProposalAssumption DEF Key, Order, Entry
  <2>4. \A n \in 1..Len(log') : n \in 1..Len(log) \/ n = Len(log) + 1
    BY <2>1
  <2>5. \A k \in Keys : index[k] # Missing => index'[k] = index[k]
    BY <1>0, <2>2, <2>3 DEF Stored
  <2>6. ASSUME NEW n \in 1..Len(log'), log'[n].proposal \notin Unkeyed
        PROVE  index'[KeyOf[log'[n].proposal]] = log'[n]
    <3>1. CASE n \in 1..Len(log)
      <4>1. index[KeyOf[log[n].proposal]] = log[n] /\ KeyOf[log[n].proposal] \in Keys
        BY <1>1, <2>6, <3>1, ProposalAssumption DEF LedgerInv
      <4> QED BY <1>1, <1>3, <2>5, <3>1, <4>1
    <3>2. CASE n = Len(log) + 1
      BY <1>0, <2>1, <2>2, <2>3, <2>6, <3>2 DEF Key
    <3> QED BY <2>4, <3>1, <3>2
  <2>7. ASSUME NEW k \in Keys, index'[k] # Missing
        PROVE  \E n \in 1..Len(log') : log'[n] = index'[k]
    <3>1. CASE index'[k] = Entry(a)
      BY <2>1, <3>1
    <3>2. CASE index'[k] # Entry(a)
      <4>1. index'[k] = index[k]
        BY <1>0, <2>2, <2>3, <3>2
      <4> QED BY <1>1, <2>7, <4>1 DEF LedgerInv
    <3> QED BY <3>1, <3>2
  <2>8. \A n \in 1..Len(log') : log'[n].order[2] \in 1..orders'[log'[n].order[1]]
    BY <1>0, <1>1, <2>1, <2>2, <2>3, <2>4 DEF LedgerInv
  <2>9. ASSUME NEW b \in Agents, NEW n \in 1..Len(log'), log'[n].order = Order(b)'
        PROVE  step'[b] \in {"idle", "apply"} /\ log'[n] = Entry(b)'
    <3>1. CASE b = a
      BY <1>1, <2>1, <2>2, <2>4, <2>9, <3>1 DEF LedgerInv
    <3>2. CASE b # a
      <4>1. n \in 1..Len(log)
        BY <1>2, <2>1, <2>3, <2>4, <2>9, <3>2 DEF Order
      <4> QED BY <1>1, <1>2, <2>9, <3>2, <4>1 DEF LedgerInv
    <3> QED BY <3>1, <3>2
  <2>10. ASSUME NEW b \in Agents, step'[b] = "apply"
         PROVE  \E n \in 1..Len(log') : log'[n] = Entry(b)'
    <3>1. CASE b = a
      BY <2>1, <2>2, <3>1
    <3>2. CASE b # a
      BY <1>1, <1>2, <2>10, <3>2 DEF LedgerInv
    <3> QED BY <3>1, <3>2
  <2>11. \A b \in Agents : step'[b] # "idle" => orders'[b] > 0
    BY <1>2, <2>2 DEF LedgerInv
  <2> QED BY <2>6, <2>7, <2>8, <2>9, <2>10, <2>11 DEF LedgerInv
<1>6. CASE ~Commit(a)
  <2>1. log' = log /\ index' = index
    BY <1>6, LogGrows
  <2>2. /\ orders'[a] >= orders[a]
        /\ step'[a] # "idle" => orders'[a] > 0
        /\ step'[a] = "apply" => step[a] = "apply" /\ Entry(a)' = Entry(a)
    BY <1>0, <1>4, <1>6
       DEF LedgerInv, ServiceStep, Serve, Begin, PreValidationFails, Lookup, ReadRisk, InitRisk,
           RiskRejects, CommitRefused, ReturnExisting, Apply, Goto, Answer, Reject
  <2>3. \A b \in Agents : orders'[b] \in Int /\ orders[b] \in Int /\ orders'[b] >= orders[b]
    <3>1. orders' \in [Agents -> 0..MaxOrders]
      BY StepType DEF TypeInv, TradeTypeOK
    <3>2. \A b \in Agents : orders[b] \in Int /\ orders'[b] \in Int
      BY <1>0, <3>1, OrderAssumption
    <3> QED BY <1>2, <2>2, <3>2
  <2>4. \A n \in 1..Len(log) : log[n].order[2] \in 1..orders'[log[n].order[1]]
    BY <1>1, <2>3 DEF LedgerInv
  <2>5. ASSUME NEW b \in Agents, NEW n \in 1..Len(log), log[n].order = Order(b)'
        PROVE  step'[b] \in {"idle", "apply"} /\ log[n] = Entry(b)'
    <3>1. CASE b = a
      <4>1. CASE \E p \in Proposals : Begin(a, p)
        <5>1. orders'[a] = orders[a] + 1 /\ log[n].order[1] = a /\ log[n].order[2] = orders'[a]
          BY <1>0, <2>5, <3>1, <4>1 DEF Begin, Order
        <5> QED BY <1>0, <5>1 DEF LedgerInv
      <4>2. CASE ~(\E p \in Proposals : Begin(a, p))
        <5>1. log[n] = Entry(a) /\ step[a] = "apply"
          BY <1>4, <2>5, <3>1, <4>2 DEF LedgerInv
        <5>2. step'[a] = "idle"
          BY <1>0, <1>6, <4>2, <5>1
             DEF ServiceStep, Serve, PreValidationFails, Lookup, ReadRisk, InitRisk,
                 RiskRejects, CommitRefused, ReturnExisting, Apply, Answer
        <5> QED BY <1>4, <3>1, <4>2, <5>1, <5>2
      <4> QED BY <4>1, <4>2
    <3>2. CASE b # a
      BY <1>2, <2>5, <3>2 DEF LedgerInv
    <3> QED BY <3>1, <3>2
  <2>6. \A b \in Agents : step'[b] = "apply" => \E n \in 1..Len(log) : log[n] = Entry(b)'
    BY <1>2, <2>2 DEF LedgerInv
  <2>7. \A b \in Agents : step'[b] # "idle" => orders'[b] > 0
    BY <1>2, <2>2 DEF LedgerInv
  <2>8. /\ \A n \in 1..Len(log) : log[n].proposal \notin Unkeyed =>
             index[KeyOf[log[n].proposal]] = log[n]
        /\ \A k \in Keys : index[k] # Missing => \E n \in 1..Len(log) : log[n] = index[k]
    BY DEF LedgerInv
  <2> QED BY <2>1, <2>4, <2>5, <2>6, <2>7, <2>8 DEF LedgerInv
<1> QED BY <1>5, <1>6

LEMMA LedgerNext == TypeInv /\ LedgerInv /\ [TradeNext]_tradeVars => LedgerInv'
<1> SUFFICES ASSUME TypeInv, LedgerInv, [TradeNext]_tradeVars PROVE LedgerInv'
  OBVIOUS
<1>1. CASE UNCHANGED tradeVars
  BY <1>1 DEF tradeVars, store, LedgerInv, Order, Entry
<1>2. ASSUME NEW a \in Agents, ServiceStep(a) PROVE LedgerInv'
  BY <1>2, LedgerStep
<1> QED BY <1>1, <1>2 DEF TradeNext, ServiceStep

-----------------------------------------------------------------------------
(* The answers. *)

AnswerInv ==
  /\ ReturnedOrderIsStored
  /\ \A a \in Agents : step[a] = "idle" =>
       /\ outcome[a] = "IDEMPOTENCY_CONFLICT" =>
            request[a] \in Proposals /\ Stored(a) # Missing /\ Stored(a).proposal # request[a]
       /\ outcome[a] = "RISK_STATE_CONFLICT" => expected[a] < riskVersion
       /\ outcome[a] = "RISK_STATE_NOT_FOUND" => expected[a] = 0

LEMMA AnswerInit == TradeInit => AnswerInv
BY DEF TradeInit, AnswerInv, ReturnedOrderIsStored

LEMMA AnswerStep ==
  ASSUME TypeInv, VersionInv, LedgerInv, AnswerInv, NEW a \in Agents, ServiceStep(a)
  PROVE  AnswerInv'
<1> USE DEF Goto, Answer, Reject
<1>0. /\ step \in [Agents -> Steps] /\ outcome \in [Agents -> Outcomes]
      /\ result \in [Agents -> Orders \cup {Missing}] /\ riskVersion \in Nat
      /\ expected \in [Agents -> Nat] /\ riskVersion' \in Nat
      /\ orders \in [Agents -> 0..MaxOrders]
      /\ request \in [Agents -> Proposals \cup {Missing}]
  BY StepType DEF TypeInv, TradeTypeOK
<1>1. \A n \in 1..Len(log) : log'[n] = log[n] /\ n \in 1..Len(log')
  BY LogGrows
<1>2. ASSUME NEW b \in Agents, step'[b] = "idle", outcome'[b] = "COMMITTED"
      PROVE  \E n \in 1..Len(log) : log[n] = [order |-> result'[b], proposal |-> request'[b]]
  <2>1. CASE b # a
    BY <1>2, <2>1, StepEffect DEF AnswerInv, ReturnedOrderIsStored
  <2>2. CASE b = a
    <3>1. \/ Lookup(a) /\ Stored(a) # Missing /\ SameFingerprint(a, Stored(a))
             /\ result'[a] = Stored(a).order
          \/ ReturnExisting(a) /\ result'[a] = Stored(a).order
          \/ Apply(a) /\ result'[a] = Order(a)
      BY <1>0, <1>2, <2>2
         DEF ServiceStep, Serve, Begin, PreValidationFails, Lookup, ReadRisk, InitRisk,
             RiskRejects, Commit, CommitRefused, ReturnExisting, Apply, ExistingOrder
    <3>2. request' = request /\ step[a] # "idle" /\ request[a] \in Proposals
      BY <3>1 DEF Lookup, ReturnExisting, Apply, TypeInv
    <3>3. CASE Apply(a)
      BY <2>2, <3>1, <3>2, <3>3 DEF Apply, Lookup, ReturnExisting, LedgerInv, Entry
    <3>4. CASE ~Apply(a)
      <4>1. /\ Stored(a) # Missing /\ SameFingerprint(a, Stored(a))
            /\ result'[a] = Stored(a).order
        BY <3>1, <3>4 DEF ReturnExisting, TypeInv
      <4>2. Key(a) \in Keys /\ Stored(a) = index[Key(a)] /\ Stored(a) \in Entries
        BY <3>2, <4>1, RequestType DEF TypeInv, Stored
      <4>3. PICK n \in 1..Len(log) : log[n] = Stored(a)
        BY <4>1, <4>2 DEF LedgerInv
      <4>4. log[n] = [order |-> result'[a], proposal |-> request[a]]
        BY <4>1, <4>2, <4>3 DEF SameFingerprint, Entries
      <4> QED BY <2>2, <3>2, <4>4
    <3> QED BY <3>3, <3>4
  <2> QED BY <2>1, <2>2
<1>3. ASSUME NEW b \in Agents, step'[b] = "idle", outcome'[b] = "IDEMPOTENCY_CONFLICT"
      PROVE  request'[b] \in Proposals /\ Stored(b)' # Missing /\ Stored(b).proposal' # request'[b]
  <2>1. /\ request'[b] = request[b] /\ request[b] \in Proposals
        /\ Stored(b) # Missing /\ Stored(b).proposal # request[b]
    <3>1. CASE b = a
      <4>1. Lookup(a) \/ CommitRefused(a)
        BY <1>0, <1>3, <3>1
           DEF ServiceStep, Serve, Begin, PreValidationFails, Lookup, ReadRisk, InitRisk,
               RiskRejects, Commit, CommitRefused, ReturnExisting, Apply
      <4> QED BY <1>0, <1>3, <3>1, <4>1 DEF Lookup, CommitRefused, TypeInv, SameFingerprint
    <3>2. CASE b # a
      BY <1>3, <3>2, StepEffect DEF AnswerInv
    <3> QED BY <3>1, <3>2
  <2>2. Stored(b)' = Stored(b)
    BY <2>1, StoredStays
  <2> QED BY <2>1, <2>2
<1>4. ASSUME NEW b \in Agents, step'[b] = "idle", outcome'[b] = "RISK_STATE_CONFLICT"
      PROVE  expected'[b] < riskVersion'
  <2>1. riskVersion <= riskVersion'
    BY VersionStep
  <2>2. expected'[b] = expected[b] /\ expected[b] < riskVersion
    <3>1. CASE b = a
      <4>1. CommitRefused(a)
        BY <1>0, <1>4, <3>1
           DEF ServiceStep, Serve, Begin, PreValidationFails, Lookup, ReadRisk, InitRisk,
               RiskRejects, Commit, CommitRefused, ReturnExisting, Apply
      <4>2. expected' = expected /\ ~VersionMatches(a)
        BY <1>0, <1>4, <3>1, <4>1 DEF CommitRefused
      <4> QED BY <1>0, <3>1, <4>2 DEF VersionMatches, VersionInv
    <3>2. CASE b # a
      BY <1>4, <3>2, StepEffect DEF AnswerInv
    <3> QED BY <3>1, <3>2
  <2> QED BY <1>0, <2>1, <2>2
<1>5. ASSUME NEW b \in Agents, step'[b] = "idle", outcome'[b] = "RISK_STATE_NOT_FOUND"
      PROVE  expected'[b] = 0
  <2>1. CASE b = a
    <3>1. CommitRefused(a)
      BY <1>0, <1>5, <2>1
         DEF ServiceStep, Serve, Begin, PreValidationFails, Lookup, ReadRisk, InitRisk,
             RiskRejects, Commit, CommitRefused, ReturnExisting, Apply
    <3>2. expected' = expected /\ riskVersion = 0
      BY <1>0, <1>5, <2>1, <3>1 DEF CommitRefused
    <3> QED BY <1>0, <2>1, <3>2 DEF VersionInv
  <2>2. CASE b # a
    BY <1>5, <2>2, StepEffect DEF AnswerInv
  <2> QED BY <2>1, <2>2
<1>6. ReturnedOrderIsStored'
  <2>1. ASSUME NEW b \in Agents, step'[b] = "idle", outcome'[b] = "COMMITTED"
        PROVE  \E n \in 1..Len(log') : log'[n] = [order |-> result'[b], proposal |-> request'[b]]
    BY <1>1, <1>2, <2>1
  <2> QED BY <2>1 DEF ReturnedOrderIsStored
<1> QED BY <1>3, <1>4, <1>5, <1>6 DEF AnswerInv

LEMMA AnswerNext ==
  TypeInv /\ VersionInv /\ LedgerInv /\ AnswerInv /\ [TradeNext]_tradeVars => AnswerInv'
<1> SUFFICES ASSUME TypeInv, VersionInv, LedgerInv, AnswerInv, [TradeNext]_tradeVars
             PROVE  AnswerInv'
  OBVIOUS
<1>1. CASE UNCHANGED tradeVars
  BY <1>1 DEF tradeVars, store, AnswerInv, ReturnedOrderIsStored, Stored, Key
<1>2. ASSUME NEW a \in Agents, ServiceStep(a) PROVE AnswerInv'
  BY <1>2, AnswerStep
<1> QED BY <1>1, <1>2 DEF TradeNext, ServiceStep

-----------------------------------------------------------------------------
(* The portfolios. *)

OwnFill(a) == [order |-> Order(a), side |-> Side(a)]
Applied(a) == {f \in portfolio[a] : f.order[2] > 0}

(* The fill that an agent has stored and not yet applied is the only difference. *)
PortfolioInv ==
  \A a \in Agents :
    OwnCommits(a) = Applied(a) \cup IF step[a] = "apply" THEN {OwnFill(a)} ELSE {}

LEMMA PortfolioInit == TradeInit => PortfolioInv
<1> SUFFICES ASSUME TradeInit, NEW a \in Agents PROVE OwnCommits(a) = {} /\ Applied(a) = {}
  BY DEF TradeInit, PortfolioInv
<1>1. OwnCommits(a) = {}
  BY DEF TradeInit, OwnCommits
<1>2. Applied(a) = {}
  BY DEF TradeInit, Applied
<1> QED BY <1>1, <1>2

LEMMA PortfolioStep ==
  ASSUME TypeInv, LedgerInv, PortfolioInv, NEW a \in Agents, ServiceStep(a)
  PROVE  PortfolioInv'
<1>0. /\ portfolio \in [Agents -> SUBSET Fills] /\ orders \in [Agents -> 0..MaxOrders]
      /\ step \in [Agents -> Steps]
  BY DEF TypeInv, TradeTypeOK
<1>1. \A b \in Agents : b # a => Applied(b)' = Applied(b) /\ OwnFill(b)' = OwnFill(b)
                                 /\ step'[b] = step[b]
  BY StepEffect DEF Applied, OwnFill, Order, Side
<1>2. CASE Commit(a)
  <2>1. /\ Len(log) \in Nat /\ Len(log') = Len(log) + 1 /\ log'[Len(log) + 1] = Entry(a)
        /\ \A n \in 1..Len(log) : log'[n] = log[n]
    BY <1>2, LogGrows
  <2>2. Entry(a).order = Order(a) /\ Order(a)[1] = a /\ SideOf[Entry(a).proposal] = Side(a)
    BY DEF Entry, Order, Side
  <2>3. /\ step[a] = "execute" /\ step'[a] = "apply" /\ portfolio' = portfolio
        /\ OwnFill(a)' = OwnFill(a)
    BY <1>0, <1>2 DEF Commit, Goto, OnACopy, OwnFill, Order, Side
  <2>4. \A b \in Agents :
          OwnCommits(b)' = OwnCommits(b) \cup IF b = a THEN {OwnFill(a)} ELSE {}
    <3>1. ASSUME NEW b \in Agents
          PROVE  OwnCommits(b)' = OwnCommits(b) \cup IF b = a THEN {OwnFill(a)} ELSE {}
      <4>1. ASSUME NEW f \in OwnCommits(b)'
            PROVE  f \in OwnCommits(b) \cup IF b = a THEN {OwnFill(a)} ELSE {}
        <5>1. PICK n \in 1..Len(log') : /\ log'[n].order[1] = b
                 /\ f = [order |-> log'[n].order, side |-> SideOf[log'[n].proposal]]
          BY DEF OwnCommits
        <5>2. CASE n \in 1..Len(log)
          BY <2>1, <5>1, <5>2 DEF OwnCommits
        <5>3. CASE n = Len(log) + 1
          BY <2>1, <2>2, <5>1, <5>3 DEF OwnFill
        <5> QED BY <2>1, <5>2, <5>3
      <4>2. ASSUME NEW f \in OwnCommits(b) PROVE f \in OwnCommits(b)'
        <5>1. PICK n \in 1..Len(log) : /\ log[n].order[1] = b
                 /\ f = [order |-> log[n].order, side |-> SideOf[log[n].proposal]]
          BY DEF OwnCommits
        <5>2. n \in 1..Len(log') /\ log'[n] = log[n]
          BY <2>1
        <5> QED BY <5>1, <5>2 DEF OwnCommits
      <4>3. b = a => OwnFill(a) \in OwnCommits(b)'
        <5>1. Len(log) + 1 \in 1..Len(log')
          BY <2>1
        <5> QED BY <2>1, <2>2, <5>1 DEF OwnCommits, OwnFill
      <4> QED BY <4>1, <4>2, <4>3
    <3> QED BY <3>1
  <2>5. Applied(a)' = Applied(a)
    BY <2>3 DEF Applied
  <2> QED BY <1>1, <2>3, <2>4, <2>5 DEF PortfolioInv
<1>3. CASE ~Commit(a)
  <2>1. \A b \in Agents : OwnCommits(b)' = OwnCommits(b)
    BY <1>3, LogGrows DEF OwnCommits
  <2>2. CASE Apply(a)
    <3>1. /\ step[a] = "apply" /\ step'[a] = "idle" /\ orders[a] > 0
          /\ portfolio'[a] = portfolio[a] \cup {OwnFill(a)}
      BY <1>0, <2>2 DEF Apply, Answer, Candidate, OwnFill, LedgerInv
    <3>2. OwnFill(a).order[2] > 0
      BY <3>1 DEF OwnFill, Order
    <3>3. Applied(a)' = Applied(a) \cup {OwnFill(a)}
      BY <3>1, <3>2 DEF Applied
    <3> QED BY <1>1, <2>1, <3>1, <3>3 DEF PortfolioInv
  <2>3. CASE ~Apply(a)
    <3>1. portfolio' = portfolio /\ step[a] # "apply" /\ step'[a] # "apply"
      BY <1>0, <1>3, <2>3
         DEF ServiceStep, Serve, Begin, PreValidationFails, Lookup, ReadRisk, InitRisk,
             RiskRejects, CommitRefused, ReturnExisting, Apply, Goto, Answer, Reject, OnACopy
    <3>2. Applied(a)' = Applied(a)
      BY <3>1 DEF Applied
    <3> QED BY <1>1, <2>1, <3>1, <3>2 DEF PortfolioInv
  <2> QED BY <2>2, <2>3
<1> QED BY <1>2, <1>3

LEMMA PortfolioNext ==
  TypeInv /\ LedgerInv /\ PortfolioInv /\ [TradeNext]_tradeVars => PortfolioInv'
<1> SUFFICES ASSUME TypeInv, LedgerInv, PortfolioInv, [TradeNext]_tradeVars
             PROVE  PortfolioInv'
  OBVIOUS
<1>1. CASE UNCHANGED tradeVars
  BY <1>1 DEF tradeVars, store, PortfolioInv, Applied, OwnFill, OwnCommits, Order, Side
<1>2. ASSUME NEW a \in Agents, ServiceStep(a) PROVE PortfolioInv'
  BY <1>2, PortfolioStep
<1> QED BY <1>1, <1>2 DEF TradeNext, ServiceStep

-----------------------------------------------------------------------------
(* The theorems. *)

TradeInv == TypeInv /\ VersionInv /\ LedgerInv /\ AnswerInv /\ PortfolioInv

LEMMA TradeInvInit == TradeInit => TradeInv
BY TypeInit, VersionInit, LedgerInit, AnswerInit, PortfolioInit DEF TradeInv

LEMMA TradeInvNext == TradeInv /\ [TradeNext]_tradeVars => TradeInv'
BY TypeNext, VersionNext, LedgerNext, AnswerNext, PortfolioNext DEF TradeInv

LEMMA TradeInvariance == TradeSpec => []TradeInv
BY TradeInvInit, TradeInvNext, PTL DEF TradeSpec

(* Every commit consumed a version of its own (tools.py:118-170, store.py:127-182),
   however many agents share the store. *)
THEOREM VersionSafety == TradeSpec => []VersionCountsCommits
<1>1. TradeInv => VersionCountsCommits
  BY DEF TradeInv, VersionInv
<1> QED BY <1>1, TradeInvariance, PTL

(* A COMMITTED answer is about a stored order of the same proposal (tools.py:90-103,
   281-287). *)
THEOREM StoredOrderSafety == TradeSpec => []ReturnedOrderIsStored
<1>1. TradeInv => ReturnedOrderIsStored
  BY DEF TradeInv, AnswerInv
<1> QED BY <1>1, TradeInvariance, PTL

(* A conflict is reported for its cause only (store.py:127-182). *)
THEOREM MemoryConflictSafety == TradeSpec => []ConflictNamesItsCause
<1>1. TradeInv => ConflictNamesItsCause
  BY DEF TradeInv, AnswerInv, VersionInv, TypeInv, TradeTypeOK, ConflictNamesItsCause
<1> QED BY <1>1, TradeInvariance, PTL

(* An agent's portfolio holds its own stored orders, each once
   (tools.py:311-328). *)
THEOREM PortfolioSafety == TradeSpec => []PortfolioAppliesOwnCommits
<1>1. TradeInv => PortfolioAppliesOwnCommits
  BY DEF TradeInv, PortfolioInv, PortfolioAppliesOwnCommits, Applied
<1> QED BY <1>1, TradeInvariance, PTL

LEMMA LedgerStepSimulation == TradeInv /\ [TradeNext]_tradeVars => [Ledger!Next]_log
<1> SUFFICES ASSUME TradeInv, [TradeNext]_tradeVars, log' # log
             PROVE  Ledger!Next
  BY DEF Ledger!Next
<1>1. PICK a \in Agents : ServiceStep(a)
  BY DEF TradeNext, ServiceStep, tradeVars, store
<1>2. Commit(a)
  BY <1>1, LogGrows DEF TradeInv
<1>3. /\ step[a] = "execute" /\ Stored(a) = Missing /\ log' = Append(log, Entry(a))
      /\ request[a] \in Proposals /\ Order(a) \in Orders
  BY <1>2, RequestType DEF Commit, Entry, TradeInv, TypeInv
<1>4. ASSUME NEW n \in 1..Len(log)
      PROVE  /\ log[n].order # Order(a)
             /\ request[a] \in Unkeyed \/ log[n].proposal \in Unkeyed
                \/ KeyOf[log[n].proposal] # KeyOf[request[a]]
  <2>1. log[n] \in Entries /\ log[n] # Missing
    BY <1>1, LogGrows, MissingAssumption DEF TradeInv
  <2>2. log[n].order # Order(a)
    BY <1>3 DEF TradeInv, LedgerInv
  <2>3. log[n].proposal \notin Unkeyed => index[KeyOf[log[n].proposal]] = log[n]
    BY DEF TradeInv, LedgerInv
  <2>4. request[a] \notin Unkeyed => index[KeyOf[request[a]]] = Missing
    BY <1>3 DEF Stored, Key
  <2> QED BY <2>1, <2>2, <2>3, <2>4
<1>5. Ledger!Commit(Order(a), request[a])
  BY <1>3, <1>4 DEF Ledger!Commit, Entry
<1> QED BY <1>3, <1>5 DEF Ledger!Next

(* The in-memory store implements the ledger: no key buys two orders. *)
THEOREM MemoryImplementsLedger == TradeSpec => ImplementsLedger
<1>1. TradeInit => Ledger!Init
  BY DEF TradeInit, Ledger!Init
<1> QED BY <1>1, LedgerStepSimulation, TradeInvariance, PTL
        DEF TradeSpec, ImplementsLedger, Ledger!Spec

=============================================================================
