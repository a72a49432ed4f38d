------------------------ MODULE AgentSessionProofs ------------------------
(***************************************************************************)
(* Safety of AgentSession for every set of agents, every limit and any     *)
(* number of runs.                                                         *)
(***************************************************************************)
EXTENDS AgentSession, MemoryTradeProofs, FiniteSetTheorems

(* A run uses the service as MemoryTrade allows: it begins a submission, serves
   one, or leaves it alone. *)
LEMMA SessionUsesService == [Next]_vars => [TradeNext]_tradeVars
<1> SUFFICES ASSUME [Next]_vars PROVE [TradeNext]_tradeVars
  OBVIOUS
<1>1. CASE UNCHANGED vars
  BY <1>1 DEF vars
<1>2. ASSUME NEW a \in Agents, Start(a) \/ Run(a) PROVE [TradeNext]_tradeVars
  <2>1. CASE Submit(a)
    BY <2>1 DEF Submit, TradeNext
  <2>2. CASE Serve(a)
    BY <2>2 DEF TradeNext
  <2>3. CASE ~Submit(a) /\ ~Serve(a)
    BY <1>2, <2>3 DEF Start, Run, LoadContext, LimitReached, ConverseFails, ProviderFails,
                      ToolAnswers, ToolOnlyReads, Decides, Advise, Malformed, Conclude,
                      MarketUnavailable, Finish
  <2> QED BY <2>1, <2>2, <2>3
<1> QED BY <1>1, <1>2 DEF Next

(* So what MemoryTradeProofs proves of the service holds while agents run. *)
THEOREM SessionSafety ==
  Spec => [](VersionCountsCommits /\ ReturnedOrderIsStored /\ PortfolioAppliesOwnCommits
             /\ ConflictNamesItsCause) /\ ImplementsLedger
<1>1. Spec => TradeSpec
  <2>1. Init => TradeInit
    BY DEF Init
  <2> QED BY <2>1, SessionUsesService, PTL DEF Spec, TradeSpec
<1> QED BY <1>1, VersionSafety, StoredOrderSafety, PortfolioSafety, MemoryConflictSafety,
           MemoryImplementsLedger, PTL

-----------------------------------------------------------------------------
(* Types. *)

(* Only a run of the orchestrator that decided to trade fetches a price for it. *)
TradesWhenDecided ==
  \A a \in Agents : at[a] \in {"fetch", "submitting"} =>
    mode[a] = "trade" /\ decision[a] \in {"BUY", "SELL"}

LEMMA RunTypeStep ==
  ASSUME TypeInv, RunTypeOK, TradesWhenDecided, NEW a \in Agents, Start(a) \/ Run(a)
  PROVE  RunTypeOK'
<1> USE DEF RunTypeOK, Places, Actions, MoveTo, Return
<1>0. orders \in [Agents -> 0..MaxOrders]
  BY DEF TypeInv, TradeTypeOK
<1>1. CASE Start(a)
  <2>1. before' \in [Agents -> 0..MaxOrders] /\ runs' \in 0..MaxRuns
    BY <1>0, <1>1, LimitAssumption DEF Start
  <2> QED BY <1>1, <2>1 DEF Start
<1>2. CASE LoadContext(a)
  BY <1>2 DEF LoadContext
<1>3. CASE LimitReached(a) \/ ConverseFails(a)
  <2>1. ProviderFails(a)
    BY <1>3 DEF LimitReached, ConverseFails
  <2>2. iterations' \in [Agents -> 0..MaxIterations] /\ toolCalls' \in [Agents -> 0..MaxToolCalls]
    BY <2>1, LimitAssumption DEF ProviderFails, LeaveLoop
  <2>3. rounds' \in [Agents -> 0..MaxRounds] /\ decision' \in [Agents -> Actions \cup {"MALFORMED"}]
    BY <2>1, LimitAssumption DEF ProviderFails, LeaveRun, LeaveRounds
  <2> QED BY <2>1, <2>2, <2>3 DEF ProviderFails
<1>4. CASE ToolAnswers(a)
  <2>1. iterations' \in [Agents -> 0..MaxIterations] /\ toolCalls' \in [Agents -> 0..MaxToolCalls]
    BY <1>4, LimitAssumption DEF ToolAnswers, MayConverse
  <2> QED BY <1>4, <2>1 DEF ToolAnswers
<1>5. CASE Decides(a)
  <2>1. iterations' \in [Agents -> 0..MaxIterations] /\ toolCalls' \in [Agents -> 0..MaxToolCalls]
    BY <1>5, LimitAssumption DEF Decides, LeaveLoop
  <2>2. decision' \in [Agents -> Actions \cup {"MALFORMED"}]
    BY <1>5 DEF Decides
  <2> QED BY <1>5, <2>1, <2>2 DEF Decides
<1>6. CASE Advise(a)
  <2>1. Suppressed(decision[a]) \in Actions
    BY DEF Suppressed
  <2>2. rounds' \in [Agents -> 0..MaxRounds]
    BY <1>6, LimitAssumption DEF Advise, LeaveRun, LeaveRounds
  <2> QED BY <1>6, <2>1, <2>2 DEF Advise, LeaveRun
<1>7. CASE Malformed(a)
  <2>1. rounds' \in [Agents -> 0..MaxRounds]
    BY <1>7, LimitAssumption DEF Malformed, AskAgain, LeaveRounds
  <2> QED BY <1>7, <2>1 DEF Malformed, AskAgain
<1>8. CASE Conclude(a)
  <2>1. rounds' \in [Agents -> 0..MaxRounds]
    BY <1>8, LimitAssumption DEF Conclude, LeaveRun, LeaveRounds
  <2>2. decision[a] \in Actions
    BY <1>8 DEF Conclude
  <2> QED BY <1>8, <2>1, <2>2 DEF Conclude, LeaveRun
<1>9. CASE MarketUnavailable(a) \/ Finish(a)
  <2>1. rounds' \in [Agents -> 0..MaxRounds]
    BY <1>9, LimitAssumption DEF MarketUnavailable, Finish, LeaveRun, LeaveRounds
  <2>2. MarketUnavailable(a) => RunTypeOK'
    BY <2>1 DEF MarketUnavailable, LeaveRun
  <2>3. Finish(a) => decision[a] \in Actions
    BY DEF Finish, TradesWhenDecided
  <2>4. Finish(a) => RunTypeOK'
    BY <2>1, <2>3 DEF Finish, LeaveRun
  <2> QED BY <1>9, <2>2, <2>4
<1>10. CASE Submit(a)
  BY <1>10 DEF Submit
<1>11. CASE Serve(a) /\ UNCHANGED runVars
  BY <1>11 DEF runVars
<1> QED BY <1>1, <1>2, <1>3, <1>4, <1>5, <1>6, <1>7, <1>8, <1>9, <1>10, <1>11 DEF Run

(* A step of a run concerns its own agent. *)
LEMMA RunEffect ==
  ASSUME RunTypeOK, NEW a \in Agents, Start(a) \/ Run(a)
  PROVE  \A b \in Agents : b # a =>
           /\ at'[b] = at[b] /\ mode'[b] = mode[b] /\ decision'[b] = decision[b]
           /\ answer'[b] = answer[b] /\ before'[b] = before[b]
<1> USE DEF MoveTo, Return, LeaveRun
<1>0. /\ at \in [Agents -> Places] /\ mode \in [Agents -> {"trade", "analyze"}]
      /\ decision \in [Agents -> Actions \cup {"MALFORMED"}]
      /\ answer \in [Agents -> Actions \cup {"NONE", "ERROR"}]
      /\ before \in [Agents -> 0..MaxOrders]
  BY DEF RunTypeOK
<1>1. CASE Start(a) \/ LoadContext(a) \/ Submit(a) \/ (Serve(a) /\ UNCHANGED runVars)
  BY <1>0, <1>1 DEF Start, LoadContext, Submit, runVars
<1>2. CASE ProviderFails(a)
  BY <1>0, <1>2 DEF ProviderFails
<1>3. CASE ToolAnswers(a) \/ Decides(a)
  BY <1>0, <1>3 DEF ToolAnswers, Decides
<1>4. CASE Advise(a) \/ Malformed(a) \/ Conclude(a) \/ MarketUnavailable(a) \/ Finish(a)
  BY <1>0, <1>4 DEF Advise, Malformed, AskAgain, Conclude, MarketUnavailable, Finish
<1>5. LimitReached(a) \/ ConverseFails(a) => ProviderFails(a)
  BY DEF LimitReached, ConverseFails
<1> QED BY <1>1, <1>2, <1>3, <1>4, <1>5 DEF Run

LEMMA TradesStep ==
  ASSUME RunTypeOK, TradesWhenDecided, NEW a \in Agents, Start(a) \/ Run(a)
  PROVE  TradesWhenDecided'
<1> USE DEF MoveTo, Return, LeaveRun
<1>0. /\ at \in [Agents -> Places] /\ mode \in [Agents -> {"trade", "analyze"}]
      /\ decision \in [Agents -> Actions \cup {"MALFORMED"}]
  BY DEF RunTypeOK
<1>1. \A b \in Agents : b # a => at'[b] = at[b] /\ mode'[b] = mode[b] /\ decision'[b] = decision[b]
  BY RunEffect
<1>2. at'[a] \in {"fetch", "submitting"} => mode'[a] = "trade" /\ decision'[a] \in {"BUY", "SELL"}
  <2>1. CASE Start(a) \/ LoadContext(a)
    BY <1>0, <2>1 DEF Start, LoadContext
  <2>2. CASE Submit(a) \/ (Serve(a) /\ UNCHANGED runVars)
    BY <2>2 DEF Submit, runVars, TradesWhenDecided
  <2>3. CASE LimitReached(a) \/ ConverseFails(a) \/ ToolAnswers(a) \/ Decides(a)
    <3>1. CASE ProviderFails(a)
      BY <1>0, <3>1 DEF ProviderFails
    <3>2. CASE ToolAnswers(a) \/ Decides(a)
      BY <1>0, <3>2 DEF ToolAnswers, Decides
    <3>3. LimitReached(a) \/ ConverseFails(a) => ProviderFails(a)
      BY DEF LimitReached, ConverseFails
    <3> QED BY <2>3, <3>1, <3>2, <3>3
  <2>4. CASE Advise(a) \/ Malformed(a) \/ MarketUnavailable(a) \/ Finish(a)
    BY <1>0, <2>4 DEF Advise, Malformed, AskAgain, MarketUnavailable, Finish
  <2>5. CASE Conclude(a)
    BY <1>0, <2>5 DEF Conclude
  <2> QED BY <2>1, <2>2, <2>3, <2>4, <2>5 DEF Run
<1> QED BY <1>1, <1>2 DEF TradesWhenDecided

-----------------------------------------------------------------------------
(* Answers and orders. *)

Trades(o) == o \in {"BUY", "SELL"}
TradeSent(a) == at[a] = "submitting" \/ (at[a] = "idle" /\ Trades(answer[a]))

(* A run makes one order, when it submits a trade, of the side it decided. *)
OrderInv ==
  \A a \in Agents :
    /\ IF TradeSent(a)
       THEN /\ orders[a] = before[a] + 1
            /\ SideOf[request[a]] = IF at[a] = "idle" THEN answer[a] ELSE decision[a]
       ELSE orders[a] = before[a]
    /\ at[a] # "submitting" => step[a] = "idle"
    /\ at[a] = "idle" /\ mode[a] = "analyze" => ~Trades(answer[a])

LEMMA OrderStep ==
  ASSUME TypeInv, RunTypeOK, TradesWhenDecided, OrderInv, NEW a \in Agents, Start(a) \/ Run(a)
  PROVE  OrderInv'
<1> USE DEF MoveTo, Return, LeaveRun, Trades
<1>0. /\ at \in [Agents -> Places] /\ mode \in [Agents -> {"trade", "analyze"}]
      /\ decision \in [Agents -> Actions \cup {"MALFORMED"}]
      /\ answer \in [Agents -> Actions \cup {"NONE", "ERROR"}]
      /\ before \in [Agents -> 0..MaxOrders]
      /\ orders \in [Agents -> 0..MaxOrders] /\ step \in [Agents -> Steps]
      /\ request \in [Agents -> Proposals \cup {Missing}]
  BY DEF RunTypeOK, TypeInv, TradeTypeOK
<1>1. \A b \in Agents : b # a =>
        /\ at'[b] = at[b] /\ mode'[b] = mode[b] /\ decision'[b] = decision[b]
        /\ answer'[b] = answer[b] /\ before'[b] = before[b]
  BY RunEffect
<1>2. \A b \in Agents : b # a =>
        orders'[b] = orders[b] /\ step'[b] = step[b] /\ request'[b] = request[b]
  <2>1. CASE Submit(a)
    BY <1>0, <2>1 DEF Submit, Begin, Goto
  <2>2. CASE Serve(a)
    BY <2>2, StepEffect DEF ServiceStep
  <2>3. CASE ~Submit(a) /\ ~Serve(a)
    BY <2>3 DEF Start, Run, LoadContext, LimitReached, ConverseFails, ProviderFails, ToolAnswers,
                ToolOnlyReads, Decides, Advise, Malformed, Conclude, MarketUnavailable, Finish,
                tradeVars
  <2> QED BY <2>1, <2>2, <2>3
<1>3. ASSUME NEW b \in Agents, b # a
      PROVE  TradeSent(b)' <=> TradeSent(b)
  BY <1>1, <1>3 DEF TradeSent
<1> DEFINE Own == /\ IF TradeSent(a)
                     THEN /\ orders[a] = before[a] + 1
                          /\ SideOf[request[a]] = IF at[a] = "idle" THEN answer[a] ELSE decision[a]
                     ELSE orders[a] = before[a]
                  /\ at[a] # "submitting" => step[a] = "idle"
                  /\ at[a] = "idle" /\ mode[a] = "analyze" => ~Trades(answer[a])
<1>4. Own
  BY DEF OrderInv
<1>5. Own'
  <2>1. CASE Start(a) \/ LoadContext(a)
    BY <1>0, <1>4, <2>1 DEF Start, LoadContext, TradeSent, tradeVars
  <2>2. CASE LimitReached(a) \/ ConverseFails(a)
    BY <1>0, <1>4, <2>2 DEF LimitReached, ConverseFails, ProviderFails, TradeSent, tradeVars
  <2>3. CASE ToolAnswers(a) \/ Decides(a)
    BY <1>0, <1>4, <2>3 DEF ToolAnswers, ToolOnlyReads, Decides, TradeSent, tradeVars
  <2>4. CASE Advise(a)
    <3>1. ~Trades(Suppressed(decision[a]))
      BY DEF Suppressed
    <3> QED BY <1>0, <1>4, <2>4, <3>1 DEF Advise, TradeSent, tradeVars
  <2>5. CASE Malformed(a) \/ Conclude(a)
    BY <1>0, <1>4, <2>5 DEF Malformed, AskAgain, Conclude, TradeSent, tradeVars
  <2>6. CASE MarketUnavailable(a)
    BY <1>0, <1>4, <2>6 DEF MarketUnavailable, TradeSent, tradeVars
  <2>7. CASE Finish(a)
    BY <1>0, <1>4, <2>7 DEF Finish, TradeSent, TradesWhenDecided, tradeVars
  <2>8. CASE Submit(a)
    <3>1. PICK p \in Proposals : SideOf[p] = decision[a] /\ Begin(a, p)
      BY <2>8 DEF Submit
    <3>2. orders'[a] = before[a] + 1 /\ request'[a] = p
      BY <1>0, <1>4, <2>8, <3>1 DEF Submit, Begin, TradeSent
    <3> QED BY <1>0, <2>8, <3>1, <3>2 DEF Submit, TradeSent
  <2>9. CASE Serve(a) /\ UNCHANGED runVars
    <3>1. step[a] # "idle" /\ orders' = orders /\ request' = request
      BY <2>9 DEF Serve, PreValidationFails, Lookup, ReadRisk, InitRisk, RiskRejects, Commit,
                  CommitRefused, ReturnExisting, Apply
    <3>2. at[a] = "submitting"
      BY <1>4, <3>1
    <3> QED BY <1>4, <2>9, <3>1, <3>2 DEF runVars, TradeSent
  <2> QED BY <2>1, <2>2, <2>3, <2>4, <2>5, <2>6, <2>7, <2>8, <2>9 DEF Run
<1> QED BY <1>1, <1>2, <1>3, <1>5 DEF OrderInv

-----------------------------------------------------------------------------
(* The theorems. *)

RunInv == RunTypeOK /\ TradesWhenDecided /\ OrderInv

LEMMA RunInvInit == Init => RunInv
<1> SUFFICES ASSUME Init PROVE RunInv
  OBVIOUS
<1>1. RunTypeOK
  BY LimitAssumption, OrderAssumption DEF Init, RunTypeOK, Places, Actions
<1>2. TradesWhenDecided
  BY DEF Init, TradesWhenDecided
<1>3. OrderInv
  BY DEF Init, TradeInit, OrderInv, TradeSent, Trades
<1> QED BY <1>1, <1>2, <1>3 DEF RunInv

LEMMA RunInvNext == TypeInv /\ RunInv /\ [Next]_vars => RunInv'
<1> SUFFICES ASSUME TypeInv, RunInv, [Next]_vars PROVE RunInv'
  OBVIOUS
<1>1. CASE UNCHANGED vars
  BY <1>1 DEF vars, runVars, tradeVars, RunInv, RunTypeOK, TradesWhenDecided, OrderInv,
              TradeSent, Trades
<1>2. ASSUME NEW a \in Agents, Start(a) \/ Run(a) PROVE RunInv'
  BY <1>2, RunTypeStep, TradesStep, OrderStep DEF RunInv
<1> QED BY <1>1, <1>2 DEF Next

LEMMA SessionInvariance == Spec => [](TradeInv /\ RunInv)
<1>1. Init => TradeInv /\ RunInv
  BY TradeInvInit, RunInvInit DEF Init
<1>2. TradeInv /\ RunInv /\ [Next]_vars => TradeInv' /\ RunInv'
  BY TradeInvNext, RunInvNext, SessionUsesService DEF TradeInv
<1> QED BY <1>1, <1>2, PTL DEF Spec

(* Types, with the counters of the loops within their limits (config.py,
   bedrock_client.py:191, orchestrator.py:25). *)
THEOREM SessionTypes == Spec => []TypeOK
<1>1. TradeInv /\ RunInv => TypeOK
  BY DEF TradeInv, TypeInv, RunInv, TypeOK
<1> QED BY <1>1, SessionInvariance, PTL

(* What a run answers is what it stored: orchestrator.py:18-44 over
   bedrock_client.py:173-295 and tools.py. *)
THEOREM SessionAnswers == Spec => []AnswerMatchesLedger
<1>1. ASSUME TradeInv, RunInv, NEW a \in Agents, at[a] = "idle"
      PROVE  IF answer[a] \in {"BUY", "SELL"}
             THEN /\ Cardinality(RunOrders(a)) <= 1
                  /\ \A e \in RunOrders(a) : SideOf[e.proposal] = answer[a]
             ELSE RunOrders(a) = {}
  <2>1. orders[a] \in Int /\ before[a] \in Int
    BY <1>1, OrderAssumption DEF TradeInv, TypeInv, TradeTypeOK, RunInv, RunTypeOK
  <2>2. ASSUME NEW n \in 1..Len(log), log[n].order[1] = a, log[n].order[2] > before[a]
        PROVE  /\ answer[a] \in {"BUY", "SELL"} /\ log[n] = Entry(a)
               /\ SideOf[request[a]] = answer[a]
    <3>1. log[n] \in Entries /\ log[n].order[2] \in 1..orders[a]
      <4>1. log \in Seq(Entries)
        BY <1>1 DEF TradeInv, TypeInv, TradeTypeOK
      <4> QED BY <1>1, <2>2, <4>1 DEF TradeInv, LedgerInv
    <3>2. /\ orders[a] = before[a] + 1 /\ answer[a] \in {"BUY", "SELL"}
          /\ SideOf[request[a]] = answer[a]
      BY <1>1, <2>1, <2>2, <3>1 DEF RunInv, OrderInv, TradeSent, Trades
    <3>3. log[n].order = Order(a)
      BY <2>1, <2>2, <3>1, <3>2 DEF Entries, Orders, Order
    <3> QED BY <1>1, <3>2, <3>3 DEF TradeInv, LedgerInv
  <2>3. RunOrders(a) \subseteq {Entry(a)}
    BY <2>2 DEF RunOrders
  <2>4. RunOrders(a) # {} => answer[a] \in {"BUY", "SELL"} /\ SideOf[request[a]] = answer[a]
    BY <2>2 DEF RunOrders
  <2>5. Cardinality(RunOrders(a)) <= 1
    <3>1. RunOrders(a) = {} \/ RunOrders(a) = {Entry(a)}
      BY <2>3
    <3>2. Cardinality({}) = 0 /\ Cardinality({Entry(a)}) = 1
      BY FS_EmptySet, FS_Singleton
    <3> QED BY <3>1, <3>2
  <2> QED BY <2>3, <2>4, <2>5 DEF Entry
<1>2. TradeInv /\ RunInv => AnswerMatchesLedger
  BY <1>1 DEF AnswerMatchesLedger
<1> QED BY <1>2, SessionInvariance, PTL

=============================================================================
