---------------------------- MODULE AgentSession ----------------------------
(***************************************************************************)
(* Runs of the trading agents over the order service of MemoryTrade: the   *)
(* bounded tool loop of BedrockAgentModelProvider.get_decision             *)
(* (agent/bedrock_client.py), AgentOrchestrator.run (agent/orchestrator.py)*)
(* with its ToolRegistry (agent/tool_registry.py), and the analysis-only   *)
(* run of the Lambda (_analysis, agent/lambda_handler.py).                 *)
(*                                                                         *)
(* The model may answer anything.  A decision is known by its action until *)
(* the registry makes a proposal of it, at the price of the moment.        *)
(***************************************************************************)
EXTENDS MemoryTrade

CONSTANTS
  MaxIterations, MaxToolCalls,   \* max_agent_iterations, max_tool_calls
  MaxRounds,                     \* max_iterations of the orchestrator
  MaxRuns        \* bound on the runs of all the agents

ASSUME LimitAssumption ==
  /\ MaxIterations \in Nat /\ MaxToolCalls \in Nat /\ MaxRounds \in Nat \ {0}
  /\ MaxRuns \in Nat

VARIABLES
  at,           \* where the agent's run is
  mode,         \* "trade" (the orchestrator) or "analyze"
  iterations, toolCalls, rounds,
  decision,     \* the action of the provider's decision
  answer,       \* what the run returned
  runs, before  \* history: the runs, and the orders before the current one

runVars == <<at, mode, iterations, toolCalls, rounds, decision, answer, runs, before>>
vars == <<tradeVars, runVars>>

Actions == {"BUY", "SELL", "HOLD", "NO_TRADE"}
Places == {"idle", "load", "market", "converse", "deliver", "fetch", "submitting"}

RunTypeOK ==
  /\ at \in [Agents -> Places]
  /\ mode \in [Agents -> {"trade", "analyze"}]
  /\ iterations \in [Agents -> 0..MaxIterations]
  /\ toolCalls \in [Agents -> 0..MaxToolCalls]
  /\ rounds \in [Agents -> 0..MaxRounds]
  /\ decision \in [Agents -> Actions \cup {"MALFORMED"}]
  /\ answer \in [Agents -> Actions \cup {"NONE", "ERROR"}]
  /\ runs \in 0..MaxRuns
  /\ before \in [Agents -> 0..MaxOrders]

(* Every variable has its type, with the three counters within their limits. *)
TypeOK == TradeTypeOK /\ RunTypeOK

Init ==
  /\ TradeInit
  /\ at = [a \in Agents |-> "idle"]
  /\ mode = [a \in Agents |-> "trade"]
  /\ iterations = [a \in Agents |-> 0]
  /\ toolCalls = [a \in Agents |-> 0]
  /\ rounds = [a \in Agents |-> 0]
  /\ decision = [a \in Agents |-> "MALFORMED"]
  /\ answer = [a \in Agents |-> "NONE"]
  /\ runs = 0
  /\ before = [a \in Agents |-> 0]

MoveTo(a, place) == at' = [at EXCEPT ![a] = place] /\ UNCHANGED answer
Return(a, o) == at' = [at EXCEPT ![a] = "idle"] /\ answer' = [answer EXCEPT ![a] = o]

Start(a) ==
  /\ at[a] = "idle" /\ runs < MaxRuns
  /\ \E m \in {"trade", "analyze"} :
       /\ mode' = [mode EXCEPT ![a] = m]
       /\ MoveTo(a, IF m = "trade" THEN "converse" ELSE "load")
  /\ runs' = runs + 1
  /\ before' = [before EXCEPT ![a] = orders[a]]
  /\ UNCHANGED <<tradeVars, iterations, toolCalls, rounds, decision>>

(* _analysis: PERSISTENCE_UNAVAILABLE is raised, MARKET_DATA_UNAVAILABLE and every
   failure of the provider are answered NO_TRADE. *)
LoadContext(a) ==
  /\ \/ at[a] = "load" /\ (Return(a, "ERROR") \/ MoveTo(a, "market"))
     \/ at[a] = "market" /\ (Return(a, "NO_TRADE") \/ MoveTo(a, "converse"))
  /\ UNCHANGED <<tradeVars, mode, iterations, toolCalls, rounds, decision, runs, before>>

-----------------------------------------------------------------------------
(* get_decision, one call of the model at a time.  Its counts, the
   orchestrator's rounds and the decision are local: they end with their loop. *)
LeaveLoop(a) ==
  iterations' = [iterations EXCEPT ![a] = 0] /\ toolCalls' = [toolCalls EXCEPT ![a] = 0]
LeaveRounds(a) == rounds' = [rounds EXCEPT ![a] = 0]
LeaveRun(a) == LeaveRounds(a) /\ decision' = [decision EXCEPT ![a] = "MALFORMED"]

ProviderFails(a) ==
  /\ Return(a, IF mode[a] = "analyze" THEN "NO_TRADE" ELSE "ERROR")
  /\ LeaveLoop(a) /\ LeaveRun(a)
  /\ UNCHANGED <<tradeVars, mode, runs, before>>

\* defect: the limits are exceeded by one
MayConverseOnceMore(a) == iterations[a] <= MaxIterations /\ toolCalls[a] <= MaxToolCalls
MayConverse(a) == iterations[a] < MaxIterations /\ toolCalls[a] < MaxToolCalls

LimitReached(a) ==
  /\ at[a] = "converse" /\ ~MayConverse(a)
  /\ ProviderFails(a)

(* The call fails, or the first block of the message with a tool or a text asks
   for an unknown or a failing tool, or is no valid decision. *)
ConverseFails(a) ==
  /\ at[a] = "converse" /\ MayConverse(a)
  /\ ProviderFails(a)

(* No tool of the loop trades: submit_paper_order, which is only registered for
   the orchestrator, is offered with an argument "proposal" that it does not take,
   so that calling it fails. *)
\* defect: the tool takes the arguments it is offered with
ToolTrades(a) == \E p \in Proposals : Begin(a, p)
ToolOnlyReads(a) == UNCHANGED tradeVars

(* A tool of the registry succeeds, and the model is asked again. *)
ToolAnswers(a) ==
  /\ at[a] = "converse" /\ MayConverse(a)
  /\ ToolOnlyReads(a)
  /\ iterations' = [iterations EXCEPT ![a] = @ + 1]
  /\ toolCalls' = [toolCalls EXCEPT ![a] = @ + 1]
  /\ MoveTo(a, "converse")
  /\ UNCHANGED <<mode, rounds, decision, runs, before>>

(* A decision: a text may hold any action, whatever the mode; the structured
   analysis decision and a message without content only HOLD or NO_TRADE.  A
   provider that is not Bedrock's may return something malformed. *)
Decides(a) ==
  /\ at[a] = "converse" /\ MayConverse(a)
  /\ LeaveLoop(a)
  /\ \E d \in Actions \cup IF mode[a] = "trade" THEN {"MALFORMED"} ELSE {} :
       decision' = [decision EXCEPT ![a] = d]
  /\ MoveTo(a, "deliver")
  /\ UNCHANGED <<tradeVars, mode, rounds, runs, before>>

-----------------------------------------------------------------------------
(* The analysis answers no action but HOLD and NO_TRADE. *)
Suppressed(d) == IF d \in {"HOLD", "NO_TRADE"} THEN d ELSE "NO_TRADE"

Advise(a) ==
  /\ at[a] = "deliver" /\ mode[a] = "analyze"
  /\ Return(a, Suppressed(decision[a]))
  /\ LeaveRun(a)
  /\ UNCHANGED <<tradeVars, mode, iterations, toolCalls, runs, before>>

(* The orchestrator asks again after a malformed decision, a limited number of
   times. *)
\* defect: the rounds are not counted
AskForEver(a) == MoveTo(a, "converse") /\ UNCHANGED rounds
AskAgain(a) ==
  IF rounds[a] + 1 < MaxRounds
  THEN MoveTo(a, "converse") /\ rounds' = [rounds EXCEPT ![a] = @ + 1]
  ELSE Return(a, "ERROR") /\ LeaveRounds(a)

Malformed(a) ==
  /\ at[a] = "deliver" /\ mode[a] = "trade" /\ decision[a] = "MALFORMED"
  /\ AskAgain(a)
  /\ UNCHANGED <<tradeVars, mode, iterations, toolCalls, decision, runs, before>>

Conclude(a) ==
  /\ at[a] = "deliver" /\ mode[a] = "trade" /\ decision[a] # "MALFORMED"
  /\ IF decision[a] \in {"BUY", "SELL"}
     THEN MoveTo(a, "fetch") /\ LeaveRounds(a) /\ UNCHANGED decision
     ELSE Return(a, decision[a]) /\ LeaveRun(a)
  /\ UNCHANGED <<tradeVars, mode, iterations, toolCalls, runs, before>>

(* get_market_data outside the try: its failure ends the run. *)
MarketUnavailable(a) ==
  /\ at[a] = "fetch"
  /\ Return(a, "ERROR")
  /\ LeaveRun(a)
  /\ UNCHANGED <<tradeVars, mode, iterations, toolCalls, runs, before>>

(* The registry's proposal: the same decision at another price, or made again at
   another time, is another proposal under the same key. *)
Submit(a) ==
  /\ at[a] = "fetch"
  /\ \E p \in Proposals : SideOf[p] = decision[a] /\ Begin(a, p)
  /\ MoveTo(a, "submitting")
  /\ UNCHANGED <<mode, iterations, toolCalls, rounds, decision, runs, before>>

(* The submission's answer, or its rejection, is only logged. *)
Finish(a) ==
  /\ at[a] = "submitting" /\ step[a] = "idle"
  /\ Return(a, decision[a])
  /\ LeaveRun(a)
  /\ UNCHANGED <<tradeVars, mode, iterations, toolCalls, runs, before>>

Run(a) ==
  \/ LoadContext(a) \/ LimitReached(a) \/ ConverseFails(a) \/ ToolAnswers(a) \/ Decides(a)
  \/ Advise(a) \/ Malformed(a) \/ Conclude(a)
  \/ MarketUnavailable(a) \/ Submit(a) \/ Finish(a)
  \/ Serve(a) /\ UNCHANGED runVars

Next == \E a \in Agents : Start(a) \/ Run(a)

Spec == Init /\ [][Next]_vars

(* A run that has started goes on: nothing in it waits for another agent. *)
FairSpec == Spec /\ \A a \in Agents : WF_vars(Run(a))

-----------------------------------------------------------------------------
RunOrders(a) ==
  {log[n] : n \in {m \in 1..Len(log) : log[m].order[1] = a /\ log[m].order[2] > before[a]}}

(* What a run returns is what it did: after BUY or SELL it has stored at most one
   order, of that side; after anything else, an error or an analysis included,
   none, whatever tools the model asked for on the way. *)
AnswerMatchesLedger ==
  \A a \in Agents : at[a] = "idle" =>
    IF answer[a] \in {"BUY", "SELL"}
    THEN /\ Cardinality(RunOrders(a)) <= 1
         /\ \A e \in RunOrders(a) : SideOf[e.proposal] = answer[a]
    ELSE RunOrders(a) = {}

(* "Orchestrate a bounded tool-call loop" (bedrock_client.py:174): every run ends,
   whatever the model answers. *)
RunEnds == \A a \in Agents : at[a] # "idle" ~> at[a] = "idle"

=============================================================================
