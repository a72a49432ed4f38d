---------------------------- MODULE DipBuyProofs ----------------------------
(***************************************************************************)
(* Safety of DipBuy for all prices, rates and cooldowns and any number of  *)
(* evaluations: types and the claim of a key under every fault, the rest   *)
(* when evaluations follow each other and no rejection is a lie.           *)
(***************************************************************************)
EXTENDS DipBuy, FiniteSetTheorems, SequenceTheorems, TLAPS

-----------------------------------------------------------------------------
(* The states an evaluation goes through.  The proofs look at a state through
   these definitions only. *)
Good(s) ==
  /\ s \in States
  /\ \A n \in 1..Len(s.positions) : s.positions[n].high >= s.positions[n].entry

(* t has the positions of s, with marks that are no lower. *)
Follows(t, s) ==
  /\ Len(t.positions) = Len(s.positions)
  /\ \A n \in 1..Len(s.positions) :
       /\ t.positions[n].id = s.positions[n].id
       /\ t.positions[n].entry = s.positions[n].entry
       /\ t.positions[n].open = s.positions[n].open
       /\ t.positions[n].high >= s.positions[n].high

LEMMA PositionType ==
  ASSUME NEW s \in States, NEW n \in 1..Len(s.positions)
  PROVE  s.positions[n] \in Positions
<1>1. s.positions \in Seq(Positions)
  BY DEF States
<1> QED BY <1>1, ElementOfSeq

LEMMA LengthType ==
  ASSUME NEW s \in States
  PROVE  s.positions \in Seq(Positions) /\ Len(s.positions) \in Nat
<1>1. s.positions \in Seq(Positions)
  BY DEF States
<1> QED BY <1>1, LenProperties

LEMMA ProductNat == \A a, b \in Nat : a * b \in Nat
  OBVIOUS

LEMMA FunctionIsSequence ==
  ASSUME NEW S, NEW k \in Nat, NEW f \in [1..k -> S]
  PROVE  f \in Seq(S) /\ Len(f) = k
<1>1. f \in Seq(S)
  BY SeqDef
<1>2. DOMAIN f = 1..Len(f) /\ Len(f) \in Nat
  BY <1>1, LenProperties
<1> QED BY <1>1, <1>2

(* A position is watched: its mark is raised to a higher price, and no more. *)
LEMMA WatchedPosition ==
  ASSUME NEW pos \in Positions, NEW p \in Prices
  PROVE  /\ Watched(pos, p) \in Positions
         /\ Watched(pos, p).id = pos.id
         /\ Watched(pos, p).entry = pos.entry
         /\ Watched(pos, p).open = pos.open
         /\ Watched(pos, p).high >= pos.high
<1>1. p * Scale \in Nat
  BY PriceAssumption, RateAssumption
<1>2. pos.high \in Nat
  BY DEF Positions
<1> QED BY <1>1, <1>2 DEF Watched, Positions

LEMMA ObservedPositions ==
  ASSUME NEW e, state[e] \in States, price \in Prices, NEW last
  PROVE  /\ Observed(e, last) \in Seq(Positions)
         /\ Len(Observed(e, last)) = Len(state[e].positions)
         /\ \A n \in 1..Len(state[e].positions) :
              /\ Observed(e, last)[n].id = state[e].positions[n].id
              /\ Observed(e, last)[n].entry = state[e].positions[n].entry
              /\ Observed(e, last)[n].open = state[e].positions[n].open
              /\ Observed(e, last)[n].high >= state[e].positions[n].high
<1> DEFINE old == state[e].positions
           new == Observed(e, last)
<1>1. Len(old) \in Nat
  BY LengthType
<1>2. ASSUME NEW n \in 1..Len(old)
      PROVE  /\ new[n] \in Positions
             /\ new[n].id = old[n].id /\ new[n].entry = old[n].entry
             /\ new[n].open = old[n].open /\ new[n].high >= old[n].high
  <2>1. old[n] \in Positions
    BY PositionType
  <2>2. old[n].high \in Nat
    BY <2>1 DEF Positions
  <2>3. new[n] = IF n <= last THEN Watched(old[n], price) ELSE old[n]
    BY DEF Observed
  <2> HIDE DEF old, new
  <2> QED BY <2>1, <2>2, <2>3, WatchedPosition
<1>3. new \in [1..Len(old) -> Positions]
  BY <1>2 DEF Observed
<1> HIDE DEF old, new
<1>4. new \in Seq(Positions) /\ Len(new) = Len(old)
  BY <1>1, <1>3, FunctionIsSequence
<1> QED BY <1>2, <1>4 DEF old, new

(* A state with other positions and scalars is good if its positions are. *)
LEMMA FollowerIsGood ==
  ASSUME NEW s, Good(s), NEW t \in States, Follows(t, s)
  PROVE  Good(t)
<1> SUFFICES ASSUME NEW n \in 1..Len(s.positions)
             PROVE  t.positions[n].high >= t.positions[n].entry
  BY DEF Good, Follows
<1>1. s.positions[n] \in Positions /\ t.positions[n] \in Positions
  BY PositionType DEF Good, Follows
<1>2. /\ s.positions[n].high \in Nat /\ s.positions[n].entry \in Nat
      /\ t.positions[n].high \in Nat
  BY <1>1 DEF Positions
<1> QED BY <1>2 DEF Good, Follows

(* What the decision makes of the state that was read. *)
LEMMA EvaluatedState ==
  ASSUME NEW e, Good(state[e]), price \in Prices, reference \in References,
         clock \in 0..MaxClock, NEW last
  PROVE  /\ Evaluated(e, last) \in States
         /\ Follows(Evaluated(e, last), state[e])
         /\ Evaluated(e, last).lastBuy = state[e].lastBuy
<1> DEFINE t == Evaluated(e, last)
<1>1. SignalId \in Signals
  BY DEF SignalId, Signals
<1>2. state[e] \in States
  BY DEF Good
<1>3. /\ t.positions = Observed(e, last)
      /\ t.signalActive = state[e].signalActive
      /\ t.lastBuy = state[e].lastBuy
  BY <1>2 DEF Evaluated, States
<1>4. t \in States
  <2>1. Observed(e, last) \in Seq(Positions)
    BY <1>2, ObservedPositions
  <2> QED BY <1>1, <1>2, <2>1 DEF Evaluated, States
<1>5. Follows(t, state[e])
  BY <1>2, <1>3, ObservedPositions DEF Follows
<1> QED BY <1>3, <1>4, <1>5

LEMMA ActiveState ==
  ASSUME NEW s \in States, NEW active \in BOOLEAN
  PROVE  LET t == [s EXCEPT !.signalActive = active]
         IN t \in States /\ t.positions = s.positions /\ t.lastBuy = s.lastBuy
BY DEF States

-----------------------------------------------------------------------------
(* The two states that are committed with an order. *)
LEMMA OpenedStateFacts ==
  ASSUME NEW e, Good(state[e]), request[e] \in Requests, now[e] \in 0..MaxClock
  PROVE  LET s == state[e].positions
             t == OpenedState(e).positions
         IN /\ Good(OpenedState(e))
            /\ Len(t) = Len(s) + 1
            /\ \A n \in 1..Len(s) : t[n] = s[n]
            /\ t[Len(t)].id = request[e].id /\ t[Len(t)].open
            /\ OpenedState(e).lastBuy = now[e]
<1> DEFINE s == state[e].positions
           new == [id |-> request[e].id, entry |-> Filled(request[e].price),
                   high |-> Filled(request[e].price), open |-> TRUE]
           t == OpenedState(e)
<1>1. state[e] \in States /\ s \in Seq(Positions) /\ Len(s) \in Nat
  BY LengthType DEF Good
<1>2. Filled(request[e].price) \in Nat
  <2>1. request[e].price \in Prices
    BY DEF Requests
  <2>2. request[e].price \in Nat /\ Scale \in Nat /\ Slippage \in Nat
    BY <2>1, PriceAssumption, RateAssumption
  <2> QED BY <2>2, ProductNat DEF Filled
<1>3. new \in Positions
  BY <1>2 DEF Requests, Positions
<1>4. t = [state[e] EXCEPT !.signalActive = TRUE, !.lastBuy = now[e],
                           !.positions = Append(s, new)]
  BY DEF OpenedState
<1>5. new.high >= new.entry /\ new.id = request[e].id /\ new.open
  BY <1>2
<1> HIDE DEF new
<1>6. /\ Append(s, new) \in Seq(Positions)
      /\ Len(Append(s, new)) = Len(s) + 1
      /\ \A n \in 1..Len(s) : Append(s, new)[n] = s[n]
      /\ Append(s, new)[Len(s) + 1] = new
  BY <1>1, <1>3
<1>7. t \in States /\ t.positions = Append(s, new) /\ t.lastBuy = now[e]
  BY <1>1, <1>4, <1>6 DEF States
<1>8. \A n \in 1..Len(s) : s[n].high >= s[n].entry
  BY DEF Good
<1> HIDE DEF t, s
<1>9. Good(t)
  <2> SUFFICES ASSUME NEW n \in 1..(Len(s) + 1)
               PROVE  t.positions[n].high >= t.positions[n].entry
    BY <1>6, <1>7 DEF Good
  <2>1. CASE n \in 1..Len(s)
    BY <1>6, <1>7, <1>8, <2>1
  <2>2. CASE n = Len(s) + 1
    BY <1>5, <1>6, <1>7, <2>2
  <2> QED BY <1>1, <2>1, <2>2
<1> QED BY <1>5, <1>6, <1>7, <1>9 DEF t, s

LEMMA CompletedStateFacts ==
  ASSUME NEW e, Good(state[e])
  PROVE  LET s == state[e].positions
             t == CompletedState(e).positions
         IN /\ Good(CompletedState(e))
            /\ Len(t) = Len(s)
            /\ \A n \in 1..Len(s) :
                 /\ t[n].id = s[n].id /\ t[n].high = s[n].high
                 /\ t[n].open <=> s[n].open /\ s[n].id # request[e].id
            /\ CompletedState(e).lastBuy = state[e].lastBuy
<1> DEFINE s == state[e].positions
           new == [n \in 1..Len(s) |->
                     IF s[n].id = request[e].id THEN [s[n] EXCEPT !.open = FALSE] ELSE s[n]]
           t == CompletedState(e)
<1>1. state[e] \in States /\ s \in Seq(Positions) /\ Len(s) \in Nat
  BY LengthType DEF Good
<1>2. t = [state[e] EXCEPT !.positions = new]
  BY DEF CompletedState
<1>3. ASSUME NEW n \in 1..Len(s)
      PROVE  /\ new[n] \in Positions
             /\ new[n].id = s[n].id /\ new[n].high = s[n].high /\ new[n].entry = s[n].entry
             /\ new[n].open <=> s[n].open /\ s[n].id # request[e].id
  <2>1. s[n] \in Positions
    BY <1>1, PositionType
  <2>2. new[n] = IF s[n].id = request[e].id THEN [s[n] EXCEPT !.open = FALSE] ELSE s[n]
    OBVIOUS
  <2> HIDE DEF s, new
  <2>3. CASE s[n].id = request[e].id
    BY <2>1, <2>2, <2>3 DEF Positions
  <2>4. CASE s[n].id # request[e].id
    BY <2>1, <2>2, <2>4
  <2> QED BY <2>3, <2>4
<1>4. new \in Seq(Positions) /\ Len(new) = Len(s)
  <2>1. new \in [1..Len(s) -> Positions]
    BY <1>3
  <2> HIDE DEF s, new
  <2> QED BY <1>1, <2>1, FunctionIsSequence
<1>5. \A n \in 1..Len(s) : s[n].high >= s[n].entry
  BY DEF Good
<1> HIDE DEF new
<1>6. t \in States /\ t.positions = new /\ t.lastBuy = state[e].lastBuy
  BY <1>1, <1>2, <1>4 DEF States
<1> HIDE DEF t, s
<1>7. Good(t)
  BY <1>3, <1>4, <1>5, <1>6 DEF Good
<1> QED BY <1>3, <1>4, <1>6, <1>7 DEF t, s

-----------------------------------------------------------------------------
(* Types.  An order being submitted is a request; one being committed was checked
   against the holdings, so that a sale leaves no short position. *)
TypeInv ==
  /\ TypeOK
  /\ \A e \in Evaluations : Good(state[e])
  /\ \A e \in Evaluations : pc[e] \in {"submit", "commit"} => request[e] \in Requests
  /\ \A e \in Evaluations : pc[e] = "commit" => ~AgainstHoldings(e)

LEMMA NewStateIsGood == NewState \in States /\ Good(NewState)
<1>1. <<>> \in Seq(Positions) /\ Len(<<>>) = 0
  BY EmptySeq
<1>2. NewState \in States
  BY <1>1 DEF NewState, States
<1> QED BY <1>1, <1>2 DEF Good, NewState

LEMMA TypeInit == Init => TypeInv
<1> SUFFICES ASSUME Init PROVE TypeInv
  OBVIOUS
<1>1. NewState \in States /\ Good(NewState)
  BY NewStateIsGood
<1>2. \A e \in Evaluations : Good(state[e])
  BY <1>1 DEF Init
<1>3. \A n \in 1..Len(strategy.positions) :
        strategy.positions[n].high >= strategy.positions[n].entry
  BY <1>1 DEF Init, Good
<1>4. TypeOK
  BY <1>1, <1>3, BoundAssumption DEF Init, TypeOK
<1> QED BY <1>2, <1>4 DEF Init, TypeInv

(* An evaluation that ends leaves nothing behind. *)
LEMMA TypeEnd ==
  ASSUME TypeInv, NEW e \in Evaluations, End(e)
  PROVE  /\ pc' \in [Evaluations -> {"idle", "read_state", "decide", "submit", "commit", "save"}]
         /\ loaded' \in [Evaluations -> Nat]
         /\ now' \in [Evaluations -> 0..MaxClock]
         /\ state' \in [Evaluations -> States]
         /\ request' \in [Evaluations -> Requests \cup {None}]
         /\ expected' \in [Evaluations -> Nat]
         /\ \A f \in Evaluations : Good(state'[f])
         /\ \A f \in Evaluations : pc'[f] \in {"submit", "commit"} =>
              f # e /\ pc[f] = pc'[f] /\ request'[f] = request[f] /\ loaded'[f] = loaded[f]
<1>1. NewState \in States /\ Good(NewState)
  BY NewStateIsGood
<1>2. \A f \in Evaluations : state'[f] = IF f = e THEN NewState ELSE state[f]
  BY DEF End, TypeInv, TypeOK
<1>3. \A f \in Evaluations : Good(state'[f])
  BY <1>1, <1>2 DEF TypeInv
<1> QED BY <1>1, <1>3, BoundAssumption DEF End, Goto, TypeInv, TypeOK

(* A decision replaces the state by one that is as good. *)
LEMMA TypeDecides ==
  ASSUME TypeInv, NEW e \in Evaluations, NEW t \in States, Good(t),
         state' = [state EXCEPT ![e] = t],
         NEW label \in {"submit", "save"}, Goto(e, label),
         request' = request \/ \E r \in Requests : request' = [request EXCEPT ![e] = r],
         label = "submit" => request'[e] \in Requests,
         UNCHANGED <<market, table, loaded, now, expected, orders>>
  PROVE  TypeInv'
<1>1. \A f \in Evaluations : state'[f] = IF f = e THEN t ELSE state[f]
  BY DEF TypeInv, TypeOK
<1>2. \A f \in Evaluations : Good(state'[f])
  BY <1>1 DEF TypeInv
<1>3. \A f \in Evaluations : pc'[f] = IF f = e THEN label ELSE pc[f]
  BY DEF Goto, TypeInv, TypeOK
<1>4. \A f \in Evaluations : f # e => request'[f] = request[f]
  BY DEF TypeInv, TypeOK
<1>5. \A f \in Evaluations : pc'[f] \in {"submit", "commit"} => request'[f] \in Requests
  BY <1>3, <1>4 DEF TypeInv
<1>6. \A f \in Evaluations : pc'[f] = "commit" => ~AgainstHoldings(f)'
  BY <1>3, <1>4 DEF TypeInv, AgainstHoldings, IsBuy
<1>7. request' \in [Evaluations -> Requests \cup {None}]
  BY DEF TypeInv, TypeOK
<1>8. state' \in [Evaluations -> States]
  BY DEF TypeInv, TypeOK
<1>9. pc' \in [Evaluations -> {"idle", "read_state", "decide", "submit", "commit", "save"}]
  BY DEF Goto, TypeInv, TypeOK
<1>10. TypeOK'
  BY <1>7, <1>8, <1>9 DEF TypeInv, TypeOK, market, table
<1> QED BY <1>2, <1>5, <1>6, <1>10 DEF TypeInv

(* What the three outcomes of the decision have in common: e goes on with a state
   t that follows the one it read, and submits at most an order of its own. *)
Decided(e, t, label) ==
  /\ t \in States /\ Good(t) /\ Follows(t, state[e]) /\ t.lastBuy = state[e].lastBuy
  /\ pc[e] = "decide" /\ Goto(e, label)
  /\ state' = [state EXCEPT ![e] = t]
  /\ UNCHANGED <<market, table, loaded, now, expected, orders>>

LEMMA Deciding ==
  ASSUME TypeInv, NEW e \in Evaluations, Decide(e)
  PROVE  \E t \in States :
           \/ /\ Decided(e, t, "save")
              /\ request' = request
           \/ /\ Decided(e, t, "submit")
              /\ \E r \in Requests :
                   /\ request' = [request EXCEPT ![e] = r]
                   /\ \/ r.action = "BUY" /\ ~InCooldown(e)
                      \/ /\ r.action # "BUY"
                         /\ \E n \in 1..Len(state[e].positions) :
                              state[e].positions[n].id = r.id /\ state[e].positions[n].open
<1>0. /\ Good(state[e]) /\ state[e] \in States
      /\ price \in Prices /\ reference \in References /\ clock \in 0..MaxClock
  BY DEF TypeInv, TypeOK
<1>1. ASSUME NEW last, NEW active \in BOOLEAN
      PROVE  LET t == [Evaluated(e, last) EXCEPT !.signalActive = active]
             IN /\ t \in States /\ Good(t) /\ Follows(t, state[e])
                /\ t.lastBuy = state[e].lastBuy
  <2> DEFINE t == [Evaluated(e, last) EXCEPT !.signalActive = active]
  <2>1. /\ Evaluated(e, last) \in States /\ Follows(Evaluated(e, last), state[e])
        /\ Evaluated(e, last).lastBuy = state[e].lastBuy
    BY <1>0, EvaluatedState
  <2>2. /\ t \in States /\ t.positions = Evaluated(e, last).positions
        /\ t.lastBuy = Evaluated(e, last).lastBuy
    BY <2>1, ActiveState
  <2>3. Follows(t, state[e])
    BY <2>1, <2>2 DEF Follows
  <2> HIDE DEF t
  <2>4. Good(t)
    BY <1>0, <2>2, <2>3, FollowerIsGood
  <2> QED BY <2>1, <2>2, <2>3, <2>4 DEF t
<1>2. CASE DecideExit(e)
  <2>1. PICK n \in 1..Len(state[e].positions) :
          /\ Triggers(state[e].positions[n], price)
          /\ state' = [state EXCEPT ![e] = Evaluated(e, n)]
          /\ request' = [request EXCEPT ![e] =
               [id |-> state[e].positions[n].id,
                action |-> ExitReason(Watched(state[e].positions[n], price), price),
                price |-> price]]
    BY <1>2 DEF DecideExit
  <2> DEFINE pos == state[e].positions[n]
             r == [id |-> pos.id, action |-> ExitReason(Watched(pos, price), price),
                   price |-> price]
  <2>2. /\ Evaluated(e, n) \in States /\ Follows(Evaluated(e, n), state[e])
        /\ Evaluated(e, n).lastBuy = state[e].lastBuy
    BY <1>0, EvaluatedState
  <2>3. Good(Evaluated(e, n))
    BY <1>0, <2>2, FollowerIsGood
  <2>4. Decided(e, Evaluated(e, n), "submit")
    BY <1>2, <2>1, <2>2, <2>3 DEF Decided, DecideExit
  <2>5. pos \in Positions
    BY <1>0, PositionType
  <2>6. ExitReason(Watched(pos, price), price) \in ExitReasons
    BY DEF ExitReason, ExitReasons
  <2>7. r \in Requests /\ r.id = pos.id /\ r.action # "BUY"
    BY <1>0, <2>5, <2>6 DEF Requests, Positions, ExitReasons
  <2>8. pos.open
    BY <2>1 DEF Triggers
  <2> QED BY <2>1, <2>2, <2>4, <2>7, <2>8
<1>3. CASE DecideBuy(e)
  <2> DEFINE t == [Evaluated(e, Len(state[e].positions)) EXCEPT !.signalActive = TRUE]
             r == [id |-> SignalId, action |-> "BUY", price |-> price]
  <2>1. t \in States /\ Good(t) /\ Follows(t, state[e]) /\ t.lastBuy = state[e].lastBuy
    BY <1>1
  <2>2. r \in Requests /\ r.action = "BUY"
    BY <1>0 DEF Requests, SignalId, Signals
  <2>3. ~InCooldown(e)
    BY <1>3 DEF DecideBuy, Enters
  <2>4. state' = [state EXCEPT ![e] = t] /\ request' = [request EXCEPT ![e] = r]
    BY <1>3 DEF DecideBuy
  <2> HIDE DEF t, r
  <2>5. Decided(e, t, "submit")
    BY <1>3, <2>1, <2>4 DEF Decided, DecideBuy
  <2> QED BY <2>1, <2>2, <2>3, <2>4, <2>5
<1>4. CASE DecideNothing(e)
  <2> DEFINE t == [Evaluated(e, Len(state[e].positions)) EXCEPT !.signalActive = Signal]
  <2>0. Signal \in BOOLEAN
    BY DEF Signal
  <2>1. t \in States /\ Good(t) /\ Follows(t, state[e]) /\ t.lastBuy = state[e].lastBuy
    BY <1>1, <2>0
  <2>2. state' = [state EXCEPT ![e] = t] /\ request' = request
    BY <1>4 DEF DecideNothing
  <2> HIDE DEF t
  <2>3. Decided(e, t, "save")
    BY <1>4, <2>1, <2>2 DEF Decided, DecideNothing
  <2> QED BY <2>1, <2>2, <2>3
<1> QED BY <1>2, <1>3, <1>4 DEF Decide

(* What a commit makes of the table. *)
LEMMA TypeTakesEffect ==
  ASSUME TypeInv, NEW e \in Evaluations, TakesEffect(e)
  PROVE  /\ held' \in Nat /\ version' \in Nat
         /\ keys' \subseteq Signals \X ({"BUY"} \cup ExitReasons)
         /\ strategy' \in States /\ Good(strategy')
         /\ orders' \in Seq([id : Signals, action : {"BUY"} \cup ExitReasons,
                             at : 0..MaxClock])
<1>1. /\ request[e] \in Requests /\ ~AgainstHoldings(e) /\ Good(state[e])
      /\ now[e] \in 0..MaxClock /\ loaded[e] \in Nat /\ version \in Nat
  BY DEF TakesEffect, TypeInv, TypeOK
<1>2. held' \in Nat
  BY <1>1 DEF TakesEffect, AgainstHoldings
<1>3. KeyOf(e) \in Signals \X ({"BUY"} \cup ExitReasons)
  BY <1>1 DEF KeyOf, Requests
<1>4. strategy' \in States /\ Good(strategy')
  <2>1. Good(OpenedState(e)) /\ Good(CompletedState(e))
    BY <1>1, OpenedStateFacts, CompletedStateFacts
  <2> QED BY <2>1 DEF TakesEffect, Good
<1>5. [id |-> request[e].id, action |-> request[e].action, at |-> now[e]]
        \in [id : Signals, action : {"BUY"} \cup ExitReasons, at : 0..MaxClock]
  BY <1>1 DEF Requests
<1> QED BY <1>1, <1>2, <1>3, <1>4, <1>5 DEF TakesEffect, TypeInv, TypeOK

LEMMA TypeNext == TypeInv /\ [Next]_vars => TypeInv'
<1> SUFFICES ASSUME TypeInv, [Next]_vars PROVE TypeInv'
  OBVIOUS
<1> USE DEF market, table, locals
<1>1. ASSUME NEW e \in Evaluations, LoadPortfolio(e) PROVE TypeInv'
  <2>1. \A f \in Evaluations : pc'[f] \in {"submit", "commit"} =>
          f # e /\ pc[f] = pc'[f] /\ loaded'[f] = loaded[f]
    BY <1>1 DEF LoadPortfolio, Goto, TypeInv, TypeOK
  <2> QED BY <1>1, <2>1 DEF LoadPortfolio, Goto, TypeInv, TypeOK, AgainstHoldings, IsBuy
<1>2. ASSUME NEW e \in Evaluations, ReadState(e) PROVE TypeInv'
  <2>1. \A f \in Evaluations : pc'[f] \in {"submit", "commit"} => f # e /\ pc[f] = pc'[f]
    BY <1>2 DEF ReadState, Goto, TypeInv, TypeOK
  <2>2. Good(strategy)
    BY DEF Good, TypeInv, TypeOK
  <2>3. \A f \in Evaluations : Good(state[f])'
    BY <1>2, <2>2 DEF ReadState, TypeInv, TypeOK
  <2>4. TypeOK'
    BY <1>2 DEF ReadState, Goto, TypeInv, TypeOK
  <2> QED BY <1>2, <2>1, <2>3, <2>4 DEF ReadState, TypeInv, AgainstHoldings, IsBuy
<1>3. ASSUME NEW e \in Evaluations, Decide(e) PROVE TypeInv'
  <2>1. PICK t \in States :
           \/ Decided(e, t, "save") /\ request' = request
           \/ /\ Decided(e, t, "submit")
              /\ \E r \in Requests : request' = [request EXCEPT ![e] = r]
    BY <1>3, Deciding
  <2>2. CASE Decided(e, t, "save") /\ request' = request
    BY <2>2, TypeDecides DEF Decided
  <2>3. CASE /\ Decided(e, t, "submit")
             /\ \E r \in Requests : request' = [request EXCEPT ![e] = r]
    <3>1. request'[e] \in Requests
      BY <2>3 DEF TypeInv, TypeOK
    <3> QED BY <2>3, <3>1, TypeDecides DEF Decided
  <2> QED BY <2>1, <2>2, <2>3
<1>4. ASSUME NEW e \in Evaluations, SubmitOrder(e) PROVE TypeInv'
  <2>1. ~AgainstHoldings(e)
    BY <1>4 DEF SubmitOrder, Refused
  <2>2. \A f \in Evaluations : pc'[f] = IF f = e THEN "commit" ELSE pc[f]
    BY <1>4 DEF SubmitOrder, Goto, TypeInv, TypeOK
  <2>3. TypeOK'
    BY <1>4 DEF SubmitOrder, Goto, TypeInv, TypeOK
  <2> QED BY <1>4, <2>1, <2>2, <2>3 DEF SubmitOrder, TypeInv, AgainstHoldings, IsBuy
<1>5. ASSUME NEW e \in Evaluations, OrderRejected(e) PROVE TypeInv'
  <2>1. \A f \in Evaluations : pc'[f] = IF f = e THEN "save" ELSE pc[f]
    BY <1>5 DEF OrderRejected, Goto, TypeInv, TypeOK
  <2>2. TypeOK'
    BY <1>5 DEF OrderRejected, Goto, TypeInv, TypeOK
  <2> QED BY <1>5, <2>1, <2>2 DEF OrderRejected, TypeInv, AgainstHoldings, IsBuy
<1>6. ASSUME NEW e \in Evaluations, OrderCommits(e) PROVE TypeInv'
  <2>1. TakesEffect(e) /\ End(e)
    BY <1>6 DEF OrderCommits, Finish
  <2>2. UNCHANGED market
    BY <2>1 DEF TakesEffect
  <2>3. TypeOK'
    BY <2>1, <2>2, TypeEnd, TypeTakesEffect DEF TypeInv, TypeOK, Good
  <2> QED BY <2>1, <2>3, TypeEnd DEF TypeInv, AgainstHoldings, IsBuy
<1>7. ASSUME NEW e \in Evaluations, OrderLost(e) PROVE TypeInv'
  <2>1. TakesEffect(e) /\ Goto(e, "save") /\ UNCHANGED locals
    BY <1>7 DEF OrderLost
  <2>2. UNCHANGED market
    BY <2>1 DEF TakesEffect
  <2>3. \A f \in Evaluations : pc'[f] = IF f = e THEN "save" ELSE pc[f]
    BY <2>1 DEF Goto, TypeInv, TypeOK
  <2>4. TypeOK'
    BY <2>1, <2>2, TypeTakesEffect DEF Goto, TypeInv, TypeOK, Good
  <2> QED BY <2>1, <2>3, <2>4 DEF TypeInv, AgainstHoldings, IsBuy
<1>8. ASSUME NEW e \in Evaluations, Save(e) PROVE TypeInv'
  <2>1. strategy' = state[e] /\ Good(state[e])
    BY <1>8 DEF Save, TypeInv
  <2>2. End(e) /\ UNCHANGED <<market, held, version, keys, orders>>
    BY <1>8 DEF Save
  <2>3. TypeOK'
    BY <2>1, <2>2, TypeEnd DEF TypeInv, TypeOK, Good
  <2> QED BY <2>2, <2>3, TypeEnd DEF TypeInv, AgainstHoldings, IsBuy
<1>9. ASSUME NEW e \in Evaluations, Crash(e) PROVE TypeInv'
  <2>1. End(e) /\ UNCHANGED <<market, table, orders>>
    BY <1>9 DEF Crash
  <2>2. TypeOK'
    BY <2>1, TypeEnd DEF TypeInv, TypeOK
  <2> QED BY <2>1, <2>2, TypeEnd DEF TypeInv, AgainstHoldings, IsBuy
<1>10. CASE MarketMoves
  BY <1>10 DEF MarketMoves, TypeInv, TypeOK, AgainstHoldings, IsBuy
<1>11. CASE Tick
  <2>1. clock' \in 0..MaxClock
    BY <1>11, BoundAssumption DEF Tick, TypeInv, TypeOK
  <2> QED BY <1>11, <2>1 DEF Tick, TypeInv, TypeOK, AgainstHoldings, IsBuy
<1>12. CASE ManualOrder
  BY <1>12 DEF ManualOrder, TypeInv, TypeOK, AgainstHoldings, IsBuy
<1>13. CASE UNCHANGED vars
  BY <1>13 DEF vars, TypeInv, TypeOK, AgainstHoldings, IsBuy
<1> QED BY <1>1, <1>2, <1>3, <1>4, <1>5, <1>6, <1>7, <1>8, <1>9, <1>10, <1>11, <1>12, <1>13
        DEF Next

(* Every variable keeps its type, and no recorded mark falls below its entry. *)
THEOREM TypeCorrect == Spec => []TypeOK
<1>1. TypeInv => TypeOK
  BY DEF TypeInv
<1> QED BY <1>1, TypeInit, TypeNext, PTL DEF Spec

-----------------------------------------------------------------------------
(* A committed order has claimed its key, and no other order has the same one. *)
ClaimInv ==
  /\ TypeInv
  /\ \A n \in 1..Len(orders) : <<orders[n].id, orders[n].action>> \in keys
  /\ \A m, n \in 1..Len(orders) :
       orders[m].id = orders[n].id /\ orders[m].action = orders[n].action => m = n

(* What is appended to the orders when one takes effect. *)
LEMMA OrderAppended ==
  ASSUME TypeInv, NEW e \in Evaluations, TakesEffect(e)
  PROVE  /\ Len(orders) \in Nat
         /\ Len(orders') = Len(orders) + 1
         /\ \A n \in 1..Len(orders) : orders'[n] = orders[n]
         /\ orders'[Len(orders')] =
              [id |-> request[e].id, action |-> request[e].action, at |-> now[e]]
<1> DEFINE S == [id : Signals, action : {"BUY"} \cup ExitReasons, at : 0..MaxClock]
           o == [id |-> request[e].id, action |-> request[e].action, at |-> now[e]]
<1>1. orders \in Seq(S)
  BY DEF TypeInv, TypeOK
<1>2. o \in S
  BY DEF TakesEffect, TypeInv, TypeOK, Requests
<1>3. orders' = Append(orders, o)
  BY DEF TakesEffect
<1> HIDE DEF S, o
<1>4. Len(orders) \in Nat
  BY <1>1, LenProperties
<1>5. /\ Len(orders') = Len(orders) + 1
      /\ \A n \in 1..Len(orders) : orders'[n] = orders[n]
      /\ orders'[Len(orders) + 1] = o
  BY <1>1, <1>2, <1>3, AppendProperties
<1>6. orders'[Len(orders')] = o
  BY <1>5
<1>7. o = [id |-> request[e].id, action |-> request[e].action, at |-> now[e]]
  BY DEF o
<1> QED BY <1>4, <1>5, <1>6, <1>7

LEMMA ClaimStep ==
  ASSUME ClaimInv, NEW e \in Evaluations, TakesEffect(e), TypeInv'
  PROVE  ClaimInv'
<1>0. TypeInv
  BY DEF ClaimInv
<1>1. /\ Len(orders) \in Nat /\ Len(orders') = Len(orders) + 1
      /\ \A n \in 1..Len(orders) : orders'[n] = orders[n]
      /\ orders'[Len(orders')].id = request[e].id
      /\ orders'[Len(orders')].action = request[e].action
  <2>1. /\ Len(orders) \in Nat /\ Len(orders') = Len(orders) + 1
        /\ \A n \in 1..Len(orders) : orders'[n] = orders[n]
        /\ orders'[Len(orders')] =
             [id |-> request[e].id, action |-> request[e].action, at |-> now[e]]
    BY <1>0, OrderAppended
  <2> QED BY <2>1
<1>2. keys' = keys \cup {KeyOf(e)} /\ KeyOf(e) \notin keys
  BY DEF TakesEffect, Claimed
<1>3. KeyOf(e) = <<request[e].id, request[e].action>>
  BY DEF KeyOf
<1>4. ASSUME NEW n \in 1..Len(orders')
      PROVE  <<orders'[n].id, orders'[n].action>> \in keys'
  <2>1. CASE n \in 1..Len(orders)
    BY <1>1, <1>2, <2>1 DEF ClaimInv
  <2>2. CASE n = Len(orders')
    BY <1>1, <1>2, <1>3, <2>2
  <2> QED BY <1>1, <2>1, <2>2
<1>5. ASSUME NEW m \in 1..Len(orders'), NEW n \in 1..Len(orders'),
             orders'[m].id = orders'[n].id, orders'[m].action = orders'[n].action
      PROVE  m = n
  <2>1. CASE m \in 1..Len(orders) /\ n \in 1..Len(orders)
    BY <1>1, <1>5, <2>1 DEF ClaimInv
  <2>2. CASE m \in 1..Len(orders) /\ n = Len(orders')
    BY <1>1, <1>2, <1>3, <1>5, <2>2 DEF ClaimInv
  <2>3. CASE n \in 1..Len(orders) /\ m = Len(orders')
    BY <1>1, <1>2, <1>3, <1>5, <2>3 DEF ClaimInv
  <2> QED BY <1>1, <2>1, <2>2, <2>3
<1> QED BY <1>4, <1>5 DEF ClaimInv

LEMMA ClaimNext == ClaimInv /\ [Next]_vars => ClaimInv'
<1> SUFFICES ASSUME ClaimInv, [Next]_vars PROVE ClaimInv'
  OBVIOUS
<1>1. TypeInv'
  BY TypeNext DEF ClaimInv
<1>2. ASSUME NEW e \in Evaluations, TakesEffect(e) PROVE ClaimInv'
  BY <1>1, <1>2, ClaimStep
<1>3. CASE UNCHANGED <<keys, orders>>
  BY <1>1, <1>3 DEF ClaimInv
<1>4. (\E e \in Evaluations : TakesEffect(e)) \/ UNCHANGED <<keys, orders>>
  BY DEF Next, vars, market, table, LoadPortfolio, ReadState, Decide, DecideExit, DecideBuy,
         DecideNothing, SubmitOrder, OrderRejected, OrderCommits, OrderLost, Save, Crash,
         ManualOrder, MarketMoves, Tick
<1> QED BY <1>2, <1>3, <1>4

(* A dip is bought once however many evaluations overlap, repeat or lose their
   answer: the key of the signal is a condition of the transaction. *)
THEOREM EntrySafety == Spec => []EntersOncePerSignal
<1>1. Init => ClaimInv
  <2>1. ASSUME Init PROVE Len(orders) = 0
    BY <2>1 DEF Init
  <2> QED BY <2>1, TypeInit DEF ClaimInv
<1>2. ClaimInv => EntersOncePerSignal
  BY DEF ClaimInv, EntersOncePerSignal, Entries
<1> QED BY <1>1, <1>2, ClaimNext, PTL DEF Spec

-----------------------------------------------------------------------------
(* Evaluations one after the other, and no order that takes effect is answered
   with a rejection: then the strategy state an evaluation has read is still what
   is stored, and so are the holdings until somebody else trades. *)
Serial == "overlap" \notin Faults /\ "ambiguous" \notin Faults

Running(e) == pc[e] # "idle"
HasRead(e) == pc[e] \in {"decide", "submit", "commit", "save"}

Alone == \A e, f \in Evaluations : Running(e) /\ Running(f) => e = f

LocalsAreCurrent ==
  \A e \in Evaluations :
    /\ Running(e) /\ ManualOrders = 0 => loaded[e] = held
    /\ HasRead(e) => Follows(state[e], strategy) /\ state[e].lastBuy = strategy.lastBuy

(* An entry is out of the cooldown, an exit is of an open position. *)
RequestFits ==
  \A e \in Evaluations : pc[e] \in {"submit", "commit"} =>
    \/ IsBuy(e) /\ ~InCooldown(e)
    \/ /\ ~IsBuy(e)
       /\ \E n \in Recorded : strategy.positions[n].id = request[e].id
                             /\ strategy.positions[n].open

(* Each position is the result of a different entry. *)
PositionsAreClaimed ==
  /\ \A n \in Recorded : <<strategy.positions[n].id, "BUY">> \in keys
  /\ \A m, n \in Recorded : strategy.positions[m].id = strategy.positions[n].id => m = n

(* The limit of one position: nothing is held, or the lot of the one open position. *)
AtMostOneLot == ManualOrders = 0 =>
  \/ held = 0 /\ \A n \in Recorded : ~strategy.positions[n].open
  \/ held = 1 /\ \E n \in Recorded : \A m \in Recorded : strategy.positions[m].open <=> m = n

BuysAreDated ==
  /\ \A n \in Entries : strategy.lastBuy # None /\ orders[n].at <= strategy.lastBuy
  /\ CooldownBetweenBuys

TableInv ==
  ManualOrders \in Nat /\ PositionsAreClaimed /\ AtMostOneLot /\ BuysAreDated
SerialInv == Alone /\ LocalsAreCurrent /\ RequestFits /\ TableInv

LEMMA HighType ==
  ASSUME NEW s \in States, NEW n \in 1..Len(s.positions)
  PROVE  s.positions[n].high \in Nat
BY PositionType DEF Positions

LEMMA FollowsSelf == ASSUME NEW s \in States PROVE Follows(s, s)
<1>1. \A n \in 1..Len(s.positions) : s.positions[n].high \in Nat
  BY HighType
<1> QED BY <1>1 DEF Follows

LEMMA FollowsTransitive ==
  ASSUME NEW s \in States, NEW t \in States, NEW u \in States, Follows(u, t), Follows(t, s)
  PROVE  Follows(u, s)
<1> SUFFICES ASSUME NEW n \in 1..Len(s.positions)
             PROVE  /\ u.positions[n].id = s.positions[n].id
                    /\ u.positions[n].entry = s.positions[n].entry
                    /\ u.positions[n].open = s.positions[n].open
                    /\ u.positions[n].high >= s.positions[n].high
  BY DEF Follows
<1>1. /\ s.positions[n].high \in Nat /\ t.positions[n].high \in Nat
      /\ u.positions[n].high \in Nat
  BY HighType DEF Follows
<1> QED BY <1>1 DEF Follows

(* A position only moves on: it is kept, its mark never falls, and it is never
   opened again. *)
Advances(s, t) ==
  /\ Len(s.positions) <= Len(t.positions)
  /\ \A n \in 1..Len(s.positions) :
       /\ t.positions[n].id = s.positions[n].id
       /\ t.positions[n].open => s.positions[n].open
       /\ t.positions[n].high >= s.positions[n].high

LEMMA FollowsAdvances ==
  ASSUME NEW s \in States, NEW t, Follows(t, s) PROVE Advances(s, t)
<1>1. Len(s.positions) \in Nat
  BY LengthType
<1> QED BY <1>1 DEF Follows, Advances

(* When the only running evaluation ends, none runs. *)
LEMMA AllIdle ==
  ASSUME TypeInv, Alone, NEW e \in Evaluations, Running(e), End(e)
  PROVE  Alone' /\ LocalsAreCurrent' /\ RequestFits'
<1>1. \A f \in Evaluations : pc'[f] = "idle"
  BY DEF End, Goto, Alone, Running, TypeInv, TypeOK
<1> QED BY <1>1 DEF Alone, LocalsAreCurrent, RequestFits, Running, HasRead

(* An order of the strategy is none of the others. *)
LEMMA ManualKept ==
  ASSUME TypeInv, NEW e \in Evaluations, TakesEffect(e)
  PROVE  ManualOrders' = ManualOrders
<1>1. version \in Nat /\ version' = version + 1
  BY DEF TakesEffect, TypeInv, TypeOK
<1>2. Len(orders) \in Nat /\ Len(orders') = Len(orders) + 1
  BY OrderAppended
<1> QED BY <1>1, <1>2 DEF ManualOrders

-----------------------------------------------------------------------------
(* An order takes effect. *)
LEMMA EntryCommits ==
  ASSUME TypeInv, SerialInv, NEW e \in Evaluations, TakesEffect(e), IsBuy(e)
  PROVE  Advances(strategy, strategy') /\ PositionsAreClaimed' /\ AtMostOneLot'
<1> DEFINE k == Len(strategy.positions)
<1>1. /\ Good(state[e]) /\ state[e] \in States /\ strategy \in States
      /\ request[e] \in Requests /\ now[e] \in 0..MaxClock
  BY DEF TakesEffect, TypeInv, TypeOK, Good
<1>2. Follows(state[e], strategy) /\ held \in Nat
  BY DEF TakesEffect, SerialInv, LocalsAreCurrent, Running, HasRead, TypeInv, TypeOK
<1>3. strategy' = OpenedState(e)
  BY DEF TakesEffect
<1>4. /\ Len(strategy'.positions) = k + 1
      /\ \A n \in 1..k : strategy'.positions[n] = state[e].positions[n]
      /\ strategy'.positions[k + 1].id = request[e].id
      /\ strategy'.positions[k + 1].open
  <2>1. Len(state[e].positions) = k
    BY <1>2 DEF Follows
  <2>2. LET s == state[e].positions
            t == OpenedState(e).positions
        IN /\ Len(t) = Len(s) + 1
           /\ \A n \in 1..Len(s) : t[n] = s[n]
           /\ t[Len(t)].id = request[e].id /\ t[Len(t)].open
    BY <1>1, OpenedStateFacts
  <2> QED BY <1>3, <2>1, <2>2
<1>5. k \in Nat
  BY <1>1, LengthType
<1>6. \A n \in 1..k : /\ strategy'.positions[n].id = strategy.positions[n].id
                      /\ strategy'.positions[n].open = strategy.positions[n].open
                      /\ strategy'.positions[n].high >= strategy.positions[n].high
  BY <1>2, <1>4 DEF Follows
<1>7. Recorded = 1..k /\ Recorded' = 1..(k + 1)
  BY <1>4 DEF Recorded
<1>8. Advances(strategy, strategy')
  BY <1>4, <1>5, <1>6 DEF Advances
<1>9. PositionsAreClaimed'
  <2>1. keys' = keys \cup {<<request[e].id, "BUY">>} /\ <<request[e].id, "BUY">> \notin keys
    BY DEF TakesEffect, Claimed, KeyOf, IsBuy
  <2>2. \A n \in 1..k : <<strategy.positions[n].id, "BUY">> \in keys
    BY <1>7 DEF SerialInv, TableInv, PositionsAreClaimed
  <2>3. \A n \in 1..k : strategy'.positions[n].id # strategy'.positions[k + 1].id
    BY <1>4, <1>6, <2>1, <2>2
  <2>4. \A m, n \in 1..k : strategy'.positions[m].id = strategy'.positions[n].id => m = n
    BY <1>6, <1>7 DEF SerialInv, TableInv, PositionsAreClaimed
  <2>5. ASSUME NEW n \in 1..(k + 1)
        PROVE  <<strategy'.positions[n].id, "BUY">> \in keys'
    <3>1. CASE n \in 1..k
      BY <1>6, <2>1, <2>2, <3>1
    <3>2. CASE n = k + 1
      BY <1>4, <2>1, <3>2
    <3> QED BY <1>5, <3>1, <3>2
  <2>6. ASSUME NEW m \in 1..(k + 1), NEW n \in 1..(k + 1),
               strategy'.positions[m].id = strategy'.positions[n].id
        PROVE  m = n
    <3>1. CASE m \in 1..k /\ n \in 1..k
      BY <2>4, <2>6, <3>1
    <3>2. CASE m = k + 1 \/ n = k + 1
      BY <1>5, <2>3, <2>6, <3>2
    <3> QED BY <1>5, <3>1, <3>2
  <2> QED BY <1>7, <2>5, <2>6 DEF PositionsAreClaimed
<1>10. AtMostOneLot'
  <2> SUFFICES ASSUME ManualOrders' = 0
               PROVE  \/ held' = 0 /\ \A n \in Recorded' : ~strategy'.positions[n].open
                      \/ held' = 1 /\ \E n \in Recorded' :
                           \A m \in Recorded' : strategy'.positions[m].open <=> m = n
    BY DEF AtMostOneLot
  <2>0. ManualOrders = 0 /\ loaded[e] = held
    BY ManualKept DEF TakesEffect, SerialInv, LocalsAreCurrent, Running
  <2>1. held = 0 /\ held' = 1
    BY <1>2, <2>0 DEF TakesEffect, TypeInv, AgainstHoldings
  <2>2. \A n \in 1..k : ~strategy'.positions[n].open
    BY <1>6, <1>7, <2>0, <2>1 DEF SerialInv, TableInv, AtMostOneLot
  <2>3. \A m \in 1..(k + 1) : strategy'.positions[m].open <=> m = k + 1
    BY <1>4, <1>5, <2>2
  <2>4. k + 1 \in Recorded' /\ \A m \in Recorded' : strategy'.positions[m].open <=> m = k + 1
    BY <1>5, <1>7, <2>3
  <2> QED BY <2>1, <2>4
<1> QED BY <1>8, <1>9, <1>10

LEMMA ExitCommits ==
  ASSUME TypeInv, SerialInv, NEW e \in Evaluations, TakesEffect(e), ~IsBuy(e)
  PROVE  Advances(strategy, strategy') /\ PositionsAreClaimed' /\ AtMostOneLot'
<1> DEFINE k == Len(strategy.positions)
<1>1. Good(state[e]) /\ state[e] \in States /\ strategy \in States
  BY DEF TakesEffect, TypeInv, TypeOK, Good
<1>2. Follows(state[e], strategy) /\ held \in Nat
  BY DEF TakesEffect, SerialInv, LocalsAreCurrent, Running, HasRead, TypeInv, TypeOK
<1>3. strategy' = CompletedState(e)
  BY DEF TakesEffect
<1>4. Len(strategy'.positions) = k /\ k \in Nat
  BY <1>1, <1>2, <1>3, CompletedStateFacts, LengthType DEF Follows
<1>5. \A n \in 1..k :
        /\ strategy'.positions[n].id = strategy.positions[n].id
        /\ strategy'.positions[n].high >= strategy.positions[n].high
        /\ strategy'.positions[n].open <=>
             strategy.positions[n].open /\ strategy.positions[n].id # request[e].id
  <2> TAKE n \in 1..k
  <2>1. n \in 1..Len(state[e].positions)
    BY <1>2 DEF Follows
  <2>2. /\ strategy'.positions[n].id = state[e].positions[n].id
        /\ strategy'.positions[n].high = state[e].positions[n].high
        /\ strategy'.positions[n].open <=>
             state[e].positions[n].open /\ state[e].positions[n].id # request[e].id
    BY <1>1, <1>3, <2>1, CompletedStateFacts
  <2> QED BY <1>2, <2>2 DEF Follows
<1>6. Recorded = 1..k /\ Recorded' = 1..k
  BY <1>4 DEF Recorded
<1>7. Advances(strategy, strategy')
  BY <1>4, <1>5 DEF Advances
<1>8. PositionsAreClaimed'
  <2>1. keys \subseteq keys'
    BY DEF TakesEffect
  <2> QED BY <1>5, <1>6, <2>1 DEF SerialInv, TableInv, PositionsAreClaimed
<1>9. AtMostOneLot'
  <2> SUFFICES ASSUME ManualOrders' = 0
               PROVE  held' = 0 /\ \A n \in Recorded' : ~strategy'.positions[n].open
    BY DEF AtMostOneLot
  <2>0. ManualOrders = 0 /\ loaded[e] = held
    BY ManualKept DEF TakesEffect, SerialInv, LocalsAreCurrent, Running
  <2>1. held # 0 /\ held' = held - 1
    BY <1>2, <2>0 DEF TakesEffect, TypeInv, AgainstHoldings
  <2>2. PICK n \in 1..k : held = 1 /\ \A m \in 1..k : strategy.positions[m].open <=> m = n
    BY <1>6, <2>0, <2>1 DEF SerialInv, TableInv, AtMostOneLot
  <2>3. PICK m \in 1..k : strategy.positions[m].id = request[e].id /\ strategy.positions[m].open
    BY <1>6 DEF SerialInv, RequestFits, TakesEffect
  <2>4. strategy.positions[n].id = request[e].id
    BY <2>2, <2>3
  <2>5. \A j \in 1..k : ~strategy'.positions[j].open
    BY <1>5, <2>2, <2>4
  <2> QED BY <1>6, <2>1, <2>2, <2>5
<1> QED BY <1>7, <1>8, <1>9

LEMMA CommitIsDated ==
  ASSUME TypeInv, SerialInv, NEW e \in Evaluations, TakesEffect(e)
  PROVE  BuysAreDated'
<1> DEFINE k == Len(orders)
<1>1. /\ k \in Nat /\ Len(orders') = k + 1
      /\ \A n \in 1..k : orders'[n] = orders[n]
      /\ orders'[k + 1].action = request[e].action /\ orders'[k + 1].at = now[e]
  <2>1. /\ Len(orders) \in Nat /\ Len(orders') = Len(orders) + 1
        /\ \A n \in 1..Len(orders) : orders'[n] = orders[n]
        /\ orders'[Len(orders')] =
             [id |-> request[e].id, action |-> request[e].action, at |-> now[e]]
    BY OrderAppended
  <2> QED BY <2>1
<1>2. \A n \in 1..k : orders[n].at \in Int
  <2> TAKE n \in 1..k
  <2>1. orders[n] \in [id : Signals, action : {"BUY"} \cup ExitReasons, at : 0..MaxClock]
    BY ElementOfSeq DEF TypeInv, TypeOK
  <2> QED BY <2>1, BoundAssumption
<1>3. /\ now[e] \in 0..MaxClock /\ Good(state[e]) /\ request[e] \in Requests
      /\ state[e].lastBuy = strategy.lastBuy
      /\ strategy.lastBuy \in 0..MaxClock \cup {None}
  BY DEF TakesEffect, TypeInv, TypeOK, SerialInv, LocalsAreCurrent, HasRead, States
<1>4. /\ \A n \in Entries : strategy.lastBuy # None /\ orders[n].at <= strategy.lastBuy
      /\ \A m, n \in Entries : m < n => orders[n].at - orders[m].at >= Cooldown
  BY DEF SerialInv, TableInv, BuysAreDated, CooldownBetweenBuys
<1>5. CASE IsBuy(e)
  <2>1. strategy'.lastBuy = now[e] /\ strategy'.lastBuy # None
    <3>1. OpenedState(e).lastBuy = now[e]
      BY <1>3, OpenedStateFacts
    <3> QED BY <1>3, <1>5, <3>1, BoundAssumption, NoneAssumption DEF TakesEffect
  <2>2. Entries' \ {k + 1} = Entries
    BY <1>1 DEF Entries
  <2>3. \A n \in Entries : now[e] - orders[n].at >= Cooldown
    <3>1. ~InCooldown(e)
      BY <1>5 DEF SerialInv, RequestFits, TakesEffect
    <3> QED BY <1>2, <1>3, <1>4, <3>1, BoundAssumption DEF InCooldown, Entries
  <2>4. \A n \in Entries : orders[n].at <= now[e] /\ orders'[n] = orders[n] /\ n \in 1..k
    BY <1>1, <1>2, <1>3, <2>3, BoundAssumption DEF Entries
  <2>5. Entries' \subseteq 1..(k + 1)
    BY <1>1 DEF Entries
  <2>6. \A n \in Entries' : orders'[n].at <= strategy'.lastBuy
    BY <1>1, <1>3, <2>1, <2>2, <2>4, BoundAssumption
  <2>7. ASSUME NEW m \in Entries', NEW n \in Entries', m < n
        PROVE  orders'[n].at - orders'[m].at >= Cooldown
    <3>1. m # k + 1
      BY <1>1, <2>5, <2>7
    <3>2. m \in Entries
      BY <2>2, <3>1
    <3>3. CASE n = k + 1
      BY <1>1, <2>3, <2>4, <3>2, <3>3
    <3>4. CASE n # k + 1
      BY <1>4, <2>2, <2>4, <2>7, <3>2, <3>4
    <3> QED BY <3>3, <3>4
  <2> QED BY <2>1, <2>6, <2>7 DEF BuysAreDated, CooldownBetweenBuys
<1>6. CASE ~IsBuy(e)
  <2>1. strategy'.lastBuy = strategy.lastBuy
    BY <1>3, <1>6, CompletedStateFacts DEF TakesEffect
  <2>2. Entries' = Entries /\ \A n \in Entries : orders'[n] = orders[n]
    BY <1>1, <1>6 DEF Entries, IsBuy
  <2> QED BY <1>4, <2>1, <2>2 DEF BuysAreDated, CooldownBetweenBuys
<1> QED BY <1>5, <1>6

(* The state that an evaluation saves is the stored one with its marks raised. *)
LEMMA SaveFollows ==
  ASSUME TypeInv, SerialInv, NEW e \in Evaluations, Save(e)
  PROVE  Advances(strategy, strategy') /\ TableInv'
<1>1. strategy \in States /\ Follows(state[e], strategy) /\ state[e].lastBuy = strategy.lastBuy
  BY DEF Save, TypeInv, TypeOK, SerialInv, LocalsAreCurrent, HasRead
<1>2. strategy' = state[e] /\ UNCHANGED <<held, version, keys, orders>>
  BY DEF Save
<1>3. Advances(strategy, strategy')
  BY <1>1, <1>2, FollowsAdvances
<1>4. Recorded' = Recorded
  BY <1>1, <1>2 DEF Recorded, Follows
<1>5. \A n \in Recorded : /\ strategy'.positions[n].id = strategy.positions[n].id
                          /\ strategy'.positions[n].open = strategy.positions[n].open
  BY <1>1, <1>2 DEF Recorded, Follows
<1>6. PositionsAreClaimed'
  BY <1>2, <1>4, <1>5 DEF SerialInv, TableInv, PositionsAreClaimed
<1>7. AtMostOneLot'
  BY <1>2, <1>4, <1>5 DEF SerialInv, TableInv, AtMostOneLot, ManualOrders
<1>8. BuysAreDated'
  BY <1>1, <1>2 DEF SerialInv, TableInv, BuysAreDated, Entries, CooldownBetweenBuys
<1>9. ManualOrders' \in Nat
  BY <1>2 DEF SerialInv, TableInv, ManualOrders
<1> QED BY <1>3, <1>6, <1>7, <1>8, <1>9 DEF TableInv

LEMMA TableUnchanged ==
  ASSUME TypeInv, SerialInv, UNCHANGED <<table, orders>>
  PROVE  Advances(strategy, strategy') /\ TableInv'
<1>1. Advances(strategy, strategy)
  BY FollowsSelf, FollowsAdvances DEF TypeInv, TypeOK
<1> QED BY <1>1 DEF table, SerialInv, TableInv, PositionsAreClaimed, AtMostOneLot, BuysAreDated,
           Recorded, Entries, CooldownBetweenBuys, Advances, ManualOrders

LEMMA SerialDecides ==
  ASSUME TypeInv, SerialInv, NEW e \in Evaluations, Decide(e)
  PROVE  SerialInv' /\ Advances(strategy, strategy')
<1>1. PICK t \in States :
        \/ Decided(e, t, "save") /\ request' = request
        \/ /\ Decided(e, t, "submit")
           /\ \E r \in Requests :
                /\ request' = [request EXCEPT ![e] = r]
                /\ \/ r.action = "BUY" /\ ~InCooldown(e)
                   \/ /\ r.action # "BUY"
                      /\ \E n \in 1..Len(state[e].positions) :
                           state[e].positions[n].id = r.id /\ state[e].positions[n].open
  BY Deciding
<1>2. PICK label \in {"save", "submit"} : Decided(e, t, label)
  BY <1>1
<1>3. /\ Follows(t, state[e]) /\ t.lastBuy = state[e].lastBuy
      /\ pc[e] = "decide" /\ Goto(e, label) /\ state' = [state EXCEPT ![e] = t]
      /\ UNCHANGED <<market, table, loaded, now, expected, orders>>
  BY <1>2 DEF Decided
<1>4. /\ strategy \in States /\ state[e] \in States
      /\ Follows(state[e], strategy) /\ state[e].lastBuy = strategy.lastBuy
  BY <1>3 DEF TypeInv, TypeOK, SerialInv, LocalsAreCurrent, HasRead
<1>5. \A f \in Evaluations : /\ pc'[f] = IF f = e THEN label ELSE pc[f]
                             /\ state'[f] = IF f = e THEN t ELSE state[f]
  BY <1>3 DEF Goto, TypeInv, TypeOK
<1>6. Alone'
  BY <1>3, <1>5 DEF SerialInv, Alone, Running
<1>7. LocalsAreCurrent'
  <2>1. Follows(t, strategy)
    BY <1>3, <1>4, FollowsTransitive
  <2> QED BY <1>3, <1>4, <1>5, <2>1
          DEF SerialInv, LocalsAreCurrent, Running, HasRead, table, Follows, ManualOrders
<1>8. RequestFits'
  <2> SUFFICES ASSUME NEW f \in Evaluations, pc'[f] \in {"submit", "commit"}
               PROVE  \/ IsBuy(f)' /\ ~InCooldown(f)'
                      \/ /\ ~IsBuy(f)'
                         /\ \E n \in Recorded : strategy.positions[n].id = request'[f].id
                                               /\ strategy.positions[n].open
    BY <1>3 DEF RequestFits, table, Recorded
  <2>1. f = e
    BY <1>3, <1>5 DEF SerialInv, Alone, Running
  <2>2. PICK r \in Requests :
          /\ request' = [request EXCEPT ![e] = r]
          /\ \/ r.action = "BUY" /\ ~InCooldown(e)
             \/ /\ r.action # "BUY"
                /\ \E n \in 1..Len(state[e].positions) :
                     state[e].positions[n].id = r.id /\ state[e].positions[n].open
    <3>1. label = "submit"
      BY <1>5, <2>1
    <3>2. ~Decided(e, t, "save")
      BY <1>5, <2>1, <3>1 DEF Decided, Goto, TypeInv, TypeOK
    <3> QED BY <1>1, <3>2
  <2>3. request'[e] = r
    BY <2>2 DEF TypeInv, TypeOK
  <2>4. InCooldown(e)' <=> InCooldown(e)
    BY <1>3, <1>5 DEF InCooldown
  <2>5. ASSUME NEW n \in 1..Len(state[e].positions)
        PROVE  /\ n \in Recorded
               /\ strategy.positions[n].id = state[e].positions[n].id
               /\ strategy.positions[n].open = state[e].positions[n].open
    BY <1>4 DEF Follows, Recorded
  <2> QED BY <2>1, <2>2, <2>3, <2>4, <2>5 DEF IsBuy
<1>9. Advances(strategy, strategy') /\ TableInv'
  BY <1>3, TableUnchanged
<1> QED BY <1>6, <1>7, <1>8, <1>9 DEF SerialInv

LEMMA SerialNext ==
  ASSUME Serial, TypeInv, SerialInv, [Next]_vars
  PROVE  SerialInv' /\ Advances(strategy, strategy')
<1> USE DEF market, table, locals
<1>1. ASSUME NEW e \in Evaluations, LoadPortfolio(e)
      PROVE  SerialInv' /\ Advances(strategy, strategy')
  <2>1. \A f \in Evaluations : pc[f] = "idle"
    BY <1>1 DEF LoadPortfolio, Serial
  <2>2. \A f \in Evaluations : /\ pc'[f] = IF f = e THEN "read_state" ELSE "idle"
                               /\ f = e => loaded'[f] = held
    BY <1>1, <2>1 DEF LoadPortfolio, Goto, TypeInv, TypeOK
  <2>3. \A f \in Evaluations : /\ Running(f)' => f = e
                               /\ ~HasRead(f)'
                               /\ pc'[f] \notin {"submit", "commit"}
    BY <2>2 DEF Running, HasRead
  <2>4. Alone' /\ LocalsAreCurrent' /\ RequestFits'
    <3>1. Alone'
      BY <2>3 DEF Alone
    <3>2. LocalsAreCurrent'
      BY <1>1, <2>2, <2>3 DEF LoadPortfolio, LocalsAreCurrent
    <3>3. RequestFits'
      BY <2>3 DEF RequestFits
    <3> QED BY <3>1, <3>2, <3>3
  <2> QED BY <1>1, <2>4, TableUnchanged DEF LoadPortfolio, SerialInv
<1>2. ASSUME NEW e \in Evaluations, ReadState(e)
      PROVE  SerialInv' /\ Advances(strategy, strategy')
  <2>1. \A f \in Evaluations : /\ pc'[f] = IF f = e THEN "decide" ELSE pc[f]
                               /\ state'[f] = IF f = e THEN strategy ELSE state[f]
    BY <1>2 DEF ReadState, Goto, TypeInv, TypeOK
  <2>2. \A f \in Evaluations : f # e => pc'[f] = "idle"
    BY <1>2, <2>1 DEF ReadState, SerialInv, Alone, Running
  <2>3. Follows(strategy, strategy)
    BY FollowsSelf DEF TypeInv, TypeOK
  <2>4. Alone' /\ RequestFits'
    BY <2>1, <2>2 DEF Alone, RequestFits, Running
  <2>5. LocalsAreCurrent'
    BY <1>2, <2>1, <2>2, <2>3
       DEF ReadState, SerialInv, LocalsAreCurrent, Running, HasRead, Follows, ManualOrders
  <2> QED BY <1>2, <2>4, <2>5, TableUnchanged DEF ReadState, SerialInv
<1>3. ASSUME NEW e \in Evaluations, Decide(e)
      PROVE  SerialInv' /\ Advances(strategy, strategy')
  BY <1>3, SerialDecides
<1>4. ASSUME NEW e \in Evaluations, SubmitOrder(e) \/ OrderRejected(e)
      PROVE  SerialInv' /\ Advances(strategy, strategy')
  <2>1. UNCHANGED <<held, keys, strategy, version, loaded, now, state, request, orders>>
    BY <1>4 DEF SubmitOrder, OrderRejected
  <2>2. PICK label \in {"commit", "save"} : pc[e] \in {"submit", "commit"} /\ Goto(e, label)
    BY <1>4 DEF SubmitOrder, OrderRejected
  <2>3. \A f \in Evaluations : pc'[f] = IF f = e THEN label ELSE pc[f]
    BY <2>2 DEF Goto, TypeInv, TypeOK
  <2>4. \A f \in Evaluations : /\ Running(f)' <=> Running(f)
                               /\ HasRead(f)' <=> HasRead(f)
                               /\ pc'[f] \in {"submit", "commit"} => pc[f] \in {"submit", "commit"}
    <3> TAKE f \in Evaluations
    <3>1. CASE f = e
      BY <2>2, <2>3, <3>1 DEF Running, HasRead
    <3>2. CASE f # e
      BY <2>3, <3>2 DEF Running, HasRead
    <3> QED BY <3>1, <3>2
  <2>5. Alone'
    BY <2>4 DEF SerialInv, Alone
  <2>6. LocalsAreCurrent'
    BY <2>1, <2>4 DEF SerialInv, LocalsAreCurrent, Follows, ManualOrders
  <2>7. RequestFits'
    <3>1. \A f \in Evaluations : (IsBuy(f)' <=> IsBuy(f)) /\ (InCooldown(f)' <=> InCooldown(f))
      BY <2>1 DEF IsBuy, InCooldown
    <3> QED BY <2>1, <2>4, <3>1 DEF SerialInv, RequestFits, Recorded
  <2> QED BY <2>1, <2>5, <2>6, <2>7, TableUnchanged DEF SerialInv
<1>5. ASSUME NEW e \in Evaluations, OrderCommits(e)
      PROVE  SerialInv' /\ Advances(strategy, strategy')
  <2>1. TakesEffect(e) /\ End(e) /\ Running(e)
    BY <1>5 DEF OrderCommits, Finish, TakesEffect, Running
  <2>2. Advances(strategy, strategy') /\ PositionsAreClaimed' /\ AtMostOneLot'
    BY <2>1, EntryCommits, ExitCommits
  <2>3. BuysAreDated'
    BY <2>1, CommitIsDated
  <2>4. Alone' /\ LocalsAreCurrent' /\ RequestFits'
    BY <2>1, AllIdle DEF SerialInv
  <2>5. ManualOrders' \in Nat
    BY <2>1, ManualKept DEF SerialInv, TableInv
  <2> QED BY <2>2, <2>3, <2>4, <2>5 DEF SerialInv, TableInv
<1>6. ASSUME NEW e \in Evaluations, Save(e)
      PROVE  SerialInv' /\ Advances(strategy, strategy')
  <2>1. End(e) /\ Running(e)
    BY <1>6 DEF Save, Running
  <2> QED BY <1>6, <2>1, AllIdle, SaveFollows DEF SerialInv
<1>7. ASSUME NEW e \in Evaluations, Crash(e)
      PROVE  SerialInv' /\ Advances(strategy, strategy')
  <2>1. End(e) /\ Running(e) /\ UNCHANGED <<table, orders>>
    BY <1>7 DEF Crash, Running
  <2> QED BY <2>1, AllIdle, TableUnchanged DEF SerialInv
<1>8. CASE MarketMoves \/ Tick \/ UNCHANGED vars
  <2>1. UNCHANGED <<table, pc, locals, orders>>
    BY <1>8 DEF MarketMoves, Tick, vars
  <2>2. Alone' /\ LocalsAreCurrent' /\ RequestFits'
    BY <2>1 DEF SerialInv, Alone, LocalsAreCurrent, RequestFits, IsBuy, InCooldown, Recorded,
                Follows, Running, HasRead, ManualOrders
  <2> QED BY <2>1, <2>2, TableUnchanged DEF SerialInv
<1>9. CASE ManualOrder
  <2>1. UNCHANGED <<keys, strategy, pc, locals, orders>>
    BY <1>9 DEF ManualOrder
  <2>2. ManualOrders' \in Nat \ {0}
    <3>1. version \in Nat /\ Len(orders) \in Nat /\ ManualOrders \in Nat
      BY LenProperties DEF TypeInv, TypeOK, SerialInv, TableInv
    <3> QED BY <1>9, <2>1, <3>1 DEF ManualOrder, ManualOrders
  <2>3. Alone' /\ LocalsAreCurrent' /\ RequestFits'
    BY <2>1, <2>2 DEF SerialInv, Alone, LocalsAreCurrent, RequestFits, IsBuy, InCooldown,
                      Recorded, Follows, Running, HasRead
  <2>4. TableInv'
    BY <2>1, <2>2 DEF SerialInv, TableInv, PositionsAreClaimed, AtMostOneLot, BuysAreDated,
                      Recorded, Entries, CooldownBetweenBuys
  <2>5. Advances(strategy, strategy')
    BY <2>1, FollowsSelf, FollowsAdvances DEF TypeInv, TypeOK
  <2> QED BY <2>3, <2>4, <2>5 DEF SerialInv
<1>10. \A e \in Evaluations : ~OrderLost(e)
  BY DEF Serial, OrderLost
<1> QED BY <1>1, <1>2, <1>3, <1>4, <1>5, <1>6, <1>7, <1>8, <1>9, <1>10 DEF Next

-----------------------------------------------------------------------------
LEMMA SerialInit == Init => SerialInv
<1> SUFFICES ASSUME Init PROVE SerialInv
  OBVIOUS
<1>1. Recorded = {} /\ Entries = {}
  BY DEF Init, Recorded, Entries, NewState
<1>2. \A e \in Evaluations : pc[e] = "idle"
  BY DEF Init
<1>3. Alone /\ LocalsAreCurrent /\ RequestFits
  BY <1>2 DEF Alone, LocalsAreCurrent, RequestFits, Running, HasRead
<1>4. PositionsAreClaimed /\ AtMostOneLot
  BY <1>1 DEF Init, PositionsAreClaimed, AtMostOneLot
<1>5. BuysAreDated
  BY <1>1 DEF BuysAreDated, CooldownBetweenBuys
<1>6. ManualOrders = 0
  <2>1. version = 1 /\ Len(orders) = 0
    BY DEF Init
  <2> QED BY <2>1 DEF ManualOrders
<1> QED BY <1>3, <1>4, <1>5, <1>6 DEF SerialInv, TableInv

LEMMA SerialCorrect ==
  ASSUME Serial
  PROVE  Spec => [](TypeInv /\ SerialInv) /\ [][Advances(strategy, strategy') /\ SerialInv']_vars
<1>1. TypeInv /\ SerialInv /\ [Next]_vars => TypeInv' /\ SerialInv'
  BY TypeNext, SerialNext
<1>2. TypeInv /\ SerialInv /\ [Next]_vars => [Advances(strategy, strategy') /\ SerialInv']_vars
  BY SerialNext
<1> QED BY <1>1, <1>2, TypeInit, SerialInit, PTL DEF Spec

(* What the portfolio holds is what the strategy watches, after any number of
   entries, exits, rejections and stops. *)
THEOREM HoldingSafety == ASSUME Serial PROVE Spec => []PositionsMatchHoldings
<1>1. SerialInv => PositionsMatchHoldings
  <2> SUFFICES ASSUME AtMostOneLot, ManualOrders = 0 PROVE PositionsMatchHoldings
    BY DEF SerialInv, TableInv, PositionsMatchHoldings
  <2> DEFINE Open == {n \in Recorded : strategy.positions[n].open}
  <2>1. CASE held = 0 /\ \A n \in Recorded : ~strategy.positions[n].open
    <3>1. Open = {}
      BY <2>1
    <3> QED BY <2>1, <3>1, FS_EmptySet DEF PositionsMatchHoldings
  <2>2. CASE held = 1 /\ \E n \in Recorded :
                           \A m \in Recorded : strategy.positions[m].open <=> m = n
    <3>1. PICK n \in Recorded : \A m \in Recorded : strategy.positions[m].open <=> m = n
      BY <2>2
    <3>2. Open = {n}
      BY <3>1
    <3> QED BY <2>2, <3>2, FS_Singleton DEF PositionsMatchHoldings
  <2> QED BY <2>1, <2>2 DEF AtMostOneLot
<1> QED BY <1>1, SerialCorrect, PTL

(* The cooldown is kept, whatever exits, rejections and replays come between. *)
THEOREM CooldownSafety == ASSUME Serial PROVE Spec => []CooldownBetweenBuys
<1>1. SerialInv => CooldownBetweenBuys
  BY DEF SerialInv, TableInv, BuysAreDated
<1> QED BY <1>1, SerialCorrect, PTL

(* No position is lost or opened again, by a commit or by the save at the end. *)
THEOREM ClosureSafety == ASSUME Serial PROVE Spec => ClosedStaysClosed
<1> DEFINE Kept ==
      \A n \in Recorded : \E m \in 1..Len(strategy'.positions) :
        /\ strategy'.positions[m].id = strategy.positions[n].id
        /\ strategy'.positions[m].open => strategy.positions[n].open
<1>1. TypeInv /\ TypeInv' /\ Advances(strategy, strategy') => Kept
  <2> SUFFICES ASSUME TypeInv, TypeInv', Advances(strategy, strategy'), NEW n \in Recorded
               PROVE  /\ n \in 1..Len(strategy'.positions)
                      /\ strategy'.positions[n].id = strategy.positions[n].id
                      /\ strategy'.positions[n].open => strategy.positions[n].open
    OBVIOUS
  <2>1. Len(strategy.positions) \in Nat /\ Len(strategy'.positions) \in Nat
    BY LengthType DEF TypeInv, TypeOK
  <2> QED BY <2>1 DEF Advances, Recorded
<1>2. [][Kept]_vars => ClosedStaysClosed
  BY PTL DEF ClosedStaysClosed
<1> HIDE DEF Kept
<1> QED BY <1>1, <1>2, SerialCorrect, PTL

(* The mark from which the trailing stop is measured survives every save. *)
THEOREM HighWaterSafety == ASSUME Serial PROVE Spec => HighWaterMarkNeverFalls
<1> DEFINE NeverFalls ==
      \A n \in Recorded, m \in 1..Len(strategy'.positions) :
        strategy'.positions[m].id = strategy.positions[n].id
          => strategy'.positions[m].high >= strategy.positions[n].high
<1>1. TypeInv /\ TypeInv' /\ Advances(strategy, strategy') /\ SerialInv' => NeverFalls
  <2> SUFFICES ASSUME TypeInv, TypeInv', Advances(strategy, strategy'), SerialInv',
                      NEW n \in Recorded, NEW m \in 1..Len(strategy'.positions),
                      strategy'.positions[m].id = strategy.positions[n].id
               PROVE  strategy'.positions[m].high >= strategy.positions[n].high
    OBVIOUS
  <2>1. Len(strategy.positions) \in Nat /\ Len(strategy'.positions) \in Nat
    BY LengthType DEF TypeInv, TypeOK
  <2>2. n \in 1..Len(strategy'.positions) /\ strategy'.positions[n].id = strategy.positions[n].id
    BY <2>1 DEF Advances, Recorded
  <2>3. m = n
    BY <2>2 DEF SerialInv, TableInv, PositionsAreClaimed, Recorded
  <2> QED BY <2>3 DEF Advances, Recorded
<1>2. [][NeverFalls]_vars => HighWaterMarkNeverFalls
  BY PTL DEF HighWaterMarkNeverFalls
<1> HIDE DEF NeverFalls
<1> QED BY <1>1, <1>2, SerialCorrect, PTL

=============================================================================
