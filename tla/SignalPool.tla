----------------------------- MODULE SignalPool -----------------------------
(***************************************************************************)
(* alpha/: AlphaFactory proposes signals, the filters for turnover and     *)
(* stability let them pass, and SignalPool deploys them, records their     *)
(* trades and kills them.  Edges and costs are in basis points, and a cost *)
(* is an amount of money: the code subtracts one from the other.           *)
(***************************************************************************)
EXTENDS Integers, Sequences, FiniteSets, SequencesExt

CONSTANTS
  Proposals,       \* arguments of generate: [symbol, edge, confidence, size,
                   \* price, impact], impact being what slippage and impact
                   \* add to the fee rate at this size and depth
  FeeRate,         \* in basis points
  MinEdge, MinConfidence,
  MaxTurnover,     \* max_turnover of the portfolio, in money
  TurnoverWindow, TurnoverCooldown,
  Errors,          \* prediction errors, actual minus predicted
  MinStable, VarianceWindow,
  Profits,         \* profits of trades of a signal
  MinReturns,      \* returns below which the Sharpe ratio is 0
  MinKill,         \* min_trades_before_kill
  SharpeTrades,    \* 10: trades before the ratio counts
  MaxTrades,       \* kill_after_trades
  MaxDip,          \* max_drawdown_contribution
  MaxMissed,       \* max_prediction_error, of the mean
  MaxAge,          \* kill_after_days
  Factories        \* [past, proposals, signals, scored, outcomes, turns, time]:
                   \* whether the pool and its signals are called past the factory,
                   \* what is proposed, and bounds on signals, trades of one (below
                   \* the 100 a score keeps), what the filters are told, and time

ASSUME SignalConstants ==
  /\ Errors \subseteq Int /\ Profits \subseteq Int
  /\ MinStable \in Nat /\ VarianceWindow \in Nat /\ TurnoverWindow \in Nat
  /\ TurnoverCooldown \in 0 .. TurnoverWindow + 1  \* a trade that cools is still in the window
  /\ MinReturns \in Nat /\ MinKill \in Nat \ {0} /\ MaxTrades \in Nat /\ MaxDip \in Nat
  /\ SharpeTrades \in Nat /\ MaxMissed \in Nat /\ MaxAge \in Nat
  /\ \A f \in Factories : f.proposals \subseteq Proposals

VARIABLES
  factory,
  outcomes,        \* StabilityFilter: the last errors of each symbol
  recorded,        \* number of outcomes recorded
  turnover,        \* TurnoverFilter: [symbol, value, at] of the window
  traded,          \* history: the same of all trades
  signals,         \* the pool, in order of creation
  told,            \* signals whose kill reached the callback
  unexamined,      \* history: signals that were deployed, traded past the factory
                   \* or grew too old since the pool was last evaluated
  alphaTime

alphaVars == <<factory, outcomes, recorded, turnover, traded, signals, told, unexamined, alphaTime>>

AlphaSymbols == {p.symbol : p \in Proposals}

Unscored == [count |-> 0, returns |-> 0, sum |-> 0, squares |-> 0, peak |-> 0, dip |-> 0, missed |-> 0]

AlphaInit ==
  /\ factory \in Factories
  /\ outcomes = [s \in AlphaSymbols |-> <<>>] /\ recorded = 0
  /\ turnover = <<>> /\ traded = <<>>
  /\ signals = <<>> /\ told = {} /\ unexamined = {}
  /\ alphaTime = 0

-----------------------------------------------------------------------------
SumOf(q) == FoldLeft(LAMBDA total, e : total + e, 0, q)
SumSquares(q) == FoldLeft(LAMBDA total, e : total + e * e, 0, q)

\* calculate_costs: without a price there are none.
Cost(p) == p.size * p.price * (FeeRate + p.impact)

\* compute_net_edge
NetEdge(p) == IF p.edge > Cost(p) THEN p.edge - Cost(p) ELSE 0

\* _cleanup_old_trades: what is too old leaves at the front.
RecentTrades(q) ==
  SubSeq(q, Cardinality({i \in DOMAIN q : \A j \in 1 .. i : q[j].at < alphaTime - TurnoverWindow}) + 1, Len(q))
Turned(q) == SumOf([i \in DOMAIN q |-> q[i].value])

TurnoverPasses(p) == Turned(RecentTrades(turnover)) + p.size * p.price <= MaxTurnover

\* Of errors whose mean is zero any deviation passes: it is compared as it is,
\* and errors are far below one.
LowVariation(q) ==
  LET sum == SumOf(q)
  IN  sum = 0 \/ 4 * (Len(q) * SumSquares(q) - sum * sum) <= sum * sum

\* StabilityFilter.check: no history does not pass.
StabilityPasses(s) == Len(outcomes[s]) >= MinStable /\ LowVariation(outcomes[s])

\* SignalFilters.validate; the signal has no timestamp.
Passes(p) ==
  p.confidence >= MinConfidence /\ TurnoverPasses(p) /\ StabilityPasses(p.symbol)

\* A signal of the pool, made by the factory or by a caller.
Created(p, state, made) ==
  [of |-> p, state |-> state, made |-> made, created |-> alphaTime, score |-> Unscored]

\* AlphaFactory.generate: what does not pass leaves no trace; what passes is
\* created and validated in one go.
Generate ==
  \E p \in factory.proposals :
    /\ Len(signals) < factory.signals
    /\ NetEdge(p) >= MinEdge /\ Passes(p)
    /\ turnover' = RecentTrades(turnover)
    /\ signals' = Append(signals, Created(p, "validated", "factory"))
    /\ UNCHANGED <<factory, outcomes, recorded, traded, told, unexamined, alphaTime>>

\* create_signal of the pool, which is public.
CreateSignal ==
  \E p \in factory.proposals :
    /\ factory.past /\ Len(signals) < factory.signals
    /\ signals' = Append(signals, Created(p, "generated", "caller"))
    /\ UNCHANGED <<factory, outcomes, recorded, turnover, traded, told, unexamined, alphaTime>>

\* So is validate_signal: the caller brings the result of the filters and the edge,
\* and no state is too late for it.
ValidateSignal(i, passed) ==
  /\ factory.past
  /\ signals' = [signals EXCEPT ![i].state = IF passed THEN "validated" ELSE "rejected"]
  /\ UNCHANGED <<factory, outcomes, recorded, turnover, traded, told, unexamined, alphaTime>>

\* Mutant: any signal can be deployed.
DeployAny(i) ==
  /\ signals[i].state # "deployed"
  /\ signals' = [signals EXCEPT ![i].state = "deployed"]
  /\ unexamined' = unexamined \cup {i}
  /\ UNCHANGED <<factory, outcomes, recorded, turnover, traded, told, alphaTime>>

\* deploy raises unless the signal is validated; the factory catches that.
Deploy(i) ==
  /\ signals[i].state = "validated"
  /\ signals' = [signals EXCEPT ![i].state = "deployed"]
  /\ unexamined' = unexamined \cup {i}
  /\ UNCHANGED <<factory, outcomes, recorded, turnover, traded, told, alphaTime>>

Monitor(i) ==
  /\ signals[i].state = "deployed"
  /\ signals' = [signals EXCEPT ![i].state = "monitored"]
  /\ UNCHANGED <<factory, outcomes, recorded, turnover, traded, told, unexamined, alphaTime>>

\* SignalMetrics.update_trade: returns of zero are not among the returns.
Scored(m, profit, error) ==
  [count |-> m.count + 1,
   returns |-> IF profit = 0 THEN m.returns ELSE m.returns + 1,
   sum |-> m.sum + profit, squares |-> m.squares + profit * profit,
   peak |-> IF profit = 0 THEN m.peak
            ELSE IF m.returns = 0 THEN profit ELSE Max({m.peak, m.sum + profit}),
   dip |-> IF m.returns = 0 THEN 0 ELSE Max({m.dip, m.peak - m.sum - profit}),
   missed |-> m.missed + error]

\* sharpe < min_sharpe, that is mean / deviation * sqrt(252) < 1 / 2; without
\* deviation the ratio is 0.
PoorSharpe(m) ==
  LET variance == m.returns * m.squares - m.sum * m.sum IN
  /\ m.count >= SharpeTrades
  /\ \/ m.returns < MinReturns \/ variance = 0 \/ m.sum <= 0
      \/ 1008 * m.sum * m.sum < variance

\* _check_kill_conditions
Condemned(s) ==
  LET m == s.score IN
  /\ m.count >= MinKill
  /\ \/ PoorSharpe(m) \/ m.dip > MaxDip
     \/ m.missed > MaxMissed * m.count \/ -m.missed > MaxMissed * m.count
     \/ alphaTime - s.created > MaxAge \/ m.count > MaxTrades

Active(s) == s.state \in {"deployed", "monitored"}

Killed(pool) ==
  [i \in DOMAIN pool |->
     IF Active(pool[i]) /\ Condemned(pool[i]) THEN [pool[i] EXCEPT !.state = "killed"] ELSE pool[i]]

\* Who is killed by an evaluation of the pool.
Victims(pool) == {i \in DOMAIN pool : Killed(pool)[i] # pool[i]}

WithTrade(i, profit, error) ==
  [signals EXCEPT ![i].score = Scored(signals[i].score, profit, error)]

\* AlphaFactory.record_trade takes a signal in any state, evaluates the pool twice
\* and tells the callback what the second evaluation killed.
RecordSignalTrade(i, profit, error) ==
  LET once == Killed(WithTrade(i, profit, error)) IN
  /\ signals[i].score.count < factory.scored
  /\ signals' = Killed(once) /\ told' = told \cup Victims(once) /\ unexamined' = {}
  /\ UNCHANGED <<factory, outcomes, recorded, turnover, traded, alphaTime>>

\* AlphaSignal.record_trade, past the factory.
RecordOnSignal(i, profit, error) ==
  /\ factory.past /\ signals[i].score.count < factory.scored
  /\ signals' = WithTrade(i, profit, error) /\ unexamined' = unexamined \cup {i}
  /\ UNCHANGED <<factory, outcomes, recorded, turnover, traded, told, alphaTime>>

EvaluateAllKills ==
  /\ signals' = Killed(signals) /\ told' = told \cup Victims(signals) /\ unexamined' = {}
  /\ UNCHANGED <<factory, outcomes, recorded, turnover, traded, alphaTime>>

\* StabilityFilter.record_outcome and TurnoverFilter.record_trade, which only the
\* code around the factory can call.
RecordOutcome(s, error) ==
  /\ recorded < factory.outcomes /\ recorded' = recorded + 1
  /\ outcomes' = [outcomes EXCEPT ![s] =
                    LET q == Append(outcomes[s], error)
                    IN  IF Len(q) > VarianceWindow THEN Tail(q) ELSE q]
  /\ UNCHANGED <<factory, turnover, traded, signals, told, unexamined, alphaTime>>

\* A trade in the cooldown of its symbol is not recorded.
RecordTurnover(i) ==
  LET p == signals[i].of
      trade == [symbol |-> p.symbol, value |-> p.size * p.price, at |-> alphaTime]
      cooling == \E j \in DOMAIN turnover :
                   turnover[j].symbol = p.symbol /\ alphaTime - turnover[j].at < TurnoverCooldown IN
  /\ Len(traded) < factory.turns
  /\ signals[i].state = "deployed" /\ \A t \in ToSet(traded) : t.signal # i
  /\ traded' = Append(traded, [signal |-> i, cooling |-> cooling, at |-> alphaTime,
                               value |-> trade.value])
  /\ turnover' = IF cooling THEN turnover ELSE RecentTrades(Append(turnover, trade))
  /\ UNCHANGED <<factory, outcomes, recorded, signals, told, unexamined, alphaTime>>

AlphaTick ==
  /\ alphaTime < factory.time /\ alphaTime' = alphaTime + 1
  /\ unexamined' = unexamined \cup {i \in DOMAIN signals : alphaTime' - signals[i].created = MaxAge + 1}
  /\ UNCHANGED <<factory, outcomes, recorded, turnover, traded, signals, told>>

AlphaNext ==
  \/ Generate \/ CreateSignal \/ EvaluateAllKills \/ AlphaTick
  \/ \E i \in DOMAIN signals :
       \/ Deploy(i) \/ Monitor(i) \/ RecordTurnover(i)
       \/ \E passed \in BOOLEAN : ValidateSignal(i, passed)
       \/ \E profit \in Profits, error \in Errors :
            RecordSignalTrade(i, profit, error) \/ RecordOnSignal(i, profit, error)
  \/ \E s \in AlphaSymbols, error \in Errors : RecordOutcome(s, error)

-----------------------------------------------------------------------------
SignalTypeOK ==
  /\ recorded \in Nat /\ alphaTime \in Nat
  /\ outcomes \in [AlphaSymbols -> BoundedSeq(Errors, VarianceWindow)]
  /\ told \subseteq DOMAIN signals
  /\ \A i \in DOMAIN signals :
       signals[i].of \in Proposals
       /\ signals[i].state \in {"generated", "validated", "deployed", "monitored", "killed", "rejected"}

\* Active signals are good ones: one that is left by an evaluation has, once it has
\* the trades, earned something, dipped and missed little, and is neither old nor
\* worn out, until it trades past the factory or grows too old.  A trade of any
\* signal, whatever its state, is an evaluation of all.
NoneOutlivesItsMerit ==
  \A i \in DOMAIN signals \ unexamined :
    LET m == signals[i].score IN
    Active(signals[i]) /\ m.count >= MinKill =>
      /\ m.count >= SharpeTrades => m.sum > 0 /\ m.returns >= MinReturns
      /\ m.dip <= MaxDip /\ m.missed \in -(MaxMissed * m.count) .. MaxMissed * m.count
      /\ alphaTime - signals[i].created <= MaxAge /\ m.count <= MaxTrades

\* "Generated -> Validated -> Deployed -> Monitored -> Killed": a signal goes back,
\* however often the factory is asked to deploy it, only by being validated again.
LifeOf == <<"generated", "validated", "deployed", "monitored", "killed", "rejected">>
Stage(state) == CHOOSE n \in 1 .. 6 : LifeOf[n] = state
NeverRevived ==
  [][\A i \in DOMAIN signals : \/ Stage(signals'[i].state) >= Stage(signals[i].state)
                               \/ signals'[i].state = "validated"]_alphaVars

\* A symbol without a recorded history has no signals of the factory: it records
\* none itself, and does not generate its first signal.
HistoryFirst ==
  \A i \in DOMAIN signals :
    signals[i].made = "factory" =>
      recorded >= MinStable /\ Len(outcomes[signals[i].of.symbol]) >= MinStable

\* What was recorded of a symbol is at least a cooldown apart, and a trade that was
\* not recorded had a recorded one just before it.
TurnoverSpaced ==
  /\ \A i, j \in DOMAIN turnover : (i < j /\ turnover[i].symbol = turnover[j].symbol) =>
       turnover[j].at - turnover[i].at >= TurnoverCooldown
  /\ \A t \in {x \in ToSet(traded) : x.cooling} :
       \E u \in ToSet(traded) : ~ u.cooling /\ u.at \in t.at - TurnoverCooldown + 1 .. t.at

(* What the code says of itself; TLC refutes it. *)

\* "Set callback for signal kills.": a kill reaches the callback.
KillsAreReported ==
  \A i \in DOMAIN signals : signals[i].state = "killed" => i \in told
=============================================================================
