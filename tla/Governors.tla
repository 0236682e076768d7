----------------------------- MODULE Governors ------------------------------
(***************************************************************************)
(* engines/: the three judges a trade passes.  StagedPositivityGovernor    *)
(* (positivity.py) moves the system between four phases, TradeRateGovernor *)
(* (trade_scarcity.py) limits how often it trades, DecisionResolver        *)
(* (decision_resolver.py) has the last word.                               *)
(*                                                                         *)
(* Each is called by any number of tasks; a call does not suspend, except  *)
(* between should_block_trade and the record_trade that follows it.        *)
(* A tick of the clocks is MIN_TRANSITION_INTERVAL (300 s) for the first,  *)
(* the cooldown for the second.  What an evaluation finds (the mean edge,  *)
(* the drawdown) is drawn.                                                 *)
(***************************************************************************)
EXTENDS Integers, Sequences, FiniteSets, Functions

CONSTANTS
  ClockLimit,    \* bound of both clocks
  LookBack,      \* 1000 s, in ticks
  Floors,        \* [symbols, callers, trades]: who trades, how many at once
  RateLimits,    \* [window, most]
  Decisions,     \* bound on calls of resolve
  HistoryCap     \* _max_history

ASSUME GovernorConstants ==
  /\ ClockLimit \in Nat /\ LookBack \in Nat /\ Decisions \in Nat /\ HistoryCap \in Nat
  /\ \A f \in Floors : IsFiniteSet(f.symbols) /\ f.callers \in Nat \ {0} /\ f.trades \in Nat
  /\ \A l \in RateLimits : l.window \in Nat /\ l.most \in Nat

VARIABLES
  phaseNow, clock,
  lastTransition, recoveryStart, \* times; None before the first
  severeAt,      \* time of the last transition to DERISK or HARD_STOP
  severeSince,   \* history: since when every evaluation was severe
  lastEvaluated, \* history: the time of the last evaluation
  floor,
  tradeLog,      \* _trade_history
  today,         \* _symbol_trades_today
  allowed,       \* history: checked trades not yet recorded, with their caller
  rateClock,
  killed, paused, autonomy, stats, resolved, \* of the resolver; resolved: _decision_history
  resolveCalls   \* history

phaseVars == <<phaseNow, clock, lastTransition, recoveryStart, severeAt, severeSince, lastEvaluated>>
rateVars == <<floor, tradeLog, today, allowed, rateClock>>
resolverVars == <<killed, paused, autonomy, stats, resolved, resolveCalls>>
governorVars == <<phaseVars, rateVars, resolverVars>>

Never == ClockLimit + 1        \* no such time yet
Phases == <<"NORMAL", "CAUTION", "DERISK", "HARD_STOP">>
Ranking(p) == CHOOSE k \in 1..4 : Phases[k] = p
Counts == {"decisions_made", "approved", "rejected", "requires_approval", "paused"}

GovernorInit ==
  /\ phaseNow = "NORMAL" /\ clock = 0
  /\ lastTransition = Never /\ recoveryStart = Never /\ severeAt = Never
  /\ severeSince = Never /\ lastEvaluated = 0
  /\ floor \in Floors /\ tradeLog = <<>> /\ today = [s \in floor.symbols |-> 0]
  /\ allowed = {} /\ rateClock = 0
  /\ killed = FALSE /\ paused = FALSE /\ autonomy = "full_auto"
  /\ stats = [c \in Counts |-> 0] /\ resolved = <<>> /\ resolveCalls = 0

-----------------------------------------------------------------------------
\* _determine_phase: severe conditions first; while recovering from a severe
\* phase, caution, however long ago the recovery began.
DeterminePhase(finding) ==
  CASE finding = "severe"   -> "HARD_STOP"
    [] finding = "weak"     -> "DERISK"
    [] finding = "negative" -> "CAUTION"
    [] finding = "good" -> IF recoveryStart # Never /\ severeAt # Never
                              /\ severeAt + LookBack > recoveryStart
                           THEN "CAUTION" ELSE "NORMAL"

\* Mutant: a transition of any direction waits.
CanTransitionNever(p) == lastTransition = Never \/ clock - lastTransition >= 2

\* _can_transition: only upwards is there anything to wait for.
CanTransition(p) ==
  Ranking(p) > Ranking(phaseNow) => lastTransition = Never \/ clock > lastTransition

Evaluate(finding) ==
  LET p == DeterminePhase(finding) IN
  /\ lastEvaluated' = clock
  /\ severeSince' = IF finding # "severe" THEN Never
                    ELSE IF severeSince = Never THEN clock ELSE severeSince
  /\ IF p # phaseNow /\ CanTransition(p)
     THEN /\ phaseNow' = p /\ lastTransition' = clock
          /\ severeAt' = IF Ranking(p) >= 3 THEN clock ELSE severeAt
          /\ recoveryStart' = IF Ranking(p) > Ranking(phaseNow) THEN Never ELSE clock
     ELSE UNCHANGED <<phaseNow, lastTransition, severeAt, recoveryStart>>
  /\ UNCHANGED <<clock, rateVars, resolverVars>>

PhaseTick ==
  /\ clock < ClockLimit /\ clock' = clock + 1
  /\ UNCHANGED <<phaseNow, lastTransition, recoveryStart, severeAt, severeSince,
                 lastEvaluated, rateVars, resolverVars>>

-----------------------------------------------------------------------------
InWindow(w, now) == Cardinality({k \in DOMAIN tradeLog : tradeLog[k].at + w >= now})
TodayTotal == SumFunctionOnSet(today, floor.symbols)

\* should_block_trade: cooldown of the symbol, rates, share of the symbol.
Blocked(s) ==
  \/ \E k \in DOMAIN tradeLog : tradeLog[k].symbol = s /\ tradeLog[k].at = rateClock
  \/ \E l \in RateLimits : InWindow(l.window, rateClock) >= l.most
  \/ TodayTotal > 0 /\ 10 * today[s] > 3 * TodayTotal

CheckTrade(c, s) ==
  /\ \A a \in allowed : a.caller # c
  /\ Len(tradeLog) + Cardinality(allowed) < floor.trades
  /\ ~Blocked(s) /\ allowed' = allowed \cup {[caller |-> c, symbol |-> s]}
  /\ UNCHANGED <<phaseVars, floor, tradeLog, today, rateClock, resolverVars>>

RecordTrade(a) ==
  /\ a \in allowed /\ allowed' = allowed \ {a}
  /\ tradeLog' = Append(tradeLog, [symbol |-> a.symbol, at |-> rateClock])
  /\ today' = [today EXCEPT ![a.symbol] = @ + 1]
  /\ UNCHANGED <<phaseVars, floor, rateClock, resolverVars>>

RateTick ==
  /\ rateClock < ClockLimit /\ rateClock' = rateClock + 1
  /\ UNCHANGED <<phaseVars, floor, tradeLog, today, allowed, resolverVars>>

\* _reset_daily_counts_if_needed, at the first check of a new day.
NewDay ==
  /\ TodayTotal > 0 /\ today' = [s \in floor.symbols |-> 0]
  /\ UNCHANGED <<phaseVars, floor, tradeLog, allowed, rateClock, resolverVars>>

-----------------------------------------------------------------------------
\* _evaluate_hierarchy: the first gate that fails, then the autonomy mode.
Outcome(failing) ==
  IF "data" \in failing \/ "edge" \in failing THEN "rejected"
  ELSE IF "failures" \in failing THEN "paused"
  ELSE IF "risk" \in failing THEN "rejected"
  ELSE IF autonomy = "full_auto" THEN "approved" ELSE "requires_approval"

\* resolve: a switch or a pause answers before the gates, and a pause that the
\* gates find is not counted as paused.
Resolve(failing) ==
  LET outcome == IF killed THEN "kill_switch" ELSE IF paused THEN "paused" ELSE Outcome(failing)
      counted == IF killed THEN {}
                 ELSE IF paused THEN {"paused"}
                 ELSE {"decisions_made"} \cup ({outcome} \ {"paused"})
      all == Append(resolved, outcome)
  IN /\ resolveCalls < Decisions /\ resolveCalls' = resolveCalls + 1
     /\ stats' = [c \in Counts |-> IF c \in counted THEN stats[c] + 1 ELSE stats[c]]
     /\ resolved' = IF Len(all) > HistoryCap THEN Tail(all) ELSE all
     /\ UNCHANGED <<killed, paused, autonomy, phaseVars, rateVars>>

Command ==
  /\ \/ killed' = ~killed /\ UNCHANGED <<paused, autonomy>>
     \/ paused' = ~paused /\ UNCHANGED <<killed, autonomy>>
     \/ \E m \in {"full_auto", "semi_auto", "manual"} \ {autonomy} :
          autonomy' = m /\ UNCHANGED <<killed, paused>>
  /\ UNCHANGED <<stats, resolved, resolveCalls, phaseVars, rateVars>>

PhaseNext == PhaseTick \/ \E finding \in {"severe", "weak", "negative", "good"} : Evaluate(finding)

RateNext ==
  \/ RateTick \/ NewDay \/ \E a \in allowed : RecordTrade(a)
  \/ \E c \in 1..floor.callers, s \in floor.symbols : CheckTrade(c, s)

ResolverNext ==
  Command \/ \E failing \in SUBSET {"data", "edge", "failures", "risk"} : Resolve(failing)

-----------------------------------------------------------------------------
GovernorTypeOK ==
  /\ Ranking(phaseNow) \in 1..4
  /\ {lastTransition, recoveryStart, severeAt, severeSince} \subseteq 0..clock \cup {Never}
  /\ today \in [floor.symbols -> 0..floor.trades] /\ Len(tradeLog) <= floor.trades
  /\ stats \in [Counts -> 0..Decisions] /\ Len(resolved) <= HistoryCap

\* A condition that every evaluation finds severe has stopped the system by the
\* first evaluation after MIN_TRANSITION_INTERVAL, wherever it started from.
SevereStopsInTime ==
  severeSince # Never /\ lastEvaluated > severeSince => phaseNow = "HARD_STOP"

\* Concurrent callers overshoot a rate limit by no more than the trades that
\* were checked at once.
RatesHeld ==
  \A l \in RateLimits : \A now \in 0..rateClock :
    Cardinality({k \in DOMAIN tradeLog : tradeLog[k].at + l.window >= now /\ tradeLog[k].at <= now})
      <= l.most + floor.callers - 1

\* A single caller with at most three symbols trades each of them once a day:
\* a third of the trades is over MAX_CONCENTRATION (_check_concentration).
ThreeSymbolsTradeOnce ==
  floor.callers = 1 /\ Cardinality(floor.symbols) <= 3 =>
    \A s \in floor.symbols : today[s] <= 1

\* What the resolver counts adds up: a decision that its own gates pause is
\* the difference.
DecisionsCounted ==
  /\ stats.approved + stats.rejected + stats.requires_approval <= stats.decisions_made
  /\ stats.decisions_made + stats.paused <= resolveCalls
  /\ Cardinality({k \in DOMAIN resolved : resolved[k] = "approved"}) <= stats.approved

\* A hard stop is left in stages ("staged transitions", the class's docstring):
\* refuted, one good evaluation takes it back to NORMAL.
LeavesInStages == [][phaseNow = "HARD_STOP" => phaseNow' # "NORMAL"]_governorVars
=============================================================================
