----------------------------- MODULE Watchdogs -----------------------------
(***************************************************************************)
(* Those who watch the trading: AlertManager and AlertThrottler, the       *)
(* circuit breakers of SelfHealingSystem, StrategySurvivalEngine, and      *)
(* CapitalEfficiencyEngine.  They do not meet: each has an Init and a Next *)
(* of its own.  Fractions are in percent.                                  *)
(***************************************************************************)
EXTENDS Integers, Sequences, FiniteSets, SequencesExt

CONSTANTS
  AlertLimit,      \* rate_limit_per_minute
  AlertSlots,      \* length of _alerts_per_minute
  AlertKeys, Cooldown,  \* of AlertThrottler
  Minute,          \* in steps of the clock
  Monitored,         \* components with a health check
  FailureThreshold, RecoveryTimeout,
  SurvivalWindow,  \* SURVIVAL_WINDOW_TRADES
  MinSurvival,     \* trades below which there is no Sharpe ratio
  Drawdowns,       \* drawdown_pct, in percent
  Paces,           \* what the frequency of trades counts for, in tenths
  Strategies, Scores,   \* edge_truth_score over the drawdown risk
  PortfolioValues,
  MaxWatchTime, MaxAlerts, MaxChecks, MaxAssessed, MaxAllocated  \* bounds

ASSUME WatchAssumption ==
  /\ {MaxWatchTime, MaxAlerts, AlertLimit, AlertSlots, Minute, Cooldown} \subseteq Nat
  /\ FailureThreshold \in Nat \ {0} /\ RecoveryTimeout \in Nat
  /\ SurvivalWindow \in Nat /\ Paces \subseteq 0 .. 10
  /\ IsFiniteSet(Strategies) /\ Scores \subseteq Nat \ {0} /\ PortfolioValues \subseteq Nat \ {0}

VARIABLES
  watchTime,
  attempts,        \* _alerts_per_minute
  dispatched,      \* history: when alerts were sent
  asked,           \* number of calls of send_alert
  lastAlert,       \* _last_alert of the throttler, -Cooldown for none
  throttled        \* history: [key, at] of what the throttler let pass

alertVars == <<attempts, dispatched, asked, lastAlert, throttled>>

VARIABLES
  breakers,        \* state, failures and time of the last failure
  checks,          \* number of checks run
  failedRuns       \* history per component: times of the failures in a row

healVars == <<breakers, checks, failedRuns>>

VARIABLES
  pnls,            \* _trade_pnls
  assessed,        \* number of assessments
  survival         \* the last assessment

survivalVars == <<pnls, assessed, survival>>

VARIABLES
  current,         \* 'current' of _allocations, per strategy, or "none"
  allocated,       \* number of allocations
  validity         \* the last answer of check_allocation_valid

capitalVars == <<current, allocated, validity>>
watchVars == <<watchTime, alertVars, healVars, survivalVars, capitalVars>>

WatchInit ==
  /\ watchTime = 0
  /\ attempts = <<>> /\ dispatched = <<>> /\ asked = 0
  /\ lastAlert = [k \in AlertKeys |-> 0 - Cooldown] /\ throttled = <<>>
  /\ breakers = [c \in Monitored |-> [state |-> "closed", failures |-> 0, last |-> 0]]
  /\ checks = 0 /\ failedRuns = [c \in Monitored |-> <<>>]
  /\ pnls = <<>> /\ assessed = 0
  /\ survival = [status |-> "HEALTHY", score |-> 100, wins |-> 0, of |-> 0]
  /\ current = [s \in Strategies |-> 0] /\ allocated = 0 /\ validity = "unknown"

WatchTick ==
  /\ watchTime < MaxWatchTime /\ watchTime' = watchTime + 1
  /\ UNCHANGED <<alertVars, healVars, survivalVars, capitalVars>>

-----------------------------------------------------------------------------
RecentIn(q, length) == Cardinality({i \in DOMAIN q : watchTime - q[i] < length})

\* send_alert counts itself, and what it then does not send.
SendAlert ==
  LET all == Append(attempts, watchTime)
      kept == IF Len(all) > AlertSlots THEN Tail(all) ELSE all IN
  /\ asked < MaxAlerts /\ asked' = asked + 1
  /\ attempts' = kept
  /\ dispatched' = IF RecentIn(kept, Minute) >= AlertLimit THEN dispatched
                   ELSE Append(dispatched, watchTime)
  /\ UNCHANGED <<watchTime, lastAlert, throttled, healVars, survivalVars, capitalVars>>

\* AlertThrottler.should_send
ShouldSend(k) ==
  /\ watchTime - lastAlert[k] >= Cooldown
  /\ lastAlert' = [lastAlert EXCEPT ![k] = watchTime]
  /\ throttled' = Append(throttled, [key |-> k, at |-> watchTime])
  /\ UNCHANGED <<watchTime, attempts, dispatched, asked, healVars, survivalVars, capitalVars>>

AlertNext ==
  \/ WatchTick
  \/ SendAlert
  \/ \E k \in AlertKeys : ShouldSend(k)

-----------------------------------------------------------------------------
\* CircuitBreaker.state: an open one is half open when its time is over.
StateOf(b) ==
  IF b.state = "open" /\ watchTime - b.last > RecoveryTimeout THEN "half_open" ELSE b.state

\* record_success; one success closes a half-open breaker.
Succeeded(b) ==
  [b EXCEPT !.state = IF StateOf(b) = "half_open" THEN "closed" ELSE b.state, !.failures = 0]

\* record_failure does not ask for the state: the failure of a half-open breaker is
\* one more, and opens it.
Failed(b) ==
  [state |-> IF b.failures + 1 >= FailureThreshold THEN "open" ELSE StateOf(b),
   failures |-> b.failures + 1, last |-> watchTime]

\* run_health_checks, for one component: a check that raises is not counted.  What
\* the recovery action does changes nothing here.
RunCheck(c) ==
  /\ checks < MaxChecks /\ checks' = checks + 1
  /\ StateOf(breakers[c]) # "open"
  /\ \/ /\ breakers' = [breakers EXCEPT ![c] = Succeeded(breakers[c])]
        /\ failedRuns' = [failedRuns EXCEPT ![c] = <<>>]
     \/ /\ breakers' = [breakers EXCEPT ![c] = Failed(breakers[c])]
        /\ failedRuns' = [failedRuns EXCEPT ![c] = Append(failedRuns[c], watchTime)]
     \/ UNCHANGED <<breakers, failedRuns>>
  /\ UNCHANGED <<watchTime, alertVars, survivalVars, capitalVars>>

HealNext == WatchTick \/ \E c \in Monitored : RunCheck(c)

-----------------------------------------------------------------------------
WinCount(q) == Cardinality({i \in DOMAIN q : q[i] > 0})
LossCount(q) == Cardinality({i \in DOMAIN q : q[i] < 0})
TotalPnl(q) == FoldLeft(LAMBDA sum, e : sum + e, 0, q)
Deviation(q) == Len(q) * FoldLeft(LAMBDA sum, e : sum + e * e, 0, q) - TotalPnl(q) * TotalPnl(q)

WinFactor(q) ==
  IF 100 * WinCount(q) >= 60 * Len(q) THEN 10 ELSE IF 100 * WinCount(q) >= 40 * Len(q) THEN 7
  ELSE IF 100 * WinCount(q) >= 30 * Len(q) THEN 4 ELSE 1

\* sharpe >= n / 4: mean / deviation * sqrt(252).
SharpeAtLeast(q, n) ==
  TotalPnl(q) > 0 /\ 16 * 252 * TotalPnl(q) * TotalPnl(q) >= n * n * Deviation(q)

SharpeFactor(q) ==
  IF Len(q) < MinSurvival THEN 10
  ELSE IF Deviation(q) = 0 THEN 2
  ELSE IF SharpeAtLeast(q, 4) THEN 10 ELSE IF SharpeAtLeast(q, 2) THEN 7
  ELSE IF SharpeAtLeast(q, 1) THEN 4 ELSE 2

DrawdownFactor(d) == IF d < 5 THEN 10 ELSE IF d < 10 THEN 7 ELSE IF d < 15 THEN 4 ELSE 1

\* positive / negative, or the number of wins when nothing is negative.
Consistency(q) ==
  LET of == IF LossCount(q) = 0 THEN 1 ELSE LossCount(q)
  IN  IF Len(q) < MinSurvival THEN 5
      ELSE IF 2 * WinCount(q) >= 3 * of THEN 10 ELSE IF WinCount(q) >= of THEN 7
      ELSE IF 2 * WinCount(q) >= of THEN 4 ELSE 2

\* The product of the five factors, in percent; each is in tenths.
Score(q, drawdown, pace) ==
  (WinFactor(q) * SharpeFactor(q) * pace * DrawdownFactor(drawdown) * Consistency(q)) \div 1000

StatusFor(q, score) ==
  IF score < 30 THEN "CRITICAL"
  ELSE IF WinFactor(q) < 3 \/ SharpeFactor(q) < 3 THEN "WARNING" ELSE "HEALTHY"

\* assess_survival appends all trades it is given, also those it has had before.
Assess ==
  \E recent \in BoundedSeq({-2, 0, 3}, 2), drawdown \in Drawdowns, pace \in Paces :
    LET all == pnls \o recent
        q == SubSeq(all, Max({1, Len(all) - SurvivalWindow + 1}), Len(all)) IN
    /\ recent # <<>> /\ assessed < MaxAssessed /\ assessed' = assessed + 1
    /\ pnls' = q
    /\ survival' = [status |-> StatusFor(q, Score(q, drawdown, pace)), score |-> Score(q, drawdown, pace),
                    wins |-> WinCount(q), of |-> Len(q)]
    /\ UNCHANGED <<watchTime, alertVars, healVars, capitalVars>>

SurvivalNext == Assess

-----------------------------------------------------------------------------
\* calculate_optimal_allocation: one and a half of the share, at most 30 percent,
\* and all together at most 100; 'current' is what a strategy was given first.
Allocate ==
  \E chosen \in (SUBSET Strategies) \ {{}} : \E score \in [chosen -> Scores] :
    LET sum == FoldSet(LAMBDA s, rest : score[s] + rest, 0, chosen)
        share == [s \in chosen |-> Min({30, (150 * score[s]) \div sum})]
        whole == FoldSet(LAMBDA s, rest : share[s] + rest, 0, chosen)
        given == [s \in chosen |-> IF whole > 100 THEN (100 * share[s]) \div whole ELSE share[s]] IN
    /\ allocated < MaxAllocated /\ allocated' = allocated + 1
    /\ current' = [s \in Strategies |-> IF s \in chosen /\ current[s] = 0 THEN given[s] ELSE current[s]]
    /\ UNCHANGED <<watchTime, validity, alertVars, healVars, survivalVars>>

\* _calculate_utilization: a sum of fractions, over the value of the portfolio.
Utilized(value) == FoldSet(LAMBDA s, rest : current[s] + rest, 0, Strategies) \div value

\* check_allocation_valid
CheckAllocation ==
  \E value \in PortfolioValues, position \in {0, 1} :
    /\ validity' = IF 100 * position > 30 * value THEN "concentrated"
                   ELSE IF Utilized(value) < 30 THEN "idle" ELSE "valid"
    /\ UNCHANGED <<watchTime, current, allocated, alertVars, healVars, survivalVars>>

CapitalNext == Allocate \/ CheckAllocation

-----------------------------------------------------------------------------
WatchTypeOK ==
  /\ watchTime \in 0 .. MaxWatchTime /\ asked \in 0 .. MaxAlerts
  /\ attempts \in BoundedSeq(0 .. MaxWatchTime, AlertSlots)
  /\ \A c \in Monitored : breakers[c].state \in {"closed", "open", "half_open"}
  /\ pnls \in BoundedSeq({-2, 0, 3}, SurvivalWindow) /\ survival.score \in 0 .. 100
  /\ current \in [Strategies -> 0 .. 30] /\ validity \in {"unknown", "concentrated", "idle", "valid"}

\* In no minute are as many alerts sent as the limit says, and a key passes the
\* throttler once in a cooldown.
AlertsAreFew ==
  /\ \A i \in DOMAIN dispatched :
       Cardinality({j \in DOMAIN dispatched : j <= i /\ dispatched[i] - dispatched[j] < Minute})
         < AlertLimit
  /\ \A i, j \in DOMAIN throttled : i < j /\ throttled[i].key = throttled[j].key =>
       throttled[j].at - throttled[i].at >= Cooldown

\* A check that keeps failing is run as often as the threshold, and from then on
\* once in a recovery timeout: a half-open breaker has one try.
FailingIsLeftAlone ==
  \A c \in Monitored : \A i \in DOMAIN failedRuns[c] :
    i > FailureThreshold => failedRuns[c][i] - failedRuns[c][i - 1] > RecoveryTimeout

\* There is no warning: a strategy that would be warned has a score that is critical
\* already; and one that never wins is stopped.
NeverOnlyWarned ==
  survival.status # "WARNING" /\ (survival.of > 0 /\ survival.wins = 0 => survival.status = "CRITICAL")

\* No allocation is valid: fractions over an amount of money are never enough.
NothingIsUtilized == validity # "valid"

(* What the code says of itself; TLC refutes it. *)

\* "Send alert if within rate limit.": an alert that follows a minute without any
\* alert sent is sent.
QuietMinuteIsHeard ==
  [][asked' > asked /\ watchTime >= Minute
     /\ (\A i \in DOMAIN dispatched : watchTime - dispatched[i] >= Minute)
       => dispatched' # dispatched]_watchVars
=============================================================================
