---------------------------- MODULE TradingSystem ----------------------------
(***************************************************************************)
(* The TradingSystem of app/main.py with live data (TESTNET and LIVE), and *)
(* what it calls in every tick and every second: ProtectionSystem and      *)
(* MetricsCollector (monitoring), RiskEngine.check_order, the warm-up of   *)
(* the learner, the result of the executor.                                *)
(*                                                                         *)
(* Three coroutines share one event loop: the websocket task handles one   *)
(* tick after the other, _run_live evaluates once per second, and somebody *)
(* calls stop().  Alerts never suspend (they only create tasks), so a tick *)
(* runs in one go from its first gate to the executor's first await.       *)
(*                                                                         *)
(* The learner counts the fills of each symbol, the warm-up those of all   *)
(* of them.  Of the book only whether a position is open is kept.  A       *)
(* drawdown d stands for the interval above the d-th threshold of 5, 8 and *)
(* 10 %, a daily result for what lies beyond 2 and 3 % of the capital,     *)
(* with its sign.  What depends on prices (signal, regime, edge, size,     *)
(* costs, leverage) is a free choice.                                      *)
(***************************************************************************)
EXTENDS Integers

CONSTANTS
  Symbols,
  Idle,         \* no symbol: the executor has no order
  Modes,        \* "TESTNET", and "LIVE", whose executor returns no fill events
  Drawdowns,    \* intervals the drawdown may reach, out of 0 .. 3
  Dailies,      \* intervals the daily result may reach, out of -2 .. 2
  Results,      \* what becomes of an order: "fill", "pending", "refuse"
  MinTicks,     \* ticks before the first evaluation (5)
  MaxFailures,  \* consecutive failures that restrict trading (5)
  WarmupMax,    \* learning.warmup_max_trades (10)
  Reliable,     \* fills that make the learner reliable about a symbol (30)
  MaxOrders     \* bound on the orders counted as submitted

ASSUME ConstantsAssumption ==
  /\ Idle \notin Symbols
  /\ Modes \subseteq {"TESTNET", "LIVE"}
  /\ 0 \in Drawdowns /\ Drawdowns \subseteq 0 .. 3
  /\ 0 \in Dailies /\ Dailies \subseteq -2 .. 2
  /\ Results \subseteq {"fill", "pending", "refuse"}
  /\ {MinTicks, MaxFailures, WarmupMax, Reliable, MaxOrders} \subseteq Nat

NONE == 0
REDUCE_SIZE == 1
RESTRICT_TRADING == 2
CLOSE_ALL_HALT == 3

VARIABLES
  mode,        \* the mode the system was started in
  running,     \* _running; the live loop ends when it is false
  connected,   \* the executor's
  killed,      \* the kill switch
  level,       \* _current_level of ProtectionSystem
  cooling,     \* whether the last escalation is at most 60 s ago
  ticks,       \* _ticks_received, up to MinTicks
  fresh,       \* whether the last tick is at most 10 s old
  drawdown, daily,               \* of the portfolio
  failures, submitted, filled,   \* of MetricsCollector
  learned,     \* of each symbol, trade_count of the learner, up to Reliable
  warming,     \* _warmup_enabled
  warmed,      \* _warmup_trades, of all symbols together
  order,       \* symbol of the order the executor works on, Idle without one
  open,        \* whether the portfolio holds a position
  late         \* history: fills booked while trading was restricted or halted

control == <<mode, running, connected, killed, level, cooling>>
data == <<ticks, fresh, drawdown, daily>>
metrics == <<failures, submitted, filled>>
learner == <<learned, warming, warmed>>
book == <<order, open, late>>
vars == <<control, data, metrics, learner, book>>

Init ==
  /\ mode \in Modes
  /\ running = TRUE /\ connected = TRUE /\ killed = FALSE
  /\ level = NONE /\ cooling = FALSE
  /\ ticks = 0 /\ fresh = FALSE /\ drawdown = 0 /\ daily = 0
  /\ failures = 0 /\ submitted = 0 /\ filled = 0
  /\ learned = [s \in Symbols |-> 0] /\ warming = TRUE /\ warmed = 0
  /\ order = Idle /\ open = FALSE
  /\ late = 0

Higher(a, b) == IF a > b THEN a ELSE b
UpTo(bound, n) == IF n > bound THEN bound ELSE n

-----------------------------------------------------------------------------
(* Metrics: rejections count as submitted orders. *)

RecordRejection ==
  /\ failures' = UpTo(MaxFailures, failures + 1)
  /\ submitted' = submitted + 1
  /\ UNCHANGED filled

LowFillRate == submitted > 0 /\ 2 * filled < submitted

(* ProtectionSystem.evaluate; its slippage condition compares a mean with
   twice itself and never holds. *)

\* Mutant: a drawdown masks the daily result.
RequiredLevelMasked ==
  CASE drawdown = 3 -> CLOSE_ALL_HALT
    [] drawdown = 2 -> RESTRICT_TRADING
    [] drawdown = 1 -> REDUCE_SIZE
    [] OTHER -> IF daily \in {-2, 2} THEN CLOSE_ALL_HALT ELSE NONE

RequiredLevel ==
  LET failing == IF failures >= MaxFailures \/ LowFillRate
                 THEN RESTRICT_TRADING ELSE NONE
      losing  == IF drawdown = 3 THEN CLOSE_ALL_HALT ELSE Higher(failing, drawdown)
      today   == IF daily \in {-2, 2} THEN CLOSE_ALL_HALT
                 ELSE IF daily \in {-1, 1} THEN Higher(losing, RESTRICT_TRADING)
                 ELSE losing
  IN  IF fresh THEN today ELSE Higher(today, REDUCE_SIZE)

\* The level never falls: nobody calls deescalate() or reset().
Escalated == IF RequiredLevel > level /\ ~ cooling THEN RequiredLevel ELSE level

\* One round of _run_live.
Evaluate ==
  /\ running /\ ticks >= MinTicks
  /\ level' = Escalated
  /\ cooling' = (cooling \/ level' # level)
  /\ killed' = (killed \/ level' = CLOSE_ALL_HALT)
  /\ running' = (level' # CLOSE_ALL_HALT)
  /\ UNCHANGED <<mode, connected, data, metrics, learner, book>>

\* The cooldown of 60 s is over.
CoolDown ==
  /\ cooling /\ cooling' = FALSE
  /\ UNCHANGED <<mode, running, connected, killed, level, data, metrics, learner, book>>

\* No tick for 10 s.
GoStale ==
  /\ fresh /\ fresh' = FALSE
  /\ UNCHANGED <<control, ticks, drawdown, daily, metrics, learner, book>>

-----------------------------------------------------------------------------
(* _process_tick.  Nothing stops the websocket, so ticks go on when the
   system was halted or stopped. *)

Tick ==
  /\ order = Idle
  /\ ticks' = UpTo(MinTicks, ticks + 1)

\* The kill switch comes first.
Skip ==
  /\ Tick /\ killed
  /\ UNCHANGED <<control, fresh, drawdown, daily, metrics, learner, book>>

\* The exchange's time stamp is too old.
SkipStale ==
  /\ Tick /\ ~ killed
  /\ fresh' = FALSE
  /\ UNCHANGED <<control, drawdown, daily, metrics, learner, book>>

\* A tick on current data marks an open position to the market.
Mark ==
  /\ Tick /\ ~ killed
  /\ fresh' = TRUE
  /\ drawdown' \in IF open THEN Drawdowns ELSE {drawdown}
  /\ UNCHANGED <<control, daily>>

\* No signal, edge, size or net edge; or trading is restricted.
NoOrder == Mark /\ UNCHANGED <<metrics, learner, book>>

IsReliable(s) == learned[s] = Reliable

\* The gates in front of check_order that the model can tell apart.  While the
\* learner is not reliable about the symbol, the signal's own edge counts as
\* long as the warm-up lasts, and the learner's, 0 without a fill, afterwards.
MayTrade(s) ==
  /\ level < RESTRICT_TRADING
  /\ ~ IsReliable(s) => warmed < WarmupMax /\ (warming \/ learned[s] > 0)

\* check_order: a drawdown above 10 % or the leverage; the daily loss alone is
\* no reason, since the engine's own level stays NONE.
RejectByRisk(s) ==
  /\ Mark /\ MayTrade(s) /\ submitted < MaxOrders
  /\ RecordRejection
  /\ UNCHANGED <<learner, book>>

\* Mutant: the protection level is not looked at.
SendUnrestricted(s) ==
  /\ Mark /\ drawdown' # 3 /\ submitted < MaxOrders /\ connected
  /\ ~ IsReliable(s) => warmed < WarmupMax /\ (warming \/ learned[s] > 0)
  /\ order' = s
  /\ UNCHANGED <<metrics, learner, open, late>>

SendOrder(s) ==
  /\ Mark /\ MayTrade(s) /\ drawdown' # 3 /\ submitted < MaxOrders /\ connected
  /\ order' = s
  /\ UNCHANGED <<metrics, learner, open, late>>

\* "Engine not connected".
RejectByExecutor(s) ==
  /\ Mark /\ MayTrade(s) /\ drawdown' # 3 /\ submitted < MaxOrders /\ ~ connected
  /\ RecordRejection
  /\ UNCHANGED <<learner, book>>

-----------------------------------------------------------------------------
(* submit_order returns. *)

\* The portfolio takes the fill in: it opens a position, or adds to, reduces,
\* turns or closes one.
Book ==
  /\ open' \in IF open THEN BOOLEAN ELSE {TRUE}
  /\ late' = late + (IF level >= RESTRICT_TRADING THEN 1 ELSE 0)
  /\ daily' \in Dailies /\ drawdown' \in Drawdowns

\* Mutant: a cooldown keeps the learner from learning while orders keep coming.
LearnOnce(s) ==
  /\ submitted' = submitted + 1 /\ filled' = filled + 1
  /\ learned' = [learned EXCEPT ![s] = Higher(@, 1)]
  /\ LET warmsUp == warming /\ ~ IsReliable(s) IN
     /\ warmed' = warmed + (IF warmsUp THEN 1 ELSE 0)
     /\ warming' = (warming /\ ~ (warmsUp /\ learned'[s] = Reliable))

\* record_fill, and a warm-up trade while the learner is unreliable about the
\* symbol; the first symbol it becomes reliable about ends the warm-up of all.
Learn(s) ==
  /\ submitted' = submitted + 1 /\ filled' = filled + 1
  /\ learned' = [learned EXCEPT ![s] = UpTo(Reliable, @ + 1)]
  /\ LET warmsUp == warming /\ ~ IsReliable(s) IN
     /\ warmed' = warmed + (IF warmsUp THEN 1 ELSE 0)
     /\ warming' = (warming /\ ~ (warmsUp /\ learned'[s] = Reliable))

Filled ==
  /\ "fill" \in Results /\ order # Idle
  /\ order' = Idle /\ failures' = 0
  /\ IF mode = "TESTNET"
     THEN Book /\ Learn(order)
     ELSE UNCHANGED <<open, late, daily, drawdown, submitted, filled, learner>>
  /\ UNCHANGED <<control, ticks, fresh>>

\* The limit order was not filled while the executor polled.
Pending ==
  /\ "pending" \in Results /\ order # Idle
  /\ order' = Idle /\ failures' = 0
  /\ UNCHANGED <<control, data, submitted, filled, learner, open, late>>

Refused ==
  /\ "refuse" \in Results /\ order # Idle
  /\ order' = Idle
  /\ RecordRejection
  /\ UNCHANGED <<control, data, learner, open, late>>

-----------------------------------------------------------------------------
(* stop(): it suspends in the checkpoint, and then disconnects. *)

Stop ==
  /\ running /\ running' = FALSE
  /\ UNCHANGED <<mode, connected, killed, level, cooling, data, metrics, learner, book>>

Disconnect ==
  /\ ~ running /\ ~ killed /\ connected
  /\ connected' = FALSE
  /\ UNCHANGED <<mode, running, killed, level, cooling, data, metrics, learner, book>>

ProcessTick ==
  \/ Skip \/ SkipStale \/ NoOrder
  \/ \E s \in Symbols : RejectByRisk(s) \/ SendOrder(s) \/ RejectByExecutor(s)
Result == Filled \/ Pending \/ Refused

Next ==
  \/ ProcessTick
  \/ Result
  \/ Evaluate
  \/ CoolDown
  \/ GoStale
  \/ Stop \/ Disconnect

Spec == Init /\ [][Next]_vars

\* Ticks keep coming, the executor answers, the loop runs every second.
FairSpec ==
  Spec /\ WF_vars(ProcessTick) /\ WF_vars(Result) /\ WF_vars(Evaluate)
       /\ WF_vars(CoolDown)

\* Besides, tradable ticks keep coming and orders keep being filled.
BusySpec == FairSpec /\ SF_vars(\E s \in Symbols : SendOrder(s)) /\ SF_vars(Filled)

-----------------------------------------------------------------------------
TypeOK ==
  /\ mode \in Modes
  /\ {running, connected, killed, cooling, fresh, warming, open} \subseteq BOOLEAN
  /\ level \in NONE .. CLOSE_ALL_HALT
  /\ ticks \in 0 .. MinTicks
  /\ drawdown \in Drawdowns /\ daily \in Dailies
  /\ failures \in 0 .. MaxFailures
  /\ submitted \in 0 .. MaxOrders /\ filled \in 0 .. submitted
  /\ learned \in [Symbols -> 0 .. Reliable] /\ warmed \in 0 .. WarmupMax
  /\ order \in Symbols \cup {Idle}
  /\ late \in Nat

\* RESTRICT_TRADING and the kill switch (CLOSE_ALL_HALT): once the level says
\* so, at most the one order that the executor was working on still changes the
\* portfolio, whatever evaluations, ticks and stop() do while it is awaited.
OneLateFill == late <= 1

\* A breach that lasts halts the system in the end, unless somebody stops it:
\* no cooldown and no other trigger keeps masking it.
BreachHalts ==
  (drawdown = 3 \/ daily \in {-2, 2}) ~>
    (killed \/ ~ running \/ (drawdown # 3 /\ daily \notin {-2, 2}))

\* "Warmup limit reached, waiting for learner": while nothing restricts or
\* stops the system, the learner becomes reliable about a symbol in the end.
WarmupEnds ==
  mode = "TESTNET" =>
    <>((\E s \in Symbols : IsReliable(s)) \/ level >= RESTRICT_TRADING \/ ~ running)
=============================================================================
