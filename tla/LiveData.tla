------------------------------ MODULE LiveData ------------------------------
(***************************************************************************)
(* data/: the sockets to the exchanges (websocket.py), the monitor that    *)
(* grades what they bring (quality.py) and the vote between their prices   *)
(* (consensus.py).                                                         *)
(*                                                                         *)
(* One task per exchange runs connect() and _attempt_reconnect(), which    *)
(* call each other.  The exchange closes or breaks a socket at any time.   *)
(* Prices are in basis points around a reference; the monitor's clock      *)
(* counts the thresholds that it has passed since the last price.          *)
(***************************************************************************)
EXTENDS Naturals, Sequences, FiniteSets, FiniteSetsExt, Functions

CONSTANTS
  Sockets,       \* enabled exchanges
  MaxReconnects, \* max_reconnect_attempts
  Breaks,        \* bound: how often sockets close or break
  Sources,       \* DataSources
  Quotes,        \* prices of a reading, in basis points
  SourceWeights, \* weight * health * latency of a source: positive
  OutlierBps,    \* outlier_threshold_bps
  WindowSize, MinPoints, \* length of price_history; fewer points are not judged
  GapLimit       \* gaps kept

ASSUME LiveAssumption ==
  /\ MaxReconnects \in Nat /\ WindowSize \in Nat /\ GapLimit \in Nat
  /\ IsFiniteSet(Sources) /\ Quotes \subseteq Nat /\ SourceWeights \subseteq Nat \ {0}
  /\ OutlierBps \in Nat

VARIABLES
  feedRunning,   \* running
  sock,          \* where the task of an exchange is
  connected,     \* states[e].connected
  reconnects,    \* states[e].reconnect_count
  breaks,        \* closes and errors so far
  agreed,        \* the last ConsensusResult
  dataAge,       \* thresholds passed since last_update: gap, max_age,
                 \* twice max_age, timeliness below 0.7
  points,        \* Len(price_history)
  jumps,         \* recent anomalies
  gaps           \* Len(gaps)

socketVars == <<feedRunning, sock, connected, reconnects, breaks>>
monitorVars == <<dataAge, points, jumps, gaps>>
liveVars == <<socketVars, agreed, monitorVars>>

NoVote == [quotes |-> <<>>, sum |-> 0, total |-> 0, used |-> {}, dropped |-> {}, valid |-> FALSE]

LiveInit ==
  /\ feedRunning = FALSE /\ sock = [e \in Sockets |-> "none"]
  /\ connected = [e \in Sockets |-> FALSE] /\ reconnects = [e \in Sockets |-> 0]
  /\ breaks = 0 /\ agreed = NoVote
  /\ dataAge = 0 /\ points = 0 /\ jumps = 0 /\ gaps = 0

-----------------------------------------------------------------------------
StartFeeds ==
  /\ ~feedRunning
  /\ feedRunning' = TRUE /\ sock' = [e \in Sockets |-> "opening"]
  /\ UNCHANGED <<connected, reconnects, breaks, agreed, monitorVars>>

\* connect(), up to the loop over the messages.
Open(e) ==
  /\ sock[e] = "opening"
  /\ sock' = [sock EXCEPT ![e] = "open"]
  /\ connected' = [connected EXCEPT ![e] = TRUE]
  /\ reconnects' = [reconnects EXCEPT ![e] = 0]
  /\ UNCHANGED <<feedRunning, breaks, agreed, monitorVars>>

\* The exchange closes the socket: the loop ends, and so does the task.
CloseCleanly(e) ==
  /\ sock[e] = "open" /\ breaks < Breaks /\ breaks' = breaks + 1
  /\ sock' = [sock EXCEPT ![e] = "closed"]
  /\ UNCHANGED <<feedRunning, connected, reconnects, agreed, monitorVars>>

\* An error: connect() calls _attempt_reconnect(), which waits or gives up.
Fail(e) ==
  /\ sock[e] \in {"opening", "open"} /\ breaks < Breaks /\ breaks' = breaks + 1
  /\ connected' = [connected EXCEPT ![e] = FALSE]
  /\ IF reconnects[e] >= MaxReconnects
     THEN sock' = [sock EXCEPT ![e] = "given_up"] /\ UNCHANGED reconnects
     ELSE /\ sock' = [sock EXCEPT ![e] = "waiting"]
          /\ reconnects' = [reconnects EXCEPT ![e] = @ + 1]
  /\ UNCHANGED <<feedRunning, agreed, monitorVars>>

Reconnect(e) ==
  /\ sock[e] = "waiting" /\ sock' = [sock EXCEPT ![e] = "opening"]
  /\ UNCHANGED <<feedRunning, connected, reconnects, breaks, agreed, monitorVars>>

\* stop() cancels the tasks.
StopFeeds ==
  /\ feedRunning /\ feedRunning' = FALSE
  /\ sock' = [e \in Sockets |-> "cancelled"]
  /\ connected' = [e \in Sockets |-> FALSE]
  /\ UNCHANGED <<reconnects, breaks, agreed, monitorVars>>

-----------------------------------------------------------------------------
Apart(p, q) == IF p < q THEN q - p ELSE p - q

\* np.median, doubled.
MedianTwice(quotes) ==
  LET below(s) == Cardinality({t \in DOMAIN quotes : quotes[t] < quotes[s]})
      upTo(s) == Cardinality({t \in DOMAIN quotes : quotes[t] <= quotes[s]})
      n == Cardinality(DOMAIN quotes)
      at(k) == quotes[CHOOSE s \in DOMAIN quotes : below(s) < k /\ k <= upTo(s)]
  IN at((n + 1) \div 2) + at((n \div 2) + 1)

WeightOf(weights, S) == SumFunctionOnSet(weights, S)

\* Mutant: the penalty for divided weights is dropped.
ConfidentUndivided(n, outliers, top, total) ==
  (IF n < 3 THEN n ELSE 3) * 400 + 900 >= 2100 + 450 * outliers

\* _compute_confidence and its comparison with 0.7, multiplied by 3000 * total.
Confident(n, outliers, top, total) ==
  (IF n < 3 THEN n ELSE 3) * 400 * total + 900 * total
    >= 2100 * total + 450 * outliers * total + 600 * (total - top)

\* compute_consensus over the readings that validate() let through.
Consensus(quotes, weights) ==
  LET all == DOMAIN quotes
      near == {s \in all : 2 * OutlierBps >= Apart(2 * quotes[s], MedianTwice(quotes))}
      used == IF near = {} THEN all ELSE near
      w == IF near = {} THEN [s \in all |-> 1] ELSE weights
      total == WeightOf(w, used)
  IN [quotes |-> quotes, total |-> total,
      sum |-> SumFunctionOnSet([s \in used |-> w[s] * quotes[s]], used),
      used |-> used, dropped |-> all \ used,
      valid |-> Confident(Cardinality(used), Cardinality(all \ used),
                          Max({w[s] : s \in used}), total)]

\* One round: some sources are silent or fail validate().  A round with a source that
\* set_source_weights has not named raises, for want of a health_score, and gives no vote.
Vote ==
  /\ \E S \in SUBSET Sources :
       \/ S = {} /\ agreed' = NoVote
       \/ /\ S # {}
          /\ \E quotes \in [S -> Quotes], weights \in [S -> SourceWeights] :
               agreed' = Consensus(quotes, weights)
  /\ UNCHANGED <<socketVars, monitorVars>>

-----------------------------------------------------------------------------
\* record_price
RecordPrice(jumped) ==
  /\ gaps' = IF points > 0 /\ dataAge >= 1 /\ gaps < GapLimit THEN gaps + 1 ELSE gaps
  /\ points' = IF points < WindowSize THEN points + 1 ELSE points
  /\ jumped => points > 0 /\ jumps < WindowSize
  /\ jumps' = IF jumped THEN jumps + 1 ELSE jumps
  /\ dataAge' = 0
  /\ UNCHANGED <<socketVars, agreed>>

Age ==
  /\ points > 0 /\ dataAge < 4 /\ dataAge' = dataAge + 1
  /\ UNCHANGED <<socketVars, agreed, points, jumps, gaps>>

\* Anomalies count for 300 seconds.
ForgetJumps ==
  /\ dataAge = 4 /\ jumps > 0 /\ jumps' = 0
  /\ UNCHANGED <<socketVars, agreed, dataAge, points, gaps>>

ResetMonitor ==
  /\ points > 0 /\ points' = 0 /\ jumps' = 0 /\ gaps' = 0 /\ dataAge' = 0
  /\ UNCHANGED <<socketVars, agreed>>

\* compute_metrics and is_healthy, score in hundredths.  completeness counts the
\* points younger than the last one: none.  The prices themselves are steady.
MonitorHealthy ==
  LET complete == IF dataAge = 2 THEN 15 ELSE 0
      timely == IF dataAge <= 1 THEN 30 ELSE IF dataAge = 2 THEN 27 ELSE IF dataAge = 3 THEN 21 ELSE 0
      lossy == points >= MinPoints /\ jumps * 100 > points
      accurate == IF lossy THEN 0 ELSE 20
  IN points > 0 /\ complete + timely + accurate + 20 >= 70 /\ dataAge < 4 /\ ~lossy

SocketNext ==
  \/ StartFeeds \/ StopFeeds
  \/ \E e \in Sockets : Open(e) \/ CloseCleanly(e) \/ Fail(e) \/ Reconnect(e)

MonitorNext ==
  \/ Age \/ ForgetJumps \/ ResetMonitor
  \/ \E jumped \in BOOLEAN : RecordPrice(jumped)

-----------------------------------------------------------------------------
LiveTypeOK ==
  /\ {feedRunning} \cup {connected[e] : e \in Sockets} \subseteq BOOLEAN
  /\ sock \in [Sockets -> {"none", "opening", "open", "waiting", "closed", "given_up", "cancelled"}]
  /\ \A e \in Sockets : reconnects[e] \in 0..MaxReconnects
  /\ points \in 0..WindowSize /\ gaps \in 0..GapLimit /\ dataAge \in 0..4

\* Once stopped, no task of a socket is left and no exchange counts as connected.
SilentWhenStopped ==
  ~feedRunning => \A e \in Sockets : ~connected[e] /\ sock[e] \in {"none", "cancelled"}

\* An exchange is given up only after every attempt failed in a row.
GivenUpLast == \A e \in Sockets : sock[e] = "given_up" => reconnects[e] = MaxReconnects

\* A price voted for lies between the prices it was made of; whatever is left
\* out lies further from it than the spread of those.
PriceIsBetween ==
  agreed.used # {} =>
    LET used == {agreed.quotes[s] : s \in agreed.used} IN
    /\ agreed.total * Min(used) <= agreed.sum /\ agreed.sum <= agreed.total * Max(used)
    /\ agreed.dropped # {} => Max(used) - Min(used) <= 2 * OutlierBps

\* The confidence of a vote never reaches the threshold 0.7: several sources
\* divide the weight, and one source alone is worth 0.433 (_compute_confidence).
NoVoteIsValid == ~agreed.valid

\* A monitor that heard nothing for twice max_age is not healthy.
QuietIsUnhealthy == dataAge >= 3 => ~MonitorHealthy

\* "Automatic reconnection with exponential backoff" (the class's docstring):
\* refuted, a socket that the exchange closes is left closed.
ReconnectsByItself ==
  \A e \in Sockets : sock[e] = "closed" ~> (sock[e] # "closed" \/ ~feedRunning)
=============================================================================
