------------------------- MODULE RequestScheduling -------------------------
(***************************************************************************)
(* engines/time_sync.py: the token bucket and the controller that slows it *)
(* down when the exchange complains, the queue of requests before them,    *)
(* and the estimate of the exchange's clock.                               *)
(***************************************************************************)
EXTENDS Integers, Sequences, FiniteSets, SequencesExt

CONSTANTS
  Rate,            \* requests_per_second
  Burst,           \* burst_limit
  MaxSeconds, MaxResponses, MaxRequests,  \* bounds
  Readings,        \* exchange time minus local time, latency included
  SyncSamples,     \* samples_for_sync
  MaxDrift,        \* max_drift_ms
  MaxReadings      \* bound

ASSUME SchedulingAssumption ==
  /\ Rate \in Nat \ {0} /\ Burst \in Nat /\ MaxRequests \in Nat
  /\ Readings \subseteq Int /\ SyncSamples \in Nat \ {0}

VARIABLES
  tokens, currentRate,  \* RateLimiter
  lastRate, errorsSeen, limitsSeen,  \* AdaptiveRateController
  responses,       \* number of responses so far
  granted, earned, \* history: tokens given away, and filled in
  second, idle,    \* seconds so far, and since the last refill
  requestQueue,    \* RequestQueue
  requestsQueued   \* its statistic

rateVars == <<tokens, currentRate, lastRate, errorsSeen, limitsSeen, responses, granted, earned, second, idle>>
queueVars == <<requestQueue, requestsQueued>>

VARIABLES
  samples,         \* _sync_samples, as offsets
  read,            \* number of calls of sync
  offset,          \* offset_ms
  syncCount, driftDetected,
  clockHealthy     \* is_healthy, the age of the last sync left out

syncVars == <<samples, read, offset, syncCount, driftDetected, clockHealthy>>
schedulingVars == <<rateVars, queueVars, syncVars>>

RateInit ==
  /\ tokens = Burst /\ currentRate = Rate
  /\ lastRate = Rate /\ errorsSeen = 0 /\ limitsSeen = 0 /\ responses = 0
  /\ granted = 0 /\ earned = 0 /\ second = 0 /\ idle = 0
  /\ requestQueue = <<>> /\ requestsQueued = 0

SyncInit ==
  /\ samples = <<>> /\ read = 0 /\ offset = 0 /\ syncCount = 0
  /\ driftDetected = FALSE /\ clockHealthy = TRUE

-----------------------------------------------------------------------------
SecondPasses ==
  /\ second < MaxSeconds /\ second' = second + 1 /\ idle' = idle + 1
  /\ UNCHANGED <<tokens, currentRate, lastRate, errorsSeen, limitsSeen, responses, granted, earned,
                 queueVars, syncVars>>

\* acquire refills at the rate there is now, for all of the time since it was last
\* called, and looks at the bucket, not at the requests of the minute or the hour.
Acquire ==
  \E n \in 1 .. Burst :
    LET filled == Min({tokens + idle * currentRate, Burst}) IN
    /\ tokens' = IF filled >= n THEN filled - n ELSE filled
    /\ granted' = IF filled >= n THEN granted + n ELSE granted
    /\ earned' = earned + filled - tokens
    /\ idle' = 0
    /\ UNCHANGED <<currentRate, lastRate, errorsSeen, limitsSeen, responses, second, queueVars, syncVars>>

\* The controller and the limiter halve their rates one beside the other.
BackOff ==
  /\ lastRate' = Max({1, lastRate \div 2})
  /\ currentRate' = Max({1, currentRate \div 2})

\* Mutant: a recovery is not told the limiter.
RecoverAlone ==
  /\ lastRate' = Min({Rate, (6 * lastRate) \div 5})
  /\ UNCHANGED currentRate

\* _attempt_recovery: a fifth more, rounded down.
RecoverRate ==
  /\ lastRate' = Min({Rate, (6 * lastRate) \div 5})
  /\ currentRate' = lastRate'

\* on_response.  The counts only matter up to the thresholds 2 and 3.
OnResponse(status) ==
  LET errors == IF status = "ok" THEN 0 ELSE Min({3, errorsSeen + 1})
      limits == CASE status = "limited" -> Min({2, limitsSeen + 1})
                  [] status = "failed" -> limitsSeen
                  [] OTHER -> 0 IN
  /\ responses < MaxResponses /\ responses' = responses + 1
  /\ errorsSeen' = errors /\ limitsSeen' = limits
  /\ CASE status = "limited" /\ limits >= 2 -> BackOff
       [] status = "failed" /\ errors >= 3 -> BackOff
       [] status = "ok" /\ lastRate < Rate -> RecoverRate
       [] OTHER -> UNCHANGED <<lastRate, currentRate>>
  /\ UNCHANGED <<tokens, granted, earned, second, idle, queueVars, syncVars>>

\* enqueue calls the coroutine function put and does not await what it returns:
\* the queue stays as it is, and the loop of start() times out on it.
Enqueue ==
  /\ requestsQueued < MaxRequests /\ requestsQueued' = requestsQueued + 1
  /\ UNCHANGED <<requestQueue, rateVars, syncVars>>

RateNext ==
  \/ SecondPasses \/ Acquire \/ Enqueue
  \/ \E status \in {"limited", "failed", "ok"} : OnResponse(status)

-----------------------------------------------------------------------------
\* The element behind the middle of the sorted samples.
Median(q) ==
  CHOOSE m \in ToSet(q) :
    LET below == Cardinality({i \in DOMAIN q : q[i] < m})
        upTo == Cardinality({i \in DOMAIN q : q[i] <= m})
    IN  below <= Len(q) \div 2 /\ Len(q) \div 2 < upTo

Distance(a, b) == IF a > b THEN a - b ELSE b - a

\* is_healthy says so until the third sync.
Sound(count, drifted) == count < 3 \/ ~ drifted

\* sync: the first samples are only collected.
Sync ==
  \E reading \in Readings :
    LET all == Append(samples, reading)
        kept == IF Len(all) > 2 * SyncSamples
                THEN SubSeq(all, Len(all) - SyncSamples + 1, Len(all)) ELSE all
        ready == Len(all) >= SyncSamples IN
    /\ read < MaxReadings /\ read' = read + 1
    /\ samples' = kept
    /\ offset' = IF ready THEN Median(kept) ELSE offset
    /\ syncCount' = IF ready THEN Min({3, syncCount + 1}) ELSE syncCount
    /\ driftDetected' = (driftDetected \/ (ready /\ Distance(offset', offset) > MaxDrift))
    /\ clockHealthy' = Sound(syncCount', driftDetected')
    /\ UNCHANGED <<rateVars, queueVars>>

SyncNext == Sync

-----------------------------------------------------------------------------
SchedulingTypeOK ==
  /\ tokens \in 0 .. Burst /\ currentRate \in 1 .. Rate /\ lastRate \in 1 .. Rate
  /\ errorsSeen \in 0 .. 3 /\ limitsSeen \in 0 .. 2 /\ requestsQueued \in 0 .. MaxRequests
  /\ samples \in BoundedSeq(Readings, 2 * SyncSamples) /\ syncCount \in 0 .. 3

\* The controller and the limiter have the same idea of the rate, and nothing is
\* given away that the bucket did not get: a burst, and what the rate allowed.
RatesAgree ==
  currentRate = lastRate /\ granted <= Burst + earned /\ earned <= Rate * second

\* A rate below five never rises: a fifth of it is less than one.
LowRateStays == [][lastRate < 5 => lastRate' <= lastRate]_schedulingVars

\* One outlier does not move the estimate: as long as the other readings are within
\* the allowed drift of each other, so is the offset.
OneOutlierIsIgnored ==
  syncCount > 0 /\ Len(samples) >= 3 =>
    \A i \in DOMAIN samples :
      LET others == {samples[j] : j \in DOMAIN samples \ {i}} IN
      offset >= Min(others) /\ offset <= Max(others)

(* What the code says of itself; TLC refutes it. *)

\* "Enqueue request with priority.": what was counted is in the queue.
RequestsAreQueued == Len(requestQueue) = requestsQueued

\* "Drift detection": a clock whose offset has been steady ever since counts as
\* sound.
SteadyClockIsSound ==
  syncCount = 3 /\ (\A i, j \in DOMAIN samples : samples[i] = samples[j]) => clockHealthy
=============================================================================
