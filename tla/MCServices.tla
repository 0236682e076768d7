----------------------------- MODULE MCServices -----------------------------
(***************************************************************************)
(* The services around the trading core, which share no state: each run of *)
(* this model is a run of one of them, drawn by part, while the others     *)
(* stay as they began.                                                     *)
(***************************************************************************)
EXTENDS PubSub, StateStore, Replay, EventOrdering, Supervisor, LiveData, RequestScheduling, Watchdogs

CONSTANTS
  Parts,          \* the parts this configuration runs
  c1, c2, m1, m2, m3

MCChannelOf == (m1 :> c1) @@ (m2 :> c2) @@ (m3 :> c1)
MCOrder == <<"feed", "risk">>
MCCallbacks == {{}, {"suspend"}, {"reset"}}
MCReadings == {-20, 0, 10, 2000}

MCDeployments ==
  {[file |-> TRUE, table |-> TRUE, redis |-> FALSE, events |-> 4, saves |-> 0, faults |-> {}],
   [file |-> TRUE, table |-> TRUE, redis |-> FALSE, events |-> 3, saves |-> 0,
    faults |-> {"postgres", "crash", "file"}],
   [file |-> TRUE, table |-> TRUE, redis |-> TRUE, events |-> 2, saves |-> 2,
    faults |-> {"postgres", "redis"}]}

MCRequests ==
  {[by |-> "replay", end |-> 0, lenient |-> TRUE, failing |-> {2, 3}],
   [by |-> "replay", end |-> 3, lenient |-> FALSE, failing |-> {3}],
   [by |-> "simulation", end |-> 2, lenient |-> FALSE, failing |-> {}]}

VARIABLE part

busVars == vars
servicesVars == <<part, busVars, storeVars, replayVars, orderingVars, supervisorVars, liveVars,
                  schedulingVars, watchVars>>

\* What another part would choose at its beginning is chosen once.
ServicesInit ==
  /\ part \in Parts
  /\ Init /\ (part # "pubsub" => raises)
  /\ StoreInit /\ (part # "store" => storage = CHOOSE d \in Deployments : TRUE)
  /\ ReplayInit /\ (part # "replay" => request = CHOOSE r \in Requests : TRUE)
  /\ OrderingInit /\ (part # "ordering" => callbacks = {})
  /\ SupervisorInit /\ LiveInit /\ RateInit /\ SyncInit /\ WatchInit

ServicesNext ==
  /\ UNCHANGED part
  /\ \/ /\ part = "pubsub" /\ Next
        /\ UNCHANGED <<storeVars, replayVars, orderingVars, supervisorVars, liveVars, schedulingVars, watchVars>>
     \/ /\ part = "store" /\ StoreNext
        /\ UNCHANGED <<busVars, replayVars, orderingVars, supervisorVars, liveVars, schedulingVars, watchVars>>
     \/ /\ part = "replay" /\ ReplayNext
        /\ UNCHANGED <<busVars, storeVars, orderingVars, supervisorVars, liveVars, schedulingVars, watchVars>>
     \/ /\ part = "ordering" /\ OrderingNext
        /\ UNCHANGED <<busVars, storeVars, replayVars, supervisorVars, liveVars, schedulingVars, watchVars>>
     \/ /\ part = "supervisor" /\ SupervisorNext
        /\ UNCHANGED <<busVars, storeVars, replayVars, orderingVars, liveVars, schedulingVars, watchVars>>
     \/ /\ \/ part = "sockets" /\ SocketNext
           \/ part = "votes" /\ Vote
           \/ part = "monitor" /\ MonitorNext
        /\ UNCHANGED <<busVars, storeVars, replayVars, orderingVars, supervisorVars, schedulingVars, watchVars>>
     \/ /\ \/ part = "rate" /\ RateNext
           \/ part = "sync" /\ SyncNext
        /\ UNCHANGED <<busVars, storeVars, replayVars, orderingVars, supervisorVars, liveVars, watchVars>>
     \/ /\ \/ part = "alerts" /\ AlertNext
           \/ part = "healing" /\ HealNext
           \/ part = "survival" /\ SurvivalNext
           \/ part = "capital" /\ CapitalNext
        /\ UNCHANGED <<busVars, storeVars, replayVars, orderingVars, supervisorVars, liveVars, schedulingVars>>

\* The event loop runs what is ready: the listeners, the loops, the replay.
ServicesFair ==
  /\ \A l \in 1 .. MaxSubscribes :
       WF_busVars(part = "pubsub" /\ l \in Listeners /\ Deliver(l) /\ UNCHANGED raises)
  /\ WF_storeVars(part = "store" /\ FlushLoop)
  /\ WF_storeVars(part = "store" /\ Insert)
  /\ WF_storeVars(part = "store" /\ ServerAnswers)
  /\ WF_replayVars(part = "replay" /\ (Fetch \/ Break \/ Process \/ PageDone))
  /\ WF_replayVars(part = "replay" /\ (CommitRow \/ BurnOffset))
  /\ WF_supervisorVars(part = "supervisor" /\ LoopStep)
  /\ WF_supervisorVars(part = "supervisor" /\ Tick)
  /\ WF_supervisorVars(part = "supervisor" /\ StopNextOne)
  /\ WF_supervisorVars(part = "supervisor" /\ CancelLoops)

ServicesSpec == ServicesInit /\ [][ServicesNext]_servicesVars /\ ServicesFair

-----------------------------------------------------------------------------
\* state/store.py and core/replay.py: the file has what was appended, once and in
\* order, but for what a full buffer, a crash or a failed write of it took, and neither
\* the table nor Redis has what the stores before them lack; a replay reads it in order
\* and without gaps, but for rows that come in late.
StorageIsFaithful ==
  /\ LogInOrder /\ EventsAccounted /\ FileBeforeTable /\ FallbackOnly
  /\ ReplayedInOrder /\ NothingSkipped /\ SmallSnapshotCurrent

ServicesTypeOK ==
  /\ TypeOK /\ StoreTypeOK /\ ReplayTypeOK /\ OrderingTypeOK /\ SupervisorTypeOK
  /\ LiveTypeOK /\ SchedulingTypeOK /\ WatchTypeOK

\* core/ and data/: someone listens, and no callback but one that suspends or takes
\* the lock blocks the loop; the supervisor has no instance beside the one and no restart
\* beyond its limit; no socket is open that is stopped, no price outside its sources is
\* voted for, and silence is not healthy.
ServicesAreContained ==
  /\ ServicesTypeOK /\ SomeoneListens
  /\ NoSecondInstance /\ RestartsBounded
  /\ SilentWhenStopped /\ GivenUpLast /\ PriceIsBetween /\ NoVoteIsValid /\ QuietIsUnhealthy
  /\ BlockedByCallback

\* engines/time_sync.py, monitoring/alerts.py and the watchdogs of engines/: rates,
\* offsets, alerts and breakers keep to their limits.
LimitsAreKept ==
  /\ RatesAgree /\ OneOutlierIsIgnored
  /\ AlertsAreFew /\ FailingIsLeftAlone /\ NeverOnlyWarned /\ NothingIsUtilized

\* What waits is served: a message, a buffered event, a replay, a silent component; and
\* no step delivers a sequence out of order or raises a rate that is too low to rise.
ServicesProgress ==
  /\ EveryMessageRead /\ BufferDrains /\ (part = "replay" => ReplayEnds) /\ SilentIsHandled
  /\ OrderedFeedStaysOrdered /\ LowRateStays
=============================================================================
