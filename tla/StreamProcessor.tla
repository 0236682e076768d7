--------------------------- MODULE StreamProcessor ---------------------------
(***************************************************************************)
(* StreamProcessor of core/processor.py with the consuming side of         *)
(* RedisEventBus (subscribe and _pubsub_listener of core/bus.py): the way  *)
(* of an event from the Redis connection through the bounded queue to      *)
(* process().                                                              *)
(*                                                                         *)
(* Everything runs on one event loop, so a coroutine keeps control until   *)
(* it awaits something that suspends: "active" is the listener that has    *)
(* control in the middle of its handler calls.  start() subscribes once    *)
(* per event type, and every subscription to the channel adds one handler  *)
(* entry and one listener that reads the shared connection.  The redis     *)
(* client is external: depending on its version, a task that reads while   *)
(* another is waiting takes its turn or gets a RuntimeError, which ends    *)
(* the listener.  Events are numbered in the order of their publication;   *)
(* Redis may carry one more than once (EventBus!DeliveryBounds).           *)
(***************************************************************************)
EXTENDS Naturals, Sequences, FiniteSets

CONSTANTS
  N,           \* events published
  Deployments, \* the processors looked at: see DeploymentOK
  QueueLimit,  \* ProcessorConfig.queue_limit
  MemoryMax    \* ids kept by _mark_processed (50000)

Events == 1 .. N

(* copies: messages the bus may send for one event; invalid: events that      *)
(* _validate refuses; oneReader: whether a second concurrent read of the      *)
(* connection raises; types: event types of the processor on the channel;     *)
(* starts: bound on the calls of start; high: whether ProcessorConfig.        *)
(* priority is 1; swallows: whether process() is BaseProcessor's, which never *)
(* raises.                                                                    *)
DeploymentOK(d) ==
  /\ d.copies \in Nat \ {0} /\ d.types \in Nat \ {0} /\ d.starts \in Nat
  /\ d.invalid \subseteq Events
  /\ {d.high, d.swallows, d.oneReader} \subseteq BOOLEAN

ASSUME ConstantsAssumption ==
  /\ N \in Nat /\ QueueLimit \in Nat \ {0} /\ MemoryMax \in Nat \ {0}
  /\ \A d \in Deployments : DeploymentOK(d)

VARIABLES
  config,       \* the deployment
  sent,         \* sent[e]: messages with e put on the connection
  wire,         \* messages not yet read
  reading,      \* reading[l]: listener l's event, handler calls made, asleep?
  active,       \* the listener in control, 0 for none
  subscribers,  \* entries of _subscribers[channel]: one listener each ...
  dead,         \* ... of which these have ended
  queue,        \* _queue, a deque with maxlen = queue_limit
  stage,        \* where the task of _process_loop is
  current,      \* the event it took, 0 for none
  processedIds, \* _processed_ids
  metrics,      \* ProcessorMetrics: processed, produced, failed, dropped
  tried,        \* history: tried[e] calls of process(e)
  handled,      \* history: handled[e] of them that succeeded
  offered,      \* history: handler calls that got past _should_skip
  cancelled     \* history: calls of process that stop() cancelled

input == <<sent, wire>>
listeners == <<reading, active, subscribers, dead>>
worker == <<stage, current, processedIds, tried, handled, cancelled>>
vars == <<config, input, listeners, queue, worker, metrics, offered>>

MaxListeners == config.types * config.starts
Listeners == 1 .. subscribers \ dead
Unread == [ev |-> 0, done |-> 0, asleep |-> FALSE]
Full == Len(queue) >= QueueLimit
Count(m) == metrics' = [metrics EXCEPT ![m] = @ + 1]
Copied(e, s) == Cardinality({i \in DOMAIN s : s[i] = e})

Init ==
  /\ config \in Deployments
  /\ sent = [e \in Events |-> 0] /\ wire = <<>>
  /\ reading = [l \in 1 .. MaxListeners |-> Unread] /\ active = 0
  /\ subscribers = 0 /\ dead = {}
  /\ queue = <<>>
  /\ stage = "off" /\ current = 0 /\ processedIds = {}
  /\ metrics = [processed |-> 0, produced |-> 0, failed |-> 0, dropped |-> 0]
  /\ tried = [e \in Events |-> 0] /\ handled = [e \in Events |-> 0]
  /\ offered = 0 /\ cancelled = 0

-----------------------------------------------------------------------------
\* Redis sends the next event, or one of the earlier ones again.  A message
\* sent while nobody is subscribed is lost.
Send(e) ==
  /\ sent[e] < config.copies
  /\ \A f \in 1 .. e - 1 : sent[f] > 0
  /\ sent' = [sent EXCEPT ![e] = @ + 1]
  /\ wire' = IF subscribers > 0 THEN Append(wire, e) ELSE wire
  /\ UNCHANGED <<listeners, queue, worker, metrics, offered>>

\* A listener reads a message and calls every handler entry in turn.
Receive(l) ==
  /\ active = 0 /\ reading[l] = Unread /\ wire # <<>>
  /\ reading' = [reading EXCEPT ![l] = [Unread EXCEPT !.ev = Head(wire)]]
  /\ wire' = Tail(wire)
  /\ active' = l
  /\ UNCHANGED <<sent, subscribers, dead, queue, worker, metrics, offered>>

\* A listener turns to the connection to wait for its next message.
Listen(l) ==
  dead' = IF config.oneReader /\ \E k \in Listeners \ {l} : reading[k] = Unread
          THEN dead \cup {l} ELSE dead

\* One handler call of l is over.  The loop runs over the live list of
\* handlers; after its last entry l awaits a message.
Return(l) ==
  IF reading[l].done + 1 = subscribers
  THEN reading' = [reading EXCEPT ![l] = Unread] /\ active' = 0 /\ Listen(l)
  ELSE /\ reading' = [reading EXCEPT ![l].done = @ + 1, ![l].asleep = FALSE]
       /\ active' = l /\ UNCHANGED dead

\* _handle_event: a duplicate of a processed event, ...
Skip(l) ==
  /\ reading[l].ev \in processedIds
  /\ Return(l)
  /\ UNCHANGED <<queue, metrics, offered>>

\* ... an invalid one, ...
Refuse(l) ==
  /\ reading[l].ev \notin processedIds /\ reading[l].ev \in config.invalid
  /\ Return(l)
  /\ Count("dropped") /\ offered' = offered + 1
  /\ UNCHANGED queue

\* Mutants: the full deque discards by itself what nobody counts; there is no
\* limit.
EnqueueUncounted(l) ==
  /\ reading[l].ev \notin processedIds \cup config.invalid
  /\ offered' = offered + 1
  /\ queue' = Append(IF Full THEN Tail(queue) ELSE queue, reading[l].ev)
  /\ Return(l) /\ UNCHANGED metrics
EnqueuePastLimit(l) ==
  /\ reading[l].ev \notin processedIds \cup config.invalid
  /\ offered' = offered + 1
  /\ queue' = Append(queue, reading[l].ev)
  /\ Return(l) /\ UNCHANGED metrics

\* ... or one for the queue: when that is full, the oldest makes room, or a
\* high-priority processor sleeps for a moment.
Enqueue(l) ==
  /\ reading[l].ev \notin processedIds \cup config.invalid
  /\ offered' = offered + 1
  /\ \/ /\ ~ Full
        /\ queue' = Append(queue, reading[l].ev)
        /\ Return(l) /\ UNCHANGED metrics
     \/ /\ Full /\ ~ config.high
        /\ queue' = Append(Tail(queue), reading[l].ev)
        /\ Count("dropped")
        /\ Return(l)
     \/ /\ Full /\ config.high
        /\ reading' = [reading EXCEPT ![l].asleep = TRUE] /\ active' = 0
        /\ UNCHANGED <<queue, metrics, dead>>

HandleEvent(l) ==
  /\ active = l
  /\ Skip(l) \/ Refuse(l) \/ Enqueue(l)
  /\ UNCHANGED <<input, subscribers, worker>>

\* The deque takes the event after the sleep; if it is full it discards its
\* oldest by itself.
Awake(l) ==
  /\ active = 0 /\ reading[l].asleep
  /\ queue' = Append(IF Full THEN Tail(queue) ELSE queue, reading[l].ev)
  /\ Return(l)
  /\ UNCHANGED <<input, subscribers, worker, metrics, offered>>

-----------------------------------------------------------------------------
\* Mutants: the event stays in the queue; the newest event is taken first.
Peek ==
  /\ active = 0 /\ stage = "poll" /\ queue # <<>>
  /\ current' = Head(queue)
  /\ stage' = "process"
  /\ tried' = [tried EXCEPT ![Head(queue)] = @ + 1]
  /\ UNCHANGED <<input, listeners, queue, processedIds, handled, cancelled, metrics, offered>>
TakeLast ==
  /\ active = 0 /\ stage = "poll" /\ queue # <<>>
  /\ current' = queue[Len(queue)] /\ queue' = SubSeq(queue, 1, Len(queue) - 1)
  /\ stage' = "process"
  /\ tried' = [tried EXCEPT ![current'] = @ + 1]
  /\ UNCHANGED <<input, listeners, processedIds, handled, cancelled, metrics, offered>>

\* _process_loop up to the await in process().
Take ==
  /\ active = 0 /\ stage = "poll" /\ queue # <<>>
  /\ current' = Head(queue) /\ queue' = Tail(queue)
  /\ stage' = "process"
  /\ tried' = [tried EXCEPT ![Head(queue)] = @ + 1]
  /\ UNCHANGED <<input, listeners, processedIds, handled, cancelled, metrics, offered>>

\* _mark_processed: an oversized set keeps an arbitrary half.
Marked(ids, e) ==
  LET all == ids \cup {e}
  IN  IF Cardinality(all) > MemoryMax
      THEN {kept \in SUBSET all : Cardinality(kept) = MemoryMax \div 2}
      ELSE {all}

\* process() returned, with an event to publish or without.
Succeed ==
  /\ active = 0 /\ stage = "process"
  /\ Count("processed")
  /\ handled' = [handled EXCEPT ![current] = @ + 1]
  /\ processedIds' \in Marked(processedIds, current)
  /\ \/ stage' = "publish" /\ UNCHANGED current
     \/ stage' = "poll" /\ current' = 0
  /\ UNCHANGED <<input, listeners, queue, tried, cancelled, offered>>

\* Mutants: a failed event is marked like a processed one; a failure ends the
\* loop's task.
FailMarks ==
  /\ active = 0 /\ stage = "process" /\ ~ config.swallows
  /\ Count("failed")
  /\ processedIds' \in Marked(processedIds, current)
  /\ stage' = "poll" /\ current' = 0
  /\ UNCHANGED <<input, listeners, queue, tried, handled, cancelled, offered>>
FailEndsLoop ==
  /\ active = 0 /\ stage = "process" /\ ~ config.swallows
  /\ Count("failed")
  /\ stage' = "ended" /\ current' = 0
  /\ UNCHANGED <<input, listeners, queue, processedIds, tried, handled, cancelled, offered>>

\* process() raised: _on_error counts it, and the event is gone.
Fail ==
  /\ active = 0 /\ stage = "process" /\ ~ config.swallows
  /\ Count("failed")
  /\ stage' = "poll" /\ current' = 0
  /\ UNCHANGED <<input, listeners, queue, processedIds, tried, handled, cancelled, offered>>

\* BaseProcessor.process counts the failure and returns None: the loop goes on
\* as after a success.
FailQuietly ==
  /\ active = 0 /\ stage = "process" /\ config.swallows
  /\ metrics' = [metrics EXCEPT !.failed = @ + 1, !.processed = @ + 1]
  /\ processedIds' \in Marked(processedIds, current)
  /\ stage' = "poll" /\ current' = 0
  /\ UNCHANGED <<input, listeners, queue, tried, handled, cancelled, offered>>

\* _publish swallows what the bus raises: the event counts as produced.
PublishResult ==
  /\ active = 0 /\ stage = "publish"
  /\ Count("produced")
  /\ stage' = "poll" /\ current' = 0
  /\ UNCHANGED <<input, listeners, queue, processedIds, tried, handled, cancelled, offered>>

\* start() subscribes again, once per event type, and then starts the loop.
Start ==
  /\ active = 0 /\ stage = "off" /\ subscribers < MaxListeners
  /\ stage' = "starting"
  /\ UNCHANGED <<input, listeners, queue, current, processedIds, tried, handled,
                 cancelled, metrics, offered>>

Subscribe ==
  /\ active = 0 /\ stage = "starting"
  /\ subscribers' = subscribers + 1 /\ Listen(subscribers')
  /\ stage' = IF subscribers' % config.types = 0 THEN "poll" ELSE "starting"
  /\ UNCHANGED <<input, reading, active, queue, current, processedIds, tried, handled,
                 cancelled, metrics, offered>>

\* stop() cancels the loop's task wherever it awaits.  Handlers stay subscribed.
Stop ==
  /\ active = 0 /\ stage \notin {"off", "starting"}
  /\ stage' = "off" /\ current' = 0
  /\ cancelled' = cancelled + (IF stage = "process" THEN 1 ELSE 0)
  /\ UNCHANGED <<input, listeners, queue, processedIds, tried, handled, metrics, offered>>

Consume(l) == Receive(l) \/ HandleEvent(l) \/ Awake(l)
Work == Subscribe \/ Take \/ Succeed \/ Fail \/ FailQuietly \/ PublishResult

Next ==
  /\ \/ \E e \in Events : Send(e)
     \/ \E l \in Listeners : Consume(l)
     \/ Work
     \/ Start
     \/ Stop
  /\ UNCHANGED config

Spec == Init /\ [][Next]_vars

\* The event loop runs every ready coroutine; nobody has to stop a processor.
FairSpec ==
  Spec /\ WF_vars(Work /\ UNCHANGED config)
       /\ WF_vars((\E l \in Listeners : Consume(l)) /\ UNCHANGED config)

-----------------------------------------------------------------------------
TypeOK ==
  /\ sent \in [Events -> 0 .. config.copies] /\ wire \in Seq(Events)
  /\ reading \in [1 .. MaxListeners ->
       [ev : Events \cup {0}, done : 0 .. MaxListeners, asleep : BOOLEAN]]
  /\ active \in 0 .. subscribers /\ subscribers \in 0 .. MaxListeners
  /\ dead \in SUBSET (1 .. subscribers)
  /\ queue \in Seq(Events) /\ Len(queue) <= QueueLimit
  /\ stage \in {"off", "starting", "poll", "process", "publish"}
  /\ current \in Events \cup {0} /\ processedIds \in SUBSET Events
  /\ metrics \in [{"processed", "produced", "failed", "dropped"} -> Nat]
  /\ tried \in [Events -> Nat] /\ handled \in [Events -> Nat]
  /\ offered \in Nat /\ cancelled \in Nat

Sleepers == Cardinality({l \in Listeners : reading[l].asleep})
InProcess == IF stage = "process" THEN 1 ELSE 0

Accounted ==
  offered = Sleepers + Len(queue) + InProcess + metrics.processed + metrics.dropped
            + cancelled + (IF config.swallows THEN 0 ELSE metrics.failed)

\* Two handler calls of a high-priority processor may be under way at once.
HandlersOverlap == config.high /\ subscribers > 1

\* Below high priority nothing is lost unrecorded: every event a handler did not
\* skip waits, is being processed, or shows in the metrics (or stop() cancelled it).
EveryEventAccounted == ~ config.high => Accounted

\* An event takes its turn: unless the bus repeats events, process() never sees
\* an event for the first time after a later one, whatever was dropped.
InOrder ==
  ~ HandlersOverlap /\ config.copies = 1 /\ stage = "process" /\ tried[current] = 1
    => \A e \in Events : e > current => tried[e] = 0

\* A remembered id is the id of an event that process() completed.
RememberedWasHandled ==
  ~ config.swallows => \A e \in processedIds : handled[e] > 0

\* One message and one handler entry make an event be processed once.
ProcessedOnce ==
  config.copies = 1 /\ subscribers <= 1 => \A e \in Events : handled[e] <= 1

\* A queue with events in it is worked off unless the processor is stopped:
\* no failure and no full queue ends the loop.
QueueDrains == queue # <<>> ~> (queue = <<>> \/ stage = "off")
=============================================================================
