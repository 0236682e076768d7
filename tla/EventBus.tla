------------------------------ MODULE EventBus ------------------------------
(***************************************************************************)
(* Publishing on the RedisEventBus of core/bus.py, persistence on (the     *)
(* default, and what its callers use).  Every process has a bus object     *)
(* with an in-memory set of event ids; the events table (PostgreSQL) and   *)
(* the broadcast (Redis) are shared.  One action is one stretch of publish *)
(* between two awaits; tasks interleave at the awaits.                     *)
(*                                                                         *)
(* External: an INSERT draws its offset from a BIGSERIAL, which is never   *)
(* given back, and commits later; a failed call to a server may have had   *)
(* its effect.                                                             *)
(***************************************************************************)
EXTENDS Naturals, FiniteSets

CONSTANTS
  Events,     \* event ids
  Tasks,      \* tasks that call publish, one call at a time each
  Buses,      \* processes, each with a bus of its own
  BusOf,      \* BusOf[t]: the process task t runs in
  CacheMax,   \* BusConfig.dedup_cache_max_size
  Retries,    \* BusConfig.redis_publish_retries
  Faults,     \* what may go wrong together: sets of "server", "cancel", "crash"
  MaxCalls,   \* bound on the calls of publish in a behaviour
  None        \* no event

ASSUME ConstantsAssumption ==
  /\ BusOf \in [Tasks -> Buses]
  /\ Retries \in Nat \ {0} /\ CacheMax \in Nat \ {0} /\ MaxCalls \in Nat
  /\ None \notin Events

VARIABLES
  faults,       \* what goes wrong in this behaviour
  processedIds, \* processedIds[b]: _processed_event_ids of bus b
  rows,         \* rows[e]: offset of e's committed row, 0 without one
  nextOffset,   \* the table's BIGSERIAL
  typed,        \* typed[e]: messages with e on the channel of its type
  system,       \* system[e]: messages with e on the system channel
  task,         \* task[t]: stage and locals of t's call of publish
  completed,    \* history: events some call published to the end
  acked,        \* history: events some call returned for, duplicates included
  cancelled,    \* history: events whose call was cancelled
  calls         \* calls of publish so far

busVars == <<processedIds, rows, nextOffset, typed, system>>
history == <<completed, acked, cancelled>>
vars == <<faults, busVars, task, history, calls>>

Idle == [stage |-> "idle", ev |-> None, offset |-> 0, attempt |-> 0]
Started(e) == [stage |-> "check", ev |-> e, offset |-> 0, attempt |-> 0]
Sending == {"typed", "system"}
Stages == {"check", "insert", "commit"} \cup Sending

At(t, stage) == task[t].stage = stage
Working(t, e) == task[t].stage # "idle" /\ task[t].ev = e
Quiet(e) == \A t \in Tasks : ~ Working(t, e)
Sends(t, e) == task[t].stage \in Sending /\ task[t].ev = e
Stored(e) == rows[e] # 0
May(fault) == fault \in faults

Init ==
  /\ faults \in Faults
  /\ processedIds = [b \in Buses |-> {}]
  /\ rows = [e \in Events |-> 0] /\ nextOffset = 1
  /\ typed = [e \in Events |-> 0] /\ system = [e \in Events |-> 0]
  /\ task = [t \in Tasks |-> Idle]
  /\ completed = {} /\ acked = {} /\ cancelled = {}
  /\ calls = 0

-----------------------------------------------------------------------------
Goto(t, stage) == task' = [task EXCEPT ![t].stage = stage]
Leave(t) == task' = [task EXCEPT ![t] = Idle]

\* Mutant: the except branch does not forget the id.
RaiseKeepsId(t) == Leave(t) /\ UNCHANGED processedIds

\* The except branch of publish: forget the id and raise.
Raise(t) ==
  /\ processedIds' = [processedIds EXCEPT ![BusOf[t]] = @ \ {task[t].ev}]
  /\ Leave(t)

\* What the set may hold after e was added: an oversized set keeps an
\* arbitrary half of its members, e among them or not.
Admitted(ids, e) ==
  LET all == ids \cup {e}
  IN  IF Cardinality(all) > CacheMax
      THEN {kept \in SUBSET all : Cardinality(kept) = (CacheMax + 1) \div 2}
      ELSE {all}

DuplicateInMemory(t, e) ==
  /\ e \in processedIds[BusOf[t]]
  /\ acked' = acked \cup {e}
  /\ UNCHANGED <<busVars, task>>

Admit(t, e) ==
  /\ e \notin processedIds[BusOf[t]]
  /\ \E ids \in Admitted(processedIds[BusOf[t]], e) :
       processedIds' = [processedIds EXCEPT ![BusOf[t]] = ids]
  /\ task' = [task EXCEPT ![t] = Started(e)]
  /\ UNCHANGED <<rows, nextOffset, typed, system, acked>>

Publish(t, e) ==
  /\ At(t, "idle") /\ calls < MaxCalls
  /\ DuplicateInMemory(t, e) \/ Admit(t, e)
  /\ calls' = calls + 1
  /\ UNCHANGED <<completed, cancelled>>

\* Mutant: broadcast without waiting for the row.
SendBeforePersist(t) ==
  /\ At(t, "check") /\ ~ Stored(task[t].ev)
  /\ Goto(t, "typed")
  /\ UNCHANGED <<busVars, history, calls>>

\* A failed query counts as "no duplicate".
IsDuplicatePersistent(t) ==
  /\ At(t, "check")
  /\ \/ /\ Stored(task[t].ev)
        /\ Leave(t)
        /\ acked' = acked \cup {task[t].ev}
     \/ /\ ~ Stored(task[t].ev) \/ May("server")
        /\ Goto(t, "insert")
        /\ UNCHANGED acked
  /\ UNCHANGED <<busVars, completed, cancelled, calls>>

\* The INSERT reaches the server, or the call fails before.
PersistToPostgres(t) ==
  /\ At(t, "insert")
  /\ \/ /\ task' = [task EXCEPT ![t].stage = "commit", ![t].offset = nextOffset]
        /\ nextOffset' = nextOffset + 1
        /\ UNCHANGED processedIds
     \/ May("server") /\ Raise(t) /\ UNCHANGED nextOffset
  /\ UNCHANGED <<rows, typed, system, history, calls>>

\* Mutant: a call that finds the row of another one waits for it to go away.
InsertReplyWaits(t) ==
  LET e == task[t].ev IN
  /\ At(t, "commit") /\ ~ Stored(e)
  /\ rows' = [rows EXCEPT ![e] = task[t].offset]
  /\ Goto(t, "typed")
  /\ UNCHANGED <<processedIds, nextOffset, typed, system, history, calls>>

\* It commits, or violates UNIQUE (event_id), or fails before or after it.
InsertReply(t) ==
  LET e == task[t].ev IN
  /\ At(t, "commit")
  /\ \/ /\ ~ Stored(e)
        /\ rows' = [rows EXCEPT ![e] = task[t].offset]
        /\ \/ Goto(t, "typed") /\ UNCHANGED processedIds
           \/ May("server") /\ Raise(t)
     \/ (Stored(e) \/ May("server")) /\ Raise(t) /\ UNCHANGED rows
  /\ UNCHANGED <<nextOffset, typed, system, history, calls>>

\* Mutant: one attempt too many.
RetryOnceMore(t) ==
  IF task[t].attempt = Retries
  THEN Raise(t)
  ELSE /\ task' = [task EXCEPT ![t].stage = "typed", ![t].attempt = @ + 1]
       /\ UNCHANGED processedIds

\* An attempt failed: both channels again, unless it was the last.
RetryOrRaise(t) ==
  IF task[t].attempt = Retries - 1
  THEN Raise(t)
  ELSE /\ task' = [task EXCEPT ![t].stage = "typed", ![t].attempt = @ + 1]
       /\ UNCHANGED processedIds

\* One message with the task's event on a channel, or none.
Message(channel, t) == [channel EXCEPT ![task[t].ev] = @ + 1]

SendTyped(t) ==
  /\ At(t, "typed")
  /\ \/ typed' = Message(typed, t) /\ Goto(t, "system") /\ UNCHANGED processedIds
     \/ May("server") /\ typed' \in {typed, Message(typed, t)} /\ RetryOrRaise(t)
  /\ UNCHANGED <<rows, nextOffset, system, history, calls>>

SendSystem(t) ==
  /\ At(t, "system")
  /\ \/ /\ system' = Message(system, t)
        /\ Leave(t)
        /\ completed' = completed \cup {task[t].ev}
        /\ acked' = acked \cup {task[t].ev}
        /\ UNCHANGED processedIds
     \/ /\ May("server") /\ system' \in {system, Message(system, t)}
        /\ RetryOrRaise(t)
        /\ UNCHANGED <<completed, acked>>
  /\ UNCHANGED <<rows, nextOffset, typed, cancelled, calls>>

Step(t) ==
  \/ IsDuplicatePersistent(t)
  \/ PersistToPostgres(t)
  \/ InsertReply(t)
  \/ SendTyped(t)
  \/ SendSystem(t)

\* A processor that stops cancels its loop, which may be awaiting publish;
\* CancelledError is not an Exception, so the except branch does not run.
Cancel(t) ==
  /\ May("cancel") /\ ~ At(t, "idle")
  /\ cancelled' = cancelled \cup {task[t].ev}
  /\ Leave(t)
  /\ UNCHANGED <<busVars, completed, acked, calls>>

\* A process dies and starts again with an empty set.
Crash(b) ==
  /\ May("crash")
  /\ processedIds' = [processedIds EXCEPT ![b] = {}]
  /\ task' = [t \in Tasks |-> IF BusOf[t] = b THEN Idle ELSE task[t]]
  /\ UNCHANGED <<rows, nextOffset, typed, system, history, calls>>

Next ==
  /\ \/ \E t \in Tasks : Step(t) \/ Cancel(t) \/ \E e \in Events : Publish(t, e)
     \/ \E b \in Buses : Crash(b)
  /\ UNCHANGED faults

Spec == Init /\ [][Next]_vars

\* The event loop runs every task that is ready; nobody has to call publish.
FairSpec == Spec /\ \A t \in Tasks : WF_vars(Step(t) /\ UNCHANGED faults)

-----------------------------------------------------------------------------
TypeOK ==
  /\ faults \in Faults
  /\ processedIds \in [Buses -> SUBSET Events]
  /\ rows \in [Events -> Nat] /\ nextOffset \in Nat \ {0}
  /\ typed \in [Events -> Nat] /\ system \in [Events -> Nat]
  /\ task \in [Tasks -> {Idle} \cup
       [stage : Stages, ev : Events, offset : Nat, attempt : 0 .. Retries - 1]]
  /\ completed \in SUBSET Events /\ acked \in SUBSET Events
  /\ cancelled \in SUBSET Events
  /\ calls \in Nat

\* Redis carries stored events only, each at most once per attempt of the one
\* call that stored it and never more often on the system channel, whatever
\* the retries, the callers' own retries, evictions and crashes.
DeliveryBounds ==
  \A e \in Events :
    /\ typed[e] > 0 => Stored(e)
    /\ typed[e] <= Retries
    /\ system[e] <= typed[e]

\* No two rows share an offset, nor does a row share one with an INSERT that
\* is still under way: a reader may use offsets to tell events apart.
OffsetsDistinct ==
  \A e, f \in Events : Stored(e) /\ rows[e] = rows[f] => e = f

\* A call that published to the end left the event stored and on both channels.
CompletedIsDone ==
  \A e \in completed : Stored(e) /\ typed[e] > 0 /\ system[e] > 0

\* An id the set holds while nobody works on it is the id of a stored event,
\* unless the call was cancelled: failures never poison the set.
RememberedIsStored ==
  \A b \in Buses : \A e \in processedIds[b] :
    \/ Stored(e) \/ e \in cancelled
    \/ \E t \in Tasks : BusOf[t] = b /\ Working(t, e)

\* Once a call published an event to the end, nothing sends it again.
NothingAfterCompletion ==
  [][\A e \in completed : typed'[e] = typed[e] /\ system'[e] = system[e]]_vars

\* "Exactly-once semantics via event_id deduplication": when nothing fails, an
\* acknowledged event nobody is working on went out once on both channels,
\* concurrent duplicates, several processes and evictions notwithstanding.
ExactlyOnceDelivery ==
  faults = {} => \A e \in acked : Quiet(e) => typed[e] = 1 /\ system[e] = 1

\* Every call returns or raises.
PublishReturns == \A t \in Tasks : ~ At(t, "idle") ~> At(t, "idle")

\* The bus implements the durable topic: its rows are the table, and what it sent is
\* what the channels carried.
Topic == INSTANCE DurableTopic WITH table <- rows, onChannel <- typed, onSystem <- system
ImplementsTopic == Topic!Spec

(* What the class says of itself; TLC refutes it. *)

\* "Exactly-once semantics": an event whose publication returned goes out.
AckedIsDelivered == \A e \in acked : Quiet(e) => typed[e] >= 1
=============================================================================
