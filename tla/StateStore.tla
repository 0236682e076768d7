----------------------------- MODULE StateStore -----------------------------
(***************************************************************************)
(* state/store.py: events are buffered in memory and flushed to a log file *)
(* and a table; positions go to PostgreSQL, and to Redis if that fails;    *)
(* portfolios go to Redis and then to PostgreSQL.                          *)
(*                                                                         *)
(* Everything runs on one event loop.  Clearing the buffer and writing the *)
(* file have no await between them, the insert into the table has.  An     *)
(* event whose data has no JSON form (that of recover() holds objects)     *)
(* ends the writing of its batch, as does an error of the file; both are   *)
(* logged and the batch goes on to the table.                              *)
(***************************************************************************)
EXTENDS Naturals, Sequences, FiniteSets, SequencesExt

CONSTANTS
  Deployments,  \* which stores there are, what fails, and bounds on the
                \* events appended and the positions and portfolios saved
  BatchSize,    \* batch_size
  MaxBuffer     \* max_event_buffer

ASSUME StoreAssumption == MaxBuffer \in Nat \ {0} /\ \A d \in Deployments : d.events \in Nat

VARIABLES
  storage,      \* the deployment
  pending,      \* _pending_events
  scheduled,    \* flush tasks that have not begun
  inserting,    \* batches on their way to the table
  eventLog,     \* the file
  eventTable,   \* the table event_log
  appended,     \* number of events so far
  objects,      \* events without a JSON form
  dropped,      \* history: events lost to the full buffer or to a crash
  unwritten,    \* history: events that the file did not get with their batch
  storeUp,      \* "up", "closing" (disconnect waits for the pool) or "down"
  saving,       \* the save under way: what, which one, at which server
  saved,        \* saved[what][server]
  refused,      \* history: positions whose save in PostgreSQL raised
  recovered     \* the position recover() found last

events == <<pending, scheduled, inserting, eventLog, eventTable, appended,
            objects, dropped, unwritten>>
saves == <<saving, saved, refused, recovered>>
storeVars == <<storage, storeUp, events, saves>>

Fails(fault) == fault \in storage.faults
MaxEvents == storage.events
Nothing == [what |-> "nothing", value |-> 0, at |-> "done"]

StoreInit ==
  /\ storage \in Deployments
  /\ pending = <<>> /\ scheduled = 0 /\ inserting = {}
  /\ eventLog = <<>> /\ eventTable = {} /\ appended = 0
  /\ objects = {} /\ dropped = {} /\ unwritten = {}
  /\ storeUp = "up"
  /\ saving = Nothing
  /\ saved = [what \in {"position", "portfolio"} |-> [postgres |-> 0, redis |-> 0]]
  /\ refused = {} /\ recovered = 0

-----------------------------------------------------------------------------
\* append_event: a full deque drops its oldest entry.
Buffer ==
  /\ appended < MaxEvents /\ appended' = appended + 1
  /\ LET full == Len(pending) = MaxBuffer IN
     /\ pending' = Append(IF full THEN Tail(pending) ELSE pending, appended')
     /\ dropped' = IF full THEN dropped \cup {Head(pending)} ELSE dropped
  /\ scheduled' = IF Len(pending') >= BatchSize THEN scheduled + 1 ELSE scheduled
  /\ UNCHANGED <<inserting, eventLog, eventTable, unwritten>>

AppendEvent ==
  /\ storeUp = "up" /\ Buffer
  /\ UNCHANGED <<storage, storeUp, objects, saves>>

\* The file gets the batch up to the first event that has no JSON form, or less
\* when it cannot be written.
WriteToLog(batch) ==
  LET readable == {n \in 0 .. Len(batch) : \A i \in 1 .. n : batch[i] \notin objects}
  IN  \E n \in (IF ~ storage.file THEN {0} ELSE IF Fails("file") THEN readable ELSE {Max(readable)}) :
        /\ eventLog' = eventLog \o SubSeq(batch, 1, n)
        /\ unwritten' = unwritten \cup {batch[i] : i \in n + 1 .. Len(batch)}

\* Mutant: the buffer is cleared when the insert is over.
FlushClearsLate(who) ==
  /\ WriteToLog(pending)
  /\ inserting' = inserting \cup {[who |-> who, batch |-> ToSet(pending)]}
  /\ UNCHANGED pending

\* _flush_events, up to the insert.
Flush(who) ==
  /\ WriteToLog(pending)
  /\ inserting' = IF storage.table /\ pending # <<>>
                  THEN inserting \cup {[who |-> who, batch |-> ToSet(pending)]}
                  ELSE inserting
  /\ pending' = <<>>

FlushTask ==
  /\ scheduled > 0 /\ storeUp # "down"
  /\ scheduled' = scheduled - 1
  /\ Flush("task")
  /\ UNCHANGED <<storage, storeUp, eventTable, appended, objects, dropped, saves>>

\* The flush loop, and checkpoint() in its loop: one insert at a time each.
FlushLoop ==
  \E who \in {"flush loop", "checkpoint loop"} :
    /\ storeUp = "up" /\ pending # <<>> /\ \A f \in inserting : f.who # who
    /\ Flush(who)
    /\ UNCHANGED <<storage, storeUp, scheduled, eventTable, appended, objects, dropped, saves>>

\* The table takes a batch or, on any error, nothing, and the batch is forgotten.
Insert ==
  \E f \in inserting :
    /\ \/ f.batch \cap objects = {} /\ eventTable' = eventTable \cup f.batch
       \/ (f.batch \cap objects # {} \/ Fails("postgres")) /\ UNCHANGED eventTable
    /\ inserting' = inserting \ {f}
    /\ UNCHANGED <<storage, storeUp, pending, scheduled, eventLog, appended, objects,
                   dropped, unwritten, saves>>

\* Inserts that are cut off arrive or do not.
CutOff(cut) ==
  \E arrived \in SUBSET {f \in cut : f.batch \cap objects = {}} :
    eventTable' = eventTable \cup UNION {f.batch : f \in arrived}

\* disconnect() cancels the loops, flushes, and waits for the connections.
Disconnect ==
  /\ storeUp = "up" /\ saving = Nothing
  /\ storeUp' = "closing"
  /\ LET cut == {f \in inserting : f.who # "task"}
         last == [who |-> "task", batch |-> ToSet(pending)] IN
     /\ CutOff(cut)
     /\ inserting' = (inserting \ cut) \cup
                     {f \in {last} : storage.table /\ pending # <<>>}
  /\ WriteToLog(pending) /\ pending' = <<>>
  /\ UNCHANGED <<storage, scheduled, appended, objects, dropped, saves>>

Closed ==
  /\ storeUp = "closing" /\ inserting = {} /\ scheduled = 0
  /\ storeUp' = "down"
  /\ UNCHANGED <<storage, events, saves>>

CrashStore ==
  /\ Fails("crash") /\ storeUp = "up" /\ storeUp' = "down"
  /\ CutOff(inserting) /\ inserting' = {}
  /\ dropped' = dropped \cup ToSet(pending) /\ pending' = <<>> /\ scheduled' = 0
  /\ saving' = Nothing
  /\ UNCHANGED <<storage, eventLog, appended, objects, unwritten, saved, refused, recovered>>

Connect ==
  /\ storeUp = "down" /\ appended < MaxEvents /\ storeUp' = "up"
  /\ UNCHANGED <<storage, events, saves>>

-----------------------------------------------------------------------------
\* Where a save goes first; a portfolio is not saved without Redis.
FirstServer(what) ==
  IF what = "position" /\ storage.table THEN "postgres"
  ELSE IF storage.redis THEN "redis" ELSE "done"

\* Where it goes next: a position to Redis if PostgreSQL failed, a portfolio to
\* PostgreSQL if Redis did not.
NextServer(failed) ==
  IF saving.what = "position" /\ saving.at = "postgres" /\ failed /\ storage.redis
  THEN "redis"
  ELSE IF saving.what = "portfolio" /\ saving.at = "redis" /\ ~ failed /\ storage.table
  THEN "postgres" ELSE "done"

Save(what) ==
  LET value == 1 + Max({saved[what].postgres, saved[what].redis}) IN
  /\ storeUp = "up" /\ saving = Nothing /\ value <= storage.saves
  /\ FirstServer(what) # "done"
  /\ saving' = [what |-> what, value |-> value, at |-> FirstServer(what)]
  /\ UNCHANGED <<storage, storeUp, events, saved, refused, recovered>>

\* A server answers or fails; a failed save may have had its effect.
ServerAnswers ==
  /\ saving # Nothing
  /\ \E failed \in {FALSE} \cup {TRUE : x \in {s \in {saving.at} : Fails(s)}} :
       LET written == [saved EXCEPT ![saving.what][saving.at] = saving.value] IN
       /\ saved' \in (IF failed THEN {saved, written} ELSE {written})
       /\ saving' = IF NextServer(failed) = "done" THEN Nothing
                    ELSE [saving EXCEPT !.at = NextServer(failed)]
       /\ refused' = IF failed /\ saving.at = "postgres" /\ saving.what = "position"
                     THEN refused \cup {saving.value} ELSE refused
  /\ UNCHANGED <<storage, storeUp, events, recovered>>

\* What load_positions makes of a row raises, for last_update is a number and
\* str(updated_at) is none: only Redis is ever read.
LoadPositions == IF storage.redis THEN saved["position"].redis ELSE 0

\* recover() appends an event that holds what it found.
Recover ==
  /\ storeUp = "up" /\ saving = Nothing /\ Buffer
  /\ \/ recovered' = LoadPositions
     \/ Fails("redis") /\ recovered' = 0
  /\ objects' = IF recovered' # 0 THEN objects \cup {appended'} ELSE objects
  /\ UNCHANGED <<storage, storeUp, saving, saved, refused>>

StoreNext ==
  \/ AppendEvent \/ FlushTask \/ FlushLoop \/ Insert
  \/ Disconnect \/ Closed \/ CrashStore \/ Connect
  \/ \E what \in {"position", "portfolio"} : Save(what)
  \/ ServerAnswers \/ Recover

\* The loops sleep and flush; servers answer.
StoreFair == WF_storeVars(FlushLoop) /\ WF_storeVars(Insert) /\ WF_storeVars(ServerAnswers)

StoreSpec == StoreInit /\ [][StoreNext]_storeVars /\ StoreFair

-----------------------------------------------------------------------------
StoreTypeOK ==
  /\ storage \in Deployments /\ storeUp \in {"up", "closing", "down"}
  /\ pending \in BoundedSeq(1 .. MaxEvents, MaxBuffer) /\ scheduled \in 0 .. MaxEvents
  /\ \A f \in inserting : f.batch \subseteq 1 .. appended
  /\ ToSet(eventLog) \cup eventTable \cup objects \cup dropped \cup unwritten \subseteq 1 .. appended
  /\ saving.at \in {"postgres", "redis", "done"}

\* "Append-only audit trail": the file has every event once, in the order in which
\* they were appended, whichever of the flushes wrote it.
LogInOrder == \A i, j \in DOMAIN eventLog : i < j => eventLog[i] < eventLog[j]

\* Every event is in the buffer, in the file, or known to be lost to it: to a full
\* buffer, a crash, or the writing of its batch that ended early, which takes an
\* error of the file or an event without a JSON form.
EventsAccounted ==
  /\ 1 .. appended = ToSet(pending) \cup ToSet(eventLog) \cup dropped \cup unwritten
  /\ storage.file /\ ~ Fails("file") /\ objects = {} => unwritten = {}

\* The table only has events whose batch went to the file first, and that the file
\* has unless it failed: an event without a JSON form keeps its batch from both.
FileBeforeTable ==
  /\ eventTable \subseteq ToSet(eventLog) \cup unwritten
  /\ storage.file /\ ~ Fails("file") => eventTable \subseteq ToSet(eventLog)

\* Redis only has what PostgreSQL refused.
FallbackOnly == storage.table => saved["position"].redis \in refused \cup {0}

\* A buffered event leaves the buffer, for the file, unless everything stops.
BufferDrains == (storeUp = "up" /\ pending # <<>>) ~> (pending = <<>>)

(* What the code says of itself; TLC refutes it. *)

\* "PostgreSQL (authoritative)": what recover() finds is the position that was
\* saved last.
RecoversAuthoritative ==
  [][recovered' # recovered /\ recovered' # 0
       => recovered' = Max({saved["position"].postgres, saved["position"].redis})]_storeVars
=============================================================================
