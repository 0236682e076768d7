-------------------------- MODULE DistributedState --------------------------
(***************************************************************************)
(* One key of the DistributedState of core/state.py: the state table       *)
(* (PostgreSQL, authoritative), the cache (Redis) and the calls that       *)
(* interleave at their awaits, in several processes.  Each process has an  *)
(* object with an asyncio.Lock that only set() takes.                      *)
(*                                                                         *)
(* A value stands for the calls whose effect it contains.  External:       *)
(* asyncpg hands out a JSON column as text, on which the update functions  *)
(* of the code raise, and _cache_to_redis serialises such a row into       *)
(* something get() cannot read: an unreadable entry is as good as none.    *)
(* SET TRANSACTION outside a transaction has no effect.  A failed call to  *)
(* a server may have had its effect.                                       *)
(***************************************************************************)
EXTENDS Naturals, FiniteSets

CONSTANTS
  Tasks,      \* tasks that use the key
  Processes,  \* each with an object of its own
  Uses,       \* the ways the key is used: see UseOK
  MaxRetries, \* max_retries of atomic_update
  MaxCalls,   \* bound on the calls
  Nobody      \* no task

Operations == {"get", "set", "update", "locked", "delete"}

(* processOf: the process each task runs in; ops: the calls it makes; faults: *)
(* what goes wrong, of "redis", "postgres", "expiry", "crash"; present:       *)
(* whether the key was set before.                                            *)
UseOK(u) ==
  /\ u.processOf \in [Tasks -> Processes]
  /\ u.ops \subseteq Operations /\ u.present \in BOOLEAN

ASSUME ConstantsAssumption ==
  /\ \A u \in Uses : UseOK(u)
  /\ Nobody \notin Tasks
  /\ MaxRetries \in Nat \ {0} /\ MaxCalls \in Nat

VARIABLES
  use,        \* how the key is used in this behaviour
  row,        \* the committed row of the key
  cache,      \* what get() can read in Redis
  lock,       \* lock[p]: the task that holds _lock of process p
  writer,     \* the transaction that has the uncommitted row
  task,       \* task[t]: call, stage and locals
  calls,      \* calls so far
  done,       \* history: writes that returned
  committed   \* history: every row there was

history == <<done, committed>>
vars == <<use, row, cache, lock, writer, task, calls, history>>

Values == [version : Nat, has : SUBSET (1 .. MaxCalls)]
Absent == [version |-> 0, has |-> {}]
First == IF use.present THEN [version |-> 1, has |-> {}] ELSE Absent
Idle == [op |-> "none", stage |-> "idle", call |-> 0, base |-> Absent,
         found |-> Absent, attempt |-> 0]

At(t, stage) == task[t].stage = stage
Does(t, op) == task[t].op = op
Holds(t) == lock[use.processOf[t]] = t
May(fault) == fault \in use.faults

Init ==
  /\ use \in Uses
  /\ row = First /\ cache = First /\ committed = {First}
  /\ lock = [p \in Processes |-> Nobody] /\ writer = Nobody
  /\ task = [t \in Tasks |-> Idle]
  /\ calls = 0 /\ done = {}

-----------------------------------------------------------------------------
Goto(t, stage) == task' = [task EXCEPT ![t].stage = stage]
Unlocked(t) == [p \in Processes |-> IF lock[p] = t THEN Nobody ELSE lock[p]]

\* The call returns or raises: "async with" gives the lock back.
Leave(t) == task' = [task EXCEPT ![t] = Idle] /\ lock' = Unlocked(t)

\* The value the call writes: its own effect on what it read.
New(t) == [version |-> task[t].base.version + 1,
           has |-> task[t].base.has \cup {task[t].call}]

FirstStage(op) ==
  CASE op \in {"get", "update"} -> "read"
    [] op = "set" -> "lock"
    [] op = "locked" -> "select"
    [] op = "delete" -> "uncache"

Started(op) == [op |-> op, stage |-> FirstStage(op), call |-> calls + 1,
                base |-> Absent, found |-> Absent, attempt |-> 0]

Call(t, op) ==
  /\ At(t, "idle") /\ calls < MaxCalls
  /\ calls' = calls + 1
  /\ task' = [task EXCEPT ![t] = Started(op)]
  /\ UNCHANGED <<row, cache, lock, writer, history>>

\* set() found another version: atomic_update calls get() again or raises.
RetryOrRaise(t) ==
  /\ lock' = Unlocked(t)
  /\ task' = [task EXCEPT ![t] =
       IF task[t].attempt = MaxRetries - 1 THEN Idle
       ELSE [task[t] EXCEPT !.stage = "read", !.base = Absent,
                            !.attempt = task[t].attempt + 1]]

\* Mutant: the version is not looked at.
GotUnchecked(t, value, text) ==
  \/ Does(t, "get") /\ Leave(t)
  \/ Does(t, "update") /\ ~ Holds(t) /\ text /\ Leave(t)
  \/ /\ Does(t, "update") /\ ~ Holds(t) /\ ~ text
     /\ task' = [task EXCEPT ![t].stage = "lock", ![t].base = value]
     /\ UNCHANGED lock
  \/ /\ Does(t, "update") /\ Holds(t)
     /\ Goto(t, "upsert") /\ UNCHANGED lock

\* What the caller of get() makes of the result: return it; let the update
\* function work on it, or raise; compare versions under the lock.
Got(t, value, text) ==
  \/ Does(t, "get") /\ Leave(t)
  \/ Does(t, "update") /\ ~ Holds(t) /\ text /\ Leave(t)
  \/ /\ Does(t, "update") /\ ~ Holds(t) /\ ~ text
     /\ task' = [task EXCEPT ![t].stage = "lock", ![t].base = value]
     /\ UNCHANGED lock
  \/ /\ Does(t, "update") /\ Holds(t)
     /\ IF value = Absent \/ value.version = task[t].base.version
        THEN Goto(t, "upsert") /\ UNCHANGED lock
        ELSE RetryOrRaise(t)

\* get(): Redis first, ...
Read(t) ==
  /\ At(t, "read")
  /\ \/ cache # Absent /\ Got(t, cache, FALSE)
     \/ (cache = Absent \/ May("redis")) /\ Goto(t, "query") /\ UNCHANGED lock
  /\ UNCHANGED <<row, cache, writer, calls, history>>

\* ... then the table, ...
Query(t) ==
  /\ At(t, "query")
  /\ \/ row = Absent /\ Got(t, row, FALSE)
     \/ /\ row # Absent
        /\ task' = [task EXCEPT ![t].stage = "refill", ![t].found = row]
        /\ UNCHANGED lock
     \/ May("postgres") /\ Leave(t)
  /\ UNCHANGED <<row, cache, writer, calls, history>>

\* ... whose row goes to the cache in a form nobody can read.
Refill(t) ==
  /\ At(t, "refill")
  /\ \/ cache' = Absent /\ Got(t, task[t].found, TRUE)
     \/ May("redis") /\ cache' \in {cache, Absent} /\ Leave(t)
  /\ UNCHANGED <<row, writer, calls, history>>

\* set(): without a version there is nothing to compare.
Lock(t) ==
  /\ At(t, "lock") /\ lock[use.processOf[t]] = Nobody
  /\ lock' = [lock EXCEPT ![use.processOf[t]] = t]
  /\ Goto(t, IF task[t].base = Absent THEN "upsert" ELSE "read")
  /\ UNCHANGED <<row, cache, writer, calls, history>>

\* Mutant: the cache is written first.
CacheFirst(t) ==
  /\ At(t, "upsert")
  /\ cache' = New(t) /\ Goto(t, "store")
  /\ UNCHANGED <<row, lock, writer, calls, history>>

\* The upsert replaces whatever row there is by then.
Upsert(t) ==
  /\ At(t, "upsert") /\ writer = Nobody
  /\ \/ /\ row' = New(t) /\ committed' = committed \cup {New(t)}
        /\ \/ Goto(t, "store") /\ UNCHANGED lock
           \/ May("postgres") /\ Leave(t)
     \/ May("postgres") /\ Leave(t) /\ UNCHANGED <<row, committed>>
  /\ UNCHANGED <<cache, writer, calls, done>>

\* Mutant: a failed call to Redis keeps the lock.
StoreKeepsLock(t) ==
  /\ At(t, "store")
  /\ \/ cache' = New(t) /\ done' = done \cup {task[t].call} /\ lock' = Unlocked(t)
     \/ May("redis") /\ UNCHANGED <<cache, done, lock>>
  /\ task' = [task EXCEPT ![t] = Idle]
  /\ UNCHANGED <<row, writer, calls, committed>>

Store(t) ==
  /\ At(t, "store")
  /\ \/ cache' = New(t) /\ done' = done \cup {task[t].call}
     \/ May("redis") /\ cache' \in {cache, New(t)} /\ UNCHANGED done
  /\ Leave(t)
  /\ UNCHANGED <<row, writer, calls, committed>>

\* _atomic_update_pessimistic: no row, no lock; and the text of a row makes
\* the update function raise.
SelectForUpdate(t) ==
  /\ At(t, "select") /\ (row = Absent \/ writer = Nobody)
  /\ \/ row = Absent /\ Goto(t, "insert") /\ UNCHANGED lock
     \/ (row # Absent \/ May("postgres")) /\ Leave(t)
  /\ UNCHANGED <<row, cache, writer, calls, history>>

Insert(t) ==
  /\ At(t, "insert") /\ writer = Nobody
  /\ \/ writer' = t /\ Goto(t, "expose") /\ UNCHANGED lock
     \/ May("postgres") /\ Leave(t) /\ UNCHANGED writer
  /\ UNCHANGED <<row, cache, calls, history>>

Expose(t) ==
  /\ At(t, "expose")
  /\ \/ cache' = New(t) /\ Goto(t, "commit") /\ UNCHANGED <<lock, writer>>
     \/ /\ May("redis") /\ cache' \in {cache, New(t)}
        /\ writer' = Nobody /\ Leave(t)
  /\ UNCHANGED <<row, calls, history>>

Commit(t) ==
  /\ At(t, "commit")
  /\ \/ /\ row' = New(t) /\ committed' = committed \cup {New(t)}
        /\ done' = done \cup {task[t].call}
     \/ /\ May("postgres") /\ row' \in {row, New(t)}
        /\ committed' = committed \cup {row'} /\ UNCHANGED done
  /\ writer' = Nobody /\ Leave(t)
  /\ UNCHANGED <<cache, calls>>

\* delete(): the cache first.
Uncache(t) ==
  /\ At(t, "uncache")
  /\ \/ cache' = Absent /\ Goto(t, "drop") /\ UNCHANGED lock
     \/ May("redis") /\ cache' \in {cache, Absent} /\ Leave(t)
  /\ UNCHANGED <<row, writer, calls, history>>

Drop(t) ==
  /\ At(t, "drop") /\ (row = Absent \/ writer = Nobody)
  /\ row' = Absent \/ (May("postgres") /\ UNCHANGED row)
  /\ committed' = committed \cup {row'}
  /\ Leave(t)
  /\ UNCHANGED <<cache, writer, calls, done>>

Step(t) ==
  \/ Read(t) \/ Query(t) \/ Refill(t)
  \/ Lock(t) \/ Upsert(t) \/ Store(t)
  \/ SelectForUpdate(t) \/ Insert(t) \/ Expose(t) \/ Commit(t)
  \/ Uncache(t) \/ Drop(t)

\* hot_ttl is over, or somebody calls invalidate_cache.
Expire ==
  /\ May("expiry") /\ cache # Absent
  /\ cache' = Absent
  /\ UNCHANGED <<row, lock, writer, task, calls, history>>

Crash(p) ==
  /\ May("crash")
  /\ task' = [t \in Tasks |-> IF use.processOf[t] = p THEN Idle ELSE task[t]]
  /\ lock' = [lock EXCEPT ![p] = Nobody]
  /\ writer' = IF \E t \in Tasks : writer = t /\ use.processOf[t] = p THEN Nobody ELSE writer
  /\ UNCHANGED <<row, cache, calls, history>>

Next ==
  /\ \/ \E t \in Tasks : Step(t) \/ \E op \in use.ops : Call(t, op)
     \/ Expire
     \/ \E p \in Processes : Crash(p)
  /\ UNCHANGED use

Spec == Init /\ [][Next]_vars

\* The event loop runs a task that is ready; nobody has to make calls.
FairSpec == Spec /\ \A t \in Tasks : WF_vars(Step(t) /\ UNCHANGED use)

-----------------------------------------------------------------------------
TypeOK ==
  /\ use \in Uses
  /\ row \in Values /\ cache \in Values
  /\ lock \in [Processes -> Tasks \cup {Nobody}] /\ writer \in Tasks \cup {Nobody}
  /\ task \in [Tasks -> [op : Operations \cup {"none"},
       stage : {"idle", "read", "query", "refill", "lock", "upsert", "store",
                "select", "insert", "expose", "commit", "uncache", "drop"},
       call : 0 .. MaxCalls, base : Values, found : Values,
       attempt : 0 .. MaxRetries - 1]]
  /\ calls \in 0 .. MaxCalls
  /\ done \in SUBSET (1 .. MaxCalls) /\ committed \in SUBSET Values

\* What optimistic locking needs to work: one process, a key that exists, and
\* nobody who writes without a version.
Disciplined ==
  /\ \A t, u \in Tasks : use.processOf[t] = use.processOf[u]
  /\ use.present /\ use.ops \subseteq {"get", "update"}

\* "Atomic updates with optimistic locking": the row contains every update that
\* returned, whatever was updated after it and whatever failed.
NoLostUpdate == Disciplined => done \subseteq row.has

\* "Version tracking for consistency": the version of a key never falls.
VersionsNeverFall == [][Disciplined => row'.version >= row.version]_vars

\* "Write path: PostgreSQL (authoritative) -> Redis (cache)": unless somebody
\* uses the pessimistic update, a readable cache entry was a row once.
CacheWasCommitted == cache # Absent /\ "locked" \notin use.ops => cache \in committed

\* A task that is not in set() has no lock, nor one that is not in a transaction
\* the row: no failure and no crash leaves either behind.
LocksHaveOwners ==
  /\ \A p \in Processes : lock[p] # Nobody =>
       /\ use.processOf[lock[p]] = p
       /\ task[lock[p]].stage \in {"read", "query", "refill", "upsert", "store"}
  /\ writer # Nobody => task[writer].stage \in {"expose", "commit"}

\* Every call returns or raises: nobody waits for ever for a lock.
CallsReturn == \A t \in Tasks : ~ At(t, "idle") ~> At(t, "idle")

(* What the code says of itself; TLC refutes it. *)

\* "Atomically update value using a function": every update that returned is in
\* the row, in one process at least.
AtomicUpdates == done \subseteq row.has
=============================================================================
