----------------------- MODULE DistributedState_proof -----------------------
(***************************************************************************)
(* Proofs about DistributedState, for any tasks, processes and uses of the *)
(* key, and any numbers of calls and attempts.                             *)
(***************************************************************************)
EXTENDS DistributedState, TLAPS

TaskStages == {"idle", "read", "query", "refill", "lock", "upsert", "store",
               "select", "insert", "expose", "commit", "uncache", "drop"}
TaskRecord ==
  [op : Operations \cup {"none"}, stage : TaskStages, call : 0 .. MaxCalls,
   base : Values, found : Values, attempt : 0 .. MaxRetries - 1]

\* A task in a call has the number of the call.
Numbered == \A t \in Tasks : ~ At(t, "idle") => task[t].call \in 1 .. MaxCalls

TypeInv == TypeOK /\ Numbered
-----------------------------------------------------------------------------
\* The constants of records: nothing, a task without a call, a fresh call.
LEMMA Constants ==
  /\ Absent \in Values /\ Idle \in TaskRecord
  /\ Idle.stage = "idle" /\ Idle.op = "none" /\ Idle.base = Absent
<1>1. Absent \in Values
  BY DEF Absent, Values
<1>2. 0 \in 0 .. MaxCalls /\ 0 \in 0 .. MaxRetries - 1
  BY ConstantsAssumption
<1>3. QED
  BY <1>1, <1>2 DEF Idle, TaskRecord, TaskStages

\* Of the types the proofs mostly need that of the tasks.
LEMMA TaskIsRecord ==
  ASSUME TypeOK
  PROVE  task \in [Tasks -> TaskRecord]
BY DEF TypeOK, TaskRecord, TaskStages

\* What a call writes is a value with the next version and its own effect.
LEMMA NewValue ==
  ASSUME TypeInv, NEW t \in Tasks, ~ At(t, "idle")
  PROVE  /\ New(t) \in Values
         /\ New(t).version = task[t].base.version + 1
         /\ New(t).has = task[t].base.has \cup {task[t].call}
<1>1. task[t].base \in Values
  BY TaskIsRecord DEF TypeInv, TaskRecord
<1>2. task[t].call \in 1 .. MaxCalls
  BY DEF TypeInv, Numbered
<1>3. QED
  BY <1>1, <1>2 DEF New, Values

\* A task that goes on in its call.
Moves(t, record) ==
  /\ record \in TaskRecord /\ record.call = task[t].call
  /\ task' = [task EXCEPT ![t] = record]

\* Goto changes the stage only.
LEMMA GotoMoves ==
  ASSUME TypeOK, NEW t \in Tasks, NEW stage \in TaskStages, Goto(t, stage)
  PROVE  Moves(t, [task[t] EXCEPT !.stage = stage])
<1>1. task \in [Tasks -> TaskRecord]
  BY TaskIsRecord
<1>2. task' = [task EXCEPT ![t] = [task[t] EXCEPT !.stage = stage]]
  BY <1>1 DEF Goto
<1>3. QED
  BY <1>1, <1>2 DEF Moves, TaskRecord

\* Giving locks back leaves each to a task or to nobody.
LEMMA UnlockedType ==
  ASSUME TypeOK, NEW t \in Tasks
  PROVE  Unlocked(t) \in [Processes -> Tasks \cup {Nobody}]
BY DEF Unlocked, TypeOK

\* The four things the caller of get() makes of a value.
LEMMA GotMoves ==
  ASSUME TypeOK, NEW t \in Tasks, NEW value \in Values, NEW text \in BOOLEAN,
         Got(t, value, text)
  PROVE  \/ Leave(t)
         \/ /\ Does(t, "update") /\ ~ Holds(t) /\ ~ text /\ lock' = lock
            /\ Moves(t, [task[t] EXCEPT !.stage = "lock", !.base = value])
         \/ /\ Does(t, "update") /\ Holds(t) /\ lock' = lock
            /\ value = Absent \/ value.version = task[t].base.version
            /\ Moves(t, [task[t] EXCEPT !.stage = "upsert"])
         \/ /\ Does(t, "update") /\ Holds(t) /\ lock' = Unlocked(t)
            /\ Moves(t, [task[t] EXCEPT !.stage = "read", !.base = Absent,
                                        !.attempt = task[t].attempt + 1])
<1>1. task \in [Tasks -> TaskRecord]
  BY TaskIsRecord
<1>2. CASE /\ Does(t, "update") /\ ~ Holds(t) /\ ~ text /\ lock' = lock
           /\ task' = [task EXCEPT ![t].stage = "lock", ![t].base = value]
  <2>1. task' = [task EXCEPT ![t] = [task[t] EXCEPT !.stage = "lock", !.base = value]]
    BY <1>1, <1>2
  <2>2. Moves(t, [task[t] EXCEPT !.stage = "lock", !.base = value])
    BY <1>1, <2>1 DEF Moves, TaskRecord, TaskStages
  <2>3. QED
    BY <1>2, <2>2
<1>3. CASE /\ Does(t, "update") /\ Holds(t) /\ lock' = lock /\ Goto(t, "upsert")
           /\ value = Absent \/ value.version = task[t].base.version
  BY <1>3, GotoMoves DEF TaskStages
<1>4. CASE Does(t, "update") /\ Holds(t) /\ RetryOrRaise(t)
  <2>1. CASE task[t].attempt = MaxRetries - 1
    BY <1>1, <1>4, <2>1 DEF RetryOrRaise, Leave
  <2>2. CASE task[t].attempt # MaxRetries - 1
    <3>1. task[t].attempt + 1 \in 0 .. MaxRetries - 1
      BY <1>1, <2>2, ConstantsAssumption DEF TaskRecord
    <3>2. task' = [task EXCEPT ![t] = [task[t] EXCEPT !.stage = "read",
                     !.base = Absent, !.attempt = task[t].attempt + 1]]
      <4>1. task' = [task EXCEPT ![t] = IF task[t].attempt = MaxRetries - 1 THEN Idle
                       ELSE [task[t] EXCEPT !.stage = "read", !.base = Absent,
                                            !.attempt = task[t].attempt + 1]]
        BY <1>4 DEF RetryOrRaise
      <4>2. QED
        BY <2>2, <4>1
    <3>3. Moves(t, [task[t] EXCEPT !.stage = "read", !.base = Absent, !.attempt = task[t].attempt + 1])
      BY <1>1, <3>1, <3>2, Constants DEF Moves, TaskRecord, TaskStages
    <3>4. QED
      BY <1>4, <3>3 DEF RetryOrRaise
  <2>3. QED
    BY <2>1, <2>2
<1>5. QED
  BY <1>2, <1>3, <1>4 DEF Got

\* However a task goes on or ends its call, tasks and locks keep their types.
LEMMA TaskKeepsType ==
  ASSUME TypeInv, NEW t \in Tasks, ~ At(t, "idle"), calls' = calls,
         Leave(t) \/ \E record \in TaskRecord : Moves(t, record)
  PROVE  task' \in [Tasks -> TaskRecord] /\ Numbered'
<1>1. task \in [Tasks -> TaskRecord]
  BY TaskIsRecord DEF TypeInv
<1>2. CASE Leave(t)
  <2>1. task' \in [Tasks -> TaskRecord]
    BY <1>1, <1>2, Constants DEF Leave
  <2>2. Numbered'
    BY <1>1, <1>2, Constants DEF Leave, TypeInv, Numbered, At
  <2>3. QED
    BY <2>1, <2>2
<1>3. ASSUME NEW record \in TaskRecord, Moves(t, record)
      PROVE  task' \in [Tasks -> TaskRecord] /\ Numbered'
  <2>1. task' \in [Tasks -> TaskRecord]
    BY <1>1, <1>3 DEF Moves
  <2>2. Numbered'
    BY <1>1, <1>3 DEF Moves, TypeInv, Numbered, At
  <2>3. QED
    BY <2>1, <2>2
<1>4. QED
  BY <1>2, <1>3

\* A step of a task ends its call or goes on, and takes or frees locks only.
LEMMA StepMoves ==
  ASSUME TypeInv, NEW t \in Tasks, Step(t)
  PROVE  /\ ~ At(t, "idle")
         /\ Leave(t) \/ \E record \in TaskRecord : Moves(t, record)
         /\ lock' \in [Processes -> Tasks \cup {Nobody}]
<1>t. TypeOK /\ task \in [Tasks -> TaskRecord]
  BY TaskIsRecord DEF TypeInv
<1>l. lock \in [Processes -> Tasks \cup {Nobody}]
  BY <1>t DEF TypeOK
<1>m. ASSUME NEW stage \in TaskStages, Goto(t, stage)
      PROVE  \E record \in TaskRecord : Moves(t, record)
  BY <1>t, <1>m, GotoMoves DEF Moves
<1>u. Unlocked(t) \in [Processes -> Tasks \cup {Nobody}]
  BY <1>t, UnlockedType
<1>g. ASSUME NEW value \in Values, NEW text \in BOOLEAN, Got(t, value, text)
      PROVE  /\ Leave(t) \/ \E record \in TaskRecord : Moves(t, record)
             /\ lock' \in [Processes -> Tasks \cup {Nobody}]
  <2>1. CASE Leave(t)
    BY <1>u, <2>1 DEF Leave
  <2>2. CASE lock' = lock /\ \E record \in TaskRecord : Moves(t, record)
    BY <1>l, <2>2
  <2>3. CASE lock' = Unlocked(t) /\ \E record \in TaskRecord : Moves(t, record)
    BY <1>u, <2>3
  <2>4. \A record : Moves(t, record) => record \in TaskRecord
    BY DEF Moves
  <2>5. QED
    BY <1>t, <1>g, <2>1, <2>2, <2>3, <2>4, GotMoves
<1> USE DEF TaskStages, At
<1>1. CASE Read(t)
  <2>1. cache \in Values
    BY <1>t DEF TypeOK
  <2>2. QED
    BY <1>1, <1>l, <1>m, <1>g, <2>1 DEF Read
<1>2. CASE Query(t)
  <2>1. row \in Values
    BY <1>t DEF TypeOK
  <2>2. CASE task' = [task EXCEPT ![t].stage = "refill", ![t].found = row] /\ lock' = lock
    <3>1. Moves(t, [task[t] EXCEPT !.stage = "refill", !.found = row])
      BY <1>t, <2>1, <2>2 DEF Moves, TaskRecord
    <3>2. QED
      BY <1>2, <1>l, <2>2, <3>1 DEF Moves, Query
  <2>3. CASE Got(t, row, FALSE)
    BY <1>2, <1>g, <2>1, <2>3 DEF Query
  <2>4. CASE Leave(t)
    BY <1>2, <1>u, <2>4 DEF Leave, Query
  <2>5. QED
    BY <1>2, <2>2, <2>3, <2>4 DEF Query
<1>3. CASE Refill(t)
  <2>1. task[t].found \in Values
    BY <1>t DEF TaskRecord
  <2>2. QED
    BY <1>3, <1>u, <1>g, <2>1 DEF Refill, Leave
<1>4. CASE Lock(t)
  BY <1>4, <1>t, <1>l, <1>m DEF Lock
<1>5. CASE Upsert(t)
  BY <1>5, <1>l, <1>m, <1>u DEF Upsert, Leave
<1>6. CASE Store(t)
  BY <1>6, <1>u DEF Store, Leave
<1>7. CASE SelectForUpdate(t)
  BY <1>7, <1>l, <1>m, <1>u DEF SelectForUpdate, Leave
<1>8. CASE Insert(t)
  BY <1>8, <1>l, <1>m, <1>u DEF Insert, Leave
<1>9. CASE Expose(t)
  BY <1>9, <1>l, <1>m, <1>u DEF Expose, Leave
<1>10. CASE Commit(t)
  BY <1>10, <1>u DEF Commit, Leave
<1>11. CASE Uncache(t)
  BY <1>11, <1>l, <1>m, <1>u DEF Uncache, Leave
<1>12. CASE Drop(t)
  BY <1>12, <1>u DEF Drop, Leave
<1>13. QED
  BY <1>1, <1>2, <1>3, <1>4, <1>5, <1>6, <1>7, <1>8, <1>9, <1>10, <1>11, <1>12 DEF Step

\* What is written to the table and to the cache is a value.
LEMMA StepWrites ==
  ASSUME TypeInv, NEW t \in Tasks, Step(t)
  PROVE  /\ row' \in Values /\ cache' \in Values /\ writer' \in Tasks \cup {Nobody}
         /\ calls' = calls
         /\ done' \in SUBSET (1 .. MaxCalls) /\ committed' \in SUBSET Values
<1>1. /\ row \in Values /\ cache \in Values /\ writer \in Tasks \cup {Nobody}
      /\ done \in SUBSET (1 .. MaxCalls) /\ committed \in SUBSET Values
  BY DEF TypeInv, TypeOK
<1>2. ~ At(t, "idle")
  BY StepMoves
<1>3. New(t) \in Values /\ task[t].call \in 1 .. MaxCalls /\ Absent \in Values
  BY <1>2, NewValue, Constants DEF TypeInv, Numbered
<1>4. CASE Read(t) \/ Query(t) \/ Refill(t) \/ Lock(t) \/ SelectForUpdate(t)
  BY <1>1, <1>3, <1>4 DEF Read, Query, Refill, Lock, SelectForUpdate, history
<1>5. CASE Insert(t) \/ Expose(t) \/ Uncache(t)
  BY <1>1, <1>3, <1>5 DEF Insert, Expose, Uncache, history
<1>6. CASE Upsert(t) \/ Store(t) \/ Commit(t) \/ Drop(t)
  BY <1>1, <1>3, <1>6 DEF Upsert, Store, Commit, Drop
<1>7. QED
  BY <1>4, <1>5, <1>6 DEF Step

\* A new call starts its operation at the first stage.
LEMMA CallMoves ==
  ASSUME TypeInv, NEW t \in Tasks, NEW op \in Operations, Call(t, op)
  PROVE  /\ Started(op) \in TaskRecord /\ Started(op).call \in 1 .. MaxCalls
         /\ Started(op).stage \in {"read", "lock", "select", "uncache"}
         /\ Started(op).op = op /\ Started(op).base = Absent
<1>1. FirstStage(op) \in {"read", "lock", "select", "uncache"}
  BY DEF FirstStage, Operations
<1>2. calls + 1 \in 1 .. MaxCalls /\ 0 \in 0 .. MaxRetries - 1
  BY ConstantsAssumption DEF Call, TypeInv, TypeOK
<1>3. QED
  BY <1>1, <1>2, Constants DEF Started, TaskRecord, TaskStages

\* Every step keeps the types.
LEMMA TypeStep ==
  ASSUME TypeInv, [Next]_vars
  PROVE  TypeInv'
<1> USE DEF TypeInv
<1>u. use' = use /\ use \in Uses
  BY DEF Next, vars, TypeOK
<1>t. task \in [Tasks -> TaskRecord]
  BY TaskIsRecord
<1>1. ASSUME NEW t \in Tasks, Step(t) PROVE TypeInv'
  <2>1. task' \in [Tasks -> TaskRecord] /\ Numbered'
    BY <1>1, StepMoves, StepWrites, TaskKeepsType
  <2>2. QED
    BY <1>u, <1>1, <2>1, StepMoves, StepWrites DEF TypeOK, TaskRecord, TaskStages
<1>2. ASSUME NEW t \in Tasks, NEW op \in use.ops, Call(t, op) PROVE TypeInv'
  <2>1. op \in Operations
    BY <1>u, ConstantsAssumption DEF UseOK
  <2>2. /\ Started(op) \in TaskRecord /\ Started(op).call \in 1 .. MaxCalls
        /\ task' = [task EXCEPT ![t] = Started(op)]
    BY <1>2, <2>1, CallMoves DEF Call
  <2>3. task' \in [Tasks -> TaskRecord] /\ Numbered'
    BY <1>t, <2>2 DEF Numbered, At
  <2>4. calls' \in 0 .. MaxCalls
    BY <1>2, ConstantsAssumption DEF Call, TypeOK
  <2>5. QED
    BY <1>u, <1>2, <2>3, <2>4 DEF Call, TypeOK, TaskRecord, TaskStages, history
<1>3. CASE Expire
  BY <1>u, <1>3, Constants DEF Expire, TypeOK, Numbered, At, history
<1>4. ASSUME NEW p \in Processes, Crash(p) PROVE TypeInv'
  <2>1. task' \in [Tasks -> TaskRecord] /\ Numbered'
    BY <1>t, <1>4, Constants DEF Crash, Numbered, At
  <2>2. lock' \in [Processes -> Tasks \cup {Nobody}] /\ writer' \in Tasks \cup {Nobody}
    BY <1>4 DEF Crash, TypeOK
  <2>3. QED
    BY <1>u, <1>4, <2>1, <2>2 DEF Crash, TypeOK, TaskRecord, TaskStages, history
<1>5. CASE UNCHANGED vars
  BY <1>5 DEF vars, history, TypeOK, Numbered, At
<1>6. QED
  BY <1>1, <1>2, <1>3, <1>4, <1>5 DEF Next

\* The first state: no call, and the row and the cache as they are left.
LEMMA InitTyped == Init => TypeInv
<1> SUFFICES ASSUME Init PROVE TypeInv
  OBVIOUS
<1>1. use \in Uses /\ First \in Values
  BY Constants DEF Init, First, Values
<1>2. task \in [Tasks -> TaskRecord]
  BY Constants DEF Init
<1>3. calls \in 0 .. MaxCalls
  BY ConstantsAssumption DEF Init
<1>4. Numbered
  BY Constants DEF Init, Numbered, At
<1>5. QED
  BY <1>1, <1>2, <1>3, <1>4 DEF Init, TypeInv, TypeOK, TaskRecord, TaskStages

\* Every variable keeps its type; in particular no update makes more than
\* MaxRetries attempts.
THEOREM TypeCorrect == Spec => []TypeOK
<1>1. Init => TypeInv
  BY InitTyped
<1>2. TypeInv /\ [Next]_vars => TypeInv'
  BY TypeStep
<1>3. TypeInv => TypeOK
  BY DEF TypeInv
<1>4. QED
  BY <1>1, <1>2, <1>3, PTL DEF Spec

\* The steps of get() and the lock lead to one of these stages.
LEMMA GetStages ==
  ASSUME TypeOK, NEW t \in Tasks, Read(t) \/ Query(t) \/ Refill(t) \/ Lock(t)
  PROVE  task'[t].stage \in {"idle", "read", "query", "refill", "lock", "upsert"}
<1>t. task \in [Tasks -> TaskRecord]
  BY TaskIsRecord
<1>v. cache \in Values /\ row \in Values /\ task[t].found \in Values
  BY <1>t DEF TypeOK, TaskRecord
<1>l. ASSUME Leave(t) PROVE task'[t].stage = "idle"
  BY <1>t, <1>l, Constants DEF Leave
<1>g. ASSUME NEW stage, Goto(t, stage) PROVE task'[t].stage = stage
  BY <1>t, <1>g DEF Goto, TaskRecord
<1>1. ASSUME NEW value \in Values, NEW text \in BOOLEAN, Got(t, value, text)
      PROVE  task'[t].stage \in {"idle", "read", "lock", "upsert"}
  <2>1. \A record : Moves(t, record) => task'[t] = record
    BY <1>t DEF Moves
  <2>2. task[t] \in TaskRecord
    BY <1>t
  <2>3. [task[t] EXCEPT !.stage = "lock", !.base = value].stage = "lock"
    BY <2>2 DEF TaskRecord
  <2>4. [task[t] EXCEPT !.stage = "upsert"].stage = "upsert"
    BY <2>2 DEF TaskRecord
  <2>5. [task[t] EXCEPT !.stage = "read", !.base = Absent,
                      !.attempt = task[t].attempt + 1].stage = "read"
    <3>1. ASSUME NEW r \in TaskRecord, NEW b, NEW n
          PROVE  [r EXCEPT !.stage = "read", !.base = b, !.attempt = n].stage = "read"
      BY DEF TaskRecord
    <3>2. QED
      BY <2>2, <3>1
  <2>6. QED
    <3>1. CASE Leave(t)
      BY <1>l, <3>1
    <3>2. CASE Moves(t, [task[t] EXCEPT !.stage = "lock", !.base = value])
      BY <2>1, <2>3, <3>2
    <3>3. CASE Moves(t, [task[t] EXCEPT !.stage = "upsert"])
      BY <2>1, <2>4, <3>3
    <3>4. CASE Moves(t, [task[t] EXCEPT !.stage = "read", !.base = Absent,
                                        !.attempt = task[t].attempt + 1])
      BY <2>1, <2>5, <3>4
    <3>5. QED
      BY <1>1, <3>1, <3>2, <3>3, <3>4, GotMoves
<1>2. CASE Read(t)
  BY <1>v, <1>g, <1>1, <1>2 DEF Read
<1>3. CASE Query(t)
  <2>1. CASE row = Absent /\ Got(t, row, FALSE)
    BY <1>v, <1>1, <2>1
  <2>2. CASE May("postgres") /\ Leave(t)
    BY <1>l, <2>2
  <2>3. CASE task' = [task EXCEPT ![t].stage = "refill", ![t].found = row]
    <3>1. [task[t] EXCEPT !.stage = "refill", !.found = row].stage = "refill"
      <4>1. ASSUME NEW r \in TaskRecord, NEW v
            PROVE  [r EXCEPT !.stage = "refill", !.found = v].stage = "refill"
        BY DEF TaskRecord
      <4>2. QED
        BY <1>t, <4>1
    <3>2. QED
      BY <1>t, <2>3, <3>1
  <2>4. QED
    BY <1>3, <2>1, <2>2, <2>3 DEF Query
<1>4. CASE Refill(t)
  BY <1>v, <1>l, <1>1, <1>4 DEF Refill
<1>5. CASE Lock(t)
  BY <1>g, <1>5 DEF Lock
<1>6. QED
  BY <1>2, <1>3, <1>4, <1>5
-----------------------------------------------------------------------------
(* Locks. *)

LockStages == {"read", "query", "refill", "upsert", "store"}
LocksOwned ==
  \A p \in Processes : lock[p] # Nobody =>
    use.processOf[lock[p]] = p /\ task[lock[p]].stage \in LockStages
WriterOwned == writer # Nobody => task[writer].stage \in {"expose", "commit"}

\* The two halves of LocksHaveOwners: set() and the transactions.
LEMMA OwnersSplit == LocksHaveOwners <=> LocksOwned /\ WriterOwned
BY DEF LocksHaveOwners, LocksOwned, WriterOwned, LockStages

\* A task that leaves gives its lock back; one that goes on may keep it in the
\* stages of set().
LEMMA LeaveKeepsLocks ==
  ASSUME TypeInv, LocksOwned, NEW t \in Tasks, use' = use, Leave(t)
  PROVE  LocksOwned'
BY ConstantsAssumption DEF LocksOwned, Leave, Unlocked, TypeInv, TypeOK

\* A task that goes on keeps its lock and must stay in set().
LEMMA MoveKeepsLocks ==
  ASSUME TypeInv, LocksOwned, NEW t \in Tasks, NEW record, use' = use,
         Moves(t, record),
         \/ lock' = Unlocked(t)
         \/ lock' = lock /\ (Holds(t) => record.stage \in LockStages)
  PROVE  LocksOwned'
<1>1. task \in [Tasks -> TaskRecord] /\ task'[t] = record
  BY TaskIsRecord DEF TypeInv, Moves
<1>2. \A u \in Tasks : u # t => task'[u] = task[u]
  BY <1>1 DEF Moves
<1>3. CASE lock' = Unlocked(t)
  BY <1>2, <1>3, ConstantsAssumption DEF LocksOwned, Unlocked, TypeInv, TypeOK
<1>4. CASE lock' = lock /\ (Holds(t) => record.stage \in LockStages)
  BY <1>1, <1>2, <1>4, ConstantsAssumption DEF LocksOwned, Holds, TypeInv, TypeOK
<1>5. QED
  BY <1>3, <1>4

\* What the caller of get() does keeps the locks with their owners.
LEMMA GotKeepsLocks ==
  ASSUME TypeInv, LocksOwned, NEW t \in Tasks, NEW value \in Values,
         NEW text \in BOOLEAN, Got(t, value, text), use' = use
  PROVE  LocksOwned'
<1>t. TypeOK /\ task[t] \in TaskRecord
  BY TaskIsRecord DEF TypeInv
<1>1. CASE Leave(t)
  BY <1>1, LeaveKeepsLocks
<1>2. CASE /\ ~ Holds(t) /\ lock' = lock
           /\ Moves(t, [task[t] EXCEPT !.stage = "lock", !.base = value])
  BY <1>2, MoveKeepsLocks
<1>3. CASE /\ Holds(t) /\ lock' = lock
           /\ Moves(t, [task[t] EXCEPT !.stage = "upsert"])
  <2>1. [task[t] EXCEPT !.stage = "upsert"].stage \in LockStages
    BY <1>t DEF TaskRecord, LockStages
  <2>2. QED
    BY <1>3, <2>1, MoveKeepsLocks
<1>4. CASE /\ Holds(t) /\ lock' = Unlocked(t)
           /\ Moves(t, [task[t] EXCEPT !.stage = "read", !.base = Absent,
                                       !.attempt = task[t].attempt + 1])
  BY <1>4, MoveKeepsLocks
<1>5. QED
  BY <1>t, <1>1, <1>2, <1>3, <1>4, GotMoves

\* So does a change of stage within set(), or without a lock.
LEMMA GotoKeepsLocks ==
  ASSUME TypeInv, LocksOwned, NEW t \in Tasks, NEW stage \in TaskStages,
         Goto(t, stage), lock' = lock, use' = use,
         stage \in LockStages \/ task[t].stage \notin LockStages
  PROVE  LocksOwned'
<1>t. TypeOK /\ task \in [Tasks -> TaskRecord]
  BY TaskIsRecord DEF TypeInv
<1>1. Moves(t, [task[t] EXCEPT !.stage = stage])
  BY <1>t, GotoMoves
<1>2. [task[t] EXCEPT !.stage = stage].stage = stage
  BY <1>t DEF TaskRecord
<1>3. Holds(t) => stage \in LockStages
  BY <1>t, ConstantsAssumption DEF Holds, LocksOwned, TypeOK, UseOK
<1>4. QED
  BY <1>1, <1>2, <1>3, MoveKeepsLocks

\* Every step of a task leaves the locks to tasks in set().
LEMMA StepKeepsLocks ==
  ASSUME TypeInv, LocksOwned, NEW t \in Tasks, Step(t), use' = use
  PROVE  LocksOwned'
<1>t. TypeOK /\ task \in [Tasks -> TaskRecord]
  BY TaskIsRecord DEF TypeInv
<1>l. ASSUME Leave(t) PROVE LocksOwned'
  BY <1>l, LeaveKeepsLocks
<1>g. ASSUME NEW stage \in LockStages, Goto(t, stage), lock' = lock
      PROVE  LocksOwned'
  BY <1>g, GotoKeepsLocks DEF LockStages, TaskStages
<1>h. ASSUME NEW stage \in TaskStages, Goto(t, stage), lock' = lock,
             task[t].stage \notin LockStages
      PROVE  LocksOwned'
  BY <1>h, GotoKeepsLocks
<1>v. cache \in Values /\ row \in Values /\ task[t].found \in Values
  BY <1>t DEF TypeOK, TaskRecord
<1>1. CASE Read(t)
  <2>1. CASE Goto(t, "query") /\ lock' = lock
    BY <1>g, <2>1 DEF LockStages
  <2>2. CASE Got(t, cache, FALSE)
    BY <1>v, <2>2, GotKeepsLocks
  <2>3. QED
    BY <1>1, <2>1, <2>2 DEF Read
<1>2. CASE Query(t)
  <2>1. CASE task' = [task EXCEPT ![t].stage = "refill", ![t].found = row] /\ lock' = lock
    <3>1. Moves(t, [task[t] EXCEPT !.stage = "refill", !.found = row])
      BY <1>t, <1>v, <2>1 DEF Moves, TaskRecord, TaskStages
    <3>2. [task[t] EXCEPT !.stage = "refill", !.found = row].stage \in LockStages
      BY <1>t DEF TaskRecord, LockStages
    <3>3. QED
      BY <2>1, <3>1, <3>2, MoveKeepsLocks
  <2>2. CASE Got(t, row, FALSE)
    BY <1>v, <2>2, GotKeepsLocks
  <2>3. QED
    BY <1>2, <1>l, <2>1, <2>2 DEF Query
<1>3. CASE Refill(t)
  BY <1>3, <1>l, <1>v, GotKeepsLocks DEF Refill
<1>4. CASE Lock(t)
  <2>1. PICK stage \in {"upsert", "read"} : Goto(t, stage)
    BY <1>4 DEF Lock
  <2>2. task'[t].stage \in LockStages
    BY <1>t, <2>1 DEF Goto, TaskRecord, LockStages
  <2>3. \A u \in Tasks : u # t => task'[u] = task[u]
    BY <1>t, <2>1 DEF Goto
  <2>4. lock' = [lock EXCEPT ![use.processOf[t]] = t]
    BY <1>4 DEF Lock
  <2>5. lock \in [Processes -> Tasks \cup {Nobody}]
    BY <1>t DEF TypeOK
  <2>6. ASSUME NEW p \in Processes, lock'[p] # Nobody
        PROVE  use'.processOf[lock'[p]] = p /\ task'[lock'[p]].stage \in LockStages
    <3>1. CASE p = use.processOf[t]
      BY <2>2, <2>4, <2>5, <3>1
    <3>2. CASE p # use.processOf[t]
      <4>1. lock'[p] = lock[p] /\ lock[p] \in Tasks
        BY <2>4, <2>5, <2>6, <3>2
      <4>2. lock[p] # t
        BY <2>6, <3>2, <4>1 DEF LocksOwned
      <4>3. QED
        BY <2>3, <2>6, <4>1, <4>2 DEF LocksOwned
    <3>3. QED
      BY <3>1, <3>2
  <2>7. QED
    BY <2>6 DEF LocksOwned
<1>5. CASE Upsert(t)
  BY <1>5, <1>l, <1>g DEF Upsert, LockStages
<1>6. CASE Store(t) \/ Commit(t) \/ Drop(t)
  BY <1>6, <1>l DEF Store, Commit, Drop
<1>7. CASE SelectForUpdate(t)
  BY <1>7, <1>l, <1>h DEF SelectForUpdate, At, LockStages, TaskStages
<1>8. CASE Insert(t)
  BY <1>8, <1>l, <1>h DEF Insert, At, LockStages, TaskStages
<1>9. CASE Expose(t)
  BY <1>9, <1>l, <1>h DEF Expose, At, LockStages, TaskStages
<1>10. CASE Uncache(t)
  BY <1>10, <1>l, <1>h DEF Uncache, At, LockStages, TaskStages
<1>11. QED
  BY <1>1, <1>2, <1>3, <1>4, <1>5, <1>6, <1>7, <1>8, <1>9, <1>10 DEF Step

\* Only the task that has the uncommitted row is in the transaction's last
\* stages, and a step of another task leaves it there.
LEMMA StepKeepsWriter ==
  ASSUME TypeInv, WriterOwned, NEW t \in Tasks, Step(t)
  PROVE  WriterOwned'
<1>t. TypeOK /\ task \in [Tasks -> TaskRecord]
  BY TaskIsRecord DEF TypeInv
<1>1. ASSUME writer' # Nobody, writer' # t PROVE WriterOwned'
  <2>1. writer' = writer /\ writer \in Tasks
    BY <1>1, <1>t DEF Step, Read, Query, Refill, Lock, Upsert, Store, SelectForUpdate,
       Insert, Expose, Commit, Uncache, Drop, TypeOK
  <2>2. task'[writer] = task[writer]
    BY <1>1, <1>t, <2>1, StepMoves DEF Leave, Moves
  <2>3. QED
    BY <1>1, <2>1, <2>2 DEF WriterOwned
<1>2. ASSUME writer' = t PROVE task'[t].stage \in {"expose", "commit"}
  <2>1. CASE Insert(t)
    BY <1>2, <1>t, <2>1, ConstantsAssumption DEF Insert, Goto, TaskRecord, At, WriterOwned
  <2>2. CASE Expose(t)
    BY <1>2, <1>t, <2>2, ConstantsAssumption DEF Expose, Goto, TaskRecord
  <2>3. CASE ~ Insert(t) /\ ~ Expose(t)
    BY <1>2, <2>3, ConstantsAssumption DEF Step, Read, Query, Refill, Lock, Upsert, Store,
       SelectForUpdate, Commit, Uncache, Drop, WriterOwned, At
  <2>4. QED
    BY <2>1, <2>2, <2>3
<1>3. QED
  BY <1>1, <1>2 DEF WriterOwned

\* Every step of the system does.
LEMMA OwnersStep ==
  ASSUME TypeInv, LocksHaveOwners, [Next]_vars
  PROVE  LocksHaveOwners'
<1>o. LocksOwned /\ WriterOwned
  BY OwnersSplit
<1>t. TypeOK /\ task \in [Tasks -> TaskRecord]
  BY TaskIsRecord DEF TypeInv
<1>u. use' = use
  BY DEF Next, vars
<1>1. ASSUME NEW t \in Tasks, Step(t) PROVE LocksOwned' /\ WriterOwned'
  BY <1>o, <1>u, <1>1, StepKeepsLocks, StepKeepsWriter
<1>2. ASSUME NEW t \in Tasks, NEW op \in use.ops, Call(t, op)
      PROVE  LocksOwned' /\ WriterOwned'
  <2>1. /\ task[t].stage = "idle" /\ UNCHANGED <<lock, writer>>
        /\ \A u \in Tasks : u # t => task'[u] = task[u]
    BY <1>t, <1>2 DEF Call, At
  <2>2. LocksOwned'
    BY <1>o, <1>t, <1>u, <2>1 DEF LocksOwned, LockStages, TypeOK
  <2>3. WriterOwned'
    BY <1>o, <1>t, <2>1 DEF WriterOwned, TypeOK
  <2>4. QED
    BY <2>2, <2>3
<1>3. ASSUME Expire PROVE LocksOwned' /\ WriterOwned'
  BY <1>o, <1>u, <1>3 DEF Expire, LocksOwned, WriterOwned
<1>4. ASSUME NEW p \in Processes, Crash(p) PROVE LocksOwned' /\ WriterOwned'
  <2>1. LocksOwned'
    BY <1>o, <1>t, <1>u, <1>4 DEF Crash, LocksOwned, TypeOK
  <2>2. WriterOwned'
    BY <1>o, <1>t, <1>4 DEF Crash, WriterOwned, TypeOK
  <2>3. QED
    BY <2>1, <2>2
<1>5. ASSUME UNCHANGED vars PROVE LocksOwned' /\ WriterOwned'
  BY <1>o, <1>u, <1>5 DEF vars, LocksOwned, WriterOwned
<1>6. LocksOwned' /\ WriterOwned'
  BY <1>1, <1>2, <1>3, <1>4, <1>5 DEF Next
<1>7. QED
  BY <1>6 DEF LocksHaveOwners, LocksOwned, WriterOwned, LockStages

\* The types and the owners together.
BaseInv == TypeInv /\ LocksHaveOwners

\* BaseInv is an invariant, on which the other proofs build.
THEOREM BaseInvariance == Spec => []BaseInv
<1>1. Init => LocksHaveOwners
  BY DEF Init, LocksHaveOwners
<1>2. Init => TypeInv
  BY InitTyped
<1>3. BaseInv /\ [Next]_vars => BaseInv'
  BY TypeStep, OwnersStep DEF BaseInv
<1>4. QED
  BY <1>1, <1>2, <1>3, PTL DEF Spec, BaseInv

\* A lock, and the uncommitted row, belong to a task in the middle of its work:
\* no failure and no crash leaves them behind.
THEOREM OwnersWork == Spec => []LocksHaveOwners
<1>1. BaseInv => LocksHaveOwners
  BY DEF BaseInv
<1>2. QED
  BY <1>1, BaseInvariance, PTL
-----------------------------------------------------------------------------
(* The cache. *)

\* Who is about to fill the cache has written the row; and without pessimistic
\* updates nobody fills it before.
StoresCommitted ==
  "locked" \notin use.ops =>
    \A t \in Tasks :
      /\ task[t].stage \notin {"select", "insert", "expose", "commit"}
      /\ At(t, "store") => New(t) \in committed

CacheInv == StoresCommitted /\ CacheWasCommitted

\* Every step caches nothing but what was committed.
LEMMA CacheStep ==
  ASSUME TypeInv, CacheInv, [Next]_vars
  PROVE  CacheInv'
<1>u. use' = use /\ use \in Uses
  BY DEF Next, vars, TypeInv, TypeOK
<1>t. TypeOK /\ task \in [Tasks -> TaskRecord]
  BY TaskIsRecord DEF TypeInv
<1> SUFFICES ASSUME "locked" \notin use.ops PROVE CacheInv'
  BY <1>u DEF CacheInv, StoresCommitted, CacheWasCommitted
<1>s. \A t \in Tasks :
        /\ task[t].stage \notin {"select", "insert", "expose", "commit"}
        /\ task[t].stage = "store" => New(t) \in committed
  BY DEF CacheInv, StoresCommitted, At
<1>c. cache # Absent => cache \in committed
  BY DEF CacheInv, CacheWasCommitted
\* What a step has to do: grow the set of rows, fill the cache from it, and
\* enter "store" with a committed value.
<1>k. ASSUME committed \subseteq committed',
             cache' = Absent \/ cache' = cache \/ cache' \in committed',
             \A t \in Tasks : \/ task'[t] = task[t]
                               \/ /\ task'[t].stage \notin {"select", "insert", "expose", "commit"}
                                  /\ task'[t].stage = "store" => New(t)' \in committed'
      PROVE  CacheInv'
  <2>1. \A t \in Tasks : task'[t] = task[t] => New(t)' = New(t)
    BY DEF New
  <2>2. StoresCommitted'
    BY <1>k, <1>s, <2>1 DEF StoresCommitted, At
  <2>3. CacheWasCommitted'
    BY <1>k, <1>c DEF CacheWasCommitted
  <2>4. QED
    BY <2>2, <2>3 DEF CacheInv
<1>1. ASSUME NEW t \in Tasks, Step(t) PROVE CacheInv'
  <2>o. \A u \in Tasks : u # t => task'[u] = task[u]
    BY <1>t, <1>1, StepMoves DEF Leave, Moves
  <2>1. CASE Read(t) \/ Query(t) \/ Refill(t) \/ Lock(t)
    <3>1. committed' = committed /\ (cache' = cache \/ cache' = Absent)
      BY <2>1 DEF Read, Query, Refill, Lock, history
    <3>2. task'[t].stage \in {"idle", "read", "query", "refill", "lock", "upsert"}
      BY <1>t, <2>1, GetStages
    <3>3. QED
      BY <1>k, <2>o, <3>1, <3>2
  <2>2. CASE Upsert(t)
    <3>1. /\ committed \subseteq committed' /\ cache' = cache
          /\ \/ Goto(t, "store") /\ New(t) \in committed'
             \/ Leave(t)
      BY <2>2 DEF Upsert
    <3>2. CASE Goto(t, "store") /\ New(t) \in committed'
      <4>1. task'[t] = [task[t] EXCEPT !.stage = "store"]
        BY <1>t, <3>2 DEF Goto
      <4>2. New(t)' = New(t) /\ task'[t].stage = "store"
        BY <1>t, <4>1 DEF New, TaskRecord
      <4>3. QED
        BY <1>k, <2>o, <3>1, <3>2, <4>2
    <3>3. CASE Leave(t)
      <4>1. task'[t].stage = "idle"
        BY <1>t, <3>3, Constants DEF Leave
      <4>2. QED
        BY <1>k, <2>o, <3>1, <4>1
    <3>4. QED
      BY <3>1, <3>2, <3>3
  <2>3. CASE Store(t) \/ Uncache(t) \/ Drop(t)
    <3>1. committed \subseteq committed'
      BY <2>3 DEF Store, Uncache, Drop, history
    <3>2. cache' = Absent \/ cache' = cache \/ cache' \in committed'
      BY <1>s, <2>3, <3>1 DEF Store, Uncache, Drop, At
    <3>3. task'[t].stage \in {"idle", "drop"}
      BY <1>t, <2>3, Constants DEF Store, Uncache, Drop, Leave, Goto, TaskRecord
    <3>4. QED
      BY <1>k, <2>o, <3>1, <3>2, <3>3
  <2>4. CASE SelectForUpdate(t) \/ Insert(t) \/ Expose(t) \/ Commit(t)
    BY <1>s, <2>4 DEF SelectForUpdate, Insert, Expose, Commit, At
  <2>5. QED
    BY <1>1, <2>1, <2>2, <2>3, <2>4 DEF Step
<1>2. ASSUME NEW t \in Tasks, NEW op \in use.ops, Call(t, op) PROVE CacheInv'
  <2>1. op \in Operations /\ op # "locked"
    BY <1>u, ConstantsAssumption DEF UseOK
  <2>2. /\ task' = [task EXCEPT ![t] = Started(op)]
        /\ UNCHANGED <<cache, committed>>
    BY <1>2 DEF Call, history
  <2>3. Started(op).stage \in {"read", "lock", "uncache"}
    BY <2>1 DEF Started, FirstStage, Operations
  <2>4. \A u \in Tasks : task'[u] = task[u] \/ task'[u].stage \in {"read", "lock", "uncache"}
    BY <1>t, <2>2, <2>3
  <2>5. QED
    BY <1>k, <2>2, <2>4
<1>3. CASE Expire
  BY <1>k, <1>3 DEF Expire, history
<1>4. ASSUME NEW p \in Processes, Crash(p) PROVE CacheInv'
  <2>1. \A u \in Tasks : task'[u] = task[u] \/ task'[u].stage = "idle"
    BY <1>4, Constants DEF Crash
  <2>2. UNCHANGED <<cache, committed>>
    BY <1>4 DEF Crash, history
  <2>3. QED
    BY <1>k, <2>1, <2>2
<1>5. CASE UNCHANGED vars
  BY <1>k, <1>5 DEF vars, history
<1>6. QED
  BY <1>1, <1>2, <1>3, <1>4, <1>5 DEF Next

\* A readable cache entry was a row once, unless somebody uses the pessimistic
\* update.
THEOREM CacheIsCommitted == Spec => []CacheWasCommitted
<1>1. Init => CacheInv
  BY Constants DEF Init, CacheInv, StoresCommitted, CacheWasCommitted, At
<1>2. TypeInv /\ CacheInv /\ [Next]_vars => CacheInv'
  BY CacheStep
<1>3. BaseInv => TypeInv
  BY DEF BaseInv
<1>4. CacheInv => CacheWasCommitted
  BY DEF CacheInv
<1>5. QED
  BY <1>1, <1>2, <1>3, <1>4, BaseInvariance, PTL DEF Spec

-----------------------------------------------------------------------------
(***************************************************************************)
(* Optimistic locking works within one process: as long as the key exists  *)
(* and nobody writes it without a version, no update that returned is      *)
(* lost and versions never fall, whatever fails, for any tasks and bounds. *)
(*                                                                         *)
(* It is not obvious, for the version is compared with the cache, which    *)
(* may be behind the table: an update whose broadcast to the cache failed  *)
(* is in the table only, and the next one replaces it.  But that update    *)
(* raised; what returned is in the cache as well.                          *)
(***************************************************************************)

Writes(t) == task[t].stage \in {"upsert", "store"}

\* Table and cache hold what returned; the cache is at most one update behind.
Current ==
  /\ row.version >= 1 /\ done \subseteq row.has
  /\ cache # Absent =>
       /\ cache.version >= 1 /\ cache.version <= row.version
       /\ row.version <= cache.version + 1
       /\ done \subseteq cache.has

\* What a task works on is not newer than the row and the cache.  Unless it is
\* older than both, in which case the comparison fails, it has what returned.
BaseFine(t) ==
  LET base == task[t].base IN
  /\ base.version <= row.version
  /\ cache # Absent => base.version <= cache.version
  /\ \/ done \subseteq base.has
     \/ base.version < row.version /\ (cache # Absent => base.version < cache.version)

\* The stages of get() and atomic_update(): one who writes has the lock, and has
\* compared versions with a value that is still the latest.
StageFine(t) ==
  /\ task[t].stage \in {"idle", "read", "query", "refill", "lock", "upsert", "store"}
  /\ task[t].stage = "lock" \/ Holds(t) => task[t].base.version >= 1
  /\ task[t].stage = "refill" /\ Holds(t) => task[t].found = row
  /\ Writes(t) =>
       /\ Holds(t)
       /\ done \subseteq task[t].base.has
       /\ cache # Absent => cache.version = task[t].base.version
  /\ task[t].stage = "upsert" => row.version <= task[t].base.version + 1
  /\ task[t].stage = "store" => row = New(t)

\* Nobody works on a later value than the task that writes.
WriterLeads ==
  \A t, u \in Tasks : Writes(u) => task[t].base.version <= task[u].base.version

UpdateInv ==
  /\ Current /\ WriterLeads
  /\ \A t \in Tasks : BaseFine(t) /\ StageFine(t)
-----------------------------------------------------------------------------
\* All tasks share one lock.
LEMMA OneHolder ==
  ASSUME Disciplined, NEW t \in Tasks, NEW u \in Tasks, Holds(t), Holds(u)
  PROVE  t = u
BY DEF Disciplined, Holds

\* Versions are numbers.
LEMMA ValueTypes ==
  ASSUME TypeOK
  PROVE  /\ row.version \in Nat /\ cache.version \in Nat
         /\ row \in Values /\ cache \in Values
         /\ \A t \in Tasks : task[t].base \in Values /\ task[t].base.version \in Nat
BY TaskIsRecord DEF TypeOK, Values, TaskRecord

\* A step of a task that leaves the row alone, and the cache too or clears it,
\* and after which the task is as it should be.
LEMMA QuietStep ==
  ASSUME TypeInv, UpdateInv, NEW t \in Tasks,
         row' = row, done' = done, cache' = cache \/ cache' = Absent,
         \A u \in Tasks : u # t => task'[u] = task[u] /\ (Holds(u)' => Holds(u)),
         \A u \in Tasks : u # t /\ Writes(u) => Holds(u)',
         BaseFine(t)', StageFine(t)',
         \A u \in Tasks : Writes(u) /\ u # t => task'[t].base.version <= task[u].base.version,
         Writes(t)' => \A u \in Tasks : task'[u].base.version <= task'[t].base.version
  PROVE  UpdateInv'
<1>1. Current'
  BY DEF UpdateInv, Current
<1>2. \A u \in Tasks : BaseFine(u)'
  BY DEF UpdateInv, BaseFine
<1>3. ASSUME NEW u \in Tasks, u # t PROVE StageFine(u)'
  <2>1. StageFine(u) /\ task'[u] = task[u] /\ (Holds(u)' => Holds(u))
        /\ (Writes(u) => Holds(u)')
    BY <1>3 DEF UpdateInv
  <2>2. New(u)' = New(u) /\ (Writes(u)' <=> Writes(u))
    BY <2>1 DEF New, Writes
  <2>3. QED
    BY <2>1, <2>2 DEF StageFine
<1>4. WriterLeads'
  <2>1. ASSUME NEW v \in Tasks, NEW u \in Tasks, Writes(u)'
        PROVE  task'[v].base.version <= task'[u].base.version
    <3>1. CASE u = t
      BY <2>1, <3>1
    <3>2. CASE u # t
      <4>1. task'[u] = task[u] /\ Writes(u)
        BY <2>1, <3>2 DEF Writes
      <4>2. CASE v = t
        BY <3>2, <4>1, <4>2
      <4>3. CASE v # t
        BY <4>1, <4>3 DEF UpdateInv, WriterLeads
      <4>4. QED
        BY <4>2, <4>3
    <3>3. QED
      BY <3>1, <3>2
  <2>2. QED
    BY <2>1 DEF WriterLeads
<1>5. QED
  BY <1>1, <1>2, <1>3, <1>4 DEF UpdateInv

\* A task outside a call is as it should be.
LEMMA IdleIsFine ==
  ASSUME UpdateInv, TypeInv, NEW t \in Tasks, task'[t] = Idle, ~ Holds(t)',
         row' = row, done' = done, cache' = cache \/ cache' = Absent
  PROVE  BaseFine(t)' /\ StageFine(t)' /\ ~ Writes(t)' /\ task'[t].base.version = 0
<1>1. task'[t].base = Absent /\ task'[t].stage = "idle" /\ Absent.version = 0
  BY Constants DEF Absent
<1>2. BaseFine(t)'
  BY <1>1, ValueTypes DEF BaseFine, UpdateInv, Current, TypeInv
<1>3. StageFine(t)' /\ ~ Writes(t)'
  BY <1>1 DEF StageFine, Writes
<1>4. QED
  BY <1>1, <1>2, <1>3

\* Giving the lock back takes it from nobody else.
LEMMA UnlockShape ==
  ASSUME TypeInv, NEW t \in Tasks, lock' = Unlocked(t), use' = use
  PROVE  ~ Holds(t)' /\ \A u \in Tasks : u # t => (Holds(u)' <=> Holds(u))
<1>1. /\ lock \in [Processes -> Tasks \cup {Nobody}]
      /\ use.processOf \in [Tasks -> Processes]
  BY ConstantsAssumption DEF TypeInv, TypeOK, UseOK
<1>2. \A p \in Processes : lock'[p] = IF lock[p] = t THEN Nobody ELSE lock[p]
  BY DEF Unlocked
<1>3. \A u \in Tasks : use'.processOf[u] \in Processes /\ Nobody # u
  BY <1>1, ConstantsAssumption
<1>4. QED
  BY <1>1, <1>2, <1>3 DEF Holds

\* A call that returns or raises gives its own lock back, and no other.
LEMMA LeaveShape ==
  ASSUME TypeInv, NEW t \in Tasks, Leave(t), use' = use
  PROVE  /\ task'[t] = Idle /\ ~ Holds(t)'
         /\ \A u \in Tasks : u # t => task'[u] = task[u] /\ (Holds(u)' <=> Holds(u))
<1>1. task \in [Tasks -> TaskRecord]
  BY TaskIsRecord DEF TypeInv
<1>2. task' = [task EXCEPT ![t] = Idle] /\ lock' = Unlocked(t)
  BY DEF Leave
<1>3. QED
  BY <1>1, <1>2, UnlockShape

\* A call that ends without a write does no harm.
LEMMA LeaveIsQuiet ==
  ASSUME TypeInv, UpdateInv, NEW t \in Tasks, Leave(t), use' = use,
         row' = row, done' = done, cache' = cache \/ cache' = Absent
  PROVE  UpdateInv'
<1>1. /\ task'[t] = Idle /\ ~ Holds(t)'
      /\ \A u \in Tasks : u # t => task'[u] = task[u] /\ (Holds(u)' <=> Holds(u))
  BY LeaveShape
<1>2. BaseFine(t)' /\ StageFine(t)' /\ ~ Writes(t)' /\ task'[t].base.version = 0
  BY <1>1, IdleIsFine
<1>3. \A u \in Tasks : Writes(u) => Holds(u)
  BY DEF UpdateInv, StageFine
<1>4. \A u \in Tasks : 0 <= task[u].base.version
  BY ValueTypes DEF TypeInv
<1>5. QED
  BY <1>1, <1>2, <1>3, <1>4, QuietStep

\* The same for a task that goes on with its lock, if the task is as it should
\* be; what is new for the others is the base it works on.
LEMMA MoveIsQuiet ==
  ASSUME TypeInv, UpdateInv, NEW t \in Tasks, NEW record, Moves(t, record),
         use' = use, lock' = lock,
         row' = row, done' = done, cache' = cache \/ cache' = Absent,
         BaseFine(t)', StageFine(t)',
         \A u \in Tasks : Writes(u) /\ u # t => record.base.version <= task[u].base.version,
         record.stage \in {"upsert", "store"} =>
           \A u \in Tasks : task'[u].base.version <= record.base.version
  PROVE  UpdateInv'
<1>1. task \in [Tasks -> TaskRecord]
  BY TaskIsRecord DEF TypeInv
<1>2. task'[t] = record /\ \A u \in Tasks : u # t => task'[u] = task[u]
  BY <1>1 DEF Moves
<1>3. \A u \in Tasks : Holds(u)' <=> Holds(u)
  BY DEF Holds
<1>4. \A u \in Tasks : Writes(u) => Holds(u)
  BY DEF UpdateInv, StageFine
<1>5. Writes(t)' => \A u \in Tasks : task'[u].base.version <= task'[t].base.version
  BY <1>2 DEF Writes
<1>6. QED
  BY <1>2, <1>3, <1>4, <1>5, QuietStep

\* What the caller of get() makes of a value: from the cache, or, with the lock,
\* from a row that nobody can have changed.
LEMMA GotKeeps ==
  ASSUME TypeInv, UpdateInv, Disciplined, NEW t \in Tasks, NEW value \in Values,
         NEW text \in BOOLEAN, Got(t, value, text), value.version >= 1,
         use' = use, row' = row, done' = done,
         ~ text => value = cache /\ cache' = cache /\ cache # Absent,
         text => cache' = Absent /\ (Holds(t) => value = row)
  PROVE  UpdateInv'
<1>t. TypeOK /\ task \in [Tasks -> TaskRecord]
  BY TaskIsRecord DEF TypeInv
<1>n. /\ row.version \in Nat /\ cache.version \in Nat /\ Absent.version = 0
      /\ \A u \in Tasks : task[u].base.version \in Nat
  BY <1>t, ValueTypes DEF Absent
<1>w. \A u \in Tasks : Writes(u) => Holds(u) /\ (cache # Absent => cache.version = task[u].base.version)
  BY DEF UpdateInv, StageFine
<1>1. CASE Leave(t)
  BY <1>1, LeaveIsQuiet
<1>2. CASE /\ ~ Holds(t) /\ ~ text /\ lock' = lock
           /\ Moves(t, [task[t] EXCEPT !.stage = "lock", !.base = value])
  <2>1. /\ task'[t] = [task[t] EXCEPT !.stage = "lock", !.base = value]
        /\ task'[t].base = cache /\ task'[t].stage = "lock"
    BY <1>t, <1>2 DEF Moves, TaskRecord
  <2>2. BaseFine(t)'
    BY <1>2, <1>n, <2>1 DEF BaseFine, UpdateInv, Current
  <2>3. StageFine(t)'
    BY <1>2, <2>1 DEF StageFine, Writes, Holds
  <2>4. \A u \in Tasks : Writes(u) /\ u # t => cache.version <= task[u].base.version
    BY <1>2, <1>w, <1>n
  <2>5. QED
    BY <1>2, <2>1, <2>2, <2>3, <2>4, MoveIsQuiet
<1>3. CASE /\ Holds(t) /\ lock' = lock
           /\ value = Absent \/ value.version = task[t].base.version
           /\ Moves(t, [task[t] EXCEPT !.stage = "upsert"])
  <2>1. /\ task'[t] = [task[t] EXCEPT !.stage = "upsert"]
        /\ task'[t].base = task[t].base /\ task'[t].stage = "upsert"
        /\ \A u \in Tasks : task'[u].base = task[u].base
    BY <1>t, <1>3 DEF Moves, TaskRecord
  <2>2. value.version = task[t].base.version
    BY <1>3, <1>n
  <2>3. /\ done \subseteq task[t].base.has
        /\ row.version <= task[t].base.version + 1
        /\ \A u \in Tasks : task[u].base.version <= task[t].base.version
        /\ cache' # Absent => cache'.version = task[t].base.version
    <3>1. CASE text
      BY <1>3, <1>n, <2>2, <3>1 DEF UpdateInv, BaseFine
    <3>2. CASE ~ text
      BY <1>3, <1>n, <2>2, <3>2 DEF UpdateInv, BaseFine, Current
    <3>3. QED
      BY <3>1, <3>2
  <2>4. BaseFine(t)'
    BY <2>1, <2>3 DEF BaseFine, UpdateInv
  <2>5. StageFine(t)'
    BY <1>3, <1>n, <2>1, <2>2, <2>3 DEF StageFine, Writes, Holds
  <2>6. \A u \in Tasks : Writes(u) => u = t
    BY <1>3, <1>w, OneHolder
  <2>7. QED
    BY <1>3, <2>1, <2>3, <2>4, <2>5, <2>6, MoveIsQuiet
<1>4. CASE /\ Holds(t) /\ lock' = Unlocked(t)
           /\ Moves(t, [task[t] EXCEPT !.stage = "read", !.base = Absent,
                                       !.attempt = task[t].attempt + 1])
  <2>1. /\ task'[t].base = Absent /\ task'[t].stage = "read"
        /\ \A u \in Tasks : u # t => task'[u] = task[u]
    BY <1>t, <1>4 DEF Moves, TaskRecord
  <2>2. ~ Holds(t)' /\ \A u \in Tasks : u # t => (Holds(u)' <=> Holds(u))
    BY <1>4, UnlockShape
  <2>3. BaseFine(t)'
    BY <1>n, <2>1 DEF BaseFine, UpdateInv, Current
  <2>4. StageFine(t)' /\ ~ Writes(t)'
    BY <2>1, <2>2 DEF StageFine, Writes
  <2>5. cache' = cache \/ cache' = Absent
    OBVIOUS
  <2>6. \A u \in Tasks : task'[t].base.version <= task[u].base.version
    BY <1>n, <2>1
  <2>7. QED
    BY <1>w, <2>1, <2>2, <2>3, <2>4, <2>5, <2>6, QuietStep
<1>5. QED
  BY <1>t, <1>1, <1>2, <1>3, <1>4, GotMoves

\* A task may change its stage within get() without its lock.
LEMMA StageMoves ==
  ASSUME TypeInv, UpdateInv, NEW t \in Tasks, NEW record, Moves(t, record),
         use' = use, lock' = lock, UNCHANGED <<row, done, cache>>,
         record.base = task[t].base, record.stage \in {"query", "refill"},
         record.stage = "refill" => record.found = row, task[t].stage # "lock"
  PROVE  UpdateInv'
<1>1. task'[t] = record
  BY TaskIsRecord DEF TypeInv, Moves
<1>2. BaseFine(t)'
  BY <1>1 DEF BaseFine, UpdateInv
<1>3. StageFine(t)'
  BY <1>1 DEF StageFine, UpdateInv, Writes, Holds
<1>4. \A u \in Tasks : Writes(u) => record.base.version <= task[u].base.version
  BY DEF UpdateInv, WriterLeads
<1>5. QED
  BY <1>1, <1>2, <1>3, <1>4, MoveIsQuiet

\* The steps of get(), alone or in atomic_update.
LEMMA ReadKeeps ==
  ASSUME TypeInv, UpdateInv, Disciplined, NEW t \in Tasks, use' = use,
         Read(t) \/ Query(t) \/ Refill(t)
  PROVE  UpdateInv'
<1>t. TypeOK /\ task \in [Tasks -> TaskRecord]
  BY TaskIsRecord DEF TypeInv
<1>v. /\ row \in Values /\ cache \in Values /\ task[t].found \in Values
      /\ row.version >= 1 /\ row # Absent
      /\ cache # Absent => cache.version >= 1
  BY <1>t, ValueTypes DEF UpdateInv, Current, Absent, TaskRecord
<1>1. CASE Read(t)
  <2>1. CASE cache # Absent /\ Got(t, cache, FALSE)
    BY <1>1, <1>v, <2>1, GotKeeps DEF Read, history
  <2>2. CASE Goto(t, "query") /\ lock' = lock
    <3>1. Moves(t, [task[t] EXCEPT !.stage = "query"])
      BY <1>t, <2>2, GotoMoves DEF TaskStages
    <3>2. /\ [task[t] EXCEPT !.stage = "query"].stage = "query"
          /\ [task[t] EXCEPT !.stage = "query"].base = task[t].base
      BY <1>t DEF TaskRecord
    <3>3. QED
      BY <1>1, <2>2, <3>1, <3>2, StageMoves DEF Read, history, At
  <2>3. QED
    BY <1>1, <2>1, <2>2 DEF Read
<1>2. CASE Query(t)
  <2>1. CASE task' = [task EXCEPT ![t].stage = "refill", ![t].found = row] /\ lock' = lock
    <3>1. Moves(t, [task[t] EXCEPT !.stage = "refill", !.found = row])
      BY <1>t, <1>v, <2>1 DEF Moves, TaskRecord, TaskStages
    <3>2. /\ [task[t] EXCEPT !.stage = "refill", !.found = row].stage = "refill"
          /\ [task[t] EXCEPT !.stage = "refill", !.found = row].found = row
          /\ [task[t] EXCEPT !.stage = "refill", !.found = row].base = task[t].base
      BY <1>t DEF TaskRecord
    <3>3. QED
      BY <1>2, <2>1, <3>1, <3>2, StageMoves DEF Query, history, At
  <2>2. CASE Leave(t)
    BY <1>2, <2>2, LeaveIsQuiet DEF Query, history
  <2>3. QED
    BY <1>2, <1>v, <2>1, <2>2 DEF Query
<1>3. CASE Refill(t)
  <2>1. CASE cache' = Absent /\ Got(t, task[t].found, TRUE)
    <3>1. CASE Holds(t)
      <4>1. task[t].found = row
        BY <1>3, <3>1 DEF UpdateInv, StageFine, Refill, At
      <4>2. QED
        BY <1>3, <1>v, <2>1, <3>1, <4>1, GotKeeps DEF Refill, history
    <3>2. CASE ~ Holds(t)
      BY <1>3, <2>1, <3>2, LeaveIsQuiet DEF Got, Refill, history
    <3>3. QED
      BY <3>1, <3>2
  <2>2. CASE Leave(t)
    BY <1>3, <2>2, LeaveIsQuiet DEF Refill, history
  <2>3. QED
    BY <1>3, <2>1, <2>2 DEF Refill
<1>4. QED
  BY <1>1, <1>2, <1>3

\* The lock: its owner has read a version to compare, and reads again.
LEMMA LockKeeps ==
  ASSUME TypeInv, UpdateInv, Disciplined, NEW t \in Tasks, use' = use, Lock(t)
  PROVE  UpdateInv'
<1>t. /\ TypeOK /\ task \in [Tasks -> TaskRecord]
      /\ lock \in [Processes -> Tasks \cup {Nobody}]
      /\ use.processOf \in [Tasks -> Processes]
  BY TaskIsRecord, ConstantsAssumption DEF TypeInv, TypeOK, UseOK
<1>1. task[t].base.version >= 1 /\ task[t].base # Absent
  <2>1. task[t].base.version >= 1
    BY DEF Lock, At, UpdateInv, StageFine
  <2>2. QED
    BY <2>1 DEF Absent
<1>2. Goto(t, "read") /\ UNCHANGED <<row, cache, done>>
  BY <1>1 DEF Lock, history
<1>3. /\ task'[t].stage = "read" /\ task'[t].base = task[t].base
      /\ \A u \in Tasks : u # t => task'[u] = task[u]
  BY <1>t, <1>2 DEF Goto, TaskRecord
<1>4. \A u \in Tasks : ~ Holds(u)
  BY <1>t, ConstantsAssumption DEF Lock, Holds, Disciplined
<1>5. \A u \in Tasks : u # t => ~ Holds(u)'
  <2>1. lock' = [lock EXCEPT ![use.processOf[t]] = t]
    BY DEF Lock
  <2>2. \A u \in Tasks : lock'[use.processOf[u]] = t
    BY <1>t, <2>1 DEF Disciplined
  <2>3. QED
    BY <2>2 DEF Holds
<1>6. \A u \in Tasks : ~ Writes(u)
  BY <1>4 DEF UpdateInv, StageFine
<1>7. BaseFine(t)'
  BY <1>2, <1>3 DEF BaseFine, UpdateInv
<1>8. StageFine(t)' /\ ~ Writes(t)'
  BY <1>1, <1>3 DEF StageFine, Writes
<1>9. QED
  BY <1>2, <1>3, <1>5, <1>6, <1>7, <1>8, QuietStep

\* Nobody but the writer holds the lock, or works on a later value.
LEMMA OthersFacts ==
  ASSUME TypeInv, UpdateInv, Disciplined, NEW t \in Tasks, Writes(t), NEW u \in Tasks
  PROVE  /\ task[u].base.version \in Nat
         /\ task[u].base.version <= task[t].base.version
         /\ u # t => ~ Holds(u) /\ ~ Writes(u)
<1>1. task[u].base.version \in Nat
  BY ValueTypes DEF TypeInv
<1>2. task[u].base.version <= task[t].base.version
  BY DEF UpdateInv, WriterLeads
<1>3. Holds(t) /\ (Writes(u) => Holds(u))
  BY DEF UpdateInv, StageFine
<1>4. u # t => ~ Holds(u)
  BY <1>3, OneHolder
<1>5. QED
  BY <1>1, <1>2, <1>3, <1>4

\* What a writer writes is the version after the cached one and has what
\* returned.
LEMMA WriterFacts ==
  ASSUME TypeInv, UpdateInv, Disciplined, NEW t \in Tasks, Writes(t)
  PROVE  /\ New(t) \in Values /\ New(t).version = task[t].base.version + 1
         /\ task[t].base.version \in Nat
         /\ done \subseteq New(t).has /\ task[t].call \in New(t).has
         /\ cache # Absent => cache.version = task[t].base.version
         /\ New(t) # Absent
<1>1. ~ At(t, "idle")
  BY DEF Writes, At
<1>2. /\ New(t) \in Values /\ New(t).version = task[t].base.version + 1
      /\ New(t).has = task[t].base.has \cup {task[t].call}
  BY <1>1, NewValue
<1>3. \A u \in Tasks : task[u].base.version \in Nat
  BY ValueTypes DEF TypeInv
<1>4. New(t) # Absent
  BY <1>2, <1>3 DEF Absent
<1>5. QED
  BY <1>2, <1>3, <1>4 DEF UpdateInv, StageFine

\* The upsert of the one writer makes the next version.
LEMMA UpsertKeeps ==
  ASSUME TypeInv, UpdateInv, Disciplined, NEW t \in Tasks, use' = use, Upsert(t)
  PROVE  UpdateInv' /\ row'.version >= row.version
<1>t. /\ TypeOK /\ task \in [Tasks -> TaskRecord] /\ Writes(t)
      /\ row.version \in Nat /\ cache.version \in Nat
  BY TaskIsRecord, ValueTypes DEF TypeInv, Upsert, At, Writes
<1>c. cache' = cache /\ done' = done
  BY DEF Upsert
<1>w. /\ New(t).version = task[t].base.version + 1 /\ task[t].base.version \in Nat
      /\ cache # Absent => cache.version = task[t].base.version
      /\ done \subseteq New(t).has /\ task[t].call \in New(t).has
  BY <1>t, WriterFacts
<1>o. ASSUME NEW u \in Tasks
      PROVE  /\ task[u].base.version \in Nat
             /\ task[u].base.version <= task[t].base.version
             /\ u # t => ~ Holds(u) /\ ~ Writes(u)
  BY <1>t, OthersFacts
<1>1. CASE row' = row /\ Leave(t)
  BY <1>t, <1>c, <1>1, LeaveIsQuiet
<1>2. CASE row' = New(t) /\ ((Goto(t, "store") /\ lock' = lock) \/ Leave(t))
  <2>1. row'.version = task[t].base.version + 1 /\ row'.version >= row.version
    BY <1>t, <1>2, WriterFacts DEF UpdateInv, StageFine, Upsert, At
  <2>2. Current'
    BY <1>t, <1>c, <1>2, <2>1, WriterFacts DEF UpdateInv, Current
  <2>3. \A u \in Tasks : u # t => task'[u] = task[u]
    BY <1>t, <1>2 DEF Goto, Leave
  <2>4. ASSUME NEW u \in Tasks, u # t PROVE BaseFine(u)' /\ ~ Writes(u)'
    <3>1. task'[u] = task[u] /\ BaseFine(u) /\ ~ Writes(u)
      BY <1>o, <2>3, <2>4 DEF UpdateInv
    <3>2. task[u].base.version \in Nat /\ task[u].base.version <= task[t].base.version
      BY <1>o
    <3>3. ~ Writes(u)'
      BY <3>1 DEF Writes
    <3>4. BaseFine(u)'
      BY <1>t, <1>c, <1>w, <2>1, <3>1, <3>2 DEF BaseFine
    <3>5. QED
      BY <3>3, <3>4
  <2>5. \A u \in Tasks : u # t => ~ Holds(u)'
    <3>1. CASE lock' = lock
      BY <1>o, <3>1 DEF Holds
    <3>2. CASE Leave(t)
      <4>1. \A u \in Tasks : u # t => (Holds(u)' <=> Holds(u))
        BY <3>2, LeaveShape
      <4>2. QED
        BY <1>o, <4>1
    <3>3. QED
      BY <1>2, <3>1, <3>2
  <2>6. \A u \in Tasks : u # t => StageFine(u)'
    BY <2>3, <2>4, <2>5 DEF UpdateInv, StageFine, Writes
  <2>7. CASE Goto(t, "store") /\ lock' = lock
    <3>1. /\ task'[t].stage = "store" /\ task'[t].base = task[t].base
          /\ task'[t].call = task[t].call
      BY <1>t, <2>7 DEF Goto, TaskRecord
    <3>2. New(t)' = New(t) /\ (Holds(t)' <=> Holds(t))
      BY <2>7, <3>1 DEF New, Holds
    <3>3. BaseFine(t)'
      BY <1>t, <1>c, <2>1, <3>1, WriterFacts DEF UpdateInv, BaseFine, StageFine
    <3>4. StageFine(t)'
      BY <1>t, <1>c, <1>2, <3>1, <3>2 DEF UpdateInv, StageFine, Writes
    <3>5. WriterLeads'
      <4>1. \A u \in Tasks : task'[u].base = task[u].base
        BY <2>3, <3>1
      <4>2. \A u \in Tasks : Writes(u)' => u = t
        BY <2>4
      <4>3. QED
        BY <1>o, <4>1, <4>2 DEF WriterLeads
    <3>6. QED
      BY <2>1, <2>2, <2>4, <2>6, <3>3, <3>4, <3>5 DEF UpdateInv
  <2>8. CASE Leave(t)
    <3>1. task'[t].base = Absent /\ task'[t].stage = "idle" /\ Absent.version = 0 /\ ~ Holds(t)'
      BY <2>8, LeaveShape, Constants DEF Absent
    <3>2. BaseFine(t)'
      BY <1>t, <1>c, <1>w, <2>1, <2>2, <3>1 DEF BaseFine, Current
    <3>3. StageFine(t)' /\ ~ Writes(t)'
      BY <3>1 DEF StageFine, Writes
    <3>4. WriterLeads'
      BY <2>4, <3>3 DEF WriterLeads
    <3>5. QED
      BY <2>1, <2>2, <2>4, <2>6, <3>2, <3>3, <3>4 DEF UpdateInv
  <2>9. QED
    BY <1>2, <2>7, <2>8
<1>3. QED
  BY <1>t, <1>1, <1>2 DEF Upsert

\* Its broadcast to the cache may get lost, but then it has not returned.
LEMMA StoreKeeps ==
  ASSUME TypeInv, UpdateInv, Disciplined, NEW t \in Tasks, use' = use, Store(t)
  PROVE  UpdateInv'
<1>t. /\ TypeOK /\ Writes(t) /\ Leave(t) /\ row' = row /\ row = New(t)
      /\ row.version \in Nat /\ cache.version \in Nat
  BY ValueTypes DEF TypeInv, Store, At, Writes, UpdateInv, StageFine
<1>w. /\ New(t).version = task[t].base.version + 1 /\ task[t].base.version \in Nat
      /\ cache # Absent => cache.version = task[t].base.version
      /\ done \subseteq New(t).has /\ task[t].call \in New(t).has
  BY <1>t, WriterFacts
<1>o. ASSUME NEW u \in Tasks
      PROVE  /\ task[u].base.version \in Nat
             /\ task[u].base.version <= task[t].base.version
             /\ u # t => ~ Holds(u) /\ ~ Writes(u)
  BY <1>t, OthersFacts
<1>1. CASE cache' = cache /\ done' = done
  BY <1>t, <1>1, LeaveIsQuiet
<1>2. CASE cache' = New(t) /\ (done' = done \/ done' = done \cup {task[t].call})
  <2>1. /\ row'.version = task[t].base.version + 1 /\ cache' = row'
        /\ done' \subseteq row'.has
    BY <1>t, <1>2, WriterFacts
  <2>2. Current'
    BY <1>t, <2>1, WriterFacts DEF Current
  <2>3. /\ task'[t].base = Absent /\ task'[t].stage = "idle" /\ Absent.version = 0
        /\ ~ Holds(t)'
        /\ \A u \in Tasks : u # t => task'[u] = task[u] /\ (Holds(u)' <=> Holds(u))
    BY <1>t, LeaveShape, Constants DEF Absent
  <2>4. \A u \in Tasks : BaseFine(u)'
    <3>1. BaseFine(t)'
      BY <1>w, <2>1, <2>2, <2>3 DEF BaseFine, Current
    <3>2. ASSUME NEW u \in Tasks, u # t PROVE BaseFine(u)'
      <4>1. task'[u] = task[u]
        BY <2>3, <3>2
      <4>2. task[u].base.version \in Nat /\ task[u].base.version <= task[t].base.version
        BY <1>o
      <4>3. QED
        BY <1>w, <2>1, <4>1, <4>2 DEF BaseFine
    <3>3. QED
      BY <3>1, <3>2
  <2>5. \A u \in Tasks : ~ Writes(u)' /\ ~ Holds(u)'
    <3>1. ~ Writes(t)'
      BY <2>3 DEF Writes
    <3>2. \A u \in Tasks : u # t => (Writes(u)' <=> Writes(u))
      BY <2>3 DEF Writes
    <3>3. QED
      BY <1>o, <2>3, <3>1, <3>2
  <2>6. \A u \in Tasks : StageFine(u)'
    BY <2>3, <2>5 DEF UpdateInv, StageFine, Writes
  <2>7. WriterLeads'
    BY <2>5 DEF WriterLeads
  <2>8. QED
    BY <2>2, <2>4, <2>6, <2>7 DEF UpdateInv
<1>3. QED
  BY <1>1, <1>2 DEF Store
-----------------------------------------------------------------------------
\* Disciplined use makes none of the other steps.
LEMMA StepKeeps ==
  ASSUME TypeInv, UpdateInv, Disciplined, NEW t \in Tasks, use' = use, Step(t)
  PROVE  UpdateInv' /\ row'.version >= row.version
<1>1. task[t].stage \in {"idle", "read", "query", "refill", "lock", "upsert", "store"}
  BY DEF UpdateInv, StageFine
<1>2. row.version \in Nat
  BY ValueTypes DEF TypeInv
<1>3. CASE Read(t) \/ Query(t) \/ Refill(t)
  <2>1. row' = row
    BY <1>3 DEF Read, Query, Refill
  <2>2. QED
    BY <1>2, <1>3, <2>1, ReadKeeps
<1>4. CASE Lock(t)
  <2>1. row' = row
    BY <1>4 DEF Lock
  <2>2. QED
    BY <1>2, <1>4, <2>1, LockKeeps
<1>5. CASE Upsert(t)
  BY <1>5, UpsertKeeps
<1>6. CASE Store(t)
  BY <1>2, <1>6, StoreKeeps DEF Store
<1>7. QED
  BY <1>1, <1>3, <1>4, <1>5, <1>6 DEF Step, SelectForUpdate, Insert, Expose, Commit,
     Uncache, Drop, At

\* A new call works on nothing yet.
LEMMA CallKeeps ==
  ASSUME TypeInv, UpdateInv, Disciplined, LocksHaveOwners, NEW t \in Tasks,
         NEW op \in use.ops, use' = use, Call(t, op)
  PROVE  UpdateInv'
<1>t. task \in [Tasks -> TaskRecord] /\ UNCHANGED <<row, cache, done, lock>>
  BY TaskIsRecord DEF TypeInv, Call, history
<1>1. op \in Operations /\ op \in {"get", "update"}
  BY DEF Disciplined, Operations
<1>2. /\ Started(op) \in TaskRecord /\ Started(op).call = calls + 1
      /\ Started(op).base = Absent /\ Started(op).stage = "read" /\ Absent.version = 0
  BY <1>1, CallMoves DEF Started, FirstStage, Absent
<1>3. /\ task'[t] = Started(op) /\ \A u \in Tasks : u # t => task'[u] = task[u]
      /\ \A u \in Tasks : Holds(u)' <=> Holds(u)
  BY <1>t DEF Call, Holds
<1>4. ~ Holds(t)
  <2>1. task[t].stage = "idle"
    BY DEF Call, At
  <2>2. use.processOf[t] \in Processes /\ t # Nobody
    BY ConstantsAssumption DEF TypeInv, TypeOK, UseOK
  <2>3. QED
    BY <2>1, <2>2 DEF Holds, LocksHaveOwners
<1>5. BaseFine(t)'
  <2>1. row.version \in Nat /\ cache.version \in Nat /\ task'[t].base = Absent
    BY <1>2, <1>3, ValueTypes DEF TypeInv
  <2>2. QED
    BY <1>t, <1>2, <2>1 DEF BaseFine, UpdateInv, Current
<1>6. StageFine(t)' /\ ~ Writes(t)'
  BY <1>2, <1>3, <1>4 DEF StageFine, Writes
<1>7. \A u \in Tasks : task'[t].base.version <= task[u].base.version
  BY <1>2, <1>3, ValueTypes DEF TypeInv
<1>8. \A u \in Tasks : Writes(u) => Holds(u)
  BY DEF UpdateInv, StageFine
<1>9. QED
  BY <1>t, <1>3, <1>5, <1>6, <1>7, <1>8, QuietStep

\* An expired entry is one version less to compare with.
LEMMA ExpireKeeps ==
  ASSUME TypeInv, UpdateInv, use' = use, Expire
  PROVE  UpdateInv'
<1>1. cache' = Absent /\ UNCHANGED <<row, done, task, lock>>
  BY DEF Expire, history
<1>2. Current'
  BY <1>1 DEF UpdateInv, Current
<1>3. ASSUME NEW t \in Tasks PROVE BaseFine(t)' /\ StageFine(t)'
  <2>1. New(t)' = New(t) /\ (Holds(t)' <=> Holds(t)) /\ (Writes(t)' <=> Writes(t))
    BY <1>1 DEF New, Holds, Writes
  <2>2. BaseFine(t) /\ StageFine(t)
    BY DEF UpdateInv
  <2>3. BaseFine(t)'
    BY <1>1, <2>2 DEF BaseFine
  <2>4. StageFine(t)'
    BY <1>1, <2>1, <2>2 DEF StageFine
  <2>5. QED
    BY <2>3, <2>4
<1>4. WriterLeads'
  BY <1>1 DEF UpdateInv, WriterLeads, Writes
<1>5. QED
  BY <1>2, <1>3, <1>4 DEF UpdateInv

\* The crash of the process ends all calls, that of another one none.
LEMMA CrashKeeps ==
  ASSUME TypeInv, UpdateInv, Disciplined, NEW p \in Processes, use' = use, Crash(p)
  PROVE  UpdateInv'
<1>t. /\ lock \in [Processes -> Tasks \cup {Nobody}]
      /\ use.processOf \in [Tasks -> Processes]
      /\ UNCHANGED <<row, cache, done>>
  BY ConstantsAssumption DEF TypeInv, TypeOK, UseOK, Crash, history
<1>1. CASE \A u \in Tasks : use.processOf[u] = p
  <2>1. \A u \in Tasks : task'[u] = Idle /\ ~ Holds(u)'
    BY <1>t, <1>1, ConstantsAssumption DEF Crash, Holds
  <2>2. \A u \in Tasks : BaseFine(u)' /\ StageFine(u)' /\ ~ Writes(u)'
    BY <1>t, <2>1, IdleIsFine
  <2>3. Current' /\ WriterLeads'
    BY <1>t, <2>2 DEF UpdateInv, Current, WriterLeads
  <2>4. QED
    BY <2>2, <2>3 DEF UpdateInv
<1>2. CASE \A u \in Tasks : use.processOf[u] # p
  <2>1. \A u \in Tasks : task'[u] = task[u] /\ (Holds(u)' <=> Holds(u))
    BY <1>t, <1>2 DEF Crash, Holds
  <2>2. \A u \in Tasks : New(u)' = New(u) /\ (Writes(u)' <=> Writes(u))
    BY <2>1 DEF New, Writes
  <2>3. \A u \in Tasks : BaseFine(u)'
    BY <1>t, <2>1 DEF UpdateInv, BaseFine
  <2>4. \A u \in Tasks : StageFine(u)'
    BY <1>t, <2>1, <2>2 DEF UpdateInv, StageFine
  <2>5. Current' /\ WriterLeads'
    BY <1>t, <2>1, <2>2 DEF UpdateInv, Current, WriterLeads
  <2>6. QED
    BY <2>3, <2>4, <2>5 DEF UpdateInv
<1>3. QED
  BY <1>1, <1>2 DEF Disciplined

\* The invariant, for disciplined use.
UpdatesSafe == Disciplined => UpdateInv

\* Every step keeps the invariant and the order of versions.
LEMMA UpdatesStep ==
  ASSUME BaseInv, UpdatesSafe, [Next]_vars
  PROVE  UpdatesSafe' /\ (Disciplined => row'.version >= row.version)
<1>u. use' = use
  BY DEF Next, vars
<1>d. Disciplined' <=> Disciplined
  BY <1>u DEF Disciplined
<1> SUFFICES ASSUME Disciplined
             PROVE  UpdateInv' /\ row'.version >= row.version
  BY <1>d DEF UpdatesSafe
<1>i. TypeInv /\ UpdateInv /\ LocksHaveOwners /\ row.version \in Nat
  BY ValueTypes DEF BaseInv, UpdatesSafe, TypeInv
<1>1. ASSUME NEW t \in Tasks, Step(t) PROVE UpdateInv' /\ row'.version >= row.version
  BY <1>u, <1>i, <1>1, StepKeeps
<1>2. ASSUME NEW t \in Tasks, NEW op \in use.ops, Call(t, op)
      PROVE  UpdateInv' /\ row'.version >= row.version
  <2>1. row' = row
    BY <1>2 DEF Call
  <2>2. QED
    BY <1>u, <1>i, <1>2, <2>1, CallKeeps
<1>3. CASE Expire
  BY <1>u, <1>i, <1>3, ExpireKeeps DEF Expire
<1>4. ASSUME NEW p \in Processes, Crash(p) PROVE UpdateInv' /\ row'.version >= row.version
  <2>1. row' = row
    BY <1>4 DEF Crash
  <2>2. QED
    BY <1>u, <1>i, <1>4, <2>1, CrashKeeps
<1>5. CASE UNCHANGED vars
  <2>1. UNCHANGED <<use, row, cache, lock, task, done>>
    BY <1>5 DEF vars, history
  <2>2. \A t \in Tasks : New(t)' = New(t) /\ (Holds(t)' <=> Holds(t)) /\ (Writes(t)' <=> Writes(t))
    BY <2>1 DEF New, Holds, Writes
  <2>3. UpdateInv'
    BY <1>i, <2>1, <2>2 DEF UpdateInv, Current, WriterLeads, BaseFine, StageFine
  <2>4. QED
    BY <1>i, <2>1, <2>3
<1>6. QED
  BY <1>1, <1>2, <1>3, <1>4, <1>5 DEF Next

\* Disciplined updates keep table, cache and tasks in step.
THEOREM UpdatesInvariance == Spec => [](BaseInv /\ UpdatesSafe)
<1>1. Init => UpdatesSafe
  <2> SUFFICES ASSUME Init, Disciplined PROVE UpdateInv
    BY DEF UpdatesSafe
  <2>1. /\ row = [version |-> 1, has |-> {}] /\ cache = row /\ done = {}
    BY DEF Init, First, Disciplined
  <2>2. Current
    BY <2>1 DEF Current
  <2>3. \A t \in Tasks : task[t].base = Absent /\ task[t].stage = "idle" /\ ~ Holds(t)
    <3>1. \A t \in Tasks : task[t] = Idle
      BY DEF Init
    <3>2. \A t \in Tasks : use.processOf[t] \in Processes /\ t # Nobody
      BY ConstantsAssumption DEF Init, UseOK
    <3>3. \A t \in Tasks : ~ Holds(t)
      BY <3>2 DEF Init, Holds
    <3>4. QED
      BY <3>1, <3>3, Constants
  <2>4. \A t \in Tasks : BaseFine(t)
    BY <2>1, <2>3 DEF BaseFine, Absent
  <2>5. \A t \in Tasks : StageFine(t) /\ ~ Writes(t)
    BY <2>3 DEF StageFine, Writes
  <2>6. QED
    BY <2>2, <2>4, <2>5 DEF UpdateInv, WriterLeads
<1>2. BaseInv /\ UpdatesSafe /\ [Next]_vars => UpdatesSafe'
  BY UpdatesStep
<1>3. QED
  BY <1>1, <1>2, BaseInvariance, PTL DEF Spec

\* "Atomic updates with optimistic locking": within one process every update
\* that returned is in the row.
THEOREM UpdatesAreKept == Spec => []NoLostUpdate
<1>1. UpdatesSafe => NoLostUpdate
  BY DEF UpdatesSafe, UpdateInv, Current, NoLostUpdate
<1>2. QED
  BY <1>1, UpdatesInvariance, PTL

\* "Version tracking for consistency": within one process versions never fall.
THEOREM VersionsGrow == Spec => VersionsNeverFall
<1>1. BaseInv /\ UpdatesSafe /\ [Next]_vars
        => [Disciplined => row'.version >= row.version]_vars
  BY UpdatesStep
<1>2. QED
  BY <1>1, UpdatesInvariance, PTL DEF Spec, VersionsNeverFall
=============================================================================
