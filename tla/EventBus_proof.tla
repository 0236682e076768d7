--------------------------- MODULE EventBus_proof ---------------------------
(***************************************************************************)
(* Proofs about EventBus: its safety properties hold, and it implements    *)
(* DurableTopic, for any events, tasks, processes and bounds, whatever     *)
(* fails.                                                                  *)
(***************************************************************************)
EXTENDS EventBus, TLAPS

\* Only a task that stored its event sends it, and it is the only one: the
\* others meet the UNIQUE constraint or the row.
OneSender ==
  /\ \A t \in Tasks : task[t].stage \in Sending => Stored(task[t].ev)
  /\ \A t, u \in Tasks :
       task[t].stage \in Sending /\ task[u].stage \in Sending
         /\ task[t].ev = task[u].ev => t = u

\* What went out before the attempt a sender is in.
AttemptBounds ==
  \A t \in Tasks :
    /\ At(t, "typed") => typed[task[t].ev] <= task[t].attempt
    /\ At(t, "system") =>
         /\ typed[task[t].ev] <= task[t].attempt + 1
         /\ system[task[t].ev] < typed[task[t].ev]

\* Offsets drawn from the serial: rows and INSERTs under way have their own.
OffsetsDrawn ==
  /\ \A e \in Events : rows[e] < nextOffset
  /\ \A t \in Tasks : At(t, "commit") =>
       /\ 0 < task[t].offset /\ task[t].offset < nextOffset
       /\ \A e \in Events : rows[e] # task[t].offset
  /\ \A t, u \in Tasks :
       At(t, "commit") /\ At(u, "commit") /\ task[t].offset = task[u].offset
         => t = u
  /\ OffsetsDistinct

\* Nobody sends a completed event.
CompletedIsLeft ==
  \A e \in completed, t \in Tasks : ~ Sends(t, e)

SendInv ==
  /\ OneSender
  /\ DeliveryBounds
  /\ AttemptBounds
  /\ CompletedIsDone
  /\ CompletedIsLeft

IInv == TypeOK /\ SendInv /\ OffsetsDrawn /\ RememberedIsStored
-----------------------------------------------------------------------------
TaskRecord ==
  [stage : Stages, ev : Events, offset : Nat, attempt : 0 .. Retries - 1]

\* A task in one of the stages of publish has an event and an attempt; a task
\* outside them is Idle.
LEMMA TaskShape ==
  ASSUME TypeOK, NEW t \in Tasks
  PROVE  /\ task[t].stage \in Stages \cup {"idle"}
         /\ task[t].stage # "idle" => task[t] \in TaskRecord
         /\ task[t].stage = "idle" => task[t] = Idle
BY DEF TypeOK, Idle, Stages, Sending, TaskRecord

\* Admission only ever keeps ids that were there or the new one.
LEMMA AdmittedSubset ==
  ASSUME NEW ids, NEW e, NEW kept \in Admitted(ids, e)
  PROVE  kept \subseteq ids \cup {e}
BY DEF Admitted

\* Every variable keeps its type: in particular no task makes more than
\* Retries attempts.
THEOREM TypeCorrect == Spec => []TypeOK
<1> USE ConstantsAssumption
<1>1. Init => TypeOK
  BY DEF Init, TypeOK
<1>2. TypeOK /\ [Next]_vars => TypeOK'
  <2> SUFFICES ASSUME TypeOK, [Next]_vars PROVE TypeOK'
    OBVIOUS
  <2>f. faults' = faults
    BY DEF Next, vars
  <2> USE DEF TypeOK, At, Goto, Leave, Raise, Stages, Sending, busVars, history
  <2>1. ASSUME NEW t \in Tasks, NEW e \in Events, Publish(t, e)
        PROVE  TypeOK'
    <3>1. CASE DuplicateInMemory(t, e)
      BY <2>f, <2>1, <3>1 DEF Publish, DuplicateInMemory
    <3>2. CASE Admit(t, e)
      <4>1. processedIds' \in [Buses -> SUBSET Events]
        BY <3>2, AdmittedSubset DEF Admit
      <4>2. Started(e) \in TaskRecord
        BY DEF Started, TaskRecord
      <4>3. QED
        BY <2>f, <2>1, <3>2, <4>1, <4>2 DEF Publish, Admit, TaskRecord
    <3>3. QED
      BY <2>1, <3>1, <3>2 DEF Publish
  <2>2. ASSUME NEW t \in Tasks, IsDuplicatePersistent(t) PROVE TypeOK'
    BY <2>f, <2>2, TaskShape DEF IsDuplicatePersistent, TaskRecord
  <2>3. ASSUME NEW t \in Tasks, PersistToPostgres(t) PROVE TypeOK'
    BY <2>f, <2>3, TaskShape DEF PersistToPostgres, TaskRecord
  <2>4. ASSUME NEW t \in Tasks, InsertReply(t) PROVE TypeOK'
    BY <2>f, <2>4, TaskShape DEF InsertReply, TaskRecord
  <2>5. ASSUME NEW t \in Tasks, SendTyped(t) PROVE TypeOK'
    BY <2>f, <2>5, TaskShape DEF SendTyped, RetryOrRaise, Message, TaskRecord
  <2>6. ASSUME NEW t \in Tasks, SendSystem(t) PROVE TypeOK'
    BY <2>f, <2>6, TaskShape DEF SendSystem, RetryOrRaise, Message, TaskRecord
  <2>7. ASSUME NEW t \in Tasks, Cancel(t) PROVE TypeOK'
    BY <2>f, <2>7, TaskShape DEF Cancel, TaskRecord
  <2>8. ASSUME NEW b \in Buses, Crash(b) PROVE TypeOK'
    BY <2>f, <2>8 DEF Crash
  <2>9. CASE UNCHANGED vars
    BY <2>9 DEF vars
  <2>10. QED
    BY <2>1, <2>2, <2>3, <2>4, <2>5, <2>6, <2>7, <2>8, <2>9 DEF Next, Step
<1>3. QED
  BY <1>1, <1>2, PTL DEF Spec
-----------------------------------------------------------------------------
\* A step after which the senders are senders of before, in the same state,
\* and the table and the channels are unchanged preserves SendInv.
LEMMA NoNewSender ==
  ASSUME SendInv,
         UNCHANGED <<rows, typed, system, completed>>,
         \A u \in Tasks : task'[u].stage \in Sending => task'[u] = task[u]
  PROVE  SendInv'
BY DEF SendInv, OneSender, DeliveryBounds, AttemptBounds, CompletedIsDone,
       CompletedIsLeft, Sends, At, Sending, Stored

\* One broadcaster per event, which sends at most Retries times, and none
\* once the event is complete.
LEMMA SendInvStep ==
  TypeOK /\ OffsetsDrawn /\ SendInv /\ [Next]_vars => SendInv'
<1> SUFFICES ASSUME TypeOK, OffsetsDrawn, SendInv, [Next]_vars PROVE SendInv'
  OBVIOUS
<1> USE ConstantsAssumption
<1>t. \A t \in Tasks : /\ task[t].stage # "idle" => task[t] \in TaskRecord
                       /\ task[t].stage = "idle" => task[t] = Idle
  BY TaskShape
<1>s. \A t \in Tasks : task[t].stage \in Sending =>
        task[t].ev \in Events /\ task[t].attempt \in Nat
  BY <1>t DEF Sending, TaskRecord
<1>c. completed \subseteq Events
  BY DEF TypeOK
<1>1. ASSUME NEW t \in Tasks, NEW e \in Events, Publish(t, e)
      PROVE  SendInv'
  <2>1. \A u \in Tasks : task'[u].stage \in Sending => task'[u] = task[u]
    BY <1>1 DEF Publish, DuplicateInMemory, Admit, Started, Sending, TypeOK
  <2>2. UNCHANGED <<rows, typed, system, completed>>
    BY <1>1 DEF Publish, DuplicateInMemory, Admit, busVars
  <2>3. QED
    BY <2>1, <2>2, NoNewSender
<1>2. ASSUME NEW t \in Tasks, IsDuplicatePersistent(t) PROVE SendInv'
  BY <1>2, NoNewSender
  DEF IsDuplicatePersistent, Goto, Leave, Idle, Sending, TypeOK, busVars
<1>3. ASSUME NEW t \in Tasks, PersistToPostgres(t) PROVE SendInv'
  <2>1. \A u \in Tasks : task'[u].stage \in Sending => task'[u] = task[u]
    BY <1>3 DEF PersistToPostgres, Raise, Leave, Idle, Sending, TypeOK
  <2>2. UNCHANGED <<rows, typed, system, completed>>
    BY <1>3 DEF PersistToPostgres, history
  <2>3. QED
    BY <2>1, <2>2, NoNewSender
<1>4. ASSUME NEW t \in Tasks, InsertReply(t) PROVE SendInv'
  <2> PICK e \in Events : e = task[t].ev
    BY <1>4, <1>t DEF InsertReply, At, TaskRecord
  <2>1. /\ UNCHANGED <<typed, system, completed>>
        /\ task[t].attempt \in Nat /\ task[t].offset # 0
        /\ task \in [Tasks -> {Idle} \cup TaskRecord] /\ rows \in [Events -> Nat]
    BY <1>4, <1>t DEF InsertReply, At, history, TypeOK, TaskRecord, OffsetsDrawn
  <2>2. CASE UNCHANGED rows /\ Raise(t)
    <3>1. \A u \in Tasks : task'[u].stage \in Sending => task'[u] = task[u]
      BY <2>1, <2>2 DEF Raise, Leave, Idle, Sending
    <3>2. QED
      BY <2>1, <2>2, <3>1, NoNewSender
  <2>3. CASE ~ Stored(e) /\ rows' = [rows EXCEPT ![e] = task[t].offset]
    <3>1. \A f \in Events : Stored(f) => Stored(f)'
      BY <2>1, <2>3 DEF Stored
    <3>2. Stored(e)' /\ typed[e] = 0 /\ system[e] = 0
      BY <2>1, <2>3 DEF Stored, SendInv, DeliveryBounds, TypeOK
    <3>3. \A u \in Tasks : u # t /\ task[u].stage \in Sending => task[u].ev # e
      BY <2>3 DEF SendInv, OneSender
    <3>4. \A u \in Tasks :
            task'[u].stage \in Sending =>
              \/ task'[u] = task[u] /\ u # t
              \/ u = t /\ task'[t].stage = "typed" /\ task'[t].ev = e
                      /\ task'[t].attempt = task[t].attempt
      BY <1>4, <2>1, <2>3 DEF InsertReply, Raise, Goto, Leave, Idle, Sending, TaskRecord
    <3>5. OneSender'
      BY <1>s, <2>1, <3>1, <3>2, <3>3, <3>4 DEF SendInv, OneSender, Stored
    <3>6. AttemptBounds'
      BY <2>1, <3>2, <3>4 DEF SendInv, AttemptBounds, At, Sending
    <3>7. DeliveryBounds' /\ CompletedIsDone'
      BY <1>c, <2>1, <3>1 DEF SendInv, DeliveryBounds, CompletedIsDone, Stored
    <3>8. CompletedIsLeft'
      BY <2>1, <2>3, <3>4 DEF SendInv, CompletedIsLeft, CompletedIsDone, Sends
    <3>9. QED
      BY <3>5, <3>6, <3>7, <3>8 DEF SendInv
  <2>4. QED
    BY <1>4, <2>2, <2>3 DEF InsertReply
<1>5. ASSUME NEW t \in Tasks, SendTyped(t) PROVE SendInv'
  <2> PICK e \in Events : e = task[t].ev
    BY <1>5, <1>t DEF SendTyped, At, TaskRecord
  <2>1. /\ UNCHANGED <<rows, system, completed>>
        /\ task[t].stage = "typed" /\ task[t].attempt \in 0 .. Retries - 1
        /\ task \in [Tasks -> {Idle} \cup TaskRecord]
        /\ typed \in [Events -> Nat] /\ system \in [Events -> Nat]
    BY <1>5, <1>t DEF SendTyped, At, history, TypeOK, TaskRecord
  <2>2. \/ typed' = typed \/ typed' = [typed EXCEPT ![e] = @ + 1]
    BY <1>5 DEF SendTyped, Message
  <2>3. Stored(e) /\ \A u \in Tasks : u # t /\ task[u].stage \in Sending => task[u].ev # e
    BY <2>1 DEF SendInv, OneSender, Sending
  <2>4. \A u \in Tasks :
          task'[u].stage \in Sending =>
            \/ task'[u] = task[u] /\ u # t
            \/ /\ u = t /\ task'[t].ev = e
               /\ \/ /\ task'[t].stage = "system"
                     /\ typed' = [typed EXCEPT ![e] = @ + 1]
                     /\ task'[t].attempt = task[t].attempt
                  \/ /\ task'[t].stage = "typed"
                     /\ task'[t].attempt = task[t].attempt + 1
    BY <1>5, <2>1
    DEF SendTyped, RetryOrRaise, Raise, Goto, Leave, Idle, Sending, Message, TaskRecord
  <2>5. OneSender'
    BY <2>1, <2>3, <2>4 DEF SendInv, OneSender, Stored
  <2>6. typed[e] <= task[t].attempt /\ system[e] <= typed[e] /\ e \notin completed
    BY <2>1 DEF SendInv, AttemptBounds, DeliveryBounds, At, CompletedIsLeft, Sends, Sending
  <2>7. DeliveryBounds'
    BY <2>1, <2>2, <2>3, <2>6 DEF SendInv, DeliveryBounds, Stored
  <2>8. AttemptBounds'
    BY <1>s, <2>1, <2>2, <2>3, <2>4, <2>6 DEF SendInv, AttemptBounds, At, Sending
  <2>9. CompletedIsDone' /\ CompletedIsLeft'
    BY <1>c, <2>1, <2>2, <2>4, <2>6
    DEF SendInv, CompletedIsDone, CompletedIsLeft, Sends, Stored
  <2>10. QED
    BY <2>5, <2>7, <2>8, <2>9 DEF SendInv
<1>6. ASSUME NEW t \in Tasks, SendSystem(t) PROVE SendInv'
  <2> PICK e \in Events : e = task[t].ev
    BY <1>6, <1>t DEF SendSystem, At, TaskRecord
  <2>1. /\ UNCHANGED <<rows, typed>>
        /\ task[t].stage = "system" /\ task[t].attempt \in 0 .. Retries - 1
        /\ task \in [Tasks -> {Idle} \cup TaskRecord]
        /\ typed \in [Events -> Nat] /\ system \in [Events -> Nat]
    BY <1>6, <1>t DEF SendSystem, At, history, TypeOK, TaskRecord
  <2>2. \/ system' = system \/ system' = [system EXCEPT ![e] = @ + 1]
    BY <1>6 DEF SendSystem, Message
  <2>3. Stored(e) /\ \A u \in Tasks : u # t /\ task[u].stage \in Sending => task[u].ev # e
    BY <2>1 DEF SendInv, OneSender, Sending
  <2>4. \/ completed' = completed
        \/ /\ completed' = completed \cup {e}
           /\ system' = [system EXCEPT ![e] = @ + 1]
           /\ task' = [task EXCEPT ![t] = Idle]
    BY <1>6 DEF SendSystem, Leave, Message
  <2>5. \A u \in Tasks :
          task'[u].stage \in Sending =>
            \/ task'[u] = task[u] /\ u # t
            \/ /\ u = t /\ task'[t].ev = e /\ task'[t].stage = "typed"
               /\ task'[t].attempt = task[t].attempt + 1
               /\ completed' = completed
    BY <1>6, <2>1
    DEF SendSystem, RetryOrRaise, Raise, Goto, Leave, Idle, Sending, Message, TaskRecord
  <2>6. OneSender'
    BY <2>1, <2>3, <2>5 DEF SendInv, OneSender, Stored
  <2>7. typed[e] <= task[t].attempt + 1 /\ system[e] < typed[e] /\ e \notin completed
    BY <2>1 DEF SendInv, AttemptBounds, At, CompletedIsLeft, Sends, Sending
  <2>8. DeliveryBounds'
    BY <2>1, <2>2, <2>3, <2>7 DEF SendInv, DeliveryBounds, Stored
  <2>9. AttemptBounds'
    BY <1>s, <2>1, <2>2, <2>3, <2>5, <2>7 DEF SendInv, AttemptBounds, At, Sending
  <2>10. CompletedIsDone'
    BY <1>c, <2>1, <2>2, <2>3, <2>4, <2>7 DEF SendInv, CompletedIsDone, Stored
  <2>11. CompletedIsLeft'
    BY <2>1, <2>3, <2>4, <2>5, <2>7 DEF SendInv, CompletedIsLeft, Sends, Sending, Idle
  <2>12. QED
    BY <2>6, <2>8, <2>9, <2>10, <2>11 DEF SendInv
<1>7. ASSUME NEW t \in Tasks, Cancel(t) PROVE SendInv'
  BY <1>7, NoNewSender DEF Cancel, Leave, Idle, Sending, TypeOK, busVars
<1>8. ASSUME NEW b \in Buses, Crash(b) PROVE SendInv'
  BY <1>8, NoNewSender DEF Crash, Idle, Sending, TypeOK, history
<1>9. CASE UNCHANGED vars
  BY <1>9, NoNewSender DEF vars, busVars, history
<1>10. QED
  BY <1>1, <1>2, <1>3, <1>4, <1>5, <1>6, <1>7, <1>8, <1>9 DEF Next, Step
-----------------------------------------------------------------------------
\* Offsets stay distinct: a step gives a row the offset of one INSERT, or
\* hands one INSERT the next value of the serial.
LEMMA OffsetsStep == TypeOK /\ OffsetsDrawn /\ [Next]_vars => OffsetsDrawn'
<1> SUFFICES ASSUME TypeOK, OffsetsDrawn, [Next]_vars PROVE OffsetsDrawn'
  OBVIOUS
<1>t. /\ task \in [Tasks -> {Idle} \cup TaskRecord]
      /\ rows \in [Events -> Nat] /\ nextOffset \in Nat \ {0}
      /\ \A t \in Tasks : task[t].stage # "idle" => task[t] \in TaskRecord
  BY TaskShape DEF TypeOK, TaskRecord
<1>k. ASSUME UNCHANGED <<rows, nextOffset>>,
             \A u \in Tasks : task'[u].stage = "commit" => task'[u] = task[u]
      PROVE  OffsetsDrawn'
  BY <1>k DEF OffsetsDrawn, OffsetsDistinct, At, Stored
<1>1. ASSUME NEW t \in Tasks, NEW e \in Events, Publish(t, e)
      PROVE  OffsetsDrawn'
  <2>1. UNCHANGED <<rows, nextOffset>>
    BY <1>1 DEF Publish, DuplicateInMemory, Admit, busVars
  <2>2. task' = task \/ task' = [task EXCEPT ![t] = Started(e)]
    BY <1>1 DEF Publish, DuplicateInMemory, Admit
  <2>3. QED
    BY <2>1, <2>2, <1>k, <1>t DEF Started
<1>2. ASSUME NEW t \in Tasks, IsDuplicatePersistent(t) PROVE OffsetsDrawn'
  BY <1>2, <1>k, <1>t
  DEF IsDuplicatePersistent, Goto, Leave, Idle, At, TaskRecord, busVars
<1>3. ASSUME NEW t \in Tasks, PersistToPostgres(t) PROVE OffsetsDrawn'
  <2>1. CASE Raise(t) /\ UNCHANGED nextOffset
    BY <1>3, <2>1, <1>k, <1>t DEF PersistToPostgres, Raise, Leave, Idle
  <2>2. CASE /\ task' = [task EXCEPT ![t].stage = "commit", ![t].offset = nextOffset]
             /\ nextOffset' = nextOffset + 1
    <3>1. \A u \in Tasks : task'[u].stage = "commit" =>
            \/ u # t /\ task'[u] = task[u]
            \/ u = t /\ task'[u].offset = nextOffset
      BY <2>2, <1>3, <1>t DEF PersistToPostgres, At, TaskRecord
    <3>2. rows' = rows
      BY <1>3 DEF PersistToPostgres
    <3>3. \A u \in Tasks : task[u].stage = "commit" => task[u].offset \in Nat
      BY <1>t DEF TaskRecord
    <3>4. QED
      BY <2>2, <3>1, <3>2, <3>3, <1>t DEF OffsetsDrawn, OffsetsDistinct, At, Stored
  <2>3. QED
    BY <1>3, <2>1, <2>2 DEF PersistToPostgres
<1>4. ASSUME NEW t \in Tasks, InsertReply(t) PROVE OffsetsDrawn'
  <2> PICK e \in Events : e = task[t].ev
    BY <1>4, <1>t DEF InsertReply, At, TaskRecord
  <2>1. /\ nextOffset' = nextOffset /\ task[t].stage = "commit"
        /\ \A u \in Tasks : task'[u].stage = "commit" => u # t /\ task'[u] = task[u]
    BY <1>4, <1>t DEF InsertReply, Goto, Raise, Leave, At, Idle, TaskRecord
  <2>2. CASE rows' = rows
    BY <2>1, <2>2, <1>k
  <2>3. CASE rows' = [rows EXCEPT ![e] = task[t].offset]
    BY <2>1, <2>3, <1>t DEF OffsetsDrawn, OffsetsDistinct, At, Stored
  <2>4. QED
    BY <1>4, <2>2, <2>3 DEF InsertReply
<1>5. ASSUME NEW t \in Tasks, SendTyped(t) PROVE OffsetsDrawn'
  BY <1>5, <1>k, <1>t
  DEF SendTyped, RetryOrRaise, Raise, Goto, Leave, Idle, TaskRecord
<1>6. ASSUME NEW t \in Tasks, SendSystem(t) PROVE OffsetsDrawn'
  BY <1>6, <1>k, <1>t DEF SendSystem, RetryOrRaise, Raise, Leave, Idle, TaskRecord
<1>7. ASSUME NEW t \in Tasks, Cancel(t) PROVE OffsetsDrawn'
  BY <1>7, <1>k, <1>t DEF Cancel, Leave, Idle, busVars
<1>8. ASSUME NEW b \in Buses, Crash(b) PROVE OffsetsDrawn'
  BY <1>8, <1>k, <1>t DEF Crash, Idle
<1>9. CASE UNCHANGED vars
  BY <1>9, <1>k DEF vars, busVars
<1>10. QED
  BY <1>1, <1>2, <1>3, <1>4, <1>5, <1>6, <1>7, <1>8, <1>9 DEF Next, Step

-----------------------------------------------------------------------------
\* The set of a bus never keeps the id of an event that failed.
LEMMA RememberedStep ==
  TypeOK /\ OffsetsDrawn /\ SendInv /\ RememberedIsStored /\ [Next]_vars
    => RememberedIsStored'
<1> SUFFICES ASSUME TypeOK, OffsetsDrawn, SendInv, RememberedIsStored, [Next]_vars
             PROVE  RememberedIsStored'
  OBVIOUS
<1>t. /\ task \in [Tasks -> {Idle} \cup TaskRecord] /\ rows \in [Events -> Nat]
      /\ processedIds \in [Buses -> SUBSET Events]
      /\ BusOf \in [Tasks -> Buses]
      /\ \A t \in Tasks : task[t].stage # "idle" => task[t] \in TaskRecord
  BY TaskShape, ConstantsAssumption DEF TypeOK, TaskRecord
\* A task that left its call did so with its id forgotten, cancelled or stored.
<1>k. ASSUME cancelled \subseteq cancelled',
             \A f \in Events : rows[f] # 0 => rows'[f] # 0,
             NEW t \in Tasks,
             \A u \in Tasks : u # t => task'[u] = task[u],
             \A b \in Buses : processedIds'[b] \subseteq processedIds[b],
             \/ task'[t].stage # "idle" /\ task'[t].ev = task[t].ev
             \/ task[t].stage = "idle"
             \/ task[t].ev \notin processedIds'[BusOf[t]]
             \/ task[t].ev \in cancelled'
             \/ rows'[task[t].ev] # 0
      PROVE  RememberedIsStored'
  BY <1>k, <1>t DEF RememberedIsStored, Working, Stored
<1>1. ASSUME NEW t \in Tasks, NEW e \in Events, Publish(t, e)
      PROVE  RememberedIsStored'
  <2>1. CASE DuplicateInMemory(t, e)
    BY <1>1, <2>1, <1>k, <1>t DEF Publish, DuplicateInMemory, At, busVars
  <2>2. CASE Admit(t, e)
    <3>1. /\ UNCHANGED <<rows, cancelled>> /\ task[t].stage = "idle"
          /\ task' = [task EXCEPT ![t] = Started(e)]
      BY <1>1, <2>2 DEF Publish, Admit, At
    <3>2. /\ processedIds'[BusOf[t]] \subseteq processedIds[BusOf[t]] \cup {e}
          /\ \A b \in Buses : b # BusOf[t] => processedIds'[b] = processedIds[b]
      BY <2>2, <1>t, AdmittedSubset DEF Admit
    <3>3. Working(t, e)'
      BY <3>1, <1>t DEF Working, Started
    <3>4. \A u \in Tasks, f \in Events : Working(u, f) => u # t /\ Working(u, f)'
      BY <3>1, <1>t DEF Working
    <3>5. QED
      BY <3>1, <3>2, <3>3, <3>4, <1>t DEF RememberedIsStored, Stored
  <2>3. QED
    BY <1>1, <2>1, <2>2 DEF Publish
<1>2. ASSUME NEW t \in Tasks, IsDuplicatePersistent(t) PROVE RememberedIsStored'
  BY <1>2, <1>k, <1>t
  DEF IsDuplicatePersistent, Goto, Leave, Stored, At, TaskRecord, busVars
<1>3. ASSUME NEW t \in Tasks, PersistToPostgres(t) PROVE RememberedIsStored'
  BY <1>3, <1>k, <1>t DEF PersistToPostgres, Raise, Leave, At, TaskRecord, history
<1>4. ASSUME NEW t \in Tasks, InsertReply(t) PROVE RememberedIsStored'
  BY <1>4, <1>k, <1>t
  DEF InsertReply, Goto, Raise, Leave, Stored, At, OffsetsDrawn, TaskRecord, history
<1>5. ASSUME NEW t \in Tasks, SendTyped(t) PROVE RememberedIsStored'
  BY <1>5, <1>k, <1>t
  DEF SendTyped, RetryOrRaise, Raise, Goto, Leave, At, TaskRecord, history
<1>6. ASSUME NEW t \in Tasks, SendSystem(t) PROVE RememberedIsStored'
  BY <1>6, <1>k, <1>t
  DEF SendSystem, RetryOrRaise, Raise, Leave, At, Stored, SendInv, OneSender,
      Sending, TaskRecord
<1>7. ASSUME NEW t \in Tasks, Cancel(t) PROVE RememberedIsStored'
  BY <1>7, <1>k, <1>t DEF Cancel, Leave, busVars
<1>8. ASSUME NEW b \in Buses, Crash(b) PROVE RememberedIsStored'
  BY <1>8, <1>t DEF Crash, RememberedIsStored, Working, Stored, history
<1>9. CASE UNCHANGED vars
  BY <1>9 DEF vars, busVars, history, RememberedIsStored, Working, Stored
<1>10. QED
  BY <1>1, <1>2, <1>3, <1>4, <1>5, <1>6, <1>7, <1>8, <1>9 DEF Next, Step
-----------------------------------------------------------------------------
\* The inductive invariant of the bus.
THEOREM Invariance == Spec => []IInv
<1>1. Init => IInv
  <2> SUFFICES ASSUME Init PROVE IInv
    OBVIOUS
  <2>1. TypeOK
    BY ConstantsAssumption DEF Init, TypeOK
  <2>2. SendInv
    BY ConstantsAssumption
    DEF Init, Idle, SendInv, OneSender, DeliveryBounds, AttemptBounds,
        CompletedIsDone, CompletedIsLeft, At, Sending, Stored
  <2>3. OffsetsDrawn
    BY DEF Init, Idle, OffsetsDrawn, OffsetsDistinct, At, Stored
  <2>4. RememberedIsStored
    BY DEF Init, RememberedIsStored
  <2>5. QED
    BY <2>1, <2>2, <2>3, <2>4 DEF IInv
<1>2. TypeOK /\ TypeOK' /\ IInv /\ [Next]_vars => IInv'
  BY SendInvStep, OffsetsStep, RememberedStep DEF IInv
<1>3. QED
  BY <1>1, <1>2, TypeCorrect, PTL DEF Spec

\* Redis carries stored events only, at most Retries times each.
THEOREM DeliveryIsBounded == Spec => []DeliveryBounds
<1>1. IInv => DeliveryBounds
  BY DEF IInv, SendInv
<1>2. QED
  BY <1>1, Invariance, PTL

\* Rows have offsets of their own.
THEOREM OffsetsAreDistinct == Spec => []OffsetsDistinct
<1>1. IInv => OffsetsDistinct
  BY DEF IInv, OffsetsDrawn
<1>2. QED
  BY <1>1, Invariance, PTL

\* A publication that ran to its end did all of its work.
THEOREM CompletionIsDone == Spec => []CompletedIsDone
<1>1. IInv => CompletedIsDone
  BY DEF IInv, SendInv
<1>2. QED
  BY <1>1, Invariance, PTL

\* Only a cancelled call leaves an id in the set of an event that has no row.
THEOREM RememberedAreStored == Spec => []RememberedIsStored
<1>1. IInv => RememberedIsStored
  BY DEF IInv
<1>2. QED
  BY <1>1, Invariance, PTL

-----------------------------------------------------------------------------
\* What a step can do to the table and the channels: nothing, one row for an
\* event without one, one message of the event the task sends.
LEMMA StepEffect ==
  ASSUME IInv, [Next]_vars
  PROVE  \/ UNCHANGED <<rows, typed, system>>
         \/ \E t \in Tasks, e \in Events :
              /\ task[t].ev = e
              /\ \/ /\ At(t, "commit") /\ ~ Stored(e)
                    /\ rows' = [rows EXCEPT ![e] = task[t].offset]
                    /\ UNCHANGED <<typed, system>>
                 \/ /\ At(t, "typed") /\ typed' = [typed EXCEPT ![e] = @ + 1]
                    /\ UNCHANGED <<rows, system>>
                 \/ /\ At(t, "system") /\ system' = [system EXCEPT ![e] = @ + 1]
                    /\ UNCHANGED <<rows, typed>>
<1>t. \A t \in Tasks : task[t].stage # "idle" => task[t].ev \in Events
  BY TaskShape DEF IInv, TaskRecord
<1>1. ASSUME NEW t \in Tasks, NEW e \in Events, Publish(t, e)
      PROVE  UNCHANGED <<rows, typed, system>>
  BY <1>1 DEF Publish, DuplicateInMemory, Admit, busVars
<1>2. ASSUME NEW t \in Tasks,
             IsDuplicatePersistent(t) \/ PersistToPostgres(t) \/ Cancel(t)
      PROVE  UNCHANGED <<rows, typed, system>>
  BY <1>2 DEF IsDuplicatePersistent, PersistToPostgres, Cancel, busVars
<1>3. ASSUME NEW b \in Buses, Crash(b)
      PROVE  UNCHANGED <<rows, typed, system>>
  BY <1>3 DEF Crash
<1>4. ASSUME NEW t \in Tasks, InsertReply(t)
      PROVE  \/ UNCHANGED <<rows, typed, system>>
             \/ /\ At(t, "commit") /\ ~ Stored(task[t].ev)
                /\ rows' = [rows EXCEPT ![task[t].ev] = task[t].offset]
                /\ UNCHANGED <<typed, system>>
  BY <1>4 DEF InsertReply
<1>5. ASSUME NEW t \in Tasks, SendTyped(t)
      PROVE  \/ UNCHANGED <<rows, typed, system>>
             \/ /\ At(t, "typed") /\ typed' = [typed EXCEPT ![task[t].ev] = @ + 1]
                /\ UNCHANGED <<rows, system>>
  BY <1>5 DEF SendTyped, Message
<1>6. ASSUME NEW t \in Tasks, SendSystem(t)
      PROVE  \/ UNCHANGED <<rows, typed, system>>
             \/ /\ At(t, "system") /\ system' = [system EXCEPT ![task[t].ev] = @ + 1]
                /\ UNCHANGED <<rows, typed>>
  BY <1>6 DEF SendSystem, Message
<1>7. CASE UNCHANGED vars
  BY <1>7 DEF vars, busVars
<1>8. ASSUME NEW t \in Tasks, Step(t) \/ Cancel(t)
      PROVE  \/ UNCHANGED <<rows, typed, system>>
             \/ /\ task[t].ev \in Events
                /\ \/ /\ At(t, "commit") /\ ~ Stored(task[t].ev)
                      /\ rows' = [rows EXCEPT ![task[t].ev] = task[t].offset]
                      /\ UNCHANGED <<typed, system>>
                   \/ /\ At(t, "typed") /\ typed' = [typed EXCEPT ![task[t].ev] = @ + 1]
                      /\ UNCHANGED <<rows, system>>
                   \/ /\ At(t, "system") /\ system' = [system EXCEPT ![task[t].ev] = @ + 1]
                      /\ UNCHANGED <<rows, typed>>
  BY <1>8, <1>2, <1>4, <1>5, <1>6, <1>t DEF Step, At
<1>9. QED
  BY <1>1, <1>3, <1>7, <1>8 DEF Next

\* Nothing sends an event again once its publication ran to the end.
THEOREM CompletionIsFinal == Spec => NothingAfterCompletion
<1>1. IInv /\ [Next]_vars =>
        [\A e \in completed : typed'[e] = typed[e] /\ system'[e] = system[e]]_vars
  <2> SUFFICES ASSUME IInv, [Next]_vars, NEW e \in completed
               PROVE  typed'[e] = typed[e] /\ system'[e] = system[e]
    OBVIOUS
  <2>1. \A t \in Tasks : task[t].stage \in Sending => task[t].ev # e
    BY DEF IInv, SendInv, CompletedIsLeft, Sends
  <2>2. QED
    BY <2>1, StepEffect DEF At, Sending, IInv, TypeOK
<1>2. QED
  BY <1>1, Invariance, PTL DEF Spec, NothingAfterCompletion

\* The bus implements the durable topic: its tasks, sets and faults are
\* invisible in the table and the channels.
THEOREM BusImplementsTopic == Spec => ImplementsTopic
<1>1. Init => Topic!Init
  BY DEF Init, Topic!Init
<1>2. IInv /\ [Next]_vars => [Topic!Next]_(Topic!vars)
  <2> SUFFICES ASSUME IInv, [Next]_vars PROVE [Topic!Next]_(Topic!vars)
    OBVIOUS
  <2>1. CASE UNCHANGED <<rows, typed, system>>
    BY <2>1 DEF Topic!vars
  <2>2. ASSUME NEW t \in Tasks, NEW e \in Events, task[t].ev = e,
               At(t, "commit"), ~ Stored(e),
               rows' = [rows EXCEPT ![e] = task[t].offset],
               UNCHANGED <<typed, system>>
        PROVE  Topic!Store(e)
    <3>1. rows'[e] = task[t].offset /\ task[t].offset \in Nat \ {0}
      BY <2>2, TaskShape DEF IInv, TypeOK, OffsetsDrawn, At, TaskRecord
    <3>2. \A f \in Events : rows[f] # task[t].offset
      BY <2>2 DEF IInv, OffsetsDrawn
    <3>3. QED
      BY <2>2, <3>1, <3>2 DEF Topic!Store, Topic!Stored, Stored
  <2>3. ASSUME NEW t \in Tasks, NEW e \in Events, task[t].ev = e,
               At(t, "typed"), typed' = [typed EXCEPT ![e] = @ + 1],
               UNCHANGED <<rows, system>>
        PROVE  Topic!Broadcast(e)
    <3>1. typed[e] <= task[t].attempt /\ Stored(e)
      BY <2>3 DEF IInv, SendInv, AttemptBounds, OneSender, At, Sending
    <3>2. task[t].attempt \in 0 .. Retries - 1 /\ typed[e] \in Nat
      BY <2>3, TaskShape DEF IInv, TypeOK, At, TaskRecord
    <3>3. QED
      BY <2>3, <3>1, <3>2, ConstantsAssumption
      DEF Topic!Broadcast, Topic!Stored, Stored
  <2>4. ASSUME NEW t \in Tasks, NEW e \in Events, task[t].ev = e,
               At(t, "system"), system' = [system EXCEPT ![e] = @ + 1],
               UNCHANGED <<rows, typed>>
        PROVE  Topic!BroadcastSystem(e)
    BY <2>4 DEF IInv, SendInv, AttemptBounds, OneSender, At, Sending,
                Topic!BroadcastSystem, Topic!Stored, Stored
  <2>5. QED
    BY <2>1, <2>2, <2>3, <2>4, StepEffect DEF Topic!Next
<1>3. QED
  BY <1>1, <1>2, Invariance, PTL DEF Spec, ImplementsTopic, Topic!Spec

-----------------------------------------------------------------------------
\* Where everything is as long as nothing fails: an event without a row went
\* nowhere, one that is being sent is where its sender is, any other one went out
\* once; and an acknowledged event has a row or somebody who works on it.
OnceEach ==
  /\ \A e \in Events :
       /\ ~ Stored(e) => typed[e] = 0 /\ system[e] = 0
       /\ Stored(e) => (typed[e] = 1 /\ system[e] = 1) \/ \E t \in Tasks : Sends(t, e)
  /\ \A t \in Tasks :
       /\ At(t, "typed") => typed[task[t].ev] = 0 /\ system[task[t].ev] = 0
       /\ At(t, "system") => typed[task[t].ev] = 1 /\ system[task[t].ev] = 0

AckedIsInHand ==
  /\ cancelled = {}
  /\ \A e \in acked : Stored(e) \/ ~ Quiet(e)

FaultFreeInv == faults = {} => OnceEach /\ AckedIsInHand

\* Nothing fails where nothing may fail.
LEMMA NothingFails ==
  ASSUME faults = {}, [Next]_vars
  PROVE  /\ faults' = {} /\ ~ May("server")
         /\ \/ \E t \in Tasks : Step(t) \/ \E e \in Events : Publish(t, e)
            \/ UNCHANGED vars
BY DEF Next, May, Cancel, Crash, vars

\* A fault-free step leaves every event where its sender and its row say.
LEMMA OnceEachStep ==
  ASSUME IInv, faults = {}, OnceEach, [Next]_vars
  PROVE  OnceEach'
<1> USE DEF Stored, Sends, At, Sending
<1>k. /\ TypeOK /\ OneSender /\ ~ May("server")
      /\ rows \in [Events -> Nat] /\ typed \in [Events -> Nat] /\ system \in [Events -> Nat]
  BY NothingFails DEF IInv, SendInv, TypeOK
<1>s. \A t \in Tasks : /\ task[t].stage # "idle" => task[t] \in TaskRecord
                       /\ task[t].stage = "idle" => task[t] = Idle
  BY <1>k, TaskShape
<1>r. task \in [Tasks -> {Idle} \cup TaskRecord]
  BY <1>k DEF TypeOK, TaskRecord
<1>1. ASSUME NEW t \in Tasks, NEW e \in Events, Publish(t, e) PROVE OnceEach'
  BY <1>1, <1>k, <1>r DEF OnceEach, Publish, DuplicateInMemory, Admit, Started, busVars
<1>2. ASSUME NEW t \in Tasks, IsDuplicatePersistent(t) PROVE OnceEach'
  <2>1. UNCHANGED <<rows, typed, system>> /\ task[t].stage = "check"
    BY <1>2 DEF IsDuplicatePersistent, busVars
  <2>2. \E new \in {Idle, [task[t] EXCEPT !.stage = "insert"]} : task' = [task EXCEPT ![t] = new]
    BY <1>2, <1>r DEF IsDuplicatePersistent, Leave, Goto
  <2>3. \A u \in Tasks : task[u].stage \in Sending => u # t
    BY <1>r, <1>s, <2>1, <2>2 DEF Idle, TaskRecord
  <2>4. \A u \in Tasks : u # t => task'[u] = task[u]
    BY <1>r, <2>2
  <2>5. task'[t].stage \notin Sending
    BY <1>r, <1>s, <2>1, <2>2 DEF Idle, TaskRecord
  <2>6. QED
    BY <2>1, <2>3, <2>4, <2>5 DEF OnceEach
<1>3. ASSUME NEW t \in Tasks, PersistToPostgres(t) PROVE OnceEach'
  <2>1. UNCHANGED <<rows, typed, system>> /\ task[t].stage = "insert"
    BY <1>3 DEF PersistToPostgres
  <2>2. task' = [task EXCEPT ![t].stage = "commit", ![t].offset = nextOffset]
    BY <1>3, <1>k DEF PersistToPostgres
  <2>3. \A u \in Tasks : u # t => task'[u] = task[u]
    BY <1>r, <2>2
  <2>4. task'[t].stage \notin Sending
    BY <1>r, <1>s, <2>1, <2>2 DEF TaskRecord
  <2>5. QED
    BY <2>1, <2>3, <2>4 DEF OnceEach
<1>4. ASSUME NEW t \in Tasks, InsertReply(t) PROVE OnceEach'
  BY <1>4, <1>k, <1>r, <1>s DEF OnceEach, InsertReply, Raise, Leave, Goto, Idle, TaskRecord, IInv, OffsetsDrawn
<1>5. ASSUME NEW t \in Tasks, SendTyped(t) PROVE OnceEach'
  BY <1>5, <1>k, <1>r, <1>s DEF OnceEach, SendTyped, Message, Goto, OneSender, TaskRecord
<1>6. ASSUME NEW t \in Tasks, SendSystem(t) PROVE OnceEach'
  BY <1>6, <1>k, <1>r, <1>s DEF OnceEach, SendSystem, Message, Leave, Idle, OneSender, TaskRecord
<1>7. CASE UNCHANGED vars
  BY <1>7 DEF OnceEach, vars, busVars
<1>8. QED
  BY <1>1, <1>2, <1>3, <1>4, <1>5, <1>6, <1>7, NothingFails DEF Step

\* A fault-free step leaves an acknowledged event with its row or its worker: only
\* a call that finds or made the row leaves.
LEMMA AckedStep ==
  ASSUME IInv, faults = {}, AckedIsInHand, [Next]_vars
  PROVE  AckedIsInHand'
<1> USE DEF Stored, Working, Quiet, At
<1>k. /\ TypeOK /\ OneSender /\ RememberedIsStored /\ ~ May("server")
      /\ rows \in [Events -> Nat]
  BY NothingFails DEF IInv, SendInv, TypeOK
<1>s. \A t \in Tasks : /\ task[t].stage # "idle" => task[t] \in TaskRecord
                       /\ task[t].stage = "idle" => task[t] = Idle
  BY <1>k, TaskShape
<1>r. task \in [Tasks -> {Idle} \cup TaskRecord] /\ acked \in SUBSET Events
  BY <1>k DEF TypeOK, TaskRecord
<1>1. ASSUME NEW t \in Tasks, NEW e \in Events, Publish(t, e) PROVE AckedIsInHand'
  <2>1. CASE DuplicateInMemory(t, e)
    <3>1. Stored(e) \/ ~ Quiet(e)
      BY <2>1, <1>k, ConstantsAssumption DEF DuplicateInMemory, RememberedIsStored, AckedIsInHand
    <3>2. QED
      BY <1>1, <2>1, <3>1 DEF Publish, DuplicateInMemory, AckedIsInHand, busVars
  <2>2. CASE Admit(t, e)
    <3>1. UNCHANGED <<rows, acked, cancelled>> /\ task' = [task EXCEPT ![t] = Started(e)]
      BY <1>1, <2>2 DEF Publish, Admit
    <3>2. \A u \in Tasks, f \in Events : Working(u, f) => Working(u, f)'
      BY <1>1, <1>r, <3>1 DEF Publish
    <3>3. QED
      BY <1>r, <3>1, <3>2 DEF AckedIsInHand
  <2>3. QED
    BY <1>1, <2>1, <2>2 DEF Publish
<1>2. ASSUME NEW t \in Tasks, IsDuplicatePersistent(t) PROVE AckedIsInHand'
  <2>1. UNCHANGED <<rows, cancelled>> /\ acked' \subseteq acked \cup {task[t].ev}
    BY <1>2 DEF IsDuplicatePersistent, busVars
  <2>2. CASE Stored(task[t].ev) /\ Leave(t)
    BY <1>r, <2>1, <2>2 DEF AckedIsInHand, Leave
  <2>3. CASE Goto(t, "insert") /\ UNCHANGED acked
    <3>1. \A u \in Tasks, e \in Events : Working(u, e) => Working(u, e)'
      BY <1>2, <1>r, <1>s, <2>3 DEF Goto, IsDuplicatePersistent, TaskRecord
    <3>2. QED
      BY <1>r, <2>1, <2>3, <3>1 DEF AckedIsInHand
  <2>4. QED
    BY <1>2, <2>2, <2>3 DEF IsDuplicatePersistent
<1>3. ASSUME NEW t \in Tasks, PersistToPostgres(t) PROVE AckedIsInHand'
  <2>1. /\ UNCHANGED <<rows, cancelled, acked>>
        /\ task' = [task EXCEPT ![t].stage = "commit", ![t].offset = nextOffset]
    BY <1>3, <1>k DEF PersistToPostgres, history
  <2>2. \A u \in Tasks, e \in Events : Working(u, e) => Working(u, e)'
    BY <1>r, <1>s, <2>1 DEF TaskRecord
  <2>3. QED
    BY <1>r, <2>1, <2>2 DEF AckedIsInHand
<1>4. ASSUME NEW t \in Tasks, InsertReply(t) PROVE AckedIsInHand'
  BY <1>4, <1>k, <1>r, <1>s DEF AckedIsInHand, InsertReply, Raise, Leave, Goto, Idle, history, TaskRecord
<1>5. ASSUME NEW t \in Tasks, SendTyped(t) PROVE AckedIsInHand'
  <2>1. /\ UNCHANGED <<rows, cancelled, acked>>
        /\ task' = [task EXCEPT ![t].stage = "system"]
    BY <1>5, <1>k DEF SendTyped, Goto, history
  <2>2. \A u \in Tasks, e \in Events : Working(u, e) => Working(u, e)'
    BY <1>r, <1>s, <2>1 DEF TaskRecord
  <2>3. QED
    BY <1>r, <2>1, <2>2 DEF AckedIsInHand
<1>6. ASSUME NEW t \in Tasks, SendSystem(t) PROVE AckedIsInHand'
  BY <1>6, <1>k, <1>r, <1>s DEF AckedIsInHand, SendSystem, Leave, Idle, OneSender, Sending
<1>7. CASE UNCHANGED vars
  BY <1>7 DEF AckedIsInHand, vars, busVars, history
<1>8. QED
  BY <1>1, <1>2, <1>3, <1>4, <1>5, <1>6, <1>7, NothingFails DEF Step

\* Without failures every acknowledged event goes out exactly once.
THEOREM DeliveryIsExactlyOnce == Spec => []ExactlyOnceDelivery
<1>1. Init => FaultFreeInv
  BY DEF Init, FaultFreeInv, OnceEach, AckedIsInHand, Stored, At, Idle
<1>2. IInv /\ FaultFreeInv /\ [Next]_vars => FaultFreeInv'
  <2>1. [Next]_vars => faults' = faults
    BY DEF Next, vars
  <2>2. QED
    BY <2>1, OnceEachStep, AckedStep DEF FaultFreeInv
<1>3. IInv /\ FaultFreeInv => ExactlyOnceDelivery
  BY DEF IInv, TypeOK, FaultFreeInv, OnceEach, AckedIsInHand, ExactlyOnceDelivery, Quiet, Working, Sends, Sending
<1>4. QED
  BY <1>1, <1>2, <1>3, Invariance, PTL DEF Spec
=============================================================================
